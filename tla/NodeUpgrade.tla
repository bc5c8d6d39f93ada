---------------------------- MODULE NodeUpgrade ----------------------------
(***************************************************************************)
(* A node's replacement of its own binary: upgrade/marker.rs (the marker   *)
(* and the startup decision), upgrade/manager.rs (prepare, execute,        *)
(* startup recovery, commit), upgrade/store.rs (the versioned binaries and *)
(* the entry symlink) and the agent's verdict on a new binary.             *)
(*                                                                         *)
(* Every write that survives a crash is a step of its own, so a node can   *)
(* stop between any two of them.  A version stands for the bytes stored    *)
(* under it: stage_file refuses other bytes under a stored version.        *)
(*                                                                         *)
(* One node is described by its files (marker, link, installed, verified,  *)
(* reverted) and by its process (version, task, want).                     *)
(***************************************************************************)
EXTENDS Integers, FiniteSets

CONSTANTS
    Nodes,      \* the nodes
    Versions,   \* the releases, ordered as the code orders versions
    Base,       \* the release every node starts on
    Ids,        \* the ids cluster upgrades carry in their directives
    MaxBoots,   \* upgrades.max_boot_attempts
    Retain      \* upgrades.retain_versions

ASSUME NodeConstants ==
    /\ Versions \subseteq Nat \ {0}
    /\ Ids \subseteq Nat \ {0}
    /\ Base \in Versions
    /\ MaxBoots \in Nat
    /\ Retain \in Nat

VARIABLES
    marker,     \* marker.json of each node
    link,       \* the version the entry symlink names
    installed,  \* the versions with a binary in the store
    verified,   \* the versions the history records as committed
    reverted,   \* the ids the history records as reverted
    version,    \* the version the process runs; 0 while it is down
    task,       \* what the process is about to do
    want        \* the directive being prepared

nodeVars == <<marker, link, installed, verified, reverted, version, task, want>>

NoMarker == [id |-> 0, from |-> 0, to |-> 0, phase |-> "none", boots |-> 0]
NoWant == [id |-> 0, to |-> 0]

(* A rollback's id names its target and nothing else, so it is the same    *)
(* for every rollback to that version.                                     *)
RollbackId(v) == -v

AllIds == Ids \union {RollbackId(v) : v \in Versions}

Markers == [id: AllIds, from: Versions, to: Versions,
            phase: {"staged", "executed", "verifying", "revert"}, boots: Nat]

Tasks == {"down", "boot", "reverting", "execprev", "reverted", "idle",
          "preparing", "stored", "staged", "executed", "swapped", "execfailed",
          "restored", "verify", "recorded", "pruned"}

(* The API answers once startup recovery is over; the agent's loop takes   *)
(* directives unless it is inside the turn that execs.                     *)
Serving(n) == task[n] \notin {"down", "boot", "reverting", "execprev", "reverted"}
Hears(n) == task[n] \in {"idle", "preparing", "stored", "verify", "recorded", "pruned"}

InFlight(n) == marker[n] # NoMarker

NodeTypeOK ==
    /\ marker \in [Nodes -> Markers \union {NoMarker}]
    /\ link \in [Nodes -> Versions]
    /\ installed \in [Nodes -> SUBSET Versions]
    /\ verified \in [Nodes -> SUBSET Versions]
    /\ reverted \in [Nodes -> SUBSET AllIds]
    /\ version \in [Nodes -> Versions \union {0}]
    /\ task \in [Nodes -> Tasks]
    /\ want \in [Nodes -> [id: AllIds \union {0}, to: Versions \union {0}]]

NodeInit ==
    /\ marker = [n \in Nodes |-> NoMarker]
    /\ link = [n \in Nodes |-> Base]
    /\ installed = [n \in Nodes |-> {Base}]
    /\ verified = [n \in Nodes |-> {Base}]
    /\ reverted = [n \in Nodes |-> {}]
    /\ version = [n \in Nodes |-> Base]
    /\ task = [n \in Nodes |-> "idle"]
    /\ want = [n \in Nodes |-> NoWant]

(***************************************************************************)
(* The process: the supervisor starts what the symlink names, and it can   *)
(* die at any step.                                                        *)
(***************************************************************************)
StartUp(n) ==
    /\ version[n] = 0
    /\ version' = [version EXCEPT ![n] = link[n]]
    /\ task' = [task EXCEPT ![n] = "boot"]
    /\ UNCHANGED <<marker, link, installed, verified, reverted, want>>

GoesDown(n) ==
    /\ version' = [version EXCEPT ![n] = 0]
    /\ task' = [task EXCEPT ![n] = "down"]
    /\ want' = [want EXCEPT ![n] = NoWant]

Crash(n) ==
    /\ version[n] # 0
    /\ GoesDown(n)
    /\ UNCHANGED <<marker, link, installed, verified, reverted>>

(* exec of the entry symlink: the same process, another image.             *)
ExecCurrentSymlink(n) ==
    /\ version' = [version EXCEPT ![n] = link[n]]
    /\ task' = [task EXCEPT ![n] = "boot"]
    /\ UNCHANGED <<marker, link, installed, verified, reverted, want>>

Goes(n, next) ==
    /\ task' = [task EXCEPT ![n] = next]
    /\ UNCHANGED <<version, want>>

(***************************************************************************)
(* Preparing: prepare and prepare_rollback, behind the agent's refusal of  *)
(* a second preparation.  What a directive meets at a node that hears it:  *)
(*   "ok"       the same one is under way, or the node runs these bytes    *)
(*   "refused"  another is under way, or the id was reverted here, or the  *)
(*              version to return to is not in the store                   *)
(*   "begin"    the node fetches, verifies and stages                      *)
(***************************************************************************)
Preparing(n) == task[n] \in {"preparing", "stored"}

(* Mutant of MetUpgrade: reverted ids are not looked up.                   *)
MetUpgradeForgetful(n, id, to) ==
    IF InFlight(n) THEN IF marker[n].id = id THEN "ok" ELSE "refused"
    ELSE IF version[n] = to THEN "ok"
    ELSE IF version[n] > to THEN "refused"
    ELSE "begin"

MetUpgrade(n, id, to) ==
    IF InFlight(n) THEN IF marker[n].id = id THEN "ok" ELSE "refused"
    ELSE IF id \in reverted[n] THEN "refused"
    ELSE IF version[n] = to THEN "ok"
    ELSE IF version[n] > to THEN "refused"
    ELSE "begin"

MetRollback(n, to) ==
    IF InFlight(n) THEN IF marker[n].id = RollbackId(to) THEN "ok" ELSE "refused"
    ELSE IF to \in installed[n] THEN "begin" ELSE "refused"

Met(n, id, to) ==
    IF Preparing(n) THEN IF id > 0 /\ want[n].id = id THEN "ok" ELSE "refused"
    ELSE IF id > 0 THEN MetUpgrade(n, id, to)
    ELSE MetRollback(n, to)

BeginPreparing(n, id, to) ==
    /\ Hears(n)
    /\ Met(n, id, to) = "begin"
    /\ task' = [task EXCEPT ![n] = "preparing"]
    /\ want' = [want EXCEPT ![n] = [id |-> id, to |-> to]]
    /\ UNCHANGED <<marker, link, installed, verified, reverted, version>>

(* The binary goes into the store, and the running one with it if it is    *)
(* not there.  A rollback's binary is there already.                       *)
StageBinary(n) ==
    /\ task[n] = "preparing"
    /\ installed' = [installed EXCEPT ![n] = @ \union {version[n], want[n].to}]
    /\ Goes(n, "stored")
    /\ UNCHANGED <<marker, link, verified, reverted>>

StageMarker(n) ==
    /\ task[n] = "stored"
    /\ marker' = [marker EXCEPT ![n] =
           [id |-> want[n].id, from |-> version[n], to |-> want[n].to,
            phase |-> "staged", boots |-> 0]]
    /\ task' = [task EXCEPT ![n] = "staged"]
    /\ want' = [want EXCEPT ![n] = NoWant]
    /\ UNCHANGED <<link, installed, verified, reverted, version>>

(* The fetch, the signature, the compatibility check or a write fails.     *)
PreparationFails(n) ==
    /\ Preparing(n)
    /\ task' = [task EXCEPT ![n] = "idle"]
    /\ want' = [want EXCEPT ![n] = NoWant]
    /\ UNCHANGED <<marker, link, installed, verified, reverted, version>>

(***************************************************************************)
(* execute: the marker says Executed before the symlink moves, and the     *)
(* symlink moves before the exec.                                          *)
(***************************************************************************)
InPhase(n, phase, boots) ==
    marker' = [marker EXCEPT ![n] =
        [id |-> marker[n].id, from |-> marker[n].from, to |-> marker[n].to,
         phase |-> phase, boots |-> boots]]

RecordExecuted(n) ==
    /\ task[n] = "staged"
    /\ InPhase(n, "executed", 0)
    /\ Goes(n, "executed")
    /\ UNCHANGED <<link, installed, verified, reverted>>

Activate(n, v) == link' = [link EXCEPT ![n] = v]

ActivateTarget(n) ==
    /\ task[n] = "executed"
    /\ marker[n].to \in installed[n]
    /\ Activate(n, marker[n].to)
    /\ Goes(n, "swapped")
    /\ UNCHANGED <<marker, installed, verified, reverted>>

ExecTarget(n) ==
    /\ task[n] = "swapped"
    /\ ExecCurrentSymlink(n)

(* The Executed marker or the symlink could not be written: the marker is  *)
(* removed, if it can be, and the node stays as it was.                    *)
SwapRefused(n) ==
    /\ task[n] \in {"staged", "executed"}
    /\ \E m \in {NoMarker, marker[n]} : marker' = [marker EXCEPT ![n] = m]
    /\ Goes(n, "idle")
    /\ UNCHANGED <<link, installed, verified, reverted>>

ExecFails(n) ==
    /\ task[n] = "swapped"
    /\ Goes(n, "execfailed")
    /\ UNCHANGED <<marker, link, installed, verified, reverted>>

(* The exec failed: the symlink goes back first, and the marker goes only  *)
(* once it has.                                                            *)
RestorePrevious(n) ==
    /\ task[n] = "execfailed"
    /\ marker[n].from \in installed[n]
    /\ Activate(n, marker[n].from)
    /\ Goes(n, "restored")
    /\ UNCHANGED <<marker, installed, verified, reverted>>

(* Mutant of RestoreFails: the marker is archived although the symlink     *)
(* still names the target.                                                 *)
RestoreFailsForgetting(n) ==
    /\ task[n] = "execfailed"
    /\ marker' = [marker EXCEPT ![n] = NoMarker]
    /\ Goes(n, "idle")
    /\ UNCHANGED <<link, installed, verified, reverted>>

RestoreFails(n) ==
    /\ task[n] = "execfailed"
    /\ Goes(n, "idle")
    /\ UNCHANGED <<marker, link, installed, verified, reverted>>

ArchiveAbandoned(n) ==
    /\ task[n] = "restored"
    /\ marker' = [marker EXCEPT ![n] = NoMarker]
    /\ Goes(n, "idle")
    /\ UNCHANGED <<link, installed, verified, reverted>>

(***************************************************************************)
(* Startup: decide_startup and the file work of startup_action.            *)
(***************************************************************************)
DecideStartup(m, running, max) ==
    LET started == m.phase \in {"executed", "verifying"}
        undone  == m.phase = "revert"
    IN  CASE m = NoMarker -> "normal"
          [] m.phase = "staged" -> "stale"
          [] started /\ running = m.to ->
                 IF m.boots + 1 > max THEN "giveup" ELSE "verify"
          [] (started /\ running # m.to /\ running = m.from)
             \/ (undone /\ running = m.from) -> "complete"
          [] undone /\ running = m.to /\ running # m.from -> "revert"
          [] OTHER -> "stale"

Decision(n) == DecideStartup(marker[n], version[n], MaxBoots)

BootNormally(n) ==
    /\ task[n] = "boot"
    /\ Decision(n) \in {"normal", "stale"}
    /\ marker' = [marker EXCEPT ![n] = NoMarker]
    /\ Goes(n, "idle")
    /\ UNCHANGED <<link, installed, verified, reverted>>

(* The boot is counted on disk before the new binary does anything.        *)
BootToVerify(n) ==
    /\ task[n] = "boot"
    /\ Decision(n) = "verify"
    /\ InPhase(n, "verifying", marker[n].boots + 1)
    /\ Goes(n, "verify")
    /\ UNCHANGED <<link, installed, verified, reverted>>

BootToRevert(n) ==
    /\ task[n] = "boot"
    /\ Decision(n) \in {"giveup", "revert"}
    /\ InPhase(n, "revert",
               IF Decision(n) = "giveup" THEN marker[n].boots + 1 ELSE marker[n].boots)
    /\ Goes(n, "reverting")
    /\ UNCHANGED <<link, installed, verified, reverted>>

(* Mutant of ActivatePrevious: the previous binary is executed without     *)
(* the symlink going back, so the supervisor starts the target again.      *)
ActivatePreviousInMemory(n) ==
    /\ task[n] = "reverting"
    /\ Goes(n, "execprev")
    /\ UNCHANGED <<marker, link, installed, verified, reverted>>

ActivatePrevious(n) ==
    /\ task[n] = "reverting"
    /\ marker[n].from \in installed[n]
    /\ Activate(n, marker[n].from)
    /\ Goes(n, "execprev")
    /\ UNCHANGED <<marker, installed, verified, reverted>>

ExecPrevious(n) ==
    /\ task[n] = "execprev"
    /\ ExecCurrentSymlink(n)

(* The previous binary is back: history first, then the marker.            *)
BootToComplete(n) ==
    /\ task[n] = "boot"
    /\ Decision(n) = "complete"
    /\ reverted' = [reverted EXCEPT ![n] = @ \union {marker[n].id}]
    /\ Goes(n, "reverted")
    /\ UNCHANGED <<marker, link, installed, verified>>

RemoveReverted(n) ==
    /\ task[n] = "reverted"
    /\ marker' = [marker EXCEPT ![n] = NoMarker]
    /\ Goes(n, "idle")
    /\ UNCHANGED <<link, installed, verified, reverted>>

(* A write of the recovery fails, or the removal of the marker after it:   *)
(* the code warns and boots on, with the marker still there for the next   *)
(* start.                                                                  *)
RecoveryFails(n) ==
    /\ \/ task[n] = "boot" /\ Decision(n) # "normal"
       \/ task[n] \in {"reverting", "reverted"}
    /\ Goes(n, "idle")
    /\ UNCHANGED <<marker, link, installed, verified, reverted>>

(***************************************************************************)
(* The verdict on the new binary: handle_upgrade_verify and commit.        *)
(***************************************************************************)
RecordCommitted(n) ==
    /\ task[n] = "verify"
    /\ verified' = [verified EXCEPT ![n] = @ \union {marker[n].to}]
    /\ Goes(n, "recorded")
    /\ UNCHANGED <<marker, link, installed, reverted>>

Newer(vs, v) == {w \in vs : w > v}

(* Mutant of CollectGarbage: only the version come from is kept.           *)
CollectGarbageKeepingPrevious(n) ==
    /\ task[n] = "recorded"
    /\ installed' = [installed EXCEPT ![n] =
           {v \in @ : v = marker[n].from \/ Cardinality(Newer(@, v)) < Retain}]
    /\ Goes(n, "pruned")
    /\ UNCHANGED <<marker, link, verified, reverted>>

CollectGarbage(n) ==
    /\ task[n] = "recorded"
    /\ installed' = [installed EXCEPT ![n] =
           {v \in @ : \/ v \in {marker[n].from, marker[n].to}
                      \/ Cardinality(Newer(@, v)) < Retain}]
    /\ Goes(n, "pruned")
    /\ UNCHANGED <<marker, link, verified, reverted>>

RemoveCommitted(n) ==
    /\ task[n] = "pruned"
    /\ marker' = [marker EXCEPT ![n] = NoMarker]
    /\ Goes(n, "idle")
    /\ UNCHANGED <<link, installed, verified, reverted>>

(* No peer acknowledged the new process in time: it flags the revert and   *)
(* exits, and the next start swaps back.                                   *)
RejoinFails(n) ==
    /\ task[n] = "verify"
    /\ InPhase(n, "revert", marker[n].boots)
    /\ GoesDown(n)
    /\ UNCHANGED <<link, installed, verified, reverted>>

(* The revert flag, the history entry or the removal cannot be written, or *)
(* the marker of a failed exec cannot be archived: the node stays up with  *)
(* its marker.                                                             *)
VerdictFails(n) ==
    /\ task[n] \in {"verify", "pruned", "restored"}
    /\ Goes(n, "idle")
    /\ UNCHANGED <<marker, link, installed, verified, reverted>>

(* Steps that keep the process, steps that end it, and failed writes.      *)
Works(n) ==
    \/ StageBinary(n) \/ RecordExecuted(n) \/ ActivateTarget(n)
    \/ RestorePrevious(n) \/ ArchiveAbandoned(n)
    \/ BootNormally(n) \/ BootToVerify(n) \/ BootToRevert(n)
    \/ ActivatePrevious(n) \/ BootToComplete(n) \/ RemoveReverted(n)
    \/ RecordCommitted(n) \/ CollectGarbage(n) \/ RemoveCommitted(n)

Replaces(n) == ExecTarget(n) \/ ExecPrevious(n)

FailsToWrite(n) ==
    \/ SwapRefused(n) \/ ExecFails(n) \/ RestoreFails(n)
    \/ RecoveryFails(n) \/ VerdictFails(n)

(* A node on its own: directives may come from anyone, in any order.       *)
Directed(n) ==
    \E to \in Versions :
        \/ \E id \in Ids : BeginPreparing(n, id, to)
        \/ BeginPreparing(n, RollbackId(to), to)

Ends(n) == RejoinFails(n) \/ Crash(n) \/ PreparationFails(n)

NodeStep(n) ==
    \/ StartUp(n) \/ StageMarker(n) \/ Works(n) \/ Replaces(n)
    \/ FailsToWrite(n) \/ Ends(n) \/ Directed(n)

NodeSpec == NodeInit /\ [][\E n \in Nodes : NodeStep(n)]_nodeVars

-----------------------------------------------------------------------------
(***************************************************************************)
(* Properties of a node.                                                   *)
(***************************************************************************)

(* A binary that has not passed its verification is never the one the      *)
(* supervisor would start unless the marker that makes startup revert it   *)
(* is on disk, whatever write or crash came in between (manager.rs         *)
(* execute, startup_action, commit).                                       *)
UnverifiedIsGuarded ==
    \A n \in Nodes :
        link[n] \notin verified[n] =>
            /\ marker[n].to = link[n]
            /\ marker[n].phase \in {"executed", "verifying", "revert"}

(* The entry symlink never dangles, and while a swap can still be undone   *)
(* the binary it came from is in the store: retention, staging, activation *)
(* and rollback never take away what a restart needs (store.rs activate,   *)
(* garbage_collect; manager.rs commit).                                    *)
AlwaysBootable ==
    \A n \in Nodes :
        /\ link[n] \in installed[n]
        /\ InFlight(n) => marker[n].from \in installed[n]

(* A node that reverted an upgrade never puts the same upgrade on trial    *)
(* again, however often its directive is delivered and wherever the node   *)
(* stopped while it recorded the revert (manager.rs prepare and            *)
(* startup_action).                                                        *)
NoSecondTrial ==
    \A n \in Nodes :
        (marker[n].id > 0 /\ version[n] = marker[n].to /\ marker[n].phase # "revert")
            => marker[n].id \notin reverted[n]
=============================================================================
