------------------------------ MODULE Rollout ------------------------------
(***************************************************************************)
(* Node-by-node rollouts of one app with one replica per node.             *)
(*                                                                         *)
(* The council keeps the app's spec, the last specs that rolled out        *)
(* everywhere and the spec whose rollout failed.  The leader hands each    *)
(* node that polls either that spec or a hold, from what the nodes last    *)
(* reported.  A node's placement reconciler records ownership on disk,     *)
(* has its agent deploy, records the outcome and tells the agent what it   *)
(* has converged on, which the next report carries.                        *)
(*                                                                         *)
(* A spec is its version (rollout_fingerprint): changes of the replica     *)
(* count appear as Rescale (the mark) and Reschedule (the placements).     *)
(***************************************************************************)
EXTENDS Naturals, Sequences, FiniteSets

CONSTANTS
    Nodes,      \* node ids, in their order
    Versions,   \* versions of the app
    First,      \* the version the app starts with
    Targets,    \* ROLLBACK_TARGETS_PER_APP
    Settings    \* where a behaviour may start, and how much trouble it meets

ASSUME NodesAssumption == Nodes \subseteq Nat
ASSUME VersionsAssumption ==
    First \in Versions /\ "none" \notin Versions /\ "pending" \notin Versions
ASSUME TargetsAssumption == Targets \in Nat \ {0}
ASSUME SettingsAssumption ==
    \A s \in Settings :
        /\ s.released \in {<<>>, <<First>>}
        /\ s.members \subseteq Nodes /\ s.placed \subseteq Nodes /\ s.running \subseteq Nodes

VARIABLES
    desired,    \* the app's committed spec
    released,   \* AppRollouts::released, oldest first
    failed,     \* AppRollouts::failed
    placed,     \* nodes the scheduler places a replica on
    reports,    \* what the leader last heard from each node
    deciding,   \* a RolloutReleased the leader is about to write
    posts,      \* failure reports on their way to the leader
    phase,      \* where each node's reconciler is; "absent" without a node
    entry,      \* its AssignmentState in memory
    disk,       \* the same in the checkpoint
    answer,     \* the leader's answer to its last poll
    before,     \* converged_before
    old,        \* versions that ran when the deploy began
    backoff,    \* the version whose redeploy waits
    conv,       \* the agent's converged_rollouts
    inst,       \* versions the node has an instance of
    adopted,    \* nodes whose instances are all adopted ones
    ailing,     \* nodes whose instance fails its health check
    ran,        \* history: versions each node came to run alone
    left        \* changes and trouble still to come

council == <<desired, released, failed>>
leader  == <<reports, deciding, posts>>
loop    == <<phase, entry, disk, answer, before, backoff>>
agent   == <<old, conv, inst, adopted, ailing>>
vars == <<desired, released, failed, placed, reports, deciding, posts, phase, entry, disk,
          answer, before, old, backoff, conv, inst, adopted, ailing, ran, left>>

Maybe == Versions \cup {"none"}

(* AssignmentState: Applied is the version, "none" no entry at all. *)
Entries == Maybe \cup {"pending"}

(* What a report says of the app: the converged version, and whether no      *)
(* instance, exactly the placed one in good health, or anything else runs.   *)
Reports == [conv : Maybe, kind : {"unknown", "empty", "well", "ill"}]
Unheard == [conv |-> "none", kind |-> "unknown"]

(* A NodeAssignment.  why, behind and marked are history: which rule of the  *)
(* plan chose, the nodes it looked at first, and whether the answer's        *)
(* version was marked failed.                                                *)
Reasons == {"absent", "free", "kept", "first", "turn", "hold"}
Answers == [ver : Maybe, why : Reasons, behind : SUBSET Nodes, marked : {"yes", "no"}]
NoAnswer == [ver |-> "none", why |-> "absent", behind |-> {}, marked |-> "no"]

TypeOK ==
    /\ desired \in Versions /\ released \in Seq(Versions) /\ Len(released) <= Targets
    /\ failed \in Maybe /\ placed \subseteq Nodes
    /\ reports \in [Nodes -> Reports]
    /\ deciding \in [ver : Maybe, nodes : SUBSET Nodes]
    /\ posts \subseteq Versions
    /\ phase \in [Nodes -> {"absent", "down", "idle", "polled", "deploying"}]
    /\ entry \in [Nodes -> Entries] /\ disk \in [Nodes -> Entries]
    /\ answer \in [Nodes -> Answers] /\ before \in [Nodes -> Entries]
    /\ old \in [Nodes -> SUBSET Versions] /\ backoff \in [Nodes -> Maybe]
    /\ conv \in [Nodes -> Maybe] /\ inst \in [Nodes -> SUBSET Versions]
    /\ adopted \subseteq Nodes /\ ailing \subseteq Nodes
    /\ ran \in [Nodes -> SUBSET Versions]

Idle == [ver |-> "none", nodes |-> {}]

(* A setting says which nodes there are, which run First already, whether it *)
(* is released, and the changes and trouble to come.                         *)
Init ==
    \E s \in Settings :
        /\ desired = First /\ released = s.released /\ failed = "none"
        /\ placed = s.placed
        /\ reports = [n \in Nodes |-> IF n \in s.running
                        THEN [conv |-> First, kind |-> "well"] ELSE [conv |-> "none", kind |-> "empty"]]
        /\ deciding = Idle /\ posts = {}
        /\ phase = [n \in Nodes |-> IF n \in s.members THEN "idle" ELSE "absent"]
        /\ entry = [n \in Nodes |-> IF n \in s.running THEN First ELSE "none"]
        /\ disk = entry
        /\ answer = [n \in Nodes |-> NoAnswer]
        /\ before = [n \in Nodes |-> "none"]
        /\ old = [n \in Nodes |-> {}] /\ backoff = [n \in Nodes |-> "none"]
        /\ conv = [n \in Nodes |-> IF n \in s.running THEN First ELSE "none"]
        /\ inst = [n \in Nodes |-> IF n \in s.running THEN {First} ELSE {}]
        /\ adopted = {} /\ ailing = {}
        /\ ran = [n \in Nodes |-> IF n \in s.running THEN {First} ELSE {}]
        /\ left = s.left

Spend(kind) ==
    /\ left[kind] > 0
    /\ left' = [left EXCEPT ![kind] = @ - 1]

-----------------------------------------------------------------------------
(* The council. *)

(* AppRollouts::last_released *)
last_released == IF released = <<>> THEN "none" ELSE released[Len(released)]

(* AppRollouts::release: the version becomes the newest target, moving up    *)
(* from where it stood (each stands once), and no more than Targets stay.    *)
Without(v) ==
    IF \E i \in 1..Len(released) : released[i] = v
    THEN LET i == CHOOSE i \in 1..Len(released) : released[i] = v
         IN  SubSeq(released, 1, i - 1) \o SubSeq(released, i + 1, Len(released))
    ELSE released

release(v) ==
    LET kept == Append(Without(v), v)
    IN  IF Len(kept) > Targets THEN SubSeq(kept, Len(kept) - Targets + 1, Len(kept)) ELSE kept

(* RaftRequest::AppSpec with another version: apply_app_spec drops the mark. *)
Apply(v) ==
    /\ Spend("applies")
    /\ v \in left.offers /\ v # desired
    /\ desired' = v /\ failed' = "none"
    /\ UNCHANGED <<released, placed, leader, loop, agent, ran>>

(* RaftRequest::AppSpec with another replica count: the version stays, the   *)
(* mark goes.                                                                *)
Rescale ==
    /\ Spend("moves")
    /\ failed # "none"
    /\ failed' = "none"
    /\ UNCHANGED <<desired, released, placed, leader, loop, agent, ran>>

(* The scheduler gives the node a replica or takes it away. *)
Reschedule(n) ==
    /\ Spend("moves")
    /\ phase[n] # "absent"
    /\ placed' = IF n \in placed THEN placed \ {n} ELSE placed \cup {n}
    /\ placed' # {}
    /\ UNCHANGED <<council, leader, loop, agent, ran>>

(* RaftRequest::RolloutFailed: refused for another spec than the current     *)
(* one, and for the one that already rolled out.                             *)
RolloutFailed(v) ==
    /\ v \in posts
    /\ posts' = posts \ {v}
    /\ failed' = IF v = desired /\ v # last_released THEN v ELSE failed
    /\ UNCHANGED <<desired, released, placed, reports, deciding, loop, agent, ran, left>>

(* RaftRequest::RolloutReleased *)
RolloutReleased ==
    LET v == deciding.ver
    IN  /\ v # "none"
        /\ deciding' = Idle
        /\ IF v = desired
           THEN /\ failed' = IF failed = v THEN "none" ELSE failed
                /\ released' = release(v)
           ELSE UNCHANGED <<failed, released>>
        /\ UNCHANGED <<desired, placed, reports, posts, loop, agent, ran, left>>

-----------------------------------------------------------------------------
(* The leader: what reports say of a node's share, and the plan. *)

(* NodeShare::Converged *)
Converged(n, v) == reports[n].kind # "unknown" /\ reports[n].conv = v
Healthy(n) == reports[n].kind = "well"
(* NodeShare::Empty *)
Empty(n) == reports[n].kind = "empty" /\ reports[n].conv = "none"

(* Mutant of Waits: a node that has not converged keeps nobody waiting. *)
WaitsOnSick(n) == Converged(n, desired) /\ ~Healthy(n)

(* Whether the plan's next nodes wait on this one. *)
Waits(n) == IF Converged(n, desired) THEN ~Healthy(n) ELSE ~Empty(n)

Plan(n, version, why) ==
    [ver |-> version, why |-> why, behind |-> {m \in placed : m < n /\ ~Empty(m)},
     marked |-> IF version = failed THEN "yes" ELSE "no"]

(* plan_release for one node the app is placed on. *)
plan_release(n) ==
    LET isFailed == failed = desired
        previous == IF last_released = desired THEN "none" ELSE last_released
    IN  IF previous = "none" /\ ~isFailed THEN Plan(n, desired, "free")
        ELSE IF Converged(n, desired) THEN Plan(n, desired, "kept")
        ELSE IF Empty(n) /\ ~isFailed THEN Plan(n, desired, "first")
        ELSE IF isFailed \/ \E m \in placed : m < n /\ Waits(m)
             THEN Plan(n, IF previous = "none" THEN desired ELSE previous, "hold")
        ELSE Plan(n, desired, "turn")

(* node_assignments *)
node_assignments(n) == IF n \in placed THEN plan_release(n) ELSE NoAnswer

(* Mutant of newly_released: one node that has converged is enough. *)
newly_releasedSomewhere ==
    /\ desired # last_released
    /\ \E n \in placed : Converged(n, desired) /\ Healthy(n)

(* newly_released *)
newly_released ==
    /\ desired # last_released
    /\ placed # {}
    /\ \A n \in placed : Converged(n, desired) /\ Healthy(n)

(* The scheduler loop decides on the state and the reports it has read... *)
Decide ==
    /\ deciding = Idle
    /\ newly_released
    /\ deciding' = [ver |-> desired, nodes |-> placed]
    /\ UNCHANGED <<council, placed, reports, posts, loop, agent, ran, left>>

(* ... and its write may not commit. *)
LoseWrite ==
    /\ Spend("lost")
    /\ deciding # Idle
    /\ deciding' = Idle
    /\ UNCHANGED <<council, placed, reports, posts, loop, agent, ran>>

LosePost(v) ==
    /\ Spend("lost")
    /\ v \in posts
    /\ posts' = posts \ {v}
    /\ UNCHANGED <<council, placed, reports, deciding, loop, agent, ran>>

(* A new leader has its own reports, and none yet. *)
Elect ==
    /\ Spend("elections")
    /\ reports' = [n \in Nodes |-> Unheard]
    /\ deciding' = Idle
    /\ UNCHANGED <<council, placed, posts, loop, agent, ran>>

(* A report's receive deadline passes. *)
GoStale(n) ==
    /\ Spend("lost")
    /\ reports[n] # Unheard
    /\ reports' = [reports EXCEPT ![n] = Unheard]
    /\ UNCHANGED <<council, placed, deciding, posts, loop, agent, ran>>

-----------------------------------------------------------------------------
(* A node's reconciler. *)

(* Mutant of converged_rollouts: a deploy in flight is published too. *)
converged_rolloutsOfAll(e) == e

(* converged_rollouts, as publish_converged sends it. *)
converged_rollouts(e) == IF e \in Versions THEN e ELSE "none"

(* The cycle ends with this entry, in memory and, when the save worked, on   *)
(* disk; the agent hears what the node has converged on.                     *)
EndCycle(n, e, d) ==
    /\ phase' = [phase EXCEPT ![n] = "idle"]
    /\ answer' = [answer EXCEPT ![n] = NoAnswer]
    /\ before' = [before EXCEPT ![n] = "none"]
    /\ old' = [old EXCEPT ![n] = {}]
    /\ entry' = [entry EXCEPT ![n] = e]
    /\ disk' = [disk EXCEPT ![n] = d]
    /\ conv' = [conv EXCEPT ![n] = converged_rollouts(e)]

(* GET /v1/placements/{node} *)
Poll(n) ==
    /\ phase[n] = "idle"
    /\ phase' = [phase EXCEPT ![n] = "polled"]
    /\ answer' = [answer EXCEPT ![n] = node_assignments(n)]
    /\ UNCHANGED <<council, placed, leader, entry, disk, before, backoff, agent, ran, left>>

(* held_assignment_applies: with one replica a node never changes its share  *)
(* of the version it runs, so only a first placement is left.                *)
held_assignment_applies(n) == entry[n] = "none"

(* Mutant of Skips: a pending entry counts as a deploy in flight. *)
SkipsPending(n) ==
    \/ entry[n] \in {answer[n].ver, "pending"}
    \/ answer[n].why = "hold" /\ ~held_assignment_applies(n)
    \/ backoff[n] = answer[n].ver

(* Nothing to do: converged already, held, or the same spec failed before.   *)
Skips(n) ==
    \/ entry[n] = answer[n].ver
    \/ answer[n].why = "hold" /\ ~held_assignment_applies(n)
    \/ backoff[n] = answer[n].ver

Skip(n) ==
    /\ phase[n] = "polled" /\ answer[n].why # "absent"
    /\ Skips(n)
    /\ EndCycle(n, entry[n], disk[n])
    /\ UNCHANGED <<council, placed, leader, backoff, inst, adopted, ailing, ran, left>>

(* retire_departed: the app is no longer placed here. *)
Retire(n) ==
    /\ phase[n] = "polled" /\ answer[n].why = "absent"
    /\ EndCycle(n, "none", "none")
    /\ inst' = [inst EXCEPT ![n] = {}]
    /\ backoff' = [backoff EXCEPT ![n] = "none"]
    /\ adopted' = adopted \ {n} /\ ailing' = ailing \ {n}
    /\ UNCHANGED <<council, placed, leader, ran, left>>

(* adopted_instances_match *)
adopted_instances_match(n) == n \in adopted /\ inst[n] = {answer[n].ver}

MayDeploy(n) ==
    /\ phase[n] = "polled" /\ answer[n].why # "absent"
    /\ ~Skips(n)

(* Adopted instances already run the placement: recorded, not redeployed,    *)
(* unless the save fails.                                                    *)
Adopt(n) ==
    /\ MayDeploy(n) /\ adopted_instances_match(n)
    /\ ran' = [ran EXCEPT ![n] = @ \cup {answer[n].ver}]
    /\ \/ /\ EndCycle(n, answer[n].ver, answer[n].ver)
          /\ backoff' = [backoff EXCEPT ![n] = "none"]
          /\ UNCHANGED left
       \/ /\ Spend("faults")
          /\ \E saved \in {disk[n], answer[n].ver} : EndCycle(n, entry[n], saved)
          /\ UNCHANGED backoff
    /\ UNCHANGED <<council, placed, leader, inst, adopted, ailing>>

(* Pending on disk, then the deploy is queued. *)
Begin(n) ==
    /\ MayDeploy(n) /\ ~adopted_instances_match(n)
    /\ phase' = [phase EXCEPT ![n] = "deploying"]
    /\ before' = [before EXCEPT ![n] = entry[n]]
    /\ entry' = [entry EXCEPT ![n] = "pending"]
    /\ disk' = [disk EXCEPT ![n] = "pending"]
    /\ old' = [old EXCEPT ![n] = inst[n]]
    /\ adopted' = adopted \ {n}
    /\ UNCHANGED <<council, placed, leader, answer, backoff, conv, inst, ailing, ran, left>>

(* The save fails before or after the rename, or the agent's queue is full   *)
(* once it worked: the cycle ends without a deploy.                          *)
BeginFails(n) ==
    /\ MayDeploy(n) /\ ~adopted_instances_match(n)
    /\ Spend("faults")
    /\ \E saved \in {<<entry[n], disk[n]>>, <<entry[n], "pending">>, <<"pending", "pending">>} :
           EndCycle(n, saved[1], saved[2])
    /\ UNCHANGED <<council, placed, leader, backoff, inst, adopted, ailing, ran>>

-----------------------------------------------------------------------------
(* The agent's deploy of the answer's version. *)

(* start_replacement comes up healthy: beside the old instance, or, without  *)
(* surge, after it.                                                          *)
StartNew(n) ==
    /\ phase[n] = "deploying" /\ answer[n].ver \notin inst[n]
    /\ left.surge = 0 => inst[n] = {}
    /\ inst' = [inst EXCEPT ![n] = @ \cup {answer[n].ver}]
    /\ ailing' = ailing \ {n}
    /\ UNCHANGED <<council, placed, leader, loop, old, conv, adopted, ran, left>>

RetireOld(n, v) ==
    /\ phase[n] = "deploying" /\ v \in inst[n] \ {answer[n].ver}
    /\ left.surge = 0 \/ answer[n].ver \in inst[n]
    /\ inst' = [inst EXCEPT ![n] = @ \ {v}]
    /\ UNCHANGED <<council, placed, leader, loop, old, conv, adopted, ailing, ran, left>>

(* The deploy is complete and recorded; a save that fails leaves the entry   *)
(* pending, though the file may say otherwise.                               *)
Complete(n) ==
    /\ phase[n] = "deploying" /\ inst[n] = {answer[n].ver}
    /\ backoff' = [backoff EXCEPT ![n] = "none"]
    /\ ran' = [ran EXCEPT ![n] = @ \cup {answer[n].ver}]
    /\ \/ EndCycle(n, answer[n].ver, answer[n].ver) /\ UNCHANGED left
       \/ /\ Spend("faults")
          /\ \E saved \in {"pending", answer[n].ver} : EndCycle(n, "pending", saved)
    /\ UNCHANGED <<council, placed, leader, inst, adopted, ailing>>

(* abort_rollout: a replacement failed.  Rolled back, every instance runs    *)
(* what ran before, and so says the entry; halted, the healthy ones stay.    *)
(* The leader is told either way, and the entry's save may fail.             *)
Abort(n) ==
    /\ phase[n] = "deploying" /\ old[n] # {}
    /\ Spend("failures")
    /\ \/ /\ inst' = [inst EXCEPT ![n] = old[n]]
          /\ LET again == IF before[n] \in Versions THEN before[n] ELSE "pending"
             IN  \E saved \in {<<again, again>>, <<"pending", again>>, <<"pending", "pending">>} :
                     EndCycle(n, saved[1], saved[2])
       \/ /\ EndCycle(n, "pending", "pending")
          /\ UNCHANGED inst
    /\ posts' = posts \cup {answer[n].ver}
    /\ backoff' = [backoff EXCEPT ![n] = answer[n].ver]
    /\ UNCHANGED <<council, placed, reports, deciding, adopted, ailing, ran>>

(* Any other error (a first start that fails, a retirement nobody confirmed, *)
(* a cancelled deploy): nobody is told and the entry stays pending.          *)
DeployFails(n) ==
    /\ phase[n] = "deploying"
    /\ Spend("failures")
    /\ inst' \in {inst, [inst EXCEPT ![n] = old[n]]}
    /\ EndCycle(n, "pending", "pending")
    /\ backoff' = [backoff EXCEPT ![n] = answer[n].ver]
    /\ UNCHANGED <<council, placed, leader, adopted, ailing, ran>>

(* DeployBackoff: the delay runs out. *)
BackoffEnds(n) ==
    /\ backoff[n] # "none"
    /\ backoff' = [backoff EXCEPT ![n] = "none"]
    /\ UNCHANGED <<council, placed, leader, phase, entry, disk, answer, before, agent, ran, left>>

-----------------------------------------------------------------------------
(* The process stops: its instances live on, among them one that was not     *)
(* healthy yet, or, when the host goes down, none does.                      *)
Crash(n) ==
    /\ phase[n] \notin {"absent", "down"}
    /\ Spend("crashes")
    /\ \/ inst' \in {inst, [inst EXCEPT ![n] = {}]} /\ UNCHANGED ailing
       \/ /\ phase[n] = "deploying" /\ (left.surge = 0 => inst[n] = {})
          /\ inst' = [inst EXCEPT ![n] = @ \cup {answer[n].ver}]
          /\ ailing' = ailing \cup {n}
    /\ phase' = [phase EXCEPT ![n] = "down"]
    /\ answer' = [answer EXCEPT ![n] = NoAnswer]
    /\ before' = [before EXCEPT ![n] = "none"]
    /\ old' = [old EXCEPT ![n] = {}]
    /\ backoff' = [backoff EXCEPT ![n] = "none"]
    /\ entry' = [entry EXCEPT ![n] = "none"]
    /\ conv' = [conv EXCEPT ![n] = "none"]
    /\ adopted' = adopted \ {n}
    /\ UNCHANGED <<council, placed, leader, disk, ran>>

(* Mutant of retain_live_assignments: the checkpoint is trusted. *)
retain_live_assignmentsTrusting(n) == disk[n]

(* adopt_recorded_instances, then load and retain_live_assignments: an entry *)
(* whose instances are not all there is pending again.                       *)
retain_live_assignments(n) ==
    IF disk[n] \in Versions /\ Cardinality(inst[n]) # 1 THEN "pending" ELSE disk[n]

Restart(n) ==
    /\ phase[n] = "down"
    /\ phase' = [phase EXCEPT ![n] = "idle"]
    /\ entry' = [entry EXCEPT ![n] = retain_live_assignments(n)]
    /\ disk' = [disk EXCEPT ![n] = retain_live_assignments(n)]
    /\ adopted' = IF inst[n] = {} THEN adopted ELSE adopted \cup {n}
    /\ UNCHANGED <<council, placed, leader, answer, before, backoff, old, conv, inst, ailing, ran, left>>

(* The health check of a running instance fails, and passes again. *)
Sicken(n) ==
    /\ Spend("ails")
    /\ inst[n] # {} /\ n \notin ailing
    /\ ailing' = ailing \cup {n}
    /\ UNCHANGED <<council, placed, leader, loop, old, conv, inst, adopted, ran>>

Heal(n) ==
    /\ n \in ailing
    /\ ailing' = ailing \ {n}
    /\ UNCHANGED <<council, placed, leader, loop, old, conv, inst, adopted, ran, left>>

(* A state report, and node_share's reading of the app's instances in it. *)
node_share(n) ==
    CASE inst[n] = {} -> "empty"
      [] Cardinality(inst[n]) = 1 /\ n \notin ailing -> "well"
      [] OTHER -> "ill"

Report(n) ==
    /\ phase[n] \notin {"absent", "down"}
    /\ reports' = [reports EXCEPT ![n] = [conv |-> conv[n], kind |-> node_share(n)]]
    /\ UNCHANGED <<council, placed, deciding, posts, loop, agent, ran, left>>

-----------------------------------------------------------------------------
Next ==
    \/ \E v \in Versions : Apply(v)
    \/ Rescale
    \/ \E n \in Nodes : Reschedule(n)
    \/ \E v \in Versions : RolloutFailed(v)
    \/ RolloutReleased
    \/ Decide
    \/ LoseWrite
    \/ \E v \in Versions : LosePost(v)
    \/ Elect
    \/ \E n \in Nodes : GoStale(n)
    \/ \E n \in Nodes : Poll(n)
    \/ \E n \in Nodes : Skip(n)
    \/ \E n \in Nodes : Retire(n)
    \/ \E n \in Nodes : Adopt(n)
    \/ \E n \in Nodes : Begin(n)
    \/ \E n \in Nodes : BeginFails(n)
    \/ \E n \in Nodes : StartNew(n)
    \/ \E n \in Nodes, v \in Versions : RetireOld(n, v)
    \/ \E n \in Nodes : Complete(n)
    \/ \E n \in Nodes : Abort(n)
    \/ \E n \in Nodes : DeployFails(n)
    \/ \E n \in Nodes : BackoffEnds(n)
    \/ \E n \in Nodes : Crash(n)
    \/ \E n \in Nodes : Restart(n)
    \/ \E n \in Nodes : Sicken(n)
    \/ \E n \in Nodes : Heal(n)
    \/ \E n \in Nodes : Report(n)

Spec == Init /\ [][Next]_vars

(* The timers of every loop fire again and again, a deploy's steps end, a    *)
(* process is restarted, a request that is not lost arrives and an instance  *)
(* that fails its check recovers.                                            *)
Fairness ==
    /\ WF_vars(Decide) /\ WF_vars(RolloutReleased)
    /\ \A v \in Versions : WF_vars(RolloutFailed(v))
    /\ \A n \in Nodes :
        /\ WF_vars(Poll(n)) /\ WF_vars(Skip(n)) /\ WF_vars(Retire(n)) /\ WF_vars(Adopt(n))
        /\ WF_vars(Begin(n)) /\ WF_vars(StartNew(n)) /\ WF_vars(Complete(n))
        /\ WF_vars(\E v \in Versions : RetireOld(n, v))
        /\ WF_vars(BackoffEnds(n)) /\ WF_vars(Restart(n)) /\ WF_vars(Heal(n))
        /\ WF_vars(Report(n))

FairSpec == Spec /\ Fairness

-----------------------------------------------------------------------------
(* A placement recorded as applied is what the node runs: the reconciler     *)
(* skips such a placement, and the leader counts the node as rolled out,     *)
(* whatever crash, failed save, rollback or adoption came before.            *)
AppliedIsRunning ==
    \A n \in Nodes :
        phase[n] \in {"idle", "polled"} /\ entry[n] \in Versions => inst[n] = {entry[n]}

(* A version replaces instances only where the rollout has earned it: a node *)
(* whose turn it is follows nodes that all came to run the version alone,    *)
(* and a version marked failed replaces nothing on a node it never ran on.   *)
ReplacementsAreEarned ==
    \A n \in Nodes : phase[n] = "deploying" /\ old[n] # {} =>
        /\ answer[n].why = "turn" => \A m \in answer[n].behind : answer[n].ver \in ran[m]
        /\ answer[n].marked = "yes" => answer[n].ver \in ran[n]

(* A spec becomes a rollback target, and what later rollouts hold nodes on,  *)
(* only after every node it was placed on came to run it.                    *)
ReleasedRanEverywhere ==
    [][released' # released => \A n \in deciding.nodes : last_released' \in ran[n]]_vars

(* A rollout ends: again and again the current spec is the newest target or  *)
(* marked failed.                                                            *)
RolloutEnds == []<>(desired \in {last_released, failed})

(* A placed node with no instance is given one: "A node with no instance yet *)
(* starts this spec" (Release::Hold).                                        *)
PlacedNodesServe ==
    \A n \in Nodes : (n \in placed /\ inst[n] = {}) ~> (n \notin placed \/ inst[n] # {})
=============================================================================
