--------------------------- MODULE UpgradeProofs ---------------------------
(***************************************************************************)
(* First, what a node's upgrade promises for any number of nodes, releases *)
(* and directives, and however it stops.  Shape says, for every task of    *)
(* the process, what marker, symlink, store and history look like beneath  *)
(* it.                                                                     *)
(*                                                                         *)
(* Then, that a node in a fleet is a node of NodeSpec: whatever the        *)
(* orchestrator, the operator, the council and the network do, each node   *)
(* only ever takes NodeUpgrade's steps, so the node's promises hold in     *)
(* every cluster, and that the cluster keeps its types.                    *)
(*                                                                         *)
(* Last, what a run promises for a cluster of any size.  FleetInv says     *)
(* that every copy of the run, the council's and those in the ticks of     *)
(* leaders new and old, calls healthy only nodes that are done (Truthful)  *)
(* and otherwise keeps to the order of the plan (InPlan), and that the     *)
(* nodes the upgrade is under way at, or that have reverted it, are among  *)
(* the first of their group that are not done (InTurn).  The first k of a  *)
(* set are at most k, so they fit into one batch.                          *)
(***************************************************************************)
EXTENDS FleetUpgrade, TLAPS, FiniteSetTheorems, WellFoundedInduction

-----------------------------------------------------------------------------
(* A node.                                                                 *)

(* m marker, l link, i installed, vf verified, rv reverted, ver version,   *)
(* t task, w want of one node.                                             *)
FilesFit(m, l, i, vf) ==
    /\ l \in i
    /\ l \in vf \/ (m.to = l /\ m.phase \notin {"none", "staged"})
    /\ m.phase # "none" =>
           /\ m.from \in i
           /\ m.from \in vf
           /\ l = m.from \/ l = m.to
           /\ m.id > 0 => m.from # m.to
    /\ m.phase = "staged" => l = m.from

ProcessFits(m, l, vf, ver, t) ==
    /\ t = "down" <=> ver = 0
    /\ m.phase = "none" /\ ver # 0 => ver = l
    /\ t = "boot" => ver = l
    /\ t \in {"preparing", "stored"} => m.phase = "none"
    /\ t = "staged" => m.phase = "staged" /\ l = m.from /\ ver = m.from
    /\ t \in {"executed", "restored"} => m.phase = "executed" /\ l = m.from /\ ver = m.from
    /\ t \in {"swapped", "execfailed"} => m.phase = "executed" /\ l = m.to /\ ver = m.from
    /\ t \in {"verify", "recorded", "pruned"} => m.phase = "verifying" /\ l = m.to /\ ver = m.to
    /\ t \in {"recorded", "pruned"} => m.to \in vf
    /\ t = "reverting" => m.phase = "revert" /\ l = m.to /\ ver = m.to
    /\ t = "execprev" => m.phase = "revert" /\ l = m.from
    /\ t = "reverted" => m.phase \notin {"none", "staged"} /\ l = m.from /\ ver = m.from

HistoryFits(m, l, rv, ver, t, w) ==
    /\ t \in {"preparing", "stored"} =>
           /\ w.id \in AllIds
           /\ w.to \in Versions
           /\ w.id > 0 => w.id \notin rv /\ w.to # ver
    /\ m.id > 0 /\ m.id \in rv =>
           /\ t \in {"down", "boot", "reverted", "idle"}
           /\ l = m.from
           /\ ver = 0 \/ ver = m.from
           /\ m.phase # "staged"

Shape(n) ==
    /\ FilesFit(marker[n], link[n], installed[n], verified[n])
    /\ ProcessFits(marker[n], link[n], verified[n], version[n], task[n])
    /\ HistoryFits(marker[n], link[n], reverted[n], version[n], task[n], want[n])

NodeInv == NodeTypeOK /\ \A n \in Nodes : Shape(n)

(* A step of one node leaves the others alone.                             *)
OnlyAt(n) ==
    \A k \in Nodes \ {n} :
        /\ marker'[k] = marker[k] /\ link'[k] = link[k] /\ installed'[k] = installed[k]
        /\ verified'[k] = verified[k] /\ reverted'[k] = reverted[k]
        /\ version'[k] = version[k] /\ task'[k] = task[k] /\ want'[k] = want[k]

(* A step that leaves the other nodes alone keeps the invariant when its   *)
(* own node keeps its shape.                                               *)
LEMMA OneNodeSteps ==
    ASSUME NodeInv, NEW n \in Nodes, NodeTypeOK', OnlyAt(n), Shape(n)'
    PROVE  NodeInv'
  <1>1. ASSUME NEW k \in Nodes PROVE Shape(k)'
    <2>1. CASE k = n BY <2>1
    <2>2. CASE k # n
      <3>1. Shape(k) BY DEF NodeInv
      <3>2. /\ marker'[k] = marker[k] /\ link'[k] = link[k] /\ installed'[k] = installed[k]
            /\ verified'[k] = verified[k] /\ reverted'[k] = reverted[k]
            /\ version'[k] = version[k] /\ task'[k] = task[k] /\ want'[k] = want[k]
        BY <2>2 DEF OnlyAt
      <3>q. QED BY <3>1, <3>2 DEF Shape
    <2>q. QED BY <2>1, <2>2
  <1>q. QED BY <1>1 DEF NodeInv

(* The invariant holds at first.                                           *)
LEMMA NodeInitHolds == NodeInit => NodeInv
  <1>1. SUFFICES ASSUME NodeInit PROVE NodeInv
    OBVIOUS
  <1>2. NodeTypeOK
    BY <1>1, NodeConstants DEF NodeInit, NodeTypeOK, NoMarker, NoWant, Tasks
  <1>3. ASSUME NEW n \in Nodes PROVE Shape(n)
    <2>1. /\ marker[n] = NoMarker /\ link[n] = Base /\ installed[n] = {Base}
          /\ verified[n] = {Base} /\ reverted[n] = {} /\ version[n] = Base
          /\ task[n] = "idle" /\ want[n] = NoWant
      BY <1>1 DEF NodeInit
    <2>2. FilesFit(marker[n], link[n], installed[n], verified[n])
      BY <2>1 DEF FilesFit, NoMarker
    <2>3. ProcessFits(marker[n], link[n], verified[n], version[n], task[n])
      BY <2>1, NodeConstants DEF ProcessFits, NoMarker
    <2>4. HistoryFits(marker[n], link[n], reverted[n], version[n], task[n], want[n])
      BY <2>1 DEF HistoryFits, NoMarker
    <2>q. QED BY <2>2, <2>3, <2>4 DEF Shape
  <1>q. QED BY <1>2, <1>3 DEF NodeInv

(* What the invariant says of one node.                                    *)
Known(n) ==
    /\ NodeTypeOK
    /\ marker[n] \in Markers \union {NoMarker}
    /\ link[n] \in Versions
    /\ version[n] \in Versions \union {0}
    /\ installed[n] \subseteq Versions
    /\ FilesFit(marker[n], link[n], installed[n], verified[n])
    /\ ProcessFits(marker[n], link[n], verified[n], version[n], task[n])
    /\ HistoryFits(marker[n], link[n], reverted[n], version[n], task[n], want[n])

(* The invariant at one node.                                              *)
LEMMA Here ==
    ASSUME NodeInv, NEW n \in Nodes
    PROVE  Known(n)
  BY DEF NodeInv, NodeTypeOK, Shape, Known

(* What a step that a node takes without being told may do to it: the      *)
(* marker stays, goes or takes up what was being prepared; preparation     *)
(* ends or goes on; the history grows, a revert being recorded only once   *)
(* the symlink is back; and the symlink moves only while a swap is under   *)
(* way whose revert is not yet recorded.                                   *)
Advances(n) ==
    /\ OnlyAt(n)
    /\ \/ marker'[n] = NoMarker
       \/ marker'[n].id = marker[n].id /\ marker'[n].to = marker[n].to
       \/ /\ Preparing(n) /\ ~Preparing(n)'
          /\ marker'[n].id = want[n].id /\ marker'[n].to = want[n].to
    /\ Preparing(n)' => Preparing(n) /\ want'[n] = want[n]
    /\ want'[n] \in {NoWant, want[n]}
    /\ \/ reverted'[n] = reverted[n]
       \/ /\ reverted'[n] = reverted[n] \union {marker[n].id}
          /\ InFlight(n) /\ marker'[n] = marker[n]
          /\ link'[n] = marker[n].from /\ ~Preparing(n)'
    /\ verified[n] \subseteq verified'[n]
    /\ ~InFlight(n) \/ (marker[n].id > 0 /\ marker[n].id \in reverted[n]) => link'[n] = link[n]

(* The supervisor starts what the symlink names.                          *)
LEMMA StartUpKeeps ==
    ASSUME NodeInv, NEW n \in Nodes, StartUp(n)
    PROVE  NodeInv' /\ Advances(n)
  <1>0. Known(n) BY Here
  <1>1. /\ marker' = marker
          /\ link' = link
          /\ installed' = installed
          /\ verified' = verified
          /\ reverted' = reverted
          /\ version'[n] = link[n]
          /\ task'[n] = "boot"
          /\ want' = want
    BY <1>0 DEF StartUp, Known, NodeTypeOK
  <1>2. NodeTypeOK'
    BY <1>0, NodeConstants DEF StartUp, Known, NodeTypeOK, Markers, AllIds, Tasks, NoWant, NoMarker,
       FilesFit, ProcessFits, HistoryFits
  <1>3. OnlyAt(n) BY <1>0 DEF StartUp, OnlyAt, Known, NodeTypeOK
  <1>4. FilesFit(marker[n], link[n], installed[n], verified[n])'
    BY <1>0, <1>1, NodeConstants DEF StartUp, Known, NodeTypeOK, FilesFit, ProcessFits, HistoryFits, NoMarker, Markers
  <1>5. ProcessFits(marker[n], link[n], verified[n], version[n], task[n])'
    BY <1>0, <1>1, NodeConstants DEF StartUp, Known, FilesFit, ProcessFits, NoMarker, Markers
  <1>6. HistoryFits(marker[n], link[n], reverted[n], version[n], task[n], want[n])'
    BY <1>0, <1>1, NodeConstants DEF StartUp, Known, FilesFit, ProcessFits, HistoryFits, NoMarker, Markers
  <1>7. Advances(n)
    BY <1>0, <1>1, <1>3, NodeConstants DEF StartUp, Preparing, Advances, Known, FilesFit, ProcessFits,
       HistoryFits, InFlight, NoMarker, NoWant, Markers
  <1>q. QED BY <1>2, <1>3, <1>4, <1>5, <1>6, <1>7, OneNodeSteps DEF Shape

(* The process dies.                                                      *)
LEMMA CrashKeeps ==
    ASSUME NodeInv, NEW n \in Nodes, Crash(n)
    PROVE  NodeInv' /\ Advances(n)
  <1>0. Known(n) BY Here
  <1>1. /\ marker' = marker
          /\ link' = link
          /\ installed' = installed
          /\ verified' = verified
          /\ reverted' = reverted
          /\ version'[n] = 0
          /\ task'[n] = "down"
          /\ want'[n] = NoWant
    BY <1>0 DEF Crash, GoesDown, Known, NodeTypeOK
  <1>2. NodeTypeOK'
    BY <1>0, NodeConstants DEF Crash, GoesDown, Known, NodeTypeOK, Markers, AllIds, Tasks, NoWant, NoMarker,
       FilesFit, ProcessFits, HistoryFits
  <1>3. OnlyAt(n) BY <1>0 DEF Crash, GoesDown, OnlyAt, Known, NodeTypeOK
  <1>4. FilesFit(marker[n], link[n], installed[n], verified[n])'
    BY <1>0, <1>1, NodeConstants DEF Crash, GoesDown, Known, NodeTypeOK, FilesFit, ProcessFits, HistoryFits, NoMarker, Markers
  <1>5. ProcessFits(marker[n], link[n], verified[n], version[n], task[n])'
    BY <1>0, <1>1, NodeConstants DEF Crash, GoesDown, Known, FilesFit, ProcessFits, NoMarker, Markers
  <1>6. HistoryFits(marker[n], link[n], reverted[n], version[n], task[n], want[n])'
    BY <1>0, <1>1, NodeConstants DEF Crash, GoesDown, Known, FilesFit, ProcessFits, HistoryFits, NoMarker, Markers
  <1>7. Advances(n)
    BY <1>0, <1>1, <1>3, NodeConstants DEF Crash, GoesDown, Preparing, Advances, Known, FilesFit, ProcessFits,
       HistoryFits, InFlight, NoMarker, NoWant, Markers
  <1>q. QED BY <1>2, <1>3, <1>4, <1>5, <1>6, <1>7, OneNodeSteps DEF Shape

(* Staging adds to the store.                                             *)
LEMMA StageBinaryKeeps ==
    ASSUME NodeInv, NEW n \in Nodes, StageBinary(n)
    PROVE  NodeInv' /\ Advances(n)
  <1>0. Known(n) BY Here
  <1>1. /\ marker' = marker
          /\ link' = link
          /\ installed'[n] = installed[n] \union {version[n], want[n].to}
          /\ verified' = verified
          /\ reverted' = reverted
          /\ version' = version
          /\ task'[n] = "stored"
          /\ want' = want
    BY <1>0 DEF StageBinary, Goes, Known, NodeTypeOK
  <1>2. NodeTypeOK'
    BY <1>0, NodeConstants DEF StageBinary, Goes, Known, NodeTypeOK, Markers, AllIds, Tasks, NoWant, NoMarker,
       FilesFit, ProcessFits, HistoryFits
  <1>3. OnlyAt(n) BY <1>0 DEF StageBinary, Goes, OnlyAt, Known, NodeTypeOK
  <1>4. FilesFit(marker[n], link[n], installed[n], verified[n])'
    BY <1>0, <1>1, NodeConstants DEF StageBinary, Goes, Known, NodeTypeOK, FilesFit, ProcessFits, HistoryFits, NoMarker, Markers
  <1>5. ProcessFits(marker[n], link[n], verified[n], version[n], task[n])'
    BY <1>0, <1>1, NodeConstants DEF StageBinary, Goes, Known, FilesFit, ProcessFits, NoMarker, Markers
  <1>6. HistoryFits(marker[n], link[n], reverted[n], version[n], task[n], want[n])'
    BY <1>0, <1>1, NodeConstants DEF StageBinary, Goes, Known, FilesFit, ProcessFits, HistoryFits, NoMarker, Markers
  <1>7. Advances(n)
    BY <1>0, <1>1, <1>3, NodeConstants DEF StageBinary, Goes, Preparing, Advances, Known, FilesFit, ProcessFits,
       HistoryFits, InFlight, NoMarker, NoWant, Markers
  <1>q. QED BY <1>2, <1>3, <1>4, <1>5, <1>6, <1>7, OneNodeSteps DEF Shape

(* The first marker goes from what runs to what was asked for.            *)
LEMMA StageMarkerKeeps ==
    ASSUME NodeInv, NEW n \in Nodes, StageMarker(n)
    PROVE  NodeInv' /\ Advances(n)
  <1>0. Known(n) BY Here
  <1>1. /\ marker'[n] = [id |-> want[n].id, from |-> version[n], to |-> want[n].to,
                        phase |-> "staged", boots |-> 0]
          /\ link' = link
          /\ installed' = installed
          /\ verified' = verified
          /\ reverted' = reverted
          /\ version' = version
          /\ task'[n] = "staged"
          /\ want'[n] = NoWant
    BY <1>0 DEF StageMarker, Known, NodeTypeOK
  <1>2. NodeTypeOK'
    BY <1>0, NodeConstants DEF StageMarker, Known, NodeTypeOK, Markers, AllIds, Tasks, NoWant, NoMarker,
       FilesFit, ProcessFits, HistoryFits
  <1>3. OnlyAt(n) BY <1>0 DEF StageMarker, OnlyAt, Known, NodeTypeOK
  <1>4. FilesFit(marker[n], link[n], installed[n], verified[n])'
    BY <1>0, <1>1, NodeConstants DEF StageMarker, Known, NodeTypeOK, FilesFit, ProcessFits, HistoryFits, NoMarker, Markers
  <1>5. ProcessFits(marker[n], link[n], verified[n], version[n], task[n])'
    BY <1>0, <1>1, NodeConstants DEF StageMarker, Known, FilesFit, ProcessFits, NoMarker, Markers
  <1>6. HistoryFits(marker[n], link[n], reverted[n], version[n], task[n], want[n])'
    BY <1>0, <1>1, NodeConstants DEF StageMarker, Known, FilesFit, ProcessFits, HistoryFits, NoMarker, Markers
  <1>7. Advances(n)
    BY <1>0, <1>1, <1>3, NodeConstants DEF StageMarker, Preparing, Advances, Known, FilesFit, ProcessFits,
       HistoryFits, InFlight, NoMarker, NoWant, Markers
  <1>q. QED BY <1>2, <1>3, <1>4, <1>5, <1>6, <1>7, OneNodeSteps DEF Shape

(* A failed preparation leaves no trace but the binary.                   *)
LEMMA PreparationFailsKeeps ==
    ASSUME NodeInv, NEW n \in Nodes, PreparationFails(n)
    PROVE  NodeInv' /\ Advances(n)
  <1>0. Known(n) BY Here
  <1>1. /\ marker' = marker
          /\ link' = link
          /\ installed' = installed
          /\ verified' = verified
          /\ reverted' = reverted
          /\ version' = version
          /\ task'[n] = "idle"
          /\ want'[n] = NoWant
    BY <1>0 DEF PreparationFails, Preparing, Known, NodeTypeOK
  <1>2. NodeTypeOK'
    BY <1>0, NodeConstants DEF PreparationFails, Preparing, Known, NodeTypeOK, Markers, AllIds, Tasks, NoWant, NoMarker,
       FilesFit, ProcessFits, HistoryFits
  <1>3. OnlyAt(n) BY <1>0 DEF PreparationFails, Preparing, OnlyAt, Known, NodeTypeOK
  <1>4. FilesFit(marker[n], link[n], installed[n], verified[n])'
    BY <1>0, <1>1, NodeConstants DEF PreparationFails, Preparing, Known, NodeTypeOK, FilesFit, ProcessFits, HistoryFits, NoMarker, Markers
  <1>5. ProcessFits(marker[n], link[n], verified[n], version[n], task[n])'
    BY <1>0, <1>1, NodeConstants DEF PreparationFails, Preparing, Known, FilesFit, ProcessFits, NoMarker, Markers
  <1>6. HistoryFits(marker[n], link[n], reverted[n], version[n], task[n], want[n])'
    BY <1>0, <1>1, NodeConstants DEF PreparationFails, Preparing, Known, FilesFit, ProcessFits, HistoryFits, NoMarker, Markers
  <1>7. Advances(n)
    BY <1>0, <1>1, <1>3, NodeConstants DEF PreparationFails, Preparing, Advances, Known, FilesFit, ProcessFits,
       HistoryFits, InFlight, NoMarker, NoWant, Markers
  <1>q. QED BY <1>2, <1>3, <1>4, <1>5, <1>6, <1>7, OneNodeSteps DEF Shape

(* The marker says Executed while the symlink still names the old binary. *)
LEMMA RecordExecutedKeeps ==
    ASSUME NodeInv, NEW n \in Nodes, RecordExecuted(n)
    PROVE  NodeInv' /\ Advances(n)
  <1>0. Known(n) BY Here
  <1>1. /\ marker'[n] = [id |-> marker[n].id, from |-> marker[n].from, to |-> marker[n].to,
                        phase |-> "executed", boots |-> 0]
          /\ link' = link
          /\ installed' = installed
          /\ verified' = verified
          /\ reverted' = reverted
          /\ version' = version
          /\ task'[n] = "executed"
          /\ want' = want
    BY <1>0 DEF RecordExecuted, InPhase, Goes, Known, NodeTypeOK
  <1>2. NodeTypeOK'
    BY <1>0, NodeConstants DEF RecordExecuted, InPhase, Goes, Known, NodeTypeOK, Markers, AllIds, Tasks, NoWant, NoMarker,
       FilesFit, ProcessFits, HistoryFits
  <1>3. OnlyAt(n) BY <1>0 DEF RecordExecuted, InPhase, Goes, OnlyAt, Known, NodeTypeOK
  <1>4. FilesFit(marker[n], link[n], installed[n], verified[n])'
    BY <1>0, <1>1, NodeConstants DEF RecordExecuted, InPhase, Goes, Known, NodeTypeOK, FilesFit, ProcessFits, HistoryFits, NoMarker, Markers
  <1>5. ProcessFits(marker[n], link[n], verified[n], version[n], task[n])'
    BY <1>0, <1>1, NodeConstants DEF RecordExecuted, InPhase, Goes, Known, FilesFit, ProcessFits, NoMarker, Markers
  <1>6. HistoryFits(marker[n], link[n], reverted[n], version[n], task[n], want[n])'
    BY <1>0, <1>1, NodeConstants DEF RecordExecuted, InPhase, Goes, Known, FilesFit, ProcessFits, HistoryFits, NoMarker, Markers
  <1>7. Advances(n)
    BY <1>0, <1>1, <1>3, NodeConstants DEF RecordExecuted, InPhase, Goes, Preparing, Advances, Known, FilesFit, ProcessFits,
       HistoryFits, InFlight, NoMarker, NoWant, Markers
  <1>q. QED BY <1>2, <1>3, <1>4, <1>5, <1>6, <1>7, OneNodeSteps DEF Shape

(* The symlink moves to the target under an Executed marker.              *)
LEMMA ActivateTargetKeeps ==
    ASSUME NodeInv, NEW n \in Nodes, ActivateTarget(n)
    PROVE  NodeInv' /\ Advances(n)
  <1>0. Known(n) BY Here
  <1>1. /\ marker' = marker
          /\ link'[n] = marker[n].to
          /\ installed' = installed
          /\ verified' = verified
          /\ reverted' = reverted
          /\ version' = version
          /\ task'[n] = "swapped"
          /\ want' = want
    BY <1>0 DEF ActivateTarget, Activate, Goes, Known, NodeTypeOK
  <1>2. NodeTypeOK'
    BY <1>0, NodeConstants DEF ActivateTarget, Activate, Goes, Known, NodeTypeOK, Markers, AllIds, Tasks, NoWant, NoMarker,
       FilesFit, ProcessFits, HistoryFits
  <1>3. OnlyAt(n) BY <1>0 DEF ActivateTarget, Activate, Goes, OnlyAt, Known, NodeTypeOK
  <1>4. FilesFit(marker[n], link[n], installed[n], verified[n])'
    BY <1>0, <1>1, NodeConstants DEF ActivateTarget, Activate, Goes, Known, NodeTypeOK, FilesFit, ProcessFits, HistoryFits, NoMarker, Markers
  <1>5. ProcessFits(marker[n], link[n], verified[n], version[n], task[n])'
    BY <1>0, <1>1, NodeConstants DEF ActivateTarget, Activate, Goes, Known, FilesFit, ProcessFits, NoMarker, Markers
  <1>6. HistoryFits(marker[n], link[n], reverted[n], version[n], task[n], want[n])'
    BY <1>0, <1>1, NodeConstants DEF ActivateTarget, Activate, Goes, Known, FilesFit, ProcessFits, HistoryFits, NoMarker, Markers
  <1>7. Advances(n)
    BY <1>0, <1>1, <1>3, NodeConstants DEF ActivateTarget, Activate, Goes, Preparing, Advances, Known, FilesFit, ProcessFits,
       HistoryFits, InFlight, NoMarker, NoWant, Markers
  <1>q. QED BY <1>2, <1>3, <1>4, <1>5, <1>6, <1>7, OneNodeSteps DEF Shape

(* The exec of the target boots what the symlink names.                   *)
LEMMA ExecTargetKeeps ==
    ASSUME NodeInv, NEW n \in Nodes, ExecTarget(n)
    PROVE  NodeInv' /\ Advances(n)
  <1>0. Known(n) BY Here
  <1>1. /\ marker' = marker
          /\ link' = link
          /\ installed' = installed
          /\ verified' = verified
          /\ reverted' = reverted
          /\ version'[n] = link[n]
          /\ task'[n] = "boot"
          /\ want' = want
    BY <1>0 DEF ExecTarget, ExecCurrentSymlink, Known, NodeTypeOK
  <1>2. NodeTypeOK'
    BY <1>0, NodeConstants DEF ExecTarget, ExecCurrentSymlink, Known, NodeTypeOK, Markers, AllIds, Tasks, NoWant, NoMarker,
       FilesFit, ProcessFits, HistoryFits
  <1>3. OnlyAt(n) BY <1>0 DEF ExecTarget, ExecCurrentSymlink, OnlyAt, Known, NodeTypeOK
  <1>4. FilesFit(marker[n], link[n], installed[n], verified[n])'
    BY <1>0, <1>1, NodeConstants DEF ExecTarget, ExecCurrentSymlink, Known, NodeTypeOK, FilesFit, ProcessFits, HistoryFits, NoMarker, Markers
  <1>5. ProcessFits(marker[n], link[n], verified[n], version[n], task[n])'
    BY <1>0, <1>1, NodeConstants DEF ExecTarget, ExecCurrentSymlink, Known, FilesFit, ProcessFits, NoMarker, Markers
  <1>6. HistoryFits(marker[n], link[n], reverted[n], version[n], task[n], want[n])'
    BY <1>0, <1>1, NodeConstants DEF ExecTarget, ExecCurrentSymlink, Known, FilesFit, ProcessFits, HistoryFits, NoMarker, Markers
  <1>7. Advances(n)
    BY <1>0, <1>1, <1>3, NodeConstants DEF ExecTarget, ExecCurrentSymlink, Preparing, Advances, Known, FilesFit, ProcessFits,
       HistoryFits, InFlight, NoMarker, NoWant, Markers
  <1>q. QED BY <1>2, <1>3, <1>4, <1>5, <1>6, <1>7, OneNodeSteps DEF Shape

(* A refused swap has not moved the symlink.                              *)
LEMMA SwapRefusedKeeps ==
    ASSUME NodeInv, NEW n \in Nodes, SwapRefused(n)
    PROVE  NodeInv' /\ Advances(n)
  <1>0. Known(n) BY Here
  <1>1.   /\ (marker'[n] = NoMarker \/ marker'[n] = marker[n])
          /\ link' = link
          /\ installed' = installed
          /\ verified' = verified
          /\ reverted' = reverted
          /\ version' = version
          /\ task'[n] = "idle"
          /\ want' = want
    BY <1>0 DEF SwapRefused, Goes, Known, NodeTypeOK
  <1>2. NodeTypeOK'
    BY <1>0, NodeConstants DEF SwapRefused, Goes, Known, NodeTypeOK, Markers, AllIds, Tasks, NoWant, NoMarker,
       FilesFit, ProcessFits, HistoryFits
  <1>3. OnlyAt(n) BY <1>0 DEF SwapRefused, Goes, OnlyAt, Known, NodeTypeOK
  <1>4. FilesFit(marker[n], link[n], installed[n], verified[n])'
    BY <1>0, <1>1, NodeConstants DEF SwapRefused, Goes, Known, NodeTypeOK, FilesFit, ProcessFits, HistoryFits, NoMarker, Markers
  <1>5. ProcessFits(marker[n], link[n], verified[n], version[n], task[n])'
    BY <1>0, <1>1, NodeConstants DEF SwapRefused, Goes, Known, FilesFit, ProcessFits, NoMarker, Markers
  <1>6. HistoryFits(marker[n], link[n], reverted[n], version[n], task[n], want[n])'
    BY <1>0, <1>1, NodeConstants DEF SwapRefused, Goes, Known, FilesFit, ProcessFits, HistoryFits, NoMarker, Markers
  <1>7. Advances(n)
    BY <1>0, <1>1, <1>3, NodeConstants DEF SwapRefused, Goes, Preparing, Advances, Known, FilesFit, ProcessFits,
       HistoryFits, InFlight, NoMarker, NoWant, Markers
  <1>q. QED BY <1>2, <1>3, <1>4, <1>5, <1>6, <1>7, OneNodeSteps DEF Shape

(* A failed exec changes nothing on disk.                                 *)
LEMMA ExecFailsKeeps ==
    ASSUME NodeInv, NEW n \in Nodes, ExecFails(n)
    PROVE  NodeInv' /\ Advances(n)
  <1>0. Known(n) BY Here
  <1>1. /\ marker' = marker
          /\ link' = link
          /\ installed' = installed
          /\ verified' = verified
          /\ reverted' = reverted
          /\ version' = version
          /\ task'[n] = "execfailed"
          /\ want' = want
    BY <1>0 DEF ExecFails, Goes, Known, NodeTypeOK
  <1>2. NodeTypeOK'
    BY <1>0, NodeConstants DEF ExecFails, Goes, Known, NodeTypeOK, Markers, AllIds, Tasks, NoWant, NoMarker,
       FilesFit, ProcessFits, HistoryFits
  <1>3. OnlyAt(n) BY <1>0 DEF ExecFails, Goes, OnlyAt, Known, NodeTypeOK
  <1>4. FilesFit(marker[n], link[n], installed[n], verified[n])'
    BY <1>0, <1>1, NodeConstants DEF ExecFails, Goes, Known, NodeTypeOK, FilesFit, ProcessFits, HistoryFits, NoMarker, Markers
  <1>5. ProcessFits(marker[n], link[n], verified[n], version[n], task[n])'
    BY <1>0, <1>1, NodeConstants DEF ExecFails, Goes, Known, FilesFit, ProcessFits, NoMarker, Markers
  <1>6. HistoryFits(marker[n], link[n], reverted[n], version[n], task[n], want[n])'
    BY <1>0, <1>1, NodeConstants DEF ExecFails, Goes, Known, FilesFit, ProcessFits, HistoryFits, NoMarker, Markers
  <1>7. Advances(n)
    BY <1>0, <1>1, <1>3, NodeConstants DEF ExecFails, Goes, Preparing, Advances, Known, FilesFit, ProcessFits,
       HistoryFits, InFlight, NoMarker, NoWant, Markers
  <1>q. QED BY <1>2, <1>3, <1>4, <1>5, <1>6, <1>7, OneNodeSteps DEF Shape

(* The symlink goes back.                                                 *)
LEMMA RestorePreviousKeeps ==
    ASSUME NodeInv, NEW n \in Nodes, RestorePrevious(n)
    PROVE  NodeInv' /\ Advances(n)
  <1>0. Known(n) BY Here
  <1>1. /\ marker' = marker
          /\ link'[n] = marker[n].from
          /\ installed' = installed
          /\ verified' = verified
          /\ reverted' = reverted
          /\ version' = version
          /\ task'[n] = "restored"
          /\ want' = want
    BY <1>0 DEF RestorePrevious, Activate, Goes, Known, NodeTypeOK
  <1>2. NodeTypeOK'
    BY <1>0, NodeConstants DEF RestorePrevious, Activate, Goes, Known, NodeTypeOK, Markers, AllIds, Tasks, NoWant, NoMarker,
       FilesFit, ProcessFits, HistoryFits
  <1>3. OnlyAt(n) BY <1>0 DEF RestorePrevious, Activate, Goes, OnlyAt, Known, NodeTypeOK
  <1>4. FilesFit(marker[n], link[n], installed[n], verified[n])'
    BY <1>0, <1>1, NodeConstants DEF RestorePrevious, Activate, Goes, Known, NodeTypeOK, FilesFit, ProcessFits, HistoryFits, NoMarker, Markers
  <1>5. ProcessFits(marker[n], link[n], verified[n], version[n], task[n])'
    BY <1>0, <1>1, NodeConstants DEF RestorePrevious, Activate, Goes, Known, FilesFit, ProcessFits, NoMarker, Markers
  <1>6. HistoryFits(marker[n], link[n], reverted[n], version[n], task[n], want[n])'
    BY <1>0, <1>1, NodeConstants DEF RestorePrevious, Activate, Goes, Known, FilesFit, ProcessFits, HistoryFits, NoMarker, Markers
  <1>7. Advances(n)
    BY <1>0, <1>1, <1>3, NodeConstants DEF RestorePrevious, Activate, Goes, Preparing, Advances, Known, FilesFit, ProcessFits,
       HistoryFits, InFlight, NoMarker, NoWant, Markers
  <1>q. QED BY <1>2, <1>3, <1>4, <1>5, <1>6, <1>7, OneNodeSteps DEF Shape

(* The symlink cannot go back, so the marker stays.                       *)
LEMMA RestoreFailsKeeps ==
    ASSUME NodeInv, NEW n \in Nodes, RestoreFails(n)
    PROVE  NodeInv' /\ Advances(n)
  <1>0. Known(n) BY Here
  <1>1. /\ marker' = marker
          /\ link' = link
          /\ installed' = installed
          /\ verified' = verified
          /\ reverted' = reverted
          /\ version' = version
          /\ task'[n] = "idle"
          /\ want' = want
    BY <1>0 DEF RestoreFails, Goes, Known, NodeTypeOK
  <1>2. NodeTypeOK'
    BY <1>0, NodeConstants DEF RestoreFails, Goes, Known, NodeTypeOK, Markers, AllIds, Tasks, NoWant, NoMarker,
       FilesFit, ProcessFits, HistoryFits
  <1>3. OnlyAt(n) BY <1>0 DEF RestoreFails, Goes, OnlyAt, Known, NodeTypeOK
  <1>4. FilesFit(marker[n], link[n], installed[n], verified[n])'
    BY <1>0, <1>1, NodeConstants DEF RestoreFails, Goes, Known, NodeTypeOK, FilesFit, ProcessFits, HistoryFits, NoMarker, Markers
  <1>5. ProcessFits(marker[n], link[n], verified[n], version[n], task[n])'
    BY <1>0, <1>1, NodeConstants DEF RestoreFails, Goes, Known, FilesFit, ProcessFits, NoMarker, Markers
  <1>6. HistoryFits(marker[n], link[n], reverted[n], version[n], task[n], want[n])'
    BY <1>0, <1>1, NodeConstants DEF RestoreFails, Goes, Known, FilesFit, ProcessFits, HistoryFits, NoMarker, Markers
  <1>7. Advances(n)
    BY <1>0, <1>1, <1>3, NodeConstants DEF RestoreFails, Goes, Preparing, Advances, Known, FilesFit, ProcessFits,
       HistoryFits, InFlight, NoMarker, NoWant, Markers
  <1>q. QED BY <1>2, <1>3, <1>4, <1>5, <1>6, <1>7, OneNodeSteps DEF Shape

(* The marker goes once the symlink is back.                              *)
LEMMA ArchiveAbandonedKeeps ==
    ASSUME NodeInv, NEW n \in Nodes, ArchiveAbandoned(n)
    PROVE  NodeInv' /\ Advances(n)
  <1>0. Known(n) BY Here
  <1>1. /\ marker'[n] = NoMarker
          /\ link' = link
          /\ installed' = installed
          /\ verified' = verified
          /\ reverted' = reverted
          /\ version' = version
          /\ task'[n] = "idle"
          /\ want' = want
    BY <1>0 DEF ArchiveAbandoned, Goes, Known, NodeTypeOK
  <1>2. NodeTypeOK'
    BY <1>0, NodeConstants DEF ArchiveAbandoned, Goes, Known, NodeTypeOK, Markers, AllIds, Tasks, NoWant, NoMarker,
       FilesFit, ProcessFits, HistoryFits
  <1>3. OnlyAt(n) BY <1>0 DEF ArchiveAbandoned, Goes, OnlyAt, Known, NodeTypeOK
  <1>4. FilesFit(marker[n], link[n], installed[n], verified[n])'
    BY <1>0, <1>1, NodeConstants DEF ArchiveAbandoned, Goes, Known, NodeTypeOK, FilesFit, ProcessFits, HistoryFits, NoMarker, Markers
  <1>5. ProcessFits(marker[n], link[n], verified[n], version[n], task[n])'
    BY <1>0, <1>1, NodeConstants DEF ArchiveAbandoned, Goes, Known, FilesFit, ProcessFits, NoMarker, Markers
  <1>6. HistoryFits(marker[n], link[n], reverted[n], version[n], task[n], want[n])'
    BY <1>0, <1>1, NodeConstants DEF ArchiveAbandoned, Goes, Known, FilesFit, ProcessFits, HistoryFits, NoMarker, Markers
  <1>7. Advances(n)
    BY <1>0, <1>1, <1>3, NodeConstants DEF ArchiveAbandoned, Goes, Preparing, Advances, Known, FilesFit, ProcessFits,
       HistoryFits, InFlight, NoMarker, NoWant, Markers
  <1>q. QED BY <1>2, <1>3, <1>4, <1>5, <1>6, <1>7, OneNodeSteps DEF Shape

(* Only a Staged marker is stale: the symlink has not moved.              *)
LEMMA BootNormallyKeeps ==
    ASSUME NodeInv, NEW n \in Nodes, BootNormally(n)
    PROVE  NodeInv' /\ Advances(n)
  <1>0. Known(n) BY Here
  <1>1. /\ marker'[n] = NoMarker
          /\ link' = link
          /\ installed' = installed
          /\ verified' = verified
          /\ reverted' = reverted
          /\ version' = version
          /\ task'[n] = "idle"
          /\ want' = want
    BY <1>0 DEF BootNormally, Goes, Decision, DecideStartup, Known, NodeTypeOK
  <1>2. NodeTypeOK'
    BY <1>0, NodeConstants DEF BootNormally, Goes, Decision, DecideStartup, Known, NodeTypeOK, Markers, AllIds, Tasks, NoWant, NoMarker,
       FilesFit, ProcessFits, HistoryFits
  <1>3. OnlyAt(n) BY <1>0 DEF BootNormally, Goes, Decision, DecideStartup, OnlyAt, Known, NodeTypeOK
  <1>4. FilesFit(marker[n], link[n], installed[n], verified[n])'
    BY <1>0, <1>1, NodeConstants DEF BootNormally, Goes, Decision, DecideStartup, Known, NodeTypeOK, FilesFit, ProcessFits, HistoryFits, NoMarker, Markers
  <1>5. ProcessFits(marker[n], link[n], verified[n], version[n], task[n])'
    BY <1>0, <1>1, NodeConstants DEF BootNormally, Goes, Decision, DecideStartup, Known, FilesFit, ProcessFits, NoMarker, Markers
  <1>6. HistoryFits(marker[n], link[n], reverted[n], version[n], task[n], want[n])'
    BY <1>0, <1>1, NodeConstants DEF BootNormally, Goes, Decision, DecideStartup, Known, FilesFit, ProcessFits, HistoryFits, NoMarker, Markers
  <1>7. Advances(n)
    BY <1>0, <1>1, <1>3, NodeConstants DEF BootNormally, Goes, Decision, DecideStartup, Preparing, Advances, Known, FilesFit, ProcessFits,
       HistoryFits, InFlight, NoMarker, NoWant, Markers
  <1>q. QED BY <1>2, <1>3, <1>4, <1>5, <1>6, <1>7, OneNodeSteps DEF Shape

(* The target boots on trial.                                             *)
LEMMA BootToVerifyKeeps ==
    ASSUME NodeInv, NEW n \in Nodes, BootToVerify(n)
    PROVE  NodeInv' /\ Advances(n)
  <1>0. Known(n) BY Here
  <1>1. /\ marker'[n] = [id |-> marker[n].id, from |-> marker[n].from, to |-> marker[n].to,
                        phase |-> "verifying", boots |-> marker[n].boots + 1]
          /\ link' = link
          /\ installed' = installed
          /\ verified' = verified
          /\ reverted' = reverted
          /\ version' = version
          /\ task'[n] = "verify"
          /\ want' = want
    BY <1>0 DEF BootToVerify, InPhase, Goes, Decision, DecideStartup, Known, NodeTypeOK
  <1>2. NodeTypeOK'
    BY <1>0, NodeConstants DEF BootToVerify, InPhase, Goes, Decision, DecideStartup, Known, NodeTypeOK, Markers, AllIds, Tasks, NoWant, NoMarker,
       FilesFit, ProcessFits, HistoryFits
  <1>3. OnlyAt(n) BY <1>0 DEF BootToVerify, InPhase, Goes, Decision, DecideStartup, OnlyAt, Known, NodeTypeOK
  <1>4. FilesFit(marker[n], link[n], installed[n], verified[n])'
    BY <1>0, <1>1, NodeConstants DEF BootToVerify, InPhase, Goes, Decision, DecideStartup, Known, NodeTypeOK, FilesFit, ProcessFits, HistoryFits, NoMarker, Markers
  <1>5. ProcessFits(marker[n], link[n], verified[n], version[n], task[n])'
    BY <1>0, <1>1, NodeConstants DEF BootToVerify, InPhase, Goes, Decision, DecideStartup, Known, FilesFit, ProcessFits, NoMarker, Markers
  <1>6. HistoryFits(marker[n], link[n], reverted[n], version[n], task[n], want[n])'
    BY <1>0, <1>1, NodeConstants DEF BootToVerify, InPhase, Goes, Decision, DecideStartup, Known, FilesFit, ProcessFits, HistoryFits, NoMarker, Markers
  <1>7. Advances(n)
    BY <1>0, <1>1, <1>3, NodeConstants DEF BootToVerify, InPhase, Goes, Decision, DecideStartup, Preparing, Advances, Known, FilesFit, ProcessFits,
       HistoryFits, InFlight, NoMarker, NoWant, Markers
  <1>q. QED BY <1>2, <1>3, <1>4, <1>5, <1>6, <1>7, OneNodeSteps DEF Shape

(* The target has no boots left, or was told to go back.                  *)
LEMMA BootToRevertKeeps ==
    ASSUME NodeInv, NEW n \in Nodes, BootToRevert(n)
    PROVE  NodeInv' /\ Advances(n)
  <1>0. Known(n) BY Here
  <1>1. /\ marker'[n] = [id |-> marker[n].id, from |-> marker[n].from, to |-> marker[n].to,
                        phase |-> "revert", boots |-> IF Decision(n) = "giveup" THEN marker[n].boots + 1 ELSE marker[n].boots]
          /\ link' = link
          /\ installed' = installed
          /\ verified' = verified
          /\ reverted' = reverted
          /\ version' = version
          /\ task'[n] = "reverting"
          /\ want' = want
    BY <1>0 DEF BootToRevert, InPhase, Goes, Decision, DecideStartup, Known, NodeTypeOK
  <1>2. NodeTypeOK'
    BY <1>0, NodeConstants DEF BootToRevert, InPhase, Goes, Decision, DecideStartup, Known, NodeTypeOK, Markers, AllIds, Tasks, NoWant, NoMarker,
       FilesFit, ProcessFits, HistoryFits
  <1>3. OnlyAt(n) BY <1>0 DEF BootToRevert, InPhase, Goes, Decision, DecideStartup, OnlyAt, Known, NodeTypeOK
  <1>4. FilesFit(marker[n], link[n], installed[n], verified[n])'
    BY <1>0, <1>1, NodeConstants DEF BootToRevert, InPhase, Goes, Decision, DecideStartup, Known, NodeTypeOK, FilesFit, ProcessFits, HistoryFits, NoMarker, Markers
  <1>5. ProcessFits(marker[n], link[n], verified[n], version[n], task[n])'
    BY <1>0, <1>1, NodeConstants DEF BootToRevert, InPhase, Goes, Decision, DecideStartup, Known, FilesFit, ProcessFits, NoMarker, Markers
  <1>6. HistoryFits(marker[n], link[n], reverted[n], version[n], task[n], want[n])'
    BY <1>0, <1>1, NodeConstants DEF BootToRevert, InPhase, Goes, Decision, DecideStartup, Known, FilesFit, ProcessFits, HistoryFits, NoMarker, Markers
  <1>7. Advances(n)
    BY <1>0, <1>1, <1>3, NodeConstants DEF BootToRevert, InPhase, Goes, Decision, DecideStartup, Preparing, Advances, Known, FilesFit, ProcessFits,
       HistoryFits, InFlight, NoMarker, NoWant, Markers
  <1>q. QED BY <1>2, <1>3, <1>4, <1>5, <1>6, <1>7, OneNodeSteps DEF Shape

(* The symlink goes back under a Revert marker.                           *)
LEMMA ActivatePreviousKeeps ==
    ASSUME NodeInv, NEW n \in Nodes, ActivatePrevious(n)
    PROVE  NodeInv' /\ Advances(n)
  <1>0. Known(n) BY Here
  <1>1. /\ marker' = marker
          /\ link'[n] = marker[n].from
          /\ installed' = installed
          /\ verified' = verified
          /\ reverted' = reverted
          /\ version' = version
          /\ task'[n] = "execprev"
          /\ want' = want
    BY <1>0 DEF ActivatePrevious, Activate, Goes, Known, NodeTypeOK
  <1>2. NodeTypeOK'
    BY <1>0, NodeConstants DEF ActivatePrevious, Activate, Goes, Known, NodeTypeOK, Markers, AllIds, Tasks, NoWant, NoMarker,
       FilesFit, ProcessFits, HistoryFits
  <1>3. OnlyAt(n) BY <1>0 DEF ActivatePrevious, Activate, Goes, OnlyAt, Known, NodeTypeOK
  <1>4. FilesFit(marker[n], link[n], installed[n], verified[n])'
    BY <1>0, <1>1, NodeConstants DEF ActivatePrevious, Activate, Goes, Known, NodeTypeOK, FilesFit, ProcessFits, HistoryFits, NoMarker, Markers
  <1>5. ProcessFits(marker[n], link[n], verified[n], version[n], task[n])'
    BY <1>0, <1>1, NodeConstants DEF ActivatePrevious, Activate, Goes, Known, FilesFit, ProcessFits, NoMarker, Markers
  <1>6. HistoryFits(marker[n], link[n], reverted[n], version[n], task[n], want[n])'
    BY <1>0, <1>1, NodeConstants DEF ActivatePrevious, Activate, Goes, Known, FilesFit, ProcessFits, HistoryFits, NoMarker, Markers
  <1>7. Advances(n)
    BY <1>0, <1>1, <1>3, NodeConstants DEF ActivatePrevious, Activate, Goes, Preparing, Advances, Known, FilesFit, ProcessFits,
       HistoryFits, InFlight, NoMarker, NoWant, Markers
  <1>q. QED BY <1>2, <1>3, <1>4, <1>5, <1>6, <1>7, OneNodeSteps DEF Shape

(* The exec of the previous binary boots what the symlink names.          *)
LEMMA ExecPreviousKeeps ==
    ASSUME NodeInv, NEW n \in Nodes, ExecPrevious(n)
    PROVE  NodeInv' /\ Advances(n)
  <1>0. Known(n) BY Here
  <1>1. /\ marker' = marker
          /\ link' = link
          /\ installed' = installed
          /\ verified' = verified
          /\ reverted' = reverted
          /\ version'[n] = link[n]
          /\ task'[n] = "boot"
          /\ want' = want
    BY <1>0 DEF ExecPrevious, ExecCurrentSymlink, Known, NodeTypeOK
  <1>2. NodeTypeOK'
    BY <1>0, NodeConstants DEF ExecPrevious, ExecCurrentSymlink, Known, NodeTypeOK, Markers, AllIds, Tasks, NoWant, NoMarker,
       FilesFit, ProcessFits, HistoryFits
  <1>3. OnlyAt(n) BY <1>0 DEF ExecPrevious, ExecCurrentSymlink, OnlyAt, Known, NodeTypeOK
  <1>4. FilesFit(marker[n], link[n], installed[n], verified[n])'
    BY <1>0, <1>1, NodeConstants DEF ExecPrevious, ExecCurrentSymlink, Known, NodeTypeOK, FilesFit, ProcessFits, HistoryFits, NoMarker, Markers
  <1>5. ProcessFits(marker[n], link[n], verified[n], version[n], task[n])'
    BY <1>0, <1>1, NodeConstants DEF ExecPrevious, ExecCurrentSymlink, Known, FilesFit, ProcessFits, NoMarker, Markers
  <1>6. HistoryFits(marker[n], link[n], reverted[n], version[n], task[n], want[n])'
    BY <1>0, <1>1, NodeConstants DEF ExecPrevious, ExecCurrentSymlink, Known, FilesFit, ProcessFits, HistoryFits, NoMarker, Markers
  <1>7. Advances(n)
    BY <1>0, <1>1, <1>3, NodeConstants DEF ExecPrevious, ExecCurrentSymlink, Preparing, Advances, Known, FilesFit, ProcessFits,
       HistoryFits, InFlight, NoMarker, NoWant, Markers
  <1>q. QED BY <1>2, <1>3, <1>4, <1>5, <1>6, <1>7, OneNodeSteps DEF Shape

(* The old binary records that it is back.                                *)
LEMMA BootToCompleteKeeps ==
    ASSUME NodeInv, NEW n \in Nodes, BootToComplete(n)
    PROVE  NodeInv' /\ Advances(n)
  <1>0. Known(n) BY Here
  <1>1. /\ marker' = marker
          /\ link' = link
          /\ installed' = installed
          /\ verified' = verified
          /\ reverted'[n] = reverted[n] \union {marker[n].id}
          /\ version' = version
          /\ task'[n] = "reverted"
          /\ want' = want
    BY <1>0 DEF BootToComplete, Goes, Decision, DecideStartup, Known, NodeTypeOK
  <1>2. NodeTypeOK'
    BY <1>0, NodeConstants DEF BootToComplete, Goes, Decision, DecideStartup, Known, NodeTypeOK, Markers, AllIds, Tasks, NoWant, NoMarker,
       FilesFit, ProcessFits, HistoryFits
  <1>3. OnlyAt(n) BY <1>0 DEF BootToComplete, Goes, Decision, DecideStartup, OnlyAt, Known, NodeTypeOK
  <1>4. FilesFit(marker[n], link[n], installed[n], verified[n])'
    BY <1>0, <1>1, NodeConstants DEF BootToComplete, Goes, Decision, DecideStartup, Known, NodeTypeOK, FilesFit, ProcessFits, HistoryFits, NoMarker, Markers
  <1>5. ProcessFits(marker[n], link[n], verified[n], version[n], task[n])'
    BY <1>0, <1>1, NodeConstants DEF BootToComplete, Goes, Decision, DecideStartup, Known, FilesFit, ProcessFits, NoMarker, Markers
  <1>6. HistoryFits(marker[n], link[n], reverted[n], version[n], task[n], want[n])'
    BY <1>0, <1>1, NodeConstants DEF BootToComplete, Goes, Decision, DecideStartup, Known, FilesFit, ProcessFits, HistoryFits, NoMarker, Markers
  <1>7. Advances(n)
    BY <1>0, <1>1, <1>3, NodeConstants DEF BootToComplete, Goes, Decision, DecideStartup, Preparing, Advances, Known, FilesFit, ProcessFits,
       HistoryFits, InFlight, NoMarker, NoWant, Markers
  <1>q. QED BY <1>2, <1>3, <1>4, <1>5, <1>6, <1>7, OneNodeSteps DEF Shape

(* The marker goes once the revert is recorded.                           *)
LEMMA RemoveRevertedKeeps ==
    ASSUME NodeInv, NEW n \in Nodes, RemoveReverted(n)
    PROVE  NodeInv' /\ Advances(n)
  <1>0. Known(n) BY Here
  <1>1. /\ marker'[n] = NoMarker
          /\ link' = link
          /\ installed' = installed
          /\ verified' = verified
          /\ reverted' = reverted
          /\ version' = version
          /\ task'[n] = "idle"
          /\ want' = want
    BY <1>0 DEF RemoveReverted, Goes, Known, NodeTypeOK
  <1>2. NodeTypeOK'
    BY <1>0, NodeConstants DEF RemoveReverted, Goes, Known, NodeTypeOK, Markers, AllIds, Tasks, NoWant, NoMarker,
       FilesFit, ProcessFits, HistoryFits
  <1>3. OnlyAt(n) BY <1>0 DEF RemoveReverted, Goes, OnlyAt, Known, NodeTypeOK
  <1>4. FilesFit(marker[n], link[n], installed[n], verified[n])'
    BY <1>0, <1>1, NodeConstants DEF RemoveReverted, Goes, Known, NodeTypeOK, FilesFit, ProcessFits, HistoryFits, NoMarker, Markers
  <1>5. ProcessFits(marker[n], link[n], verified[n], version[n], task[n])'
    BY <1>0, <1>1, NodeConstants DEF RemoveReverted, Goes, Known, FilesFit, ProcessFits, NoMarker, Markers
  <1>6. HistoryFits(marker[n], link[n], reverted[n], version[n], task[n], want[n])'
    BY <1>0, <1>1, NodeConstants DEF RemoveReverted, Goes, Known, FilesFit, ProcessFits, HistoryFits, NoMarker, Markers
  <1>7. Advances(n)
    BY <1>0, <1>1, <1>3, NodeConstants DEF RemoveReverted, Goes, Preparing, Advances, Known, FilesFit, ProcessFits,
       HistoryFits, InFlight, NoMarker, NoWant, Markers
  <1>q. QED BY <1>2, <1>3, <1>4, <1>5, <1>6, <1>7, OneNodeSteps DEF Shape

(* Recovery that cannot write leaves the marker.                          *)
LEMMA RecoveryFailsKeeps ==
    ASSUME NodeInv, NEW n \in Nodes, RecoveryFails(n)
    PROVE  NodeInv' /\ Advances(n)
  <1>0. Known(n) BY Here
  <1>1. /\ marker' = marker
          /\ link' = link
          /\ installed' = installed
          /\ verified' = verified
          /\ reverted' = reverted
          /\ version' = version
          /\ task'[n] = "idle"
          /\ want' = want
    BY <1>0 DEF RecoveryFails, Goes, Decision, DecideStartup, Known, NodeTypeOK
  <1>2. NodeTypeOK'
    BY <1>0, NodeConstants DEF RecoveryFails, Goes, Decision, DecideStartup, Known, NodeTypeOK, Markers, AllIds, Tasks, NoWant, NoMarker,
       FilesFit, ProcessFits, HistoryFits
  <1>3. OnlyAt(n) BY <1>0 DEF RecoveryFails, Goes, Decision, DecideStartup, OnlyAt, Known, NodeTypeOK
  <1>4. FilesFit(marker[n], link[n], installed[n], verified[n])'
    BY <1>0, <1>1, NodeConstants DEF RecoveryFails, Goes, Decision, DecideStartup, Known, NodeTypeOK, FilesFit, ProcessFits, HistoryFits, NoMarker, Markers
  <1>5. ProcessFits(marker[n], link[n], verified[n], version[n], task[n])'
    BY <1>0, <1>1, NodeConstants DEF RecoveryFails, Goes, Decision, DecideStartup, Known, FilesFit, ProcessFits, NoMarker, Markers
  <1>6. HistoryFits(marker[n], link[n], reverted[n], version[n], task[n], want[n])'
    BY <1>0, <1>1, NodeConstants DEF RecoveryFails, Goes, Decision, DecideStartup, Known, FilesFit, ProcessFits, HistoryFits, NoMarker, Markers
  <1>7. Advances(n)
    BY <1>0, <1>1, <1>3, NodeConstants DEF RecoveryFails, Goes, Decision, DecideStartup, Preparing, Advances, Known, FilesFit, ProcessFits,
       HistoryFits, InFlight, NoMarker, NoWant, Markers
  <1>q. QED BY <1>2, <1>3, <1>4, <1>5, <1>6, <1>7, OneNodeSteps DEF Shape

(* The commit is recorded first.                                          *)
LEMMA RecordCommittedKeeps ==
    ASSUME NodeInv, NEW n \in Nodes, RecordCommitted(n)
    PROVE  NodeInv' /\ Advances(n)
  <1>0. Known(n) BY Here
  <1>1. /\ marker' = marker
          /\ link' = link
          /\ installed' = installed
          /\ verified'[n] = verified[n] \union {marker[n].to}
          /\ reverted' = reverted
          /\ version' = version
          /\ task'[n] = "recorded"
          /\ want' = want
    BY <1>0 DEF RecordCommitted, Goes, Known, NodeTypeOK
  <1>2. NodeTypeOK'
    BY <1>0, NodeConstants DEF RecordCommitted, Goes, Known, NodeTypeOK, Markers, AllIds, Tasks, NoWant, NoMarker,
       FilesFit, ProcessFits, HistoryFits
  <1>3. OnlyAt(n) BY <1>0 DEF RecordCommitted, Goes, OnlyAt, Known, NodeTypeOK
  <1>4. FilesFit(marker[n], link[n], installed[n], verified[n])'
    BY <1>0, <1>1, NodeConstants DEF RecordCommitted, Goes, Known, NodeTypeOK, FilesFit, ProcessFits, HistoryFits, NoMarker, Markers
  <1>5. ProcessFits(marker[n], link[n], verified[n], version[n], task[n])'
    BY <1>0, <1>1, NodeConstants DEF RecordCommitted, Goes, Known, FilesFit, ProcessFits, NoMarker, Markers
  <1>6. HistoryFits(marker[n], link[n], reverted[n], version[n], task[n], want[n])'
    BY <1>0, <1>1, NodeConstants DEF RecordCommitted, Goes, Known, FilesFit, ProcessFits, HistoryFits, NoMarker, Markers
  <1>7. Advances(n)
    BY <1>0, <1>1, <1>3, NodeConstants DEF RecordCommitted, Goes, Preparing, Advances, Known, FilesFit, ProcessFits,
       HistoryFits, InFlight, NoMarker, NoWant, Markers
  <1>q. QED BY <1>2, <1>3, <1>4, <1>5, <1>6, <1>7, OneNodeSteps DEF Shape

(* Retention keeps both sides of the swap.                                *)
LEMMA CollectGarbageKeeps ==
    ASSUME NodeInv, NEW n \in Nodes, CollectGarbage(n)
    PROVE  NodeInv' /\ Advances(n)
  <1>0. Known(n) BY Here
  <1>1. /\ marker' = marker
          /\ link' = link
          /\ /\ installed'[n] \subseteq installed[n]
             /\ marker[n].from \in installed[n] => marker[n].from \in installed'[n]
             /\ marker[n].to \in installed[n] => marker[n].to \in installed'[n]
          /\ verified' = verified
          /\ reverted' = reverted
          /\ version' = version
          /\ task'[n] = "pruned"
          /\ want' = want
    BY <1>0 DEF CollectGarbage, Goes, Known, NodeTypeOK
  <1>2. NodeTypeOK'
    BY <1>0, NodeConstants DEF CollectGarbage, Goes, Known, NodeTypeOK, Markers, AllIds, Tasks, NoWant, NoMarker,
       FilesFit, ProcessFits, HistoryFits
  <1>3. OnlyAt(n) BY <1>0 DEF CollectGarbage, Goes, OnlyAt, Known, NodeTypeOK
  <1>4. FilesFit(marker[n], link[n], installed[n], verified[n])'
    BY <1>0, <1>1, NodeConstants DEF CollectGarbage, Goes, Known, NodeTypeOK, FilesFit, ProcessFits, HistoryFits, NoMarker, Markers
  <1>5. ProcessFits(marker[n], link[n], verified[n], version[n], task[n])'
    BY <1>0, <1>1, NodeConstants DEF CollectGarbage, Goes, Known, FilesFit, ProcessFits, NoMarker, Markers
  <1>6. HistoryFits(marker[n], link[n], reverted[n], version[n], task[n], want[n])'
    BY <1>0, <1>1, NodeConstants DEF CollectGarbage, Goes, Known, FilesFit, ProcessFits, HistoryFits, NoMarker, Markers
  <1>7. Advances(n)
    BY <1>0, <1>1, <1>3, NodeConstants DEF CollectGarbage, Goes, Preparing, Advances, Known, FilesFit, ProcessFits,
       HistoryFits, InFlight, NoMarker, NoWant, Markers
  <1>q. QED BY <1>2, <1>3, <1>4, <1>5, <1>6, <1>7, OneNodeSteps DEF Shape

(* The marker goes last.                                                  *)
LEMMA RemoveCommittedKeeps ==
    ASSUME NodeInv, NEW n \in Nodes, RemoveCommitted(n)
    PROVE  NodeInv' /\ Advances(n)
  <1>0. Known(n) BY Here
  <1>1. /\ marker'[n] = NoMarker
          /\ link' = link
          /\ installed' = installed
          /\ verified' = verified
          /\ reverted' = reverted
          /\ version' = version
          /\ task'[n] = "idle"
          /\ want' = want
    BY <1>0 DEF RemoveCommitted, Goes, Known, NodeTypeOK
  <1>2. NodeTypeOK'
    BY <1>0, NodeConstants DEF RemoveCommitted, Goes, Known, NodeTypeOK, Markers, AllIds, Tasks, NoWant, NoMarker,
       FilesFit, ProcessFits, HistoryFits
  <1>3. OnlyAt(n) BY <1>0 DEF RemoveCommitted, Goes, OnlyAt, Known, NodeTypeOK
  <1>4. FilesFit(marker[n], link[n], installed[n], verified[n])'
    BY <1>0, <1>1, NodeConstants DEF RemoveCommitted, Goes, Known, NodeTypeOK, FilesFit, ProcessFits, HistoryFits, NoMarker, Markers
  <1>5. ProcessFits(marker[n], link[n], verified[n], version[n], task[n])'
    BY <1>0, <1>1, NodeConstants DEF RemoveCommitted, Goes, Known, FilesFit, ProcessFits, NoMarker, Markers
  <1>6. HistoryFits(marker[n], link[n], reverted[n], version[n], task[n], want[n])'
    BY <1>0, <1>1, NodeConstants DEF RemoveCommitted, Goes, Known, FilesFit, ProcessFits, HistoryFits, NoMarker, Markers
  <1>7. Advances(n)
    BY <1>0, <1>1, <1>3, NodeConstants DEF RemoveCommitted, Goes, Preparing, Advances, Known, FilesFit, ProcessFits,
       HistoryFits, InFlight, NoMarker, NoWant, Markers
  <1>q. QED BY <1>2, <1>3, <1>4, <1>5, <1>6, <1>7, OneNodeSteps DEF Shape

(* A failed trial flags the revert before the process ends.               *)
LEMMA RejoinFailsKeeps ==
    ASSUME NodeInv, NEW n \in Nodes, RejoinFails(n)
    PROVE  NodeInv' /\ Advances(n)
  <1>0. Known(n) BY Here
  <1>1. /\ marker'[n] = [id |-> marker[n].id, from |-> marker[n].from, to |-> marker[n].to,
                        phase |-> "revert", boots |-> marker[n].boots]
          /\ link' = link
          /\ installed' = installed
          /\ verified' = verified
          /\ reverted' = reverted
          /\ version'[n] = 0
          /\ task'[n] = "down"
          /\ want'[n] = NoWant
    BY <1>0 DEF RejoinFails, InPhase, GoesDown, Known, NodeTypeOK
  <1>2. NodeTypeOK'
    BY <1>0, NodeConstants DEF RejoinFails, InPhase, GoesDown, Known, NodeTypeOK, Markers, AllIds, Tasks, NoWant, NoMarker,
       FilesFit, ProcessFits, HistoryFits
  <1>3. OnlyAt(n) BY <1>0 DEF RejoinFails, InPhase, GoesDown, OnlyAt, Known, NodeTypeOK
  <1>4. FilesFit(marker[n], link[n], installed[n], verified[n])'
    BY <1>0, <1>1, NodeConstants DEF RejoinFails, InPhase, GoesDown, Known, NodeTypeOK, FilesFit, ProcessFits, HistoryFits, NoMarker, Markers
  <1>5. ProcessFits(marker[n], link[n], verified[n], version[n], task[n])'
    BY <1>0, <1>1, NodeConstants DEF RejoinFails, InPhase, GoesDown, Known, FilesFit, ProcessFits, NoMarker, Markers
  <1>6. HistoryFits(marker[n], link[n], reverted[n], version[n], task[n], want[n])'
    BY <1>0, <1>1, NodeConstants DEF RejoinFails, InPhase, GoesDown, Known, FilesFit, ProcessFits, HistoryFits, NoMarker, Markers
  <1>7. Advances(n)
    BY <1>0, <1>1, <1>3, NodeConstants DEF RejoinFails, InPhase, GoesDown, Preparing, Advances, Known, FilesFit, ProcessFits,
       HistoryFits, InFlight, NoMarker, NoWant, Markers
  <1>q. QED BY <1>2, <1>3, <1>4, <1>5, <1>6, <1>7, OneNodeSteps DEF Shape

(* A verdict that cannot be written leaves the marker.                    *)
LEMMA VerdictFailsKeeps ==
    ASSUME NodeInv, NEW n \in Nodes, VerdictFails(n)
    PROVE  NodeInv' /\ Advances(n)
  <1>0. Known(n) BY Here
  <1>1. /\ marker' = marker
          /\ link' = link
          /\ installed' = installed
          /\ verified' = verified
          /\ reverted' = reverted
          /\ version' = version
          /\ task'[n] = "idle"
          /\ want' = want
    BY <1>0 DEF VerdictFails, Goes, Known, NodeTypeOK
  <1>2. NodeTypeOK'
    BY <1>0, NodeConstants DEF VerdictFails, Goes, Known, NodeTypeOK, Markers, AllIds, Tasks, NoWant, NoMarker,
       FilesFit, ProcessFits, HistoryFits
  <1>3. OnlyAt(n) BY <1>0 DEF VerdictFails, Goes, OnlyAt, Known, NodeTypeOK
  <1>4. FilesFit(marker[n], link[n], installed[n], verified[n])'
    BY <1>0, <1>1, NodeConstants DEF VerdictFails, Goes, Known, NodeTypeOK, FilesFit, ProcessFits, HistoryFits, NoMarker, Markers
  <1>5. ProcessFits(marker[n], link[n], verified[n], version[n], task[n])'
    BY <1>0, <1>1, NodeConstants DEF VerdictFails, Goes, Known, FilesFit, ProcessFits, NoMarker, Markers
  <1>6. HistoryFits(marker[n], link[n], reverted[n], version[n], task[n], want[n])'
    BY <1>0, <1>1, NodeConstants DEF VerdictFails, Goes, Known, FilesFit, ProcessFits, HistoryFits, NoMarker, Markers
  <1>7. Advances(n)
    BY <1>0, <1>1, <1>3, NodeConstants DEF VerdictFails, Goes, Preparing, Advances, Known, FilesFit, ProcessFits,
       HistoryFits, InFlight, NoMarker, NoWant, Markers
  <1>q. QED BY <1>2, <1>3, <1>4, <1>5, <1>6, <1>7, OneNodeSteps DEF Shape

(* Whom a directive reaches without a marker, and what an upgrade needs.   *)
LEMMA BeginPreparingKeeps ==
    ASSUME NodeInv, NEW n \in Nodes, NEW to \in Versions, NEW id \in AllIds,
           id \in Ids \/ id = RollbackId(to),
           BeginPreparing(n, id, to)
    PROVE  NodeInv'
  <1>0. Known(n) BY Here
  <1>1. /\ marker' = marker /\ link' = link /\ installed' = installed
        /\ verified' = verified /\ reverted' = reverted /\ version' = version
        /\ task'[n] = "preparing" /\ want'[n] = [id |-> id, to |-> to]
    BY <1>0 DEF BeginPreparing, Known, NodeTypeOK
  <1>2. NodeTypeOK'
    BY <1>0 DEF BeginPreparing, Known, NodeTypeOK, Tasks
  <1>3. OnlyAt(n) BY <1>0 DEF BeginPreparing, OnlyAt, Known, NodeTypeOK
  <1>4. marker[n] = NoMarker /\ (id > 0 => id \notin reverted[n] /\ version[n] # to)
    <2>1. ~Preparing(n) BY DEF BeginPreparing, Met
    <2>2. CASE id > 0
      <3>1. MetUpgrade(n, id, to) = "begin" BY <2>1, <2>2 DEF BeginPreparing, Met
      <3>q. QED BY <3>1 DEF MetUpgrade, InFlight
    <2>3. CASE ~(id > 0)
      <3>1. MetRollback(n, to) = "begin" BY <2>1, <2>3 DEF BeginPreparing, Met
      <3>q. QED BY <3>1, <2>3 DEF MetRollback, InFlight
    <2>q. QED BY <2>2, <2>3
  <1>5. version[n] # 0
    BY <1>0 DEF BeginPreparing, Hears, Known, ProcessFits
  <1>6. FilesFit(marker[n], link[n], installed[n], verified[n])'
    BY <1>0, <1>1 DEF Known
  <1>7. ProcessFits(marker[n], link[n], verified[n], version[n], task[n])'
    BY <1>0, <1>1, <1>4, <1>5 DEF Known, ProcessFits, NoMarker
  <1>8. HistoryFits(marker[n], link[n], reverted[n], version[n], task[n], want[n])'
    BY <1>0, <1>1, <1>4 DEF HistoryFits, NoMarker
  <1>q. QED BY <1>2, <1>3, <1>6, <1>7, <1>8, OneNodeSteps DEF Shape

(* Every step of a node keeps the invariant.                               *)
LEMMA NodeStepKeeps ==
    ASSUME NodeInv, NEW n \in Nodes, NodeStep(n)
    PROVE  NodeInv'
  <1>1. CASE StartUp(n) \/ StageMarker(n)
    BY <1>1, StartUpKeeps, StageMarkerKeeps
  <1>2. CASE Works(n)
    BY <1>2, StageBinaryKeeps, RecordExecutedKeeps, ActivateTargetKeeps,
       RestorePreviousKeeps, ArchiveAbandonedKeeps, BootNormallyKeeps, BootToVerifyKeeps,
       BootToRevertKeeps, ActivatePreviousKeeps, BootToCompleteKeeps, RemoveRevertedKeeps,
       RecordCommittedKeeps, CollectGarbageKeeps, RemoveCommittedKeeps DEF Works
  <1>3. CASE Replaces(n)
    BY <1>3, ExecTargetKeeps, ExecPreviousKeeps DEF Replaces
  <1>4. CASE FailsToWrite(n)
    BY <1>4, SwapRefusedKeeps, ExecFailsKeeps, RestoreFailsKeeps, RecoveryFailsKeeps,
       VerdictFailsKeeps DEF FailsToWrite
  <1>5. CASE Ends(n)
    BY <1>5, RejoinFailsKeeps, CrashKeeps, PreparationFailsKeeps DEF Ends
  <1>6. CASE Directed(n)
    <2>1. PICK to \in Versions :
              \/ \E id \in Ids : BeginPreparing(n, id, to)
              \/ BeginPreparing(n, RollbackId(to), to)
      BY <1>6 DEF Directed
    <2>2. CASE \E id \in Ids : BeginPreparing(n, id, to)
      BY <2>2, BeginPreparingKeeps DEF AllIds
    <2>3. CASE BeginPreparing(n, RollbackId(to), to)
      <3>1. RollbackId(to) \in AllIds BY DEF AllIds
      <3>q. QED BY <2>3, <3>1, BeginPreparingKeeps
    <2>q. QED BY <2>1, <2>2, <2>3
  <1>q. QED BY <1>1, <1>2, <1>3, <1>4, <1>5, <1>6 DEF NodeStep

(* Steps elsewhere leave the invariant alone.                              *)
LEMMA NodeStutterKeeps == NodeInv /\ UNCHANGED nodeVars => NodeInv'
  BY DEF NodeInv, NodeTypeOK, Shape, nodeVars

(* What the three properties take from the invariant.                      *)
LEMMA NodeInvImplies ==
    NodeInv => UnverifiedIsGuarded /\ AlwaysBootable /\ NoSecondTrial
  <1>1. SUFFICES ASSUME NodeInv
                 PROVE  UnverifiedIsGuarded /\ AlwaysBootable /\ NoSecondTrial
    OBVIOUS
  <1>2. ASSUME NEW n \in Nodes PROVE Known(n) BY <1>1, <1>2, Here
  <1>3. UnverifiedIsGuarded
    BY <1>2 DEF UnverifiedIsGuarded, Known, FilesFit, Markers, NoMarker
  <1>4. AlwaysBootable
    BY <1>2 DEF AlwaysBootable, InFlight, Known, FilesFit, Markers, NoMarker
  <1>5. NoSecondTrial
    <2>1. SUFFICES ASSUME NEW n \in Nodes, marker[n].id > 0, version[n] = marker[n].to,
                          marker[n].id \in reverted[n]
                   PROVE  FALSE
      BY DEF NoSecondTrial
    <2>2. Known(n) BY <1>2
    <2>3. marker[n] \in Markers BY <2>1, <2>2 DEF Known, NoMarker
    <2>4. version[n] = 0 \/ version[n] = marker[n].from
      BY <2>1, <2>2 DEF Known, HistoryFits
    <2>5. marker[n].from # marker[n].to
      BY <2>1, <2>2, <2>3 DEF Known, FilesFit, Markers
    <2>6. marker[n].to # 0 BY <2>3, NodeConstants DEF Markers
    <2>q. QED BY <2>1, <2>4, <2>5, <2>6
  <1>q. QED BY <1>3, <1>4, <1>5

(* For every node that is sent any directives in any order and stops       *)
(* anywhere: an unverified binary is never what a restart finds without    *)
(* the marker that takes it back, the symlink and the way back never       *)
(* dangle, and no reverted upgrade is tried twice (manager.rs).            *)
THEOREM NodeIsSafe ==
    NodeSpec => [](NodeTypeOK /\ UnverifiedIsGuarded /\ AlwaysBootable /\ NoSecondTrial)
  <1>1. NodeInv /\ [\E n \in Nodes : NodeStep(n)]_nodeVars => NodeInv'
    BY NodeStepKeeps, NodeStutterKeeps
  <1>2. NodeInv => NodeTypeOK BY DEF NodeInv
  <1>q. QED BY <1>1, <1>2, NodeInitHolds, NodeInvImplies, PTL DEF NodeSpec

(* The plan gives every node a place of its own.                           *)
LEMMA Positions ==
    ASSUME NEW n \in Nodes, NEW m \in Nodes
    PROVE  Position[n] \in Nat /\ (Position[n] = Position[m] => n = m)
  <1>1. ASSUME NEW k \in Nodes PROVE Position[k] \in DOMAIN Order /\ Order[Position[k]] = k
    <2>1. \E i \in DOMAIN Order : Order[i] = k BY FleetConstants
    <2>q. QED BY <2>1 DEF Position
  <1>2. DOMAIN Order \subseteq Nat BY FleetConstants
  <1>q. QED BY <1>1, <1>2

(* Whoever is among the first k of a set is among the first k of what is   *)
(* left of it.                                                             *)
LEMMA FirstOfShrinks ==
    ASSUME NEW s \in SUBSET Nodes, NEW r \in SUBSET s, NEW k \in Nat,
           NEW n \in r, n \in FirstOf(s, k)
    PROVE  n \in FirstOf(r, k)
  <1> DEFINE A == {m \in s : Position[m] < Position[n]}
             B == {m \in r : Position[m] < Position[n]}
  <1>1. IsFiniteSet(Nodes) BY FleetConstants
  <1>2. IsFiniteSet(A) BY <1>1, FS_Subset
  <1>3. B \subseteq A OBVIOUS
  <1>4. Cardinality(B) <= Cardinality(A) /\ IsFiniteSet(B) BY <1>2, <1>3, FS_Subset
  <1>5. Cardinality(A) \in Nat /\ Cardinality(B) \in Nat BY <1>2, <1>4, FS_CardinalityType
  <1>6. Cardinality(A) < k BY DEF FirstOf
  <1> HIDE DEF A, B
  <1>7. Cardinality(B) < k BY <1>4, <1>5, <1>6
  <1>q. QED BY <1>7 DEF FirstOf, B

(* The first k of a set are at most k: the one of them with the highest    *)
(* position has all others below it.                                       *)
LEMMA FirstOfBounded ==
    ASSUME NEW s \in SUBSET Nodes, NEW k \in Nat
    PROVE  IsFiniteSet(FirstOf(s, k)) /\ Cardinality(FirstOf(s, k)) <= k
  <1> DEFINE F == FirstOf(s, k)
             Above(n) == {m \in F : Position[n] < Position[m]}
             Below(n) == {m \in s : Position[m] < Position[n]}
             T == {Above(n) : n \in F}
  <1>1. IsFiniteSet(Nodes) BY FleetConstants
  <1>2. F \subseteq s BY DEF FirstOf
  <1>3. F \subseteq Nodes /\ IsFiniteSet(F) BY <1>1, <1>2, FS_Subset
  <1>4. CASE F = {} BY <1>4, FS_EmptySet
  <1>5. CASE F # {}
    <2>1. T \in SUBSET SUBSET F OBVIOUS
    <2>2. T # {} BY <1>5
    <2>3. \A x \in T : x \in FiniteSubsetsOf(F)
      <3>1. ASSUME NEW x \in T PROVE x \subseteq F /\ IsFiniteSet(x) BY <1>3, <2>1, FS_Subset
      <3>q. QED BY <3>1 DEF FiniteSubsetsOf
    <2>4. \E x \in T : \A y \in T : ~ (<<y, x>> \in StrictSubsetOrdering(F))
      BY <2>2, <2>3, FS_StrictSubsetOrderingWellFounded, WFMin
    <2>5. PICK n \in F : \A y \in T : ~ (<<y, Above(n)>> \in StrictSubsetOrdering(F)) BY <2>4
    <2>6. Above(n) = {}
      <3>1. SUFFICES ASSUME NEW m \in Above(n) PROVE FALSE OBVIOUS
      <3>2. Position[n] \in Nat /\ Position[m] \in Nat BY <1>3, Positions
      <3>3. \A j \in F : Position[j] \in Nat BY <1>3, Positions
      <3>4. Above(m) \subseteq Above(n) /\ m \notin Above(m) BY <3>2, <3>3
      <3>5. Above(m) \in T OBVIOUS
      <3>6. <<Above(m), Above(n)>> \in StrictSubsetOrdering(F)
        BY <3>4, <3>1 DEF StrictSubsetOrdering
      <3>q. QED BY <2>5, <3>5, <3>6
    <2>7. ASSUME NEW m \in F, m # n PROVE m \in Below(n)
      <3>1. Position[m] \in Nat /\ Position[n] \in Nat /\ Position[m] # Position[n]
        BY <1>3, <2>7, Positions
      <3>2. m \notin Above(n) BY <2>6
      <3>q. QED BY <1>2, <3>1, <3>2
    <2>8. F \ {n} \subseteq Below(n) BY <2>7
    <2>9. IsFiniteSet(Below(n)) BY <1>1, FS_Subset
    <2>10. IsFiniteSet(F \ {n}) /\ Cardinality(F \ {n}) = Cardinality(F) - 1
      BY <1>3, FS_RemoveElement
    <2>11. Cardinality(F \ {n}) <= Cardinality(Below(n)) BY <2>8, <2>9, FS_Subset
    <2>12. Cardinality(Below(n)) < k BY DEF FirstOf
    <2>13. Cardinality(F) \in Nat /\ Cardinality(Below(n)) \in Nat
      BY <1>3, <2>9, FS_CardinalityType
    <2> HIDE DEF F, Below
    <2>q. QED BY <1>3, <2>10, <2>11, <2>12, <2>13 DEF F
  <1>q. QED BY <1>4, <1>5

-----------------------------------------------------------------------------
(* A node in a fleet.                                                      *)

RunType == [id: Ids, direction: {"upgrade", "rollback"}, phase: Phases,
            rec: [Nodes -> Records], retry: [Nodes -> BOOLEAN]]

Driven == {"workers", "council", "leading"}
Passes == {"poll", "direct", "await", "resend"}

TickType == [st: RunType \union {NoRun}, at: Passes \union {"none", "write"},
             todo: SUBSET Nodes, answer: {"none", "ok", "transient", "refused"},
             alive: SUBSET Nodes, sent: SUBSET Nodes, dirty: BOOLEAN]

GroupOf(role, st) == {n \in Nodes : role[n] = RoleOf(st.phase)}

(* A tick that is under way drives a run and has a node to turn to in a    *)
(* pass, of the group that the run's phase names.                          *)
TickFits(role, t) ==
    /\ t \in TickType
    /\ t.at = "none" => t = NoTick
    /\ t.at # "none" => t.st \in RunType
    /\ t.at \in Passes =>
           t.todo # {} /\ t.todo \subseteq GroupOf(role, t.st) /\ t.st.phase \in Driven

TicksFit == tick \in [Nodes -> TickType] /\ \A v \in Nodes : TickFits(scene.role, tick[v])

RunFits == run \in RunType \union {NoRun}

SceneFits == scene \in SettingType /\ scene.left["runs"] <= Cardinality(Ids)

LeaderFits == leader \in Voters \union {NoLeader}

FleetType == TicksFit /\ RunFits /\ SceneFits /\ LeaderFits

NodeMoves == (\E n \in Nodes : NodeStep(n)) \/ UNCHANGED nodeVars

(* A tick in a pass, as it stands before the pass looks at what is left.   *)
Turning(role, t) ==
    /\ t \in TickType /\ t.st \in RunType /\ t.st.phase \in Driven
    /\ t.todo \subseteq GroupOf(role, t.st)
    /\ t.at \in Passes

(* What step decides leaves the run's id, direction and records alone.     *)
LEMMA SettledFits ==
    ASSUME NEW st \in RunType, st.phase \in Driven
    PROVE  /\ Settled(st) \in RunType
           /\ Settled(st).id = st.id /\ Settled(st).direction = st.direction
           /\ Settled(st).rec = st.rec /\ Settled(st).retry = st.retry
  <1> DEFINE p == Settled(st).phase
  <1>1. Settled(st) = [st EXCEPT !.phase = p]
    <2>1. \E x : Settled(st) = [st EXCEPT !.phase = x] BY DEF Settled
    <2>2. PICK x : Settled(st) = [st EXCEPT !.phase = x] BY <2>1
    <2>3. x = p BY <2>2 DEF RunType
    <2>q. QED BY <2>2, <2>3
  <1>2. p \in Phases
    <2>1. st.phase \in Phases BY DEF RunType
    <2>2. st.phase = "workers" \/ st.phase = "council" \/ st.phase = "leading" BY DEF Driven
    <2>3. p \in {"paused", st.phase, "council", "transferring", "completed"}
      <3>1. CASE st.phase = "workers" BY <3>1 DEF Settled, RunType
      <3>2. CASE st.phase = "council" BY <3>2 DEF Settled, RunType
      <3>3. CASE st.phase = "leading" BY <3>3 DEF Settled, RunType
      <3>q. QED BY <2>2, <3>1, <3>2, <3>3
    <2> HIDE DEF p
    <2>q. QED BY <2>1, <2>3 DEF Phases
  <1> HIDE DEF p
  <1>q. QED BY <1>1, <1>2 DEF RunType

(* The passes of a tick keep its type (poll_and_drive_group).              *)
LEMMA AfterResendFits ==
    ASSUME NEW t, Turning(scene.role, t)
    PROVE  TickFits(scene.role, AfterResend(t))
  <1>1. CASE t.todo # {} BY <1>1 DEF AfterResend, TickFits, Turning, Passes
  <1>2. CASE t.todo = {}
    <2>1. Settled(t.st) \in RunType BY SettledFits DEF Turning
    <2>2. AfterResend(t) = [t EXCEPT !.at = "write", !.st = Settled(t.st),
                                     !.dirty = t.dirty \/ Settled(t.st) # t.st]
      BY <1>2 DEF AfterResend, Turning, TickType
    <2> DEFINE z == Settled(t.st)
               d == t.dirty \/ z # t.st
    <2>3. d \in BOOLEAN OBVIOUS
    <2> HIDE DEF z, d
    <2>4. AfterResend(t) = [t EXCEPT !.at = "write", !.st = z, !.dirty = d] BY <2>2 DEF z, d
    <2>5. z \in RunType BY <2>1 DEF z
    <2>q. QED BY <2>3, <2>4, <2>5 DEF TickFits, Turning, TickType, Passes
  <1>q. QED BY <1>1, <1>2

(* The pass that directs keeps the type (poll_and_drive_group).            *)
LEMMA AfterDirectFits ==
    ASSUME NEW t, Turning(scene.role, t)
    PROVE  TickFits(scene.role, AfterDirect(t))
  <1>1. CASE t.todo = {} /\ ToResend(t) # {}
    <2>1. ToResend(t) \subseteq GroupOf(scene.role, t.st)
      BY DEF ToResend, In, Group, GroupOf, Role
    <2> DEFINE r == ToResend(t)
    <2>2. AfterDirect(t) = [t EXCEPT !.at = "resend", !.todo = r] BY <1>1 DEF AfterDirect
    <2>3. r # {} /\ r \subseteq GroupOf(scene.role, t.st) /\ r \subseteq Nodes
      BY <1>1, <2>1 DEF GroupOf
    <2> HIDE DEF r
    <2>q. QED BY <2>2, <2>3 DEF TickFits, Turning, TickType, Passes
  <1>2. CASE ~(t.todo = {} /\ ToResend(t) # {})
    BY <1>2, AfterResendFits DEF AfterDirect
  <1>q. QED BY <1>1, <1>2

(* The pass that polls keeps the type (poll_and_drive_group).              *)
LEMMA AfterPollFits ==
    ASSUME NEW v, NEW t, Turning(scene.role, t)
    PROVE  TickFits(scene.role, AfterPoll(v, t))
  <1>1. CASE t.todo = {} /\ ToDirect(v, t) # {}
    <2>1. ToDirect(v, t) \subseteq GroupOf(scene.role, t.st)
      BY DEF ToDirect, FirstOf, In, Group, GroupOf, Role
    <2> DEFINE r == ToDirect(v, t)
    <2>2. AfterPoll(v, t) = [t EXCEPT !.at = "direct", !.todo = r] BY <1>1 DEF AfterPoll
    <2>3. r # {} /\ r \subseteq GroupOf(scene.role, t.st) /\ r \subseteq Nodes
      BY <1>1, <2>1 DEF GroupOf
    <2> HIDE DEF r
    <2>q. QED BY <2>2, <2>3 DEF TickFits, Turning, TickType, Passes
  <1>2. CASE ~(t.todo = {} /\ ToDirect(v, t) # {})
    BY <1>2, AfterDirectFits DEF AfterPoll
  <1>q. QED BY <1>1, <1>2

(* One tick changes.                                                       *)
LEMMA OneTick ==
    ASSUME TicksFit, NEW v \in Nodes, NEW r, TickFits(scene.role, r),
           tick' = [tick EXCEPT ![v] = r], scene'.role = scene.role
    PROVE  TicksFit'
  BY DEF TicksFit, TickFits

(* A leader between two ticks holds no run.                                *)
LEMMA NoTickFits == ASSUME NEW role PROVE TickFits(role, NoTick)
  BY DEF TickFits, NoTick, TickType, Passes

(* A tick after it has asked a node, and after a node has been told.       *)
AskedOf(t, n, next) ==
    [t EXCEPT !.todo = @ \ {n}, !.st.rec[n] = next,
         !.st.retry[n] = @ /\ next = "pending",
         !.dirty = @ \/ next # t.st.rec[n] \/ next = "healthy"]

ToldTo(t, n, rec, retry, rest) ==
    [t EXCEPT !.at = "direct", !.answer = "none", !.todo = rest, !.dirty = TRUE,
         !.st.rec[n] = rec, !.st.retry[n] = retry,
         !.sent = IF rec = "directed" THEN @ \union {n} ELSE @]

(* The same run with another record for n.                                 *)
Rewritten(st, z, n, rec) ==
    /\ z \in RunType
    /\ z.id = st.id /\ z.direction = st.direction /\ z.phase = st.phase
    /\ z.rec = [st.rec EXCEPT ![n] = rec]

(* What a probe changes in a tick (poll_and_drive_group, pass 1).          *)
LEMMA AskedOfFits ==
    ASSUME NEW role, NEW t, TickFits(role, t), t.at \in Passes, NEW n \in Nodes, NEW next \in Records
    PROVE  LET u == AskedOf(t, n, next)
           IN  Turning(role, u) /\ u.at = t.at /\ u.todo = t.todo \ {n}
               /\ Rewritten(t.st, u.st, n, next)
  <1> DEFINE u == AskedOf(t, n, next)
             rt == t.st.retry[n] /\ next = "pending"
             d == t.dirty \/ next # t.st.rec[n] \/ next = "healthy"
             z == [t.st EXCEPT !.rec[n] = next, !.retry[n] = rt]
  <1>1. t \in TickType /\ t.st \in RunType /\ t.st.phase \in Driven /\ t.todo \subseteq GroupOf(role, t.st)
    BY DEF TickFits, Passes
  <1>2. rt \in BOOLEAN /\ d \in BOOLEAN OBVIOUS
  <1>3. u = [t EXCEPT !.todo = t.todo \ {n}, !.st = z, !.dirty = d]
    BY <1>1 DEF AskedOf, TickType, RunType
  <1> HIDE DEF rt, d
  <1>4. Rewritten(t.st, z, n, next) BY <1>1, <1>2 DEF RunType, Rewritten
  <1> HIDE DEF z
  <1>5. u \in TickType /\ u.st = z /\ u.todo = t.todo \ {n} /\ u.at = t.at
    BY <1>1, <1>2, <1>3, <1>4 DEF TickType, Rewritten
  <1>6. GroupOf(role, u.st) = GroupOf(role, t.st) BY <1>4, <1>5 DEF GroupOf, Rewritten
  <1> HIDE DEF u
  <1>7. Turning(role, u) BY <1>1, <1>4, <1>5, <1>6 DEF Turning, Rewritten
  <1>q. QED BY <1>4, <1>5, <1>7 DEF u

(* What an answer changes in a tick (poll_and_drive_group, pass 2).        *)
LEMMA ToldToFits ==
    ASSUME NEW role, NEW t, TickFits(role, t), t.at \in Passes, NEW n \in Nodes, NEW rec \in Records,
           NEW retry \in BOOLEAN, NEW rest \in SUBSET t.todo
    PROVE  LET u == ToldTo(t, n, rec, retry, rest)
           IN  Turning(role, u) /\ u.at = "direct" /\ u.todo = rest
               /\ Rewritten(t.st, u.st, n, rec)
  <1> DEFINE u == ToldTo(t, n, rec, retry, rest)
             sent == IF rec = "directed" THEN t.sent \union {n} ELSE t.sent
             z == [t.st EXCEPT !.rec[n] = rec, !.retry[n] = retry]
  <1>1. t \in TickType /\ t.st \in RunType /\ t.st.phase \in Driven /\ t.todo \subseteq GroupOf(role, t.st)
    BY DEF TickFits, Passes
  <1>2. sent \in SUBSET Nodes BY <1>1 DEF TickType
  <1>3. u = [t EXCEPT !.at = "direct", !.answer = "none", !.todo = rest, !.dirty = TRUE,
                      !.st = z, !.sent = sent]
    BY <1>1 DEF ToldTo, TickType, RunType
  <1> HIDE DEF sent
  <1>4. Rewritten(t.st, z, n, rec) BY <1>1 DEF RunType, Rewritten
  <1> HIDE DEF z
  <1>5. u \in TickType /\ u.st = z /\ u.todo = rest /\ u.at = "direct"
    BY <1>1, <1>2, <1>3, <1>4 DEF TickType, Rewritten, Passes
  <1>6. GroupOf(role, u.st) = GroupOf(role, t.st) BY <1>4, <1>5 DEF GroupOf, Rewritten
  <1> HIDE DEF u
  <1>7. Turning(role, u) BY <1>1, <1>4, <1>5, <1>6 DEF Turning, Rewritten, Passes
  <1>q. QED BY <1>4, <1>5, <1>7 DEF u

(* A tick that only has one node less to turn to.                          *)
LEMMA OneLessFits ==
    ASSUME NEW role, NEW t, TickFits(role, t), t.at \in Passes, NEW n
    PROVE  LET u == [t EXCEPT !.todo = @ \ {n}]
           IN  Turning(role, u) /\ u.at = t.at /\ u.todo = t.todo \ {n} /\ u.st = t.st
  BY DEF TickFits, Turning, TickType, GroupOf, Passes

(* Spending a bound keeps the cluster, and ids are only used up.           *)
SameCluster ==
    /\ SceneFits'
    /\ scene'.role = scene.role /\ scene'.parallel = scene.parallel
    /\ scene'.left["runs"] <= scene.left["runs"]

(* Spend takes one from one bound.                                         *)
LEMMA SpendKeeps ==
    ASSUME SceneFits, NEW what \in Bounds, Spend(what)
    PROVE  SameCluster
  <1>1. scene.left \in [Bounds -> Nat] BY DEF SceneFits, SettingType
  <1>2. scene'.left = [scene.left EXCEPT ![what] = scene.left[what] - 1]
        /\ scene'.role = scene.role /\ scene'.parallel = scene.parallel
        /\ DOMAIN scene' = DOMAIN scene
    BY DEF Spend, SceneFits, SettingType
  <1>3. scene'.left \in [Bounds -> Nat] /\ scene'.left["runs"] <= scene.left["runs"]
    BY <1>1, <1>2 DEF Spend, Bounds
  <1>4. scene' = [role |-> scene.role, parallel |-> scene.parallel,
                  left |-> [scene.left EXCEPT ![what] = scene.left[what] - 1]]
    BY DEF Spend, SceneFits, SettingType
  <1>5. scene' \in SettingType BY <1>1, <1>2, <1>3, <1>4 DEF SceneFits, SettingType
  <1>6. scene.left["runs"] \in Nat /\ scene'.left["runs"] \in Nat /\ Cardinality(Ids) \in Nat
    BY <1>1, <1>3, FleetConstants, FS_CardinalityType DEF Bounds
  <1>q. QED BY <1>2, <1>3, <1>5, <1>6 DEF SceneFits, SameCluster

(* A step that spends nothing keeps the cluster.                           *)
LEMMA SameSceneKeeps == SceneFits /\ UNCHANGED scene => SameCluster
  BY DEF SceneFits, SameCluster, SettingType, Bounds

(* An answer or a dropped connection changes nothing else in a tick.       *)
Heard(t, u) ==
    \/ u = t
    \/ /\ t.at = "await" /\ u.at = "await"
       /\ u.st = t.st /\ u.todo = t.todo

(* A reply reaches only the ticks that await it, and they stay well formed. *)
LEMMA AnsweredFits ==
    ASSUME NEW role, \A v \in Nodes : TickFits(role, tick[v]), NEW n,
           NEW answer \in {"ok", "transient", "refused"}
    PROVE  \A v \in Nodes : /\ TickFits(role, Answered(n, answer)[v])
                            /\ Heard(tick[v], Answered(n, answer)[v])
  <1>1. SUFFICES ASSUME NEW v \in Nodes
                 PROVE  /\ TickFits(role, Answered(n, answer)[v])
                        /\ Heard(tick[v], Answered(n, answer)[v])
    OBVIOUS
  <1>2. \/ Answered(n, answer)[v] = tick[v]
        \/ tick[v].at = "await" /\ Answered(n, answer)[v] = [tick[v] EXCEPT !.answer = answer]
    BY DEF Answered
  <1>3. TickFits(role, tick[v]) OBVIOUS
  <1>4. CASE Answered(n, answer)[v] = tick[v] BY <1>3, <1>4 DEF Heard
  <1>5. CASE tick[v].at = "await" /\ Answered(n, answer)[v] = [tick[v] EXCEPT !.answer = answer]
    BY <1>3, <1>5 DEF TickFits, TickType, Heard, Passes
  <1>q. QED BY <1>2, <1>4, <1>5

(* What a step of a node does to the ticks and the council.                *)
Overheard ==
    /\ \A v \in Nodes : tick'[v] = NoTick \/ Heard(tick[v], tick'[v])
    /\ run' = run

(* A process that ends takes its own tick along and cuts off who waits.    *)
LEMMA ProcessEndsFits ==
    ASSUME FleetType, NEW n \in Nodes, ProcessEnds(n), SameCluster
    PROVE  TicksFit' /\ RunFits' /\ LeaderFits' /\ Overheard
  <1>1. \A v \in Nodes : TickFits(scene.role, tick[v]) BY DEF FleetType, TicksFit
  <1>2. \A v \in Nodes : tick'[v] = NoTick \/ tick'[v] = Answered(n, "transient")[v]
    BY DEF ProcessEnds
  <1>3. \A v \in Nodes : TickFits(scene.role, tick'[v]) /\ (tick'[v] = NoTick \/ Heard(tick[v], tick'[v]))
    BY <1>1, <1>2, AnsweredFits, NoTickFits
  <1>4. tick' = [v \in Nodes |-> tick'[v]] BY DEF ProcessEnds
  <1>5. tick' \in [Nodes -> TickType] BY <1>3, <1>4 DEF TickFits
  <1>6. Voters' = Voters BY DEF SameCluster, Voters
  <1>q. QED BY <1>3, <1>5, <1>6 DEF TicksFit, SameCluster, ProcessEnds, FleetType, RunFits, LeaderFits,
            Overheard

(* An answer reaches whoever waits for it.                                 *)
LEMMA AnswerFits ==
    ASSUME FleetType, NEW n \in Nodes, NEW answer \in {"ok", "transient", "refused"},
           tick' = Answered(n, answer), SameCluster, UNCHANGED <<run, leader>>
    PROVE  TicksFit' /\ RunFits' /\ LeaderFits' /\ Overheard
  <1>1. \A v \in Nodes : TickFits(scene.role, tick[v]) BY DEF FleetType, TicksFit
  <1>3. \A v \in Nodes : TickFits(scene.role, tick'[v]) /\ Heard(tick[v], tick'[v])
    BY <1>1, AnsweredFits
  <1>4. tick' = [v \in Nodes |-> tick'[v]] BY DEF Answered
  <1>5. tick' \in [Nodes -> TickType] BY <1>3, <1>4 DEF TickFits
  <1>6. Voters' = Voters BY DEF SameCluster, Voters
  <1>q. QED BY <1>3, <1>5, <1>6 DEF TicksFit, SameCluster, FleetType, RunFits, LeaderFits, Overheard

(* What a node does without being told.                                    *)
OwnStep(n) ==
    StartUp(n) \/ StageMarker(n) \/ Works(n) \/ Replaces(n) \/ FailsToWrite(n) \/ Ends(n)

(* What a node does on its own is a step of NodeUpgrade.                   *)
LEMMA NodeNextFits ==
    ASSUME FleetType, NEW n \in Nodes, NodeNext(n)
    PROVE  FleetType' /\ OwnStep(n) /\ Overheard /\ SameCluster
  <1>0. SceneFits BY DEF FleetType
  <1>1. CASE NodeWorks(n) \/ NodeStarts(n)
    <2>1. SameCluster BY <1>0, <1>1, SameSceneKeeps DEF NodeWorks, NodeStarts
    <2>2. UNCHANGED <<tick, run, leader, scene>> BY <1>1 DEF NodeWorks, NodeStarts, fleetVars
    <2>3. Overheard BY <2>2 DEF Overheard, Heard
    <2>q. QED BY <1>1, <2>1, <2>2, <2>3 DEF NodeWorks, NodeStarts, OwnStep, FleetType, TicksFit, RunFits,
             SceneFits, LeaderFits, Voters
  <1>2. CASE NodeStages(n)
    <2>1. SameCluster BY <1>0, <1>2, SameSceneKeeps DEF NodeStages
    <2>2. TicksFit' /\ RunFits' /\ LeaderFits' /\ Overheard
      BY <1>2, <2>1, AnswerFits DEF NodeStages
    <2>q. QED BY <1>2, <2>1, <2>2 DEF NodeStages, OwnStep, FleetType, SameCluster
  <1>3. CASE NodeRefuses(n)
    <2>1. SameCluster BY <1>0, <1>3, SpendKeeps DEF NodeRefuses, Bounds
    <2>2. TicksFit' /\ RunFits' /\ LeaderFits' /\ Overheard
      BY <1>3, <2>1, AnswerFits DEF NodeRefuses
    <2>q. QED BY <1>3, <2>1, <2>2 DEF NodeRefuses, OwnStep, Ends, FleetType, SameCluster
  <1>4. CASE NodeExecs(n)
    <2>1. SameCluster BY <1>0, <1>4, SameSceneKeeps DEF NodeExecs
    <2>2. TicksFit' /\ RunFits' /\ LeaderFits' /\ Overheard BY <1>4, <2>1, ProcessEndsFits DEF NodeExecs
    <2>q. QED BY <1>4, <2>1, <2>2 DEF NodeExecs, OwnStep, FleetType, SameCluster
  <1>5. CASE NodeExits(n) \/ NodeCrashes(n)
    <2>1. SameCluster BY <1>0, <1>5, SpendKeeps DEF NodeExits, NodeCrashes, Bounds
    <2>2. TicksFit' /\ RunFits' /\ LeaderFits' /\ Overheard
      BY <1>5, <2>1, ProcessEndsFits DEF NodeExits, NodeCrashes
    <2>q. QED BY <1>5, <2>1, <2>2 DEF NodeExits, NodeCrashes, OwnStep, Ends, FleetType, SameCluster
  <1>6. CASE NodeFailsToWrite(n)
    <2>1. SameCluster BY <1>0, <1>6, SpendKeeps DEF NodeFailsToWrite, Bounds
    <2>2. UNCHANGED <<tick, run, leader>> BY <1>6 DEF NodeFailsToWrite, fleetVars
    <2>3. Overheard BY <2>2 DEF Overheard, Heard
    <2>4. Voters' = Voters BY <2>1 DEF SameCluster, Voters
    <2>q. QED BY <1>6, <2>1, <2>2, <2>3, <2>4 DEF NodeFailsToWrite, OwnStep, FleetType, TicksFit,
              RunFits, LeaderFits, SameCluster
  <1>q. QED BY <1>1, <1>2, <1>3, <1>4, <1>5, <1>6 DEF NodeNext

(* A directive is one a node may be sent.                                  *)
LEMMA DirectiveIsKnown ==
    ASSUME NEW st, st.id \in Ids, NEW n \in Nodes,
           BeginPreparing(n, DirectiveId(st), TargetOf(st)) \/ BeginPreparing(n, st.id, TargetOf(st))
    PROVE  NodeStep(n)
  <1>1. Target \in Versions /\ Base \in Versions BY NodeConstants, FleetConstants
  <1>2. TargetOf(st) \in Versions BY <1>1 DEF TargetOf
  <1>3. CASE BeginPreparing(n, st.id, TargetOf(st))
    BY <1>2, <1>3 DEF NodeStep, Directed
  <1>4. CASE BeginPreparing(n, DirectiveId(st), TargetOf(st))
    <2>1. CASE st.direction = "upgrade" BY <1>2, <1>4, <2>1 DEF NodeStep, Directed, DirectiveId
    <2>2. CASE st.direction # "upgrade"
      <3>1. DirectiveId(st) = RollbackId(TargetOf(st)) BY <2>2 DEF DirectiveId, TargetOf
      <3>q. QED BY <1>2, <1>4, <3>1 DEF NodeStep, Directed
    <2>q. QED BY <2>1, <2>2
  <1>q. QED BY <1>3, <1>4

(* Only the tick of v changes, to u.                                       *)
TickMoves(v, u) ==
    /\ tick' = [tick EXCEPT ![v] = u]
    /\ SameCluster
    /\ UNCHANGED <<run, leader>>

(* A step of one tick keeps the types of the fleet.                        *)
LEMMA TickMovesFits ==
    ASSUME FleetType, NEW v \in Nodes, NEW u, TickFits(scene.role, u), TickMoves(v, u)
    PROVE  FleetType'
  <1>1. TicksFit' BY OneTick DEF FleetType, TickMoves, SameCluster
  <1>2. Voters' = Voters BY DEF TickMoves, SameCluster, Voters
  <1>q. QED BY <1>1, <1>2 DEF FleetType, TickMoves, SameCluster, RunFits, LeaderFits

(* A tick starts from the council's run (run_orchestrator).                *)
LEMMA BeginTickFits ==
    ASSUME FleetType, NEW v \in Nodes, BeginTick(v)
    PROVE  /\ FleetType' /\ UNCHANGED nodeVars
           /\ run \in RunType /\ tick[v] = NoTick
           /\ \E u : /\ TickMoves(v, u)
                     /\ \/ /\ run.phase \in {"preparing", "transferring"}
                           /\ u.at = "write"
                           /\ u.st = [run EXCEPT !.phase =
                                  IF run.phase = "preparing" THEN "workers" ELSE "leading"]
                        \/ \E t : u = AfterPoll(v, t) /\ t.st = run /\ Turning(scene.role, t)
                                  /\ t.at = "poll"
  <1>1. run \in RunType BY DEF BeginTick, FleetType, RunFits, NoRun
  <1>2. SameCluster BY SameSceneKeeps DEF BeginTick, FleetType
  <1>3. CASE run.phase \in {"preparing", "transferring"}
    <2> DEFINE st == [run EXCEPT !.phase = IF run.phase = "preparing" THEN "workers" ELSE "leading"]
               u == [NoTick EXCEPT !.at = "write", !.dirty = TRUE, !.st = st]
    <2>1. TickMoves(v, u) BY <1>2, <1>3 DEF BeginTick, TickMoves
    <2>2. st \in RunType BY <1>1 DEF RunType, Phases
    <2> HIDE DEF st
    <2>3. u.at = "write" /\ u.st = st /\ TickFits(scene.role, u)
      BY <2>2 DEF NoTick, TickFits, TickType, Passes
    <2>4. FleetType' BY <2>1, <2>3, TickMovesFits
    <2>q. QED BY <1>1, <1>3, <2>1, <2>3, <2>4 DEF BeginTick, st
  <1>4. CASE run.phase \notin {"preparing", "transferring"}
    <2>1. PICK alive \in {Up, Members} :
              tick' = [tick EXCEPT ![v] = AfterPoll(v,
                  [NoTick EXCEPT !.at = "poll", !.st = run, !.alive = alive,
                       !.todo = In(run, Records \ {"failed"})])]
      BY <1>4 DEF BeginTick
    <2> DEFINE t == [NoTick EXCEPT !.at = "poll", !.st = run, !.alive = alive,
                         !.todo = In(run, Records \ {"failed"})]
    <2>2. alive \in SUBSET Nodes BY <2>1 DEF Up, Members
    <2>3. In(run, Records \ {"failed"}) \in SUBSET GroupOf(scene.role, run)
          /\ In(run, Records \ {"failed"}) \in SUBSET Nodes
      BY DEF In, Group, GroupOf, Role
    <2>4. run.phase \in Driven BY <1>4 DEF BeginTick, Driven
    <2>5. t.at = "poll" /\ t.st = run /\ Turning(scene.role, t)
      BY <1>1, <2>2, <2>3, <2>4 DEF NoTick, Turning, TickType, Passes
    <2>6. TickMoves(v, AfterPoll(v, t)) BY <1>2, <2>1 DEF BeginTick, TickMoves
    <2> HIDE DEF t
    <2>7. TickFits(scene.role, AfterPoll(v, t)) BY <2>5, AfterPollFits
    <2>8. FleetType' BY <2>6, <2>7, TickMovesFits
    <2>q. QED BY <1>1, <2>5, <2>6, <2>8 DEF BeginTick
  <1>q. QED BY <1>3, <1>4

(* What a probe can make of a record.                                      *)
Outcome(v, n, next) ==
    LET t   == tick[v]
        rec == t.st.rec[n]
        p   == Polled(t.st, t.alive \union {v}, n)
    IN  \/ Serving(n) /\ p # "check" /\ next = p
        \/ next = rec
        \/ next = "failed" /\ rec \in {"directed", "verifying"}

(* A probe's answer changes one record and no node.                        *)
LEMMA PollFits ==
    ASSUME FleetType, NEW v \in Nodes, Poll(v)
    PROVE  /\ FleetType' /\ UNCHANGED nodeVars /\ tick[v].at = "poll"
           /\ \E n \in tick[v].todo, next \in Records :
                  /\ n \in Nodes
                  /\ Outcome(v, n, next)
                  /\ TickMoves(v, AfterPoll(v, AskedOf(tick[v], n, next)))
  <1>1. PICK n \in Nodes, next \in Records :
            /\ n \in tick[v].todo
            /\ Outcome(v, n, next)
            /\ tick' = [tick EXCEPT ![v] = AfterPoll(v, AskedOf(tick[v], n, next))]
            /\ UNCHANGED scene \/ Spend("losses") \/ Spend("timeouts")
    BY DEF Poll, AskedOf, Outcome, Turn
  <1>2. SameCluster BY <1>1, SameSceneKeeps, SpendKeeps DEF FleetType, Bounds
  <1>3. TickMoves(v, AfterPoll(v, AskedOf(tick[v], n, next))) BY <1>1, <1>2 DEF Poll, TickMoves
  <1>4. tick[v].at = "poll" /\ TickFits(scene.role, tick[v]) BY DEF Poll, FleetType, TicksFit
  <1>5. Turning(scene.role, AskedOf(tick[v], n, next)) BY <1>4, AskedOfFits DEF Passes
  <1>6. FleetType' BY <1>3, <1>5, AfterPollFits, TickMovesFits
  <1>q. QED BY <1>1, <1>3, <1>4, <1>6 DEF Poll

(* A node has been told: what its record may become, and what is left.     *)
Hearing(v, n, u) ==
    \/ \E rec \in {"directed", "pending", "failed"}, retry \in BOOLEAN, rest \in SUBSET tick[v].todo :
           u = AfterDirect(ToldTo(tick[v], n, rec, retry, rest))
    \/ u = AfterDirect([tick[v] EXCEPT !.todo = @ \ {n}])
    \/ u = [tick[v] EXCEPT !.at = "await"]
    \/ u = [tick[v] EXCEPT !.at = "await", !.answer = "transient"]

(* What a directive and its answer may do to a tick keeps the type.        *)
LEMMA HearingFits ==
    ASSUME FleetType, NEW v \in Nodes, tick[v].at \in {"direct", "await"}, NEW n \in tick[v].todo, NEW u,
           Hearing(v, n, u), TickMoves(v, u)
    PROVE  FleetType'
  <1>1. TickFits(scene.role, tick[v]) BY DEF FleetType, TicksFit
  <1>2. n \in Nodes BY <1>1 DEF TickFits, TickType
  <1>3. TickFits(scene.role, u)
    <2>1. ASSUME NEW rec \in {"directed", "pending", "failed"}, NEW retry \in BOOLEAN, NEW rest \in SUBSET tick[v].todo,
                 u = AfterDirect(ToldTo(tick[v], n, rec, retry, rest))
          PROVE  TickFits(scene.role, u)
      <3>1. rec \in Records BY DEF Records
      <3>2. Turning(scene.role, ToldTo(tick[v], n, rec, retry, rest))
        BY <1>1, <1>2, <3>1, ToldToFits DEF Passes
      <3>q. QED BY <2>1, <3>2, AfterDirectFits
    <2>2. CASE u = AfterDirect([tick[v] EXCEPT !.todo = @ \ {n}])
      <3>1. Turning(scene.role, [tick[v] EXCEPT !.todo = @ \ {n}])
        BY <1>1, <1>2, OneLessFits DEF Passes
      <3>q. QED BY <2>2, <3>1, AfterDirectFits
    <2>3. CASE \/ u = [tick[v] EXCEPT !.at = "await"]
               \/ u = [tick[v] EXCEPT !.at = "await", !.answer = "transient"]
      BY <1>1, <2>3 DEF TickFits, TickType, Passes
    <2>q. QED BY <2>1, <2>2, <2>3 DEF Hearing
  <1>q. QED BY <1>3, TickMovesFits

(* The answer to a directive changes one record of the run.                *)
LEMMA ToldHears ==
    ASSUME FleetType, NEW v \in Nodes, tick[v].at \in {"direct", "await"}, NEW n \in tick[v].todo,
           NEW answer, Told(v, n, answer), UNCHANGED <<run, leader>>
    PROVE  \E u : Hearing(v, n, u) /\ TickMoves(v, u)
  <1>1. \E rec \in {"directed", "pending", "failed"}, retry \in BOOLEAN, rest \in SUBSET tick[v].todo :
            tick' = [tick EXCEPT ![v] = AfterDirect(ToldTo(tick[v], n, rec, retry, rest))]
    BY DEF Told, ToldTo
  <1>2. UNCHANGED scene \/ Spend("timeouts") BY DEF Told
  <1>3. SameCluster BY <1>2, SameSceneKeeps, SpendKeeps DEF FleetType, Bounds
  <1>q. QED BY <1>1, <1>3 DEF Hearing, TickMoves

(* A directive is met by a node as NodeUpgrade says (send_directive).      *)
LEMMA DirectFits ==
    ASSUME FleetType, NEW v \in Nodes, Direct(v)
    PROVE  /\ FleetType' /\ tick[v].at = "direct"
           /\ \E n \in tick[v].todo :
                  /\ n \in Nodes
                  /\ \E u : Hearing(v, n, u) /\ TickMoves(v, u)
                  /\ \/ UNCHANGED nodeVars
                     \/ BeginPreparing(n, DirectiveId(tick[v].st), TargetOf(tick[v].st))
  <1>1. tick[v].at = "direct" BY DEF Direct
  <1>2. PICK n \in Nodes :
           /\ n \in tick[v].todo
           /\ \/ (\E answer : Told(v, n, answer)) /\ UNCHANGED nodeVars
              \/ /\ BeginPreparing(n, DirectiveId(tick[v].st), TargetOf(tick[v].st))
                 /\ tick' = [tick EXCEPT ![v] = [tick[v] EXCEPT !.at = "await"]]
                 /\ UNCHANGED scene
              \/ /\ Spend("losses")
                 /\ tick' = [tick EXCEPT ![v] = [tick[v] EXCEPT !.at = "await", !.answer = "transient"]]
                 /\ UNCHANGED nodeVars
              \/ /\ Spend("waits")
                 /\ tick' = [tick EXCEPT ![v] = AfterDirect([tick[v] EXCEPT !.todo = @ \ {n}])]
                 /\ UNCHANGED nodeVars
    BY DEF Direct, Turn
  <1>3. UNCHANGED <<run, leader>> BY DEF Direct
  <1>4. SceneFits BY DEF FleetType
  <1>5. \E u : Hearing(v, n, u) /\ TickMoves(v, u)
    <2>1. CASE \E answer : Told(v, n, answer)
      BY <1>1, <1>2, <1>3, <2>1, ToldHears
    <2>2. CASE tick' = [tick EXCEPT ![v] = [tick[v] EXCEPT !.at = "await"]] /\ UNCHANGED scene
      BY <1>3, <1>4, <2>2, SameSceneKeeps DEF Hearing, TickMoves
    <2>3. CASE /\ Spend("losses")
               /\ tick' = [tick EXCEPT ![v] = [tick[v] EXCEPT !.at = "await", !.answer = "transient"]]
      <3>1. SameCluster BY <1>4, <2>3, SpendKeeps DEF Bounds
      <3>q. QED BY <1>3, <2>3, <3>1 DEF Hearing, TickMoves
    <2>4. CASE /\ Spend("waits")
               /\ tick' = [tick EXCEPT ![v] = AfterDirect([tick[v] EXCEPT !.todo = @ \ {n}])]
      <3>1. SameCluster BY <1>4, <2>4, SpendKeeps DEF Bounds
      <3>q. QED BY <1>3, <2>4, <3>1 DEF Hearing, TickMoves
    <2>q. QED BY <1>2, <2>1, <2>2, <2>3, <2>4
  <1>6. FleetType' BY <1>1, <1>2, <1>5, HearingFits
  <1>q. QED BY <1>1, <1>2, <1>5, <1>6

(* The answer to a directive, or its loss, changes no node.                *)
LEMMA AwaitFits ==
    ASSUME FleetType, NEW v \in Nodes, Await(v)
    PROVE  /\ FleetType' /\ UNCHANGED nodeVars /\ tick[v].at = "await"
           /\ \E n \in tick[v].todo :
                  n \in Nodes /\ \E u : Hearing(v, n, u) /\ TickMoves(v, u)
  <1>1. tick[v].at = "await" /\ UNCHANGED <<nodeVars, run, leader>> BY DEF Await
  <1>2. TickFits(scene.role, tick[v]) /\ SceneFits BY DEF FleetType, TicksFit
  <1>3. \E n \in tick[v].todo : \E u : Hearing(v, n, u) /\ TickMoves(v, u)
    <2>1. CASE \E n \in Nodes : Turn(tick[v], n) /\ Told(v, n, tick[v].answer)
      BY <1>1, <2>1, ToldHears DEF Turn
    <2>2. CASE /\ Spend("losses")
               /\ tick' = [tick EXCEPT ![v] = [tick[v] EXCEPT !.answer = "transient"]]
      <3>1. SameCluster BY <1>2, <2>2, SpendKeeps DEF Bounds
      <3>2. PICK n \in tick[v].todo : TRUE BY <1>1, <1>2 DEF TickFits, Passes
      <3>3. [tick[v] EXCEPT !.answer = "transient"] = [tick[v] EXCEPT !.at = "await", !.answer = "transient"]
        BY <1>1, <1>2 DEF TickFits, TickType
      <3>4. Hearing(v, n, [tick[v] EXCEPT !.answer = "transient"]) BY <3>3 DEF Hearing
      <3>q. QED BY <1>1, <2>2, <3>1, <3>2, <3>4 DEF TickMoves
    <2>q. QED BY <2>1, <2>2 DEF Await
  <1>4. FleetType' BY <1>1, <1>3, HearingFits
  <1>5. tick[v].todo \subseteq Nodes BY <1>2 DEF TickFits, TickType
  <1>q. QED BY <1>1, <1>3, <1>4, <1>5

(* A repeated directive is met by a node as NodeUpgrade says.              *)
LEMMA ResendFits ==
    ASSUME FleetType, NEW v \in Nodes, Resend(v)
    PROVE  /\ FleetType' /\ tick[v].at = "resend"
           /\ \E n \in tick[v].todo :
                  /\ n \in Nodes
                  /\ TickMoves(v, AfterResend([tick[v] EXCEPT !.todo = @ \ {n}]))
                  /\ \/ UNCHANGED nodeVars
                     \/ BeginPreparing(n, tick[v].st.id, TargetOf(tick[v].st))
  <1>1. PICK n \in Nodes :
            /\ n \in tick[v].todo
            /\ tick' = [tick EXCEPT ![v] = AfterResend([tick[v] EXCEPT !.todo = @ \ {n}])]
            /\ \/ UNCHANGED nodeVars
               \/ BeginPreparing(n, tick[v].st.id, TargetOf(tick[v].st))
    BY DEF Resend, Turn
  <1>2. SameCluster BY SameSceneKeeps DEF Resend, FleetType
  <1>3. TickMoves(v, AfterResend([tick[v] EXCEPT !.todo = @ \ {n}])) BY <1>1, <1>2 DEF Resend, TickMoves
  <1>4. tick[v].at = "resend" /\ TickFits(scene.role, tick[v]) BY DEF Resend, FleetType, TicksFit
  <1>5. Turning(scene.role, [tick[v] EXCEPT !.todo = @ \ {n}]) BY <1>4, OneLessFits DEF Passes
  <1>6. FleetType' BY <1>3, <1>5, AfterResendFits, TickMovesFits
  <1>q. QED BY <1>1, <1>3, <1>4, <1>6

(* A tick writes back the run it read, under the same id.                  *)
LEMMA WriteRunFits ==
    ASSUME FleetType, NEW v \in Nodes, WriteRun(v)
    PROVE  /\ FleetType' /\ UNCHANGED nodeVars /\ SameCluster
           /\ tick' = [tick EXCEPT ![v] = NoTick]
           /\ tick[v].at = "write" /\ tick[v].st \in RunType
           /\ run' = run \/ run' = tick[v].st
  <1>1. tick[v].at = "write" /\ tick[v].st \in RunType
    BY DEF WriteRun, FleetType, TicksFit, TickFits
  <1>2. run' = run \/ run' = tick[v].st BY DEF WriteRun, UpgradeUpdate
  <1>3. RunFits' BY <1>1, <1>2 DEF FleetType, RunFits
  <1>4. SameCluster BY SameSceneKeeps DEF WriteRun, FleetType
  <1>5. TicksFit' BY <1>4, NoTickFits, OneTick DEF WriteRun, FleetType, SameCluster
  <1>6. LeaderFits' BY DEF WriteRun, FleetType, LeaderFits, Voters
  <1>q. QED BY <1>1, <1>2, <1>3, <1>4, <1>5, <1>6 DEF WriteRun, FleetType, SameCluster

(* The operator's runs get ids the nodes have not seen.                    *)
LEMMA FreshIdIsId ==
    ASSUME SceneFits, scene.left["runs"] > 0
    PROVE  FreshId \in Ids
  <1>1. scene.left["runs"] \in Nat BY DEF SceneFits, SettingType, Bounds
  <1>2. Cardinality(Ids) \in Nat BY FleetConstants, FS_CardinalityType
  <1>3. Ids = 1 .. Cardinality(Ids) BY FleetConstants
  <1>4. FreshId \in 1 .. Cardinality(Ids) BY <1>1, <1>2 DEF SceneFits, FreshId
  <1>q. QED BY <1>3, <1>4

(* A run as the operator plans or resumes it.                              *)
LEMMA PlansFit ==
    ASSUME NEW id \in Ids
    PROVE  /\ \A d \in {"upgrade", "rollback"} : Planned(id, d) \in RunType
           /\ \A r \in RunType : Resumed(r, id) \in RunType
  <1>1. ASSUME NEW d \in {"upgrade", "rollback"} PROVE Planned(id, d) \in RunType
    BY DEF Planned, RunType, Phases, Records
  <1>2. ASSUME NEW r \in RunType PROVE Resumed(r, id) \in RunType
    <2> DEFINE rec == [n \in Nodes |-> IF r.rec[n] = "failed" THEN "pending" ELSE r.rec[n]]
               p == Resumed(r, id).phase
               rt == [n \in Nodes |-> FALSE]
    <2>1. rec \in [Nodes -> Records] BY DEF RunType, Records
    <2>2. p \in {"workers", "council", "transferring"} BY DEF Resumed
    <2>3. Resumed(r, id) = [id |-> id, direction |-> r.direction, rec |-> rec, phase |-> p, retry |-> rt]
      BY DEF Resumed
    <2>4. rt \in [Nodes -> BOOLEAN] OBVIOUS
    <2>5. r.direction \in {"upgrade", "rollback"} BY DEF RunType
    <2> HIDE DEF rec, p, rt
    <2>q. QED BY <2>1, <2>2, <2>3, <2>4, <2>5 DEF RunType, Phases
  <1>q. QED BY <1>1, <1>2

Operator == StartUpgrade \/ StartRollback \/ Resume \/ Abort \/ Supersede

(* The operator's requests change no node and no tick, and find none.      *)
LEMMA OperatorFits ==
    ASSUME FleetType, Operator
    PROVE  /\ FleetType' /\ UNCHANGED <<nodeVars, tick, leader>> /\ SameCluster
           /\ \A v \in Nodes : tick[v] = NoTick
  <1>1. UNCHANGED <<nodeVars, tick, leader>> /\ \A v \in Nodes : tick[v] = NoTick
    BY DEF Operator, StartUpgrade, StartRollback, Resume, Abort, Supersede, Asked, Attended
  <1>2. UNCHANGED scene \/ Spend("runs")
    BY DEF Operator, StartUpgrade, StartRollback, Resume, Abort, Supersede, Asked
  <1>3. SameCluster BY <1>2, SameSceneKeeps, SpendKeeps DEF FleetType, Bounds
  <1>4. TicksFit' /\ LeaderFits'
    BY <1>1, <1>3 DEF FleetType, TicksFit, LeaderFits, Voters, SameCluster
  <1>5. RunFits'
    <2>1. CASE StartUpgrade \/ StartRollback \/ Resume
      <3>1. Spend("runs") BY <2>1 DEF StartUpgrade, StartRollback, Resume, Asked
      <3>2. FreshId \in Ids BY <3>1, FreshIdIsId DEF FleetType, Spend
      <3>3. CASE StartUpgrade \/ StartRollback
        BY <3>2, <3>3, PlansFit DEF StartUpgrade, StartRollback, UpgradeUpdate, FleetType, RunFits
      <3>4. CASE Resume
        <4>1. run \in RunType BY <3>4 DEF Resume, FleetType, RunFits, NoRun
        <4>q. QED BY <3>2, <3>4, <4>1, PlansFit DEF Resume, UpgradeUpdate, FleetType, RunFits
      <3>q. QED BY <2>1, <3>3, <3>4
    <2>2. CASE Abort \/ Supersede
      <3>1. run \in RunType BY <2>2 DEF Abort, Supersede, FleetType, RunFits, NoRun
      <3>2. run' = [run EXCEPT !.phase = "aborted"] \/ run' = [run EXCEPT !.phase = "superseded"]
        BY <2>2 DEF Abort, Supersede
      <3>q. QED BY <3>1, <3>2 DEF RunFits, RunType, Phases
    <2>q. QED BY <2>1, <2>2 DEF Operator
  <1>q. QED BY <1>1, <1>3, <1>4, <1>5 DEF FleetType, SameCluster

(* The council's own steps change no node and no tick.                     *)
LEMMA CouncilFits ==
    ASSUME FleetType, (\E v \in Voters : Elect(v)) \/ Depose \/ ClearEnded
    PROVE  /\ FleetType' /\ UNCHANGED <<nodeVars, tick>> /\ SameCluster
           /\ run' = run \/ run' = NoRun
  <1>1. UNCHANGED scene \/ Spend("depositions") BY DEF Elect, Depose, ClearEnded
  <1>2. SameCluster BY <1>1, SameSceneKeeps, SpendKeeps DEF FleetType, Bounds
  <1>3. UNCHANGED <<nodeVars, tick>> /\ (run' = run \/ run' = NoRun)
    BY DEF Elect, Depose, ClearEnded, UpgradeClear
  <1>4. leader' = leader \/ leader' \in Voters \/ leader' = NoLeader
    BY DEF Elect, Depose, ClearEnded
  <1>5. Voters' = Voters BY <1>2 DEF SameCluster, Voters
  <1>q. QED BY <1>2, <1>3, <1>4, <1>5 DEF FleetType, TicksFit, RunFits, LeaderFits, SameCluster

(* Every step of the fleet keeps the types and is a step of one node, or   *)
(* of none.                                                                *)
LEMMA FleetStepKeeps ==
    ASSUME FleetType, Next
    PROVE  FleetType' /\ NodeMoves
  <1>0. ASSUME NEW v \in Nodes, tick[v].at \in Passes PROVE tick[v].st.id \in Ids
    BY <1>0 DEF FleetType, TicksFit, TickFits, RunType, Passes
  <1>1. ASSUME NEW n \in Members, NodeNext(n) PROVE FleetType' /\ NodeMoves
    <2>1. n \in Nodes BY DEF Members
    <2>q. QED BY <1>1, <2>1, NodeNextFits DEF NodeMoves, OwnStep, NodeStep
  <1>2. ASSUME NEW v \in Voters, TickNext(v) PROVE FleetType' /\ NodeMoves
    <2>1. v \in Nodes BY DEF Voters
    <2>2. CASE BeginTick(v) BY <2>1, <2>2, BeginTickFits DEF NodeMoves
    <2>3. CASE Poll(v) BY <2>1, <2>3, PollFits DEF NodeMoves
    <2>4. CASE Direct(v)
      <3>1. tick[v].st.id \in Ids BY <1>0, <2>1, <2>4, DirectFits DEF Passes
      <3>q. QED BY <2>1, <2>4, <3>1, DirectFits, DirectiveIsKnown DEF NodeMoves
    <2>5. CASE Await(v) BY <2>1, <2>5, AwaitFits DEF NodeMoves
    <2>6. CASE Resend(v)
      <3>1. tick[v].st.id \in Ids BY <1>0, <2>1, <2>6, ResendFits DEF Passes
      <3>q. QED BY <2>1, <2>6, <3>1, ResendFits, DirectiveIsKnown DEF NodeMoves
    <2>7. CASE WriteRun(v) BY <2>1, <2>7, WriteRunFits DEF NodeMoves
    <2>q. QED BY <1>2, <2>2, <2>3, <2>4, <2>5, <2>6, <2>7 DEF TickNext
  <1>3. CASE (\E v \in Voters : Elect(v)) \/ Depose \/ ClearEnded
    BY <1>3, CouncilFits DEF NodeMoves
  <1>4. CASE Operator BY <1>4, OperatorFits DEF NodeMoves
  <1>q. QED BY <1>1, <1>2, <1>3, <1>4 DEF Next, Operator

(* A stuttering step of the cluster is one of its nodes.                   *)
LEMMA FleetStutterKeeps == FleetType /\ UNCHANGED vars => FleetType' /\ UNCHANGED nodeVars
  BY DEF FleetType, TicksFit, RunFits, SceneFits, LeaderFits, Voters, vars, fleetVars

(* The first state has no run, and each node is as NodeInit says.          *)
LEMMA FleetInitHolds == Init => FleetType /\ NodeInit
  <1>1. SUFFICES ASSUME Init PROVE FleetType /\ NodeInit
    OBVIOUS
  <1>2. TicksFit BY <1>1, NoTickFits DEF Init, TicksFit, TickFits
  <1>3. RunFits BY <1>1 DEF Init, RunFits
  <1>4. SceneFits BY <1>1, FleetConstants DEF Init, SceneFits
  <1>5. LeaderFits BY <1>1 DEF Init, LeaderFits, Voters
  <1>q. QED BY <1>1, <1>2, <1>3, <1>4, <1>5 DEF FleetType, Init

(* The fleet implements the node: every behaviour of a cluster, seen at    *)
(* its nodes, is one NodeSpec allows (orchestrator.rs, api/upgrade.rs).    *)
THEOREM FleetImplementsNodes == Spec => NodeSpec
  <1>1. FleetType /\ [Next]_vars => FleetType' /\ [\E n \in Nodes : NodeStep(n)]_nodeVars
    BY FleetStepKeeps, FleetStutterKeeps DEF NodeMoves
  <1>q. QED BY <1>1, FleetInitHolds, PTL DEF Spec, NodeSpec

(* In every cluster, with any plan, batch and order of failures: what a    *)
(* restart finds is verified or carries the marker that takes it back      *)
(* (manager.rs execute, startup_action, commit).                           *)
THEOREM UnverifiedGuardedInFleet == Spec => []UnverifiedIsGuarded
  BY FleetImplementsNodes, NodeIsSafe, PTL

(* In every cluster the symlink and the way back of a swap never dangle    *)
(* (store.rs activate and garbage_collect, manager.rs commit).             *)
THEOREM AlwaysBootableInFleet == Spec => []AlwaysBootable
  BY FleetImplementsNodes, NodeIsSafe, PTL

(* In every cluster no node tries an upgrade again that it has reverted,   *)
(* however often leaders and retries send it (manager.rs prepare).         *)
THEOREM NoSecondTrialInFleet == Spec => []NoSecondTrial
  BY FleetImplementsNodes, NodeIsSafe, PTL

(* Every cluster keeps its types: a tick that waits for a node has a node  *)
(* of the cluster to wait for, whatever was lost or stopped, and the       *)
(* council holds a whole run or none (run_orchestrator, UpgradeUpdate,     *)
(* UpgradeClear).                                                          *)
THEOREM FleetTypeCorrect == Spec => []TypeOK
  <1>1. FleetType /\ [Next]_vars => FleetType'
    BY FleetStepKeeps, FleetStutterKeeps
  <1>2. FleetType /\ NodeTypeOK => TypeOK
    <2>1. SUFFICES ASSUME FleetType, NodeTypeOK PROVE TypeOK
      OBVIOUS
    <2>2. ASSUME NEW v \in Voters
          PROVE  /\ tick[v].at \in {"none", "poll", "direct", "await", "resend", "write"}
                 /\ tick[v].at \in {"poll", "direct", "await", "resend"} =>
                        tick[v].todo # {} /\ tick[v].todo \subseteq Members
                 /\ tick[v].st.rec \in [Nodes -> Records]
      <3>1. TickFits(scene.role, tick[v]) BY <2>1 DEF FleetType, TicksFit, Voters
      <3>2. tick[v].at \in {"none", "poll", "direct", "await", "resend", "write"}
        BY <3>1 DEF TickFits, TickType, Passes
      <3>3. tick[v].st.rec \in [Nodes -> Records]
        BY <3>1 DEF TickFits, TickType, RunType, NoRun, Records
      <3>4. ASSUME tick[v].at \in Passes
            PROVE  tick[v].todo # {} /\ tick[v].todo \subseteq Members
        <4>1. RoleOf(tick[v].st.phase) \in {"worker", "council", "leader"}
          BY <3>1, <3>4 DEF TickFits, Driven, RoleOf
        <4>q. QED BY <3>1, <3>4, <4>1 DEF TickFits, GroupOf, Members
      <3>q. QED BY <3>2, <3>3, <3>4 DEF Passes
    <2>q. QED BY <2>1, <2>2 DEF TypeOK, FleetType, RunFits, RunType, LeaderFits, SceneFits
  <1>q. QED BY <1>1, <1>2, FleetInitHolds, FleetImplementsNodes, NodeIsSafe, PTL DEF Spec

-----------------------------------------------------------------------------
(* What a node's steps mean for the run that drives it.                    *)

Upgraded(n) == link[n] = Target /\ Target \in verified[n] /\ ~InFlight(n)

(* A cluster upgrade, or a rollback, is being prepared or tried at n.      *)
Upward(n) == marker[n].id > 0 \/ (Preparing(n) /\ want[n].id > 0)
Downward(n) == marker[n].id < 0 \/ (Preparing(n) /\ want[n].id < 0)

(* The upgrade id has been prepared, tried or reverted at n.               *)
Touches(n, id) ==
    id \in reverted[n] \/ marker[n].id = id \/ (Preparing(n) /\ want[n].id = id)

HeadsForTarget(n) ==
    /\ marker[n].id > 0 => marker[n].to = Target
    /\ Preparing(n) /\ want[n].id > 0 => want[n].to = Target

(* Whoever has reverted the upgrade id is back and prepares nothing else.  *)
RevertFits(n, id) ==
    id \in reverted[n] => link[n] # Target /\ marker[n].id \in {0, id} /\ ~Preparing(n)

(* What no node does unless it is told to.                                 *)
Steady(k) ==
    /\ HeadsForTarget(k)'
    /\ Upward(k)' => Upward(k)
    /\ Downward(k)' => Downward(k)
    /\ ~Downward(k) /\ Upgraded(k) => Upgraded(k)'
    /\ \A id \in Ids :
           /\ Touches(k, id)' => Touches(k, id)
           /\ id \in reverted'[k] => id \in reverted[k] \/ Upward(k)
           /\ RevertFits(k, id) => RevertFits(k, id)'

(* The id of a directive says which way it goes.                           *)
LEMMA IdsHaveSign == \A id \in AllIds : id > 0 \/ id < 0
  <1>1. ASSUME NEW id \in Ids PROVE id > 0 BY NodeConstants
  <1>2. ASSUME NEW v \in Versions PROVE -v < 0 BY NodeConstants
  <1>q. QED BY <1>1, <1>2 DEF AllIds, RollbackId

(* A node that is upgraded and not on its way down is doing nothing.       *)
LEMMA UpgradedRests ==
    ASSUME NodeInv, NEW n \in Nodes, HeadsForTarget(n), Upgraded(n)
    PROVE  ~Upward(n) /\ marker[n] = NoMarker /\ (Preparing(n) => Downward(n))
  <1>0. Known(n) BY Here
  <1>1. marker[n] = NoMarker BY DEF Upgraded, InFlight
  <1>2. Preparing(n) => want[n].id \in AllIds /\ (want[n].id > 0 => want[n].to # version[n])
    BY <1>0 DEF Known, HistoryFits, Preparing
  <1>3. Preparing(n) => version[n] = Target
    BY <1>0, <1>1 DEF Known, ProcessFits, Preparing, NoMarker, Upgraded
  <1>4. ~(Preparing(n) /\ want[n].id > 0)
    BY <1>2, <1>3 DEF HeadsForTarget
  <1>5. Preparing(n) => want[n].id < 0 BY <1>2, <1>4, IdsHaveSign
  <1>q. QED BY <1>1, <1>4, <1>5 DEF Upward, Downward, NoMarker

(* A node's own steps are steady.                                          *)
LEMMA AdvancesIsSteady ==
    ASSUME NodeInv, NodeInv', NEW n \in Nodes, Advances(n), \A k \in Nodes : HeadsForTarget(k)
    PROVE  \A k \in Nodes : Steady(k)
  <1>1. ASSUME NEW k \in Nodes, k # n PROVE Steady(k)
    BY <1>1 DEF Advances, OnlyAt, Steady, HeadsForTarget, Upward, Downward, Upgraded, Touches,
       RevertFits, Preparing, InFlight
  <1>2. Known(n) /\ Known(n)' BY Here DEF NodeInv, NodeTypeOK, Shape, Known
  <1>3. HeadsForTarget(n)' BY DEF Advances, HeadsForTarget, NoMarker
  <1>4. Upward(n)' => Upward(n) BY DEF Advances, Upward, NoMarker
  <1>5. Downward(n)' => Downward(n) BY DEF Advances, Downward, NoMarker
  <1>6. ASSUME ~Downward(n), Upgraded(n) PROVE Upgraded(n)'
    <2>1. ~Preparing(n) /\ marker[n] = NoMarker BY <1>6, UpgradedRests
    <2>2. link'[n] = link[n] BY <2>1 DEF Advances, InFlight
    <2>3. marker'[n] = NoMarker
      BY <1>2, <2>1, NodeConstants DEF Advances, NoMarker, Known, Markers, AllIds, RollbackId
    <2>q. QED BY <1>6, <2>2, <2>3 DEF Advances, Upgraded, InFlight
  <1>7. ASSUME NEW id \in Ids
        PROVE  /\ Touches(n, id)' => Touches(n, id)
               /\ id \in reverted'[n] => id \in reverted[n] \/ Upward(n)
               /\ RevertFits(n, id) => RevertFits(n, id)'
    <2>0. id > 0 /\ id # 0 BY NodeConstants
    <2>1. Touches(n, id)' => Touches(n, id) BY <2>0 DEF Advances, Touches, NoMarker
    <2>2. id \in reverted'[n] => id \in reverted[n] \/ Upward(n)
      BY <2>0 DEF Advances, Upward
    <2>3. ASSUME RevertFits(n, id), id \in reverted'[n] PROVE RevertFits(n, id)'
      <3>1. CASE id \in reverted[n]
        <4>1. link[n] # Target /\ marker[n].id \in {0, id} /\ ~Preparing(n)
          BY <2>3, <3>1 DEF RevertFits
        <4>2. ~Preparing(n)' /\ marker'[n].id \in {0, marker[n].id}
          BY <4>1 DEF Advances, NoMarker
        <4>3. marker[n].id = 0 => ~InFlight(n)
          BY <1>2, NodeConstants DEF Known, Markers, AllIds, RollbackId, InFlight
        <4>4. link'[n] = link[n] BY <2>0, <3>1, <4>1, <4>3 DEF Advances
        <4>q. QED BY <4>1, <4>2, <4>4 DEF RevertFits
      <3>2. CASE id \notin reverted[n]
        <4>1. /\ id = marker[n].id /\ marker'[n] = marker[n]
              /\ link'[n] = marker[n].from /\ ~Preparing(n)'
          BY <2>3, <3>2 DEF Advances
        <4>2. marker[n].from # marker[n].to
          BY <1>2, <2>0, <4>1 DEF Known, FilesFit, Markers, NoMarker
        <4>3. marker[n].to = Target BY <2>0, <4>1 DEF HeadsForTarget
        <4>q. QED BY <4>1, <4>2, <4>3 DEF RevertFits
      <3>q. QED BY <3>1, <3>2
    <2>q. QED BY <2>1, <2>2, <2>3 DEF RevertFits
  <1>8. Steady(n) BY <1>3, <1>4, <1>5, <1>6, <1>7 DEF Steady
  <1>q. QED BY <1>1, <1>8

(* What a node does without being told is steady.                          *)
LEMMA OwnStepIsSteady ==
    ASSUME NodeInv, NEW n \in Nodes, OwnStep(n), \A k \in Nodes : HeadsForTarget(k)
    PROVE  NodeInv' /\ \A k \in Nodes : Steady(k)
  <1>1. CASE StartUp(n) \/ StageMarker(n)
    BY <1>1, StartUpKeeps, StageMarkerKeeps, AdvancesIsSteady
  <1>2. CASE Works(n)
    <2>1. NodeInv' /\ Advances(n)
      BY <1>2, StageBinaryKeeps, RecordExecutedKeeps, ActivateTargetKeeps,
         RestorePreviousKeeps, ArchiveAbandonedKeeps, BootNormallyKeeps, BootToVerifyKeeps,
         BootToRevertKeeps, ActivatePreviousKeeps, BootToCompleteKeeps, RemoveRevertedKeeps,
         RecordCommittedKeeps, CollectGarbageKeeps, RemoveCommittedKeeps DEF Works
    <2>q. QED BY <2>1, AdvancesIsSteady
  <1>3. CASE Replaces(n)
    BY <1>3, ExecTargetKeeps, ExecPreviousKeeps, AdvancesIsSteady DEF Replaces
  <1>4. CASE FailsToWrite(n)
    <2>1. NodeInv' /\ Advances(n)
      BY <1>4, SwapRefusedKeeps, ExecFailsKeeps, RestoreFailsKeeps, RecoveryFailsKeeps,
         VerdictFailsKeeps DEF FailsToWrite
    <2>q. QED BY <2>1, AdvancesIsSteady
  <1>5. CASE Ends(n)
    <2>1. NodeInv' /\ Advances(n)
      BY <1>5, RejoinFailsKeeps, CrashKeeps, PreparationFailsKeeps DEF Ends
    <2>q. QED BY <2>1, AdvancesIsSteady
  <1>q. QED BY <1>1, <1>2, <1>3, <1>4, <1>5 DEF OwnStep

(* A step elsewhere is steady.                                             *)
LEMMA StutterIsSteady ==
    ASSUME NodeInv, UNCHANGED nodeVars, \A k \in Nodes : HeadsForTarget(k)
    PROVE  NodeInv' /\ \A k \in Nodes : Steady(k)
  <1>1. NodeInv' BY NodeStutterKeeps
  <1>2. ASSUME NEW k \in Nodes PROVE Steady(k)
    BY DEF nodeVars, Steady, HeadsForTarget, Upward, Downward, Upgraded, Touches,
       RevertFits, Preparing, InFlight
  <1>q. QED BY <1>1, <1>2

(* What a directive finds and leaves at the node that takes it.            *)
Begins(n, id, to) ==
    /\ OnlyAt(n)
    /\ marker' = marker /\ link' = link /\ verified' = verified /\ reverted' = reverted
    /\ marker[n] = NoMarker /\ ~Preparing(n) /\ version[n] = link[n]
    /\ Preparing(n)' /\ want'[n] = [id |-> id, to |-> to]
    /\ id > 0 => id \notin reverted[n] /\ link[n] # to

(* BeginPreparing at a resting node does exactly that.                     *)
LEMMA BeginPreparingBegins ==
    ASSUME NodeInv, NEW n \in Nodes, NEW to \in Versions, NEW id \in AllIds,
           id \in Ids \/ id = RollbackId(to),
           BeginPreparing(n, id, to)
    PROVE  NodeInv' /\ Begins(n, id, to)
  <1>0. Known(n) BY Here
  <1>1. NodeInv' BY BeginPreparingKeeps
  <1>2. OnlyAt(n) BY <1>0 DEF BeginPreparing, OnlyAt, Known, NodeTypeOK
  <1>3. ~Preparing(n) BY DEF BeginPreparing, Met
  <1>4. marker[n] = NoMarker /\ (id > 0 => id \notin reverted[n] /\ version[n] # to)
    <2>2. CASE id > 0
      <3>1. MetUpgrade(n, id, to) = "begin" BY <1>3, <2>2 DEF BeginPreparing, Met
      <3>q. QED BY <3>1 DEF MetUpgrade, InFlight
    <2>3. CASE ~(id > 0)
      <3>1. MetRollback(n, to) = "begin" BY <1>3, <2>3 DEF BeginPreparing, Met
      <3>q. QED BY <3>1, <2>3 DEF MetRollback, InFlight
    <2>q. QED BY <2>2, <2>3
  <1>5. version[n] = link[n]
    BY <1>0, <1>4 DEF BeginPreparing, Hears, Known, ProcessFits, NoMarker
  <1>6. Preparing(n)' /\ want'[n] = [id |-> id, to |-> to]
    BY <1>0 DEF BeginPreparing, Preparing, Known, NodeTypeOK
  <1>q. QED BY <1>1, <1>2, <1>3, <1>4, <1>5, <1>6 DEF Begins, BeginPreparing

-----------------------------------------------------------------------------
(* A run's records and the order of the plan.                              *)

Unsettled == {"directed", "verifying", "failed"}

Room(batch, r) == IF r = "worker" THEN batch ELSE 1

(* The roles whose groups come before a role's, and before a phase's.      *)
Earlier(r) ==
    IF r = "leader" THEN {"worker", "council"} ELSE IF r = "council" THEN {"worker"} ELSE {}
Passed(p) ==
    IF p = "council" THEN {"worker"}
    ELSE IF p \in {"transferring", "leading"} THEN {"worker", "council"} ELSE {}

Open(role, st, r) == {n \in Nodes : role[n] = r /\ st.rec[n] # "healthy"}
Front(role, batch, st, r) == FirstOf(Open(role, st, r), Room(batch, r))

(* The records of a run follow the plan: whoever has been told and is not  *)
(* healthy is in the front of its group, and a group is begun, or passed,  *)
(* only when the earlier ones are healthy.                                 *)
InPlan(role, batch, st) ==
    \A n \in Nodes :
        /\ st.rec[n] \in Unsettled => n \in Front(role, batch, st, role[n])
        /\ st.rec[n] # "pending" =>
               \A m \in Nodes : role[m] \in Earlier(role[n]) => st.rec[m] = "healthy"
        /\ role[n] \in Passed(st.phase) => st.rec[n] = "healthy"

(* A tick tells only nodes in the front of its group.                      *)
Tells(role, batch, t) ==
    t.at \in {"direct", "await", "resend"} =>
        t.todo \subseteq Front(role, batch, t.st, RoleOf(t.st.phase))

(* Rollbacks are not sent again.                                           *)
Resends(t) == t.at = "resend" => t.st.direction = "upgrade"

(* The same run further on.                                                *)
SameRun(t, z) ==
    /\ z.st.id = t.st.id /\ z.st.direction = t.st.direction /\ z.st.rec = t.st.rec
    /\ z.at # "none"

(* A group comes after the ones its phase has passed.                      *)
LEMMA PhasesInOrder ==
    ASSUME NEW p \in Driven
    PROVE  /\ Earlier(RoleOf(p)) = Passed(p) /\ RoleOf(p) \notin Passed(p)
           /\ RoleOf(p) \in {"worker", "council", "leader"}
           /\ RoleOf(p) = "worker" <=> p = "workers"
  BY DEF Driven, Earlier, Passed, RoleOf

(* A record that changes inside the front, or becomes healthy, keeps the   *)
(* plan.                                                                   *)
LEMMA RewrittenInPlan ==
    ASSUME NEW role, NEW batch \in Nat, NEW st \in RunType, NEW z, NEW n \in Nodes,
           NEW rec \in Records, Rewritten(st, z, n, rec), InPlan(role, batch, st),
           st.phase \in Driven, role[n] = RoleOf(st.phase),
           \/ rec \in {st.rec[n], "healthy"}
           \/ n \in Front(role, batch, st, role[n]) /\ rec # "healthy"
    PROVE  InPlan(role, batch, z)
  <1>0. /\ st.rec \in [Nodes -> Records] /\ z.phase = st.phase
        /\ z.rec = [st.rec EXCEPT ![n] = rec]
    BY DEF RunType, Rewritten
  <1>1. \A m \in Nodes : z.rec[m] = IF m = n THEN rec ELSE st.rec[m] BY <1>0
  <1>2. \A r : Open(role, z, r) \subseteq Open(role, st, r)
    <2>1. rec # "healthy" => st.rec[n] # "healthy" BY DEF Front, FirstOf, Open
    <2>q. QED BY <1>1, <2>1 DEF Open
  <1>3. \A r : Room(batch, r) \in Nat BY DEF Room
  <1>4. ASSUME NEW m \in Nodes, z.rec[m] \in Unsettled
        PROVE  m \in Front(role, batch, z, role[m])
    <2>1. m \in Front(role, batch, st, role[m])
      <3>1. CASE m = n /\ rec # st.rec[n] BY <1>1, <1>4, <3>1 DEF Unsettled
      <3>2. CASE ~(m = n /\ rec # st.rec[n]) BY <1>1, <1>4, <3>2 DEF InPlan
      <3>q. QED BY <3>1, <3>2
    <2>2. m \in Open(role, z, role[m]) BY <1>4 DEF Open, Unsettled
    <2>3. Open(role, st, role[m]) \in SUBSET Nodes BY DEF Open
    <2>q. QED BY <1>2, <1>3, <2>1, <2>2, <2>3, FirstOfShrinks DEF Front
  <1>5. ASSUME NEW m \in Nodes, st.rec[m] = "healthy" PROVE z.rec[m] = "healthy"
    BY <1>1, <1>5 DEF Front, FirstOf, Open
  <1>6. ASSUME NEW m \in Nodes, z.rec[m] # "pending", NEW k \in Nodes, role[k] \in Earlier(role[m])
        PROVE  z.rec[k] = "healthy"
    <2>1. CASE st.rec[m] # "pending" BY <1>5, <1>6, <2>1 DEF InPlan
    <2>2. CASE st.rec[m] = "pending"
      <3>1. m = n BY <1>1, <1>6, <2>2
      <3>2. role[k] \in Passed(st.phase) BY <1>6, <3>1, PhasesInOrder
      <3>q. QED BY <1>5, <3>2 DEF InPlan
    <2>q. QED BY <2>1, <2>2
  <1>7. ASSUME NEW m \in Nodes, role[m] \in Passed(z.phase) PROVE z.rec[m] = "healthy"
    BY <1>0, <1>5, <1>7 DEF InPlan
  <1>q. QED BY <1>4, <1>6, <1>7 DEF InPlan

(* A record that changes inside the front leaves the front as it was.      *)
LEMMA FrontStays ==
    ASSUME NEW role, NEW batch, NEW st \in RunType, NEW z, NEW n \in Nodes, NEW rec \in Records,
           Rewritten(st, z, n, rec), rec # "healthy", NEW r,
           n \in Front(role, batch, st, r)
    PROVE  \A q : Front(role, batch, z, q) = Front(role, batch, st, q)
  <1>1. \A m \in Nodes : z.rec[m] = IF m = n THEN rec ELSE st.rec[m] BY DEF RunType, Rewritten
  <1>2. st.rec[n] # "healthy" BY DEF Front, FirstOf, Open
  <1>3. ASSUME NEW q PROVE Open(role, z, q) = Open(role, st, q) BY <1>1, <1>2 DEF Open
  <1>q. QED BY <1>3 DEF Front

(* What step decides keeps the plan: a phase ends when its group is done.  *)
LEMMA SettledInPlan ==
    ASSUME NEW st \in RunType, st.phase \in Driven, NEW batch,
           InPlan(scene.role, batch, st)
    PROVE  InPlan(scene.role, batch, Settled(st))
  <1> DEFINE z == Settled(st)
  <1>1. z.rec = st.rec BY SettledFits
  <1>2. \A r : Open(scene.role, z, r) = Open(scene.role, st, r) BY <1>1 DEF Open
  <1>3. ASSUME NEW n \in Nodes, scene.role[n] \in Passed(z.phase) PROVE st.rec[n] = "healthy"
    <2>0. st.phase = "workers" \/ st.phase = "council" \/ st.phase = "leading" BY DEF Driven
    <2>1. CASE z.phase = st.phase BY <1>3, <2>1 DEF InPlan
    <2>2. CASE z.phase # st.phase
      <3>1. \/ z.phase \in {"paused", "completed"}
            \/ /\ \A m \in Members : Role(m) = RoleOf(st.phase) => st.rec[m] = "healthy"
               /\ \/ st.phase = "workers" /\ z.phase = "council"
                  \/ st.phase = "council" /\ z.phase = "transferring"
        <4>1. CASE st.phase = "workers" BY <2>2, <4>1 DEF Settled, RunType
        <4>2. CASE st.phase = "council" BY <2>2, <4>2 DEF Settled, RunType
        <4>3. CASE st.phase = "leading" BY <2>2, <4>3 DEF Settled, RunType
        <4>q. QED BY <2>0, <4>1, <4>2, <4>3
      <3>2. z.phase \notin {"paused", "completed"} BY <1>3 DEF Passed
      <3>3. n \in Members BY <1>3 DEF Members, Passed
      <3>4. scene.role[n] = RoleOf(st.phase) \/ scene.role[n] \in Passed(st.phase)
        BY <1>3, <3>1, <3>2 DEF Passed, RoleOf
      <3> HIDE DEF z
      <3>5. CASE scene.role[n] = RoleOf(st.phase) BY <3>1, <3>2, <3>3, <3>5 DEF Role
      <3>6. CASE scene.role[n] \in Passed(st.phase) BY <3>6 DEF InPlan
      <3>q. QED BY <3>4, <3>5, <3>6
    <2>q. QED BY <2>1, <2>2
  <1> HIDE DEF z
  <1>4. InPlan(scene.role, batch, z) BY <1>1, <1>2, <1>3 DEF InPlan, Front
  <1>q. QED BY <1>4 DEF z

(* The slots: whoever is directed next is in the front of its group, the   *)
(* ones under way being counted (poll_and_drive_group, pass 2).            *)
LEMMA ToDirectInFront ==
    ASSUME NEW v, NEW t, Turning(scene.role, t), scene \in SettingType
    PROVE  ToDirect(v, t) \subseteq Front(scene.role, scene.parallel, t.st, RoleOf(t.st.phase))
  <1> DEFINE r == RoleOf(t.st.phase)
             open == Open(scene.role, t.st, r)
             waiting == In(t.st, {"pending"})
             busy == In(t.st, {"directed", "verifying"})
             b == Budget(t.st)
  <1>1. SUFFICES ASSUME NEW n \in ToDirect(v, t) PROVE n \in FirstOf(open, Room(scene.parallel, r))
    BY DEF Front
  <1>2. In(t.st, {"failed"}) = {} /\ n \in FirstOf(waiting, b - Cardinality(busy))
    BY <1>1 DEF ToDirect
  <1>3. b = Room(scene.parallel, r) /\ b \in Nat
    BY PhasesInOrder DEF Budget, Room, Turning, SettingType
  <1>4. t.st.rec \in [Nodes -> Records] BY DEF Turning, RunType
  <1>5. open = waiting \union busy
    <2>1. ASSUME NEW m \in open PROVE m \in waiting \union busy
      <3>1. m \in Nodes /\ scene.role[m] = r /\ t.st.rec[m] \in Records /\ t.st.rec[m] # "healthy"
        BY <1>4 DEF Open
      <3>2. m \in Group(t.st) BY <3>1 DEF Group, Role
      <3>3. t.st.rec[m] # "failed" BY <1>2, <3>2 DEF In
      <3>q. QED BY <3>1, <3>2, <3>3 DEF In, Records
    <2>2. waiting \union busy \subseteq open BY DEF In, Group, Role, Open
    <2>q. QED BY <2>1, <2>2
  <1>6. n \in waiting /\ Cardinality({m \in waiting : Position[m] < Position[n]}) < b - Cardinality(busy)
    BY <1>2 DEF FirstOf
  <1> DEFINE A == {m \in waiting : Position[m] < Position[n]}
             B == {m \in open : Position[m] < Position[n]}
  <1>7. waiting \subseteq Nodes /\ busy \subseteq Nodes BY DEF In, Group
  <1>8. IsFiniteSet(A) /\ IsFiniteSet(busy)
    <2>1. IsFiniteSet(Nodes) BY FleetConstants
    <2>q. QED BY <1>7, <2>1, FS_Subset
  <1>9. B \subseteq A \union busy BY <1>5
  <1>10. IsFiniteSet(A \union busy) /\ IsFiniteSet(A \intersect busy)
         /\ Cardinality(A \union busy) = Cardinality(A) + Cardinality(busy) - Cardinality(A \intersect busy)
    BY <1>8, FS_Union, FS_Intersection
  <1>11. IsFiniteSet(B) /\ Cardinality(B) <= Cardinality(A \union busy) BY <1>9, <1>10, FS_Subset
  <1>12. /\ Cardinality(A) \in Nat /\ Cardinality(busy) \in Nat /\ Cardinality(B) \in Nat
         /\ Cardinality(A \union busy) \in Nat /\ Cardinality(A \intersect busy) \in Nat
    BY <1>8, <1>10, <1>11, FS_CardinalityType
  <1>13. Cardinality(A) < b - Cardinality(busy) BY <1>6
  <1>14. n \in open BY <1>5, <1>6
  <1> HIDE DEF A, b, busy
  <1>15. Cardinality(B) < b BY <1>3, <1>10, <1>11, <1>12, <1>13
  <1>q. QED BY <1>3, <1>14, <1>15 DEF FirstOf

(* The passes of a tick go on with the run they read.                      *)
LEMMA AfterResendGoesOn ==
    ASSUME NEW t, Turning(scene.role, t), Resends(t)
    PROVE  SameRun(t, AfterResend(t)) /\ Resends(AfterResend(t))
  <1>1. CASE t.todo # {} BY <1>1 DEF AfterResend, SameRun, Turning, Passes
  <1>2. CASE t.todo = {}
    <2>1. /\ Settled(t.st).id = t.st.id /\ Settled(t.st).direction = t.st.direction
          /\ Settled(t.st).rec = t.st.rec
      BY SettledFits DEF Turning
    <2>2. AfterResend(t).at = "write" /\ AfterResend(t).st = Settled(t.st)
      BY <1>2 DEF AfterResend, Turning, TickType
    <2>q. QED BY <2>1, <2>2 DEF SameRun, Resends
  <1>q. QED BY <1>1, <1>2

(* The pass that directs goes on with its run.                             *)
LEMMA AfterDirectGoesOn ==
    ASSUME NEW t, Turning(scene.role, t), Resends(t)
    PROVE  SameRun(t, AfterDirect(t)) /\ Resends(AfterDirect(t))
  <1>1. CASE t.todo = {} /\ ToResend(t) # {}
    <2>1. t.st.direction = "upgrade" BY <1>1 DEF ToResend
    <2>2. AfterDirect(t).at = "resend" /\ AfterDirect(t).st = t.st
      BY <1>1 DEF AfterDirect, Turning, TickType
    <2>q. QED BY <2>1, <2>2 DEF SameRun, Resends
  <1>2. CASE ~(t.todo = {} /\ ToResend(t) # {}) BY <1>2, AfterResendGoesOn DEF AfterDirect
  <1>q. QED BY <1>1, <1>2

(* The pass that polls goes on with its run.                               *)
LEMMA AfterPollGoesOn ==
    ASSUME NEW v, NEW t, Turning(scene.role, t), Resends(t)
    PROVE  SameRun(t, AfterPoll(v, t)) /\ Resends(AfterPoll(v, t))
  <1>1. CASE t.todo = {} /\ ToDirect(v, t) # {}
    <2>2. AfterPoll(v, t).at = "direct" /\ AfterPoll(v, t).st = t.st
      BY <1>1 DEF AfterPoll, Turning, TickType
    <2>q. QED BY <2>2 DEF SameRun, Resends
  <1>2. CASE ~(t.todo = {} /\ ToDirect(v, t) # {}) BY <1>2, AfterDirectGoesOn DEF AfterPoll
  <1>q. QED BY <1>1, <1>2

(* The passes of an upgrade's tick keep to the plan.                       *)
Planful(t) == InPlan(scene.role, scene.parallel, t.st) /\ Tells(scene.role, scene.parallel, t)

(* The end of pass 2b settles the phase and keeps the plan.                *)
LEMMA AfterResendInPlan ==
    ASSUME NEW t, Turning(scene.role, t), Planful(t)
    PROVE  Planful(AfterResend(t))
  <1>1. CASE t.todo # {} BY <1>1 DEF AfterResend
  <1>2. CASE t.todo = {}
    <2>1. InPlan(scene.role, scene.parallel, Settled(t.st)) BY SettledInPlan DEF Turning, Planful
    <2>2. AfterResend(t).at = "write" /\ AfterResend(t).st = Settled(t.st)
      BY <1>2 DEF AfterResend, Turning, TickType
    <2>q. QED BY <2>1, <2>2 DEF Planful, Tells
  <1>q. QED BY <1>1, <1>2

(* What is sent again is in the front (poll_and_drive_group, pass 3).      *)
LEMMA AfterDirectInPlan ==
    ASSUME NEW t, Turning(scene.role, t), Planful(t)
    PROVE  Planful(AfterDirect(t))
  <1>1. CASE t.todo = {} /\ ToResend(t) # {}
    <2>1. AfterDirect(t).at = "resend" /\ AfterDirect(t).st = t.st /\ AfterDirect(t).todo = ToResend(t)
      BY <1>1 DEF AfterDirect, Turning, TickType
    <2>2. ASSUME NEW n \in ToResend(t)
          PROVE  n \in Front(scene.role, scene.parallel, t.st, RoleOf(t.st.phase))
      <3>1. n \in Nodes /\ scene.role[n] = RoleOf(t.st.phase) /\ t.st.rec[n] = "directed"
        BY <2>2 DEF ToResend, In, Group, Role
      <3>q. QED BY <3>1 DEF Planful, InPlan, Unsettled
    <2>q. QED BY <2>1, <2>2 DEF Planful, Tells
  <1>2. CASE ~(t.todo = {} /\ ToResend(t) # {}) BY <1>2, AfterResendInPlan DEF AfterDirect
  <1>q. QED BY <1>1, <1>2

(* What is directed next is in the front.                                  *)
LEMMA AfterPollInPlan ==
    ASSUME NEW v, NEW t, Turning(scene.role, t), Planful(t), scene \in SettingType
    PROVE  Planful(AfterPoll(v, t))
  <1>1. CASE t.todo = {} /\ ToDirect(v, t) # {}
    <2>1. /\ AfterPoll(v, t).at = "direct" /\ AfterPoll(v, t).st = t.st
          /\ AfterPoll(v, t).todo = ToDirect(v, t)
      BY <1>1 DEF AfterPoll, Turning, TickType
    <2>q. QED BY <2>1, ToDirectInFront DEF Planful, Tells
  <1>2. CASE ~(t.todo = {} /\ ToDirect(v, t) # {}) BY <1>2, AfterDirectInPlan DEF AfterPoll
  <1>q. QED BY <1>1, <1>2

-----------------------------------------------------------------------------
(* The nodes and the run that drives them.                                 *)

Left(role, done, r) == {n \in Nodes : role[n] = r /\ n \notin done}

(* A node's turn has come: it is among the first of its group that are not *)
(* done, and the groups before its own are done.                           *)
InTurn(role, batch, done, n) ==
    /\ role[n] # "absent"
    /\ n \in FirstOf(Left(role, done, role[n]), Room(batch, role[n]))
    /\ \A m \in Nodes : role[m] \in Earlier(role[n]) => m \in done

(* A turn lasts until the node is done.                                    *)
LEMMA TurnLasts ==
    ASSUME NEW role, NEW batch \in Nat, NEW done, NEW more, done \subseteq more,
           NEW n \in Nodes, n \notin more, InTurn(role, batch, done, n)
    PROVE  InTurn(role, batch, more, n)
  <1>1. n \in Left(role, more, role[n]) BY DEF Left
  <1>2. Left(role, more, role[n]) \in SUBSET Left(role, done, role[n]) BY DEF Left
  <1>3. Left(role, done, role[n]) \in SUBSET Nodes BY DEF Left
  <1>4. Room(batch, role[n]) \in Nat BY DEF Room
  <1>5. n \in FirstOf(Left(role, done, role[n]), Room(batch, role[n])) BY DEF InTurn
  <1>6. n \in FirstOf(Left(role, more, role[n]), Room(batch, role[n]))
    BY <1>1, <1>2, <1>3, <1>4, <1>5, FirstOfShrinks
  <1>q. QED BY <1>6 DEF InTurn

(* Those whose turn it is and who are not done fit into one batch, and no  *)
(* two of them are voters.                                                 *)
LEMMA OneBatch ==
    ASSUME NEW role \in [Nodes -> {"worker", "council", "leader", "absent"}],
           NEW batch \in Nat \ {0}, NEW done, NEW W \in SUBSET Nodes,
           \A n \in W : n \notin done /\ InTurn(role, batch, done, n)
    PROVE  /\ IsFiniteSet(W) /\ Cardinality(W) <= batch
           /\ Cardinality({v \in W : role[v] \in {"council", "leader"}}) <= 1
  <1>0. IsFiniteSet(W) BY FleetConstants, FS_Subset
  <1>1. CASE W = {}
    <2>1. {v \in W : role[v] \in {"council", "leader"}} = {} BY <1>1
    <2>q. QED BY <1>0, <1>1, <2>1, FS_EmptySet
  <1>2. CASE W # {}
    <2>1. PICK w \in W : TRUE BY <1>2
    <2> DEFINE r == role[w]
               F == FirstOf(Left(role, done, r), Room(batch, r))
               V == {v \in W : role[v] \in {"council", "leader"}}
    <2>2. ASSUME NEW n \in W PROVE role[n] = r
      <3>1. role[n] \in {"worker", "council", "leader"} /\ r \in {"worker", "council", "leader"}
        BY <2>1, <2>2 DEF InTurn
      <3>2. role[n] \notin Earlier(r) /\ r \notin Earlier(role[n]) BY <2>1, <2>2 DEF InTurn
      <3>q. QED BY <3>1, <3>2 DEF Earlier
    <2>3. W \subseteq F BY <2>2 DEF InTurn
    <2>4. Room(batch, r) \in Nat /\ Room(batch, r) <= batch /\ (r # "worker" => Room(batch, r) = 1)
      BY DEF Room
    <2>5. Left(role, done, r) \in SUBSET Nodes BY DEF Left
    <2>6. IsFiniteSet(F) /\ Cardinality(F) <= Room(batch, r) BY <2>4, <2>5, FirstOfBounded
    <2>7. Cardinality(W) <= Cardinality(F) BY <2>3, <2>6, FS_Subset
    <2>8. IsFiniteSet(V) /\ Cardinality(V) <= Cardinality(W) BY <1>0, FS_Subset
    <2>9. Cardinality(V) \in Nat /\ Cardinality(W) \in Nat /\ Cardinality(F) \in Nat
      BY <1>0, <2>6, <2>8, FS_CardinalityType
    <2>10. r = "worker" => V = {} BY <2>2
    <2>11. Cardinality(V) <= 1
      <3>1. CASE r = "worker" BY <2>10, <3>1, FS_EmptySet
      <3>2. CASE r # "worker"
        <4> HIDE DEF V, F, r
        <4>q. QED BY <3>2, <2>4, <2>6, <2>7, <2>8, <2>9
      <3>q. QED BY <3>1, <3>2
    <2>12. Cardinality(W) <= batch
      <3> HIDE DEF V, F, r
      <3>q. QED BY <2>4, <2>6, <2>7, <2>9
    <2>q. QED BY <1>0, <2>11, <2>12
  <1>q. QED BY <1>1, <1>2

Done == {n \in Nodes : Upgraded(n)}

(* What a run calls healthy is upgraded.                                   *)
Truthful(done, st) == \A n \in Nodes : st.rec[n] = "healthy" => n \in done

Busy(v) == tick[v].at # "none"
Upgrades(st, id) == st.direction = "upgrade" /\ st.id = id
Live(id) == Upgrades(run, id) \/ \E v \in Nodes : Busy(v) /\ Upgrades(tick[v].st, id)

(* The nodes as an upgrade that is under way may find them.                *)
InContext(id) ==
    \A n \in Nodes :
        /\ ~Downward(n)
        /\ Upward(n) \/ id \in reverted[n] => InTurn(scene.role, scene.parallel, Done, n)
        /\ RevertFits(n, id)

Heads == \A n \in Nodes : HeadsForTarget(n)
Contexts == \A id \in Ids : Live(id) => InContext(id)
Bounded ==
    /\ \A id \in Ids : Cardinality({n \in Nodes : Touches(n, id)}) <= scene.parallel
    /\ Cardinality({v \in Voters : Upward(v)}) <= 1
NodesFresh == \A n \in Nodes, id \in Ids : Touches(n, id) => id < FreshId

NodePart == NodeInv /\ Heads /\ Contexts /\ Bounded /\ NodesFresh

(* One run is driven at a time, whoever drives it, and its id was given.   *)
Agree(st, z) == st.id = z.id /\ st.direction = z.direction
Coherent ==
    \A v \in Nodes : Busy(v) =>
        /\ run # NoRun => Agree(run, tick[v].st)
        /\ \A w \in Nodes : Busy(w) => Agree(tick[w].st, tick[v].st)
RunsFresh == run.id < FreshId /\ \A v \in Nodes : Busy(v) => tick[v].st.id < FreshId
RunSound ==
    run.direction = "upgrade" =>
        Truthful(Done, run) /\ InPlan(scene.role, scene.parallel, run)
TicksSound ==
    \A v \in Nodes : Busy(v) =>
        /\ Resends(tick[v])
        /\ tick[v].st.direction = "upgrade" => Truthful(Done, tick[v].st) /\ Planful(tick[v])

RunPart == Coherent /\ RunsFresh /\ RunSound /\ TicksSound

FleetInv == FleetType /\ NodePart /\ RunPart

(* The ids given grow.                                                     *)
LEMMA FreshGrows ==
    ASSUME SceneFits, SameCluster
    PROVE  FreshId \in Nat \ {0} /\ FreshId' \in Nat \ {0} /\ FreshId <= FreshId'
  <1>1. Cardinality(Ids) \in Nat BY FleetConstants, FS_CardinalityType
  <1>2. /\ scene.left["runs"] \in Nat /\ scene'.left["runs"] \in Nat
        /\ scene.left["runs"] <= Cardinality(Ids) /\ scene'.left["runs"] <= Cardinality(Ids)
        /\ scene'.left["runs"] <= scene.left["runs"]
    BY DEF SceneFits, SameCluster, SettingType, Bounds
  <1>q. QED BY <1>1, <1>2 DEF FreshId

(* Whoever an upgrade is under way at, or has reverted it, is not done.    *)
Apart ==
    \A n \in Nodes, id \in Ids :
        RevertFits(n, id) /\ (Upward(n) \/ id \in reverted[n]) => n \notin Done

(* A node whose upgrade moves or was reverted is not among the done.       *)
LEMMA MovingIsNotDone == NodeInv /\ Heads => Apart
  <1>1. SUFFICES ASSUME NodeInv, Heads, NEW n \in Nodes, NEW id \in Ids, RevertFits(n, id),
                        Upward(n) \/ id \in reverted[n], Upgraded(n)
                 PROVE  FALSE
    BY DEF Apart, Done
  <1>2. ~Upward(n) BY <1>1, UpgradedRests DEF Heads
  <1>3. link[n] # Target BY <1>1, <1>2 DEF RevertFits
  <1>q. QED BY <1>1, <1>3 DEF Upgraded

(* Fewer nodes.                                                            *)
LEMMA Fewer ==
    ASSUME NEW B \in SUBSET Nodes, NEW A \in SUBSET B, NEW k \in Nat, Cardinality(B) <= k
    PROVE  Cardinality(A) <= k
  <1>1. IsFiniteSet(B) BY FleetConstants, FS_Subset
  <1>2. IsFiniteSet(A) /\ Cardinality(A) <= Cardinality(B) BY <1>1, FS_Subset
  <1>3. Cardinality(A) \in Nat /\ Cardinality(B) \in Nat BY <1>1, <1>2, FS_CardinalityType
  <1>q. QED BY <1>2, <1>3

(* A step that is steady at every node keeps what is known of the nodes.   *)
LEMMA SteadyKeepsNodes ==
    ASSUME FleetInv, NodeInv', SameCluster, \A k \in Nodes : Steady(k)
    PROVE  /\ Heads' /\ Bounded' /\ NodesFresh'
           /\ \A id \in Ids : InContext(id) => InContext(id)' /\ Done \subseteq Done'
  <1>0. /\ NodeInv /\ Heads /\ Contexts /\ Bounded /\ NodesFresh /\ SceneFits
        /\ scene \in SettingType
    BY DEF FleetInv, NodePart, FleetType, SceneFits
  <1>1. Heads' BY DEF Heads, Steady
  <1>2. ASSUME NEW id \in Ids, InContext(id) PROVE Done \subseteq Done'
    BY <1>2 DEF InContext, Done, Steady
  <1>4. Apart' BY <1>1, MovingIsNotDone, PTL
  <1>3. ASSUME NEW id \in Ids, InContext(id) PROVE InContext(id)'
    <2>1. SUFFICES ASSUME NEW n \in Nodes
                   PROVE  /\ ~Downward(n)'
                          /\ Upward(n)' \/ id \in reverted'[n] =>
                                 InTurn(scene.role, scene.parallel, Done', n)
                          /\ RevertFits(n, id)'
      BY DEF InContext, SameCluster
    <2>2. ~Downward(n)' /\ RevertFits(n, id)' BY <1>3 DEF InContext, Steady
    <2>3. ASSUME Upward(n)' \/ id \in reverted'[n]
          PROVE  InTurn(scene.role, scene.parallel, Done', n)
      <3>1. Upward(n) \/ id \in reverted[n] BY <2>3 DEF Steady
      <3>2. InTurn(scene.role, scene.parallel, Done, n) BY <1>3, <3>1 DEF InContext
      <3>3. n \notin Done' BY <1>4, <2>2, <2>3 DEF Apart
      <3>4. scene.parallel \in Nat BY <1>0 DEF SettingType
      <3>q. QED BY <1>2, <1>3, <3>2, <3>3, <3>4, TurnLasts
    <2>q. QED BY <2>2, <2>3
  <1>6. ASSUME NEW id \in Ids
        PROVE  Cardinality({n \in Nodes : Touches(n, id)'}) <= scene.parallel
    <2>1. {n \in Nodes : Touches(n, id)'} \in SUBSET {n \in Nodes : Touches(n, id)} BY DEF Steady
    <2>2. Cardinality({n \in Nodes : Touches(n, id)}) <= scene.parallel /\ scene.parallel \in Nat
      BY <1>0 DEF Bounded, SettingType
    <2>q. QED BY <2>1, <2>2, Fewer
  <1>7. Cardinality({v \in Voters : Upward(v)'}) <= 1
    <2>1. {v \in Voters : Upward(v)'} \in SUBSET {v \in Voters : Upward(v)} BY DEF Steady, Voters
    <2>2. {v \in Voters : Upward(v)} \in SUBSET Nodes /\ Cardinality({v \in Voters : Upward(v)}) <= 1
      BY <1>0 DEF Bounded, Voters
    <2>q. QED BY <2>1, <2>2, Fewer
  <1>8. Bounded'
    <2>1. Voters' = Voters BY DEF SameCluster, Voters
    <2>q. QED BY <1>6, <1>7, <2>1 DEF Bounded, SameCluster
  <1>9. NodesFresh'
    <2>1. SUFFICES ASSUME NEW n \in Nodes, NEW id \in Ids, Touches(n, id)' PROVE id < FreshId'
      BY DEF NodesFresh
    <2>2. id < FreshId BY <1>0, <2>1 DEF Steady, NodesFresh
    <2>3. FreshId \in Nat /\ FreshId' \in Nat /\ FreshId <= FreshId' BY <1>0, FreshGrows
    <2>4. id \in Nat BY NodeConstants
    <2>q. QED BY <2>2, <2>3, <2>4
  <1>q. QED BY <1>1, <1>2, <1>3, <1>8, <1>9

(* Such a step keeps the contexts when it makes no run live.               *)
LEMMA SteadyKeeps ==
    ASSUME FleetInv, NodeInv', SameCluster, \A k \in Nodes : Steady(k),
           \A id \in Ids : Live(id)' => Live(id)
    PROVE  NodePart' /\ ((\E id \in Ids : Live(id)) => Done \subseteq Done')
  <1>1. /\ Heads' /\ Bounded' /\ NodesFresh'
        /\ \A id \in Ids : InContext(id) => InContext(id)' /\ Done \subseteq Done'
    BY SteadyKeepsNodes
  <1>2. \A id \in Ids : Live(id) => InContext(id) BY DEF FleetInv, NodePart, Contexts
  <1>3. Contexts' BY <1>1, <1>2 DEF Contexts
  <1>q. QED BY <1>1, <1>2, <1>3 DEF NodePart

(* Whoever is live drives the run that any tick drives.                    *)
LEMMA OneIsLive ==
    ASSUME Coherent, NEW v \in Nodes, Busy(v), NEW id \in Ids, Live(id)
    PROVE  Upgrades(tick[v].st, id)
  <1>1. CASE Upgrades(run, id)
    <2>1. run # NoRun BY <1>1 DEF Upgrades, NoRun
    <2>q. QED BY <1>1, <2>1 DEF Coherent, Agree, Upgrades
  <1>2. CASE \E w \in Nodes : Busy(w) /\ Upgrades(tick[w].st, id)
    BY <1>2 DEF Coherent, Agree, Upgrades
  <1>q. QED BY <1>1, <1>2 DEF Live

(* A node an upgrade tells to begin is in its turn (poll_and_drive_group). *)
LEMMA ToldInTurn ==
    ASSUME FleetInv, NEW v \in Nodes, tick[v].at \in {"direct", "await", "resend"},
           tick[v].st.direction = "upgrade", NEW n \in tick[v].todo, n \notin Done
    PROVE  InTurn(scene.role, scene.parallel, Done, n)
  <1> DEFINE st == tick[v].st
             r == RoleOf(st.phase)
  <1>1. /\ st \in RunType /\ st.phase \in Driven /\ n \in Nodes /\ scene.role[n] = r
        /\ scene \in SettingType
    BY DEF FleetInv, FleetType, TicksFit, TickFits, TickType, Passes, GroupOf, SceneFits
  <1>2. Busy(v) BY DEF Busy
  <1>3. Truthful(Done, st) /\ Planful(tick[v]) BY <1>2 DEF FleetInv, RunPart, TicksSound
  <1>4. n \in Front(scene.role, scene.parallel, st, r) BY <1>3 DEF Planful, Tells
  <1>5. Left(scene.role, Done, r) \in SUBSET Open(scene.role, st, r)
    BY <1>3 DEF Left, Open, Truthful
  <1>6. n \in Left(scene.role, Done, r) BY <1>1 DEF Left
  <1>7. Open(scene.role, st, r) \in SUBSET Nodes BY DEF Open
  <1>8. Room(scene.parallel, r) \in Nat BY <1>1 DEF Room, SettingType
  <1>9. n \in FirstOf(Left(scene.role, Done, r), Room(scene.parallel, r))
    BY <1>4, <1>5, <1>6, <1>7, <1>8, FirstOfShrinks DEF Front
  <1>10. r # "absent" /\ Earlier(r) = Passed(st.phase) BY <1>1, PhasesInOrder
  <1>11. ASSUME NEW m \in Nodes, scene.role[m] \in Earlier(r) PROVE m \in Done
    BY <1>3, <1>10, <1>11 DEF Planful, InPlan, Truthful
  <1>q. QED BY <1>1, <1>9, <1>10, <1>11 DEF InTurn

(* A directive that is taken.                                              *)
Directing(v, n) ==
    /\ tick[v].at \in {"direct", "resend"}
    /\ n \in tick[v].todo
    /\ BeginPreparing(n, DirectiveId(tick[v].st), TargetOf(tick[v].st))

(* A directive that is taken begins at a node that was at rest.            *)
LEMMA DirectingBegins ==
    ASSUME FleetInv, NEW v \in Nodes, NEW n, Directing(v, n)
    PROVE  /\ NodeInv' /\ n \in Nodes /\ tick[v].st \in RunType /\ Busy(v)
           /\ Begins(n, DirectiveId(tick[v].st), TargetOf(tick[v].st))
           /\ Done' = Done
  <1> DEFINE st == tick[v].st
  <1>1. st \in RunType /\ n \in Nodes
    BY DEF Directing, FleetInv, FleetType, TicksFit, TickFits, TickType, Passes
  <1>2. TargetOf(st) \in Versions BY NodeConstants, FleetConstants DEF TargetOf
  <1>3. DirectiveId(st) \in AllIds /\ (DirectiveId(st) \in Ids \/ DirectiveId(st) = RollbackId(TargetOf(st)))
    BY <1>1, NodeConstants DEF DirectiveId, TargetOf, AllIds, RunType
  <1>4. NodeInv' /\ Begins(n, DirectiveId(st), TargetOf(st))
    BY <1>1, <1>2, <1>3, BeginPreparingBegins DEF Directing, FleetInv, NodePart
  <1>5. Done' = Done BY <1>4 DEF Begins, Done, Upgraded, InFlight
  <1>q. QED BY <1>1, <1>4, <1>5 DEF Directing, Busy

(* A directive of a rollback begins where no upgrade is under way.         *)
LEMMA RollbackKeeps ==
    ASSUME FleetInv, SameCluster, NEW v \in Nodes, NEW n, Directing(v, n),
           tick[v].st.direction # "upgrade", \A id \in Ids : Live(id)' => Live(id)
    PROVE  NodePart'
  <1>0. /\ NodeInv /\ Heads /\ Contexts /\ Bounded /\ NodesFresh /\ SceneFits /\ Coherent
        /\ scene \in SettingType
    BY DEF FleetInv, NodePart, RunPart, FleetType, SceneFits
  <1>1. NodeInv' /\ n \in Nodes /\ Busy(v) /\ Begins(n, RollbackId(Base), Base)
    BY DirectingBegins DEF DirectiveId, TargetOf
  <1>2. RollbackId(Base) < 0 BY NodeConstants DEF RollbackId
  <1>3. Contexts' BY <1>0, <1>1, OneIsLive DEF Contexts, Upgrades
  <1>4. ASSUME NEW k \in Nodes
        PROVE  /\ HeadsForTarget(k)' /\ (Upward(k)' => Upward(k))
               /\ \A id \in Ids : Touches(k, id)' => Touches(k, id)
    <2>1. CASE k # n
      BY <1>0, <1>1, <2>1 DEF Begins, OnlyAt, Heads, HeadsForTarget, Upward, Touches, Preparing
    <2>2. CASE k = n
      <3>1. marker'[n] = NoMarker /\ want'[n].id < 0 /\ reverted' = reverted
        BY <1>1, <1>2 DEF Begins
      <3>2. \A id \in Ids : id > 0 BY NodeConstants
      <3>3. want'[n].id = RollbackId(Base) /\ RollbackId(Base) \in Int
        BY <1>1, NodeConstants DEF Begins, RollbackId
      <3>4. ~Upward(n)' /\ HeadsForTarget(n)'
        BY <3>1, <3>3 DEF Upward, HeadsForTarget, NoMarker
      <3>5. ASSUME NEW id \in Ids PROVE Touches(n, id)' => Touches(n, id)
        BY <3>1, <3>2, <3>3, NodeConstants DEF Touches, NoMarker
      <3>q. QED BY <2>2, <3>4, <3>5
    <2>q. QED BY <2>1, <2>2
  <1>5. Heads' BY <1>4 DEF Heads
  <1>6. ASSUME NEW id \in Ids
        PROVE  Cardinality({k \in Nodes : Touches(k, id)'}) <= scene.parallel
    <2>1. {k \in Nodes : Touches(k, id)'} \in SUBSET {k \in Nodes : Touches(k, id)} BY <1>4
    <2>2. Cardinality({k \in Nodes : Touches(k, id)}) <= scene.parallel /\ scene.parallel \in Nat
      BY <1>0 DEF Bounded, SettingType
    <2>q. QED BY <2>1, <2>2, Fewer
  <1>7. Cardinality({w \in Voters : Upward(w)'}) <= 1
    <2>1. {w \in Voters : Upward(w)'} \in SUBSET {w \in Voters : Upward(w)} BY <1>4 DEF Voters
    <2>2. {w \in Voters : Upward(w)} \in SUBSET Nodes /\ Cardinality({w \in Voters : Upward(w)}) <= 1
      BY <1>0 DEF Bounded, Voters
    <2>q. QED BY <2>1, <2>2, Fewer
  <1>8. Bounded'
    <2>1. Voters' = Voters BY DEF SameCluster, Voters
    <2>q. QED BY <1>6, <1>7, <2>1 DEF Bounded, SameCluster
  <1>9. NodesFresh'
    <2>1. SUFFICES ASSUME NEW k \in Nodes, NEW id \in Ids, Touches(k, id)' PROVE id < FreshId'
      BY DEF NodesFresh
    <2>2. id < FreshId BY <1>0, <1>4, <2>1 DEF NodesFresh
    <2>3. FreshId \in Nat /\ FreshId' \in Nat /\ FreshId <= FreshId' BY <1>0, FreshGrows
    <2>4. id \in Nat BY NodeConstants
    <2>q. QED BY <2>2, <2>3, <2>4
  <1>q. QED BY <1>1, <1>3, <1>5, <1>8, <1>9 DEF NodePart

(* A directive of an upgrade begins at a node in its turn.                 *)
LEMMA UpgradeKeeps ==
    ASSUME FleetInv, SameCluster, NEW v \in Nodes, NEW n, Directing(v, n),
           tick[v].st.direction = "upgrade", \A id \in Ids : Live(id)' => Live(id)
    PROVE  NodePart'
  <1>0. /\ NodeInv /\ Heads /\ Contexts /\ Bounded /\ NodesFresh /\ SceneFits /\ Coherent
        /\ scene \in SettingType /\ RunsFresh
    BY DEF FleetInv, NodePart, RunPart, FleetType, SceneFits
  <1>c. PICK cur \in Ids : cur = tick[v].st.id BY DirectingBegins DEF RunType
  <1>1. NodeInv' /\ n \in Nodes /\ Busy(v) /\ Begins(n, cur, Target) /\ Done' = Done
    BY <1>c, DirectingBegins DEF DirectiveId, TargetOf
  <1>2. cur > 0 /\ \A id \in Ids : id > 0 /\ id \in Nat BY <1>1, NodeConstants
  <1>3. /\ marker'[n] = NoMarker /\ want'[n] = [id |-> cur, to |-> Target]
        /\ reverted' = reverted /\ cur \notin reverted[n] /\ link[n] # Target
    BY <1>1, <1>2 DEF Begins
  <1>4. InTurn(scene.role, scene.parallel, Done, n)
    <2>1. n \notin Done BY <1>3 DEF Done, Upgraded
    <2>q. QED BY <2>1, ToldInTurn DEF Directing
  <1>5. Live(cur) BY <1>c, <1>1 DEF Live, Upgrades
  <1>6. InContext(cur) BY <1>0, <1>1, <1>5 DEF Contexts
  <1>7. ASSUME NEW k \in Nodes
        PROVE  /\ HeadsForTarget(k)' /\ ~Downward(k)' /\ RevertFits(k, cur)'
               /\ Upward(k)' \/ cur \in reverted'[k] => InTurn(scene.role, scene.parallel, Done, k)
               /\ \A id \in Ids : Touches(k, id)' => id = cur \/ Touches(k, id)
    <2>1. CASE k # n
      <3>1. /\ HeadsForTarget(k)' /\ ~Downward(k)' /\ RevertFits(k, cur)'
            /\ (Upward(k)' \/ cur \in reverted'[k] => Upward(k) \/ cur \in reverted[k])
            /\ \A id \in Ids : Touches(k, id)' => Touches(k, id)
        BY <1>0, <1>1, <1>6, <2>1 DEF Begins, OnlyAt, Heads, HeadsForTarget, Upward, Downward, Touches,
           Preparing, RevertFits, InContext
      <3>q. QED BY <1>6, <3>1 DEF InContext
    <2>2. CASE k = n
      <3>1. HeadsForTarget(n)' BY <1>3 DEF HeadsForTarget, NoMarker
      <3>2. ~Downward(n)' BY <1>2, <1>3 DEF Downward, NoMarker
      <3>3. RevertFits(n, cur)' BY <1>3 DEF RevertFits
      <3>4. ASSUME NEW id \in Ids, Touches(n, id)' PROVE id = cur \/ Touches(n, id)
        BY <1>2, <1>3, <3>4 DEF Touches, NoMarker
      <3>q. QED BY <1>4, <2>2, <3>1, <3>2, <3>3, <3>4
    <2>q. QED BY <2>1, <2>2
  <1>8. Heads' BY <1>7 DEF Heads
  <1>9. InContext(cur)' BY <1>1, <1>7 DEF InContext, SameCluster
  <1>10. Contexts'
    <2>1. ASSUME NEW id \in Ids, Live(id)' PROVE id = cur
      BY <1>c, <1>0, <1>1, <2>1, OneIsLive DEF Upgrades
    <2>q. QED BY <1>9, <2>1 DEF Contexts
  <1>11. Apart' BY <1>1, <1>8, MovingIsNotDone, PTL
  <1> DEFINE W == {k \in Nodes : Upward(k)' \/ cur \in reverted'[k]}
  <1>12. \A k \in W : k \notin Done /\ InTurn(scene.role, scene.parallel, Done, k)
    BY <1>1, <1>7, <1>11 DEF Apart
  <1>13. /\ scene.role \in [Nodes -> {"worker", "council", "leader", "absent"}]
         /\ scene.parallel \in Nat \ {0}
    BY <1>0 DEF SettingType
  <1>14. /\ Cardinality(W) <= scene.parallel
         /\ Cardinality({w \in W : scene.role[w] \in {"council", "leader"}}) <= 1
    <2>1. W \in SUBSET Nodes OBVIOUS
    <2> HIDE DEF W
    <2>q. QED BY <1>12, <1>13, <2>1, OneBatch
  <1>15. ASSUME NEW id \in Ids
         PROVE  Cardinality({k \in Nodes : Touches(k, id)'}) <= scene.parallel
    <2>1. CASE id = cur
      <3>1. {k \in Nodes : Touches(k, cur)'} \in SUBSET W BY <1>2 DEF Touches, Upward
      <3>2. W \in SUBSET Nodes OBVIOUS
      <3>q. QED BY <1>13, <1>14, <2>1, <3>1, <3>2, Fewer
    <2>2. CASE id # cur
      <3>1. {k \in Nodes : Touches(k, id)'} \in SUBSET {k \in Nodes : Touches(k, id)} BY <1>7, <2>2
      <3>2. Cardinality({k \in Nodes : Touches(k, id)}) <= scene.parallel BY <1>0 DEF Bounded
      <3>q. QED BY <1>13, <3>1, <3>2, Fewer
    <2>q. QED BY <2>1, <2>2
  <1>16. Cardinality({w \in Voters : Upward(w)'}) <= 1
    <2>1. {w \in Voters : Upward(w)'} \in SUBSET {w \in W : scene.role[w] \in {"council", "leader"}}
      BY DEF Voters
    <2>2. {w \in W : scene.role[w] \in {"council", "leader"}} \in SUBSET Nodes OBVIOUS
    <2>q. QED BY <1>14, <2>1, <2>2, Fewer
  <1>17. Bounded'
    <2>1. Voters' = Voters BY DEF SameCluster, Voters
    <2>q. QED BY <1>15, <1>16, <2>1 DEF Bounded, SameCluster
  <1>18. NodesFresh'
    <2>1. SUFFICES ASSUME NEW k \in Nodes, NEW id \in Ids, Touches(k, id)' PROVE id < FreshId'
      BY DEF NodesFresh
    <2>2. id < FreshId
      <3>1. CASE id = cur BY <1>c, <1>0, <1>1, <3>1 DEF RunsFresh
      <3>2. CASE Touches(k, id) BY <1>0, <3>2 DEF NodesFresh
      <3>q. QED BY <1>7, <2>1, <3>1, <3>2
    <2>3. FreshId \in Nat /\ FreshId' \in Nat /\ FreshId <= FreshId' BY <1>0, FreshGrows
    <2>q. QED BY <1>2, <2>2, <2>3
  <1>q. QED BY <1>1, <1>8, <1>10, <1>17, <1>18 DEF NodePart

(* The run st is the one being driven.                                     *)
Driver(st) ==
    \/ run # NoRun /\ Agree(st, run)
    \/ \E w \in Nodes : Busy(w) /\ Agree(st, tick[w].st)

(* A step that goes on with the run being driven.                          *)
Carries ==
    /\ \A w \in Nodes : tick'[w].at # "none" => Driver(tick'[w].st)
    /\ run' = NoRun \/ Driver(run')

(* Two copies of the run being driven are of the same run.                 *)
LEMMA DriversAgree ==
    ASSUME Coherent, NEW st, NEW z, Driver(st), Driver(z)
    PROVE  Agree(st, z)
  BY DEF Coherent, Driver, Agree

(* Such a step keeps one run under way, and makes none live.               *)
LEMMA CarriesKeeps ==
    ASSUME FleetInv, SameCluster, Carries
    PROVE  Coherent' /\ RunsFresh' /\ \A id \in Ids : Live(id)' => Live(id)
  <1>0. Coherent /\ RunsFresh /\ SceneFits BY DEF FleetInv, RunPart, FleetType
  <1>1. Coherent'
    <2>1. ASSUME NEW v \in Nodes, Busy(v)'
          PROVE  /\ (run # NoRun)' => Agree(run', tick'[v].st)
                 /\ \A w \in Nodes : Busy(w)' => Agree(tick'[w].st, tick'[v].st)
      <3>1. Driver(tick'[v].st) BY <2>1 DEF Busy, Carries
      <3>2. run' # NoRun => Agree(run', tick'[v].st) BY <1>0, <3>1, DriversAgree DEF Carries
      <3>3. ASSUME NEW w \in Nodes, Busy(w)' PROVE Agree(tick'[w].st, tick'[v].st)
        BY <1>0, <3>1, <3>3, DriversAgree DEF Carries, Busy
      <3>4. NoRun' = NoRun BY DEF NoRun
      <3>q. QED BY <3>2, <3>3, <3>4
    <2>q. QED BY <2>1 DEF Coherent, Agree
  <1>2. FreshId \in Nat \ {0} /\ FreshId' \in Nat \ {0} /\ FreshId <= FreshId' BY <1>0, FreshGrows
  <1>3. ASSUME NEW st, Driver(st) PROVE st.id < FreshId'
    <2>1. PICK x : (x = run /\ run # NoRun /\ Agree(st, run)) \/ \E w \in Nodes : Busy(w) /\ x = tick[w].st /\ Agree(st, x)
      BY <1>3 DEF Driver
    <2>2. x.id \in Nat /\ x.id < FreshId
      <3>1. CASE x = run /\ run # NoRun
        BY <1>0, <3>1, NodeConstants DEF RunsFresh, FleetInv, FleetType, RunFits, RunType
      <3>2. CASE \E w \in Nodes : Busy(w) /\ x = tick[w].st
        BY <1>0, <3>2, NodeConstants DEF RunsFresh, FleetInv, FleetType, TicksFit, TickFits, RunType, Busy
      <3>q. QED BY <2>1, <3>1, <3>2
    <2>3. st.id = x.id BY <2>1 DEF Agree
    <2>q. QED BY <1>2, <2>2, <2>3
  <1>4. RunsFresh'
    <2>1. run'.id < FreshId'
      <3>1. CASE run' = NoRun BY <1>2, <3>1 DEF NoRun
      <3>2. CASE Driver(run') BY <1>3, <3>2
      <3>q. QED BY <3>1, <3>2 DEF Carries
    <2>2. ASSUME NEW w \in Nodes, Busy(w)' PROVE tick'[w].st.id < FreshId'
      BY <1>3, <2>2 DEF Carries, Busy
    <2>q. QED BY <2>1, <2>2 DEF RunsFresh
  <1>5. ASSUME NEW id \in Ids, Live(id)' PROVE Live(id)
    <2>1. ASSUME NEW st, Driver(st), Upgrades(st, id) PROVE Live(id)
      BY <2>1 DEF Driver, Agree, Upgrades, Live
    <2>2. CASE Upgrades(run', id)
      <3>1. run' # NoRun BY <2>2 DEF Upgrades, NoRun
      <3>q. QED BY <2>1, <2>2, <3>1 DEF Carries
    <2>3. CASE \E w \in Nodes : tick'[w].at # "none" /\ Upgrades(tick'[w].st, id)
      BY <2>1, <2>3 DEF Carries
    <2>q. QED BY <1>5, <2>2, <2>3 DEF Live, Busy, Upgrades
  <1>q. QED BY <1>1, <1>4, <1>5

(* What a run says stays true while nodes that are done stay done.         *)
StaysDone == (\E id \in Ids : Live(id)) => Done \subseteq Done'

Good(st) == Truthful(Done', st) /\ InPlan(scene.role, scene.parallel, st)

(* A step that keeps what is done keeps every copy of the run truthful.    *)
LEMMA OldRunsStaySound ==
    ASSUME FleetInv, SameCluster, StaysDone
    PROVE  /\ run.direction = "upgrade" => Good(run)
           /\ \A w \in Nodes : Busy(w) =>
                  /\ Resends(tick[w])
                  /\ tick[w].st.direction = "upgrade" =>
                         Good(tick[w].st) /\ Tells(scene.role, scene.parallel, tick[w])
  <1>0. RunSound /\ TicksSound BY DEF FleetInv, RunPart
  <1>1. ASSUME run.direction = "upgrade" PROVE Good(run)
    <2>1. run \in RunType BY <1>1 DEF FleetInv, FleetType, RunFits, NoRun
    <2>2. run.id \in Ids /\ Live(run.id) BY <1>1, <2>1 DEF RunType, Live, Upgrades
    <2>q. QED BY <1>0, <1>1, <2>2 DEF StaysDone, RunSound, Good, Truthful
  <1>2. ASSUME NEW w \in Nodes, Busy(w), tick[w].st.direction = "upgrade"
        PROVE  Good(tick[w].st) /\ Tells(scene.role, scene.parallel, tick[w])
    <2>1. tick[w].st \in RunType BY <1>2 DEF FleetInv, FleetType, TicksFit, TickFits, Busy
    <2>2. tick[w].st.id \in Ids /\ Live(tick[w].st.id) BY <1>2, <2>1 DEF RunType, Live, Upgrades
    <2>q. QED BY <1>0, <1>2, <2>2 DEF StaysDone, TicksSound, Good, Truthful, Planful
  <1>q. QED BY <1>0, <1>1, <1>2 DEF TicksSound

(* What is left to show of a step that goes on with the run.               *)
LEMMA RunPartFrom ==
    ASSUME FleetInv, SameCluster, Carries,
           run'.direction = "upgrade" => Good(run'),
           \A w \in Nodes : tick'[w].at # "none" =>
               /\ Resends(tick'[w])
               /\ tick'[w].st.direction = "upgrade" =>
                      Good(tick'[w].st) /\ Tells(scene.role, scene.parallel, tick'[w])
    PROVE  RunPart'
  <1>1. Coherent' /\ RunsFresh' BY CarriesKeeps
  <1>2. RunSound' BY DEF RunSound, Good, SameCluster
  <1>3. TicksSound' BY DEF TicksSound, Good, SameCluster, Busy, Planful, Resends
  <1>q. QED BY <1>1, <1>2, <1>3 DEF RunPart

(* A node's own step keeps the invariant.                                  *)
LEMMA NodeNextSound ==
    ASSUME FleetInv, NEW n \in Nodes, NodeNext(n)
    PROVE  FleetInv'
  <1>0. FleetType /\ NodeInv /\ Heads BY DEF FleetInv, NodePart
  <1>1. FleetType' /\ OwnStep(n) /\ Overheard /\ SameCluster BY <1>0, NodeNextFits
  <1>2. NodeInv' /\ \A k \in Nodes : Steady(k) BY <1>0, <1>1, OwnStepIsSteady DEF Heads
  <1>3. run' = run BY <1>1 DEF Overheard
  <1>4. ASSUME NEW w \in Nodes, tick'[w].at # "none"
        PROVE  /\ Busy(w) /\ tick'[w].st = tick[w].st
               /\ tick'[w] = tick[w] \/ (tick'[w].at = "await" /\ tick[w].at = "await" /\ tick'[w].todo = tick[w].todo)
    BY <1>1, <1>4 DEF Overheard, Heard, Busy, NoTick
  <1>5. Carries BY <1>3, <1>4 DEF Carries, Driver, Agree
  <1>6. NodePart' /\ StaysDone BY <1>1, <1>2, <1>5, CarriesKeeps, SteadyKeeps DEF StaysDone
  <1>7. run'.direction = "upgrade" => Good(run') BY <1>1, <1>3, <1>6, OldRunsStaySound
  <1>8. ASSUME NEW w \in Nodes, tick'[w].at # "none"
        PROVE  /\ Resends(tick'[w])
               /\ tick'[w].st.direction = "upgrade" =>
                      Good(tick'[w].st) /\ Tells(scene.role, scene.parallel, tick'[w])
    <2>1. /\ Resends(tick[w])
          /\ tick[w].st.direction = "upgrade" =>
                 Good(tick[w].st) /\ Tells(scene.role, scene.parallel, tick[w])
      BY <1>1, <1>4, <1>6, <1>8, OldRunsStaySound
    <2>q. QED BY <1>4, <1>8, <2>1 DEF Resends, Tells
  <1>9. RunPart' BY <1>1, <1>5, <1>7, <1>8, RunPartFrom
  <1>q. QED BY <1>1, <1>6, <1>9 DEF FleetInv

(* A tick that goes on with its run keeps the invariant when its records   *)
(* and its next nodes are as the plan has them.                            *)
LEMMA TickMovesSound ==
    ASSUME FleetInv, FleetType', NEW v \in Nodes, NEW u, TickMoves(v, u), Driver(u.st),
           (\A id \in Ids : Live(id)' => Live(id)) => NodePart' /\ StaysDone,
           Resends(u),
           StaysDone /\ u.st.direction = "upgrade" =>
               Good(u.st) /\ Tells(scene.role, scene.parallel, u)
    PROVE  FleetInv'
  <1>1. tick \in [Nodes -> TickType] /\ SameCluster /\ run' = run
    BY DEF FleetInv, FleetType, TicksFit, TickMoves
  <1>2. \A w \in Nodes : tick'[w] = IF w = v THEN u ELSE tick[w] BY <1>1 DEF TickMoves
  <1>3. Carries BY <1>1, <1>2 DEF Carries, Driver, Busy, Agree
  <1>4. NodePart' /\ StaysDone BY <1>1, <1>3, CarriesKeeps
  <1>5. run'.direction = "upgrade" => Good(run') BY <1>1, <1>4, OldRunsStaySound
  <1>6. ASSUME NEW w \in Nodes, tick'[w].at # "none"
        PROVE  /\ Resends(tick'[w])
               /\ tick'[w].st.direction = "upgrade" =>
                      Good(tick'[w].st) /\ Tells(scene.role, scene.parallel, tick'[w])
    <2>1. CASE w = v BY <1>2, <1>4, <2>1
    <2>2. CASE w # v
      <3>1. tick'[w] = tick[w] /\ Busy(w) BY <1>2, <1>6, <2>2 DEF Busy
      <3>q. QED BY <1>1, <1>4, <3>1, OldRunsStaySound
    <2>q. QED BY <2>1, <2>2
  <1>7. RunPart' BY <1>1, <1>3, <1>5, <1>6, RunPartFrom
  <1>q. QED BY <1>4, <1>7 DEF FleetInv

(* A tick's step that leaves the nodes alone.                              *)
LEMMA QuietStep ==
    ASSUME FleetInv, SameCluster, UNCHANGED nodeVars
    PROVE  /\ (\A id \in Ids : Live(id)' => Live(id)) => NodePart' /\ StaysDone
           /\ Done' = Done
  <1>1. NodeInv /\ Heads BY DEF FleetInv, NodePart
  <1>2. NodeInv' /\ \A k \in Nodes : Steady(k) BY <1>1, StutterIsSteady DEF Heads
  <1>3. Done' = Done BY DEF Done, Upgraded, InFlight, nodeVars
  <1>q. QED BY <1>2, <1>3, SteadyKeeps DEF StaysDone

(* The passes: from a tick in the middle of one to the tick it becomes.    *)
LEMMA PassesSound ==
    ASSUME FleetInv, NEW t, NEW u, SameRun(t, u),
           t.st.direction = "upgrade" /\ Truthful(Done', t.st) => Planful(u),
           StaysDone /\ t.st.direction = "upgrade" => Truthful(Done', t.st)
    PROVE  StaysDone /\ u.st.direction = "upgrade" =>
               Good(u.st) /\ Tells(scene.role, scene.parallel, u)
  BY DEF SameRun, Good, Planful, Truthful

(* A tick begins with what the council holds.                              *)
LEMMA BeginTickSound ==
    ASSUME FleetInv, NEW v \in Nodes, BeginTick(v)
    PROVE  FleetInv'
  <1>0. FleetType /\ RunSound /\ scene \in SettingType BY DEF FleetInv, RunPart, FleetType, SceneFits
  <1>1. FleetType' /\ UNCHANGED nodeVars /\ run \in RunType /\ tick[v] = NoTick
    BY <1>0, BeginTickFits
  <1>2. PICK u : /\ TickMoves(v, u)
                 /\ \/ /\ run.phase \in {"preparing", "transferring"}
                       /\ u.at = "write"
                       /\ u.st = [run EXCEPT !.phase =
                              IF run.phase = "preparing" THEN "workers" ELSE "leading"]
                    \/ \E t : u = AfterPoll(v, t) /\ t.st = run /\ Turning(scene.role, t)
                              /\ t.at = "poll"
    BY <1>0, BeginTickFits
  <1>3. SameCluster BY <1>2 DEF TickMoves
  <1>4. /\ (\A id \in Ids : Live(id)' => Live(id)) => NodePart' /\ StaysDone
        /\ Done' = Done
    BY <1>1, <1>3, QuietStep
  <1>5. run # NoRun
    <2>1. BeginTick(v) => run.phase \in {"preparing", "workers", "council", "transferring", "leading"}
      BY DEF BeginTick
    <2>q. QED BY <2>1 DEF NoRun
  <1>6. Agree(u.st, run) /\ Resends(u)
        /\ (StaysDone /\ u.st.direction = "upgrade" => Good(u.st) /\ Tells(scene.role, scene.parallel, u))
    <2>1. CASE /\ run.phase \in {"preparing", "transferring"}
               /\ u.at = "write"
               /\ u.st = [run EXCEPT !.phase =
                              IF run.phase = "preparing" THEN "workers" ELSE "leading"]
      <3>1. /\ u.st.id = run.id /\ u.st.direction = run.direction /\ u.st.rec = run.rec
            /\ Passed(u.st.phase) \subseteq Passed(run.phase)
        BY <1>1, <2>1 DEF RunType, Passed
      <3>2. \A r : Open(scene.role, u.st, r) = Open(scene.role, run, r) BY <3>1 DEF Open
      <3>3. u.st.direction = "upgrade" => Good(u.st)
        BY <1>0, <1>4, <3>1, <3>2 DEF RunSound, Good, Truthful, InPlan, Front
      <3>q. QED BY <2>1, <3>1, <3>3 DEF Agree, Resends, Tells
    <2>2. ASSUME NEW t, u = AfterPoll(v, t), t.st = run, Turning(scene.role, t), t.at = "poll"
          PROVE  Agree(u.st, run) /\ Resends(u)
                 /\ (StaysDone /\ u.st.direction = "upgrade" => Good(u.st) /\ Tells(scene.role, scene.parallel, u))
      <3>1. Resends(t) BY <2>2 DEF Resends
      <3>2. SameRun(t, u) /\ Resends(u) BY <2>2, <3>1, AfterPollGoesOn
      <3>3. ASSUME run.direction = "upgrade" PROVE Planful(u)
        <4>1. Planful(t) BY <1>0, <2>2, <3>3 DEF Planful, RunSound, Tells
        <4>q. QED BY <1>0, <2>2, <4>1, AfterPollInPlan
      <3>4. run.direction = "upgrade" => Truthful(Done', t.st) BY <1>0, <1>4, <2>2 DEF RunSound
      <3>5. StaysDone /\ u.st.direction = "upgrade" => Good(u.st) /\ Tells(scene.role, scene.parallel, u)
        BY <2>2, <3>2, <3>3, <3>4, PassesSound
      <3>q. QED BY <2>2, <3>2, <3>5 DEF SameRun, Agree
    <2>q. QED BY <1>2, <2>1, <2>2
  <1>7. Driver(u.st) BY <1>5, <1>6 DEF Driver
  <1>q. QED BY <1>1, <1>2, <1>4, <1>6, <1>7, TickMovesSound

(* What a probe makes of a record, in a run that is truthful: a healthy    *)
(* node stays so, and only a node that is done becomes so.                 *)
LEMMA ProbeTells ==
    ASSUME FleetInv, NEW v \in Nodes, tick[v].at = "poll", tick[v].st.direction = "upgrade",
           NEW n \in tick[v].todo, NEW next \in Records, Outcome(v, n, next)
    PROVE  LET rec == tick[v].st.rec[n]
           IN  \/ next = rec
               \/ next = "healthy" /\ n \in Done
               \/ next \in {"failed", "verifying"} /\ rec \in {"directed", "verifying"}
  <1> DEFINE st == tick[v].st
             rec == st.rec[n]
             p == Polled(st, tick[v].alive \union {v}, n)
  <1>0. /\ st \in RunType /\ n \in Nodes /\ Busy(v)
    BY DEF FleetInv, FleetType, TicksFit, TickFits, TickType, Passes, Busy
  <1>1. Live(st.id) /\ st.id \in Ids BY <1>0 DEF Live, Upgrades, RunType
  <1>2. RevertFits(n, st.id) BY <1>0, <1>1 DEF FleetInv, NodePart, Contexts, InContext
  <1>3. rec = "healthy" => Upgraded(n) BY <1>0 DEF FleetInv, RunPart, TicksSound, Truthful, Done
  <1>4. Known(n) BY <1>0, Here DEF FleetInv, NodePart
  <1>5. TargetOf(st) = Target BY DEF TargetOf
  <1>6. SUFFICES ASSUME Serving(n), p # "check", next = p, next # rec
                 PROVE  \/ next = "healthy" /\ n \in Done
                        \/ next \in {"failed", "verifying"} /\ rec \in {"directed", "verifying"}
    BY DEF Outcome
  <1>7. version[n] # 0 BY <1>4, <1>6 DEF Known, ProcessFits, Serving
  <1>8. ~InFlight(n) => version[n] = link[n] /\ link[n] \in verified[n]
    BY <1>4, <1>7 DEF Known, ProcessFits, FilesFit, InFlight, NoMarker
  <1>9. rec = "healthy" => ~InFlight(n) /\ version[n] = Target /\ st.id \notin reverted[n]
    BY <1>2, <1>3, <1>8 DEF Upgraded, RevertFits
  <1>10. ~InFlight(n) /\ version[n] = Target => n \in Done BY <1>0, <1>8 DEF Done, Upgraded
  <1>11. p = next BY <1>6
  <1> HIDE DEF rec
  <1>12. \/ p = "healthy" /\ ~InFlight(n) /\ version[n] = Target
         \/ p \in {"failed", "verifying", "check"} /\ rec \in {"directed", "verifying", "healthy"}
         \/ p = "check"
    BY <1>5 DEF Polled, rec
  <1>13. rec = "healthy" => p \in {"healthy", "check"}
    BY <1>5, <1>9 DEF Polled, rec
  <1> HIDE DEF p
  <1>q. QED BY <1>6, <1>10, <1>11, <1>12, <1>13

(* What is known of a tick in one of its passes.                           *)
LEMMA TickInPass ==
    ASSUME FleetInv, NEW v \in Nodes, tick[v].at \in Passes
    PROVE  /\ TickFits(scene.role, tick[v]) /\ tick[v].st \in RunType /\ Busy(v)
           /\ tick[v].st.phase \in Driven /\ Resends(tick[v])
           /\ scene \in SettingType /\ scene.parallel \in Nat
           /\ \A n \in tick[v].todo : n \in Nodes /\ scene.role[n] = RoleOf(tick[v].st.phase)
           /\ tick[v].st.direction = "upgrade" => Truthful(Done, tick[v].st) /\ Planful(tick[v])
  <1>1. TickFits(scene.role, tick[v]) /\ scene \in SettingType
    BY DEF FleetInv, FleetType, TicksFit, SceneFits
  <1>2. Busy(v) BY DEF Busy, Passes
  <1>3. /\ Resends(tick[v])
        /\ tick[v].st.direction = "upgrade" => Truthful(Done, tick[v].st) /\ Planful(tick[v])
    BY <1>2 DEF FleetInv, RunPart, TicksSound
  <1>4. scene.parallel \in Nat BY <1>1 DEF SettingType
  <1>5. /\ tick[v].st \in RunType /\ tick[v].st.phase \in Driven
        /\ \A n \in tick[v].todo : n \in Nodes /\ scene.role[n] = RoleOf(tick[v].st.phase)
    BY <1>1 DEF TickFits, GroupOf, Passes
  <1>q. QED BY <1>1, <1>2, <1>3, <1>4, <1>5

(* The probes of a tick keep the invariant.                                *)
LEMMA PollSound ==
    ASSUME FleetInv, NEW v \in Nodes, Poll(v)
    PROVE  FleetInv'
  <1>0. FleetType BY DEF FleetInv
  <1>1. FleetType' /\ UNCHANGED nodeVars /\ tick[v].at = "poll" BY <1>0, PollFits
  <1>2. PICK n \in tick[v].todo, next \in Records :
            /\ n \in Nodes
            /\ Outcome(v, n, next)
            /\ TickMoves(v, AfterPoll(v, AskedOf(tick[v], n, next)))
    BY <1>0, PollFits
  <1> DEFINE t == tick[v]
             a == AskedOf(t, n, next)
             u == AfterPoll(v, a)
  <1>3. SameCluster BY <1>2 DEF TickMoves
  <1>4. /\ (\A id \in Ids : Live(id)' => Live(id)) => NodePart' /\ StaysDone
        /\ Done' = Done
    BY <1>1, <1>3, QuietStep
  <1>5. /\ TickFits(scene.role, t) /\ t.st \in RunType /\ Busy(v) /\ t.st.phase \in Driven
        /\ scene \in SettingType /\ scene.parallel \in Nat /\ scene.role[n] = RoleOf(t.st.phase)
        /\ t.st.direction = "upgrade" => Truthful(Done, t.st) /\ Planful(t)
    BY <1>1, TickInPass DEF Passes
  <1>6. Turning(scene.role, a) /\ a.at = "poll" /\ Rewritten(t.st, a.st, n, next)
    BY <1>1, <1>2, <1>5, AskedOfFits DEF Passes
  <1> HIDE DEF a
  <1>7. Resends(a) BY <1>6 DEF Resends
  <1>8. SameRun(a, u) /\ Resends(u) BY <1>6, <1>7, AfterPollGoesOn
  <1>9. a.st.direction = t.st.direction /\ a.st.id = t.st.id BY <1>6 DEF Rewritten
  <1>10. ASSUME t.st.direction = "upgrade" PROVE Planful(a) /\ Truthful(Done, a.st)
    <2>1. LET rec == t.st.rec[n]
          IN  \/ next = rec
              \/ next = "healthy" /\ n \in Done
              \/ next \in {"failed", "verifying"} /\ rec \in {"directed", "verifying"}
      BY <1>1, <1>2, <1>10, ProbeTells
    <2>2. InPlan(scene.role, scene.parallel, t.st) BY <1>5, <1>10 DEF Planful
    <2>3. \/ next \in {t.st.rec[n], "healthy"}
          \/ n \in Front(scene.role, scene.parallel, t.st, scene.role[n]) /\ next # "healthy"
      BY <1>2, <2>1, <2>2 DEF InPlan, Unsettled
    <2>4. InPlan(scene.role, scene.parallel, a.st)
      BY <1>2, <1>5, <1>6, <2>2, <2>3, RewrittenInPlan
    <2>5. \A m \in Nodes : a.st.rec[m] = IF m = n THEN next ELSE t.st.rec[m]
      BY <1>5, <1>6 DEF Rewritten, RunType
    <2>6. Truthful(Done, a.st) BY <1>2, <1>5, <1>10, <2>1, <2>5 DEF Truthful
    <2>q. QED BY <1>6, <2>4, <2>6 DEF Planful, Tells
  <1>11. t.st.direction = "upgrade" => Planful(u) BY <1>5, <1>6, <1>10, AfterPollInPlan
  <1> HIDE DEF u
  <1>12. StaysDone /\ u.st.direction = "upgrade" => Good(u.st) /\ Tells(scene.role, scene.parallel, u)
    BY <1>4, <1>8, <1>9, <1>10, <1>11, PassesSound
  <1>13. Driver(u.st) BY <1>5, <1>8, <1>9 DEF Driver, Agree, SameRun
  <1>14. TickMoves(v, u) BY <1>2 DEF u, a
  <1>q. QED BY <1>1, <1>4, <1>8, <1>12, <1>13, <1>14, TickMovesSound

(* What a directive and its answer do to a tick keeps the invariant.       *)
LEMMA HearingSound ==
    ASSUME FleetInv, FleetType', NEW v \in Nodes, tick[v].at \in {"direct", "await"},
           NEW n \in tick[v].todo, NEW u, Hearing(v, n, u), TickMoves(v, u), Done' = Done,
           (\A id \in Ids : Live(id)' => Live(id)) => NodePart' /\ StaysDone
    PROVE  FleetInv'
  <1> DEFINE t == tick[v]
             here == Front(scene.role, scene.parallel, t.st, RoleOf(t.st.phase))
  <1>1. /\ TickFits(scene.role, t) /\ t.st \in RunType /\ Busy(v) /\ t.st.phase \in Driven
        /\ scene \in SettingType /\ scene.parallel \in Nat /\ scene.role[n] = RoleOf(t.st.phase)
        /\ t.st.direction = "upgrade" => Truthful(Done, t.st) /\ Planful(t)
        /\ t.at \in Passes /\ n \in Nodes
    BY TickInPass DEF Passes
  <1>2. t.st.direction = "upgrade" => t.todo \subseteq here BY <1>1 DEF Planful, Tells
  <1>3. ASSUME NEW a, u = AfterDirect(a), Turning(scene.role, a), a.at \in {"direct", "await"},
               a.st.id = t.st.id, a.st.direction = t.st.direction,
               t.st.direction = "upgrade" => Planful(a) /\ Truthful(Done, a.st)
        PROVE  FleetInv'
    <2>1. Resends(a) BY <1>3 DEF Resends
    <2>2. SameRun(a, u) /\ Resends(u) BY <1>3, <2>1, AfterDirectGoesOn
    <2>3. t.st.direction = "upgrade" => Planful(u) BY <1>3, AfterDirectInPlan
    <2>4. StaysDone /\ u.st.direction = "upgrade" => Good(u.st) /\ Tells(scene.role, scene.parallel, u)
      BY <1>3, <2>2, <2>3, PassesSound
    <2>5. Driver(u.st) BY <1>1, <1>3, <2>2 DEF Driver, Agree, SameRun
    <2>q. QED BY <2>2, <2>4, <2>5, TickMovesSound
  <1>4. ASSUME NEW rec \in {"directed", "pending", "failed"}, NEW retry \in BOOLEAN,
               NEW rest \in SUBSET t.todo,
               u = AfterDirect(ToldTo(t, n, rec, retry, rest))
        PROVE  FleetInv'
    <2> DEFINE a == ToldTo(t, n, rec, retry, rest)
    <2>0. rec \in Records /\ rec # "healthy" BY DEF Records
    <2>1. Turning(scene.role, a) /\ a.at = "direct" /\ a.todo = rest /\ Rewritten(t.st, a.st, n, rec)
      BY <1>1, <2>0, ToldToFits
    <2>2. u = AfterDirect(a) BY <1>4
    <2> HIDE DEF a
    <2>3. a.st.id = t.st.id /\ a.st.direction = t.st.direction /\ a.st.phase = t.st.phase
      BY <2>1 DEF Rewritten
    <2>4. ASSUME t.st.direction = "upgrade" PROVE Planful(a) /\ Truthful(Done, a.st)
      <3>1. InPlan(scene.role, scene.parallel, t.st) BY <1>1, <2>4 DEF Planful
      <3>2. n \in Front(scene.role, scene.parallel, t.st, scene.role[n]) BY <1>1, <1>2, <2>4
      <3>3. InPlan(scene.role, scene.parallel, a.st)
        BY <1>1, <2>0, <2>1, <3>1, <3>2, RewrittenInPlan
      <3>4. Front(scene.role, scene.parallel, a.st, RoleOf(a.st.phase)) = here
        BY <1>1, <2>0, <2>1, <2>3, <3>2, FrontStays
      <3>5. \A m \in Nodes : a.st.rec[m] = IF m = n THEN rec ELSE t.st.rec[m]
        BY <1>1, <2>1 DEF Rewritten, RunType
      <3>6. Truthful(Done, a.st) BY <1>1, <2>0, <2>4, <3>5 DEF Truthful
      <3>q. QED BY <1>2, <2>1, <2>4, <3>3, <3>4, <3>6 DEF Planful, Tells
    <2>q. QED BY <1>3, <2>1, <2>2, <2>3, <2>4
  <1>5. CASE u = AfterDirect([tick[v] EXCEPT !.todo = @ \ {n}])
    <2> DEFINE a == [t EXCEPT !.todo = @ \ {n}]
    <2>1. Turning(scene.role, a) /\ a.at = t.at /\ a.todo = t.todo \ {n} /\ a.st = t.st
      BY <1>1, OneLessFits
    <2>2. u = AfterDirect(a) BY <1>5
    <2> HIDE DEF a
    <2>3. t.st.direction = "upgrade" => Planful(a) /\ Truthful(Done, a.st)
      BY <1>1, <1>2, <2>1 DEF Planful, Tells
    <2>q. QED BY <1>3, <2>1, <2>2, <2>3
  <1>6. CASE \/ u = [tick[v] EXCEPT !.at = "await"]
             \/ u = [tick[v] EXCEPT !.at = "await", !.answer = "transient"]
    <2>1. u.at = "await" /\ u.st = t.st /\ u.todo = t.todo BY <1>1, <1>6 DEF TickFits, TickType
    <2>2. Resends(u) BY <2>1 DEF Resends
    <2>3. u.st.direction = "upgrade" => Good(u.st) /\ Tells(scene.role, scene.parallel, u)
      BY <1>1, <1>2, <2>1 DEF Good, Tells, Planful
    <2>4. Driver(u.st) BY <1>1, <2>1 DEF Driver, Agree
    <2>q. QED BY <2>2, <2>3, <2>4, TickMovesSound
  <1>q. QED BY <1>4, <1>5, <1>6 DEF Hearing

(* A directive that is taken keeps what is known of the nodes.             *)
LEMMA DirectingStep ==
    ASSUME FleetInv, SameCluster, NEW v \in Nodes, NEW n, Directing(v, n)
    PROVE  /\ (\A id \in Ids : Live(id)' => Live(id)) => NodePart' /\ StaysDone
           /\ Done' = Done
  <1>1. Done' = Done BY DirectingBegins
  <1>2. (\A id \in Ids : Live(id)' => Live(id)) => NodePart' BY RollbackKeeps, UpgradeKeeps
  <1>q. QED BY <1>1, <1>2 DEF StaysDone

(* Directing keeps the invariant.                                          *)
LEMMA DirectSound ==
    ASSUME FleetInv, NEW v \in Nodes, Direct(v)
    PROVE  FleetInv'
  <1>0. FleetType BY DEF FleetInv
  <1>1. FleetType' /\ tick[v].at = "direct" BY <1>0, DirectFits
  <1>2. PICK n \in tick[v].todo :
            /\ n \in Nodes
            /\ \E u : Hearing(v, n, u) /\ TickMoves(v, u)
            /\ \/ UNCHANGED nodeVars
               \/ BeginPreparing(n, DirectiveId(tick[v].st), TargetOf(tick[v].st))
    BY <1>0, DirectFits
  <1>3. PICK u : Hearing(v, n, u) /\ TickMoves(v, u) BY <1>2
  <1>4. SameCluster BY <1>3 DEF TickMoves
  <1>5. /\ (\A id \in Ids : Live(id)' => Live(id)) => NodePart' /\ StaysDone
        /\ Done' = Done
    <2>1. CASE UNCHANGED nodeVars BY <1>4, <2>1, QuietStep
    <2>2. CASE BeginPreparing(n, DirectiveId(tick[v].st), TargetOf(tick[v].st))
      <3>1. Directing(v, n) BY <1>1, <1>2, <2>2 DEF Directing
      <3>q. QED BY <1>4, <3>1, DirectingStep
    <2>q. QED BY <1>2, <2>1, <2>2
  <1>q. QED BY <1>1, <1>3, <1>5, HearingSound

(* Awaiting an answer keeps the invariant.                                 *)
LEMMA AwaitSound ==
    ASSUME FleetInv, NEW v \in Nodes, Await(v)
    PROVE  FleetInv'
  <1>0. FleetType BY DEF FleetInv
  <1>1. FleetType' /\ UNCHANGED nodeVars /\ tick[v].at = "await" BY <1>0, AwaitFits
  <1>2. PICK n \in tick[v].todo : \E u : Hearing(v, n, u) /\ TickMoves(v, u) BY <1>0, AwaitFits
  <1>3. PICK u : Hearing(v, n, u) /\ TickMoves(v, u) BY <1>2
  <1>4. SameCluster BY <1>3 DEF TickMoves
  <1>5. /\ (\A id \in Ids : Live(id)' => Live(id)) => NodePart' /\ StaysDone
        /\ Done' = Done
    BY <1>1, <1>4, QuietStep
  <1>q. QED BY <1>1, <1>3, <1>5, HearingSound

(* Sending again keeps the invariant.                                      *)
LEMMA ResendSound ==
    ASSUME FleetInv, NEW v \in Nodes, Resend(v)
    PROVE  FleetInv'
  <1>0. FleetType BY DEF FleetInv
  <1>1. FleetType' /\ tick[v].at = "resend" BY <1>0, ResendFits
  <1>2. PICK n \in tick[v].todo :
            /\ n \in Nodes
            /\ TickMoves(v, AfterResend([tick[v] EXCEPT !.todo = @ \ {n}]))
            /\ \/ UNCHANGED nodeVars
               \/ BeginPreparing(n, tick[v].st.id, TargetOf(tick[v].st))
    BY <1>0, ResendFits
  <1> DEFINE t == tick[v]
             a == [t EXCEPT !.todo = @ \ {n}]
             u == AfterResend(a)
  <1>3. SameCluster BY <1>2 DEF TickMoves
  <1>4. /\ TickFits(scene.role, t) /\ t.st \in RunType /\ Busy(v) /\ t.st.phase \in Driven
        /\ Resends(t) /\ t.at \in Passes
        /\ t.st.direction = "upgrade" => Truthful(Done, t.st) /\ Planful(t)
    BY <1>1, TickInPass DEF Passes
  <1>5. t.st.direction = "upgrade" BY <1>1, <1>4 DEF Resends
  <1>6. /\ (\A id \in Ids : Live(id)' => Live(id)) => NodePart' /\ StaysDone
        /\ Done' = Done
    <2>1. CASE UNCHANGED nodeVars BY <1>3, <2>1, QuietStep
    <2>2. CASE BeginPreparing(n, t.st.id, TargetOf(t.st))
      <3>1. Directing(v, n) BY <1>1, <1>2, <1>5, <2>2 DEF Directing, DirectiveId
      <3>q. QED BY <1>3, <3>1, DirectingStep
    <2>q. QED BY <1>2, <2>1, <2>2
  <1>7. Turning(scene.role, a) /\ a.at = t.at /\ a.todo = t.todo \ {n} /\ a.st = t.st
    BY <1>4, OneLessFits
  <1> HIDE DEF a
  <1>8. Planful(a) /\ Truthful(Done, a.st) /\ Resends(a)
    BY <1>4, <1>5, <1>7 DEF Planful, Tells, Resends
  <1>9. SameRun(a, u) /\ Resends(u) BY <1>7, <1>8, AfterResendGoesOn
  <1>10. Planful(u) BY <1>7, <1>8, AfterResendInPlan
  <1> HIDE DEF u
  <1>11. StaysDone /\ u.st.direction = "upgrade" => Good(u.st) /\ Tells(scene.role, scene.parallel, u)
    BY <1>6, <1>8, <1>9, <1>10, PassesSound
  <1>12. Driver(u.st) BY <1>4, <1>7, <1>9 DEF Driver, Agree, SameRun
  <1>13. TickMoves(v, u) BY <1>2 DEF u, a
  <1>q. QED BY <1>1, <1>6, <1>9, <1>11, <1>12, <1>13, TickMovesSound

(* A tick's write, or the end of a run, keeps the invariant.               *)
LEMMA HandsBack ==
    ASSUME FleetInv, FleetType', SameCluster, UNCHANGED nodeVars,
           \A w \in Nodes : tick'[w] = tick[w] \/ tick'[w] = NoTick,
           \/ run' = run \/ run' = NoRun
           \/ \E v \in Nodes : Busy(v) /\ run' = tick[v].st
           \/ /\ run # NoRun /\ Agree(run', run) /\ run'.rec = run.rec
              /\ run'.phase \in {"aborted", "superseded"}
    PROVE  FleetInv'
  <1>1. ASSUME NEW w \in Nodes, tick'[w].at # "none" PROVE tick'[w] = tick[w] /\ Busy(w)
    BY <1>1 DEF NoTick, Busy
  <1>2. Carries BY <1>1 DEF Carries, Driver, Agree
  <1>3. \A id \in Ids : Live(id)' => Live(id) BY <1>2, CarriesKeeps
  <1>4. NodePart' /\ StaysDone BY <1>3, QuietStep
  <1>5. ASSUME run'.direction = "upgrade" PROVE Good(run')
    <2>1. CASE run' = run BY <1>4, <1>5, <2>1, OldRunsStaySound
    <2>2. CASE run' = NoRun BY <1>5, <2>2 DEF NoRun
    <2>3. CASE \E v \in Nodes : Busy(v) /\ run' = tick[v].st BY <1>4, <1>5, <2>3, OldRunsStaySound
    <2>4. CASE /\ Agree(run', run) /\ run'.rec = run.rec
               /\ run'.phase \in {"aborted", "superseded"}
      <3>1. Good(run) BY <1>4, <1>5, <2>4, OldRunsStaySound DEF Agree
      <3>2. \A r : Open(scene.role, run', r) = Open(scene.role, run, r) BY <2>4 DEF Open
      <3>3. Passed(run'.phase) = {} BY <2>4 DEF Passed
      <3>q. QED BY <2>4, <3>1, <3>2, <3>3 DEF Good, Truthful, InPlan, Front
    <2>q. QED BY <2>1, <2>2, <2>3, <2>4
  <1>6. RunPart' BY <1>1, <1>2, <1>4, <1>5, OldRunsStaySound, RunPartFrom
  <1>q. QED BY <1>4, <1>6 DEF FleetInv

(* The write at the end of a tick keeps the invariant.                     *)
LEMMA WriteRunSound ==
    ASSUME FleetInv, NEW v \in Nodes, WriteRun(v)
    PROVE  FleetInv'
  <1>0. FleetType /\ tick \in [Nodes -> TickType] BY DEF FleetInv, FleetType, TicksFit
  <1>1. /\ FleetType' /\ UNCHANGED nodeVars /\ SameCluster
        /\ tick' = [tick EXCEPT ![v] = NoTick]
        /\ tick[v].at = "write" /\ (run' = run \/ run' = tick[v].st)
    BY <1>0, WriteRunFits
  <1>2. Busy(v) BY <1>1 DEF Busy
  <1>3. \A w \in Nodes : tick'[w] = tick[w] \/ tick'[w] = NoTick BY <1>0, <1>1
  <1>q. QED BY <1>1, <1>2, <1>3, HandsBack

(* Elections, depositions and the archiving of a run keep the invariant.   *)
LEMMA CouncilSound ==
    ASSUME FleetInv, (\E v \in Voters : Elect(v)) \/ Depose \/ ClearEnded
    PROVE  FleetInv'
  <1>1. FleetType BY DEF FleetInv
  <1>2. /\ FleetType' /\ UNCHANGED <<nodeVars, tick>> /\ SameCluster
        /\ (run' = run \/ run' = NoRun)
    BY <1>1, CouncilFits
  <1>q. QED BY <1>2, HandsBack

(* An operator who ends a run keeps the invariant.                         *)
LEMMA EndsSound ==
    ASSUME FleetInv, Abort \/ Supersede
    PROVE  FleetInv'
  <1>1. FleetType BY DEF FleetInv
  <1>2. FleetType' /\ UNCHANGED <<nodeVars, tick>> /\ SameCluster
    BY <1>1, OperatorFits DEF Operator
  <1>3. run # NoRun BY DEF Abort, Supersede, NoRun
  <1>4. run \in RunType BY <1>1, <1>3 DEF FleetType, RunFits
  <1>5. run' = [run EXCEPT !.phase = "aborted"] \/ run' = [run EXCEPT !.phase = "superseded"]
    BY DEF Abort, Supersede
  <1>6. /\ Agree(run', run) /\ run'.rec = run.rec
        /\ run'.phase \in {"aborted", "superseded"}
    BY <1>4, <1>5 DEF RunType, Agree
  <1>q. QED BY <1>2, <1>3, <1>6, HandsBack

(* Every node is at rest: no swap is under way or being prepared.          *)
AtRest == \A n \in Nodes : ~InFlight(n) /\ ~Preparing(n)

(* The operator starts an upgrade from scratch only when no node is still  *)
(* busy with an earlier run.                                               *)
QuietStarts == [][StartUpgrade => AtRest]_vars

(* A run the operator asks for gets an id no node has seen.                *)
LEMMA RunsStart ==
    ASSUME FleetInv, StartUpgrade \/ StartRollback \/ Resume
    PROVE  /\ FleetType' /\ UNCHANGED <<nodeVars, tick>> /\ SameCluster
           /\ \A v \in Nodes : ~Busy(v)
           /\ FreshId \in Ids /\ FreshId < FreshId'
           /\ \A n \in Nodes : ~Touches(n, FreshId)
           /\ Heads' /\ Bounded' /\ NodesFresh' /\ NodeInv' /\ Done' = Done
           /\ \A id \in Ids : InContext(id) => InContext(id)'
  <1>1. FleetType /\ SceneFits /\ NodeInv /\ Heads /\ NodesFresh BY DEF FleetInv, FleetType, NodePart
  <1>2. /\ FleetType' /\ UNCHANGED <<nodeVars, tick>> /\ SameCluster
        /\ \A v \in Nodes : tick[v] = NoTick
    BY <1>1, OperatorFits DEF Operator
  <1>3. Spend("runs") BY DEF StartUpgrade, StartRollback, Resume, Asked
  <1>4. FreshId \in Ids BY <1>1, <1>3, FreshIdIsId DEF Spend
  <1>5. FreshId < FreshId'
    <2>1. scene.left \in [Bounds -> Nat] /\ scene'.left["runs"] = scene.left["runs"] - 1
      BY <1>1, <1>3 DEF SceneFits, SettingType, Spend, Bounds
    <2>2. Cardinality(Ids) \in Nat BY FleetConstants, FS_CardinalityType
    <2>q. QED BY <2>1, <2>2 DEF FreshId, Bounds
  <1>6. ASSUME NEW n \in Nodes PROVE ~Touches(n, FreshId)
    <2>1. FreshId \in Nat BY <1>4, NodeConstants
    <2>2. ~(FreshId < FreshId) BY <2>1
    <2>q. QED BY <1>1, <1>4, <2>2 DEF NodesFresh
  <1>7. NodeInv' /\ \A k \in Nodes : Steady(k) BY <1>1, <1>2, StutterIsSteady DEF Heads
  <1>8. /\ Heads' /\ Bounded' /\ NodesFresh'
        /\ \A id \in Ids : InContext(id) => InContext(id)' /\ Done \subseteq Done'
    BY <1>2, <1>7, SteadyKeepsNodes
  <1>9. Done' = Done BY <1>2 DEF Done, Upgraded, InFlight, nodeVars
  <1>q. QED BY <1>2, <1>4, <1>5, <1>6, <1>7, <1>8, <1>9 DEF NoTick, Busy

(* What is left to show of a run the operator asks for.                    *)
LEMMA StartsSound ==
    ASSUME FleetInv, StartUpgrade \/ StartRollback \/ Resume,
           NEW id \in Ids, id = FreshId, run'.id = id,
           run'.direction = "upgrade" => InContext(id)' /\ Good(run')
    PROVE  FleetInv'
  <1>1. /\ FleetType' /\ UNCHANGED <<nodeVars, tick>> /\ SameCluster
        /\ \A v \in Nodes : ~Busy(v)
        /\ FreshId < FreshId'
        /\ Heads' /\ Bounded' /\ NodesFresh' /\ NodeInv' /\ Done' = Done
    BY RunsStart
  <1>2. \A v \in Nodes : ~Busy(v)' BY <1>1 DEF Busy
  <1>3. ASSUME NEW d \in Ids, Live(d)' PROVE InContext(d)'
    <2>1. Upgrades(run', d) BY <1>2, <1>3 DEF Live, Upgrades
    <2>2. d = id BY <2>1 DEF Upgrades
    <2>q. QED BY <2>1, <2>2 DEF Upgrades
  <1>4. Contexts' BY <1>3 DEF Contexts
  <1>5. NodePart' BY <1>1, <1>4 DEF NodePart
  <1>6. Coherent' /\ TicksSound' BY <1>2 DEF Coherent, TicksSound
  <1>7. RunsFresh' BY <1>1, <1>2 DEF RunsFresh
  <1>8. RunSound' BY <1>1 DEF RunSound, Good, SameCluster
  <1>q. QED BY <1>1, <1>5, <1>6, <1>7, <1>8 DEF FleetInv, RunPart

(* A new upgrade finds the nodes at rest.                                  *)
LEMMA StartUpgradeSound ==
    ASSUME FleetInv, StartUpgrade, AtRest
    PROVE  FleetInv'
  <1>1. /\ FreshId \in Ids /\ UNCHANGED <<nodeVars, tick>> /\ \A n \in Nodes : ~Touches(n, FreshId)
    BY RunsStart
  <1>2. PICK id \in Ids : id = FreshId BY <1>1
  <1>3. run' = Planned(id, "upgrade") BY <1>2 DEF StartUpgrade, UpgradeUpdate
  <1>4. /\ run'.id = id /\ run'.phase = "preparing"
        /\ \A n \in Nodes : run'.rec[n] = "pending"
    BY <1>3 DEF Planned
  <1>5. InContext(id)'
    <2>1. ASSUME NEW n \in Nodes
          PROVE  ~Downward(n)' /\ ~Upward(n)' /\ id \notin reverted'[n]
      <3>1. marker'[n] = NoMarker /\ ~Preparing(n)'
        BY <1>1 DEF AtRest, InFlight, Preparing, nodeVars
      <3>2. id \notin reverted'[n] BY <1>1, <1>2 DEF Touches, nodeVars
      <3>q. QED BY <3>1, <3>2 DEF Downward, Upward, NoMarker
    <2>q. QED BY <2>1 DEF InContext, RevertFits
  <1>6. Good(run') BY <1>4 DEF Good, Truthful, InPlan, Unsettled, Passed
  <1>q. QED BY <1>2, <1>4, <1>5, <1>6, StartsSound

(* A rollback drives no upgrade.                                           *)
LEMMA StartRollbackSound ==
    ASSUME FleetInv, StartRollback
    PROVE  FleetInv'
  <1>1. FreshId \in Ids BY RunsStart
  <1>2. PICK id \in Ids : id = FreshId BY <1>1
  <1>3. run' = Planned(id, "rollback") BY <1>2 DEF StartRollback, UpgradeUpdate
  <1>4. run'.id = id /\ run'.direction = "rollback" BY <1>3 DEF Planned
  <1>q. QED BY <1>2, <1>4, StartsSound

(* A run that is taken up again keeps its order, under a new id.           *)
LEMMA ResumeSound ==
    ASSUME FleetInv, Resume
    PROVE  FleetInv'
  <1>0. FleetType /\ RunSound /\ Contexts /\ SceneFits
    BY DEF FleetInv, RunPart, NodePart, FleetType
  <1>1. /\ FreshId \in Ids /\ UNCHANGED <<nodeVars, tick>> /\ Done' = Done
        /\ \A n \in Nodes : ~Touches(n, FreshId)
        /\ \A d \in Ids : InContext(d) => InContext(d)'
    BY RunsStart
  <1>2. PICK id \in Ids : id = FreshId BY <1>1
  <1>3. run' = Resumed(run, id) BY <1>2 DEF Resume, UpgradeUpdate
  <1>4. run # NoRun BY DEF Resume, NoRun
  <1>5. run \in RunType BY <1>0, <1>4 DEF FleetType, RunFits
  <1> DEFINE z == Resumed(run, id)
  <1>6. /\ z.id = id /\ z.direction = run.direction
        /\ \A n \in Nodes : z.rec[n] = IF run.rec[n] = "failed" THEN "pending" ELSE run.rec[n]
        /\ \/ z.phase = "workers"
           \/ z.phase = "council" /\ \A n \in Members : Role(n) = "worker" => z.rec[n] = "healthy"
           \/ /\ z.phase = "transferring"
              /\ \A n \in Members : Role(n) \in {"worker", "council"} => z.rec[n] = "healthy"
    BY DEF Resumed
  <1> HIDE DEF z
  <1>7. ASSUME run.direction = "upgrade" PROVE InContext(id)' /\ Good(z)
    <2>1. PICK d \in Ids : d = run.id BY <1>5 DEF RunType
    <2>2. InContext(d)' BY <1>0, <1>1, <1>7, <2>1 DEF Contexts, Live, Upgrades
    <2>3. \A n \in Nodes : id \notin reverted'[n] BY <1>1, <1>2 DEF Touches, nodeVars
    <2>4. InContext(id)' BY <2>2, <2>3 DEF InContext, RevertFits
    <2>5. Truthful(Done, run) /\ InPlan(scene.role, scene.parallel, run) BY <1>0, <1>7 DEF RunSound
    <2>6. \A n \in Nodes : z.rec[n] = "healthy" <=> run.rec[n] = "healthy" BY <1>6
    <2>7. \A r : Open(scene.role, z, r) = Open(scene.role, run, r) BY <2>6 DEF Open
    <2>8. ASSUME NEW n \in Nodes, scene.role[n] \in Passed(z.phase) PROVE z.rec[n] = "healthy"
      <3>1. n \in Members BY <2>8 DEF Members, Passed
      <3>q. QED BY <1>6, <2>8, <3>1 DEF Passed, Role
    <2>9. InPlan(scene.role, scene.parallel, z)
      <3>1. ASSUME NEW n \in Nodes
            PROVE  /\ z.rec[n] \in Unsettled => n \in Front(scene.role, scene.parallel, z, scene.role[n])
                   /\ z.rec[n] # "pending" =>
                          \A m \in Nodes : scene.role[m] \in Earlier(scene.role[n]) => z.rec[m] = "healthy"
        <4>1. z.rec[n] # "pending" => run.rec[n] = z.rec[n] BY <1>6
        <4>q. QED BY <2>5, <2>6, <2>7, <4>1 DEF InPlan, Front, Unsettled
      <3>q. QED BY <2>8, <3>1 DEF InPlan
    <2>10. Good(z) BY <1>1, <2>5, <2>6, <2>9 DEF Good, Truthful
    <2>q. QED BY <2>4, <2>10
  <1>8. run' = z BY <1>3 DEF z
  <1>9. run'.direction = "upgrade" => InContext(id)' /\ Good(run') BY <1>6, <1>7, <1>8
  <1>q. QED BY <1>2, <1>6, <1>8, <1>9, StartsSound

(* Every step keeps the invariant.                                         *)
LEMMA FleetInvStep ==
    ASSUME FleetInv, Next, StartUpgrade => AtRest
    PROVE  FleetInv'
  <1>1. ASSUME NEW n \in Members, NodeNext(n) PROVE FleetInv'
    BY <1>1, NodeNextSound DEF Members
  <1>2. ASSUME NEW v \in Voters, TickNext(v) PROVE FleetInv'
    <2>1. v \in Nodes BY DEF Voters
    <2>q. QED BY <1>2, <2>1, BeginTickSound, PollSound, DirectSound, AwaitSound, ResendSound,
              WriteRunSound DEF TickNext
  <1>3. CASE (\E v \in Voters : Elect(v)) \/ Depose \/ ClearEnded BY <1>3, CouncilSound
  <1>4. CASE StartUpgrade BY <1>4, StartUpgradeSound
  <1>5. CASE StartRollback BY <1>5, StartRollbackSound
  <1>6. CASE Resume BY <1>6, ResumeSound
  <1>7. CASE Abort \/ Supersede BY <1>7, EndsSound
  <1>q. QED BY <1>1, <1>2, <1>3, <1>4, <1>5, <1>6, <1>7 DEF Next

(* A step that changes nothing keeps the invariant.                        *)
LEMMA FleetInvStutter == FleetInv /\ UNCHANGED vars => FleetInv'
  <1>1. SUFFICES ASSUME FleetInv, UNCHANGED vars PROVE FleetInv'
    OBVIOUS
  <1>2. FleetType' /\ UNCHANGED nodeVars BY <1>1, FleetStutterKeeps DEF FleetInv
  <1>3. UNCHANGED <<run, tick, scene>> BY <1>1 DEF vars, fleetVars
  <1>4. SameCluster BY <1>1, <1>3, SameSceneKeeps DEF FleetInv, FleetType
  <1>q. QED BY <1>1, <1>2, <1>3, <1>4, HandsBack

(* The invariant holds at first.                                           *)
LEMMA FleetInvInit == Init => FleetInv
  <1>1. SUFFICES ASSUME Init PROVE FleetInv
    OBVIOUS
  <1>2. FleetType /\ NodeInit /\ NodeInv BY <1>1, FleetInitHolds, NodeInitHolds
  <1>3. run = NoRun /\ \A v \in Nodes : ~Busy(v) BY <1>1 DEF Init, Busy, NoTick
  <1>4. ASSUME NEW n \in Nodes
        PROVE  /\ marker[n] = NoMarker /\ ~Preparing(n) /\ reverted[n] = {}
               /\ HeadsForTarget(n) /\ ~Upward(n) /\ \A id \in Ids : ~Touches(n, id)
    <2>1. marker[n] = NoMarker /\ ~Preparing(n) /\ reverted[n] = {}
      BY <1>2 DEF NodeInit, Preparing
    <2>2. \A id \in Ids : id # 0 BY NodeConstants
    <2>q. QED BY <2>1, <2>2 DEF HeadsForTarget, Upward, Touches, NoMarker
  <1>5. Contexts BY <1>3 DEF Contexts, Live, Upgrades, NoRun
  <1>6. Bounded
    <2>1. Cardinality({}) = 0 BY FS_EmptySet
    <2>2. scene.parallel \in Nat BY <1>2 DEF FleetType, SceneFits, SettingType
    <2>3. \A id \in Ids : {n \in Nodes : Touches(n, id)} = {} BY <1>4
    <2>4. {v \in Voters : Upward(v)} = {} BY <1>4 DEF Voters
    <2>q. QED BY <2>1, <2>2, <2>3, <2>4 DEF Bounded
  <1>7. NodePart BY <1>2, <1>4, <1>5, <1>6 DEF NodePart, Heads, NodesFresh
  <1>8. Coherent /\ TicksSound /\ RunSound BY <1>3 DEF Coherent, TicksSound, RunSound, NoRun
  <1>9. RunsFresh
    <2>1. FreshId \in Nat \ {0}
      <3>1. Cardinality(Ids) \in Nat BY FleetConstants, FS_CardinalityType
      <3>2. scene.left["runs"] \in Nat /\ scene.left["runs"] <= Cardinality(Ids)
        BY <1>2 DEF FleetType, SceneFits, SettingType, Bounds
      <3>q. QED BY <3>1, <3>2 DEF FreshId
    <2>q. QED BY <1>3, <2>1 DEF RunsFresh, NoRun
  <1>q. QED BY <1>2, <1>7, <1>8, <1>9 DEF FleetInv, RunPart

(* What the invariant says of a cluster.                                   *)
LEMMA FleetInvImplies == FleetInv => HealthyIsSettled /\ OneBatchReverts /\ OneVoterSwaps
  <1>1. SUFFICES ASSUME FleetInv PROVE HealthyIsSettled /\ OneBatchReverts /\ OneVoterSwaps
    OBVIOUS
  <1>2. Bounded /\ RunSound /\ scene \in SettingType
    BY <1>1 DEF FleetInv, NodePart, RunPart, FleetType, SceneFits
  <1>3. HealthyIsSettled BY <1>2 DEF RunSound, Truthful, Done, Upgraded, HealthyIsSettled
  <1>4. ASSUME NEW id \in Ids PROVE Cardinality({n \in Nodes : id \in reverted[n]}) <= scene.parallel
    <2>1. {n \in Nodes : id \in reverted[n]} \in SUBSET {n \in Nodes : Touches(n, id)} BY DEF Touches
    <2>2. Cardinality({n \in Nodes : Touches(n, id)}) <= scene.parallel /\ scene.parallel \in Nat
      BY <1>2 DEF Bounded, SettingType
    <2>q. QED BY <2>1, <2>2, Fewer
  <1>5. OneVoterSwaps
    <2>1. {v \in Voters : OnTrial(v) /\ marker[v].id > 0} \in SUBSET {v \in Voters : Upward(v)}
      BY DEF Upward
    <2>2. {v \in Voters : Upward(v)} \in SUBSET Nodes /\ Cardinality({v \in Voters : Upward(v)}) <= 1
      BY <1>2 DEF Bounded, Voters
    <2>3. Cardinality({v \in Voters : OnTrial(v) /\ marker[v].id > 0}) <= 1 BY <2>1, <2>2, Fewer
    <2>q. QED BY <2>3 DEF OneVoterSwaps
  <1>q. QED BY <1>3, <1>4, <1>5 DEF OneBatchReverts

(* The invariant of a cluster whose upgrades start from rest.              *)
LEMMA FleetInvHolds == Spec /\ QuietStarts => []FleetInv
  <1>1. FleetInv /\ [Next]_vars /\ [StartUpgrade => AtRest]_vars => FleetInv'
    BY FleetInvStep, FleetInvStutter
  <1>q. QED BY <1>1, FleetInvInit, PTL DEF Spec, QuietStarts

(* In every cluster whose operator lets it come to rest before a new       *)
(* upgrade: what the council's run calls healthy has committed and cannot  *)
(* revert any more, whichever leader's tick wrote it and however old its   *)
(* answers are (poll_and_drive_group, UpgradeUpdate).                      *)
THEOREM HealthyIsSettledInFleet == Spec /\ QuietStarts => []HealthyIsSettled
  BY FleetInvHolds, FleetInvImplies, PTL

(* In every such cluster, of any size and batch: no more nodes revert one  *)
(* run than its batch holds, however directives are lost and repeated and  *)
(* leaders replaced (poll_and_drive_group's slots).                        *)
THEOREM OneBatchRevertsInFleet == Spec /\ QuietStarts => []OneBatchReverts
  BY FleetInvHolds, FleetInvImplies, PTL

(* In every such cluster no two voters are on trial at once, so that the   *)
(* council keeps its quorum through a swap (the council's batch of one).   *)
THEOREM OneVoterSwapsInFleet == Spec /\ QuietStarts => []OneVoterSwaps
  BY FleetInvHolds, FleetInvImplies, PTL
=============================================================================
