--------------------------- MODULE RolloutProofs ---------------------------
(***************************************************************************)
(* What Rollout's runs check on small instances, for every set of nodes    *)
(* and versions: an applied placement runs, replacements are earned, and a *)
(* released spec ran everywhere.                                           *)
(***************************************************************************)
EXTENDS Rollout, SequenceTheorems, FiniteSetTheorems, TLAPS

(* What one node's disk and memory say of its instances, in each phase of    *)
(* its loop.  While a deploy runs, and from a crash to the restart, only the *)
(* disk counts.                                                              *)
Owned(n) ==
    /\ phase[n] \in {"idle", "polled"} =>
        /\ entry[n] \in Versions => inst[n] = {entry[n]}
        /\ disk[n] \in Versions => inst[n] = {disk[n]}
        /\ "none" \in {entry[n], disk[n]} => inst[n] = {}
    /\ phase[n] = "deploying" =>
        /\ disk[n] = "pending" /\ answer[n].why # "absent"
        /\ before[n] \in Versions => old[n] = {before[n]}
        /\ answer[n].why = "hold" => old[n] = {}
    /\ phase[n] = "down" =>
        /\ disk[n] \in Versions => inst[n] \in {{}, {disk[n]}}
        /\ disk[n] = "none" => inst[n] = {}

(* Every version the node, its agent or the leader's view of it names as     *)
(* converged is one it came to run.                                          *)
Remembered(n) ==
    {entry[n], disk[n], before[n], conv[n], reports[n].conv} \cap Versions \subseteq ran[n]

(* What an answer promised still holds, for versions are only added to what  *)
(* nodes ran.                                                                *)
Promised(n) ==
    /\ answer[n].why # "absent" => answer[n].ver \in Versions
    /\ answer[n].why = "turn" => \A m \in answer[n].behind : answer[n].ver \in ran[m]
    /\ answer[n].why = "kept" => answer[n].ver \in ran[n]
    /\ answer[n].marked = "yes" => answer[n].why \in {"kept", "hold"}

Marks == failed \in {"none", desired}
Decided == deciding.ver # "none" => \A n \in deciding.nodes : deciding.ver \in ran[n]

IInv ==
    /\ TypeOK /\ Marks /\ Decided
    /\ \A n \in Nodes : Owned(n) /\ Remembered(n) /\ Promised(n)

-----------------------------------------------------------------------------
(* The council's record of targets. *)

(* A part of a sequence of versions is one. *)
LEMMA PartOfTargets ==
    ASSUME NEW s \in Seq(Versions), NEW a \in Nat \ {0}, NEW b \in Nat, b <= Len(s)
    PROVE  SubSeq(s, a, b) \in Seq(Versions)
<1>1. \A i \in a .. b : s[i] \in Versions
  BY ElementOfSeq, LenProperties
<1> QED BY <1>1, SubSeqProperties

(* Releasing a version leaves at most Targets targets, the version last. *)
LEMMA ReleaseTargets ==
    ASSUME TypeOK, NEW v \in Versions
    PROVE  /\ release(v) \in Seq(Versions) /\ Len(release(v)) <= Targets
           /\ release(v) # <<>> /\ release(v)[Len(release(v))] = v
<1>1. released \in Seq(Versions) BY DEF TypeOK
<1>2. Without(v) \in Seq(Versions)
  <2>1. CASE \E i \in 1..Len(released) : released[i] = v
    <3> DEFINE i == CHOOSE i \in 1..Len(released) : released[i] = v
    <3>1. i \in 1..Len(released) BY <2>1
    <3>4. Without(v) = SubSeq(released, 1, i - 1) \o SubSeq(released, i + 1, Len(released))
      BY <2>1 DEF Without
    <3> HIDE DEF i
    <3>5. /\ i - 1 \in Nat /\ i - 1 <= Len(released) /\ i + 1 \in Nat \ {0}
          /\ Len(released) \in Nat
      BY <1>1, <3>1, LenProperties
    <3>2. SubSeq(released, 1, i - 1) \in Seq(Versions)
      BY <1>1, <3>5, PartOfTargets
    <3>3. SubSeq(released, i + 1, Len(released)) \in Seq(Versions)
      BY <1>1, <3>5, PartOfTargets
    <3> QED BY <3>2, <3>3, <3>4, ConcatProperties
  <2>2. CASE ~\E i \in 1..Len(released) : released[i] = v
    BY <2>2, <1>1 DEF Without
  <2> QED BY <2>1, <2>2
<1> DEFINE kept == Append(Without(v), v)
<1>3. kept \in Seq(Versions) /\ Len(kept) \in Nat /\ Len(kept) > 0 /\ kept[Len(kept)] = v
  BY <1>2, AppendProperties, LenProperties
<1>4. CASE Len(kept) > Targets
  <2> DEFINE s == SubSeq(kept, Len(kept) - Targets + 1, Len(kept))
  <2>1. release(v) = s BY <1>4 DEF release
  <2> HIDE DEF kept
  <2>2. s \in Seq(Versions) /\ Len(s) = Targets /\ s[Targets] = kept[Len(kept)]
    BY <1>3, <1>4, TargetsAssumption, SubSeqProperties
  <2> HIDE DEF s
  <2> QED BY <2>1, <2>2, <1>3, TargetsAssumption
<1>5. CASE ~(Len(kept) > Targets)
  <2>1. release(v) = kept BY <1>5 DEF release
  <2> HIDE DEF kept
  <2> QED BY <2>1, <1>3, <1>5, TargetsAssumption
<1> QED BY <1>4, <1>5

LEMMA LastReleasedType ==
    ASSUME TypeOK
    PROVE  last_released \in Maybe
BY DEF TypeOK, last_released, Maybe

-----------------------------------------------------------------------------
(* The plan's promises, from what the reports in hand say. *)
LEMMA PlanPromises ==
    ASSUME IInv, NEW n \in placed
    PROVE  LET a == plan_release(n) IN
           /\ a \in Answers /\ a.ver \in Versions
           /\ a.why = "turn" => \A m \in a.behind : a.ver \in ran[m]
           /\ a.why = "kept" => a.ver \in ran[n]
           /\ a.marked = "yes" => a.why \in {"kept", "hold"}
<1>1. desired \in Versions /\ failed \in Maybe /\ last_released \in Maybe /\ placed \subseteq Nodes
  BY LastReleasedType DEF IInv, TypeOK
<1>2. \A m \in Nodes : Converged(m, desired) => desired \in ran[m]
  BY <1>1 DEF IInv, Remembered, Converged
<1>3. ASSUME NEW v \in Maybe, NEW w \in Reasons
      PROVE  /\ Plan(n, v, w) \in Answers
             /\ Plan(n, v, w).ver = v /\ Plan(n, v, w).why = w
             /\ Plan(n, v, w).behind = {m \in placed : m < n /\ ~Empty(m)}
             /\ Plan(n, v, w).marked = IF v = failed THEN "yes" ELSE "no"
  BY <1>1 DEF Plan, Answers
<1> DEFINE isFailed == failed = desired
           previous == IF last_released = desired THEN "none" ELSE last_released
<1>4. failed \in {"none", desired} BY DEF IInv, Marks
<1>5. "none" \notin Versions BY VersionsAssumption
<1>6. CASE previous = "none" /\ ~isFailed
  <2>1. plan_release(n) = Plan(n, desired, "free") BY <1>6 DEF plan_release
  <2> QED BY <1>1, <1>3, <1>6, <2>1 DEF Maybe, Reasons
<1>7. CASE (previous # "none" \/ isFailed) /\ Converged(n, desired)
  <2>1. plan_release(n) = Plan(n, desired, "kept") BY <1>7 DEF plan_release
  <2> QED BY <1>1, <1>2, <1>3, <2>1, <1>7 DEF Maybe, Reasons
<1>8. CASE previous # "none" /\ ~isFailed /\ ~Converged(n, desired) /\ Empty(n)
  <2>1. plan_release(n) = Plan(n, desired, "first") BY <1>8 DEF plan_release
  <2> QED BY <1>1, <1>3, <1>8, <2>1 DEF Maybe, Reasons
<1>9. CASE /\ previous # "none" \/ isFailed
           /\ ~Converged(n, desired)
           /\ ~(previous # "none" /\ ~isFailed /\ Empty(n))
  <2> DEFINE waits == isFailed \/ \E m \in placed : m < n /\ Waits(m)
  <2>1. plan_release(n) = IF waits
            THEN Plan(n, IF previous = "none" THEN desired ELSE previous, "hold")
            ELSE Plan(n, desired, "turn")
    BY <1>9 DEF plan_release
  <2>2. CASE waits
    BY <1>1, <1>3, <2>1, <2>2 DEF Maybe, Reasons
  <2>3. CASE ~waits
    <3>1. plan_release(n) = Plan(n, desired, "turn") BY <2>1, <2>3
    <3>2. \A m \in placed : m < n /\ ~Empty(m) => desired \in ran[m]
      BY <1>1, <1>2, <2>3 DEF Waits
    <3> QED BY <1>1, <1>3, <2>3, <3>1, <3>2 DEF Maybe, Reasons
  <2> QED BY <2>2, <2>3
<1> QED BY <1>6, <1>7, <1>8, <1>9

-----------------------------------------------------------------------------
(* A step of node n's loop or agent preserves the invariant when what it     *)
(* leaves behind on n does.                                                  *)
LEMMA OneNode ==
    ASSUME IInv, NEW n \in Nodes, TypeOK',
           UNCHANGED <<desired, failed, deciding, reports>>,
           \A m \in Nodes : ran[m] \subseteq ran'[m],
           \A m \in Nodes \ {n} :
               /\ phase'[m] = phase[m] /\ entry'[m] = entry[m] /\ disk'[m] = disk[m]
               /\ answer'[m] = answer[m] /\ before'[m] = before[m] /\ old'[m] = old[m]
               /\ conv'[m] = conv[m] /\ inst'[m] = inst[m],
           Owned(n)', Remembered(n)', Promised(n)'
    PROVE  IInv'
<1>1. Marks' BY DEF IInv, Marks
<1>2. Decided' BY DEF IInv, Decided, TypeOK
<1>3. ASSUME NEW m \in Nodes \ {n} PROVE Owned(m)'
  BY DEF IInv, Owned
<1>4. ASSUME NEW m \in Nodes \ {n} PROVE Remembered(m)'
  BY DEF IInv, Remembered
<1>5. ASSUME NEW m \in Nodes \ {n} PROVE Promised(m)'
  BY DEF IInv, Promised, TypeOK, Answers
<1> QED BY <1>1, <1>2, <1>3, <1>4, <1>5 DEF IInv

(* The end of a cycle: what the entry and the disk say must be so. *)
LEMMA CycleEnds ==
    ASSUME IInv, NEW n \in Nodes, NEW e \in Entries, NEW d \in Entries, EndCycle(n, e, d),
           UNCHANGED <<council, placed, reports, deciding>>,
           posts' \subseteq Versions, backoff' \in [Nodes -> Maybe],
           adopted' \subseteq Nodes, ailing' \subseteq Nodes,
           inst' \in [Nodes -> SUBSET Versions], ran' \in [Nodes -> SUBSET Versions],
           \A m \in Nodes \ {n} : inst'[m] = inst[m],
           \A m \in Nodes : ran[m] \subseteq ran'[m],
           e \in Versions => inst'[n] = {e} /\ e \in ran'[n],
           d \in Versions => inst'[n] = {d} /\ d \in ran'[n],
           "none" \in {e, d} => inst'[n] = {}
    PROVE  IInv'
<1>1. TypeOK' 
  BY DEF IInv, TypeOK, EndCycle, council, converged_rollouts, NoAnswer, Answers, Reasons,
         Entries, Maybe
<1>2. /\ phase'[n] = "idle" /\ answer'[n] = NoAnswer /\ before'[n] = "none"
      /\ entry'[n] = e /\ disk'[n] = d /\ conv'[n] = converged_rollouts(e)
  BY DEF IInv, TypeOK, EndCycle
<1>3. \A m \in Nodes \ {n} :
               /\ phase'[m] = phase[m] /\ entry'[m] = entry[m] /\ disk'[m] = disk[m]
               /\ answer'[m] = answer[m] /\ before'[m] = before[m] /\ old'[m] = old[m]
               /\ conv'[m] = conv[m]
  BY DEF IInv, TypeOK, EndCycle
<1>4. Owned(n)' BY <1>2 DEF Owned
<1>5. Remembered(n)'
  <2>1. reports'[n].conv \in Versions => reports'[n].conv \in ran'[n]
    BY DEF IInv, Remembered
  <2> QED BY <1>2, <2>1, VersionsAssumption DEF Remembered, converged_rollouts
<1>6. Promised(n)' BY <1>2 DEF Promised, NoAnswer
<1>7. UNCHANGED <<desired, failed>> BY DEF council
<1> QED BY <1>1, <1>3, <1>4, <1>5, <1>6, <1>7, OneNode

-----------------------------------------------------------------------------
(* The loop's actions. *)

LEMMA PollStep ==
    ASSUME IInv, NEW n \in Nodes, Poll(n)
    PROVE  IInv'
<1> DEFINE a == node_assignments(n)
<1>1. /\ a \in Answers /\ (a.why # "absent" => a.ver \in Versions)
      /\ a.why = "turn" => \A m \in a.behind : a.ver \in ran[m]
      /\ a.why = "kept" => a.ver \in ran[n]
      /\ a.marked = "yes" => a.why \in {"kept", "hold"}
  <2>1. CASE n \in placed
    <3>1. a = plan_release(n) BY <2>1 DEF node_assignments
    <3> QED BY <2>1, <3>1, PlanPromises
  <2>2. CASE n \notin placed
    BY <2>2 DEF node_assignments, NoAnswer, Answers, Reasons, Maybe
  <2> QED BY <2>1, <2>2
<1>2. /\ phase' = [phase EXCEPT ![n] = "polled"] /\ answer' = [answer EXCEPT ![n] = a]
      /\ phase[n] = "idle"
      /\ UNCHANGED <<desired, released, failed, placed, reports, deciding, posts, entry, disk,
                     before, backoff, old, conv, inst, adopted, ailing, ran>>
  BY DEF Poll, council, leader, agent
<1> HIDE DEF a
<1>3. TypeOK' BY <1>1, <1>2 DEF IInv, TypeOK
<1>4. /\ phase'[n] = "polled" /\ answer'[n] = a
      /\ \A m \in Nodes \ {n} : phase'[m] = phase[m] /\ answer'[m] = answer[m]
  BY <1>2 DEF IInv, TypeOK
<1>5. Owned(n)' BY <1>2, <1>4 DEF IInv, Owned
<1>6. Remembered(n)' BY <1>2 DEF IInv, Remembered
<1>7. Promised(n)' BY <1>1, <1>2, <1>4 DEF Promised
<1> QED BY <1>2, <1>3, <1>4, <1>5, <1>6, <1>7, OneNode

LEMMA SkipStep ==
    ASSUME IInv, NEW n \in Nodes, Skip(n)
    PROVE  IInv'
<1>1. /\ phase[n] = "polled" /\ EndCycle(n, entry[n], disk[n])
      /\ UNCHANGED <<council, placed, reports, deciding, posts, backoff, inst, adopted, ailing, ran>>
  BY DEF Skip, leader
<1>2. entry[n] \in Entries /\ disk[n] \in Entries BY DEF IInv, TypeOK
<1>3. /\ entry[n] \in Versions => inst[n] = {entry[n]} /\ entry[n] \in ran[n]
      /\ disk[n] \in Versions => inst[n] = {disk[n]} /\ disk[n] \in ran[n]
      /\ "none" \in {entry[n], disk[n]} => inst[n] = {}
  BY <1>1 DEF IInv, Owned, Remembered
<1>4. /\ posts \subseteq Versions /\ backoff \in [Nodes -> Maybe] /\ adopted \subseteq Nodes
      /\ ailing \subseteq Nodes /\ inst \in [Nodes -> SUBSET Versions]
      /\ ran \in [Nodes -> SUBSET Versions]
  BY DEF IInv, TypeOK
<1> QED BY <1>1, <1>2, <1>3, <1>4, CycleEnds

LEMMA RetireStep ==
    ASSUME IInv, NEW n \in Nodes, Retire(n)
    PROVE  IInv'
<1>1. /\ EndCycle(n, "none", "none")
      /\ inst' = [inst EXCEPT ![n] = {}] /\ backoff' = [backoff EXCEPT ![n] = "none"]
      /\ adopted' = adopted \ {n} /\ ailing' = ailing \ {n}
      /\ UNCHANGED <<council, placed, reports, deciding, posts, ran>>
  BY DEF Retire, leader
<1>2. /\ posts' \subseteq Versions /\ backoff' \in [Nodes -> Maybe] /\ adopted' \subseteq Nodes
      /\ ailing' \subseteq Nodes /\ inst' \in [Nodes -> SUBSET Versions]
      /\ ran' \in [Nodes -> SUBSET Versions] /\ inst'[n] = {}
      /\ \A m \in Nodes \ {n} : inst'[m] = inst[m]
  BY <1>1 DEF IInv, TypeOK, Maybe
<1>3. "none" \in Entries /\ "none" \notin Versions
  BY VersionsAssumption DEF Entries, Maybe
<1> QED BY <1>1, <1>2, <1>3, CycleEnds

LEMMA AdoptStep ==
    ASSUME IInv, NEW n \in Nodes, Adopt(n)
    PROVE  IInv'
<1> DEFINE v == answer[n].ver
<1>1. /\ phase[n] = "polled" /\ inst[n] = {v} /\ ran' = [ran EXCEPT ![n] = @ \cup {v}]
      /\ \/ /\ EndCycle(n, v, v) /\ backoff' = [backoff EXCEPT ![n] = "none"]
         \/ /\ \E saved \in {disk[n], v} : EndCycle(n, entry[n], saved)
            /\ UNCHANGED backoff
      /\ UNCHANGED <<council, placed, reports, deciding, posts, inst, adopted, ailing>>
  BY DEF Adopt, MayDeploy, adopted_instances_match, leader
<1>2. v \in Versions
  BY <1>1 DEF IInv, TypeOK
<1> HIDE DEF v
<1>3. /\ posts' \subseteq Versions /\ backoff' \in [Nodes -> Maybe] /\ adopted' \subseteq Nodes
      /\ ailing' \subseteq Nodes /\ inst' \in [Nodes -> SUBSET Versions]
      /\ ran' \in [Nodes -> SUBSET Versions] /\ inst'[n] = {v} /\ v \in ran'[n]
      /\ \A m \in Nodes \ {n} : inst'[m] = inst[m]
      /\ \A m \in Nodes : ran[m] \subseteq ran'[m]
  BY <1>1, <1>2 DEF IInv, TypeOK, Maybe
<1>4. /\ entry[n] \in Entries /\ disk[n] \in Entries /\ v \in Entries /\ v # "none"
      /\ entry[n] \in Versions => inst[n] = {entry[n]} /\ entry[n] \in ran[n]
      /\ disk[n] \in Versions => inst[n] = {disk[n]} /\ disk[n] \in ran[n]
      /\ "none" \notin {entry[n], disk[n]}
  BY <1>1, <1>2, VersionsAssumption DEF IInv, TypeOK, Owned, Remembered, Entries, Maybe
<1>5. CASE EndCycle(n, v, v)
  BY <1>1, <1>3, <1>4, <1>5, CycleEnds
<1>6. ASSUME NEW saved \in {disk[n], v}, EndCycle(n, entry[n], saved) PROVE IInv'
  <2>1. entry[n] \in ran'[n] \/ entry[n] \notin Versions BY <1>3, <1>4
  <2>2. saved \in Entries /\ (saved \in Versions => saved \in ran'[n] /\ inst'[n] = {saved})
        /\ saved # "none"
    BY <1>1, <1>3, <1>4
  <2> QED BY <1>1, <1>3, <1>4, <1>6, <2>1, <2>2, CycleEnds
<1> QED BY <1>1, <1>5, <1>6

LEMMA BeginStep ==
    ASSUME IInv, NEW n \in Nodes, Begin(n)
    PROVE  IInv'
<1>1. /\ phase[n] = "polled" /\ answer[n].why # "absent"
      /\ answer[n].why = "hold" => entry[n] = "none"
      /\ phase' = [phase EXCEPT ![n] = "deploying"]
      /\ before' = [before EXCEPT ![n] = entry[n]]
      /\ entry' = [entry EXCEPT ![n] = "pending"] /\ disk' = [disk EXCEPT ![n] = "pending"]
      /\ old' = [old EXCEPT ![n] = inst[n]] /\ adopted' = adopted \ {n}
      /\ UNCHANGED <<desired, released, failed, placed, reports, deciding, posts, answer, backoff,
                     conv, inst, ailing, ran>>
  BY DEF Begin, MayDeploy, Skips, held_assignment_applies, council, leader
<1>2. TypeOK' BY <1>1 DEF IInv, TypeOK, Entries
<1>3. /\ phase'[n] = "deploying" /\ before'[n] = entry[n] /\ entry'[n] = "pending"
      /\ disk'[n] = "pending" /\ old'[n] = inst[n] /\ answer'[n] = answer[n]
      /\ \A m \in Nodes \ {n} :
             /\ phase'[m] = phase[m] /\ entry'[m] = entry[m] /\ disk'[m] = disk[m]
             /\ before'[m] = before[m] /\ old'[m] = old[m]
  BY <1>1 DEF IInv, TypeOK
<1>4. Owned(n)' BY <1>1, <1>3 DEF IInv, Owned
<1>5. Remembered(n)' BY <1>1, <1>3, VersionsAssumption DEF IInv, Remembered
<1>6. Promised(n)' BY <1>1 DEF IInv, Promised
<1> QED BY <1>1, <1>2, <1>3, <1>4, <1>5, <1>6, OneNode

LEMMA BeginFailsStep ==
    ASSUME IInv, NEW n \in Nodes, BeginFails(n)
    PROVE  IInv'
<1>1. /\ phase[n] = "polled"
      /\ \E saved \in {<<entry[n], disk[n]>>, <<entry[n], "pending">>, <<"pending", "pending">>} :
             EndCycle(n, saved[1], saved[2])
      /\ UNCHANGED <<council, placed, reports, deciding, posts, backoff, inst, adopted, ailing, ran>>
  BY DEF BeginFails, MayDeploy, leader
<1>2. /\ entry[n] \in Entries /\ disk[n] \in Entries /\ "pending" \in Entries
      /\ "pending" \notin Versions
  BY VersionsAssumption DEF IInv, TypeOK, Entries
<1>3. /\ entry[n] \in Versions => inst[n] = {entry[n]} /\ entry[n] \in ran[n]
      /\ disk[n] \in Versions => inst[n] = {disk[n]} /\ disk[n] \in ran[n]
      /\ "none" \in {entry[n], disk[n]} => inst[n] = {}
  BY <1>1 DEF IInv, Owned, Remembered
<1>4. /\ posts \subseteq Versions /\ backoff \in [Nodes -> Maybe] /\ adopted \subseteq Nodes
      /\ ailing \subseteq Nodes /\ inst \in [Nodes -> SUBSET Versions]
      /\ ran \in [Nodes -> SUBSET Versions]
  BY DEF IInv, TypeOK
<1>5. \/ EndCycle(n, entry[n], disk[n]) \/ EndCycle(n, entry[n], "pending")
      \/ EndCycle(n, "pending", "pending")
  BY <1>1
<1> QED BY <1>1, <1>2, <1>3, <1>4, <1>5, CycleEnds

LEMMA StartNewStep ==
    ASSUME IInv, NEW n \in Nodes, StartNew(n)
    PROVE  IInv'
<1>1. /\ phase[n] = "deploying" /\ answer[n].ver \notin inst[n]
      /\ inst' = [inst EXCEPT ![n] = @ \cup {answer[n].ver}] /\ ailing' = ailing \ {n}
      /\ UNCHANGED <<desired, released, failed, placed, reports, deciding, posts, phase, entry,
                     disk, answer, before, backoff, old, conv, adopted, ran>>
  BY DEF StartNew, council, leader, loop
<1>2. answer[n].ver \in Versions
  BY <1>1 DEF IInv, Owned, Promised
<1>3. TypeOK' BY <1>1, <1>2 DEF IInv, TypeOK
<1>4. \A m \in Nodes \ {n} : inst'[m] = inst[m] BY <1>1 DEF IInv, TypeOK
<1>5. Owned(n)' BY <1>1 DEF IInv, Owned
<1>6. Remembered(n)' BY <1>1 DEF IInv, Remembered
<1>7. Promised(n)' BY <1>1 DEF IInv, Promised
<1> QED BY <1>1, <1>3, <1>4, <1>5, <1>6, <1>7, OneNode

LEMMA RetireOldStep ==
    ASSUME IInv, NEW n \in Nodes, NEW v \in Versions, RetireOld(n, v)
    PROVE  IInv'
<1>1. /\ phase[n] = "deploying" /\ inst' = [inst EXCEPT ![n] = @ \ {v}]
      /\ UNCHANGED <<desired, released, failed, placed, reports, deciding, posts, phase, entry,
                     disk, answer, before, backoff, old, conv, adopted, ailing, ran>>
  BY DEF RetireOld, council, leader, loop
<1>2. TypeOK' BY <1>1 DEF IInv, TypeOK
<1>3. \A m \in Nodes \ {n} : inst'[m] = inst[m] BY <1>1 DEF IInv, TypeOK
<1>4. Owned(n)' BY <1>1 DEF IInv, Owned
<1>5. Remembered(n)' BY <1>1 DEF IInv, Remembered
<1>6. Promised(n)' BY <1>1 DEF IInv, Promised
<1> QED BY <1>1, <1>2, <1>3, <1>4, <1>5, <1>6, OneNode

LEMMA CompleteStep ==
    ASSUME IInv, NEW n \in Nodes, Complete(n)
    PROVE  IInv'
<1> DEFINE v == answer[n].ver
<1>1. /\ phase[n] = "deploying" /\ inst[n] = {v} /\ ran' = [ran EXCEPT ![n] = @ \cup {v}]
      /\ backoff' = [backoff EXCEPT ![n] = "none"]
      /\ \/ EndCycle(n, v, v) \/ EndCycle(n, "pending", v) \/ EndCycle(n, "pending", "pending")
      /\ UNCHANGED <<council, placed, reports, deciding, posts, inst, adopted, ailing>>
  BY DEF Complete, leader
<1>2. v \in Versions
  BY <1>1 DEF IInv, Owned, Promised
<1> HIDE DEF v
<1>3. /\ posts' \subseteq Versions /\ backoff' \in [Nodes -> Maybe] /\ adopted' \subseteq Nodes
      /\ ailing' \subseteq Nodes /\ inst' \in [Nodes -> SUBSET Versions]
      /\ ran' \in [Nodes -> SUBSET Versions] /\ inst'[n] = {v} /\ v \in ran'[n]
      /\ \A m \in Nodes \ {n} : inst'[m] = inst[m]
      /\ \A m \in Nodes : ran[m] \subseteq ran'[m]
  BY <1>1, <1>2 DEF IInv, TypeOK, Maybe
<1>4. /\ v \in Entries /\ v # "none" /\ "pending" \in Entries /\ "pending" \notin Versions
  BY <1>2, VersionsAssumption DEF Entries, Maybe
<1> QED BY <1>1, <1>3, <1>4, CycleEnds

LEMMA AbortStep ==
    ASSUME IInv, NEW n \in Nodes, Abort(n)
    PROVE  IInv'
<1> DEFINE again == IF before[n] \in Versions THEN before[n] ELSE "pending"
<1>1. /\ phase[n] = "deploying"
      /\ posts' = posts \cup {answer[n].ver}
      /\ backoff' = [backoff EXCEPT ![n] = answer[n].ver]
      /\ \/ /\ inst' = [inst EXCEPT ![n] = old[n]]
            /\ \/ EndCycle(n, again, again) \/ EndCycle(n, "pending", again)
               \/ EndCycle(n, "pending", "pending")
         \/ EndCycle(n, "pending", "pending") /\ UNCHANGED inst
      /\ UNCHANGED <<council, placed, reports, deciding, adopted, ailing, ran>>
  BY DEF Abort
<1>2. answer[n].ver \in Versions
  BY <1>1 DEF IInv, Owned, Promised
<1>3. again \in Entries /\ (again \in Versions => old[n] = {again} /\ again \in ran[n])
  BY <1>1, VersionsAssumption DEF IInv, Owned, Remembered, Entries, Maybe
<1>4. again # "none" /\ "pending" \in Entries /\ "pending" \notin Versions
  BY VersionsAssumption DEF Entries
<1> HIDE DEF again
<1>5. /\ posts' \subseteq Versions /\ backoff' \in [Nodes -> Maybe] /\ adopted' \subseteq Nodes
      /\ ailing' \subseteq Nodes /\ inst' \in [Nodes -> SUBSET Versions]
      /\ ran' \in [Nodes -> SUBSET Versions]
      /\ \A m \in Nodes \ {n} : inst'[m] = inst[m]
  BY <1>1, <1>2 DEF IInv, TypeOK, Maybe
<1>6. CASE EndCycle(n, "pending", "pending")
  BY <1>1, <1>4, <1>5, <1>6, CycleEnds
<1>7. CASE /\ inst' = [inst EXCEPT ![n] = old[n]]
           /\ EndCycle(n, again, again) \/ EndCycle(n, "pending", again)
  <2>1. inst'[n] = old[n] BY <1>7 DEF IInv, TypeOK
  <2> QED BY <1>1, <1>3, <1>4, <1>5, <1>7, <2>1, CycleEnds
<1> QED BY <1>1, <1>6, <1>7

LEMMA DeployFailsStep ==
    ASSUME IInv, NEW n \in Nodes, DeployFails(n)
    PROVE  IInv'
<1>1. /\ phase[n] = "deploying" /\ EndCycle(n, "pending", "pending")
      /\ inst' \in {inst, [inst EXCEPT ![n] = old[n]]}
      /\ backoff' = [backoff EXCEPT ![n] = answer[n].ver]
      /\ UNCHANGED <<council, placed, reports, deciding, posts, adopted, ailing, ran>>
  BY DEF DeployFails, leader
<1>2. /\ posts' \subseteq Versions /\ backoff' \in [Nodes -> Maybe] /\ adopted' \subseteq Nodes
      /\ ailing' \subseteq Nodes /\ inst' \in [Nodes -> SUBSET Versions]
      /\ ran' \in [Nodes -> SUBSET Versions]
      /\ \A m \in Nodes \ {n} : inst'[m] = inst[m]
  BY <1>1 DEF IInv, TypeOK, Maybe, Answers
<1>3. "pending" \in Entries /\ "pending" \notin Versions
  BY VersionsAssumption DEF Entries
<1> QED BY <1>1, <1>2, <1>3, CycleEnds

LEMMA BackoffEndsStep ==
    ASSUME IInv, NEW n \in Nodes, BackoffEnds(n)
    PROVE  IInv'
<1>1. /\ backoff' = [backoff EXCEPT ![n] = "none"]
      /\ UNCHANGED <<desired, released, failed, placed, reports, deciding, posts, phase, entry,
                     disk, answer, before, old, conv, inst, adopted, ailing, ran>>
  BY DEF BackoffEnds, council, leader, agent
<1>2. TypeOK' BY <1>1 DEF IInv, TypeOK, Maybe
<1>3. Owned(n)' BY <1>1 DEF IInv, Owned
<1>4. Remembered(n)' BY <1>1 DEF IInv, Remembered
<1>5. Promised(n)' BY <1>1 DEF IInv, Promised
<1> QED BY <1>1, <1>2, <1>3, <1>4, <1>5, OneNode

LEMMA CrashStep ==
    ASSUME IInv, NEW n \in Nodes, Crash(n)
    PROVE  IInv'
<1>1. /\ phase[n] \notin {"absent", "down"}
      /\ \/ inst' \in {inst, [inst EXCEPT ![n] = {}]} /\ UNCHANGED ailing
         \/ /\ phase[n] = "deploying"
            /\ inst' = [inst EXCEPT ![n] = @ \cup {answer[n].ver}]
            /\ ailing' = ailing \cup {n}
      /\ phase' = [phase EXCEPT ![n] = "down"] /\ answer' = [answer EXCEPT ![n] = NoAnswer]
      /\ before' = [before EXCEPT ![n] = "none"] /\ old' = [old EXCEPT ![n] = {}]
      /\ backoff' = [backoff EXCEPT ![n] = "none"] /\ entry' = [entry EXCEPT ![n] = "none"]
      /\ conv' = [conv EXCEPT ![n] = "none"] /\ adopted' = adopted \ {n}
      /\ UNCHANGED <<desired, released, failed, placed, reports, deciding, posts, disk, ran>>
  BY DEF Crash, council, leader
<1>2. phase[n] = "deploying" => answer[n].ver \in Versions
  BY DEF IInv, Owned, Promised
<1>3. NoAnswer \in Answers /\ "none" \in Entries /\ "none" \in Maybe
  BY DEF NoAnswer, Answers, Reasons, Entries, Maybe
<1>4. TypeOK' BY <1>1, <1>2, <1>3 DEF IInv, TypeOK
<1>5. /\ phase'[n] = "down" /\ entry'[n] = "none" /\ disk'[n] = disk[n] /\ conv'[n] = "none"
      /\ before'[n] = "none" /\ answer'[n] = NoAnswer
      /\ phase[n] # "deploying" => inst'[n] \in {{}, inst[n]}
      /\ \A m \in Nodes \ {n} :
             /\ phase'[m] = phase[m] /\ entry'[m] = entry[m] /\ disk'[m] = disk[m]
             /\ answer'[m] = answer[m] /\ before'[m] = before[m] /\ old'[m] = old[m]
             /\ conv'[m] = conv[m] /\ inst'[m] = inst[m]
  BY <1>1 DEF IInv, TypeOK
<1>6. Owned(n)'
  <2>1. CASE phase[n] = "deploying"
    BY <1>5, <2>1, VersionsAssumption DEF IInv, Owned
  <2>2. CASE phase[n] \in {"idle", "polled"}
    BY <1>5, <2>2 DEF IInv, Owned
  <2> QED BY <1>1, <2>1, <2>2 DEF IInv, TypeOK
<1>7. Remembered(n)' BY <1>1, <1>5, VersionsAssumption DEF IInv, Remembered
<1>8. Promised(n)' BY <1>5 DEF Promised, NoAnswer
<1> QED BY <1>1, <1>4, <1>5, <1>6, <1>7, <1>8, OneNode

LEMMA RestartStep ==
    ASSUME IInv, NEW n \in Nodes, Restart(n)
    PROVE  IInv'
<1> DEFINE e == retain_live_assignments(n)
<1>1. /\ phase[n] = "down" /\ phase' = [phase EXCEPT ![n] = "idle"]
      /\ entry' = [entry EXCEPT ![n] = e] /\ disk' = [disk EXCEPT ![n] = e]
      /\ adopted' \subseteq adopted \cup {n}
      /\ UNCHANGED <<desired, released, failed, placed, reports, deciding, posts, answer, before,
                     backoff, old, conv, inst, ailing, ran>>
  BY DEF Restart, council, leader
<1>2. /\ e \in Entries
      /\ e \in Versions => e = disk[n] /\ Cardinality(inst[n]) = 1
      /\ e = "none" => disk[n] = "none"
  BY VersionsAssumption DEF IInv, TypeOK, retain_live_assignments, Entries
<1>3. e \in Versions => inst[n] = {e} /\ e \in ran[n]
  <2> SUFFICES ASSUME e \in Versions PROVE inst[n] = {e} /\ e \in ran[n] OBVIOUS
  <2>1. e = disk[n] /\ Cardinality(inst[n]) = 1 BY <1>2
  <2> HIDE DEF e
  <2>2. inst[n] \in {{}, {e}} /\ e \in ran[n] BY <1>1, <2>1 DEF IInv, Owned, Remembered
  <2>3. Cardinality({}) = 0 BY FS_EmptySet
  <2>4. inst[n] # {} BY <2>1, <2>3
  <2> QED BY <2>2, <2>4
<1>4. e = "none" => inst[n] = {}
  BY <1>1, <1>2 DEF IInv, Owned
<1> HIDE DEF e
<1>5. TypeOK' BY <1>1, <1>2 DEF IInv, TypeOK
<1>6. /\ phase'[n] = "idle" /\ entry'[n] = e /\ disk'[n] = e
      /\ \A m \in Nodes \ {n} : phase'[m] = phase[m] /\ entry'[m] = entry[m] /\ disk'[m] = disk[m]
  BY <1>1 DEF IInv, TypeOK
<1>7. Owned(n)' BY <1>1, <1>3, <1>4, <1>6 DEF Owned
<1>8. Remembered(n)' BY <1>1, <1>3, <1>6 DEF IInv, Remembered
<1>9. Promised(n)' BY <1>1 DEF IInv, Promised
<1> QED BY <1>1, <1>5, <1>6, <1>7, <1>8, <1>9, OneNode

LEMMA HealthStep ==
    ASSUME IInv, NEW n \in Nodes, Sicken(n) \/ Heal(n)
    PROVE  IInv'
<1>1. /\ ailing' \in {ailing \cup {n}, ailing \ {n}}
      /\ UNCHANGED <<desired, released, failed, placed, reports, deciding, posts, phase, entry,
                     disk, answer, before, backoff, old, conv, inst, adopted, ran>>
  BY DEF Sicken, Heal, council, leader, loop
<1>2. TypeOK' BY <1>1 DEF IInv, TypeOK
<1>3. Owned(n)' BY <1>1 DEF IInv, Owned
<1>4. Remembered(n)' BY <1>1 DEF IInv, Remembered
<1>5. Promised(n)' BY <1>1 DEF IInv, Promised
<1> QED BY <1>1, <1>2, <1>3, <1>4, <1>5, OneNode

-----------------------------------------------------------------------------
(* The council's and the leader's actions leave every node as it is. *)

(* A step of theirs preserves the invariant when what the leader has heard   *)
(* and decided is still so.                                                  *)
LEMMA NoNode ==
    ASSUME IInv, TypeOK', UNCHANGED <<loop, agent, ran>>, Marks', Decided',
           \A n \in Nodes : reports'[n].conv \in Versions => reports'[n].conv \in ran[n]
    PROVE  IInv'
<1>1. ASSUME NEW n \in Nodes PROVE Owned(n)'
  BY DEF IInv, Owned, loop, agent
<1>2. ASSUME NEW n \in Nodes PROVE Remembered(n)'
  BY DEF IInv, Remembered, loop, agent
<1>3. ASSUME NEW n \in Nodes PROVE Promised(n)'
  BY DEF IInv, Promised, loop
<1> QED BY <1>1, <1>2, <1>3 DEF IInv

(* Applying, rescaling, rescheduling and a failure's mark. *)
LEMMA CouncilStep ==
    ASSUME IInv, \/ \E v \in Versions : Apply(v) \/ RolloutFailed(v)
                 \/ Rescale
                 \/ \E n \in Nodes : Reschedule(n)
    PROVE  IInv'
<1>1. /\ desired' \in Versions /\ failed' \in {"none", desired'} /\ placed' \subseteq Nodes
      /\ posts' \subseteq Versions
      /\ UNCHANGED <<released, reports, deciding, loop, agent, ran>>
  <2>1. ASSUME NEW v \in Versions, Apply(v) PROVE <1>1!:
    BY <2>1 DEF IInv, TypeOK, Apply, leader
  <2> QED BY <2>1 DEF IInv, TypeOK, Marks, RolloutFailed, Rescale, Reschedule, council, leader
<1>2. TypeOK' BY <1>1 DEF IInv, TypeOK, loop, agent, Maybe
<1>3. Marks' BY <1>1 DEF Marks
<1>4. Decided' BY <1>1 DEF IInv, Decided
<1>5. \A n \in Nodes : reports'[n].conv \in Versions => reports'[n].conv \in ran[n]
  BY <1>1 DEF IInv, Remembered
<1> QED BY <1>1, <1>2, <1>3, <1>4, <1>5, NoNode

LEMMA RolloutReleasedStep ==
    ASSUME IInv, RolloutReleased
    PROVE  IInv'
<1>1. /\ deciding.ver # "none" /\ deciding' = Idle
      /\ UNCHANGED <<desired, placed, reports, posts, loop, agent, ran>>
      /\ \/ deciding.ver = desired /\ released' = release(desired)
         \/ released' = released
      /\ failed' \in {"none", failed}
  BY DEF RolloutReleased
<1>2. released' \in Seq(Versions) /\ Len(released') <= Targets
  <2>1. CASE released' = released BY <2>1 DEF IInv, TypeOK
  <2>2. CASE released' = release(desired)
    BY <2>2, ReleaseTargets DEF IInv, TypeOK
  <2> QED BY <1>1, <2>1, <2>2
<1>3. TypeOK' BY <1>1, <1>2 DEF IInv, TypeOK, loop, agent, Maybe, Idle
<1>4. Marks' BY <1>1 DEF IInv, Marks
<1>5. Decided' BY <1>1 DEF Decided, Idle
<1>6. \A n \in Nodes : reports'[n].conv \in Versions => reports'[n].conv \in ran[n]
  BY <1>1 DEF IInv, Remembered
<1> QED BY <1>1, <1>3, <1>4, <1>5, <1>6, NoNode

(* What the reports show of every placed node is what the decision needs. *)
LEMMA DecideStep ==
    ASSUME IInv, Decide
    PROVE  IInv'
<1>1. /\ deciding' = [ver |-> desired, nodes |-> placed]
      /\ \A n \in placed : reports[n].conv = desired
      /\ UNCHANGED <<desired, released, failed, placed, reports, posts, loop, agent, ran>>
  BY DEF Decide, newly_released, Converged, council
<1>2. TypeOK' BY <1>1 DEF IInv, TypeOK, loop, agent, Maybe
<1>3. Marks' BY <1>1 DEF IInv, Marks
<1>4. \A n \in Nodes : reports'[n].conv \in Versions => reports'[n].conv \in ran[n]
  BY <1>1 DEF IInv, Remembered
<1>5. Decided' BY <1>1, <1>4 DEF IInv, TypeOK, Decided
<1> QED BY <1>1, <1>2, <1>3, <1>4, <1>5, NoNode

(* Losing a write, a failure report, the reports or one of them. *)
LEMMA LossStep ==
    ASSUME IInv, \/ LoseWrite \/ Elect
                 \/ \E v \in Versions : LosePost(v)
                 \/ \E n \in Nodes : GoStale(n)
    PROVE  IInv'
<1>1. /\ UNCHANGED <<desired, released, failed, placed, loop, agent, ran>>
      /\ posts' \subseteq Versions /\ deciding' \in {deciding, Idle}
      /\ reports' \in [Nodes -> Reports]
      /\ \A n \in Nodes : reports'[n] \in {reports[n], Unheard}
  BY DEF IInv, TypeOK, LoseWrite, LosePost, Elect, GoStale, council, Unheard, Reports, Maybe
<1>2. TypeOK' BY <1>1 DEF IInv, TypeOK, loop, agent, Idle, Maybe
<1>3. Marks' BY <1>1 DEF IInv, Marks
<1>4. Decided' BY <1>1 DEF IInv, Decided, Idle
<1>5. \A n \in Nodes : reports'[n].conv \in Versions => reports'[n].conv \in ran[n]
  BY <1>1, VersionsAssumption DEF IInv, Remembered, Unheard
<1> QED BY <1>1, <1>2, <1>3, <1>4, <1>5, NoNode

LEMMA ReportStep ==
    ASSUME IInv, NEW n \in Nodes, Report(n)
    PROVE  IInv'
<1>1. /\ reports' = [reports EXCEPT ![n] = [conv |-> conv[n], kind |-> node_share(n)]]
      /\ UNCHANGED <<desired, released, failed, placed, deciding, posts, loop, agent, ran>>
  BY DEF Report, council
<1>2. node_share(n) \in {"empty", "well", "ill"} BY DEF node_share
<1>3. [conv |-> conv[n], kind |-> node_share(n)] \in Reports
  BY <1>2 DEF IInv, TypeOK, Reports
<1>4. TypeOK' BY <1>1, <1>3 DEF IInv, TypeOK, loop, agent
<1>5. Marks' BY <1>1 DEF IInv, Marks
<1>6. Decided' BY <1>1 DEF IInv, Decided
<1>7. \A m \in Nodes : reports'[m].conv \in Versions => reports'[m].conv \in ran[m]
  BY <1>1 DEF IInv, TypeOK, Remembered
<1> QED BY <1>1, <1>4, <1>5, <1>6, <1>7, NoNode

-----------------------------------------------------------------------------
LEMMA InitIInv == Init => IInv
<1> SUFFICES ASSUME Init PROVE IInv OBVIOUS
<1>1. PICK s \in Settings :
        /\ desired = First /\ released = s.released /\ failed = "none" /\ placed = s.placed
        /\ reports = [n \in Nodes |-> IF n \in s.running
                        THEN [conv |-> First, kind |-> "well"] ELSE [conv |-> "none", kind |-> "empty"]]
        /\ deciding = Idle /\ posts = {}
        /\ phase = [n \in Nodes |-> IF n \in s.members THEN "idle" ELSE "absent"]
        /\ entry = [n \in Nodes |-> IF n \in s.running THEN First ELSE "none"]
        /\ disk = entry
        /\ answer = [n \in Nodes |-> NoAnswer] /\ before = [n \in Nodes |-> "none"]
        /\ old = [n \in Nodes |-> {}] /\ backoff = [n \in Nodes |-> "none"]
        /\ conv = [n \in Nodes |-> IF n \in s.running THEN First ELSE "none"]
        /\ inst = [n \in Nodes |-> IF n \in s.running THEN {First} ELSE {}]
        /\ adopted = {} /\ ailing = {}
        /\ ran = [n \in Nodes |-> IF n \in s.running THEN {First} ELSE {}]
  BY DEF Init
<1>2. released \in Seq(Versions) /\ Len(released) <= Targets
  <2>1. released \in {<<>>, <<First>>} BY <1>1, SettingsAssumption
  <2>2. <<>> \in Seq(Versions) /\ Len(<<>>) = 0 BY EmptySeq
  <2>3. <<First>> \in Seq(Versions) /\ Len(<<First>>) = 1 BY VersionsAssumption
  <2>4. CASE released = <<>> BY <2>2, <2>4, TargetsAssumption
  <2>5. CASE released = <<First>> BY <2>3, <2>5, TargetsAssumption
  <2> QED BY <2>1, <2>4, <2>5
<1>3. NoAnswer \in Answers BY DEF NoAnswer, Answers, Reasons, Maybe
<1>4. reports \in [Nodes -> Reports] BY <1>1, VersionsAssumption DEF Reports, Maybe
<1>5. deciding \in [ver : Maybe, nodes : SUBSET Nodes] BY <1>1 DEF Idle, Maybe
<1>6. placed \subseteq Nodes BY <1>1, SettingsAssumption
<1>7. TypeOK
  BY <1>1, <1>2, <1>3, <1>4, <1>5, <1>6, VersionsAssumption DEF TypeOK, Entries, Maybe
<1>8. Marks /\ Decided BY <1>1 DEF Marks, Decided, Idle
<1>9. ASSUME NEW n \in Nodes PROVE Owned(n)
  BY <1>1, VersionsAssumption DEF Owned
<1>10. ASSUME NEW n \in Nodes PROVE Remembered(n)
  BY <1>1, VersionsAssumption DEF Remembered
<1>11. ASSUME NEW n \in Nodes PROVE Promised(n)
  BY <1>1 DEF Promised, NoAnswer
<1> QED BY <1>7, <1>8, <1>9, <1>10, <1>11 DEF IInv

LEMMA NextIInv == IInv /\ [Next]_vars => IInv'
<1> SUFFICES ASSUME IInv, [Next]_vars PROVE IInv' OBVIOUS
<1>1. CASE UNCHANGED vars
  <2>1. TypeOK' /\ Marks' /\ Decided'
    BY <1>1 DEF IInv, vars, TypeOK, Marks, Decided
  <2>2. \A n \in Nodes : reports'[n].conv \in Versions => reports'[n].conv \in ran[n]
    BY <1>1 DEF IInv, vars, Remembered
  <2> QED BY <1>1, <2>1, <2>2, NoNode DEF vars, loop, agent
<1>2. CASE \/ \E v \in Versions : Apply(v) \/ RolloutFailed(v)
           \/ Rescale \/ \E n \in Nodes : Reschedule(n)
  BY <1>2, CouncilStep
<1>3. CASE RolloutReleased BY <1>3, RolloutReleasedStep
<1>4. CASE Decide BY <1>4, DecideStep
<1>5. CASE \/ LoseWrite \/ Elect \/ \E v \in Versions : LosePost(v)
           \/ \E n \in Nodes : GoStale(n)
  BY <1>5, LossStep
<1>6. CASE \E n \in Nodes : \/ Poll(n) \/ Skip(n) \/ Retire(n) \/ Adopt(n) \/ Begin(n)
                            \/ BeginFails(n)
  BY <1>6, PollStep, SkipStep, RetireStep, AdoptStep, BeginStep, BeginFailsStep
<1>7. CASE \E n \in Nodes : \/ StartNew(n) \/ \E v \in Versions : RetireOld(n, v)
                            \/ Complete(n) \/ Abort(n) \/ DeployFails(n)
  BY <1>7, StartNewStep, RetireOldStep, CompleteStep, AbortStep, DeployFailsStep
<1>8. CASE \E n \in Nodes : \/ BackoffEnds(n) \/ Crash(n) \/ Restart(n) \/ Sicken(n) \/ Heal(n)
                            \/ Report(n)
  BY <1>8, BackoffEndsStep, CrashStep, RestartStep, HealthStep, ReportStep
<1> QED BY <1>1, <1>2, <1>3, <1>4, <1>5, <1>6, <1>7, <1>8 DEF Next

(* The inductive invariant holds of every behaviour. *)
LEMMA Invariance == Spec => []IInv
BY InitIInv, NextIInv, PTL DEF Spec

(* Every variable keeps its type; in particular release keeps at most        *)
(* Targets rollback targets.                                                 *)
THEOREM TypeCorrect == Spec => []TypeOK
<1>1. IInv => TypeOK BY DEF IInv
<1> QED BY <1>1, Invariance, PTL

(* What a node's reconciler has recorded as applied is what the node runs,   *)
(* through crashes, failed saves, rollbacks and adoption.                    *)
THEOREM AppliedRuns == Spec => []AppliedIsRunning
<1>1. IInv => AppliedIsRunning BY DEF IInv, Owned, AppliedIsRunning
<1> QED BY <1>1, Invariance, PTL

(* A node replaces instances in its turn only behind nodes that came to run  *)
(* the version, and never with a version marked failed that it has not run.  *)
THEOREM Earned == Spec => []ReplacementsAreEarned
<1>1. IInv => ReplacementsAreEarned
  BY DEF IInv, TypeOK, Answers, Owned, Promised, ReplacementsAreEarned
<1> QED BY <1>1, Invariance, PTL

(* A spec becomes a rollback target only after every node of the decision    *)
(* came to run it.                                                           *)
THEOREM ReleasedRan == Spec => ReleasedRanEverywhere
<1>1. ASSUME IInv, [Next]_vars, released' # released
      PROVE  \A n \in deciding.nodes : last_released' \in ran[n]
  <2>1. RolloutReleased
    BY <1>1 DEF Next, vars, Apply, Rescale, Reschedule, RolloutFailed, Decide, LoseWrite, LosePost,
       Elect, GoStale, Poll, Skip, Retire, Adopt, Begin, BeginFails, StartNew, RetireOld, Complete,
       Abort, DeployFails, BackoffEnds, Crash, Restart, Sicken, Heal, Report, council
  <2>2. /\ deciding.ver # "none" /\ deciding.ver = desired
        /\ released' = release(desired) /\ desired \in Versions
    BY <1>1, <2>1 DEF RolloutReleased, IInv, TypeOK
  <2>3. last_released' = desired
    BY <1>1, <2>2, ReleaseTargets DEF IInv, last_released
  <2> QED BY <1>1, <2>2, <2>3 DEF IInv, Decided
<1>2. IInv /\ [Next]_vars =>
        [released' # released => \A n \in deciding.nodes : last_released' \in ran[n]]_vars
  BY <1>1
<1> QED BY <1>2, Invariance, PTL DEF Spec, ReleasedRanEverywhere

=============================================================================
