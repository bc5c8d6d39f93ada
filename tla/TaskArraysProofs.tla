-------------------------- MODULE TaskArraysProofs --------------------------
(***************************************************************************)
(* Proofs about TaskArrays for every cluster, array and setting: what a      *)
(* node's fences promise, whatever requests arrive late and wherever a       *)
(* crash, an error or a dropped call cuts a sync short.                      *)
(***************************************************************************)
EXTENDS TaskArrays, FiniteSetTheorems, SequenceTheorems, TLAPS

-----------------------------------------------------------------------------
(* The operations of TaskArrayState keep a snapshot valid: what any replica *)
(* reaches by applying writes, in any order and with any arguments, it can  *)
(* reopen.                                                                  *)

(* Division: the quotient's multiple is not above the dividend.             *)
LEMMA Division ==
    ASSUME NEW n \in Nat, NEW s \in Nat \ {0}
    PROVE  /\ n \div s \in Nat
           /\ (n \div s) * s <= n
           /\ n < (n \div s) * s + s
OBVIOUS

(* There is a last chunk, and it has between one task and ChunkSize tasks.  *)
LEMMA LastChunkFacts ==
    /\ ChunkCount \in Nat \ {0}
    /\ LastChunk \in Chunks
    /\ IsFiniteSet(Chunks)
    /\ TasksInChunk(LastChunk) \in 1 .. ChunkSize
<1> DEFINE n == Count + ChunkSize - 1
           q == n \div ChunkSize
<1>1. n \in Nat /\ ChunkSize \in Nat \ {0} /\ Count \in Nat \ {0} /\ n = Count + ChunkSize - 1
  BY ArrayAssumption
<1>2. q \in Nat /\ q * ChunkSize <= n /\ n < q * ChunkSize + ChunkSize
  BY <1>1, Division
<1>3. ChunkCount = q
  BY DEF ChunkCount
<1> HIDE DEF n, q
<1>4. q # 0
  BY <1>1, <1>2
<1>5. (q - 1) * ChunkSize = q * ChunkSize - ChunkSize
  BY <1>1, <1>2
<1>6. (q - 1) * ChunkSize \in Int /\ q * ChunkSize \in Int
  BY <1>1, <1>2
<1>7. TasksInChunk(LastChunk) = Count - (q - 1) * ChunkSize
  BY <1>3 DEF TasksInChunk, LastChunk
<1>8. IsFiniteSet(Chunks)
  BY <1>2, <1>3, FS_Interval DEF Chunks
<1> QED
  BY <1>1, <1>2, <1>3, <1>4, <1>5, <1>6, <1>7, <1>8 DEF Chunks, LastChunk

(* The chunks' tasks add up.                                                *)
LEMMA TasksAdd ==
    ASSUME NEW A \in SUBSET Chunks, NEW B \in SUBSET Chunks, A \cap B = {}
    PROVE  /\ TasksIn(A) \in Nat
           /\ TasksIn(A \cup B) = TasksIn(A) + TasksIn(B)
           /\ TasksIn({}) = 0
<1>1. ChunkSize \in Nat \ {0} /\ IsFiniteSet(Chunks) /\ LastChunk \in Chunks
      /\ TasksInChunk(LastChunk) \in 1 .. ChunkSize
  BY ArrayAssumption, LastChunkFacts
<1>2. IsFiniteSet(A) /\ IsFiniteSet(B)
  BY <1>1, FS_Subset
<1>3. Cardinality(A) \in Nat /\ Cardinality(B) \in Nat
  BY <1>2, FS_CardinalityType
<1>4. Cardinality(A \cup B) = Cardinality(A) + Cardinality(B)
  <2>1. Cardinality(A \cap B) = 0
    BY FS_EmptySet
  <2>2. Cardinality(A \cup B) = Cardinality(A) + Cardinality(B) - Cardinality(A \cap B)
    BY <1>2, FS_Union
  <2> QED
    BY <1>3, <2>1, <2>2
<1>5. Cardinality({}) = 0
  BY FS_EmptySet
<1> DEFINE d == ChunkSize - TasksInChunk(LastChunk)
           a == Cardinality(A)
           b == Cardinality(B)
<1>6. d \in 0 .. ChunkSize
  BY <1>1
<1>7. /\ TasksIn(A) = a * ChunkSize - (IF LastChunk \in A THEN d ELSE 0)
      /\ TasksIn(B) = b * ChunkSize - (IF LastChunk \in B THEN d ELSE 0)
      /\ TasksIn(A \cup B) = (a + b) * ChunkSize - (IF LastChunk \in A \cup B THEN d ELSE 0)
      /\ TasksIn({}) = 0 * ChunkSize - 0
  BY <1>4, <1>5 DEF TasksIn
<1>8. LastChunk \in A => a # 0
  BY <1>2, FS_EmptySet
<1> HIDE DEF d, a, b
<1>9. a \in Nat /\ b \in Nat
  BY <1>3 DEF a, b
<1>10. /\ (a + b) * ChunkSize = a * ChunkSize + b * ChunkSize
       /\ a * ChunkSize \in Nat /\ b * ChunkSize \in Nat
       /\ a # 0 => a * ChunkSize >= ChunkSize
       /\ 0 * ChunkSize = 0
  BY <1>1, <1>9
<1>11. ~(LastChunk \in A /\ LastChunk \in B)
  OBVIOUS
<1> QED
  BY <1>1, <1>6, <1>7, <1>8, <1>9, <1>10, <1>11

(* The parts of a snapshot, chunk by chunk.                                  *)
LEMMA HeldIs ==
    ASSUME NEW a, NEW c
    PROVE  c \in Held(a) <=> \E n \in Nodes : c \in a.grants[n]
BY DEF Held

(* A valid snapshot as the proofs below use it.                              *)
Placed(a) ==
    \A c \in Chunks :
        /\ c \in a.queued \/ c \in a.done \/ \E n \in Nodes : c \in a.grants[n]
        /\ ~(c \in a.queued /\ c \in a.done)
        /\ \A n \in Nodes : c \in a.grants[n] => c \notin a.queued /\ c \notin a.done
        /\ \A n, m \in Nodes : c \in a.grants[n] /\ c \in a.grants[m] => n = m

LEMMA PlacedIs ==
    ASSUME NEW a \in ArrayState
    PROVE  Partitioned(a) <=> Placed(a)
<1>1. /\ a.queued \subseteq Chunks /\ a.done \subseteq Chunks
      /\ \A n \in Nodes : a.grants[n] \subseteq Chunks
  BY DEF ArrayState
<1>2. \A c : c \in Held(a) <=> \E n \in Nodes : c \in a.grants[n]
  BY HeldIs
<1>3. Partitioned(a) => Placed(a)
  BY <1>1, <1>2 DEF Partitioned, Placed
<1>4. ASSUME Placed(a) PROVE Partitioned(a)
  <2>1. a.queued \cup Held(a) \cup a.done = Chunks
    BY <1>1, <1>2, <1>4 DEF Placed
  <2>2. a.queued \cap Held(a) = {} /\ a.queued \cap a.done = {} /\ Held(a) \cap a.done = {}
    BY <1>1, <1>2, <1>4 DEF Placed
  <2>3. \A n, m \in Nodes : n # m => a.grants[n] \cap a.grants[m] = {}
    BY <1>1, <1>4 DEF Placed
  <2> QED
    BY <2>1, <2>2, <2>3 DEF Partitioned
<1> QED
  BY <1>3, <1>4

(* A new array is valid.                                                     *)
LEMMA NewArrayValid == NewArray \in ArrayState /\ ValidSnapshot(NewArray)
<1>1. NewArray \in ArrayState
  BY DEF NewArray, ArrayState, NotAccepted, AcceptedGrant, StopReasons
<1>2. Placed(NewArray)
  BY DEF Placed, NewArray
<1>3. CountersAgree(NewArray)
  BY TasksAdd DEF CountersAgree, NewArray
<1> QED
  BY <1>1, <1>2, <1>3, PlacedIs
     DEF ValidSnapshot, NewArray, AttemptsAreOpen, AcceptedAreDone, NotAccepted, StoppedIsDrained

(* Grant moves chunks from the queue to one node, or does nothing.           *)
LEMMA GrantKeeps ==
    ASSUME NEW a \in ArrayState, ValidSnapshot(a), NEW n \in Nodes, NEW cs
    PROVE  Grant(a, n, cs) \in ArrayState /\ ValidSnapshot(Grant(a, n, cs))
<1> DEFINE b == Grant(a, n, cs)
<1>1. CASE a.stopped # "no" \/ ~(cs \subseteq a.queued)
  BY <1>1 DEF Grant
<1>2. CASE a.stopped = "no" /\ cs \subseteq a.queued
  <2>1. b = [queued |-> a.queued \ cs,
             grants |-> [a.grants EXCEPT ![n] = a.grants[n] \cup cs],
             attempts |-> a.attempts, done |-> a.done, accepted |-> a.accepted,
             succeeded |-> a.succeeded, failed |-> a.failed,
             not_run |-> a.not_run, stopped |-> a.stopped]
    BY <1>2 DEF Grant
  <2> HIDE DEF b
  <2>2. a.queued \subseteq Chunks /\ a.grants \in [Nodes -> SUBSET Chunks]
    BY DEF ArrayState
  <2>3. b \in ArrayState
    BY <1>2, <2>1, <2>2 DEF ArrayState
  <2>4. Placed(a)
    BY PlacedIs DEF ValidSnapshot
  <2>5. Placed(b)
    BY <1>2, <2>1, <2>2, <2>4 DEF Placed
  <2> QED
    BY <1>2, <2>1, <2>3, <2>5, PlacedIs
       DEF ValidSnapshot, AttemptsAreOpen, AcceptedAreDone, CountersAgree, StoppedIsDrained, b
<1> QED
  BY <1>1, <1>2

(* Stop retires the queue as not run.                                        *)
LEMMA StopKeeps ==
    ASSUME NEW a \in ArrayState, ValidSnapshot(a), NEW reason \in StopReasons
    PROVE  Stop(a, reason) \in ArrayState /\ ValidSnapshot(Stop(a, reason))
<1> DEFINE b == Stop(a, reason)
<1>1. CASE a.stopped # "no"
  BY <1>1 DEF Stop
<1>2. CASE a.stopped = "no"
  <2>1. b = [queued |-> {}, grants |-> a.grants,
             attempts |-> [c \in Chunks |-> IF c \in a.queued THEN 1 ELSE a.attempts[c]],
             done |-> a.done \cup a.queued, accepted |-> a.accepted,
             succeeded |-> a.succeeded, failed |-> a.failed,
             not_run |-> a.not_run + TasksIn(a.queued), stopped |-> reason]
    BY <1>2 DEF Stop
  <2> HIDE DEF b
  <2>2. /\ a.queued \in SUBSET Chunks /\ a.done \in SUBSET Chunks
        /\ a.grants \in [Nodes -> SUBSET Chunks] /\ a.attempts \in [Chunks -> Nat]
        /\ a.accepted \in [Chunks -> AcceptedGrant]
        /\ a.succeeded \in Nat /\ a.failed \in Nat /\ a.not_run \in Nat
    BY DEF ArrayState
  <2>3. Placed(a) /\ a.done \cap a.queued = {}
    BY PlacedIs DEF ValidSnapshot, Partitioned
  <2>4. /\ TasksIn(a.queued) \in Nat /\ TasksIn(a.done) \in Nat
        /\ TasksIn(a.done \cup a.queued) = TasksIn(a.done) + TasksIn(a.queued)
    BY <2>2, <2>3, TasksAdd
  <2>5. b \in ArrayState
    <3>1. [c \in Chunks |-> IF c \in a.queued THEN 1 ELSE a.attempts[c]] \in [Chunks -> Nat]
      BY <2>2
    <3> QED
      BY <2>1, <2>2, <2>4, <3>1 DEF ArrayState
  <2>6. Placed(b)
    BY <2>1, <2>2, <2>3 DEF Placed
  <2>7. CountersAgree(b)
    BY <2>1, <2>2, <2>4 DEF ValidSnapshot, CountersAgree
  <2>8. AttemptsAreOpen(b) /\ AcceptedAreDone(b) /\ StoppedIsDrained(b)
    BY <2>1, <2>2 DEF ValidSnapshot, AttemptsAreOpen, AcceptedAreDone, StoppedIsDrained
  <2> QED
    BY <2>5, <2>6, <2>7, <2>8, PlacedIs DEF ValidSnapshot, b
<1> QED
  BY <1>1, <1>2

(* The fold forgets owners and keeps attempts.                               *)
LEMMA FoldKeeps ==
    ASSUME NEW acc \in [Chunks -> AcceptedGrant]
    PROVE  /\ FoldAccepted(acc) \in [Chunks -> AcceptedGrant]
           /\ \A c \in Chunks : FoldAccepted(acc)[c].attempt = acc[c].attempt
BY DEF FoldAccepted, AcceptedGrant

(* Retire counts a held chunk's result and marks the chunk done.             *)
LEMMA RetireKeeps ==
    ASSUME NEW a \in ArrayState, ValidSnapshot(a), NEW n \in Nodes,
           NEW r \in ChunkResult, MayComplete(a, n, r)
    PROVE  Retire(a, n, r) \in ArrayState /\ ValidSnapshot(Retire(a, n, r))
<1> DEFINE b == Retire(a, n, r)
           acc == [a.accepted EXCEPT ![r.chunk] = [owner |-> n, attempt |-> r.attempt]]
           fold == FoldAccepted(acc)
<1>1. b = [queued |-> a.queued,
           grants |-> [a.grants EXCEPT ![n] = a.grants[n] \ {r.chunk}],
           attempts |-> [a.attempts EXCEPT ![r.chunk] = 1],
           done |-> a.done \cup {r.chunk}, accepted |-> fold,
           succeeded |-> a.succeeded + r.succeeded, failed |-> a.failed + r.failed,
           not_run |-> a.not_run + r.not_run, stopped |-> a.stopped]
  BY DEF Retire
<1>2. /\ a.queued \in SUBSET Chunks /\ a.done \in SUBSET Chunks
      /\ a.grants \in [Nodes -> SUBSET Chunks] /\ a.attempts \in [Chunks -> Nat]
      /\ a.accepted \in [Chunks -> AcceptedGrant]
      /\ a.succeeded \in Nat /\ a.failed \in Nat /\ a.not_run \in Nat
      /\ a.stopped \in StopReasons
  BY DEF ArrayState
<1>3. /\ r.chunk \in Chunks /\ r.attempt \in Nat
      /\ r.succeeded \in Nat /\ r.failed \in Nat /\ r.not_run \in Nat
  BY DEF ChunkResult
<1>4. /\ r.chunk \notin a.done /\ r.chunk \in a.grants[n]
      /\ r.succeeded + r.failed + r.not_run = TasksInChunk(r.chunk)
  BY DEF MayComplete
<1>5. /\ acc \in [Chunks -> AcceptedGrant]
      /\ \A c \in Chunks : c # r.chunk => acc[c] = a.accepted[c]
  BY <1>2, <1>3 DEF AcceptedGrant
<1> HIDE DEF acc
<1>6. /\ fold \in [Chunks -> AcceptedGrant]
      /\ \A c \in Chunks : fold[c].attempt = acc[c].attempt
  BY <1>5, FoldKeeps
<1> HIDE DEF b, fold
<1>7. b \in ArrayState
  BY <1>1, <1>2, <1>3, <1>6 DEF ArrayState
<1>8. Placed(a)
  BY PlacedIs DEF ValidSnapshot
<1>9. Placed(b)
  BY <1>1, <1>2, <1>3, <1>4, <1>8 DEF Placed
<1>10. CountersAgree(b)
  <2>1. TasksIn({r.chunk}) = TasksInChunk(r.chunk)
    <3>1. Cardinality({r.chunk}) = 1
      BY FS_Singleton
    <3>2. ChunkSize \in Nat /\ TasksInChunk(LastChunk) \in Int
      BY ArrayAssumption, LastChunkFacts
    <3> QED
      BY <3>1, <3>2 DEF TasksIn, TasksInChunk
  <2>2. /\ TasksIn(a.done \cup {r.chunk}) = TasksIn(a.done) + TasksIn({r.chunk})
        /\ TasksIn(a.done) \in Nat
    <3>1. {r.chunk} \in SUBSET Chunks /\ a.done \cap {r.chunk} = {}
      BY <1>3, <1>4
    <3> QED
      BY <1>2, <3>1, TasksAdd
  <2>3. a.succeeded + a.failed + a.not_run = TasksIn(a.done)
    BY DEF ValidSnapshot, CountersAgree
  <2> QED
    BY <1>1, <1>2, <1>3, <1>4, <2>1, <2>2, <2>3 DEF CountersAgree
<1>11. AttemptsAreOpen(b)
  BY <1>1, <1>2, <1>3 DEF ValidSnapshot, AttemptsAreOpen
<1>12. AcceptedAreDone(b)
  BY <1>1, <1>2, <1>3, <1>5, <1>6 DEF ValidSnapshot, AcceptedAreDone
<1>13. StoppedIsDrained(b)
  BY <1>1 DEF ValidSnapshot, StoppedIsDrained
<1> QED
  BY <1>7, <1>9, <1>10, <1>11, <1>12, <1>13, PlacedIs DEF ValidSnapshot, b

(* Complete refuses a result, retires its chunk, or stops the array too.     *)
LEMMA CompleteKeeps ==
    ASSUME NEW a \in ArrayState, ValidSnapshot(a), NEW n \in Nodes, NEW r \in ChunkResult
    PROVE  Complete(a, n, r) \in ArrayState /\ ValidSnapshot(Complete(a, n, r))
<1>1. CASE ~MayComplete(a, n, r)
  BY <1>1 DEF Complete
<1>2. CASE MayComplete(a, n, r)
  <2>1. Retire(a, n, r) \in ArrayState /\ ValidSnapshot(Retire(a, n, r))
    BY <1>2, RetireKeeps
  <2>2. /\ Stop(Retire(a, n, r), "failures") \in ArrayState
        /\ ValidSnapshot(Stop(Retire(a, n, r), "failures"))
    BY <2>1, StopKeeps DEF StopReasons
  <2>3. Complete(a, n, r) \in {Retire(a, n, r), Stop(Retire(a, n, r), "failures")}
    BY <1>2, Zenon DEF Complete
  <2> QED
    BY <2>1, <2>2, <2>3, Zenon
<1> QED
  BY <1>1, <1>2

(* RequeueNode puts a node's chunks back, or retires them as not run.        *)
LEMMA RequeueKeeps ==
    ASSUME NEW a \in ArrayState, ValidSnapshot(a), NEW n \in Nodes
    PROVE  RequeueNode(a, n) \in ArrayState /\ ValidSnapshot(RequeueNode(a, n))
<1> DEFINE b == RequeueNode(a, n)
           chunks == a.grants[n]
           released == [a.grants EXCEPT ![n] = {}]
<1>1. /\ a.queued \in SUBSET Chunks /\ a.done \in SUBSET Chunks
      /\ a.grants \in [Nodes -> SUBSET Chunks] /\ a.attempts \in [Chunks -> Nat]
      /\ a.accepted \in [Chunks -> AcceptedGrant]
      /\ a.succeeded \in Nat /\ a.failed \in Nat /\ a.not_run \in Nat
      /\ a.stopped \in StopReasons
  BY DEF ArrayState
<1>2. /\ chunks \in SUBSET Chunks /\ released \in [Nodes -> SUBSET Chunks]
      /\ released[n] = {} /\ \A m \in Nodes : m # n => released[m] = a.grants[m]
  BY <1>1
<1>3. Placed(a)
  BY PlacedIs DEF ValidSnapshot
<1>4. chunks \cap a.done = {}
  BY <1>1, <1>3 DEF Placed
<1>5. /\ TasksIn(chunks) \in Nat /\ TasksIn(a.done) \in Nat
      /\ TasksIn(a.done \cup chunks) = TasksIn(a.done) + TasksIn(chunks)
  BY <1>1, <1>2, <1>4, TasksAdd
<1>6. CASE a.stopped # "no"
  <2>1. b = [queued |-> a.queued, grants |-> released,
             attempts |-> [c \in Chunks |-> IF c \in chunks THEN 1 ELSE a.attempts[c]],
             done |-> a.done \cup chunks, accepted |-> a.accepted,
             succeeded |-> a.succeeded, failed |-> a.failed,
             not_run |-> a.not_run + TasksIn(chunks), stopped |-> a.stopped]
    BY <1>6 DEF RequeueNode
  <2> HIDE DEF b, released
  <2>2. Placed(b)
    BY <1>1, <1>2, <1>3, <2>1 DEF Placed
  <2> HIDE DEF chunks
  <2>3. b \in ArrayState
    <3>1. [c \in Chunks |-> IF c \in chunks THEN 1 ELSE a.attempts[c]] \in [Chunks -> Nat]
      BY <1>1
    <3> QED
      BY <1>1, <1>2, <1>5, <2>1, <3>1 DEF ArrayState
  <2>4. CountersAgree(b)
    <3>1. a.succeeded + a.failed + a.not_run = TasksIn(a.done)
      BY DEF ValidSnapshot, CountersAgree
    <3>2. /\ b.succeeded = a.succeeded /\ b.failed = a.failed
          /\ b.not_run = a.not_run + TasksIn(chunks) /\ b.done = a.done \cup chunks
      BY <2>1
    <3>3. TasksIn(b.done) = TasksIn(a.done) + TasksIn(chunks)
      BY <1>5, <3>2
    <3> QED
      BY <1>1, <1>5, <3>1, <3>2, <3>3 DEF CountersAgree
  <2>5. AttemptsAreOpen(b) /\ AcceptedAreDone(b) /\ StoppedIsDrained(b)
    BY <1>1, <2>1 DEF ValidSnapshot, AttemptsAreOpen, AcceptedAreDone, StoppedIsDrained
  <2> QED
    BY <2>2, <2>3, <2>4, <2>5, PlacedIs DEF ValidSnapshot, b
<1>7. CASE a.stopped = "no"
  <2>1. b = [queued |-> a.queued \cup chunks, grants |-> released,
             attempts |-> [c \in Chunks |-> IF c \in chunks THEN a.attempts[c] + 1
                                                            ELSE a.attempts[c]],
             done |-> a.done, accepted |-> a.accepted,
             succeeded |-> a.succeeded, failed |-> a.failed,
             not_run |-> a.not_run, stopped |-> a.stopped]
    BY <1>7 DEF RequeueNode
  <2> HIDE DEF b, released
  <2>2. Placed(b)
    BY <1>1, <1>2, <1>3, <2>1 DEF Placed
  <2> HIDE DEF chunks
  <2>3. b \in ArrayState
    <3>1. [c \in Chunks |-> IF c \in chunks THEN a.attempts[c] + 1 ELSE a.attempts[c]]
            \in [Chunks -> Nat]
      BY <1>1
    <3> QED
      BY <1>1, <1>2, <2>1, <3>1 DEF ArrayState
  <2>4. AttemptsAreOpen(b)
    BY <1>1, <1>4, <2>1 DEF ValidSnapshot, AttemptsAreOpen
  <2>5. CountersAgree(b) /\ AcceptedAreDone(b) /\ StoppedIsDrained(b)
    BY <1>7, <2>1 DEF ValidSnapshot, CountersAgree, AcceptedAreDone, StoppedIsDrained
  <2> QED
    BY <2>2, <2>3, <2>4, <2>5, PlacedIs DEF ValidSnapshot, b
<1> QED
  BY <1>6, <1>7 DEF StopReasons

(* Every write of task_array_state.rs (grant, complete, requeue_node, stop)  *)
(* takes a state validate_snapshot accepts to one it accepts, whatever its   *)
(* arguments, refused or not; a new array is such a state.  So a replica     *)
(* never writes a record it would refuse when it reopens its store, for any  *)
(* number of nodes, tasks, chunks and accepted ranges.                       *)
THEOREM OperationsKeepSnapshots ==
    /\ NewArray \in ArrayState /\ ValidSnapshot(NewArray)
    /\ \A a \in ArrayState : ValidSnapshot(a) =>
          /\ \A n \in Nodes, cs \in SUBSET Chunks :
                Grant(a, n, cs) \in ArrayState /\ ValidSnapshot(Grant(a, n, cs))
          /\ \A n \in Nodes, r \in ChunkResult :
                Complete(a, n, r) \in ArrayState /\ ValidSnapshot(Complete(a, n, r))
          /\ \A n \in Nodes :
                RequeueNode(a, n) \in ArrayState /\ ValidSnapshot(RequeueNode(a, n))
          /\ \A reason \in StopReasons :
                Stop(a, reason) \in ArrayState /\ ValidSnapshot(Stop(a, reason))
<1>1. NewArray \in ArrayState /\ ValidSnapshot(NewArray)
  BY NewArrayValid
<1>2. ASSUME NEW a \in ArrayState, ValidSnapshot(a)
      PROVE  /\ \A n \in Nodes, cs \in SUBSET Chunks :
                   Grant(a, n, cs) \in ArrayState /\ ValidSnapshot(Grant(a, n, cs))
             /\ \A n \in Nodes, r \in ChunkResult :
                   Complete(a, n, r) \in ArrayState /\ ValidSnapshot(Complete(a, n, r))
             /\ \A n \in Nodes :
                   RequeueNode(a, n) \in ArrayState /\ ValidSnapshot(RequeueNode(a, n))
             /\ \A reason \in StopReasons :
                   Stop(a, reason) \in ArrayState /\ ValidSnapshot(Stop(a, reason))
  BY <1>2, GrantKeeps, CompleteKeeps, RequeueKeeps, StopKeeps, Zenon
<1> QED
  BY <1>1, <1>2, Zenon

-----------------------------------------------------------------------------

(* The values the variables hold, field by field.                           *)

Attempts == [Chunks -> Nat]
Positions == [generation: Nat, slot: Int, stride: Nat]
Slots == {Torn} \cup [generation: Nat \ {0}, payload: Attempts]
Files == [stride: Nat, slots: [1 .. 2 -> Slots]]

DiskFields == {"control", "barred", "dir"}
DirFields == {"exists", "epoch", "compacted", "fence", "markers", "ledger"}
RunFields == {"open", "epoch", "highest", "position", "chunks", "finished", "resumed",
              "failure", "cancelled", "unknown"}
JobFields == {"chunk", "attempt", "cancelled", "epoch", "tasks"}
SyncFields == {"at", "request", "live", "dropped"}
FenceFields == SyncFields \cup {"position", "payload"}
MarkerFields == SyncFields \cup {"chunk", "todo", "target", "finished"}

Stages == {"control", "clean", "open", "fence", "marker"}
PastControl == {"clean", "open", "fence", "marker"}

StageFields(at) ==
    IF at = "fence" THEN FenceFields ELSE IF at = "marker" THEN MarkerFields ELSE SyncFields

Results(fs) == fs \subseteq ChunkResult /\ IsFiniteSet(fs)

DiskShape(d) ==
    /\ DOMAIN d = DiskFields /\ d.control \in Version
    /\ DOMAIN d.dir = DirFields /\ d.dir.fence \in Files
    /\ d.dir.markers \subseteq Chunks \X Nat

RunShape(r) ==
    /\ DOMAIN r = RunFields
    /\ r.highest \in Attempts /\ r.position \in Positions /\ Results(r.finished)

JobShape(j) ==
    /\ DOMAIN j = JobFields
    /\ j.chunk \in Chunks /\ j.attempt \in Nat /\ DOMAIN j.tasks \subseteq Tasks

SyncShape(s) ==
    /\ s.at \in Stages /\ DOMAIN s = StageFields(s.at) /\ s.request \in Request
    /\ s.at = "fence" => s.position \in Positions /\ s.payload \in Attempts
    /\ s.at = "marker" => /\ s.target \in Attempts /\ s.chunk \in Chunks
                          /\ s.todo \subseteq Chunks /\ Results(s.finished)

CallShape(k) ==
    /\ k.state \in {"sent", "inside", "answered"}
    /\ k.request \in Request /\ Results(k.answer.finished)

NodeShape(n) ==
    /\ DiskShape(disk[n])
    /\ acted[n].version \in Version /\ acted[n].attempts \in Attempts
    /\ run[n] = NoRun \/ RunShape(run[n])
    /\ \A j \in jobs[n] : JobShape(j)
    /\ sync[n] = NoSync \/ SyncShape(sync[n])
    /\ calls[n] = NoCall \/ CallShape(calls[n])
    /\ late[n] \subseteq Request

Write ==
    [op: {"requeue", "unknown"}, node: Nodes]
      \cup [op: {"complete"}, node: Nodes, result: ChunkResult]
      \cup [op: {"grant"}, node: Nodes, chunks: SUBSET Chunks]
      \cup [op: {"replay"}, node: Nodes, held: Attempts]
      \cup [op: {"stop"}, reason: StopReasons \ {"no"}]

Domains ==
    /\ DOMAIN disk = Nodes /\ DOMAIN run = Nodes /\ DOMAIN jobs = Nodes
    /\ DOMAIN sync = Nodes /\ DOMAIN acted = Nodes
    /\ DOMAIN calls = Nodes /\ DOMAIN late = Nodes
    /\ setting.members \subseteq Nodes

(* What holds of one node between any two steps: the version it last acted  *)
(* on is not newer than its control fence, a sync past the control check    *)
(* carries exactly the version on the fence, an open run and its jobs are   *)
(* of the directory's epoch, and a directory is of the fence's epoch.       *)
ControlCovers(n) ==
    /\ ~Stale(disk[n].control, acted[n].version)
    /\ sync[n].at \in PastControl => sync[n].request.version = disk[n].control

DirectoryIsCurrent(n) ==
    disk[n].dir.exists => disk[n].dir.epoch = disk[n].control.epoch

RunHasDirectory(n) ==
    /\ run[n].open => disk[n].dir.exists /\ run[n].epoch = disk[n].dir.epoch
    /\ sync[n].at \in {"fence", "marker"} => run[n].open
    /\ sync[n].at \in {"clean", "open"} => ~run[n].open

JobsAreCurrent(n) ==
    \A j \in jobs[n] : ~j.cancelled => run[n].open /\ j.epoch = disk[n].dir.epoch

(* The fence a run remembers: the file has the stride of that position, or  *)
(* the next write is of a new file anyway.                                  *)
FenceFits(n) ==
    /\ run[n].open => \/ run[n].position = NoPosition
                      \/ disk[n].dir.fence.stride = run[n].position.stride
                      \/ Length(run[n].highest) > run[n].position.stride
    /\ sync[n].at = "fence" => /\ sync[n].position = run[n].position
                               /\ sync[n].payload = run[n].highest

(* A sync whose caller waits is the one that call is in.                    *)
CallerWaits(n) ==
    sync[n] # NoSync /\ sync[n].live => calls[n].state = "inside"

NodeInv(n) ==
    /\ NodeShape(n)
    /\ CallerWaits(n)
    /\ ControlCovers(n)
    /\ DirectoryIsCurrent(n)
    /\ RunHasDirectory(n)
    /\ JobsAreCurrent(n)
    /\ FenceFits(n)

LeaderInv ==
    /\ array \in ArrayState /\ ValidSnapshot(array)
    /\ outcome # "none" <=> IsTerminal(array)
    /\ kept \in BOOLEAN
    /\ unknown \subseteq Nodes /\ up \subseteq Nodes
    /\ index \in Nat /\ term \in Nat /\ epoch \in Nat
    /\ applying \in Seq(Write)
    /\ log \in Seq([term: Nat, writes: Seq(Write)])
    /\ Domains

Inv == LeaderInv /\ \A n \in Nodes : NodeInv(n)

(* What a sync leaves alone: every node but its own.                        *)
Others(n) ==
    \A m \in Nodes \ {n} :
        /\ disk'[m] = disk[m] /\ run'[m] = run[m] /\ jobs'[m] = jobs[m]
        /\ sync'[m] = sync[m] /\ acted'[m] = acted[m]
        /\ calls'[m] = calls[m] /\ late'[m] = late[m]

-----------------------------------------------------------------------------

(* An answer frees the node and is heard by a caller that still waits.      *)
LEMMA ReplyEffect ==
    ASSUME Domains, NEW n \in Nodes, NEW kind, NEW finished, Reply(n, kind, finished)
    PROVE  /\ sync'[n] = NoSync /\ DOMAIN sync' = Nodes /\ DOMAIN calls' = Nodes
           /\ \A m \in Nodes \ {n} : sync'[m] = sync[m] /\ calls'[m] = calls[m]
           /\ \/ calls'[n] = calls[n] /\ ~sync[n].live
              \/ /\ calls'[n] = Call("answered", calls[n].request, Answer(kind, finished))
                 /\ sync[n].live
BY DEF Reply, Domains

(* A sync that goes on only changes its own stage.                          *)
LEMMA ProceedEffect ==
    ASSUME Domains, NEW n \in Nodes, NEW next, Proceed(n, next)
    PROVE  /\ sync'[n] = next /\ DOMAIN sync' = Nodes /\ calls' = calls
           /\ \A m \in Nodes \ {n} : sync'[m] = sync[m]
BY DEF Proceed, Domains

(* Results are a finite set; fewer of them still are.                       *)
LEMMA FewerResults ==
    ASSUME NEW fs, NEW gs, Results(fs), gs \subseteq fs
    PROVE  Results(gs)
BY FS_Subset DEF Results

(* No results, or one more.                                                 *)
LEMMA MoreResults ==
    /\ Results({})
    /\ \A fs, f : Results(fs) /\ f \in ChunkResult => Results(fs \cup {f})
<1>1. Results({})
  BY FS_EmptySet DEF Results
<1>2. ASSUME NEW fs, NEW f, Results(fs), f \in ChunkResult
      PROVE  Results(fs \cup {f})
  BY <1>2, FS_AddElement DEF Results
<1> QED
  BY <1>1, <1>2

(* A set of chunks that is not empty has a first one.                       *)
LEMMA FirstChunk ==
    ASSUME NEW S \in SUBSET Chunks, S # {}
    PROVE  Min(S) \in S
<1> DEFINE R == {p \in Nat \X Nat : p[1] < p[2]}
<1>1. S \subseteq Nat
  BY LastChunkFacts DEF Chunks
<1>2. \E x \in S : \A y \in S : ~(<<y, x>> \in R)
  <2>1. IsWellFoundedOn(R, Nat)
    BY NatLessThanWellFounded DEF OpToRel
  <2> HIDE DEF R
  <2> QED
    BY <1>1, <2>1, WFMin
<1>3. \E x \in S : \A y \in S : x =< y
  <2>1. PICK x \in S : \A y \in S : ~(<<y, x>> \in R)
    BY <1>2
  <2>2. ASSUME NEW y \in S
        PROVE  x =< y
    <3>1. x \in Nat /\ y \in Nat
      BY <1>1
    <3>2. ~(<<y, x>> \in R)
      BY <2>1
    <3>3. ~(y < x)
      BY <3>1, <3>2
    <3> QED
      BY <3>1, <3>3
  <2> QED
    BY <2>2
<1> QED
  BY <1>3 DEF Min

(* How the jobs of a node may change in a sync: old ones stay as they were  *)
(* or are cancelled, new ones are of the request's epoch.                   *)
JobsFrom(js, old, e) ==
    \A j \in js :
        /\ JobShape(j)
        /\ ~j.cancelled => j.epoch = e \/ \E k \in old : ~k.cancelled /\ k.epoch = j.epoch

(* A caller that still waits has its answer.                                *)
Answered(n) ==
    \/ calls'[n] = calls[n]
    \/ /\ sync[n].live
       /\ calls'[n].state = "answered" /\ calls'[n].request = calls[n].request
       /\ Results(calls'[n].answer.finished)

(* An answer with results is one.                                           *)
LEMMA ReplyAnswers ==
    ASSUME Domains, NEW n \in Nodes, NEW kind, NEW fs, Results(fs), Reply(n, kind, fs)
    PROVE  /\ sync'[n] = NoSync /\ DOMAIN sync' = Nodes /\ DOMAIN calls' = Nodes
           /\ \A m \in Nodes \ {n} : sync'[m] = sync[m] /\ calls'[m] = calls[m]
           /\ Answered(n)
<1> DEFINE k == Call("answered", calls[n].request, Answer(kind, fs))
<1>1. k.state = "answered" /\ k.request = calls[n].request /\ k.answer.finished = fs
  BY DEF Call, Answer
<1>2. /\ sync'[n] = NoSync /\ DOMAIN sync' = Nodes /\ DOMAIN calls' = Nodes
      /\ \A m \in Nodes \ {n} : sync'[m] = sync[m] /\ calls'[m] = calls[m]
      /\ calls'[n] = calls[n] \/ (calls'[n] = k /\ sync[n].live)
  BY ReplyEffect
<1> HIDE DEF k
<1> QED
  BY <1>1, <1>2 DEF Answered

(* What the end of reconcile does to a node that runs r.                    *)
Settles(n, r, target) ==
    LET version == sync[n].request.version
    IN  /\ DOMAIN run' = Nodes /\ DOMAIN jobs' = Nodes /\ DOMAIN sync' = Nodes
        /\ DOMAIN acted' = Nodes /\ DOMAIN calls' = Nodes
        /\ \A m \in Nodes \ {n} :
               /\ run'[m] = run[m] /\ jobs'[m] = jobs[m] /\ sync'[m] = sync[m]
               /\ acted'[m] = acted[m] /\ calls'[m] = calls[m]
        /\ RunShape(run'[n])
        /\ run'[n].open = r.open /\ run'[n].highest = r.highest
        /\ run'[n].position = r.position /\ run'[n].failure = r.failure
        /\ run'[n].epoch = r.epoch
        /\ Answered(n)
        /\ \/ sync'[n] = NoSync
           \/ /\ sync'[n].at = "marker" /\ SyncShape(sync'[n])
              /\ sync'[n].request = sync[n].request /\ sync'[n].live = sync[n].live
              /\ sync'[n].dropped = FALSE /\ sync'[n].target = target
              /\ calls'[n] = calls[n]
        /\ \/ acted' = acted
           \/ \E started : /\ ActsOn(n, version, started)
                           /\ \A c \in Chunks : started[c] \in {0, target[c]}

(* Starting chunks adds their jobs and notes the request they came with.    *)
LEMMA StartEffect ==
    ASSUME Domains, NEW n \in Nodes, NEW r, NEW js, NEW todo, NEW target,
           RunShape(r), Start(n, r, js, todo, target)
    PROVE  /\ DOMAIN run' = Nodes /\ DOMAIN jobs' = Nodes /\ DOMAIN acted' = Nodes
           /\ \A m \in Nodes \ {n} :
                 run'[m] = run[m] /\ jobs'[m] = jobs[m] /\ acted'[m] = acted[m]
           /\ RunShape(run'[n])
           /\ run'[n].open = r.open /\ run'[n].highest = r.highest
           /\ run'[n].position = r.position /\ run'[n].failure = r.failure
           /\ run'[n].epoch = r.epoch
           /\ jobs'[n] = js \cup {NewJob(n, c, target[c], r) : c \in todo}
           /\ \E started : /\ ActsOn(n, sync[n].request.version, started)
                           /\ \A c \in Chunks : started[c] \in {0, target[c]}
<1> DEFINE chunks == [c \in Chunks |-> IF c \in todo THEN target[c] ELSE r.chunks[c]]
           resumed == [t \in Tasks |-> IF \E c \in todo : t \in ChunkRange(c)
                                       THEN NoRecord ELSE r.resumed[t]]
           new == {NewJob(n, c, target[c], r) : c \in todo}
           started == [c \in Chunks |-> IF c \in todo THEN target[c] ELSE 0]
           rr == [r EXCEPT !.chunks = chunks, !.resumed = resumed]
<1>1. /\ run' = [run EXCEPT ![n] = rr]
      /\ jobs' = [jobs EXCEPT ![n] = js \cup new]
      /\ ActsOn(n, sync[n].request.version, started)
  BY DEF Start
<1>2. /\ RunShape(rr) /\ rr.open = r.open /\ rr.highest = r.highest
      /\ rr.position = r.position /\ rr.failure = r.failure /\ rr.epoch = r.epoch
  <2> HIDE DEF chunks, resumed
  <2>1. DOMAIN r = RunFields
    BY DEF RunShape
  <2>2. /\ DOMAIN rr = RunFields /\ rr.open = r.open /\ rr.highest = r.highest
        /\ rr.position = r.position /\ rr.failure = r.failure /\ rr.epoch = r.epoch
        /\ rr.finished = r.finished
    BY <2>1 DEF RunFields
  <2> HIDE DEF rr
  <2> QED
    BY <2>2 DEF RunShape
<1>3. \A c \in Chunks : started[c] \in {0, target[c]}
  OBVIOUS
<1> HIDE DEF rr, new, started
<1>4. /\ DOMAIN run' = Nodes /\ DOMAIN jobs' = Nodes /\ run'[n] = rr
      /\ jobs'[n] = js \cup new
      /\ \A m \in Nodes \ {n} : run'[m] = run[m] /\ jobs'[m] = jobs[m]
  BY <1>1 DEF Domains
<1>5. DOMAIN acted' = Nodes /\ \A m \in Nodes \ {n} : acted'[m] = acted[m]
  BY <1>1 DEF ActsOn, Domains
<1> QED
  BY <1>1, <1>2, <1>3, <1>4, <1>5 DEF new

(* A new job is of the epoch of the request that started it.                *)
LEMMA NewJobShape ==
    ASSUME NEW n, NEW c \in Chunks, NEW a \in Nat, NEW r
    PROVE  /\ JobShape(NewJob(n, c, a, r))
           /\ NewJob(n, c, a, r).epoch = sync[n].request.version.epoch
BY DEF NewJob, JobFields, JobShape, ChunkRange

(* A cancelled job is otherwise the same.                                   *)
LEMMA CancelledJob ==
    ASSUME NEW j, JobShape(j)
    PROVE  /\ JobShape([j EXCEPT !.cancelled = TRUE])
           /\ [j EXCEPT !.cancelled = TRUE].cancelled = TRUE
BY DEF JobShape, JobFields

(* What a sync reports is heard, or was not asked for any more.             *)
LEMMA ReportEffect ==
    ASSUME Domains, NEW n \in Nodes, NEW r, NEW fs, Results(fs), Report(n, r, fs)
    PROVE  /\ sync'[n] = NoSync /\ DOMAIN sync' = Nodes /\ DOMAIN calls' = Nodes
           /\ \A m \in Nodes \ {n} : sync'[m] = sync[m] /\ calls'[m] = calls[m]
           /\ Answered(n)
<1>1. PICK kind, f : Reply(n, kind, f) /\ Results(f)
  <2>1. Reply(n, "refused", {}) \/ Reply(n, "progress", fs)
    BY Zenon DEF Report
  <2> QED
    BY <2>1, MoreResults
<1> QED
  BY <1>1, ReplyAnswers

SomeChunks(cs) == cs \subseteq Chunks /\ cs # {}

(* A marker is claimed for the first of the chunks to start.                *)
LEMMA ClaimingShape ==
    ASSUME NEW n, NEW todo, SomeChunks(todo), NEW target \in Attempts, NEW fs, Results(fs),
           sync[n].request \in Request, NEW next,
           next = Claiming(n, todo, target, fs)
    PROVE  SyncShape(next)
<1>1. /\ next.at = "marker" /\ next.request = sync[n].request /\ next.live = sync[n].live
      /\ next.dropped = FALSE /\ next.target = target /\ next.finished = fs
      /\ next.chunk = Min(todo) /\ next.todo = todo \ {Min(todo)}
      /\ DOMAIN next = MarkerFields
  BY DEF Claiming, MarkerFields, SyncFields
<1>2. Min(todo) \in Chunks /\ todo \ {Min(todo)} \subseteq Chunks
  BY FirstChunk DEF SomeChunks
<1> QED
  BY <1>1, <1>2 DEF SyncShape, StageFields, Stages

(* Settle stops what was taken back and starts what is held, or asks for    *)
(* the first launch marker; the fence the run remembers stays as it is.     *)
LEMMA SettleEffect ==
    ASSUME Domains, NEW n \in Nodes, NEW r, NEW js, NEW target,
           RunShape(r), \A j \in js : JobShape(j), target \in Attempts,
           sync[n].request \in Request, Settle(n, r, js, target)
    PROVE  /\ Settles(n, r, target)
           /\ JobsFrom(jobs'[n], js, sync[n].request.version.epoch)
<1> DEFINE keep == {c \in Chunks : r.chunks[c] # 0 /\ r.chunks[c] = target[c]}
           chunks == [c \in Chunks |-> IF c \in keep THEN r.chunks[c] ELSE 0]
           finished == {f \in r.finished : f.attempt = target[f.chunk]}
           pruned == [r EXCEPT !.chunks = chunks, !.finished = finished]
           left == {IF j.chunk \in keep /\ j.attempt = r.chunks[j.chunk]
                    THEN j ELSE [j EXCEPT !.cancelled = TRUE] : j \in js}
           todo == {c \in Chunks : target[c] # 0 /\ c \notin keep}
           e == sync[n].request.version.epoch
<1>1. \/ /\ Start(n, pruned, left, todo, target)
         /\ Report(n, pruned, pruned.finished)
      \/ /\ run' = [run EXCEPT ![n] = pruned]
         /\ jobs' = [jobs EXCEPT ![n] = left]
         /\ Proceed(n, Claiming(n, todo, target, pruned.finished))
         /\ todo # {} /\ UNCHANGED acted
  BY Zenon DEF Settle
<1>2. /\ RunShape(pruned) /\ pruned.open = r.open /\ pruned.highest = r.highest
      /\ pruned.position = r.position /\ pruned.failure = r.failure
      /\ pruned.epoch = r.epoch
  <2>1. DOMAIN r = RunFields
    BY DEF RunShape
  <2>2. Results(finished)
    BY FewerResults DEF RunShape
  <2> HIDE DEF chunks, finished
  <2>3. /\ DOMAIN pruned = RunFields /\ pruned.open = r.open /\ pruned.highest = r.highest
        /\ pruned.position = r.position /\ pruned.failure = r.failure
        /\ pruned.epoch = r.epoch /\ pruned.finished = finished
    BY <2>1 DEF RunFields
  <2> HIDE DEF pruned
  <2> QED
    BY <2>2, <2>3 DEF RunShape
<1>3. JobsFrom(left, js, e)
  <2> SUFFICES ASSUME NEW j \in left
               PROVE  /\ JobShape(j)
                      /\ ~j.cancelled => \E k \in js : ~k.cancelled /\ k.epoch = j.epoch
    BY DEF JobsFrom
  <2>1. PICK k \in js : j = k \/ j = [k EXCEPT !.cancelled = TRUE]
    OBVIOUS
  <2>2. JobShape(k)
    OBVIOUS
  <2>3. CASE j = k
    BY <2>2, <2>3
  <2>4. CASE j = [k EXCEPT !.cancelled = TRUE]
    BY <2>2, <2>4, CancelledJob
  <2> QED
    BY <2>1, <2>3, <2>4
<1>t. todo \subseteq Chunks
  OBVIOUS
<1> HIDE DEF keep, chunks, finished, pruned, left, todo
<1>4. CASE /\ Start(n, pruned, left, todo, target)
           /\ Report(n, pruned, pruned.finished)
  <2>1. /\ DOMAIN run' = Nodes /\ DOMAIN jobs' = Nodes /\ DOMAIN acted' = Nodes
        /\ \A m \in Nodes \ {n} :
              run'[m] = run[m] /\ jobs'[m] = jobs[m] /\ acted'[m] = acted[m]
        /\ RunShape(run'[n])
        /\ run'[n].open = pruned.open /\ run'[n].highest = pruned.highest
        /\ run'[n].position = pruned.position /\ run'[n].failure = pruned.failure
        /\ run'[n].epoch = pruned.epoch
        /\ jobs'[n] = left \cup {NewJob(n, c, target[c], pruned) : c \in todo}
        /\ \E started : /\ ActsOn(n, sync[n].request.version, started)
                        /\ \A c \in Chunks : started[c] \in {0, target[c]}
    BY <1>2, <1>4, StartEffect, Zenon
  <2>2. /\ sync'[n] = NoSync /\ DOMAIN sync' = Nodes /\ DOMAIN calls' = Nodes
        /\ \A m \in Nodes \ {n} : sync'[m] = sync[m] /\ calls'[m] = calls[m]
        /\ Answered(n)
    BY <1>2, <1>4, ReportEffect DEF RunShape
  <2>4. Settles(n, r, target)
    BY <1>2, <2>1, <2>2, Zenon DEF Settles
  <2>5. JobsFrom(jobs'[n], js, e)
    <3>1. ASSUME NEW c \in todo
          PROVE  /\ JobShape(NewJob(n, c, target[c], pruned))
                 /\ NewJob(n, c, target[c], pruned).epoch = e
      <4>1. c \in Chunks /\ target[c] \in Nat
        BY <1>t DEF Attempts
      <4> QED
        BY <4>1, NewJobShape
    <3> QED
      BY <1>3, <2>1, <3>1 DEF JobsFrom
  <2> QED
    BY <2>4, <2>5
<1>5. CASE /\ run' = [run EXCEPT ![n] = pruned]
           /\ jobs' = [jobs EXCEPT ![n] = left]
           /\ Proceed(n, Claiming(n, todo, target, pruned.finished))
           /\ todo # {} /\ UNCHANGED acted
  <2> DEFINE next == Claiming(n, todo, target, pruned.finished)
  <2>1. /\ sync'[n] = next /\ DOMAIN sync' = Nodes /\ calls' = calls
        /\ \A m \in Nodes \ {n} : sync'[m] = sync[m]
    BY <1>5, ProceedEffect
  <2>2. /\ next.at = "marker" /\ SyncShape(next)
        /\ next.request = sync[n].request /\ next.live = sync[n].live
        /\ next.dropped = FALSE /\ next.target = target
    <3>1. Results(pruned.finished)
      BY <1>2 DEF RunShape
    <3>2. SomeChunks(todo)
      BY <1>5, <1>t DEF SomeChunks
    <3>3. next = Claiming(n, todo, target, pruned.finished)
      OBVIOUS
    <3> DEFINE fs == pruned.finished
    <3> HIDE DEF next, fs
    <3>4. next = Claiming(n, todo, target, fs) /\ Results(fs)
      BY <3>1, <3>3 DEF fs
    <3>5. SyncShape(next)
      BY <3>2, <3>4, ClaimingShape
    <3> QED
      BY <3>3, <3>5 DEF Claiming
  <2> HIDE DEF next
  <2>3. /\ DOMAIN run' = Nodes /\ DOMAIN jobs' = Nodes /\ run'[n] = pruned /\ jobs'[n] = left
        /\ \A m \in Nodes \ {n} : run'[m] = run[m] /\ jobs'[m] = jobs[m]
    BY <1>5 DEF Domains
  <2>4. Settles(n, r, target)
    BY <1>2, <1>5, <2>1, <2>2, <2>3 DEF Settles, Answered, Domains
  <2>5. JobsFrom(jobs'[n], js, e)
    BY <1>3, <2>3
  <2> QED
    BY <2>4, <2>5
<1> QED
  BY <1>1, <1>4, <1>5

(* The second outcome of reconcile: the raised attempts are to be fenced.   *)
Fences(n, r, raised) ==
    /\ DOMAIN run' = Nodes /\ DOMAIN jobs' = Nodes /\ DOMAIN sync' = Nodes
    /\ acted' = acted /\ calls' = calls
    /\ \A m \in Nodes \ {n} :
           run'[m] = run[m] /\ jobs'[m] = jobs[m] /\ sync'[m] = sync[m]
    /\ RunShape(run'[n])
    /\ run'[n].open = r.open /\ run'[n].highest = raised /\ run'[n].epoch = r.epoch
    /\ run'[n].position = r.position /\ run'[n].failure = r.failure
    /\ sync'[n].at = "fence" /\ SyncShape(sync'[n])
    /\ sync'[n].request = sync[n].request /\ sync'[n].live = sync[n].live
    /\ sync'[n].dropped = FALSE
    /\ sync'[n].position = r.position /\ sync'[n].payload = raised

(* Its first: a run that failed is refused.                                 *)
Refuses(n, r) ==
    /\ run' = [run EXCEPT ![n] = r]
    /\ Reply(n, "refused", {})
    /\ UNCHANGED <<jobs, acted>>

(* The run reconcile goes on with: cancelled when the request says so.      *)
Advised(n, r) == [r EXCEPT !.cancelled = @ \/ sync[n].request.stopping]

(* The fields of a request.                                                 *)
LEMMA RequestFields ==
    ASSUME NEW q \in Request
    PROVE  q.version \in Version /\ q.held \in Attempts
BY DEF Request, Attempts

(* Raising keeps attempts, and never lowers one.                            *)
LEMMA RaisedAttempts ==
    ASSUME NEW held \in Attempts, NEW highest \in Attempts
    PROVE  /\ Raised(held, highest) \in Attempts /\ Target(held, highest) \in Attempts
           /\ \A c \in Chunks : /\ Raised(held, highest)[c] >= highest[c]
                               /\ Raised(held, highest)[c] >= held[c]
                               /\ Target(held, highest)[c] <= Raised(held, highest)[c]
BY DEF Raised, Target, Attempts

(* A stop cancels the jobs; they are otherwise the same.                    *)
LEMMA StoppedJobs ==
    ASSUME NEW old, \A j \in old : JobShape(j), NEW stop, NEW js,
           js = IF stop THEN Cancelled(old) ELSE old
    PROVE  /\ \A j \in js : JobShape(j)
           /\ \A j \in js : ~j.cancelled => \E k \in old : ~k.cancelled /\ k.epoch = j.epoch
<1>1. CASE ~stop
  <2>1. js = old
    BY <1>1
  <2>2. \A j \in js : ~j.cancelled => \E k \in old : ~k.cancelled /\ k.epoch = j.epoch
    BY <2>1, Zenon
  <2>3. \A j \in js : JobShape(j)
    BY <2>1
  <2> QED
    BY <2>2, <2>3, Zenon
<1>2. CASE stop
  <2>1. js = {[k EXCEPT !.cancelled = TRUE] : k \in old}
    BY <1>2 DEF Cancelled
  <2>2. \A j \in js : JobShape(j) /\ j.cancelled = TRUE
    BY <2>1, CancelledJob
  <2> QED
    BY <2>2
<1> QED
  BY <1>1, <1>2

(* The run reconcile goes on with differs only in being cancelled.          *)
LEMMA AdvisedRun ==
    ASSUME NEW n, NEW r, RunShape(r)
    PROVE  LET r1 == Advised(n, r)
           IN  /\ RunShape(r1) /\ r1.open = r.open /\ r1.highest = r.highest
               /\ r1.position = r.position /\ r1.failure = r.failure /\ r1.epoch = r.epoch
<1> DEFINE r1 == Advised(n, r)
<1>1. DOMAIN r = RunFields
  BY DEF RunShape
<1>2. /\ DOMAIN r1 = RunFields /\ r1.open = r.open /\ r1.highest = r.highest
      /\ r1.position = r.position /\ r1.failure = r.failure /\ r1.epoch = r.epoch
      /\ r1.finished = r.finished
  BY <1>1 DEF Advised, RunFields
<1> HIDE DEF r1
<1>3. RunShape(r1)
  BY <1>2 DEF RunShape
<1> QED
  BY <1>2, <1>3 DEF r1

(* Reconcile has three outcomes: a refusal, a fence to write, or a settled  *)
(* run; jobs are only kept, cancelled or started for the request.           *)
LEMMA ReconcileEffect ==
    ASSUME Domains, NEW n \in Nodes, NEW r, RunShape(r), \A j \in jobs[n] : JobShape(j),
           sync[n].request \in Request, Reconcile(n, r)
    PROVE  LET held == sync[n].request.held
               raised == Raised(held, r.highest)
           IN  /\ \/ r.failure /\ Refuses(n, r)
                  \/ ~r.failure /\ raised # r.highest /\ Fences(n, r, raised)
                  \/ /\ ~r.failure /\ raised = r.highest
                     /\ Settles(n, Advised(n, r), Target(held, r.highest))
               /\ JobsFrom(jobs'[n], jobs[n], sync[n].request.version.epoch)
<1> DEFINE held == sync[n].request.held
           stop == sync[n].request.stopping
           r1 == [r EXCEPT !.cancelled = @ \/ stop]
           js == IF stop THEN Cancelled(jobs[n]) ELSE jobs[n]
           raised == Raised(held, r.highest)
           e == sync[n].request.version.epoch
           next == [at |-> "fence", request |-> sync[n].request, live |-> sync[n].live,
                    dropped |-> FALSE, position |-> r.position, payload |-> raised]
           rr == [r1 EXCEPT !.highest = raised, !.unknown = FALSE]
<1>1. \/ r.failure /\ Refuses(n, r)
      \/ /\ ~r.failure /\ raised # r.highest
         /\ run' = [run EXCEPT ![n] = rr]
         /\ jobs' = [jobs EXCEPT ![n] = js]
         /\ Proceed(n, next)
         /\ UNCHANGED acted
      \/ /\ ~r.failure /\ raised = r.highest
         /\ Settle(n, r1, js, Target(held, r.highest))
  BY Zenon DEF Reconcile, Refuses
<1>2. /\ RunShape(r1) /\ r1.open = r.open /\ r1.highest = r.highest
      /\ r1.position = r.position /\ r1.failure = r.failure /\ r1.epoch = r.epoch
  BY AdvisedRun DEF Advised
<1>3. /\ \A j \in js : JobShape(j)
      /\ \A j \in js : ~j.cancelled => \E k \in jobs[n] : ~k.cancelled /\ k.epoch = j.epoch
  <2>1. js = IF stop THEN Cancelled(jobs[n]) ELSE jobs[n]
    OBVIOUS
  <2> HIDE DEF js, stop
  <2> QED
    BY <2>1, StoppedJobs
<1>4. Advised(n, r) = r1
  BY DEF Advised
<1>5. /\ raised \in Attempts /\ Target(held, r.highest) \in Attempts
  BY RequestFields, RaisedAttempts DEF RunShape
<1>6. CASE r.failure /\ Refuses(n, r)
  <2>1. jobs' = jobs
    BY <1>6 DEF Refuses
  <2> QED
    BY <1>6, <2>1 DEF JobsFrom
<1>7. CASE /\ ~r.failure /\ raised # r.highest
           /\ run' = [run EXCEPT ![n] = rr]
           /\ jobs' = [jobs EXCEPT ![n] = js]
           /\ Proceed(n, next)
           /\ UNCHANGED acted
  <2> HIDE DEF r1, raised
  <2>1. /\ RunShape(rr) /\ rr.open = r.open /\ rr.highest = raised
        /\ rr.position = r.position /\ rr.failure = r.failure /\ rr.epoch = r.epoch
    <3>1. DOMAIN r1 = RunFields
      BY <1>2 DEF RunShape
    <3>2. /\ DOMAIN rr = RunFields /\ rr.open = r.open /\ rr.highest = raised
          /\ rr.position = r.position /\ rr.failure = r.failure /\ rr.epoch = r.epoch
          /\ rr.finished = r1.finished
      BY <1>2, <3>1 DEF RunFields
    <3> HIDE DEF rr
    <3> QED
      BY <1>2, <1>5, <3>2 DEF RunShape
  <2>2. /\ next.at = "fence" /\ SyncShape(next)
        /\ next.request = sync[n].request /\ next.live = sync[n].live
        /\ next.dropped = FALSE /\ next.position = r.position /\ next.payload = raised
    <3>1. /\ next.at = "fence" /\ DOMAIN next = FenceFields
          /\ next.request = sync[n].request /\ next.live = sync[n].live
          /\ next.dropped = FALSE /\ next.position = r.position /\ next.payload = raised
      BY DEF SyncFields, FenceFields
    <3> HIDE DEF next
    <3> QED
      BY <1>5, <3>1 DEF SyncShape, StageFields, Stages, RunShape
  <2> HIDE DEF rr, js, next
  <2>3. /\ DOMAIN run' = Nodes /\ DOMAIN jobs' = Nodes /\ run'[n] = rr /\ jobs'[n] = js
        /\ \A m \in Nodes \ {n} : run'[m] = run[m] /\ jobs'[m] = jobs[m]
    BY <1>7 DEF Domains
  <2>4. /\ sync'[n] = next /\ DOMAIN sync' = Nodes /\ calls' = calls
        /\ \A m \in Nodes \ {n} : sync'[m] = sync[m]
    BY <1>7, ProceedEffect
  <2>5. Fences(n, r, raised)
    BY <1>7, <2>1, <2>2, <2>3, <2>4 DEF Fences
  <2>6. JobsFrom(jobs'[n], jobs[n], e)
    BY <1>3, <2>3 DEF JobsFrom
  <2> QED
    BY <1>7, <2>5, <2>6 DEF raised
<1>8. CASE /\ ~r.failure /\ raised = r.highest
           /\ Settle(n, r1, js, Target(held, r.highest))
  <2> HIDE DEF r1, js
  <2>1. /\ Settles(n, r1, Target(held, r.highest))
        /\ JobsFrom(jobs'[n], js, e)
    BY <1>2, <1>3, <1>5, <1>8, SettleEffect
  <2>2. JobsFrom(jobs'[n], jobs[n], e)
    BY <1>3, <2>1 DEF JobsFrom
  <2> QED
    BY <1>4, <1>8, <2>1, <2>2
<1> QED
  BY <1>1, <1>6, <1>7, <1>8

-----------------------------------------------------------------------------

(* The control fence and the disk operations.                               *)

(* Not being stale is a preorder on versions.                               *)
LEMMA StaleOrder ==
    /\ \A v \in Version : ~Stale(v, v)
    /\ \A u, v, w \in Version : ~Stale(w, v) /\ ~Stale(v, u) => ~Stale(w, u)
BY DEF Version, Stale

(* What the control check leaves on disk.                                   *)
LEMMA CheckedIs ==
    ASSUME NEW d, NEW v
    PROVE  \/ /\ Verdict(d, v) = "accepted" /\ ~Stale(v, d.control)
              /\ v.epoch > d.control.epoch => ~d.dir.exists
              /\ Checked(d, v) = [d EXCEPT !.control = v]
           \/ /\ Verdict(d, v) \in {"stale", "recovery"}
              /\ Checked(d, v) = d \/ Checked(d, v) = [d EXCEPT !.barred = TRUE]
<1> DEFINE bars == d.barred \/ (v.epoch > d.control.epoch /\ d.dir.exists)
<1>1. CASE Stale(v, d.control)
  <2>1. Verdict(d, v) = "stale"
    BY <1>1 DEF Verdict
  <2>2. Checked(d, v) = d
    BY <2>1 DEF Checked
  <2> QED
    BY <2>1, <2>2
<1>2. CASE ~Stale(v, d.control) /\ bars
  <2>1. Verdict(d, v) = "recovery"
    BY <1>2 DEF Verdict
  <2>2. Checked(d, v) = [d EXCEPT !.barred = TRUE]
    BY <2>1 DEF Checked
  <2> QED
    BY <2>1, <2>2
<1>3. CASE ~Stale(v, d.control) /\ ~bars
  <2>1. Verdict(d, v) = "accepted"
    BY <1>3 DEF Verdict
  <2>2. Checked(d, v) = [d EXCEPT !.control = v]
    BY <2>1 DEF Checked
  <2> QED
    BY <1>3, <2>1, <2>2
<1> QED
  BY <1>1, <1>2, <1>3

(* A payload has as many entries as chunks at most.                         *)
LEMMA LengthNat ==
    ASSUME NEW p \in Attempts
    PROVE  Length(p) \in Nat
<1>1. {c \in DOMAIN p : p[c] > 0} \in SUBSET Chunks
  BY DEF Attempts
<1> QED
  BY <1>1, LastChunkFacts, FS_Subset, FS_CardinalityType DEF Length

(* Rewriting a slot keeps the file's size.                                  *)
LEMMA RewriteShape ==
    ASSUME NEW f \in Files, NEW at \in Positions, NEW slot \in Slots
    PROVE  RewriteSlot(f, at, slot) \in Files /\ RewriteSlot(f, at, slot).stride = f.stride
<1> DEFINE o == Overwritten(at)
           ss == [f.slots EXCEPT ![o] = slot]
<1>1. f.slots \in [1 .. 2 -> Slots] /\ f.stride \in Nat
  BY DEF Files
<1>2. ss \in [1 .. 2 -> Slots]
  <2> HIDE DEF o
  <2> QED
    BY <1>1
<1>3. RewriteSlot(f, at, slot) = [stride |-> f.stride, slots |-> ss]
  BY DEF RewriteSlot, Files
<1> HIDE DEF ss
<1> QED
  BY <1>1, <1>2, <1>3 DEF Files

(* A write leaves a file, of the same size unless it is a new one.          *)
LEMMA WrittenShape ==
    ASSUME NEW f \in Files, NEW at \in Positions, NEW p \in Attempts
    PROVE  /\ NextSlot(at, p) \in Slots
           /\ Written(f, at, p) \in Files
           /\ InPlace(at, p) => Written(f, at, p) = RewriteSlot(f, at, NextSlot(at, p))
           /\ InPlace(at, p) => Written(f, at, p).stride = f.stride
           /\ ~InPlace(at, p) => Written(f, at, p) = Create(at, p)
           /\ ~InPlace(at, p) => Written(f, at, p).stride = StrideFor(p)
<1>1. NextSlot(at, p) \in Slots
  BY DEF NextSlot, Slots, Positions
<1>2. StrideFor(p) \in Nat
  BY LengthNat, StrideAssumption DEF StrideFor
<1>3. /\ Create(at, p) \in Files /\ Create(at, p).stride = StrideFor(p)
  <2>1. <<NextSlot(at, p), NextSlot(at, p)>> \in [1 .. 2 -> Slots]
    BY <1>1
  <2> QED
    BY <1>2, <2>1 DEF Create, Files
<1>4. /\ RewriteSlot(f, at, NextSlot(at, p)) \in Files
      /\ RewriteSlot(f, at, NextSlot(at, p)).stride = f.stride
  BY <1>1, RewriteShape
<1> QED
  BY <1>1, <1>3, <1>4 DEF Written

(* What an interrupted write leaves is a file too.                          *)
LEMMA LeftShape ==
    ASSUME NEW f \in Files, NEW at \in Positions, NEW p \in Attempts,
           NEW g \in LeftBy(f, at, p)
    PROVE  /\ g \in Files
           /\ \/ g = f \/ g = Written(f, at, p)
              \/ InPlace(at, p) /\ g = RewriteSlot(f, at, Torn)
           /\ g.stride = f.stride \/ ~InPlace(at, p)
<1>1. \/ g = f \/ g = Written(f, at, p)
      \/ InPlace(at, p) /\ g = RewriteSlot(f, at, Torn)
  BY DEF LeftBy
<1>2. /\ RewriteSlot(f, at, Torn) \in Files
      /\ RewriteSlot(f, at, Torn).stride = f.stride
  BY RewriteShape DEF Slots
<1> QED
  BY <1>1, <1>2, WrittenShape

(* What a disk operation may leave, whether it succeeds, fails or is cut    *)
(* short: only the control check moves the control fence, only forward;     *)
(* only cleanup and opening touch the directory; only cleanup and the       *)
(* fence's own write change the fence, and a write in place not its size.   *)
DiskStep(n, x) ==
    LET d == disk[n]
        s == sync[n]
    IN  /\ DiskShape(x)
        /\ ~Stale(x.control, d.control)
        /\ s.at # "control" => x.control = d.control
        /\ s.at \notin {"clean", "open"} => x.dir.exists = d.dir.exists /\ x.dir.epoch = d.dir.epoch
        /\ s.at = "open" /\ d.dir.exists => x.dir.exists /\ x.dir.epoch = d.dir.epoch
        /\ x.dir.exists => x.dir.epoch = x.control.epoch
        /\ s.at \notin {"clean", "fence"} => x.dir.fence = d.dir.fence
        /\ s.at = "fence" => \/ x.dir.fence.stride = d.dir.fence.stride
                             \/ ~InPlace(s.position, s.payload)

(* The effect of the operation under way, stage by stage.                   *)
LEMMA EffectIs ==
    ASSUME NEW n
    PROVE  LET d == disk[n]
               s == sync[n]
           IN  /\ s.at = "control" => Effect(n) = Checked(d, s.request.version)
               /\ s.at = "clean" => Effect(n) = Cleaned(d, s.request, jobs[n] # {})
               /\ s.at = "open" => Effect(n) = Opened(d, s.request)
               /\ s.at = "fence" => Effect(n) = [d EXCEPT !.dir.fence =
                                                   Written(d.dir.fence, s.position, s.payload)]
               /\ s.at = "marker" => Effect(n) = Marked(d, s.chunk, s.target[s.chunk])
BY DEF Effect

(* Replacing the directory leaves the rest of a disk alone.                 *)
LEMMA NewDirectory ==
    ASSUME NEW d, DiskShape(d), NEW dir, DOMAIN dir = DirFields, dir.fence \in Files,
           dir.markers \subseteq Chunks \X Nat
    PROVE  LET x == [d EXCEPT !.dir = dir]
           IN  DiskShape(x) /\ x.control = d.control /\ x.dir = dir
BY DEF DiskShape, DiskFields

(* A file is one when there is none.                                        *)
LEMMA NoFileShape == NoFile \in Files
BY DEF NoFile, Files, Slots

(* The control check only moves the control fence, and only to a version    *)
(* that is not older, and not past the epoch of files it keeps.             *)
LEMMA ControlStep ==
    ASSUME NEW n, NodeInv(n), sync[n].at = "control", SyncShape(sync[n])
    PROVE  /\ DiskStep(n, Effect(n))
           /\ \/ /\ Verdict(disk[n], sync[n].request.version) = "accepted"
                 /\ Effect(n).control = sync[n].request.version
              \/ /\ Verdict(disk[n], sync[n].request.version) \in {"stale", "recovery"}
                 /\ Effect(n).control = disk[n].control
           /\ Effect(n).dir = disk[n].dir
<1> DEFINE d == disk[n]
           v == sync[n].request.version
           x == Effect(n)
<1>1. x = Checked(d, v)
  BY EffectIs
<1>2. DiskShape(d) /\ v \in Version /\ d.control \in Version
  BY RequestFields DEF NodeInv, NodeShape, DiskShape, SyncShape
<1>3. d.dir.exists => d.dir.epoch = d.control.epoch
  BY DEF NodeInv, DirectoryIsCurrent
<1> HIDE DEF d, v, x
<1>4. CASE /\ Verdict(d, v) = "accepted" /\ ~Stale(v, d.control)
           /\ v.epoch > d.control.epoch => ~d.dir.exists
           /\ Checked(d, v) = [d EXCEPT !.control = v]
  <2>1. DiskShape(x) /\ x.control = v /\ x.dir = d.dir
    BY <1>1, <1>2, <1>4 DEF DiskShape, DiskFields
  <2>2. d.dir.exists => d.dir.epoch = v.epoch
    BY <1>2, <1>3, <1>4 DEF Version, Stale
  <2>3. DiskStep(n, x)
    BY <1>4, <2>1, <2>2 DEF DiskStep, d
  <2> QED
    BY <1>4, <2>1, <2>3 DEF x, d, v
<1>5. CASE /\ Verdict(d, v) \in {"stale", "recovery"}
           /\ Checked(d, v) = d \/ Checked(d, v) = [d EXCEPT !.barred = TRUE]
  <2>1. DiskShape(x) /\ x.control = d.control /\ x.dir = d.dir
    BY <1>1, <1>2, <1>5 DEF DiskShape, DiskFields
  <2>2. DiskStep(n, x)
    BY <1>2, <1>3, <2>1, StaleOrder DEF DiskStep, d
  <2> QED
    BY <1>5, <2>1, <2>2 DEF x, d, v
<1> QED
  BY <1>4, <1>5, CheckedIs

(* Cleanup forgets the directory or compacts it; nothing else.              *)
LEMMA CleanStep ==
    ASSUME NEW n, NodeInv(n), sync[n].at = "clean", SyncShape(sync[n])
    PROVE  DiskStep(n, Effect(n))
<1> DEFINE d == disk[n]
           q == sync[n].request
           x == Effect(n)
           compacted == [d.dir EXCEPT !.compacted = TRUE, !.fence = NoFile, !.markers = {}]
<1>1. \/ x = d
      \/ x = [d EXCEPT !.dir = EmptyDirectory]
      \/ d.dir.exists /\ x = [d EXCEPT !.dir.compacted = TRUE, !.dir.fence = NoFile, !.dir.markers = {}]
  BY EffectIs DEF Cleaned
<1>2. DiskShape(d) /\ d.control \in Version
  BY DEF NodeInv, NodeShape, DiskShape
<1>3. d.dir.exists => d.dir.epoch = d.control.epoch
  BY DEF NodeInv, DirectoryIsCurrent
<1>4. CASE x = d
  BY <1>2, <1>3, <1>4, StaleOrder DEF DiskStep
<1>5. CASE x = [d EXCEPT !.dir = EmptyDirectory]
  <2>1. /\ DOMAIN EmptyDirectory = DirFields /\ EmptyDirectory.fence \in Files
        /\ EmptyDirectory.markers \subseteq Chunks \X Nat /\ EmptyDirectory.exists = FALSE
    BY NoFileShape DEF EmptyDirectory, DirFields
  <2>2. DiskShape(x) /\ x.control = d.control /\ x.dir = EmptyDirectory
    <3> HIDE DEF d, x
    <3> QED
      BY <1>2, <1>5, <2>1, NewDirectory
  <2> QED
    BY <1>2, <2>1, <2>2, StaleOrder DEF DiskStep
<1>6. CASE /\ d.dir.exists
           /\ x = [d EXCEPT !.dir.compacted = TRUE, !.dir.fence = NoFile, !.dir.markers = {}]
  <2>1. DOMAIN d = DiskFields /\ DOMAIN d.dir = DirFields
    BY <1>2 DEF DiskShape
  <2>2. x = [d EXCEPT !.dir = compacted]
    <3> HIDE DEF d, x
    <3> QED
      BY <1>6, <2>1 DEF DiskFields, DirFields
  <2>3. /\ DOMAIN compacted = DirFields /\ compacted.fence = NoFile /\ compacted.markers = {}
        /\ compacted.exists = d.dir.exists /\ compacted.epoch = d.dir.epoch
    BY <2>1 DEF DirFields
  <2>4. DiskShape(x) /\ x.control = d.control /\ x.dir = compacted
    <3> HIDE DEF d, x, compacted
    <3> QED
      BY <1>2, <2>2, <2>3, NewDirectory, NoFileShape
  <2> HIDE DEF compacted
  <2> QED
    BY <1>2, <1>3, <2>3, <2>4, StaleOrder DEF DiskStep
<1> QED
  BY <1>1, <1>4, <1>5, <1>6

(* Opening creates a directory of the request's epoch, unless there is one. *)
LEMMA OpenStep ==
    ASSUME NEW n, NodeInv(n), sync[n].at = "open", SyncShape(sync[n])
    PROVE  /\ DiskStep(n, Effect(n))
           /\ ~disk[n].dir.compacted =>
                /\ Effect(n).dir.exists
                /\ Effect(n).dir.epoch = sync[n].request.version.epoch
                /\ Effect(n).dir.compacted = disk[n].dir.compacted
           /\ disk[n].dir.compacted => Effect(n) = disk[n]
<1> DEFINE d == disk[n]
           q == sync[n].request
           x == Effect(n)
           e == IF d.dir.exists THEN d.dir.epoch ELSE q.version.epoch
           opened == [d.dir EXCEPT !.exists = TRUE, !.epoch = e]
<1>1. /\ d.dir.compacted => x = d
      /\ ~d.dir.compacted => x = [d EXCEPT !.dir.exists = TRUE, !.dir.epoch = e]
  BY EffectIs DEF Opened
<1>2. DiskShape(d) /\ d.control \in Version
  BY DEF NodeInv, NodeShape, DiskShape
<1>3. d.dir.exists => d.dir.epoch = d.control.epoch
  BY DEF NodeInv, DirectoryIsCurrent
<1>4. q.version = d.control
  BY DEF NodeInv, ControlCovers, PastControl
<1>5. CASE d.dir.compacted
  BY <1>1, <1>2, <1>3, <1>5, StaleOrder DEF DiskStep
<1>6. CASE ~d.dir.compacted
  <2>1. DOMAIN d = DiskFields /\ DOMAIN d.dir = DirFields
    BY <1>2 DEF DiskShape
  <2>2. x = [d EXCEPT !.dir = opened]
    <3> HIDE DEF d, x, e
    <3> QED
      BY <1>1, <1>6, <2>1 DEF DiskFields, DirFields
  <2>3. e = d.control.epoch
    BY <1>3, <1>4
  <2>4. /\ DOMAIN opened = DirFields /\ opened.fence = d.dir.fence
        /\ opened.markers = d.dir.markers /\ opened.exists = TRUE /\ opened.epoch = e
        /\ opened.compacted = d.dir.compacted
    <3> HIDE DEF e
    <3> QED
      BY <2>1 DEF DirFields
  <2>5. DiskShape(x) /\ x.control = d.control /\ x.dir = opened
    <3>1. d.dir.fence \in Files /\ d.dir.markers \subseteq Chunks \X Nat
      BY <1>2 DEF DiskShape
    <3> HIDE DEF d, x, opened
    <3> QED
      BY <1>2, <2>2, <2>4, <3>1, NewDirectory
  <2> HIDE DEF opened, e
  <2> QED
    BY <1>2, <1>3, <1>4, <1>6, <2>3, <2>4, <2>5, StaleOrder DEF DiskStep
<1> QED
  BY <1>5, <1>6

FenceReplaced(d, f, x) ==
    /\ DiskShape(x) /\ x.control = d.control /\ x.dir.fence = f
    /\ x.dir.exists = d.dir.exists /\ x.dir.epoch = d.dir.epoch
    /\ x.dir.compacted = d.dir.compacted

(* Replacing the fence file changes nothing else of the disk.               *)
LEMMA NewFence ==
    ASSUME NEW n, NodeInv(n), NEW f \in Files, NEW x, x = [disk[n] EXCEPT !.dir.fence = f]
    PROVE  FenceReplaced(disk[n], f, x)
<1> DEFINE d == disk[n]
           new == [d.dir EXCEPT !.fence = f]
<1>1. DiskShape(d)
  BY DEF NodeInv, NodeShape
<1>2. DOMAIN d = DiskFields /\ DOMAIN d.dir = DirFields /\ d.dir.markers \subseteq Chunks \X Nat
  BY <1>1 DEF DiskShape
<1>3. x = [d EXCEPT !.dir = new]
  <2> HIDE DEF d
  <2> QED
    BY <1>2 DEF DiskFields, d
<1>4. /\ DOMAIN new = DirFields /\ new.fence = f /\ new.markers = d.dir.markers
      /\ new.exists = d.dir.exists /\ new.epoch = d.dir.epoch
      /\ new.compacted = d.dir.compacted
  BY <1>2 DEF DirFields
<1>5. DiskShape(x) /\ x.control = d.control /\ x.dir = new
  <2> HIDE DEF d, new
  <2> QED
    BY <1>1, <1>2, <1>3, <1>4 DEF DiskShape, DiskFields
<1> HIDE DEF new
<1> QED
  BY <1>4, <1>5 DEF FenceReplaced

FenceStepped(n, f, x) ==
    DiskStep(n, x) /\ x.dir.fence = f /\ x.dir.compacted = disk[n].dir.compacted

(* A fence write replaces the fence file.                                   *)
LEMMA FenceStep ==
    ASSUME NEW n, NodeInv(n), sync[n].at = "fence", SyncShape(sync[n]), NEW f,
           \/ f = Written(disk[n].dir.fence, sync[n].position, sync[n].payload)
           \/ f \in LeftBy(disk[n].dir.fence, sync[n].position, sync[n].payload),
           NEW x, x = [disk[n] EXCEPT !.dir.fence = f]
    PROVE  FenceStepped(n, f, x)
<1> DEFINE d == disk[n]
           at == sync[n].position
           p == sync[n].payload
<1>1. d.dir.fence \in Files /\ at \in Positions /\ p \in Attempts /\ d.control \in Version
  BY DEF NodeInv, NodeShape, DiskShape, SyncShape
<1>2. f \in Files /\ (f.stride = d.dir.fence.stride \/ ~InPlace(at, p))
  <2> HIDE DEF d, at, p
  <2>1. CASE f = Written(d.dir.fence, at, p)
    BY <1>1, <2>1, WrittenShape
  <2>2. CASE f \in LeftBy(d.dir.fence, at, p)
    BY <1>1, <2>2, LeftShape
  <2> QED
    BY <2>1, <2>2 DEF d, at, p
<1>3. /\ DiskShape(x) /\ x.control = d.control /\ x.dir.fence = f
      /\ x.dir.exists = d.dir.exists /\ x.dir.epoch = d.dir.epoch
      /\ x.dir.compacted = d.dir.compacted
  <2>1. FenceReplaced(disk[n], f, x)
    BY <1>2, NewFence
  <2> QED
    BY <2>1 DEF FenceReplaced
<1>4. d.dir.exists => d.dir.epoch = d.control.epoch
  BY DEF NodeInv, DirectoryIsCurrent
<1>5. ~Stale(x.control, d.control)
  BY <1>1, <1>3, StaleOrder
<1> QED
  BY <1>2, <1>3, <1>4, <1>5 DEF DiskStep, FenceStepped

(* A claimed marker is one of the directory's.                              *)
LEMMA MarkerStep ==
    ASSUME NEW n, NodeInv(n), sync[n].at = "marker", SyncShape(sync[n])
    PROVE  /\ DiskStep(n, Effect(n))
           /\ Effect(n).dir.compacted = disk[n].dir.compacted
<1> DEFINE d == disk[n]
           s == sync[n]
           ms == d.dir.markers \cup {<<s.chunk, s.target[s.chunk]>>}
           x == Effect(n)
           new == [d.dir EXCEPT !.markers = ms]
<1>1. x = [d EXCEPT !.dir.markers = ms]
  BY EffectIs DEF Marked
<1>2. DiskShape(d) /\ d.control \in Version
  BY DEF NodeInv, NodeShape, DiskShape
<1>3. DOMAIN d = DiskFields /\ DOMAIN d.dir = DirFields /\ d.dir.fence \in Files
  BY <1>2 DEF DiskShape
<1>4. ms \subseteq Chunks \X Nat
  <2>1. s.chunk \in Chunks /\ s.target[s.chunk] \in Nat
    BY DEF SyncShape, Attempts
  <2>2. d.dir.markers \subseteq Chunks \X Nat
    BY <1>2 DEF DiskShape
  <2> QED
    BY <2>1, <2>2
<1> HIDE DEF ms
<1>5. x = [d EXCEPT !.dir = new]
  <2> HIDE DEF d, x
  <2> QED
    BY <1>1, <1>3 DEF DiskFields
<1>6. /\ DOMAIN new = DirFields /\ new.fence = d.dir.fence /\ new.markers = ms
      /\ new.exists = d.dir.exists /\ new.epoch = d.dir.epoch
      /\ new.compacted = d.dir.compacted
  BY <1>3 DEF DirFields
<1>7. DiskShape(x) /\ x.control = d.control /\ x.dir = new
  <2> HIDE DEF d, new, x
  <2> QED
    BY <1>2, <1>3, <1>4, <1>5, <1>6, NewDirectory
<1> HIDE DEF new
<1>8. d.dir.exists => d.dir.epoch = d.control.epoch
  BY DEF NodeInv, DirectoryIsCurrent
<1>9. ~Stale(x.control, d.control)
  BY <1>2, <1>7, StaleOrder
<1> QED
  BY <1>6, <1>7, <1>8, <1>9 DEF DiskStep

(* The operation under way, ended or cut short, is a step of the disk.      *)
LEMMA OperationStep ==
    ASSUME NEW n, NodeInv(n)
    PROVE  /\ DiskStep(n, disk[n])
           /\ sync[n] # NoSync => DiskStep(n, Effect(n))
           /\ \A x \in Remains(n) : DiskStep(n, x)
<1>1. DiskStep(n, disk[n])
  <2>1. DiskShape(disk[n]) /\ disk[n].control \in Version
    BY DEF NodeInv, NodeShape, DiskShape
  <2>2. disk[n].dir.exists => disk[n].dir.epoch = disk[n].control.epoch
    BY DEF NodeInv, DirectoryIsCurrent
  <2> QED
    BY <2>1, <2>2, StaleOrder DEF DiskStep
<1>2. ASSUME sync[n] # NoSync
      PROVE  SyncShape(sync[n]) /\ sync[n].at \in Stages
  BY <1>2 DEF NodeInv, NodeShape, SyncShape
<1>3. ASSUME sync[n] # NoSync
      PROVE  DiskStep(n, Effect(n))
  <2>1. CASE sync[n].at = "control"
    BY <1>2, <1>3, <2>1, ControlStep
  <2>2. CASE sync[n].at = "clean"
    BY <1>2, <1>3, <2>2, CleanStep
  <2>3. CASE sync[n].at = "open"
    BY <1>2, <1>3, <2>3, OpenStep
  <2>4. CASE sync[n].at = "fence"
    <3>1. Effect(n) = [disk[n] EXCEPT !.dir.fence =
                         Written(disk[n].dir.fence, sync[n].position, sync[n].payload)]
      BY <2>4, EffectIs
    <3> QED
      BY <1>2, <1>3, <2>4, <3>1, FenceStep DEF FenceStepped
  <2>5. CASE sync[n].at = "marker"
    BY <1>2, <1>3, <2>5, MarkerStep
  <2> QED
    BY <1>2, <1>3, <2>1, <2>2, <2>3, <2>4, <2>5 DEF Stages
<1>4. ASSUME NEW x \in Remains(n)
      PROVE  DiskStep(n, x)
  <2>1. CASE sync[n] = NoSync
    <3>1. sync[n].at = "none"
      BY <2>1 DEF NoSync
    <3>2. x = disk[n]
      BY <3>1 DEF Remains
    <3> QED
      BY <1>1, <3>2
  <2>2. CASE sync[n] # NoSync /\ sync[n].at = "fence"
    <3>1. PICK f \in LeftBy(disk[n].dir.fence, sync[n].position, sync[n].payload) :
                 x = [disk[n] EXCEPT !.dir.fence = f]
      BY <2>2 DEF Remains
    <3> QED
      BY <1>2, <2>2, <3>1, FenceStep DEF FenceStepped
  <2>3. CASE sync[n] # NoSync /\ sync[n].at # "fence"
    <3>1. sync[n].at # "none" /\ sync[n].at # "fence"
      BY <1>2, <2>3 DEF Stages
    <3>2. x \in {disk[n], Effect(n)}
      BY <3>1 DEF Remains
    <3> QED
      BY <1>1, <1>3, <2>3, <3>2
  <2> QED
    BY <2>1, <2>2, <2>3
<1> QED
  BY <1>1, <1>3, <1>4

-----------------------------------------------------------------------------

(* What keeps a node's invariant.                                           *)

(* A step that does not touch a node keeps its invariant.                   *)
LEMMA NodeFrame ==
    ASSUME NEW m, NodeInv(m), disk'[m] = disk[m], run'[m] = run[m], jobs'[m] = jobs[m],
           sync'[m] = sync[m], acted'[m] = acted[m], calls'[m] = calls[m], late'[m] = late[m]
    PROVE  NodeInv(m)'
BY DEF NodeInv, NodeShape, CallerWaits, ControlCovers, DirectoryIsCurrent, RunHasDirectory,
       JobsAreCurrent, FenceFits

(* The run is the same but for what it publishes and refuses.               *)
RunKept(n) ==
    \/ run'[n] = run[n]
    \/ /\ RunShape(run'[n])
       /\ run'[n].open = run[n].open /\ run'[n].epoch = run[n].epoch
       /\ run'[n].highest = run[n].highest /\ run'[n].position = run[n].position

(* The jobs are some of those there were, or cancelled ones.                *)
JobsKept(n) ==
    \A j \in jobs'[n] :
        /\ JobShape(j)
        /\ ~j.cancelled => \E k \in jobs[n] : ~k.cancelled /\ k.epoch = j.epoch

(* A sync that ends without starting anything, whatever became of its disk  *)
(* operation, keeps the invariant.                                          *)
LEMMA SyncEnds ==
    ASSUME NEW n, NodeInv(n), DiskStep(n, disk'[n]), sync'[n] = NoSync,
           RunKept(n), JobsKept(n), acted'[n] = acted[n],
           calls'[n] = NoCall \/ CallShape(calls'[n]), late'[n] \subseteq Request
    PROVE  NodeInv(n)'
<1>1. sync'[n].at = "none"
  BY DEF NoSync
<1>2. NodeShape(n)'
  <2>1. DiskShape(disk'[n])
    BY DEF DiskStep
  <2>2. run'[n] = NoRun \/ RunShape(run'[n])
    BY DEF RunKept, NodeInv, NodeShape
  <2>3. \A j \in jobs'[n] : JobShape(j)
    BY DEF JobsKept
  <2> QED
    BY <2>1, <2>2, <2>3 DEF NodeInv, NodeShape
<1>3. CallerWaits(n)'
  BY DEF CallerWaits
<1>4. ControlCovers(n)'
  <2>1. /\ disk'[n].control \in Version /\ disk[n].control \in Version
        /\ acted[n].version \in Version
        /\ ~Stale(disk'[n].control, disk[n].control)
    BY DEF DiskStep, DiskShape, NodeInv, NodeShape
  <2>2. ~Stale(disk[n].control, acted[n].version)
    BY DEF NodeInv, ControlCovers
  <2>3. ~Stale(disk'[n].control, acted[n].version)
    BY <2>1, <2>2, StaleOrder
  <2> QED
    BY <1>1, <2>3 DEF ControlCovers, PastControl
<1>5. DirectoryIsCurrent(n)'
  BY DEF DirectoryIsCurrent, DiskStep
<1>6. run[n].open =>
         /\ disk'[n].dir.exists /\ disk'[n].dir.epoch = disk[n].dir.epoch
         /\ run[n].epoch = disk[n].dir.epoch
  BY DEF DiskStep, NodeInv, RunHasDirectory
<1>7. RunHasDirectory(n)'
  BY <1>1, <1>6 DEF RunHasDirectory, RunKept
<1>8. JobsAreCurrent(n)'
  <2> SUFFICES ASSUME NEW j \in jobs'[n], ~j.cancelled
               PROVE  run'[n].open /\ j.epoch = disk'[n].dir.epoch
    BY DEF JobsAreCurrent
  <2>1. PICK k \in jobs[n] : ~k.cancelled /\ k.epoch = j.epoch
    BY DEF JobsKept
  <2>2. run[n].open /\ k.epoch = disk[n].dir.epoch
    BY <2>1 DEF NodeInv, JobsAreCurrent
  <2> QED
    BY <1>6, <2>1, <2>2 DEF RunKept
<1>9. FenceFits(n)'
  <2>1. ASSUME run[n].open
        PROVE  \/ run[n].position = NoPosition
               \/ disk'[n].dir.fence.stride = run[n].position.stride
               \/ Length(run[n].highest) > run[n].position.stride
    <3>1. RunShape(run[n])
      BY <2>1 DEF NodeInv, NodeShape, NoRun
    <3>2. Length(run[n].highest) \in Nat /\ run[n].position.stride \in Nat
      BY <3>1, LengthNat DEF RunShape, Positions
    <3>3. \/ disk'[n].dir.fence.stride = disk[n].dir.fence.stride
          \/ ~InPlace(run[n].position, run[n].highest)
      BY <2>1 DEF DiskStep, NodeInv, FenceFits, RunHasDirectory
    <3>4. \/ run[n].position = NoPosition
          \/ disk[n].dir.fence.stride = run[n].position.stride
          \/ Length(run[n].highest) > run[n].position.stride
      BY <2>1 DEF NodeInv, FenceFits
    <3> QED
      BY <3>2, <3>3, <3>4 DEF InPlace
  <2> QED
    BY <1>1, <2>1 DEF FenceFits, RunKept
<1> QED
  BY <1>2, <1>3, <1>4, <1>5, <1>7, <1>8, <1>9 DEF NodeInv

(* Raising attempts never shortens a payload.                               *)
LEMMA LengthGrows ==
    ASSUME NEW p \in Attempts, NEW q \in Attempts, \A c \in Chunks : q[c] >= p[c]
    PROVE  Length(q) >= Length(p) /\ Length(q) \in Nat /\ Length(p) \in Nat
<1> DEFINE P == {c \in DOMAIN p : p[c] > 0}
           Q == {c \in DOMAIN q : q[c] > 0}
<1>1. Q \in SUBSET Chunks /\ P \in SUBSET Q
  BY DEF Attempts
<1>2. IsFiniteSet(Q)
  BY <1>1, LastChunkFacts, FS_Subset
<1>3. Cardinality(P) <= Cardinality(Q)
  BY <1>1, <1>2, FS_Subset
<1>4. Length(q) = Cardinality(Q) /\ Length(p) = Cardinality(P)
  BY DEF Length
<1>5. Length(q) \in Nat /\ Length(p) \in Nat
  BY LengthNat
<1> HIDE DEF P, Q
<1> QED
  BY <1>3, <1>4, <1>5

(* What a node acted on after a sync, if it acted.                          *)
Acts(n, target) ==
    \/ acted'[n] = acted[n]
    \/ /\ acted'[n].version = sync[n].request.version
       /\ acted'[n].attempts \in Attempts
       /\ \A c \in Chunks : acted'[n].attempts[c] \in {0, acted[n].attempts[c], target[c]}

(* ActsOn notes the request and what it started.                            *)
LEMMA ActsOnEffect ==
    ASSUME Domains, NEW n \in Nodes, NodeShape(n), NEW target \in Attempts, NEW started,
           \A c \in Chunks : started[c] \in {0, target[c]},
           ActsOn(n, sync[n].request.version, started)
    PROVE  Acts(n, target)
<1> DEFINE v == sync[n].request.version
           earlier == IF acted[n].version.epoch = v.epoch THEN acted[n].attempts ELSE NoGrants
           new == [version |-> v, attempts |-> Raised(started, earlier)]
<1>1. acted' = [acted EXCEPT ![n] = new]
  BY DEF ActsOn
<1>2. acted[n].attempts \in Attempts /\ NoGrants \in Attempts
  BY DEF NodeShape, NoGrants, Attempts
<1>3. /\ earlier \in Attempts
      /\ \A c \in Chunks : earlier[c] \in {0, acted[n].attempts[c]}
  <2>1. \A c \in Chunks : NoGrants[c] = 0
    BY DEF NoGrants
  <2> QED
    BY <1>2, <2>1
<1> HIDE DEF earlier
<1>4. /\ Raised(started, earlier) \in Attempts
      /\ \A c \in Chunks : Raised(started, earlier)[c] \in {started[c], earlier[c]}
  BY <1>3 DEF Raised, Attempts
<1>5. acted'[n] = new
  BY <1>1 DEF Domains
<1>6. /\ acted'[n].version = v /\ acted'[n].attempts = Raised(started, earlier)
  BY <1>5
<1> QED
  BY <1>3, <1>4, <1>6 DEF Acts

(* What a sync of a run r leaves when reconcile is over or waits for a disk *)
(* operation of its own.                                                    *)
Outcome(n, r, raised, target) ==
    /\ RunShape(run'[n]) /\ run'[n].highest = raised
    /\ run'[n].open = r.open /\ run'[n].epoch = r.epoch /\ run'[n].position = r.position
    /\ run'[n].failure = r.failure
    /\ Acts(n, target)
    /\ \/ sync'[n] = NoSync /\ Answered(n)
       \/ /\ SyncShape(sync'[n]) /\ sync'[n].at = "fence" /\ calls'[n] = calls[n]
          /\ sync'[n].request = sync[n].request /\ sync'[n].live = sync[n].live
          /\ sync'[n].dropped = FALSE
          /\ sync'[n].position = r.position /\ sync'[n].payload = raised
          /\ acted'[n] = acted[n]
       \/ /\ SyncShape(sync'[n]) /\ sync'[n].at = "marker" /\ calls'[n] = calls[n]
          /\ sync'[n].request = sync[n].request /\ sync'[n].live = sync[n].live
          /\ sync'[n].dropped = FALSE /\ sync'[n].target = target
    /\ JobsFrom(jobs'[n], jobs[n], sync[n].request.version.epoch)

(* A settled run is such an outcome.                                        *)
LEMMA SettledOutcome ==
    ASSUME Domains, NEW n \in Nodes, NodeShape(n), NEW r, NEW target \in Attempts,
           Settles(n, r, target), JobsFrom(jobs'[n], jobs[n], sync[n].request.version.epoch)
    PROVE  Outcome(n, r, r.highest, target)
<1>1. Acts(n, target)
  <2>1. CASE acted' = acted
    BY <2>1 DEF Acts
  <2>2. CASE acted' # acted
    <3>1. PICK started : /\ ActsOn(n, sync[n].request.version, started)
                         /\ \A c \in Chunks : started[c] \in {0, target[c]}
      BY <2>2 DEF Settles
    <3> QED
      BY <3>1, ActsOnEffect
  <2> QED
    BY <2>1, <2>2
<1> QED
  BY <1>1 DEF Outcome, Settles

(* Whatever reconcile does with a run r, the run only gains attempts.       *)
LEMMA ReconcileOutcome ==
    ASSUME Domains, NEW n \in Nodes, NodeShape(n), NEW r, RunShape(r),
           SyncShape(sync[n]), Reconcile(n, r)
    PROVE  LET held == sync[n].request.held
           IN  \/ /\ r.failure
                  /\ Outcome(n, r, r.highest, NoGrants) /\ sync'[n] = NoSync
                  /\ acted'[n] = acted[n]
               \/ /\ ~r.failure /\ Raised(held, r.highest) # r.highest
                  /\ Outcome(n, r, Raised(held, r.highest), NoGrants)
                  /\ sync'[n].at = "fence"
               \/ /\ ~r.failure /\ Raised(held, r.highest) = r.highest
                  /\ Outcome(n, r, r.highest, Target(held, r.highest))
                  /\ sync'[n] = NoSync \/ sync'[n].at = "marker"
<1> DEFINE held == sync[n].request.held
           raised == Raised(held, r.highest)
           e == sync[n].request.version.epoch
<1>1. sync[n].request \in Request /\ \A j \in jobs[n] : JobShape(j)
  BY DEF SyncShape, NodeShape
<1>2. /\ \/ r.failure /\ Refuses(n, r)
         \/ ~r.failure /\ raised # r.highest /\ Fences(n, r, raised)
         \/ /\ ~r.failure /\ raised = r.highest
            /\ Settles(n, Advised(n, r), Target(held, r.highest))
      /\ JobsFrom(jobs'[n], jobs[n], e)
  BY <1>1, ReconcileEffect
<1>3. raised \in Attempts /\ Target(held, r.highest) \in Attempts
  BY <1>1, RequestFields, RaisedAttempts DEF RunShape
<1>4. CASE r.failure /\ Refuses(n, r)
  <2>1. run'[n] = r /\ acted' = acted
    BY <1>4 DEF Refuses, Domains
  <2>2. sync'[n] = NoSync /\ Answered(n)
    BY <1>4, ReplyAnswers, MoreResults DEF Refuses
  <2> QED
    BY <1>2, <1>4, <2>1, <2>2 DEF Outcome, Acts
<1>5. CASE ~r.failure /\ raised # r.highest /\ Fences(n, r, raised)
  <2>1. Outcome(n, r, raised, NoGrants) /\ sync'[n].at = "fence"
    <3> HIDE DEF raised
    <3> QED
      BY <1>2, <1>5 DEF Outcome, Fences, Acts
  <2> QED
    BY <1>5, <2>1
<1>6. CASE /\ ~r.failure /\ raised = r.highest
           /\ Settles(n, Advised(n, r), Target(held, r.highest))
  <2> DEFINE r1 == Advised(n, r)
             t == Target(held, r.highest)
  <2>1. /\ RunShape(r1) /\ r1.open = r.open /\ r1.highest = r.highest
        /\ r1.position = r.position /\ r1.failure = r.failure /\ r1.epoch = r.epoch
    BY AdvisedRun
  <2>2. Settles(n, r1, t) /\ t \in Attempts
    BY <1>3, <1>6
  <2> HIDE DEF r1, t
  <2>3. Outcome(n, r1, r1.highest, t)
    BY <1>2, <2>2, SettledOutcome
  <2>4. Outcome(n, r, r.highest, t)
    BY <2>1, <2>3 DEF Outcome
  <2>5. sync'[n] = NoSync \/ sync'[n].at = "marker"
    BY <2>2 DEF Settles
  <2> QED
    BY <1>6, <2>4, <2>5 DEF t
<1> QED
  BY <1>2, <1>4, <1>5, <1>6

(* The fence file f has the stride of the position at, or the payload is    *)
(* too long for a write in place.                                           *)
Fits(f, at, payload) ==
    at = NoPosition \/ f.stride = at.stride \/ Length(payload) > at.stride

(* A longer payload fits where a shorter one did.                           *)
LEMMA FitsLonger ==
    ASSUME NEW f, NEW at \in Positions, NEW p \in Attempts, NEW q \in Attempts,
           \A c \in Chunks : q[c] >= p[c], Fits(f, at, p)
    PROVE  Fits(f, at, q)
<1>1. Length(q) >= Length(p) /\ Length(q) \in Nat /\ Length(p) \in Nat
  BY LengthGrows
<1>2. at.stride \in Nat
  BY DEF Positions
<1> QED
  BY <1>1, <1>2 DEF Fits

(* A call that was answered, or still waits, is a call.                     *)
LEMMA AnsweredShape ==
    ASSUME NEW n, NodeShape(n), CallerWaits(n), sync[n] # NoSync, Answered(n)
    PROVE  calls'[n] = NoCall \/ CallShape(calls'[n])
<1>1. CASE calls'[n] = calls[n]
  BY <1>1 DEF NodeShape
<1>2. CASE /\ sync[n].live
           /\ calls'[n].state = "answered" /\ calls'[n].request = calls[n].request
           /\ Results(calls'[n].answer.finished)
  <2>1. calls[n].state = "inside"
    BY <1>2 DEF CallerWaits
  <2>2. CallShape(calls[n])
    BY <2>1 DEF NodeShape, NoCall
  <2> QED
    BY <1>2, <2>2 DEF CallShape
<1> QED
  BY <1>1, <1>2 DEF Answered

(* After reconcile, on a directory of the request's epoch and a control     *)
(* fence at its version, the node's invariant holds again.                  *)
LEMMA OutcomeKeeps ==
    ASSUME NEW n, NodeInv(n), SyncShape(sync[n]), DiskShape(disk'[n]),
           ~Stale(disk'[n].control, disk[n].control),
           disk'[n].control = sync[n].request.version, disk'[n].dir.exists,
           disk'[n].dir.epoch = sync[n].request.version.epoch,
           NEW r, RunShape(r), r.open, r.epoch = sync[n].request.version.epoch,
           Fits(disk'[n].dir.fence, r.position, r.highest),
           \A j \in jobs[n] : ~j.cancelled => j.epoch = sync[n].request.version.epoch,
           NEW raised \in Attempts, \A c \in Chunks : raised[c] >= r.highest[c],
           NEW target, Outcome(n, r, raised, target), late'[n] = late[n]
    PROVE  NodeInv(n)'
<1> DEFINE v == sync[n].request.version
<1>1. sync[n] # NoSync /\ v \in Version
  BY RequestFields DEF SyncShape, NoSync, Stages
<1>2. \/ sync'[n] = NoSync /\ sync'[n].at = "none"
      \/ /\ SyncShape(sync'[n]) /\ sync'[n].at \in {"fence", "marker"}
         /\ sync'[n].request = sync[n].request
  BY DEF Outcome, NoSync
<1>3. NodeShape(n)'
  <2>1. acted'[n].version \in Version /\ acted'[n].attempts \in Attempts
    BY <1>1 DEF Outcome, Acts, NodeInv, NodeShape
  <2>2. \A j \in jobs'[n] : JobShape(j)
    BY DEF Outcome, JobsFrom
  <2>3. calls'[n] = NoCall \/ CallShape(calls'[n])
    <3>1. Answered(n)
      BY DEF Outcome, Answered
    <3> QED
      BY <1>1, <3>1, AnsweredShape DEF NodeInv
  <2>4. RunShape(run'[n])
    BY DEF Outcome
  <2> QED
    BY <1>2, <2>1, <2>2, <2>3, <2>4 DEF NodeInv, NodeShape
<1>4. CallerWaits(n)'
  BY <1>1 DEF Outcome, CallerWaits, NodeInv
<1>5. ControlCovers(n)'
  <2>1. ~Stale(v, acted[n].version)
    <3>1. /\ disk[n].control \in Version /\ acted[n].version \in Version
          /\ ~Stale(disk[n].control, acted[n].version)
      BY DEF NodeInv, NodeShape, DiskShape, ControlCovers
    <3> QED
      BY <1>1, <3>1, StaleOrder
  <2>2. ~Stale(disk'[n].control, acted'[n].version)
    BY <1>1, <2>1, StaleOrder DEF Outcome, Acts
  <2> QED
    BY <1>2, <2>2 DEF ControlCovers, PastControl
<1>6. DirectoryIsCurrent(n)'
  BY DEF DirectoryIsCurrent
<1>7. run'[n].open /\ run'[n].epoch = disk'[n].dir.epoch
  BY DEF Outcome
<1>8. RunHasDirectory(n)'
  BY <1>2, <1>7 DEF RunHasDirectory
<1>9. JobsAreCurrent(n)'
  <2> SUFFICES ASSUME NEW j \in jobs'[n], ~j.cancelled
               PROVE  j.epoch = v.epoch
    BY <1>7 DEF JobsAreCurrent
  <2>1. j.epoch = v.epoch \/ \E k \in jobs[n] : ~k.cancelled /\ k.epoch = j.epoch
    BY DEF Outcome, JobsFrom
  <2> QED
    BY <2>1
<1>10. FenceFits(n)'
  <2>1. r.position \in Positions /\ r.highest \in Attempts
    BY DEF RunShape
  <2>2. Fits(disk'[n].dir.fence, r.position, raised)
    BY <2>1, FitsLonger
  <2> QED
    BY <2>2 DEF Outcome, FenceFits, Fits, NoSync
<1> QED
  BY <1>3, <1>4, <1>5, <1>6, <1>8, <1>9, <1>10 DEF NodeInv

-----------------------------------------------------------------------------

(* The actions of a node's sync.                                            *)

(* What an action of node n must leave.                                     *)
NodeKept(n) == NodeInv(n)' /\ Others(n) /\ Domains'

(* A sync at a stage is a sync.                                             *)
LEMMA AtStage ==
    ASSUME NEW n, NodeInv(n), sync[n].at \in Stages
    PROVE  SyncShape(sync[n]) /\ sync[n] # NoSync
BY DEF NodeInv, NodeShape, NoSync, Stages

(* Cancelling all jobs keeps them what they are.                            *)
LEMMA CancelledKept ==
    ASSUME NEW js, \A j \in js : JobShape(j)
    PROVE  \A j \in Cancelled(js) : JobShape(j) /\ j.cancelled = TRUE
BY CancelledJob DEF Cancelled

(* A refused control check ends the sync; a node that needs recovery stops  *)
(* what it runs.                                                            *)
LEMMA ControlRefused ==
    ASSUME Domains, NEW n \in Nodes, NodeInv(n), sync[n].at = "control",
           disk' = [disk EXCEPT ![n] = Effect(n)],
           Reply(n, "refused", {}) \/ Reply(n, "unrunnable", {}),
           \/ UNCHANGED <<run, jobs>>
           \/ /\ run[n].open
              /\ run' = [run EXCEPT ![n].cancelled = TRUE]
              /\ jobs' = [jobs EXCEPT ![n] = Cancelled(@)],
           acted' = acted, late' = late, setting' = setting
    PROVE  NodeKept(n)
<1>1. SyncShape(sync[n]) /\ sync[n] # NoSync
  BY AtStage DEF Stages
<1>2. DiskStep(n, disk'[n]) /\ \A m \in Nodes \ {n} : disk'[m] = disk[m]
  BY <1>1, OperationStep DEF Domains
<1>3. /\ sync'[n] = NoSync /\ DOMAIN sync' = Nodes /\ DOMAIN calls' = Nodes
      /\ \A m \in Nodes \ {n} : sync'[m] = sync[m] /\ calls'[m] = calls[m]
      /\ Answered(n)
  BY ReplyAnswers, MoreResults
<1>4. calls'[n] = NoCall \/ CallShape(calls'[n])
  BY <1>1, <1>3, AnsweredShape DEF NodeInv
<1>5. /\ RunKept(n) /\ JobsKept(n) /\ DOMAIN run' = Nodes /\ DOMAIN jobs' = Nodes
      /\ \A m \in Nodes \ {n} : run'[m] = run[m] /\ jobs'[m] = jobs[m]
  <2>0. \A j \in jobs[n] : JobShape(j)
    BY DEF NodeInv, NodeShape
  <2>1. CASE UNCHANGED <<run, jobs>>
    <3>1. run' = run /\ jobs' = jobs
      BY <2>1
    <3> QED
      BY <2>0, <3>1 DEF RunKept, JobsKept, Domains
  <2>2. CASE /\ run[n].open
             /\ run' = [run EXCEPT ![n].cancelled = TRUE]
             /\ jobs' = [jobs EXCEPT ![n] = Cancelled(@)]
    <3> DEFINE r == [run[n] EXCEPT !.cancelled = TRUE]
    <3>1. RunShape(run[n])
      BY <2>2 DEF NodeInv, NodeShape, NoRun
    <3>2. DOMAIN run[n] = RunFields
      BY <3>1 DEF RunShape
    <3>3. /\ DOMAIN r = RunFields /\ r.open = run[n].open /\ r.epoch = run[n].epoch
          /\ r.highest = run[n].highest /\ r.position = run[n].position
          /\ r.finished = run[n].finished
      BY <3>2 DEF RunFields
    <3> HIDE DEF r
    <3>4. RunShape(r)
      BY <3>1, <3>3 DEF RunShape
    <3>5. run' = [run EXCEPT ![n] = r]
      BY <2>2 DEF r
    <3>6. /\ run'[n] = r /\ jobs'[n] = Cancelled(jobs[n]) /\ DOMAIN run' = Nodes
          /\ DOMAIN jobs' = Nodes
          /\ \A m \in Nodes \ {n} : run'[m] = run[m] /\ jobs'[m] = jobs[m]
      BY <2>2, <3>5 DEF Domains
    <3>7. \A j \in jobs'[n] : JobShape(j) /\ j.cancelled = TRUE
      BY <2>0, <3>6, CancelledKept
    <3> QED
      BY <3>3, <3>4, <3>6, <3>7 DEF RunKept, JobsKept
  <2> QED
    BY <2>1, <2>2
<1>6. late'[n] \subseteq Request
  BY DEF NodeInv, NodeShape
<1>7. NodeInv(n)'
  BY <1>2, <1>3, <1>4, <1>5, <1>6, SyncEnds
<1>8. Others(n)
  BY <1>2, <1>3, <1>5 DEF Others
<1>9. Domains'
  BY <1>3, <1>5 DEF Domains
<1> QED
  BY <1>7, <1>8, <1>9 DEF NodeKept

(* A sync whose request was accepted goes on with cleanup or with opening   *)
(* the run.                                                                 *)
LEMMA StageChange ==
    ASSUME NEW s, SyncShape(s), s.at = "control", NEW at, at \in {"clean", "open"},
           NEW t, t = [s EXCEPT !.at = at]
    PROVE  /\ SyncShape(t) /\ t.at = at /\ t.request = s.request /\ t.live = s.live
           /\ t.dropped = s.dropped
<1>1. DOMAIN s = SyncFields
  BY DEF SyncShape, StageFields
<1>2. /\ t.at = at /\ t.request = s.request /\ t.live = s.live /\ DOMAIN t = SyncFields
      /\ t.dropped = s.dropped
  BY <1>1 DEF SyncFields
<1> QED
  BY <1>2 DEF SyncShape, StageFields, Stages

(* The control fence after an accepted check covers what the node acts on.  *)
LEMMA AcceptedControl ==
    ASSUME NEW n, NodeInv(n), sync[n].at = "control",
           Verdict(disk[n], sync[n].request.version) = "accepted"
    PROVE  LET v == sync[n].request.version
               x == Effect(n)
           IN  /\ DiskShape(x) /\ x.control = v /\ x.dir = disk[n].dir /\ v \in Version
               /\ ~Stale(v, disk[n].control) /\ ~Stale(v, acted[n].version)
               /\ x.dir.exists => x.dir.epoch = v.epoch
<1> DEFINE v == sync[n].request.version
           x == Effect(n)
<1>1. SyncShape(sync[n])
  BY AtStage DEF Stages
<1>2. DiskStep(n, x) /\ x.control = v /\ x.dir = disk[n].dir
  BY <1>1, ControlStep
<1>3. /\ v \in Version /\ disk[n].control \in Version /\ acted[n].version \in Version
      /\ ~Stale(disk[n].control, acted[n].version)
  BY <1>1, RequestFields DEF SyncShape, NodeInv, NodeShape, DiskShape, ControlCovers
<1>4. DiskShape(x) /\ ~Stale(v, disk[n].control) /\ (x.dir.exists => x.dir.epoch = v.epoch)
  BY <1>2 DEF DiskStep
<1>5. ~Stale(v, acted[n].version)
  BY <1>3, <1>4, StaleOrder
<1> QED
  BY <1>2, <1>3, <1>4, <1>5

(* A run the cluster does not list is closed before its files are cleaned.  *)
LEMMA ControlToClean ==
    ASSUME Domains, NEW n \in Nodes, NodeInv(n), sync[n].at = "control",
           Verdict(disk[n], sync[n].request.version) = "accepted",
           disk' = [disk EXCEPT ![n] = Effect(n)],
           run' = [run EXCEPT ![n] = NoRun],
           jobs' = [jobs EXCEPT ![n] = Cancelled(@)],
           Proceed(n, [sync[n] EXCEPT !.at = "clean"]),
           ActsOn(n, sync[n].request.version, NoGrants), late' = late, setting' = setting
    PROVE  NodeKept(n)
<1> DEFINE v == sync[n].request.version
           x == Effect(n)
           t == [sync[n] EXCEPT !.at = "clean"]
<1>1. SyncShape(sync[n]) /\ sync[n] # NoSync
  BY AtStage DEF Stages
<1>2. SyncShape(t) /\ t.at = "clean" /\ t.request = sync[n].request /\ t.live = sync[n].live
  BY <1>1, StageChange
<1>3. /\ DiskShape(x) /\ x.control = v /\ x.dir = disk[n].dir /\ v \in Version
      /\ ~Stale(v, disk[n].control) /\ ~Stale(v, acted[n].version)
      /\ x.dir.exists => x.dir.epoch = v.epoch
  BY AcceptedControl
<1>4. /\ sync'[n] = t /\ DOMAIN sync' = Nodes /\ calls' = calls
      /\ \A m \in Nodes \ {n} : sync'[m] = sync[m]
  BY ProceedEffect
<1> HIDE DEF x, t
<1>5. /\ disk'[n] = x /\ run'[n] = NoRun /\ jobs'[n] = Cancelled(jobs[n])
      /\ DOMAIN disk' = Nodes /\ DOMAIN run' = Nodes /\ DOMAIN jobs' = Nodes
      /\ \A m \in Nodes \ {n} : disk'[m] = disk[m] /\ run'[m] = run[m] /\ jobs'[m] = jobs[m]
  BY DEF Domains, x
<1>6. DOMAIN acted' = Nodes /\ \A m \in Nodes \ {n} : acted'[m] = acted[m]
  BY DEF ActsOn, Domains
<1>7. Acts(n, NoGrants)
  <2>1. /\ NoGrants \in Attempts /\ \A c \in Chunks : NoGrants[c] \in {0, NoGrants[c]}
    BY DEF NoGrants, Attempts
  <2> QED
    BY <2>1, ActsOnEffect DEF NodeInv
<1>8. \A j \in jobs'[n] : JobShape(j) /\ j.cancelled = TRUE
  BY <1>5, CancelledKept DEF NodeInv, NodeShape
<1>9. run'[n].open = FALSE
  BY <1>5 DEF NoRun
<1>10. NodeShape(n)'
  <2>1. acted'[n].version \in Version /\ acted'[n].attempts \in Attempts
    BY <1>3, <1>7 DEF Acts, NodeInv, NodeShape
  <2> QED
    BY <1>2, <1>3, <1>4, <1>5, <1>8, <2>1 DEF NodeInv, NodeShape
<1>11. CallerWaits(n)'
  BY <1>1, <1>2, <1>4 DEF CallerWaits, NodeInv
<1>12. ControlCovers(n)'
  <2>1. ~Stale(v, acted'[n].version)
    BY <1>3, <1>7, StaleOrder DEF Acts
  <2> QED
    BY <1>2, <1>3, <1>4, <1>5, <2>1 DEF ControlCovers
<1>13. DirectoryIsCurrent(n)'
  BY <1>3, <1>5 DEF DirectoryIsCurrent
<1>14. RunHasDirectory(n)' /\ JobsAreCurrent(n)' /\ FenceFits(n)'
  BY <1>2, <1>4, <1>8, <1>9 DEF RunHasDirectory, JobsAreCurrent, FenceFits
<1>15. NodeInv(n)'
  BY <1>10, <1>11, <1>12, <1>13, <1>14 DEF NodeInv
<1>16. Others(n)
  BY <1>4, <1>5, <1>6 DEF Others
<1>17. Domains'
  BY <1>4, <1>5, <1>6 DEF Domains
<1> QED
  BY <1>15, <1>16, <1>17 DEF NodeKept

(* A run that is not open is opened next.                                   *)
LEMMA ControlToOpen ==
    ASSUME Domains, NEW n \in Nodes, NodeInv(n), sync[n].at = "control", ~run[n].open,
           Verdict(disk[n], sync[n].request.version) = "accepted",
           disk' = [disk EXCEPT ![n] = Effect(n)],
           Proceed(n, [sync[n] EXCEPT !.at = "open"]),
           run' = run, jobs' = jobs, acted' = acted, late' = late, setting' = setting
    PROVE  NodeKept(n)
<1> DEFINE v == sync[n].request.version
           x == Effect(n)
           t == [sync[n] EXCEPT !.at = "open"]
<1>1. SyncShape(sync[n]) /\ sync[n] # NoSync
  BY AtStage DEF Stages
<1>2. SyncShape(t) /\ t.at = "open" /\ t.request = sync[n].request /\ t.live = sync[n].live
  BY <1>1, StageChange
<1>3. /\ DiskShape(x) /\ x.control = v /\ x.dir = disk[n].dir /\ v \in Version
      /\ ~Stale(v, acted[n].version)
      /\ x.dir.exists => x.dir.epoch = v.epoch
  BY AcceptedControl
<1>4. /\ sync'[n] = t /\ DOMAIN sync' = Nodes /\ calls' = calls
      /\ \A m \in Nodes \ {n} : sync'[m] = sync[m]
  BY ProceedEffect
<1> HIDE DEF x, t
<1>5. disk'[n] = x /\ DOMAIN disk' = Nodes /\ \A m \in Nodes \ {n} : disk'[m] = disk[m]
  BY DEF Domains, x
<1>6. NodeShape(n)'
  BY <1>2, <1>3, <1>4, <1>5 DEF NodeInv, NodeShape
<1>7. CallerWaits(n)'
  BY <1>1, <1>2, <1>4 DEF CallerWaits, NodeInv
<1>8. ControlCovers(n)' /\ DirectoryIsCurrent(n)'
  BY <1>2, <1>3, <1>4, <1>5 DEF ControlCovers, DirectoryIsCurrent
<1>9. RunHasDirectory(n)' /\ JobsAreCurrent(n)' /\ FenceFits(n)'
  BY <1>2, <1>4 DEF RunHasDirectory, JobsAreCurrent, FenceFits, NodeInv
<1>10. NodeInv(n)'
  BY <1>6, <1>7, <1>8, <1>9 DEF NodeInv
<1>11. Others(n)
  BY <1>4, <1>5 DEF Others
<1>12. Domains'
  BY <1>4, <1>5 DEF Domains
<1> QED
  BY <1>10, <1>11, <1>12 DEF NodeKept

(* What a sync's own steps leave alone in memory and on the wire.           *)
SyncFrame(n) ==
    /\ DOMAIN run' = Nodes /\ DOMAIN jobs' = Nodes /\ DOMAIN sync' = Nodes
    /\ DOMAIN acted' = Nodes /\ DOMAIN calls' = Nodes
    /\ \A m \in Nodes \ {n} :
           /\ run'[m] = run[m] /\ jobs'[m] = jobs[m] /\ sync'[m] = sync[m]
           /\ acted'[m] = acted[m] /\ calls'[m] = calls[m]

(* Reconcile touches its own node only.                                     *)
LEMMA ReconcileFrame ==
    ASSUME Domains, NEW n \in Nodes, NodeShape(n), NEW r, RunShape(r),
           SyncShape(sync[n]), Reconcile(n, r)
    PROVE  SyncFrame(n)
<1> DEFINE raised == Raised(sync[n].request.held, r.highest)
<1>1. sync[n].request \in Request /\ \A j \in jobs[n] : JobShape(j)
  BY DEF SyncShape, NodeShape
<1>2. \/ Refuses(n, r) \/ Fences(n, r, raised)
      \/ Settles(n, Advised(n, r), Target(sync[n].request.held, r.highest))
  BY <1>1, ReconcileEffect
<1> HIDE DEF raised
<1>3. CASE Refuses(n, r)
  <2>1. /\ DOMAIN sync' = Nodes /\ DOMAIN calls' = Nodes
        /\ \A m \in Nodes \ {n} : sync'[m] = sync[m] /\ calls'[m] = calls[m]
    BY <1>3, ReplyEffect DEF Refuses
  <2>2. run' = [run EXCEPT ![n] = r] /\ jobs' = jobs /\ acted' = acted
    BY <1>3 DEF Refuses
  <2> QED
    BY <2>1, <2>2 DEF SyncFrame, Domains
<1>4. CASE Fences(n, r, raised)
  BY <1>4 DEF Fences, SyncFrame, Domains
<1>5. CASE Settles(n, Advised(n, r), Target(sync[n].request.held, r.highest))
  BY <1>5 DEF Settles, SyncFrame
<1> QED
  BY <1>2, <1>3, <1>4, <1>5

(* Only node n's disk changes.                                              *)
DiskFrame(n) == DOMAIN disk' = Nodes /\ \A m \in Nodes \ {n} : disk'[m] = disk[m]

(* A disk operation is of one node.                                         *)
LEMMA DiskWrite ==
    ASSUME Domains, NEW n \in Nodes, NEW x, disk' = [disk EXCEPT ![n] = x]
    PROVE  DiskFrame(n) /\ disk'[n] = x
BY DEF Domains, DiskFrame

(* A node whose disk and sync moved on, and nobody else's.                  *)
LEMMA KeptByFrame ==
    ASSUME Domains, NEW n \in Nodes, NodeInv(n)', SyncFrame(n), DiskFrame(n),
           late' = late, setting' = setting
    PROVE  NodeKept(n)
<1>1. DOMAIN disk' = Nodes /\ \A m \in Nodes \ {n} : disk'[m] = disk[m]
  BY DEF DiskFrame
<1>2. Others(n)
  BY <1>1 DEF Others, SyncFrame
<1>3. Domains'
  BY <1>1 DEF Domains, SyncFrame
<1> QED
  BY <1>2, <1>3 DEF NodeKept

(* The raised attempts of a reconciled run keep the invariant.              *)
LEMMA ReconcileKeeps ==
    ASSUME Domains, NEW n \in Nodes, NodeInv(n), SyncShape(sync[n]), DiskShape(disk'[n]),
           ~Stale(disk'[n].control, disk[n].control),
           disk'[n].control = sync[n].request.version, disk'[n].dir.exists,
           disk'[n].dir.epoch = sync[n].request.version.epoch,
           NEW r, RunShape(r), r.open, r.epoch = sync[n].request.version.epoch,
           Fits(disk'[n].dir.fence, r.position, r.highest),
           \A j \in jobs[n] : ~j.cancelled => j.epoch = sync[n].request.version.epoch,
           Reconcile(n, r), late' = late
    PROVE  NodeInv(n)'
<1> DEFINE held == sync[n].request.held
           raised == Raised(held, r.highest)
<1>1. held \in Attempts /\ r.highest \in Attempts
  BY RequestFields DEF SyncShape, RunShape
<1>2. raised \in Attempts /\ \A c \in Chunks : raised[c] >= r.highest[c]
  BY <1>1, RaisedAttempts
<1>3. \A c \in Chunks : r.highest[c] >= r.highest[c]
  BY <1>1 DEF Attempts
<1>4. \/ Outcome(n, r, r.highest, NoGrants) \/ Outcome(n, r, raised, NoGrants)
      \/ Outcome(n, r, r.highest, Target(held, r.highest))
  BY ReconcileOutcome DEF NodeInv
<1>5. late'[n] = late[n]
  OBVIOUS
<1> HIDE DEF held, raised
<1>6. CASE Outcome(n, r, r.highest, NoGrants)
  BY <1>1, <1>3, <1>5, <1>6, OutcomeKeeps
<1>7. CASE Outcome(n, r, raised, NoGrants)
  BY <1>2, <1>5, <1>7, OutcomeKeeps
<1>8. CASE Outcome(n, r, r.highest, Target(held, r.highest))
  BY <1>1, <1>3, <1>5, <1>8, OutcomeKeeps
<1> QED
  BY <1>4, <1>6, <1>7, <1>8

(* The control check, whichever way it goes.                                *)
LEMMA ControlCheckedKeeps ==
    ASSUME Domains, NEW n \in Nodes, NodeInv(n), ControlChecked(n)
    PROVE  NodeKept(n)
<1> DEFINE v == sync[n].request.version
           verdict == Verdict(disk[n], v)
<1>1. /\ sync[n].at = "control" /\ disk' = [disk EXCEPT ![n] = Effect(n)]
      /\ late' = late /\ setting' = setting
  BY DEF ControlChecked, Working, Rest
<1>2. \/ /\ Reply(n, "refused", {})
         /\ \/ UNCHANGED <<run, jobs>>
            \/ /\ run[n].open
               /\ run' = [run EXCEPT ![n].cancelled = TRUE]
               /\ jobs' = [jobs EXCEPT ![n] = Cancelled(@)]
         /\ acted' = acted
      \/ /\ verdict = "accepted"
         /\ run' = [run EXCEPT ![n] = NoRun]
         /\ jobs' = [jobs EXCEPT ![n] = Cancelled(@)]
         /\ Proceed(n, [sync[n] EXCEPT !.at = "clean"])
         /\ ActsOn(n, v, NoGrants)
      \/ Reply(n, "unrunnable", {}) /\ UNCHANGED <<run, jobs, acted>>
      \/ /\ verdict = "accepted" /\ ~run[n].open
         /\ Proceed(n, [sync[n] EXCEPT !.at = "open"])
         /\ UNCHANGED <<run, jobs, acted>>
      \/ verdict = "accepted" /\ run[n].open /\ Reconcile(n, run[n])
  BY Zenon DEF ControlChecked
<1>3. CASE /\ Reply(n, "refused", {})
           /\ \/ UNCHANGED <<run, jobs>>
              \/ /\ run[n].open
                 /\ run' = [run EXCEPT ![n].cancelled = TRUE]
                 /\ jobs' = [jobs EXCEPT ![n] = Cancelled(@)]
           /\ acted' = acted
  BY <1>1, <1>3, ControlRefused
<1>4. CASE /\ verdict = "accepted"
           /\ run' = [run EXCEPT ![n] = NoRun]
           /\ jobs' = [jobs EXCEPT ![n] = Cancelled(@)]
           /\ Proceed(n, [sync[n] EXCEPT !.at = "clean"])
           /\ ActsOn(n, v, NoGrants)
  BY <1>1, <1>4, ControlToClean
<1>5. CASE Reply(n, "unrunnable", {}) /\ UNCHANGED <<run, jobs, acted>>
  <2>1. UNCHANGED <<run, jobs>> /\ acted' = acted
    BY <1>5
  <2> QED
    BY <1>1, <1>5, <2>1, ControlRefused
<1>6. CASE /\ verdict = "accepted" /\ ~run[n].open
           /\ Proceed(n, [sync[n] EXCEPT !.at = "open"])
           /\ UNCHANGED <<run, jobs, acted>>
  <2>1. run' = run /\ jobs' = jobs /\ acted' = acted
    BY <1>6
  <2> QED
    BY <1>1, <1>6, <2>1, ControlToOpen
<1>7. CASE verdict = "accepted" /\ run[n].open /\ Reconcile(n, run[n])
  <2> DEFINE x == Effect(n)
  <2>1. /\ DiskShape(x) /\ x.control = v /\ x.dir = disk[n].dir
        /\ ~Stale(v, disk[n].control) /\ (x.dir.exists => x.dir.epoch = v.epoch)
    BY <1>1, <1>7, AcceptedControl
  <2>2. disk'[n] = x
    BY <1>1 DEF Domains
  <2>3. SyncShape(sync[n]) /\ RunShape(run[n])
    BY <1>1, <1>7, AtStage DEF NodeInv, NodeShape, NoRun, Stages
  <2> HIDE DEF x
  <2>4. /\ disk[n].dir.exists /\ run[n].epoch = disk[n].dir.epoch
        /\ Fits(disk[n].dir.fence, run[n].position, run[n].highest)
        /\ \A j \in jobs[n] : ~j.cancelled => j.epoch = disk[n].dir.epoch
    BY <1>7 DEF NodeInv, RunHasDirectory, FenceFits, Fits, JobsAreCurrent
  <2>5. /\ DiskShape(disk'[n]) /\ ~Stale(disk'[n].control, disk[n].control)
        /\ disk'[n].control = v /\ disk'[n].dir.exists /\ disk'[n].dir.epoch = v.epoch
        /\ run[n].epoch = v.epoch
        /\ Fits(disk'[n].dir.fence, run[n].position, run[n].highest)
        /\ \A j \in jobs[n] : ~j.cancelled => j.epoch = v.epoch
    BY <2>1, <2>2, <2>4
  <2>6. NodeInv(n)'
    BY <1>1, <1>7, <2>3, <2>5, ReconcileKeeps
  <2>7. SyncFrame(n)
    BY <1>7, <2>3, ReconcileFrame DEF NodeInv
  <2> QED
    BY <1>1, <2>6, <2>7, DiskWrite, KeptByFrame
<1> QED
  BY <1>2, <1>3, <1>4, <1>5, <1>6, <1>7

(* A readable file holds a payload and names a position of its own size.    *)
LEMMA ReadShape ==
    ASSUME NEW f \in Files, Readable(f)
    PROVE  /\ NewestSlot(f) \in 1 .. 2 /\ f.slots[NewestSlot(f)] # Torn
           /\ PayloadOf(f) \in Attempts
           /\ PositionOf(f) \in Positions /\ PositionOf(f).stride = f.stride
<1>1. /\ f.stride \in Nat /\ f.slots[1] \in Slots /\ f.slots[2] \in Slots
  BY DEF Files
<1>2. f.slots[1] # Torn \/ f.slots[2] # Torn
  BY DEF Readable
<1>3. NewestSlot(f) \in 1 .. 2 /\ f.slots[NewestSlot(f)] # Torn
  BY <1>2 DEF NewestSlot
<1>4. f.slots[NewestSlot(f)] \in [generation: Nat \ {0}, payload: Attempts]
  BY <1>1, <1>3 DEF Slots
<1>5. PayloadOf(f) \in Attempts
  BY <1>4 DEF PayloadOf
<1>6. f.slots[NewestSlot(f)].generation \in Nat /\ NewestSlot(f) \in Nat
  BY <1>3, <1>4
<1>7. PositionOf(f) \in Positions /\ PositionOf(f).stride = f.stride
  BY <1>1, <1>6 DEF PositionOf, Positions
<1> QED
  BY <1>3, <1>5, <1>7

OpenedRun(d, q, r) ==
    /\ RunShape(r) /\ r.open = TRUE /\ r.failure = FALSE /\ r.epoch = q.version.epoch
    /\ r.position = (IF d.fence = NoFile THEN NoPosition ELSE PositionOf(d.fence))
    /\ r.highest = (IF d.fence = NoFile THEN NoGrants ELSE PayloadOf(d.fence))
    /\ Fits(d.fence, r.position, r.highest)

(* A run is opened with the attempts and the position of its fence.         *)
LEMMA OpenRunShape ==
    ASSUME NEW d, d.fence \in Files, d.fence = NoFile \/ Readable(d.fence), NEW q,
           NEW r, r = OpenRun(d, q)
    PROVE  OpenedRun(d, q, r)
<1>1. /\ DOMAIN r = RunFields /\ r.open = TRUE /\ r.failure = FALSE
      /\ r.epoch = q.version.epoch /\ r.finished = {}
      /\ r.position = (IF d.fence = NoFile THEN NoPosition ELSE PositionOf(d.fence))
      /\ r.highest = (IF d.fence = NoFile THEN NoGrants ELSE PayloadOf(d.fence))
  BY DEF OpenRun, RunFields
<1>2. NoGrants \in Attempts /\ NoPosition \in Positions
  BY DEF NoGrants, Attempts, NoPosition, Positions
<1>3. CASE d.fence = NoFile
  BY <1>1, <1>2, <1>3, MoreResults DEF OpenedRun, RunShape, Fits
<1>4. CASE d.fence # NoFile
  <2>1. /\ PayloadOf(d.fence) \in Attempts /\ PositionOf(d.fence) \in Positions
        /\ PositionOf(d.fence).stride = d.fence.stride
    BY <1>4, ReadShape
  <2> QED
    BY <1>1, <1>4, <2>1, MoreResults DEF OpenedRun, RunShape, Fits
<1> QED
  BY <1>3, <1>4

(* A sync that is refused after its disk operation ends.                    *)
LEMMA RefusalKeeps ==
    ASSUME Domains, NEW n \in Nodes, NodeInv(n), sync[n] # NoSync, DiskStep(n, disk'[n]),
           DiskFrame(n), NEW kind, Reply(n, kind, {}),
           run' = run, jobs' = jobs, acted' = acted, late' = late, setting' = setting
    PROVE  NodeKept(n)
<1>2. /\ sync'[n] = NoSync /\ DOMAIN sync' = Nodes /\ DOMAIN calls' = Nodes
      /\ \A m \in Nodes \ {n} : sync'[m] = sync[m] /\ calls'[m] = calls[m]
      /\ Answered(n)
  BY ReplyAnswers, MoreResults
<1>3. calls'[n] = NoCall \/ CallShape(calls'[n])
  BY <1>2, AnsweredShape DEF NodeInv
<1>4. RunKept(n) /\ JobsKept(n) /\ late'[n] \subseteq Request
  <2>1. \A j \in jobs[n] : JobShape(j)
    BY DEF NodeInv, NodeShape
  <2> QED
    BY <2>1 DEF RunKept, JobsKept, NodeInv, NodeShape
<1>5. NodeInv(n)'
  BY <1>2, <1>3, <1>4, SyncEnds
<1>6. SyncFrame(n)
  BY <1>2 DEF SyncFrame, Domains
<1> QED
  BY <1>5, <1>6, KeptByFrame

(* Cleanup answers that the array is absent.                                *)
LEMMA CleanupDoneKeeps ==
    ASSUME Domains, NEW n \in Nodes, NodeInv(n), CleanupDone(n)
    PROVE  NodeKept(n)
<1>1. /\ sync[n].at = "clean" /\ disk' = [disk EXCEPT ![n] = Effect(n)]
      /\ Reply(n, "absent", {}) /\ run' = run /\ jobs' = jobs /\ acted' = acted
      /\ late' = late /\ setting' = setting
  BY DEF CleanupDone, Working, Rest, history
<1>2. sync[n] # NoSync
  BY <1>1, AtStage DEF Stages
<1>3. DiskStep(n, Effect(n))
  BY <1>2, OperationStep
<1> QED
  BY <1>1, <1>2, <1>3, DiskWrite, RefusalKeeps

(* Opening a run reads the fence and reconciles, or refuses.                *)
LEMMA RunOpenedKeeps ==
    ASSUME Domains, NEW n \in Nodes, NodeInv(n), RunOpened(n)
    PROVE  NodeKept(n)
<1> DEFINE d == disk[n].dir
           x == Effect(n)
           r == OpenRun(d, sync[n].request)
           v == sync[n].request.version
<1>1. /\ sync[n].at = "open" /\ disk' = [disk EXCEPT ![n] = x]
      /\ late' = late /\ setting' = setting
  BY DEF RunOpened, Working, Rest
<1>2. \/ /\ ~d.compacted /\ (d.fence = NoFile \/ Readable(d.fence))
         /\ Reconcile(n, r)
      \/ Reply(n, "refused", {}) /\ UNCHANGED <<run, jobs, acted>>
  BY Zenon DEF RunOpened
<1>3. SyncShape(sync[n]) /\ sync[n] # NoSync
  BY <1>1, AtStage DEF Stages
<1>4. DiskStep(n, x)
  BY <1>3, OperationStep
<1>5. CASE Reply(n, "refused", {}) /\ UNCHANGED <<run, jobs, acted>>
  <2>1. run' = run /\ jobs' = jobs /\ acted' = acted
    BY <1>5
  <2> QED
    BY <1>1, <1>3, <1>4, <1>5, <2>1, DiskWrite, RefusalKeeps
<1>6. CASE /\ ~d.compacted /\ (d.fence = NoFile \/ Readable(d.fence))
           /\ Reconcile(n, r)
  <2>1. d.fence \in Files
    BY DEF NodeInv, NodeShape, DiskShape
  <2>2. /\ RunShape(r) /\ r.open = TRUE /\ r.epoch = v.epoch
        /\ Fits(d.fence, r.position, r.highest)
    <3>1. r = OpenRun(d, sync[n].request)
      OBVIOUS
    <3> HIDE DEF r, d
    <3>2. OpenedRun(d, sync[n].request, r)
      BY <1>6, <2>1, <3>1, OpenRunShape
    <3> QED
      BY <3>2 DEF OpenedRun
  <2>3. disk'[n] = x /\ x.dir.exists /\ x.dir.epoch = v.epoch
    BY <1>1, <1>3, <1>6, OpenStep DEF Domains
  <2>4. /\ DiskShape(x) /\ ~Stale(x.control, disk[n].control) /\ x.dir.fence = d.fence
        /\ x.control = v
    BY <1>1, <1>4 DEF DiskStep, NodeInv, ControlCovers, PastControl
  <2>5. \A j \in jobs[n] : ~j.cancelled => j.epoch = v.epoch
    BY <1>1 DEF NodeInv, RunHasDirectory, JobsAreCurrent
  <2> HIDE DEF x, r, d
  <2>6. /\ DiskShape(disk'[n]) /\ ~Stale(disk'[n].control, disk[n].control)
        /\ disk'[n].control = v /\ disk'[n].dir.exists /\ disk'[n].dir.epoch = v.epoch
        /\ Fits(disk'[n].dir.fence, r.position, r.highest)
    BY <2>2, <2>3, <2>4
  <2>7. NodeInv(n)'
    BY <1>1, <1>3, <1>6, <2>2, <2>5, <2>6, ReconcileKeeps
  <2>8. SyncFrame(n)
    BY <1>3, <1>6, <2>2, ReconcileFrame DEF NodeInv
  <2> QED
    BY <1>1, <2>7, <2>8, DiskWrite, KeptByFrame
<1> QED
  BY <1>2, <1>5, <1>6

(* The position after a write is of the file it wrote.                      *)
LEMMA WrittenFits ==
    ASSUME NEW f \in Files, NEW at \in Positions, NEW p \in Attempts, ~Refused(f, at, p), NEW q
    PROVE  /\ WrittenPosition(at, p) \in Positions
           /\ Fits(Written(f, at, p), WrittenPosition(at, p), q)
<1>1. /\ at.generation \in Nat /\ at.slot \in Int /\ at.stride \in Nat /\ StrideFor(p) \in Nat
  BY LengthNat, StrideAssumption DEF Positions, StrideFor
<1>2. Overwritten(at) \in Int
  BY <1>1 DEF Overwritten
<1>3. CASE InPlace(at, p)
  <2>1. WrittenPosition(at, p) = [generation |-> at.generation + 1, slot |-> Overwritten(at),
                                  stride |-> at.stride]
    BY <1>3 DEF WrittenPosition
  <2>2. Written(f, at, p).stride = f.stride /\ f.stride = at.stride
    BY <1>3, WrittenShape DEF Refused
  <2> QED
    BY <1>1, <1>2, <2>1, <2>2 DEF Positions, Fits
<1>4. CASE ~InPlace(at, p)
  <2>1. WrittenPosition(at, p) = [generation |-> at.generation + 1, slot |-> 1,
                                  stride |-> StrideFor(p)]
    BY <1>4 DEF WrittenPosition
  <2>2. Written(f, at, p).stride = StrideFor(p)
    BY <1>4, WrittenShape
  <2> QED
    BY <1>1, <2>1, <2>2 DEF Positions, Fits
<1> QED
  BY <1>3, <1>4

(* A run that fails is the same run, refused from then on.                  *)
LEMMA FailKeeps ==
    ASSUME Domains, NEW n \in Nodes, NodeInv(n), sync[n].at = "fence", DiskStep(n, disk'[n]),
           DiskFrame(n), Fail(n), late' = late, setting' = setting
    PROVE  NodeKept(n) /\ run'[n].failure = TRUE /\ RunKept(n)
<1> DEFINE r == [run[n] EXCEPT !.failure = TRUE, !.cancelled = TRUE]
<1>1. /\ run' = [run EXCEPT ![n].failure = TRUE, ![n].cancelled = TRUE]
      /\ jobs' = [jobs EXCEPT ![n] = Cancelled(@)]
      /\ Reply(n, "refused", {}) /\ acted' = acted
  BY DEF Fail
<1>2. SyncShape(sync[n]) /\ sync[n] # NoSync /\ RunShape(run[n])
  BY AtStage DEF NodeInv, NodeShape, RunHasDirectory, NoRun, Stages
<1>3. DOMAIN run[n] = RunFields
  BY <1>2 DEF RunShape
<1>4. /\ DOMAIN r = RunFields /\ r.open = run[n].open /\ r.epoch = run[n].epoch
      /\ r.highest = run[n].highest /\ r.position = run[n].position
      /\ r.finished = run[n].finished /\ r.failure = TRUE
  BY <1>3 DEF RunFields
<1>5. run' = [run EXCEPT ![n] = r]
  BY <1>1 DEF Domains
<1> HIDE DEF r
<1>6. RunShape(r)
  BY <1>2, <1>4 DEF RunShape
<1>7. /\ run'[n] = r /\ jobs'[n] = Cancelled(jobs[n])
      /\ DOMAIN run' = Nodes /\ DOMAIN jobs' = Nodes
      /\ \A m \in Nodes \ {n} : run'[m] = run[m] /\ jobs'[m] = jobs[m]
  BY <1>1, <1>5 DEF Domains
<1>8. \A j \in jobs'[n] : JobShape(j) /\ j.cancelled = TRUE
  BY <1>7, CancelledKept DEF NodeInv, NodeShape
<1>9. RunKept(n) /\ JobsKept(n)
  BY <1>4, <1>6, <1>7, <1>8 DEF RunKept, JobsKept
<1>10. /\ sync'[n] = NoSync /\ DOMAIN sync' = Nodes /\ DOMAIN calls' = Nodes
       /\ \A m \in Nodes \ {n} : sync'[m] = sync[m] /\ calls'[m] = calls[m]
       /\ Answered(n)
  BY <1>1, ReplyAnswers, MoreResults
<1>11. calls'[n] = NoCall \/ CallShape(calls'[n])
  BY <1>2, <1>10, AnsweredShape DEF NodeInv
<1>12. late'[n] \subseteq Request /\ acted'[n] = acted[n]
  BY <1>1 DEF NodeInv, NodeShape
<1>13. NodeInv(n)'
  BY <1>7, <1>9, <1>10, <1>11, <1>12, SyncEnds
<1>14. SyncFrame(n)
  BY <1>1, <1>7, <1>10 DEF SyncFrame, Domains
<1> QED
  BY <1>4, <1>7, <1>9, <1>13, <1>14, KeptByFrame

(* What a written fence leads to: the run at its new position is settled.   *)
LEMMA FenceWrittenOutcome ==
    ASSUME Domains, NEW n \in Nodes, NodeInv(n), FenceWritten(n),
           ~Refused(disk[n].dir.fence, sync[n].position, sync[n].payload)
    PROVE  LET r == [run[n] EXCEPT !.position = WrittenPosition(sync[n].position, sync[n].payload)]
               x == Effect(n)
           IN  /\ RunShape(r) /\ r.open = run[n].open /\ r.epoch = run[n].epoch
               /\ r.highest = run[n].highest /\ r.failure = run[n].failure
               /\ r.position = WrittenPosition(sync[n].position, sync[n].payload)
               /\ Outcome(n, r, r.highest, Target(sync[n].request.held, r.highest))
               /\ sync'[n] = NoSync \/ sync'[n].at = "marker"
               /\ SyncFrame(n)
               /\ DiskStep(n, x) /\ disk' = [disk EXCEPT ![n] = x]
               /\ x.dir.fence = Written(disk[n].dir.fence, sync[n].position, sync[n].payload)
               /\ x.dir.compacted = disk[n].dir.compacted
<1> DEFINE s == sync[n]
           w == WrittenPosition(s.position, s.payload)
           r == [run[n] EXCEPT !.position = w]
           x == Effect(n)
           f == Written(disk[n].dir.fence, s.position, s.payload)
           t == Target(s.request.held, r.highest)
<1>1. /\ sync[n].at = "fence" /\ disk' = [disk EXCEPT ![n] = x]
      /\ Settle(n, r, jobs[n], t)
  BY Zenon DEF FenceWritten, Working
<1>2. SyncShape(s) /\ RunShape(run[n]) /\ disk[n].dir.fence \in Files
  BY <1>1, AtStage DEF NodeInv, NodeShape, RunHasDirectory, NoRun, Stages, DiskShape
<1>3. s.position \in Positions /\ s.payload \in Attempts /\ s.request \in Request
  BY <1>1, <1>2 DEF SyncShape
<1>4. w \in Positions
  BY <1>2, <1>3, WrittenFits
<1>5. x = [disk[n] EXCEPT !.dir.fence = f]
  BY <1>1, EffectIs
<1>6. DiskStep(n, x) /\ x.dir.fence = f /\ x.dir.compacted = disk[n].dir.compacted
  <2>1. f = Written(disk[n].dir.fence, s.position, s.payload)
    OBVIOUS
  <2> HIDE DEF x, f
  <2>2. FenceStepped(n, f, x)
    BY <1>1, <1>2, <1>5, <2>1, FenceStep
  <2> QED
    BY <2>2 DEF FenceStepped
<1>7. /\ RunShape(r) /\ r.open = run[n].open /\ r.epoch = run[n].epoch
      /\ r.highest = run[n].highest /\ r.failure = run[n].failure /\ r.position = w
  <2>1. DOMAIN run[n] = RunFields
    BY <1>2 DEF RunShape
  <2> HIDE DEF w
  <2>2. /\ DOMAIN r = RunFields /\ r.open = run[n].open /\ r.epoch = run[n].epoch
        /\ r.highest = run[n].highest /\ r.failure = run[n].failure /\ r.position = w
        /\ r.finished = run[n].finished
    BY <2>1 DEF RunFields
  <2> HIDE DEF r
  <2> QED
    BY <1>2, <1>4, <2>2 DEF RunShape
<1> HIDE DEF r, x
<1>8. t \in Attempts
  <2>1. r.highest \in Attempts /\ s.request.held \in Attempts
    BY <1>3, <1>7, RequestFields DEF RunShape
  <2> QED
    BY <2>1, RaisedAttempts
<1> HIDE DEF t
<1>9. /\ Settles(n, r, t) /\ JobsFrom(jobs'[n], jobs[n], s.request.version.epoch)
  <2>1. \A j \in jobs[n] : JobShape(j)
    BY DEF NodeInv, NodeShape
  <2> QED
    BY <1>1, <1>3, <1>7, <1>8, <2>1, SettleEffect
<1>10. Outcome(n, r, r.highest, t)
  BY <1>8, <1>9, SettledOutcome DEF NodeInv
<1>11. SyncFrame(n) /\ (sync'[n] = NoSync \/ sync'[n].at = "marker")
  BY <1>9 DEF Settles, SyncFrame
<1> QED
  BY <1>1, <1>6, <1>7, <1>10, <1>11 DEF r, x, t

(* Writing the fence keeps the invariant, refused or not.                   *)
LEMMA FenceWrittenKeeps ==
    ASSUME Domains, NEW n \in Nodes, NodeInv(n), FenceWritten(n)
    PROVE  NodeKept(n)
<1> DEFINE s == sync[n]
           refused == Refused(disk[n].dir.fence, s.position, s.payload)
           w == WrittenPosition(s.position, s.payload)
           r == [run[n] EXCEPT !.position = w]
           x == Effect(n)
<1>1. /\ sync[n].at = "fence" /\ late' = late /\ setting' = setting
      /\ refused => Fail(n) /\ disk' = disk
  BY DEF FenceWritten, Working, Rest
<1>2. CASE refused
  <2>1. DiskFrame(n) /\ disk'[n] = disk[n]
    BY <1>1, <1>2 DEF Domains, DiskFrame
  <2> QED
    BY <1>1, <1>2, <2>1, FailKeeps, OperationStep
<1>3. CASE ~refused
  <2>1. /\ RunShape(r) /\ r.open = run[n].open /\ r.epoch = run[n].epoch /\ r.position = w
        /\ Outcome(n, r, r.highest, Target(s.request.held, r.highest))
        /\ SyncFrame(n) /\ DiskStep(n, x) /\ disk' = [disk EXCEPT ![n] = x]
        /\ x.dir.fence = Written(disk[n].dir.fence, s.position, s.payload)
    BY <1>3, FenceWrittenOutcome
  <2>2. /\ SyncShape(s) /\ disk[n].dir.fence \in Files /\ run[n].open
        /\ disk[n].dir.exists /\ run[n].epoch = disk[n].dir.epoch
        /\ disk[n].control = s.request.version
        /\ disk[n].dir.epoch = s.request.version.epoch
        /\ \A j \in jobs[n] : ~j.cancelled => j.epoch = disk[n].dir.epoch
    BY <1>1, AtStage DEF NodeInv, NodeShape, DiskShape, RunHasDirectory, ControlCovers,
         DirectoryIsCurrent, JobsAreCurrent, PastControl, Stages
  <2>3. s.position \in Positions /\ s.payload \in Attempts
    BY <1>1, <2>2 DEF SyncShape
  <2> HIDE DEF r, x
  <2>4. Fits(x.dir.fence, r.position, r.highest)
    BY <1>3, <2>1, <2>2, <2>3, WrittenFits
  <2>5. disk'[n] = x
    BY <2>1 DEF Domains
  <2>6. /\ DiskShape(x) /\ ~Stale(x.control, disk[n].control) /\ x.control = disk[n].control
        /\ x.dir.exists /\ x.dir.epoch = disk[n].dir.epoch
    BY <1>1, <2>1, <2>2 DEF DiskStep
  <2>7. r.highest \in Attempts /\ \A c \in Chunks : r.highest[c] >= r.highest[c]
    BY <2>1 DEF RunShape, Attempts
  <2>8. NodeInv(n)'
    <3>1. /\ DiskShape(disk'[n]) /\ ~Stale(disk'[n].control, disk[n].control)
          /\ disk'[n].control = sync[n].request.version /\ disk'[n].dir.exists
          /\ disk'[n].dir.epoch = sync[n].request.version.epoch
          /\ RunShape(r) /\ r.open /\ r.epoch = sync[n].request.version.epoch
          /\ Fits(disk'[n].dir.fence, r.position, r.highest)
          /\ \A j \in jobs[n] : ~j.cancelled => j.epoch = sync[n].request.version.epoch
          /\ late'[n] = late[n]
      BY <1>1, <2>1, <2>2, <2>4, <2>5, <2>6
    <3> QED
      BY <2>1, <2>2, <2>7, <3>1, OutcomeKeeps
  <2> QED
    BY <1>1, <2>1, <2>8, DiskWrite, KeptByFrame
<1> QED
  BY <1>2, <1>3

(* A claimed marker starts its chunk and asks for the next one, or reports. *)
LEMMA MarkerSettles ==
    ASSUME Domains, NEW n \in Nodes, NodeInv(n), sync[n].at = "marker",
           SyncShape(sync[n]), RunShape(run[n]),
           Start(n, run[n], jobs[n], {sync[n].chunk}, sync[n].target),
           IF sync[n].todo = {} THEN Report(n, run[n], sync[n].finished)
           ELSE Proceed(n, Claiming(n, sync[n].todo, sync[n].target, sync[n].finished))
    PROVE  /\ Settles(n, run[n], sync[n].target)
           /\ JobsFrom(jobs'[n], jobs[n], sync[n].request.version.epoch)
<1> DEFINE s == sync[n]
           r == run[n]
           target == s.target
           todo == s.todo
           fs == s.finished
           one == {s.chunk}
           next == Claiming(n, todo, target, fs)
           e == s.request.version.epoch
<1>1. /\ target \in Attempts /\ s.chunk \in Chunks /\ todo \subseteq Chunks /\ Results(fs)
      /\ s.request \in Request
  BY DEF SyncShape
<1>2. next = Claiming(n, todo, target, fs)
  OBVIOUS
<1>3. \/ Report(n, r, fs)
      \/ todo # {} /\ Proceed(n, next)
  OBVIOUS
<1>4. /\ RunShape(r) /\ Start(n, r, jobs[n], one, target)
  OBVIOUS
<1> HIDE DEF r, target, todo, fs, one, next
<1>5. /\ DOMAIN run' = Nodes /\ DOMAIN jobs' = Nodes /\ DOMAIN acted' = Nodes
      /\ \A m \in Nodes \ {n} :
            run'[m] = run[m] /\ jobs'[m] = jobs[m] /\ acted'[m] = acted[m]
      /\ RunShape(run'[n])
      /\ run'[n].open = r.open /\ run'[n].highest = r.highest
      /\ run'[n].position = r.position /\ run'[n].failure = r.failure
      /\ run'[n].epoch = r.epoch
      /\ jobs'[n] = jobs[n] \cup {NewJob(n, c, target[c], r) : c \in one}
      /\ \E started : /\ ActsOn(n, sync[n].request.version, started)
                      /\ \A c \in Chunks : started[c] \in {0, target[c]}
  BY <1>4, StartEffect, Zenon
<1>6. JobsFrom(jobs'[n], jobs[n], e)
  <2>1. ASSUME NEW c \in one
        PROVE  /\ JobShape(NewJob(n, c, target[c], r))
               /\ NewJob(n, c, target[c], r).epoch = e
    <3>1. c \in Chunks /\ target[c] \in Nat
      BY <1>1 DEF Attempts, one
    <3> QED
      BY <3>1, NewJobShape
  <2>2. \A j \in jobs[n] : JobShape(j)
    BY DEF NodeInv, NodeShape
  <2> QED
    BY <1>5, <2>1, <2>2 DEF JobsFrom
<1>7. CASE Report(n, r, fs)
  <2>1. /\ sync'[n] = NoSync /\ DOMAIN sync' = Nodes /\ DOMAIN calls' = Nodes
        /\ \A m \in Nodes \ {n} : sync'[m] = sync[m] /\ calls'[m] = calls[m]
        /\ Answered(n)
    BY <1>1, <1>7, ReportEffect
  <2>2. Settles(n, r, target)
    BY <1>5, <2>1, Zenon DEF Settles
  <2> QED
    BY <1>6, <2>2 DEF r, target
<1>8. CASE todo # {} /\ Proceed(n, next)
  <2>1. /\ sync'[n] = next /\ DOMAIN sync' = Nodes /\ calls' = calls
        /\ \A m \in Nodes \ {n} : sync'[m] = sync[m]
    BY <1>8, ProceedEffect
  <2>2. SyncShape(next)
    <3>1. SomeChunks(todo)
      BY <1>1, <1>8 DEF SomeChunks
    <3> QED
      BY <1>1, <1>2, <3>1, ClaimingShape
  <2>3. /\ next.at = "marker" /\ next.request = sync[n].request /\ next.live = sync[n].live
        /\ next.dropped = FALSE /\ next.target = target
    BY <1>2 DEF Claiming
  <2>4. /\ DOMAIN calls' = Nodes /\ Answered(n)
        /\ \A m \in Nodes \ {n} : calls'[m] = calls[m]
    BY <2>1 DEF Domains, Answered
  <2>5. sync'[n].at = "marker" /\ SyncShape(sync'[n])
        /\ sync'[n].request = sync[n].request /\ sync'[n].live = sync[n].live
        /\ sync'[n].dropped = FALSE /\ sync'[n].target = target
        /\ calls'[n] = calls[n]
    BY <2>1, <2>2, <2>3
  <2>6. Settles(n, r, target)
    BY <1>5, <2>1, <2>4, <2>5, Zenon DEF Settles
  <2> QED
    BY <1>6, <2>6 DEF r, target
<1> QED
  BY <1>3, <1>7, <1>8

(* What holds of a node whose sync writes its fence or claims a marker.     *)
LEMMA RunningSync ==
    ASSUME NEW n, NodeInv(n), sync[n].at \in {"fence", "marker"}
    PROVE  /\ SyncShape(sync[n]) /\ sync[n] # NoSync /\ RunShape(run[n]) /\ run[n].open
           /\ disk[n].dir.fence \in Files
           /\ disk[n].dir.exists /\ run[n].epoch = disk[n].dir.epoch
           /\ disk[n].control = sync[n].request.version
           /\ disk[n].dir.epoch = sync[n].request.version.epoch
           /\ Fits(disk[n].dir.fence, run[n].position, run[n].highest)
           /\ \A j \in jobs[n] : ~j.cancelled => j.epoch = sync[n].request.version.epoch
<1>1. SyncShape(sync[n]) /\ sync[n] # NoSync
  BY AtStage DEF Stages
<1>2. /\ run[n].open /\ disk[n].dir.exists /\ run[n].epoch = disk[n].dir.epoch
      /\ disk[n].control = sync[n].request.version
      /\ disk[n].dir.epoch = disk[n].control.epoch
      /\ \A j \in jobs[n] : ~j.cancelled => j.epoch = disk[n].dir.epoch
  BY DEF NodeInv, RunHasDirectory, ControlCovers, DirectoryIsCurrent, JobsAreCurrent, PastControl
<1>3. RunShape(run[n]) /\ disk[n].dir.fence \in Files
  BY <1>2 DEF NodeInv, NodeShape, NoRun, DiskShape
<1>4. Fits(disk[n].dir.fence, run[n].position, run[n].highest)
  BY <1>2 DEF NodeInv, FenceFits, Fits
<1> QED
  BY <1>1, <1>2, <1>3, <1>4

(* What a claimed marker leads to.                                          *)
LEMMA MarkerClaimedOutcome ==
    ASSUME Domains, NEW n \in Nodes, NodeInv(n), MarkerClaimed(n)
    PROVE  /\ sync[n].at = "marker" /\ DiskFrame(n) /\ disk'[n] = Effect(n)
           /\ DiskStep(n, disk'[n])
           /\ disk'[n].dir.compacted = disk[n].dir.compacted
           /\ late' = late /\ setting' = setting
           /\ \/ Reply(n, "refused", {}) /\ run' = run /\ jobs' = jobs /\ acted' = acted
              \/ /\ Outcome(n, run[n], run[n].highest, sync[n].target) /\ SyncFrame(n)
                 /\ sync'[n] = NoSync \/ sync'[n].at = "marker"
<1>1. /\ sync[n].at = "marker" /\ disk' = [disk EXCEPT ![n] = Effect(n)]
      /\ late' = late /\ setting' = setting
  BY DEF MarkerClaimed, Working, Rest
<1>2. \/ Reply(n, "refused", {}) /\ UNCHANGED <<run, jobs, acted>>
      \/ /\ Start(n, run[n], jobs[n], {sync[n].chunk}, sync[n].target)
         /\ IF sync[n].todo = {} THEN Report(n, run[n], sync[n].finished)
            ELSE Proceed(n, Claiming(n, sync[n].todo, sync[n].target, sync[n].finished))
  BY Zenon DEF MarkerClaimed
<1>3. SyncShape(sync[n]) /\ RunShape(run[n])
  BY <1>1, RunningSync
<1>4. /\ DiskFrame(n) /\ disk'[n] = Effect(n) /\ DiskStep(n, disk'[n])
      /\ disk'[n].dir.compacted = disk[n].dir.compacted
  BY <1>1, <1>3, DiskWrite, MarkerStep
<1>5. CASE Reply(n, "refused", {}) /\ UNCHANGED <<run, jobs, acted>>
  <2>1. run' = run /\ jobs' = jobs /\ acted' = acted
    BY <1>5
  <2> QED
    BY <1>1, <1>4, <1>5, <2>1
<1>6. CASE /\ Start(n, run[n], jobs[n], {sync[n].chunk}, sync[n].target)
           /\ IF sync[n].todo = {} THEN Report(n, run[n], sync[n].finished)
              ELSE Proceed(n, Claiming(n, sync[n].todo, sync[n].target, sync[n].finished))
  <2>1. /\ Settles(n, run[n], sync[n].target)
        /\ JobsFrom(jobs'[n], jobs[n], sync[n].request.version.epoch)
    BY <1>1, <1>3, <1>6, MarkerSettles
  <2>2. sync[n].target \in Attempts
    BY <1>1, <1>3 DEF SyncShape
  <2>3. Outcome(n, run[n], run[n].highest, sync[n].target)
    BY <2>1, <2>2, SettledOutcome DEF NodeInv
  <2>4. SyncFrame(n) /\ (sync'[n] = NoSync \/ sync'[n].at = "marker")
    BY <2>1 DEF Settles, SyncFrame
  <2> QED
    BY <1>1, <1>4, <2>3, <2>4
<1> QED
  BY <1>2, <1>5, <1>6

(* Claiming a marker keeps the invariant.                                   *)
LEMMA MarkerClaimedKeeps ==
    ASSUME Domains, NEW n \in Nodes, NodeInv(n), MarkerClaimed(n)
    PROVE  NodeKept(n)
<1> DEFINE r == run[n]
<1>1. /\ sync[n].at = "marker" /\ DiskFrame(n) /\ DiskStep(n, disk'[n])
      /\ late' = late /\ setting' = setting
      /\ \/ Reply(n, "refused", {}) /\ run' = run /\ jobs' = jobs /\ acted' = acted
         \/ Outcome(n, r, r.highest, sync[n].target) /\ SyncFrame(n)
  BY MarkerClaimedOutcome
<1>2. /\ SyncShape(sync[n]) /\ sync[n] # NoSync /\ RunShape(r) /\ r.open
      /\ disk[n].dir.exists /\ r.epoch = disk[n].dir.epoch
      /\ disk[n].control = sync[n].request.version
      /\ disk[n].dir.epoch = sync[n].request.version.epoch
      /\ Fits(disk[n].dir.fence, r.position, r.highest)
      /\ \A j \in jobs[n] : ~j.cancelled => j.epoch = sync[n].request.version.epoch
  BY <1>1, RunningSync
<1>3. CASE Reply(n, "refused", {}) /\ run' = run /\ jobs' = jobs /\ acted' = acted
  BY <1>1, <1>2, <1>3, RefusalKeeps
<1>4. CASE Outcome(n, r, r.highest, sync[n].target) /\ SyncFrame(n)
  <2> HIDE DEF r
  <2>1. /\ DiskShape(disk'[n]) /\ ~Stale(disk'[n].control, disk[n].control)
        /\ disk'[n].control = sync[n].request.version /\ disk'[n].dir.exists
        /\ disk'[n].dir.epoch = sync[n].request.version.epoch
        /\ r.epoch = sync[n].request.version.epoch
        /\ Fits(disk'[n].dir.fence, r.position, r.highest)
        /\ late'[n] = late[n]
    BY <1>1, <1>2 DEF DiskStep
  <2>2. r.highest \in Attempts /\ \A c \in Chunks : r.highest[c] >= r.highest[c]
    BY <1>2 DEF RunShape, Attempts
  <2>3. NodeInv(n)'
    BY <1>2, <1>4, <2>1, <2>2, OutcomeKeeps
  <2> QED
    BY <1>1, <1>4, <2>3, KeptByFrame
<1> QED
  BY <1>1, <1>3, <1>4

(* An error ends the sync with whatever the operation left on disk.         *)
LEMMA DiskErrorKeeps ==
    ASSUME Domains, NEW n \in Nodes, NodeInv(n), DiskError(n)
    PROVE  NodeKept(n)
<1>1. /\ sync[n] # NoSync /\ late' = late /\ setting' = setting
  BY DEF DiskError, Rest
<1>2. DiskFrame(n) /\ disk'[n] \in Remains(n)
  <2>1. PICK d \in Remains(n) : disk' = [disk EXCEPT ![n] = d]
    BY DEF DiskError
  <2> QED
    BY <2>1, DiskWrite
<1>3. DiskStep(n, disk'[n])
  BY <1>2, OperationStep
<1>4. CASE sync[n].at = "fence"
  <2>1. Fail(n)
    BY <1>4 DEF DiskError
  <2> QED
    BY <1>1, <1>2, <1>3, <1>4, <2>1, FailKeeps
<1>5. CASE sync[n].at # "fence"
  <2>1. PICK kind : Reply(n, kind, {})
    BY <1>5 DEF DiskError
  <2>2. run' = run /\ jobs' = jobs /\ acted' = acted
    BY <1>5 DEF DiskError
  <2> QED
    BY <1>1, <1>2, <1>3, <2>1, <2>2, RefusalKeeps
<1> QED
  BY <1>4, <1>5

(* The disk operation of a dropped sync ends, or fails, on its own.         *)
LEMMA OrphanEndsKeeps ==
    ASSUME Domains, NEW n \in Nodes, NodeInv(n), OrphanEnds(n)
    PROVE  NodeKept(n)
<1>1. /\ sync[n] # NoSync /\ sync' = [sync EXCEPT ![n] = NoSync]
      /\ run' = run /\ jobs' = jobs /\ acted' = acted /\ calls' = calls /\ late' = late
      /\ setting' = setting
  BY DEF OrphanEnds, leader
<1>2. /\ DiskFrame(n)
      /\ disk'[n] = disk[n] \/ disk'[n] = Effect(n) \/ disk'[n] \in Remains(n)
  <2>1. \/ disk' = [disk EXCEPT ![n] = disk[n]]
        \/ disk' = [disk EXCEPT ![n] = Effect(n)]
        \/ \E d \in Remains(n) : disk' = [disk EXCEPT ![n] = d]
    BY DEF OrphanEnds
  <2> QED
    BY <2>1, DiskWrite
<1>3. DiskStep(n, disk'[n])
  BY <1>1, <1>2, OperationStep
<1>4. /\ RunKept(n) /\ JobsKept(n) /\ late'[n] \subseteq Request
      /\ calls'[n] = NoCall \/ CallShape(calls'[n])
  <2>1. /\ \A j \in jobs[n] : JobShape(j)
        /\ late[n] \subseteq Request /\ (calls[n] = NoCall \/ CallShape(calls[n]))
    BY DEF NodeInv, NodeShape
  <2> QED
    BY <1>1, <2>1 DEF RunKept, JobsKept
<1>5. sync'[n] = NoSync /\ acted'[n] = acted[n] /\ SyncFrame(n)
  BY <1>1 DEF Domains, SyncFrame
<1>6. NodeInv(n)'
  BY <1>3, <1>4, <1>5, SyncEnds
<1> QED
  BY <1>1, <1>2, <1>5, <1>6, KeptByFrame

(* The same sync, whoever waits for it.                                     *)
SameSync(s, t) ==
    \/ t = s
    \/ /\ SyncShape(t) /\ t.at = s.at /\ t.request = s.request
       /\ s.at = "fence" => t.position = s.position /\ t.payload = s.payload
       /\ s.at = "marker" => t.target = s.target /\ t.chunk = s.chunk /\ t.todo = s.todo

(* A sync loses its caller, or its handler.                                 *)
LEMMA SyncLeft ==
    ASSUME NEW s, SyncShape(s), NEW t,
           t = [s EXCEPT !.live = FALSE] \/ t = [s EXCEPT !.dropped = TRUE]
    PROVE  SameSync(s, t) /\ (~s.live => ~t.live)
<1>1. DOMAIN s = StageFields(s.at) /\ s.at \in Stages
  BY DEF SyncShape
<1>2. /\ DOMAIN t = DOMAIN s /\ t.at = s.at /\ t.request = s.request
      /\ ~s.live => ~t.live
      /\ s.at = "fence" => t.position = s.position /\ t.payload = s.payload
      /\ s.at = "marker" => /\ t.target = s.target /\ t.chunk = s.chunk
                            /\ t.todo = s.todo /\ t.finished = s.finished
  <2>1. CASE s.at = "fence"
    BY <1>1, <2>1 DEF StageFields, FenceFields, SyncFields
  <2>2. CASE s.at = "marker"
    BY <1>1, <2>2 DEF StageFields, MarkerFields, SyncFields
  <2>3. CASE s.at # "fence" /\ s.at # "marker"
    BY <1>1, <2>3 DEF StageFields, SyncFields
  <2> QED
    BY <2>1, <2>2, <2>3
<1>3. SyncShape(t)
  BY <1>1, <1>2 DEF SyncShape
<1> QED
  BY <1>2, <1>3 DEF SameSync

(* What the leader does to a node: its call, late requests, and who waits.  *)
LEMMA LeaderTouches ==
    ASSUME NEW n, NodeInv(n), disk'[n] = disk[n], run'[n] = run[n], jobs'[n] = jobs[n],
           acted'[n] = acted[n], SameSync(sync[n], sync'[n]),
           calls'[n] = NoCall \/ CallShape(calls'[n]), late'[n] \subseteq Request,
           CallerWaits(n)'
    PROVE  NodeInv(n)'
<1>1. /\ sync'[n] = NoSync \/ SyncShape(sync'[n])
      /\ sync'[n].at = sync[n].at
      /\ sync[n].at \in PastControl => sync'[n].request = sync[n].request
      /\ sync[n].at = "fence" => /\ sync'[n].position = sync[n].position
                                 /\ sync'[n].payload = sync[n].payload
  BY DEF SameSync, NodeInv, NodeShape
<1>2. NodeShape(n)'
  BY <1>1 DEF NodeInv, NodeShape
<1>3. ControlCovers(n)' /\ DirectoryIsCurrent(n)'
  BY <1>1 DEF NodeInv, ControlCovers, DirectoryIsCurrent
<1>4. RunHasDirectory(n)' /\ JobsAreCurrent(n)'
  BY <1>1 DEF NodeInv, RunHasDirectory, JobsAreCurrent
<1>5. FenceFits(n)'
  BY <1>1 DEF NodeInv, FenceFits
<1> QED
  BY <1>2, <1>3, <1>4, <1>5 DEF NodeInv

(* A handler without a caller is dropped at its await.                      *)
LEMMA DropSyncKeeps ==
    ASSUME Domains, NEW n \in Nodes, NodeInv(n), DropSync(n)
    PROVE  NodeKept(n)
<1> DEFINE t == [sync[n] EXCEPT !.dropped = TRUE]
<1>1. /\ sync[n] # NoSync /\ ~sync[n].live
      /\ disk' = disk /\ run' = run /\ jobs' = jobs /\ acted' = acted /\ calls' = calls
      /\ late' = late /\ setting' = setting
  BY DEF DropSync, leader, history
<1>2. sync' = [sync EXCEPT ![n] = t]
  BY DEF DropSync
<1>3. SameSync(sync[n], t) /\ ~t.live
  <2>1. SyncShape(sync[n]) /\ t = [sync[n] EXCEPT !.dropped = TRUE]
    BY <1>1 DEF NodeInv, NodeShape
  <2> HIDE DEF t
  <2> QED
    BY <1>1, <2>1, SyncLeft
<1> HIDE DEF t
<1>4. sync'[n] = t /\ SyncFrame(n) /\ DiskFrame(n)
  BY <1>1, <1>2 DEF Domains, SyncFrame, DiskFrame
<1>5. NodeInv(n)'
  <2>1. CallerWaits(n)'
    BY <1>3, <1>4 DEF CallerWaits
  <2>2. late[n] \subseteq Request /\ (calls[n] = NoCall \/ CallShape(calls[n]))
    BY DEF NodeInv, NodeShape
  <2> QED
    BY <1>1, <1>3, <1>4, <2>1, <2>2, LeaderTouches
<1> QED
  BY <1>1, <1>4, <1>5, KeptByFrame

(* A request arrives at a node that handles none.                           *)
LEMMA BeginKeeps ==
    ASSUME Domains, NEW n \in Nodes, NodeInv(n), NEW q \in Request, NEW live, Begin(n, q, live),
           DOMAIN calls' = Nodes, DOMAIN late' = Nodes,
           \A m \in Nodes \ {n} : calls'[m] = calls[m] /\ late'[m] = late[m],
           calls'[n] = NoCall \/ CallShape(calls'[n]), late'[n] \subseteq Request,
           live => calls'[n].state = "inside"
    PROVE  NodeKept(n)
<1> DEFINE t == [at |-> "control", request |-> q, live |-> live, dropped |-> FALSE]
<1>1. /\ sync[n] = NoSync /\ sync' = [sync EXCEPT ![n] = t]
      /\ disk' = disk /\ run' = run /\ jobs' = jobs /\ acted' = acted /\ setting' = setting
  BY DEF Begin, history
<1>2. /\ SyncShape(t) /\ t.at = "control" /\ (t.live <=> live)
  <2>1. t.at = "control" /\ t.request = q /\ DOMAIN t = SyncFields
    BY DEF SyncFields
  <2> HIDE DEF t
  <2> QED
    BY <2>1 DEF SyncShape, Stages, StageFields, t
<1> HIDE DEF t
<1>3. sync'[n] = t /\ DOMAIN sync' = Nodes /\ \A m \in Nodes \ {n} : sync'[m] = sync[m]
  BY <1>1 DEF Domains
<1>4. NodeShape(n)'
  BY <1>1, <1>2, <1>3 DEF NodeInv, NodeShape
<1>5. CallerWaits(n)'
  BY <1>2, <1>3 DEF CallerWaits
<1>6. ControlCovers(n)' /\ DirectoryIsCurrent(n)'
  BY <1>1, <1>2, <1>3 DEF NodeInv, ControlCovers, DirectoryIsCurrent, PastControl
<1>7. RunHasDirectory(n)' /\ JobsAreCurrent(n)'
  BY <1>1, <1>2, <1>3 DEF NodeInv, RunHasDirectory, JobsAreCurrent
<1>8. FenceFits(n)'
  BY <1>1, <1>2, <1>3 DEF NodeInv, FenceFits
<1>9. NodeInv(n)'
  BY <1>4, <1>5, <1>6, <1>7, <1>8 DEF NodeInv
<1>10. Others(n) /\ Domains'
  BY <1>1, <1>3 DEF Others, Domains
<1> QED
  BY <1>9, <1>10 DEF NodeKept

(* It arrives on its call.                                                  *)
LEMMA ReceiveKeeps ==
    ASSUME Domains, NEW n \in Nodes, NodeInv(n), Receive(n)
    PROVE  NodeKept(n)
<1> DEFINE q == calls[n].request
           k == Call("inside", q, NoAnswer)
<1>1. /\ calls[n].state = "sent" /\ calls' = [calls EXCEPT ![n] = k]
      /\ Begin(n, q, TRUE) /\ late' = late
  BY DEF Receive
<1>2. q \in Request /\ late[n] \subseteq Request
  BY <1>1 DEF NodeInv, NodeShape, NoCall, CallShape
<1>3. k.state = "inside" /\ CallShape(k)
  <2>1. k.state = "inside" /\ k.request = q /\ k.answer.finished = {}
    BY DEF Call, NoAnswer, Answer
  <2> HIDE DEF k
  <2> QED
    BY <1>2, <2>1, MoreResults DEF CallShape
<1> HIDE DEF k, q
<1>4. /\ calls'[n] = k /\ DOMAIN calls' = Nodes /\ DOMAIN late' = Nodes
      /\ \A m \in Nodes \ {n} : calls'[m] = calls[m] /\ late'[m] = late[m]
  BY <1>1 DEF Domains
<1> QED
  BY <1>1, <1>2, <1>3, <1>4, BeginKeeps

(* Or after the leader has given up.                                        *)
LEMMA ReceiveLateKeeps ==
    ASSUME Domains, NEW n \in Nodes, NodeInv(n), ReceiveLate(n)
    PROVE  NodeKept(n)
<1>1. PICK q \in late[n] : Begin(n, q, FALSE)
  BY DEF ReceiveLate
<1>2. late' = [late EXCEPT ![n] = {}] /\ calls' = calls
  BY DEF ReceiveLate
<1>3. q \in Request /\ (calls[n] = NoCall \/ CallShape(calls[n]))
  BY DEF NodeInv, NodeShape
<1>4. /\ late'[n] = {} /\ DOMAIN calls' = Nodes /\ DOMAIN late' = Nodes
      /\ \A m \in Nodes \ {n} : calls'[m] = calls[m] /\ late'[m] = late[m]
  BY <1>2 DEF Domains
<1> QED
  BY <1>1, <1>2, <1>3, <1>4, BeginKeeps
-----------------------------------------------------------------------------

(* The actions of a chunk's tasks, and a node's crashes.                    *)

(* A disk that differs in its ledger only.                                  *)
LedgerOnly(d, x) ==
    /\ DiskShape(x) /\ x.control = d.control
    /\ x.dir.exists = d.dir.exists /\ x.dir.epoch = d.dir.epoch
    /\ x.dir.compacted = d.dir.compacted /\ x.dir.fence = d.dir.fence
    /\ x.dir.markers = d.dir.markers

(* Writing the ledger changes nothing else of the disk.                     *)
LEMMA NewLedger ==
    ASSUME NEW n, NodeInv(n), NEW l, NEW x, x = [disk[n] EXCEPT !.dir.ledger = l]
    PROVE  LedgerOnly(disk[n], x)
<1> DEFINE d == disk[n]
           new == [d.dir EXCEPT !.ledger = l]
<1>1. DiskShape(d)
  BY DEF NodeInv, NodeShape
<1>2. /\ DOMAIN d = DiskFields /\ DOMAIN d.dir = DirFields
      /\ d.dir.markers \subseteq Chunks \X Nat /\ d.dir.fence \in Files
  BY <1>1 DEF DiskShape
<1>3. x = [d EXCEPT !.dir = new]
  <2> HIDE DEF d
  <2> QED
    BY <1>2 DEF DiskFields, d
<1>4. /\ DOMAIN new = DirFields /\ new.fence = d.dir.fence /\ new.markers = d.dir.markers
      /\ new.exists = d.dir.exists /\ new.epoch = d.dir.epoch
      /\ new.compacted = d.dir.compacted
  BY <1>2 DEF DirFields
<1>5. DiskShape(x) /\ x.control = d.control /\ x.dir = new
  <2> HIDE DEF d, new
  <2> QED
    BY <1>1, <1>2, <1>3, <1>4 DEF DiskShape, DiskFields
<1> HIDE DEF new
<1> QED
  BY <1>4, <1>5 DEF LedgerOnly

(* A disk that stays as it is.                                              *)
LEMMA SameLedger ==
    ASSUME NEW n, NodeInv(n)
    PROVE  LedgerOnly(disk[n], disk[n])
BY DEF NodeInv, NodeShape, LedgerOnly

(* A step of a node's jobs: the sync under way, the calls and the history   *)
(* of what the node acted on stay.                                          *)
JobFrame(n) ==
    /\ DiskFrame(n) /\ SyncFrame(n)
    /\ sync'[n] = sync[n] /\ calls'[n] = calls[n] /\ acted'[n] = acted[n]
    /\ late' = late /\ setting' = setting

(* Such a step keeps the invariant.                                         *)
LEMMA JobStepKeeps ==
    ASSUME Domains, NEW n \in Nodes, NodeInv(n), JobFrame(n), RunKept(n), JobsKept(n),
           LedgerOnly(disk[n], disk'[n])
    PROVE  NodeKept(n)
<1>1. /\ sync'[n] = sync[n] /\ calls'[n] = calls[n] /\ acted'[n] = acted[n]
      /\ late'[n] = late[n]
  BY DEF JobFrame
<1>2. /\ disk'[n].control = disk[n].control /\ disk'[n].dir.exists = disk[n].dir.exists
      /\ disk'[n].dir.epoch = disk[n].dir.epoch /\ disk'[n].dir.fence = disk[n].dir.fence
      /\ DiskShape(disk'[n])
  BY DEF LedgerOnly
<1>3. /\ run'[n] = NoRun \/ RunShape(run'[n])
      /\ run'[n].open = run[n].open
      /\ run[n].open => /\ run'[n].epoch = run[n].epoch
                        /\ run'[n].highest = run[n].highest
                        /\ run'[n].position = run[n].position
  BY DEF RunKept, NodeInv, NodeShape
<1>4. NodeShape(n)'
  BY <1>1, <1>2, <1>3 DEF NodeInv, NodeShape, JobsKept
<1>5. CallerWaits(n)' /\ ControlCovers(n)' /\ DirectoryIsCurrent(n)'
  BY <1>1, <1>2 DEF NodeInv, CallerWaits, ControlCovers, DirectoryIsCurrent
<1>6. RunHasDirectory(n)'
  BY <1>1, <1>2, <1>3 DEF NodeInv, RunHasDirectory
<1>7. JobsAreCurrent(n)'
  BY <1>2, <1>3 DEF NodeInv, JobsAreCurrent, JobsKept
<1>8. FenceFits(n)'
  BY <1>1, <1>2, <1>3 DEF NodeInv, FenceFits, RunHasDirectory
<1>9. NodeInv(n)'
  BY <1>4, <1>5, <1>6, <1>7, <1>8 DEF NodeInv
<1> QED
  BY <1>9, KeptByFrame DEF JobFrame

(* A job whose task changes is otherwise the same.                          *)
LEMMA TaskChange ==
    ASSUME NEW j, JobShape(j), NEW t, NEW v, NEW k, k = [j EXCEPT !.tasks[t] = v]
    PROVE  JobShape(k) /\ k.cancelled = j.cancelled /\ k.epoch = j.epoch
<1> DEFINE ts == [j.tasks EXCEPT ![t] = v]
<1>1. DOMAIN j = JobFields
  BY DEF JobShape
<1>2. k = [j EXCEPT !.tasks = ts]
  BY <1>1 DEF JobFields
<1>3. DOMAIN ts = DOMAIN j.tasks
  OBVIOUS
<1> HIDE DEF ts
<1>4. /\ DOMAIN k = JobFields /\ k.chunk = j.chunk /\ k.attempt = j.attempt
      /\ k.cancelled = j.cancelled /\ k.epoch = j.epoch /\ k.tasks = ts
  BY <1>1, <1>2 DEF JobFields
<1> QED
  BY <1>3, <1>4 DEF JobShape

(* Replacing a job by one that differs in its tasks keeps the jobs.         *)
LEMMA ReplaceKeeps ==
    ASSUME Domains, NEW n \in Nodes, NodeInv(n), NEW j \in jobs[n], NEW t, NEW v,
           \/ Replace(n, j, {[j EXCEPT !.tasks[t] = v]})
           \/ Replace(n, j, {})
    PROVE  /\ JobsKept(n) /\ DOMAIN jobs' = Nodes
           /\ \A m \in Nodes \ {n} : jobs'[m] = jobs[m]
<1> DEFINE k == [j EXCEPT !.tasks[t] = v]
<1>1. \A i \in jobs[n] : JobShape(i)
  BY DEF NodeInv, NodeShape
<1>2. JobShape(k) /\ k.cancelled = j.cancelled /\ k.epoch = j.epoch
  <2>1. k = [j EXCEPT !.tasks[t] = v]
    OBVIOUS
  <2> HIDE DEF k
  <2> QED
    BY <1>1, <2>1, TaskChange
<1> HIDE DEF k
<1>3. /\ jobs'[n] = (jobs[n] \ {j}) \cup {k} \/ jobs'[n] = jobs[n] \ {j}
      /\ DOMAIN jobs' = Nodes /\ \A m \in Nodes \ {n} : jobs'[m] = jobs[m]
  BY DEF Replace, Domains, k
<1>4. JobsKept(n)
  BY <1>1, <1>2, <1>3 DEF JobsKept
<1> QED
  BY <1>3, <1>4

(* What a run may note of its jobs: a loss, a failure or a result.          *)
RunNote(r, t) ==
    /\ RunShape(t) /\ t.open = r.open /\ t.epoch = r.epoch
    /\ t.highest = r.highest /\ t.position = r.position
    /\ t.chunks = r.chunks /\ t.resumed = r.resumed
    /\ t.failure = r.failure \/ t.failure = TRUE

(* What a step of a job does to its node.                                   *)
JobStepped(n) ==
    /\ JobFrame(n) /\ LedgerOnly(disk[n], disk'[n])
    /\ run'[n] = run[n] \/ RunNote(run[n], run'[n])

(* A task starts.                                                           *)
LEMMA LaunchTaskKeeps ==
    ASSUME Domains, NEW n \in Nodes, NodeInv(n), NEW j \in jobs[n], NEW t, LaunchTask(n, j, t)
    PROVE  NodeKept(n) /\ JobStepped(n)
<1>1. /\ disk' = disk /\ run' = run /\ sync' = sync /\ acted' = acted /\ calls' = calls
      /\ late' = late /\ setting' = setting
      /\ Replace(n, j, {[j EXCEPT !.tasks[t] = "running"]})
  BY DEF LaunchTask, leader
<1>2. /\ JobsKept(n) /\ DOMAIN jobs' = Nodes
      /\ \A m \in Nodes \ {n} : jobs'[m] = jobs[m]
  BY <1>1, ReplaceKeeps
<1>3. JobFrame(n) /\ RunKept(n)
  BY <1>1, <1>2 DEF JobFrame, DiskFrame, SyncFrame, Domains, RunKept
<1>4. LedgerOnly(disk[n], disk'[n])
  BY <1>1, SameLedger
<1> QED
  BY <1>1, <1>2, <1>3, <1>4, JobStepKeeps DEF JobStepped

(* A record is appended to the ledger of the directory it belongs to.       *)
LEMMA AppendStep ==
    ASSUME Domains, NEW n \in Nodes, NodeInv(n), NEW j, NEW t, NEW o,
           disk' = Append1(n, j, t, o)
    PROVE  DiskFrame(n) /\ LedgerOnly(disk[n], disk'[n])
<1>1. CASE ~InLedger(n, j)
  <2>1. disk' = disk
    BY <1>1 DEF Append1
  <2> QED
    BY <2>1, SameLedger DEF DiskFrame, Domains
<1>2. CASE InLedger(n, j)
  <2> DEFINE l == [disk[n].dir.ledger EXCEPT
                     ![t] = Append(disk[n].dir.ledger[t], [attempt |-> j.attempt, outcome |-> o])]
             x == [disk[n] EXCEPT !.dir.ledger = l]
  <2>1. disk' = [disk EXCEPT ![n].dir.ledger[t] =
                   Append(@, [attempt |-> j.attempt, outcome |-> o])]
    BY <1>2 DEF Append1
  <2>2. disk' = [disk EXCEPT ![n] = x]
    <3>1. DOMAIN disk[n] = DiskFields /\ DOMAIN disk[n].dir = DirFields
      BY DEF NodeInv, NodeShape, DiskShape
    <3> DEFINE rec == [attempt |-> j.attempt, outcome |-> o]
    <3> HIDE DEF rec
    <3> QED
      BY <2>1, <3>1, Zenon DEF Domains, DiskFields, DirFields, rec
  <2>3. x = [disk[n] EXCEPT !.dir.ledger = l]
    OBVIOUS
  <2> HIDE DEF l, x
  <2>4. LedgerOnly(disk[n], x)
    BY <2>3, NewLedger
  <2> QED
    BY <2>2, <2>4, DiskWrite
<1> QED
  BY <1>1, <1>2

(* A task ends.                                                             *)
LEMMA EndTaskKeeps ==
    ASSUME Domains, NEW n \in Nodes, NodeInv(n), NEW j \in jobs[n], NEW t, NEW o,
           EndTask(n, j, t, o)
    PROVE  NodeKept(n) /\ JobStepped(n)
<1>1. /\ run' = run /\ sync' = sync /\ acted' = acted /\ calls' = calls
      /\ late' = late /\ setting' = setting /\ disk' = Append1(n, j, t, o)
      /\ Replace(n, j, {[j EXCEPT !.tasks[t] = o]})
  BY DEF EndTask, leader, history
<1>2. /\ JobsKept(n) /\ DOMAIN jobs' = Nodes
      /\ \A m \in Nodes \ {n} : jobs'[m] = jobs[m]
  BY <1>1, ReplaceKeeps
<1>3. DiskFrame(n) /\ LedgerOnly(disk[n], disk'[n])
  BY <1>1, AppendStep
<1>4. JobFrame(n) /\ RunKept(n)
  BY <1>1, <1>2, <1>3 DEF JobFrame, SyncFrame, Domains, RunKept
<1> QED
  BY <1>1, <1>2, <1>3, <1>4, JobStepKeeps DEF JobStepped

(* A run that notes a loss, a failure or a result is otherwise the same.    *)
LEMMA RunNoted ==
    ASSUME NEW r, RunShape(r), NEW f \in ChunkResult, NEW t,
           \/ t = [r EXCEPT !.unknown = TRUE]
           \/ t = [r EXCEPT !.failure = TRUE, !.cancelled = TRUE]
           \/ t = [r EXCEPT !.finished = r.finished \cup {f}]
    PROVE  RunNote(r, t)
<1>1. DOMAIN r = RunFields
  BY DEF RunShape
<1>2. Results(r.finished) /\ Results(r.finished \cup {f})
  BY MoreResults DEF RunShape
<1> DEFINE fs == r.finished \cup {f}
<1> HIDE DEF fs
<1>3. /\ DOMAIN t = RunFields /\ t.open = r.open /\ t.epoch = r.epoch
      /\ t.highest = r.highest /\ t.position = r.position
      /\ t.chunks = r.chunks /\ t.resumed = r.resumed
      /\ t.finished = r.finished \/ t.finished = fs
      /\ t.failure = r.failure \/ t.failure = TRUE
  <2>1. CASE t = [r EXCEPT !.unknown = TRUE]
    BY <1>1, <2>1 DEF RunFields
  <2>2. CASE t = [r EXCEPT !.failure = TRUE, !.cancelled = TRUE]
    BY <1>1, <2>2 DEF RunFields
  <2>3. CASE t = [r EXCEPT !.finished = fs]
    BY <1>1, <2>3 DEF RunFields
  <2> QED
    BY <2>1, <2>2, <2>3 DEF fs
<1> QED
  BY <1>2, <1>3 DEF RunShape, RunNote, fs

(* Only the run a job belongs to notes anything.                            *)
LEMMA RunNotes ==
    ASSUME Domains, NEW n \in Nodes, NodeInv(n), NEW f \in ChunkResult, NEW t,
           \/ t = run[n]
           \/ run[n].open /\ t = [run[n] EXCEPT !.unknown = TRUE]
           \/ run[n].open /\ t = [run[n] EXCEPT !.failure = TRUE, !.cancelled = TRUE]
           \/ run[n].open /\ t = [run[n] EXCEPT !.finished = run[n].finished \cup {f}],
           run' = [run EXCEPT ![n] = t]
    PROVE  /\ RunKept(n) /\ DOMAIN run' = Nodes
           /\ \A m \in Nodes \ {n} : run'[m] = run[m]
           /\ run'[n] = run[n] \/ RunNote(run[n], run'[n])
<1>1. /\ run'[n] = t /\ DOMAIN run' = Nodes
      /\ \A m \in Nodes \ {n} : run'[m] = run[m]
  BY DEF Domains
<1>2. CASE t = run[n]
  BY <1>1, <1>2 DEF RunKept
<1>3. CASE t # run[n]
  <2>1. run[n].open
    BY <1>3
  <2>2. RunShape(run[n])
    BY <2>1 DEF NodeInv, NodeShape, NoRun
  <2>3. RunNote(run[n], t)
    <3>1. \/ t = [run[n] EXCEPT !.unknown = TRUE]
          \/ t = [run[n] EXCEPT !.failure = TRUE, !.cancelled = TRUE]
          \/ t = [run[n] EXCEPT !.finished = run[n].finished \cup {f}]
      BY <1>3
    <3> QED
      BY <2>2, <3>1, RunNoted
  <2> QED
    BY <1>1, <2>3 DEF RunKept, RunNote
<1> QED
  BY <1>2, <1>3

(* Some result, for the steps that publish none.                            *)
LEMMA SomeResult == \E f : f \in ChunkResult
<1>1. LastChunk \in Chunks
  BY LastChunkFacts
<1>2. [chunk |-> LastChunk, attempt |-> 0, succeeded |-> 0, failed |-> 0, not_run |-> 0]
         \in ChunkResult
  BY <1>1 DEF ChunkResult
<1> QED
  BY <1>2

(* A task's outcome stays unknown.                                          *)
LEMMA LoseTaskKeeps ==
    ASSUME Domains, NEW n \in Nodes, NodeInv(n), NEW j \in jobs[n], NEW t, LoseTask(n, j, t)
    PROVE  NodeKept(n) /\ JobStepped(n)
<1> DEFINE r == IF InRun(n, j) THEN [run[n] EXCEPT !.unknown = TRUE] ELSE run[n]
<1>1. /\ disk' = disk /\ sync' = sync /\ acted' = acted /\ calls' = calls
      /\ late' = late /\ setting' = setting
      /\ Replace(n, j, {[j EXCEPT !.tasks[t] = "lost"]})
  BY DEF LoseTask, leader
<1>2. run' = [run EXCEPT ![n] = r]
  BY DEF LoseTask, Domains
<1>3. r = run[n] \/ (run[n].open /\ r = [run[n] EXCEPT !.unknown = TRUE])
  BY DEF InRun
<1> HIDE DEF r
<1>4. /\ RunKept(n) /\ DOMAIN run' = Nodes
      /\ run'[n] = run[n] \/ RunNote(run[n], run'[n])
      /\ \A m \in Nodes \ {n} : run'[m] = run[m]
  <2>1. PICK f : f \in ChunkResult
    BY SomeResult
  <2> QED
    BY <1>2, <1>3, <2>1, RunNotes
<1>5. /\ JobsKept(n) /\ DOMAIN jobs' = Nodes
      /\ \A m \in Nodes \ {n} : jobs'[m] = jobs[m]
  BY <1>1, ReplaceKeeps
<1>6. JobFrame(n)
  BY <1>1, <1>4, <1>5 DEF JobFrame, DiskFrame, SyncFrame, Domains
<1>7. LedgerOnly(disk[n], disk'[n])
  BY <1>1, SameLedger
<1> QED
  BY <1>4, <1>5, <1>6, <1>7, JobStepKeeps DEF JobStepped

(* The ledger stops taking records.                                         *)
LEMMA AppendFailsKeeps ==
    ASSUME Domains, NEW n \in Nodes, NodeInv(n), NEW j \in jobs[n], NEW t, AppendFails(n, j, t)
    PROVE  NodeKept(n) /\ JobStepped(n)
<1> DEFINE r == IF InRun(n, j) THEN [run[n] EXCEPT !.failure = TRUE, !.cancelled = TRUE]
                ELSE run[n]
<1>1. /\ disk' = disk /\ sync' = sync /\ acted' = acted /\ calls' = calls
      /\ late' = late /\ setting' = setting
      /\ jobs' = [jobs EXCEPT ![n] = Cancelled(jobs[n] \ {j})]
  BY DEF AppendFails, leader
<1>2. run' = [run EXCEPT ![n] = r]
  BY DEF AppendFails, Domains
<1>3. \/ r = run[n]
      \/ run[n].open /\ r = [run[n] EXCEPT !.failure = TRUE, !.cancelled = TRUE]
  BY DEF InRun
<1> HIDE DEF r
<1>4. /\ RunKept(n) /\ DOMAIN run' = Nodes
      /\ run'[n] = run[n] \/ RunNote(run[n], run'[n])
      /\ \A m \in Nodes \ {n} : run'[m] = run[m]
  <2>1. PICK f : f \in ChunkResult
    BY SomeResult
  <2> QED
    BY <1>2, <1>3, <2>1, RunNotes
<1>5. /\ JobsKept(n) /\ DOMAIN jobs' = Nodes
      /\ \A m \in Nodes \ {n} : jobs'[m] = jobs[m]
  <2>1. /\ jobs'[n] = Cancelled(jobs[n] \ {j}) /\ DOMAIN jobs' = Nodes
        /\ \A m \in Nodes \ {n} : jobs'[m] = jobs[m]
    BY <1>1 DEF Domains
  <2>2. \A i \in jobs[n] \ {j} : JobShape(i)
    BY DEF NodeInv, NodeShape
  <2>3. \A i \in jobs'[n] : JobShape(i) /\ i.cancelled = TRUE
    BY <2>1, <2>2, CancelledKept
  <2> QED
    BY <2>1, <2>3 DEF JobsKept
<1>6. JobFrame(n)
  BY <1>1, <1>4, <1>5 DEF JobFrame, DiskFrame, SyncFrame, Domains
<1>7. LedgerOnly(disk[n], disk'[n])
  BY <1>1, SameLedger
<1> QED
  BY <1>4, <1>5, <1>6, <1>7, JobStepKeeps DEF JobStepped

(* The result of a job counts its tasks.                                    *)
LEMMA ResultShape ==
    ASSUME NEW j, JobShape(j)
    PROVE  ResultOf(j) \in ChunkResult
<1>1. ASSUME NEW o
      PROVE  Tally(Settled(j), o) \in Nat
  <2> DEFINE S == {t \in DOMAIN Settled(j) : Settled(j)[t] = o}
  <2>1. DOMAIN Settled(j) = DOMAIN j.tasks
    BY DEF Settled
  <2>2. S \subseteq Tasks
    BY <2>1 DEF JobShape
  <2>3. IsFiniteSet(Tasks)
    BY FS_Interval, ArrayAssumption DEF Tasks
  <2>4. Tally(Settled(j), o) = Cardinality(S)
    BY DEF Tally
  <2> HIDE DEF S
  <2>5. IsFiniteSet(S)
    BY <2>2, <2>3, FS_Subset
  <2> QED
    BY <2>4, <2>5, FS_CardinalityType
<1>2. j.chunk \in Chunks /\ j.attempt \in Nat
  BY DEF JobShape
<1> QED
  BY <1>1, <1>2 DEF ResultOf, ChunkResult

(* A chunk's last records are written and its result is published.          *)
LEMMA FinishChunkKeeps ==
    ASSUME Domains, NEW n \in Nodes, NodeInv(n), NEW j \in jobs[n], FinishChunk(n, j)
    PROVE  NodeKept(n) /\ JobStepped(n)
<1> DEFINE f == ResultOf(j)
           r == IF InRun(n, j) THEN [run[n] EXCEPT !.finished = run[n].finished \cup {f}]
                ELSE run[n]
           l == [t \in Tasks |->
                   IF InLedger(n, j) /\ t \in DOMAIN j.tasks /\ j.tasks[t] \notin Ended
                   THEN Append(disk[n].dir.ledger[t],
                               [attempt |-> j.attempt, outcome |-> "notrun"])
                   ELSE disk[n].dir.ledger[t]]
           x == [disk[n] EXCEPT !.dir.ledger = l]
<1>1. /\ sync' = sync /\ acted' = acted /\ calls' = calls
      /\ late' = late /\ setting' = setting /\ Replace(n, j, {})
  BY DEF FinishChunk, leader, history
<1>2. run' = [run EXCEPT ![n] = r]
  BY DEF FinishChunk, Domains
<1>3. r = run[n] \/ (run[n].open /\ r = [run[n] EXCEPT !.finished = run[n].finished \cup {f}])
  BY DEF InRun
<1>4. f \in ChunkResult
  BY ResultShape DEF NodeInv, NodeShape
<1>5. disk' = [disk EXCEPT ![n] = x]
  BY Zenon DEF FinishChunk, Domains
<1>6. x = [disk[n] EXCEPT !.dir.ledger = l]
  OBVIOUS
<1> HIDE DEF f, r, l, x
<1>7. /\ RunKept(n) /\ DOMAIN run' = Nodes
      /\ run'[n] = run[n] \/ RunNote(run[n], run'[n])
      /\ \A m \in Nodes \ {n} : run'[m] = run[m]
  BY <1>2, <1>3, <1>4, RunNotes
<1>8. /\ JobsKept(n) /\ DOMAIN jobs' = Nodes
      /\ \A m \in Nodes \ {n} : jobs'[m] = jobs[m]
  BY <1>1, ReplaceKeeps
<1>9. DiskFrame(n) /\ LedgerOnly(disk[n], disk'[n])
  <2>1. LedgerOnly(disk[n], x)
    BY <1>6, NewLedger
  <2> QED
    BY <1>5, <2>1, DiskWrite
<1>10. JobFrame(n)
  BY <1>1, <1>7, <1>8, <1>9 DEF JobFrame, SyncFrame, Domains
<1> QED
  BY <1>7, <1>8, <1>9, <1>10, JobStepKeeps DEF JobStepped

(* A crash leaves the disk, with whatever of an operation it cut short.     *)
LEMMA CrashKeeps ==
    ASSUME Domains, NEW n \in Nodes, NodeInv(n), Crash(n)
    PROVE  NodeKept(n)
<1> DEFINE k == IF calls[n].state = "inside" THEN NoCall ELSE calls[n]
<1>1. /\ run' = [run EXCEPT ![n] = NoRun] /\ jobs' = [jobs EXCEPT ![n] = {}]
      /\ sync' = [sync EXCEPT ![n] = NoSync] /\ acted' = acted
      /\ late' = late /\ setting' = setting
  BY DEF Crash
<1>2. calls' = [calls EXCEPT ![n] = k]
  BY DEF Crash, Domains
<1>3. PICK x \in Remains(n) : disk' = [disk EXCEPT ![n] = x]
  BY DEF Crash
<1>4. DiskFrame(n) /\ DiskStep(n, disk'[n])
  BY <1>3, DiskWrite, OperationStep
<1>5. k = NoCall \/ CallShape(k)
  BY DEF NodeInv, NodeShape
<1> HIDE DEF k
<1>6. /\ run'[n] = NoRun /\ jobs'[n] = {} /\ sync'[n] = NoSync /\ calls'[n] = k
      /\ acted'[n] = acted[n] /\ late'[n] = late[n] /\ SyncFrame(n)
  BY <1>1, <1>2 DEF Domains, SyncFrame
<1>7. run'[n].open = FALSE /\ sync'[n].at = "none"
  BY <1>6 DEF NoRun, NoSync
<1>8. NodeShape(n)'
  BY <1>4, <1>5, <1>6 DEF NodeInv, NodeShape, DiskStep
<1>9. ControlCovers(n)'
  <2>1. /\ disk'[n].control \in Version /\ disk[n].control \in Version
        /\ acted[n].version \in Version
        /\ ~Stale(disk'[n].control, disk[n].control)
    BY <1>4 DEF DiskStep, DiskShape, NodeInv, NodeShape
  <2>2. ~Stale(disk[n].control, acted[n].version)
    BY DEF NodeInv, ControlCovers
  <2>3. ~Stale(disk'[n].control, acted[n].version)
    BY <2>1, <2>2, StaleOrder
  <2> QED
    BY <1>6, <1>7, <2>3 DEF ControlCovers, PastControl
<1>10. DirectoryIsCurrent(n)'
  BY <1>4 DEF DirectoryIsCurrent, DiskStep
<1>11. CallerWaits(n)' /\ RunHasDirectory(n)' /\ JobsAreCurrent(n)' /\ FenceFits(n)'
  BY <1>6, <1>7 DEF CallerWaits, RunHasDirectory, JobsAreCurrent, FenceFits
<1>12. NodeInv(n)'
  BY <1>8, <1>9, <1>10, <1>11 DEF NodeInv
<1> QED
  BY <1>1, <1>4, <1>6, <1>12, KeptByFrame
-----------------------------------------------------------------------------

(* The actions of the leader and of the replicated store.                   *)

(* An array is terminal when nothing is queued and nothing is held.         *)
LEMMA TerminalIs ==
    ASSUME NEW a \in ArrayState
    PROVE  /\ IsTerminal(a) <=> a.queued = {} /\ Held(a) = {}
           /\ Status(a) # "none"
<1> DEFINE drained == a.queued = {} /\ Held(a) = {}
<1>1. a.stopped \in {"no", "cancelled", "failures", "unrunnable"}
  BY DEF ArrayState, StopReasons
<1>2. CASE ~drained
  <2>1. Status(a) \in {"Stopping", "Running"}
    BY <1>1, <1>2 DEF Status
  <2> QED
    BY <1>2, <2>1 DEF IsTerminal
<1>3. CASE drained
  <2>1. Status(a) \in {"Cancelled", "Failed", "Succeeded", "CompletedWithFailures"}
    BY <1>1, <1>3 DEF Status
  <2> QED
    BY <1>3, <2>1 DEF IsTerminal
<1> QED
  BY <1>2, <1>3

(* The fields of a write.                                                   *)
LEMMA WriteFields ==
    ASSUME NEW w \in Write
    PROVE  /\ w.op \in {"requeue", "unknown", "complete", "grant", "replay", "stop"}
           /\ w.op # "stop" => w.node \in Nodes
           /\ w.op = "complete" => w.result \in ChunkResult
           /\ w.op = "grant" => w.chunks \in SUBSET Chunks
           /\ w.op = "stop" => w.reason \in StopReasons
BY DEF Write

(* Every write takes a valid array to a valid one, and a terminal array to  *)
(* a terminal one.                                                          *)
LEMMA AppliedKeeps ==
    ASSUME NEW a \in ArrayState, ValidSnapshot(a), NEW w \in Write
    PROVE  /\ AppliedTo(a, w) \in ArrayState /\ ValidSnapshot(AppliedTo(a, w))
           /\ IsTerminal(a) => IsTerminal(AppliedTo(a, w))
           /\ w.op = "unknown" => AppliedTo(a, w) = a
<1>1. /\ w.op \in {"requeue", "unknown", "complete", "grant", "replay", "stop"}
      /\ w.op # "stop" => w.node \in Nodes
      /\ w.op = "complete" => w.result \in ChunkResult
      /\ w.op = "grant" => w.chunks \in SUBSET Chunks
      /\ w.op = "stop" => w.reason \in StopReasons
  BY WriteFields
<1>2. a.grants \in [Nodes -> SUBSET Chunks]
  BY DEF ArrayState
<1>3. CASE AppliedTo(a, w) = a /\ w.op # "stop"
  BY <1>3
<1>4. CASE w.op \in {"requeue", "replay"} /\ AppliedTo(a, w) = RequeueNode(a, w.node)
  <2> DEFINE b == RequeueNode(a, w.node)
  <2>1. b \in ArrayState /\ ValidSnapshot(b)
    BY <1>1, <1>4, RequeueKeeps
  <2>2. ASSUME a.queued = {} /\ Held(a) = {}
        PROVE  b.queued = {} /\ Held(b) = {}
    <3>1. \A n \in Nodes : a.grants[n] = {}
      BY <1>2, <2>2 DEF Held
    <3>2. /\ b.queued = a.queued \/ b.queued = a.queued \cup a.grants[w.node]
          /\ b.grants = [a.grants EXCEPT ![w.node] = {}]
      BY DEF RequeueNode
    <3>3. \A n \in Nodes : b.grants[n] = {}
      BY <1>2, <3>1, <3>2
    <3> QED
      BY <1>1, <1>4, <2>2, <3>1, <3>2, <3>3 DEF Held
  <2> HIDE DEF b
  <2>3. IsTerminal(a) => IsTerminal(b)
    BY <2>1, <2>2, TerminalIs
  <2> QED
    BY <1>4, <2>1, <2>3 DEF b
<1>5. CASE w.op = "complete"
  <2> DEFINE b == Complete(a, w.node, w.result)
  <2>1. b \in ArrayState /\ ValidSnapshot(b)
    BY <1>1, <1>5, CompleteKeeps
  <2>2. ASSUME a.queued = {} /\ Held(a) = {}
        PROVE  b = a
    <3>1. a.grants[w.node] = {}
      BY <1>1, <1>5, <2>2 DEF Held
    <3> QED
      BY <3>1 DEF Complete, MayComplete
  <2>3. AppliedTo(a, w) = b
    BY <1>5 DEF AppliedTo
  <2> HIDE DEF b
  <2> QED
    BY <1>5, <2>1, <2>2, <2>3, TerminalIs
<1>6. CASE w.op = "grant"
  <2> DEFINE b == Grant(a, w.node, w.chunks)
  <2>1. b \in ArrayState /\ ValidSnapshot(b)
    BY <1>1, <1>6, GrantKeeps
  <2>2. ASSUME a.queued = {} /\ Held(a) = {}
        PROVE  b.queued = {} /\ Held(b) = {}
    <3>1. CASE b = a
      BY <2>2, <3>1
    <3>2. CASE b # a
      <4>1. /\ w.chunks \subseteq a.queued /\ b.queued = a.queued \ w.chunks
            /\ b.grants = [a.grants EXCEPT ![w.node] = a.grants[w.node] \cup w.chunks]
        BY <3>2 DEF Grant
      <4>2. \A n \in Nodes : a.grants[n] = {}
        BY <1>2, <2>2 DEF Held
      <4>3. \A n \in Nodes : b.grants[n] = {}
        BY <1>1, <1>2, <1>6, <2>2, <4>1, <4>2
      <4> QED
        BY <2>2, <4>1, <4>3 DEF Held
    <3> QED
      BY <3>1, <3>2
  <2>3. AppliedTo(a, w) = b
    BY <1>6 DEF AppliedTo
  <2> HIDE DEF b
  <2> QED
    BY <1>6, <2>1, <2>2, <2>3, TerminalIs
<1>7. CASE w.op = "stop"
  <2> DEFINE b == Stop(a, w.reason)
  <2>1. b \in ArrayState /\ ValidSnapshot(b)
    BY <1>1, <1>7, StopKeeps
  <2>2. ASSUME a.queued = {} /\ Held(a) = {}
        PROVE  b.queued = {} /\ Held(b) = {}
    <3>1. b = a \/ (b.queued = {} /\ b.grants = a.grants)
      BY DEF Stop
    <3> QED
      BY <2>2, <3>1 DEF Held
  <2>3. AppliedTo(a, w) = b
    BY <1>7 DEF AppliedTo
  <2> HIDE DEF b
  <2> QED
    BY <1>7, <2>1, <2>2, <2>3, TerminalIs
<1>8. /\ w.op = "unknown" => AppliedTo(a, w) = a
      /\ w.op \in {"requeue", "replay"} =>
            AppliedTo(a, w) = a \/ AppliedTo(a, w) = RequeueNode(a, w.node)
  BY DEF AppliedTo
<1> QED
  BY <1>1, <1>3, <1>4, <1>5, <1>6, <1>7, <1>8

(* A step that leaves the nodes, the calls and the requests alone.          *)
LEMMA QuietStep ==
    ASSUME Inv, LeaderInv', UNCHANGED <<disk, run, jobs, sync, acted, calls, late>>
    PROVE  Inv'
BY NodeFrame DEF Inv

(* One write of a committed entry is applied.                               *)
LEMMA ApplyWriteKeeps ==
    ASSUME Inv, ApplyWrite
    PROVE  Inv'
<1> DEFINE w == Head(applying)
           a == AppliedTo(array, w)
<1>1. /\ applying # <<>> /\ applying' = Tail(applying) /\ array' = a
      /\ outcome' = IF w.op # "unknown" /\ outcome = "none" /\ IsTerminal(a)
                    THEN Status(a) ELSE outcome
      /\ unknown' = IF w.op = "unknown"
                    THEN unknown \cup {n \in {w.node} : a.grants[n] # {}}
                    ELSE {n \in unknown : a.grants[n] # {}}
  BY Zenon DEF ApplyWrite
<1>2. /\ kept' = kept /\ index' = index /\ epoch' = epoch /\ term' = term /\ log' = log
      /\ calls' = calls /\ late' = late /\ up' = up /\ disk' = disk /\ run' = run
      /\ jobs' = jobs /\ sync' = sync /\ acted' = acted /\ setting' = setting
  BY DEF ApplyWrite, leader, nodes, history
<1>3. LeaderInv
  BY DEF Inv
<1>4. w \in Write /\ Tail(applying) \in Seq(Write)
  BY <1>1, <1>3, HeadTailProperties DEF LeaderInv
<1>5. /\ a \in ArrayState /\ ValidSnapshot(a) /\ (IsTerminal(array) => IsTerminal(a))
      /\ w.op = "unknown" => a = array
  BY <1>3, <1>4, AppliedKeeps DEF LeaderInv
<1>6. w.op # "stop" => w.node \in Nodes
  BY <1>4, WriteFields
<1> HIDE DEF w, a
<1>7. unknown' \subseteq Nodes
  BY <1>1, <1>3, <1>6 DEF LeaderInv
<1>8. outcome' # "none" <=> IsTerminal(a)
  <2>1. outcome # "none" <=> IsTerminal(array)
    BY <1>3 DEF LeaderInv
  <2>2. Status(a) # "none"
    BY <1>5, TerminalIs
  <2> QED
    BY <1>1, <1>5, <2>1, <2>2
<1>9. LeaderInv'
  <2>1. Domains'
    BY <1>2, <1>3 DEF LeaderInv, Domains
  <2>2. IsTerminal(array)' <=> IsTerminal(a)
    BY <1>1 DEF IsTerminal, Status, Held
  <2>3. ValidSnapshot(array)' <=> ValidSnapshot(a)
    BY <1>1 DEF ValidSnapshot, Partitioned, Held, AttemptsAreOpen, AcceptedAreDone,
         CountersAgree, TasksIn, StoppedIsDrained
  <2> QED
    BY <1>1, <1>2, <1>3, <1>4, <1>5, <1>7, <1>8, <2>1, <2>2, <2>3 DEF LeaderInv
<1> QED
  BY <1>2, <1>9, QuietStep

(* A log entry.                                                             *)
LogEntry == [term: Nat, writes: Seq(Write)]

(* What the leader does when it leaves the array itself alone.              *)
ArrayFrame ==
    /\ array' = array /\ unknown' = unknown /\ outcome' = outcome
    /\ up' = up /\ setting' = setting

(* The rest of the leader's invariant is what its own variables hold.       *)
LEMMA LeaderFrame ==
    ASSUME LeaderInv, ArrayFrame, kept' \in BOOLEAN,
           index' \in Nat, term' \in Nat, epoch' \in Nat,
           applying' \in Seq(Write), log' \in Seq(LogEntry), Domains'
    PROVE  LeaderInv'
<1>1. (outcome' # "none") <=> IsTerminal(array)'
  BY DEF LeaderInv, ArrayFrame, IsTerminal, Status, Held
<1>2. array' \in ArrayState /\ ValidSnapshot(array)'
  BY DEF LeaderInv, ArrayFrame, ValidSnapshot, Partitioned, Held, AttemptsAreOpen,
     AcceptedAreDone, CountersAgree, TasksIn, StoppedIsDrained
<1>3. unknown' \subseteq Nodes /\ up' \subseteq Nodes
  BY DEF LeaderInv, ArrayFrame
<1> QED
  BY <1>1, <1>2, <1>3 DEF LeaderInv, LogEntry

(* What the leader's invariant says of its own variables.                   *)
LEMMA LeaderTypes ==
    ASSUME Inv
    PROVE  /\ LeaderInv /\ Domains
           /\ kept \in BOOLEAN /\ index \in Nat /\ term \in Nat /\ epoch \in Nat
           /\ applying \in Seq(Write) /\ log \in Seq(LogEntry)
           /\ array \in ArrayState
BY DEF Inv, LeaderInv, LogEntry

(* An entry is committed.                                                   *)
LEMMA CommitKeeps ==
    ASSUME Inv, Commit
    PROVE  Inv'
<1>1. /\ log # <<>> /\ applying' = Head(log).writes /\ log' = Tail(log)
      /\ index' = index + 1
      /\ kept' = kept /\ epoch' = epoch /\ term' = term /\ ArrayFrame
      /\ calls' = calls /\ late' = late /\ disk' = disk /\ run' = run
      /\ jobs' = jobs /\ sync' = sync /\ acted' = acted
  BY DEF Commit, nodes, history, ArrayFrame
<1>2. Head(log) \in LogEntry /\ Tail(log) \in Seq(LogEntry)
  BY <1>1, LeaderTypes, HeadTailProperties
<1>3. Head(log).writes \in Seq(Write)
  BY <1>2 DEF LogEntry
<1>4. Domains'
  BY <1>1, LeaderTypes DEF Domains, ArrayFrame
<1>5. LeaderInv'
  BY <1>1, <1>2, <1>3, <1>4, LeaderTypes, LeaderFrame
<1> QED
  BY <1>1, <1>5, QuietStep

(* A proposal appends an entry of the leader's term.                        *)
LEMMA Proposes ==
    ASSUME log \in Seq(LogEntry), term \in Nat, NEW ws \in Seq(Write), Propose(ws)
    PROVE  log' \in Seq(LogEntry)
<1> DEFINE e == [term |-> term, writes |-> ws]
<1>1. e \in LogEntry
  BY DEF LogEntry
<1>2. log' = Append(log, e)
  BY DEF Propose
<1> HIDE DEF e
<1> QED
  BY <1>1, <1>2, AppendProperties

(* A single write.                                                          *)
LEMMA OneWrite ==
    ASSUME NEW w \in Write
    PROVE  <<w>> \in Seq(Write)
OBVIOUS

(* The chunks a node holds are attempts by chunk.                           *)
LEMMA HeldShape ==
    ASSUME NEW a \in ArrayState, NEW n
    PROVE  HeldBy(a, n) \in Attempts
BY DEF HeldBy, ArrayState, Attempts

(* A leader that only proposes.                                             *)
LEMMA ProposalKeeps ==
    ASSUME Inv, NEW ws \in Seq(Write), Propose(ws),
           UNCHANGED <<replicated, term, calls, late, nodes, acted, setting>>
    PROVE  Inv'
<1>1. /\ kept' = kept /\ index' = index /\ epoch' = epoch /\ term' = term /\ ArrayFrame
      /\ applying' = applying
      /\ calls' = calls /\ late' = late /\ disk' = disk /\ run' = run
      /\ jobs' = jobs /\ sync' = sync /\ acted' = acted
  BY DEF replicated, nodes, ArrayFrame
<1>2. log' \in Seq(LogEntry)
  BY LeaderTypes, Proposes
<1>3. Domains'
  BY <1>1, LeaderTypes DEF Domains, ArrayFrame
<1>4. LeaderInv'
  BY <1>1, <1>2, <1>3, LeaderTypes, LeaderFrame
<1> QED
  BY <1>1, <1>4, QuietStep

(* A cancel request and an acknowledged replay are proposals.               *)
LEMMA RequestsKeep ==
    ASSUME Inv, Cancel \/ \E n \in setting.members : AcknowledgeReplay(n)
    PROVE  Inv'
<1>1. CASE Cancel
  <2> DEFINE w == Stops("cancelled")
  <2>1. w \in Write
    BY DEF Stops, Write, StopReasons
  <2>2. Propose(<<w>>) /\ UNCHANGED <<replicated, term, calls, late, nodes, acted, setting>>
    BY <1>1 DEF Cancel
  <2> HIDE DEF w
  <2> QED
    BY <2>1, <2>2, OneWrite, ProposalKeeps
<1>2. ASSUME NEW n \in setting.members, AcknowledgeReplay(n)
      PROVE  Inv'
  <2> DEFINE held == HeldBy(array, n)
             w == Replays(n, held)
  <2>1. held \in Attempts /\ n \in Nodes
    BY LeaderTypes, HeldShape DEF Domains
  <2>2. w \in Write
    <3> HIDE DEF held
    <3> QED
      BY <2>1 DEF Replays, Write
  <2>3. Propose(<<w>>) /\ UNCHANGED <<replicated, term, calls, late, nodes, acted, setting>>
    BY <1>2 DEF AcknowledgeReplay, history
  <2> HIDE DEF w
  <2> QED
    BY <2>2, <2>3, OneWrite, ProposalKeeps
<1> QED
  BY <1>1, <1>2

(* A finished run is forgotten.                                             *)
LEMMA PruneKeeps ==
    ASSUME Inv, Prune
    PROVE  Inv'
<1>1. /\ kept' = FALSE /\ index' = index + 1 /\ epoch' = epoch /\ term' = term /\ ArrayFrame
      /\ applying' = applying /\ log' = log
      /\ calls' = calls /\ late' = late /\ disk' = disk /\ run' = run
      /\ jobs' = jobs /\ sync' = sync /\ acted' = acted
  BY DEF Prune, leader, nodes, history, ArrayFrame
<1>2. Domains'
  BY <1>1, LeaderTypes DEF Domains, ArrayFrame
<1>3. kept' \in BOOLEAN /\ index' \in Nat
  <2>1. kept' \in BOOLEAN
    BY <1>1, Zenon
  <2>2. index' \in Nat
    BY <1>1, LeaderTypes
  <2> QED
    BY <2>1, <2>2
<1>4. LeaderInv'
  BY <1>1, <1>2, <1>3, LeaderTypes, LeaderFrame
<1> QED
  BY <1>1, <1>4, QuietStep

(* What the leader sends is a request.                                      *)
LEMMA RequestShape ==
    ASSUME Inv, NEW n
    PROVE  RequestFor(n) \in Request
<1> DEFINE v == [epoch |-> epoch, term |-> term, index |-> index]
           listed == kept /\ ~IsTerminal(array)
           stopping == array.stopped # "no"
           held == HeldBy(array, n)
<1>1. v \in Version
  BY LeaderTypes DEF Version
<1>2. kept \in BOOLEAN /\ listed \in BOOLEAN /\ stopping \in BOOLEAN
  BY LeaderTypes
<1>3. held \in [Chunks -> Nat]
  BY LeaderTypes, HeldShape DEF Attempts
<1>4. RequestFor(n) = [version |-> v, known |-> kept, listed |-> listed,
                       stopping |-> stopping, held |-> held]
  BY Zenon DEF RequestFor
<1> HIDE DEF v, listed, stopping, held
<1> QED
  BY <1>1, <1>2, <1>3, <1>4 DEF Request

(* A leader that only calls, or gives up calls.                             *)
LEMMA CallingKeeps ==
    ASSUME Inv, UNCHANGED <<disk, run, jobs, acted>>, LeaderInv',
           \A n \in Nodes : /\ SameSync(sync[n], sync'[n])
                            /\ calls'[n] = NoCall \/ CallShape(calls'[n])
                            /\ late'[n] \subseteq Request
                            /\ CallerWaits(n)'
    PROVE  Inv'
<1>1. ASSUME NEW n \in Nodes
      PROVE  NodeInv(n)'
  <2>1. NodeInv(n) /\ disk'[n] = disk[n] /\ run'[n] = run[n] /\ jobs'[n] = jobs[n]
        /\ acted'[n] = acted[n]
    BY DEF Inv
  <2> QED
    BY <1>1, <2>1, LeaderTouches
<1> QED
  BY <1>1 DEF Inv

(* What the invariant says of a node's calls.                               *)
LEMMA CallTypes ==
    ASSUME Inv, NEW n \in Nodes
    PROVE  /\ calls[n] = NoCall \/ CallShape(calls[n])
           /\ late[n] \subseteq Request
           /\ SameSync(sync[n], sync[n])
           /\ CallerWaits(n)
BY DEF Inv, NodeInv, NodeShape, SameSync

(* A sync is sent.                                                          *)
LEMMA SendSyncKeeps ==
    ASSUME Inv, NEW n \in setting.members, SendSync(n)
    PROVE  Inv'
<1> DEFINE k == Call("sent", RequestFor(n), NoAnswer)
<1>1. /\ calls[n] = NoCall /\ calls' = [calls EXCEPT ![n] = k]
      /\ kept' = kept /\ index' = index /\ epoch' = epoch /\ term' = term /\ ArrayFrame
      /\ applying' = applying /\ log' = log
      /\ late' = late /\ disk' = disk /\ run' = run
      /\ jobs' = jobs /\ sync' = sync /\ acted' = acted
  BY DEF SendSync, replicated, nodes, history, ArrayFrame
<1>2. CallShape(k)
  <2>1. k.state = "sent" /\ k.request = RequestFor(n) /\ k.answer.finished = {}
    BY DEF Call, NoAnswer, Answer
  <2> HIDE DEF k
  <2> QED
    BY <2>1, RequestShape, MoreResults DEF CallShape
<1> HIDE DEF k
<1>3. /\ n \in Nodes /\ DOMAIN calls' = Nodes /\ calls'[n] = k
      /\ \A m \in Nodes \ {n} : calls'[m] = calls[m]
  BY <1>1, LeaderTypes DEF Domains
<1>4. Domains'
  BY <1>1, <1>3, LeaderTypes DEF Domains, ArrayFrame
<1>5. LeaderInv'
  BY <1>1, <1>4, LeaderTypes, LeaderFrame
<1>6. ASSUME NEW m \in Nodes
      PROVE  /\ SameSync(sync[m], sync'[m])
             /\ calls'[m] = NoCall \/ CallShape(calls'[m])
             /\ late'[m] \subseteq Request
             /\ CallerWaits(m)'
  <2>1. CASE m = n
    <3>1. calls[n].state = "none"
      BY <1>1 DEF NoCall
    <3>2. CallerWaits(n)'
      BY <1>1, <1>3, <3>1, CallTypes DEF CallerWaits
    <3> QED
      BY <1>1, <1>2, <1>3, <2>1, <3>2, CallTypes
  <2>2. CASE m # n
    BY <1>1, <1>3, <2>2, CallTypes DEF CallerWaits
  <2> QED
    BY <2>1, <2>2
<1> QED
  BY <1>1, <1>5, <1>6, CallingKeeps

(* A call fails at once: the node is down or busy.                          *)
LEMMA CallFailsKeeps ==
    ASSUME Inv, NEW n \in setting.members, CallFails(n)
    PROVE  Inv'
<1>1. /\ calls[n].state = "sent" /\ calls' = [calls EXCEPT ![n] = NoCall]
      /\ kept' = kept /\ index' = index /\ epoch' = epoch /\ term' = term /\ ArrayFrame
      /\ applying' = applying /\ log' = log
      /\ late' = late /\ disk' = disk /\ run' = run
      /\ jobs' = jobs /\ sync' = sync /\ acted' = acted
  BY DEF CallFails, replicated, nodes, history, ArrayFrame
<1>2. /\ n \in Nodes /\ DOMAIN calls' = Nodes /\ calls'[n] = NoCall
      /\ \A m \in Nodes \ {n} : calls'[m] = calls[m]
  BY <1>1, LeaderTypes DEF Domains
<1>3. Domains'
  BY <1>1, <1>2, LeaderTypes DEF Domains, ArrayFrame
<1>4. LeaderInv'
  BY <1>1, <1>3, LeaderTypes, LeaderFrame
<1>5. ASSUME NEW m \in Nodes
      PROVE  /\ SameSync(sync[m], sync'[m])
             /\ calls'[m] = NoCall \/ CallShape(calls'[m])
             /\ late'[m] \subseteq Request
             /\ CallerWaits(m)'
  <2>1. CASE m = n
    BY <1>1, <1>2, <2>1, CallTypes DEF CallerWaits
  <2>2. CASE m # n
    BY <1>1, <1>2, <2>2, CallTypes DEF CallerWaits
  <2> QED
    BY <2>1, <2>2
<1> QED
  BY <1>1, <1>4, <1>5, CallingKeeps

(* A late request is lost.                                                  *)
LEMMA LoseLateKeeps ==
    ASSUME Inv, NEW n \in setting.members, LoseLate(n)
    PROVE  Inv'
<1>1. /\ late' = [late EXCEPT ![n] = {}]
      /\ kept' = kept /\ index' = index /\ epoch' = epoch /\ term' = term /\ ArrayFrame
      /\ applying' = applying /\ log' = log
      /\ calls' = calls /\ disk' = disk /\ run' = run
      /\ jobs' = jobs /\ sync' = sync /\ acted' = acted
  BY DEF LoseLate, replicated, nodes, history, ArrayFrame
<1>2. /\ n \in Nodes /\ DOMAIN late' = Nodes /\ late'[n] = {}
      /\ \A m \in Nodes \ {n} : late'[m] = late[m]
  BY <1>1, LeaderTypes DEF Domains
<1>3. Domains'
  BY <1>1, <1>2, LeaderTypes DEF Domains, ArrayFrame
<1>4. LeaderInv'
  BY <1>1, <1>3, LeaderTypes, LeaderFrame
<1>5. ASSUME NEW m \in Nodes
      PROVE  /\ SameSync(sync[m], sync'[m])
             /\ calls'[m] = NoCall \/ CallShape(calls'[m])
             /\ late'[m] \subseteq Request
             /\ CallerWaits(m)'
  BY <1>1, <1>2, CallTypes DEF CallerWaits
<1> QED
  BY <1>1, <1>4, <1>5, CallingKeeps

(* Calls the leader gives up: a handler loses its caller, a request on the  *)
(* wire may arrive late.                                                    *)
LEMMA AbandonKeeps ==
    ASSUME Inv, NEW gone, NEW arrive, Abandon(gone, arrive)
    PROVE  /\ DOMAIN calls' = Nodes /\ DOMAIN late' = Nodes /\ DOMAIN sync' = Nodes
           /\ \A n \in Nodes : /\ SameSync(sync[n], sync'[n])
                               /\ calls'[n] = NoCall \/ CallShape(calls'[n])
                               /\ late'[n] \subseteq Request
                               /\ CallerWaits(n)'
<1>1. DOMAIN calls' = Nodes /\ DOMAIN late' = Nodes /\ DOMAIN sync' = Nodes
  BY DEF Abandon
<1>2. ASSUME NEW n \in Nodes
      PROVE  /\ SameSync(sync[n], sync'[n])
             /\ calls'[n] = NoCall \/ CallShape(calls'[n])
             /\ late'[n] \subseteq Request
             /\ CallerWaits(n)'
  <2> DEFINE t == [sync[n] EXCEPT !.live = FALSE]
  <2>1. /\ calls[n] = NoCall \/ CallShape(calls[n])
        /\ late[n] \subseteq Request
        /\ sync[n] = NoSync \/ SyncShape(sync[n])
        /\ CallerWaits(n) /\ SameSync(sync[n], sync[n])
    BY CallTypes DEF Inv, NodeInv, NodeShape
  <2>2. calls'[n] = IF n \in gone THEN NoCall ELSE calls[n]
    BY DEF Abandon
  <2>3. late'[n] = IF n \in gone \cap arrive /\ calls[n].state = "sent"
                   THEN {calls[n].request} ELSE late[n]
    BY DEF Abandon
  <2>4. sync'[n] = IF n \in gone /\ calls[n].state = "inside" THEN t ELSE sync[n]
    BY DEF Abandon
  <2>5. /\ sync[n] = NoSync => t = NoSync
        /\ sync[n] # NoSync => SameSync(sync[n], t) /\ t.live = FALSE
    <3>1. CASE sync[n] = NoSync
      BY <3>1 DEF NoSync
    <3>2. CASE sync[n] # NoSync
      <4>1. SyncShape(sync[n]) /\ t = [sync[n] EXCEPT !.live = FALSE]
        BY <2>1, <3>2
      <4>2. t.live = FALSE
        <5>1. "live" \in DOMAIN sync[n]
          BY <4>1 DEF SyncShape, StageFields, SyncFields, FenceFields, MarkerFields
        <5> QED
          BY <5>1
      <4> HIDE DEF t
      <4> QED
        BY <3>2, <4>1, <4>2, SyncLeft
    <3> QED
      BY <3>1, <3>2
  <2> HIDE DEF t
  <2>6. SameSync(sync[n], sync'[n])
    BY <2>1, <2>4, <2>5
  <2>7. late'[n] \subseteq Request
    <3>1. calls[n].state = "sent" => calls[n].request \in Request
      BY <2>1 DEF NoCall, CallShape
    <3> QED
      BY <2>1, <2>3, <3>1
  <2>8. CallerWaits(n)'
    <3> SUFFICES ASSUME sync'[n] # NoSync, sync'[n].live
                 PROVE  calls'[n].state = "inside"
      BY DEF CallerWaits
    <3>1. CASE n \in gone /\ calls[n].state = "inside"
      BY <2>4, <2>5, <3>1
    <3>2. CASE ~(n \in gone /\ calls[n].state = "inside")
      <4>1. sync'[n] = sync[n]
        BY <2>4, <3>2
      <4>2. calls[n].state = "inside"
        BY <2>1, <4>1 DEF CallerWaits
      <4> QED
        BY <2>2, <3>2, <4>2
    <3> QED
      BY <3>1, <3>2
  <2> QED
    BY <2>1, <2>2, <2>6, <2>7, <2>8
<1> QED
  BY <1>1, <1>2

(* A call times out.                                                        *)
LEMMA TimeOutKeeps ==
    ASSUME Inv, NEW n \in setting.members, TimeOut(n)
    PROVE  Inv'
<1>1. PICK arrive : Abandon({n}, arrive)
  BY DEF TimeOut
<1>2. /\ kept' = kept /\ index' = index /\ epoch' = epoch /\ term' = term /\ ArrayFrame
      /\ applying' = applying /\ log' = log
      /\ disk' = disk /\ run' = run /\ jobs' = jobs /\ acted' = acted
  BY DEF TimeOut, replicated, ArrayFrame
<1>3. /\ DOMAIN calls' = Nodes /\ DOMAIN late' = Nodes /\ DOMAIN sync' = Nodes
      /\ \A m \in Nodes : /\ SameSync(sync[m], sync'[m])
                          /\ calls'[m] = NoCall \/ CallShape(calls'[m])
                          /\ late'[m] \subseteq Request
                          /\ CallerWaits(m)'
  BY <1>1, AbandonKeeps
<1>4. Domains'
  BY <1>2, <1>3, LeaderTypes DEF Domains, ArrayFrame
<1>5. LeaderInv'
  BY <1>2, <1>4, LeaderTypes, LeaderFrame
<1> QED
  BY <1>2, <1>3, <1>5, CallingKeeps

(* An election.                                                             *)
LEMMA LeaderChangeKeeps ==
    ASSUME Inv, LeaderChange
    PROVE  Inv'
<1>1. PICK arrive : Abandon(setting.members, arrive)
  BY DEF LeaderChange
<1>2. /\ kept' = kept /\ index' = index /\ epoch' = epoch /\ term' = term + 1 /\ ArrayFrame
      /\ applying' = applying
      /\ disk' = disk /\ run' = run /\ jobs' = jobs /\ acted' = acted
  BY DEF LeaderChange, replicated, history, ArrayFrame
<1>3. PICK k \in 0 .. Len(log) : log' = SubSeq(log, 1, k)
  BY DEF LeaderChange
<1>4. log' \in Seq(LogEntry)
  <2>1. log \in Seq(LogEntry)
    BY LeaderTypes
  <2>2. \A i \in 1 .. k : log[i] \in LogEntry
    BY <1>3, <2>1, ElementOfSeq
  <2> QED
    BY <1>3, <2>2, SubSeqProperties
<1>5. /\ DOMAIN calls' = Nodes /\ DOMAIN late' = Nodes /\ DOMAIN sync' = Nodes
      /\ \A m \in Nodes : /\ SameSync(sync[m], sync'[m])
                          /\ calls'[m] = NoCall \/ CallShape(calls'[m])
                          /\ late'[m] \subseteq Request
                          /\ CallerWaits(m)'
  BY <1>1, AbandonKeeps
<1>6. Domains'
  BY <1>2, <1>5, LeaderTypes DEF Domains, ArrayFrame
<1>7. term' \in Nat
  BY <1>2, LeaderTypes
<1>8. LeaderInv'
  BY <1>2, <1>4, <1>6, <1>7, LeaderTypes, LeaderFrame
<1> QED
  BY <1>2, <1>5, <1>8, CallingKeeps

(* A forced recovery.                                                       *)
LEMMA RecoverKeeps ==
    ASSUME Inv, Recover
    PROVE  Inv'
<1>1. PICK arrive : Abandon(setting.members, arrive)
  BY DEF Recover
<1>2. /\ array' = NewArray /\ unknown' = {} /\ outcome' = "none" /\ kept' = TRUE
      /\ index' = 0 /\ epoch' = epoch + 1 /\ term' = 1 /\ log' = <<>>
      /\ applying' = applying /\ up' = up /\ setting' = setting
      /\ disk' = disk /\ run' = run /\ jobs' = jobs /\ acted' = acted
  BY DEF Recover
<1>3. /\ DOMAIN calls' = Nodes /\ DOMAIN late' = Nodes /\ DOMAIN sync' = Nodes
      /\ \A m \in Nodes : /\ SameSync(sync[m], sync'[m])
                          /\ calls'[m] = NoCall \/ CallShape(calls'[m])
                          /\ late'[m] \subseteq Request
                          /\ CallerWaits(m)'
  BY <1>1, AbandonKeeps
<1>4. Domains'
  BY <1>2, <1>3, LeaderTypes DEF Domains
<1>5. NewArray \in ArrayState /\ ValidSnapshot(NewArray) /\ ~IsTerminal(NewArray)
  <2>1. NewArray \in ArrayState /\ ValidSnapshot(NewArray)
    BY NewArrayValid
  <2>2. NewArray.queued # {}
    BY LastChunkFacts DEF NewArray
  <2> QED
    BY <2>1, <2>2, TerminalIs
<1>6. array' \in ArrayState /\ ValidSnapshot(array)' /\ ~IsTerminal(array)'
  <2> DEFINE a == NewArray
  <2>1. array' = a
    BY <1>2
  <2>2. a \in ArrayState /\ ValidSnapshot(a) /\ ~IsTerminal(a)
    BY <1>5
  <2> HIDE DEF a
  <2>3. IsTerminal(array)' <=> IsTerminal(a)
    BY <2>1 DEF IsTerminal, Status, Held
  <2>4. ValidSnapshot(array)' <=> ValidSnapshot(a)
    BY <2>1 DEF ValidSnapshot, Partitioned, Held, AttemptsAreOpen, AcceptedAreDone,
         CountersAgree, TasksIn, StoppedIsDrained
  <2> QED
    BY <2>1, <2>2, <2>3, <2>4
<1>7. /\ kept' \in BOOLEAN /\ index' \in Nat /\ term' \in Nat /\ epoch' \in Nat
      /\ unknown' \subseteq Nodes /\ up' \subseteq Nodes
  BY <1>2, LeaderTypes DEF LeaderInv
<1>8. /\ applying' \in Seq(Write)
      /\ log' \in Seq([term: Nat, writes: Seq(Write)])
  BY <1>2, LeaderTypes
<1>9. LeaderInv'
  BY <1>2, <1>4, <1>6, <1>7, <1>8 DEF LeaderInv
<1> QED
  BY <1>2, <1>3, <1>9, CallingKeeps

(* A finite set in some order is a sequence of its elements.                *)
LEMMA SomeOrder ==
    ASSUME NEW S, IsFiniteSet(S), NEW T, S \subseteq T
    PROVE  SetToSeq(S) \in Seq(T)
<1> DEFINE k == Cardinality(S)
<1>1. k \in Nat /\ ExistsBijection(1 .. k, S)
  BY FS_CardinalityType
<1>2. PICK f : f \in Bijection(1 .. k, S)
  BY <1>1 DEF ExistsBijection
<1>3. f \in [1 .. k -> S] /\ IsInjective(f)
  BY <1>2 DEF Bijection, Injection
<1>4. SetToSeq(S) \in [1 .. k -> S]
  BY <1>3, Zenon DEF SetToSeq
<1> HIDE DEF k
<1>5. SetToSeq(S) \in [1 .. k -> T]
  BY <1>4
<1> QED
  BY <1>1, <1>5

(* The members the leader knows, and any nodes, are finitely many.          *)
LEMMA FewNodes ==
    ASSUME NEW S, S \subseteq Nodes
    PROVE  IsFiniteSet(S)
BY ArrayAssumption, FS_Subset

(* The writes for lost holders.                                             *)
LEMMA LostShape ==
    ASSUME NEW lost, lost \subseteq Nodes
    PROVE  LostWrites(lost) \in Seq(Write)
<1>1. ASSUME NEW S, S \subseteq Nodes
      PROVE  /\ SetToSeq({Requeues(n) : n \in S}) \in Seq(Write)
             /\ SetToSeq({Unknowns(n) : n \in S}) \in Seq(Write)
  <2> DEFINE A == {Requeues(n) : n \in S}
             B == {Unknowns(n) : n \in S}
             f == [n \in S |-> Requeues(n)]
             g == [n \in S |-> Unknowns(n)]
  <2>1. IsFiniteSet(S)
    BY <1>1, FewNodes
  <2>2. A \subseteq Write /\ B \subseteq Write
    BY <1>1 DEF Requeues, Unknowns, Write
  <2>3. f \in Surjection(S, A) /\ g \in Surjection(S, B)
    <3>1. f \in [S -> A] /\ g \in [S -> B]
      OBVIOUS
    <3>2. (\A a \in A : \E n \in S : f[n] = a) /\ (\A b \in B : \E n \in S : g[n] = b)
      OBVIOUS
    <3> HIDE DEF f, g, A, B
    <3> QED
      BY <3>1, <3>2 DEF Surjection
  <2> HIDE DEF A, B, f, g
  <2>4. IsFiniteSet(A) /\ IsFiniteSet(B)
    BY <2>1, <2>3, FS_Surjection
  <2>5. SetToSeq(A) \in Seq(Write) /\ SetToSeq(B) \in Seq(Write)
    BY <2>2, <2>4, SomeOrder
  <2> QED
    BY <2>5 DEF A, B
<1>2. lost \ unknown \subseteq Nodes
  OBVIOUS
<1> QED
  BY <1>1, <1>2 DEF LostWrites

(* The results worth proposing are finitely many, each of a node.           *)
LEMMA ReportsShape ==
    ASSUME Inv, NEW heard, heard \subseteq {n \in Nodes : calls[n].state = "answered"}
    PROVE  IsFiniteSet(Reports(heard)) /\ Reports(heard) \subseteq Nodes \X ChunkResult
<1> DEFINE F(n) == {n} \X calls[n].answer.finished
           S == {F(n) : n \in heard}
           f == [n \in heard |-> F(n)]
<1>1. ASSUME NEW n \in heard
      PROVE  Results(calls[n].answer.finished) /\ n \in Nodes
  <2>1. calls[n].state = "answered" /\ n \in Nodes
    OBVIOUS
  <2>2. calls[n] = NoCall \/ CallShape(calls[n])
    BY <2>1, CallTypes
  <2> QED
    BY <2>1, <2>2 DEF NoCall, CallShape
<1>2. IsFiniteSet(heard)
  BY FewNodes
<1>3. IsFiniteSet(S)
  <2>1. f \in [heard -> S] /\ \A a \in S : \E n \in heard : f[n] = a
    OBVIOUS
  <2> HIDE DEF f, S
  <2>2. f \in Surjection(heard, S)
    BY <2>1 DEF Surjection
  <2> QED
    BY <1>2, <2>2, FS_Surjection
<1>4. \A T \in S : IsFiniteSet(T) /\ T \subseteq Nodes \X ChunkResult
  <2>1. ASSUME NEW n \in heard
        PROVE  IsFiniteSet(F(n)) /\ F(n) \subseteq Nodes \X ChunkResult
    <3>1. /\ calls[n].answer.finished \subseteq ChunkResult
          /\ IsFiniteSet(calls[n].answer.finished) /\ n \in Nodes
      BY <1>1 DEF Results
    <3>2. IsFiniteSet({n})
      BY FS_Singleton
    <3>3. IsFiniteSet(F(n))
      BY <3>1, <3>2, FS_Product
    <3> QED
      BY <3>1, <3>3
  <2> HIDE DEF F
  <2> QED
    BY <2>1
<1>5. Reports(heard) \subseteq UNION S
  BY DEF Reports
<1> HIDE DEF S
<1>6. IsFiniteSet(UNION S)
  BY <1>3, <1>4, FS_UNION
<1> QED
  BY <1>4, <1>5, <1>6, FS_Subset

(* What a tick proposes is a sequence of writes.                            *)
LEMMA TickShape ==
    ASSUME NEW lost, lost \subseteq Nodes,
           NEW reports, IsFiniteSet(reports), reports \subseteq Nodes \X ChunkResult,
           NEW takers, takers \subseteq Nodes, NEW g \in [takers -> SUBSET Chunks]
    PROVE  TickWrites(lost, reports, g) \in Seq(Write)
<1> DEFINE A == {Completes(p[1], p[2]) : p \in reports}
           f == [p \in reports |-> Completes(p[1], p[2])]
           S == {m \in DOMAIN g : g[m] # {}}
           B == {GrantsTo(n, g[n]) : n \in S}
           h == [n \in S |-> GrantsTo(n, g[n])]
<1>1. A \subseteq Write
  <2>1. ASSUME NEW p \in reports
        PROVE  Completes(p[1], p[2]) \in Write
    <3>1. p[1] \in Nodes /\ p[2] \in ChunkResult
      OBVIOUS
    <3> QED
      BY <3>1 DEF Completes, Write
  <2> QED
    BY <2>1
<1>2. S \subseteq Nodes /\ IsFiniteSet(S)
  BY FewNodes
<1>3. B \subseteq Write
  <2>1. ASSUME NEW n \in S
        PROVE  GrantsTo(n, g[n]) \in Write
    BY DEF GrantsTo, Write
  <2> QED
    BY <2>1
<1>4. IsFiniteSet(A)
  <2>1. f \in [reports -> A] /\ \A a \in A : \E p \in reports : f[p] = a
    OBVIOUS
  <2> HIDE DEF f, A
  <2>2. f \in Surjection(reports, A)
    BY <2>1 DEF Surjection
  <2> QED
    BY <2>2, FS_Surjection
<1>5. IsFiniteSet(B)
  <2>1. h \in [S -> B] /\ \A b \in B : \E n \in S : h[n] = b
    OBVIOUS
  <2> HIDE DEF h, B, S
  <2>2. h \in Surjection(S, B)
    BY <2>1 DEF Surjection
  <2> QED
    BY <1>2, <2>2, FS_Surjection
<1>6. TickWrites(lost, reports, g) = LostWrites(lost) \o SetToSeq(A) \o SetToSeq(B)
  BY Zenon DEF TickWrites
<1> HIDE DEF A, B
<1>7. LostWrites(lost) \in Seq(Write) /\ SetToSeq(A) \in Seq(Write) /\ SetToSeq(B) \in Seq(Write)
  BY <1>1, <1>3, <1>4, <1>5, LostShape, SomeOrder
<1>8. LostWrites(lost) \o SetToSeq(A) \in Seq(Write)
  BY <1>7, ConcatProperties
<1> QED
  BY <1>6, <1>7, <1>8, ConcatProperties

(* A tick of the leader's loop.                                             *)
LEMMA TickKeeps ==
    ASSUME Inv, NEW silent \in SUBSET setting.members, NEW failing, Tick(silent, failing)
    PROVE  Inv'
<1> DEFINE heard == {n \in Nodes : calls[n].state = "answered"}
           reports == Reports(heard)
           lost == silent \cup RefusingHolders(heard)
           takers == {n \in heard : calls[n].answer.kind = "progress"}
<1>1. /\ kept' = kept /\ index' = index /\ epoch' = epoch /\ term' = term /\ ArrayFrame
      /\ applying' = applying /\ late' = late
      /\ disk' = disk /\ run' = run /\ jobs' = jobs /\ sync' = sync /\ acted' = acted
  BY DEF Tick, replicated, nodes, ArrayFrame
<1>2. calls' = [n \in Nodes |-> IF n \in heard THEN NoCall ELSE calls[n]]
  BY Zenon DEF Tick
<1>3. \/ log' = log
      \/ Propose(<<Stops("unrunnable")>>)
      \/ \E g, queue : /\ g \in [takers -> SUBSET queue] /\ queue \in {{}, array.queued}
                       /\ Propose(TickWrites(lost, reports, g))
  <2> DEFINE taken(n) == {p[2].chunk : p \in {q \in reports : q[1] = n}}
             queue == IF array.stopped # "no" \/ StopsFor(reports) THEN {} ELSE array.queued
             held == [n \in Nodes |-> array.grants[n] \ taken(n)]
  <2>1. \/ log' = log
        \/ Propose(<<Stops("unrunnable")>>)
        \/ \E g \in GrantPlans(queue, held, takers) :
              IF TickWrites(lost, reports, g) = <<>> THEN UNCHANGED log
              ELSE Propose(TickWrites(lost, reports, g))
    BY Zenon DEF Tick
  <2>2. queue \in {{}, array.queued}
    OBVIOUS
  <2> HIDE DEF queue, held, reports, lost, takers
  <2>3. ASSUME NEW g \in GrantPlans(queue, held, takers)
        PROVE  g \in [takers -> SUBSET queue]
    BY <2>3 DEF GrantPlans
  <2> QED
    BY <2>1, <2>2, <2>3
<1>4. IsFiniteSet(reports) /\ reports \subseteq Nodes \X ChunkResult
  BY ReportsShape
<1>5. lost \subseteq Nodes /\ takers \subseteq Nodes
  BY LeaderTypes DEF Domains, RefusingHolders
<1> HIDE DEF reports, lost, takers
<1>6. log' \in Seq(LogEntry)
  <2>1. CASE log' = log
    BY <2>1, LeaderTypes
  <2>2. CASE Propose(<<Stops("unrunnable")>>)
    <3> DEFINE w == Stops("unrunnable")
    <3>1. w \in Write /\ Propose(<<w>>)
      BY <2>2 DEF Stops, Write, StopReasons
    <3> HIDE DEF w
    <3> QED
      BY <3>1, OneWrite, LeaderTypes, Proposes
  <2>3. CASE \E g, queue : /\ g \in [takers -> SUBSET queue] /\ queue \in {{}, array.queued}
                           /\ Propose(TickWrites(lost, reports, g))
    <3>1. PICK g, queue : /\ g \in [takers -> SUBSET queue] /\ queue \in {{}, array.queued}
                          /\ Propose(TickWrites(lost, reports, g))
      BY <2>3
    <3>2. queue \subseteq Chunks
      BY <3>1, LeaderTypes DEF ArrayState
    <3>3. g \in [takers -> SUBSET Chunks]
      BY <3>1, <3>2
    <3>4. TickWrites(lost, reports, g) \in Seq(Write)
      BY <1>4, <1>5, <3>3, TickShape
    <3> QED
      BY <3>1, <3>4, LeaderTypes, Proposes
  <2> QED
    BY <1>3, <2>1, <2>2, <2>3
<1>7. DOMAIN calls' = Nodes
  BY <1>2
<1>8. Domains'
  BY <1>1, <1>7, LeaderTypes DEF Domains, ArrayFrame
<1>9. LeaderInv'
  BY <1>1, <1>6, <1>8, LeaderTypes, LeaderFrame
<1>10. ASSUME NEW m \in Nodes
       PROVE  /\ SameSync(sync[m], sync'[m])
              /\ calls'[m] = NoCall \/ CallShape(calls'[m])
              /\ late'[m] \subseteq Request
              /\ CallerWaits(m)'
  <2>1. CASE calls[m].state = "answered"
    <3>1. calls'[m] = NoCall
      BY <1>2, <2>1
    <3> QED
      BY <1>1, <2>1, <3>1, CallTypes DEF CallerWaits
  <2>2. CASE calls[m].state # "answered"
    <3>1. calls'[m] = calls[m]
      BY <1>2, <2>2
    <3> QED
      BY <1>1, <3>1, CallTypes DEF CallerWaits
  <2> QED
    BY <2>1, <2>2
<1> QED
  BY <1>1, <1>9, <1>10, CallingKeeps
-----------------------------------------------------------------------------

(* The whole system.                                                        *)

(* What a node's step leaves alone in the store and at the leader.          *)
StoreFrame ==
    /\ array' = array /\ unknown' = unknown /\ outcome' = outcome /\ kept' = kept
    /\ index' = index /\ epoch' = epoch /\ applying' = applying
    /\ term' = term /\ log' = log

(* A step of one node keeps the invariant of the system.                    *)
LEMMA NodeStep ==
    ASSUME Inv, NEW n \in Nodes, NodeKept(n), StoreFrame, up' \subseteq Nodes
    PROVE  Inv'
<1>1. ASSUME NEW m \in Nodes
      PROVE  NodeInv(m)'
  <2>1. CASE m = n
    BY <2>1 DEF NodeKept
  <2>2. CASE m # n
    <3>1. /\ NodeInv(m) /\ disk'[m] = disk[m] /\ run'[m] = run[m] /\ jobs'[m] = jobs[m]
          /\ sync'[m] = sync[m] /\ acted'[m] = acted[m]
          /\ calls'[m] = calls[m] /\ late'[m] = late[m]
      BY <2>2 DEF Inv, NodeKept, Others
    <3> QED
      BY <3>1, NodeFrame
  <2> QED
    BY <2>1, <2>2
<1>2. LeaderInv'
  <2>1. LeaderInv /\ Domains'
    BY DEF Inv, NodeKept
  <2>2. (outcome' # "none") <=> IsTerminal(array)'
    BY <2>1 DEF LeaderInv, StoreFrame, IsTerminal, Status, Held
  <2>3. array' \in ArrayState /\ ValidSnapshot(array)'
    BY <2>1 DEF LeaderInv, StoreFrame, ValidSnapshot, Partitioned, Held, AttemptsAreOpen,
       AcceptedAreDone, CountersAgree, TasksIn, StoppedIsDrained
  <2>4. kept' \in BOOLEAN /\ unknown' \subseteq Nodes
    BY <2>1 DEF LeaderInv, StoreFrame
  <2>5. /\ index' \in Nat /\ term' \in Nat /\ epoch' \in Nat
        /\ applying' \in Seq(Write) /\ log' \in Seq([term: Nat, writes: Seq(Write)])
    BY <2>1 DEF LeaderInv, StoreFrame
  <2> QED
    BY <2>1, <2>2, <2>3, <2>4, <2>5 DEF LeaderInv
<1> QED
  BY <1>1, <1>2 DEF Inv

(* The steps of a sync keep the invariant of the system.                    *)
LEMMA SyncStepsKeep ==
    ASSUME Inv, NEW n \in setting.members,
           \/ Receive(n) \/ ReceiveLate(n) \/ ControlChecked(n) \/ CleanupDone(n)
           \/ RunOpened(n) \/ FenceWritten(n) \/ MarkerClaimed(n)
           \/ DiskError(n) \/ DropSync(n) \/ OrphanEnds(n)
    PROVE  Inv'
<1>1. Domains /\ n \in Nodes /\ NodeInv(n) /\ up \subseteq Nodes
  BY LeaderTypes DEF Inv, Domains, LeaderInv
<1>2. StoreFrame /\ up' = up
  <2>1. CASE Receive(n) \/ ReceiveLate(n)
    BY <2>1 DEF Receive, ReceiveLate, Begin, replicated, StoreFrame
  <2>2. CASE ControlChecked(n) \/ CleanupDone(n)
    BY <2>2 DEF ControlChecked, CleanupDone, Rest, replicated, StoreFrame
  <2>3. CASE RunOpened(n) \/ FenceWritten(n)
    BY <2>3 DEF RunOpened, FenceWritten, Rest, replicated, StoreFrame
  <2>4. CASE MarkerClaimed(n) \/ DiskError(n)
    BY <2>4 DEF MarkerClaimed, DiskError, Rest, replicated, StoreFrame
  <2>5. CASE DropSync(n) \/ OrphanEnds(n)
    BY <2>5 DEF DropSync, OrphanEnds, leader, replicated, StoreFrame
  <2> QED
    BY <2>1, <2>2, <2>3, <2>4, <2>5
<1>3. NodeKept(n)
  BY <1>1, ReceiveKeeps, ReceiveLateKeeps, ControlCheckedKeeps, CleanupDoneKeeps,
     RunOpenedKeeps, FenceWrittenKeeps, MarkerClaimedKeeps, DiskErrorKeeps, DropSyncKeeps,
     OrphanEndsKeeps
<1> QED
  BY <1>1, <1>2, <1>3, NodeStep

(* So do the steps of its jobs.                                             *)
LEMMA JobStepsKeep ==
    ASSUME Inv, NEW n \in setting.members, NEW j \in jobs[n], NEW t, NEW o,
           \/ LaunchTask(n, j, t) \/ EndTask(n, j, t, o) \/ LoseTask(n, j, t)
           \/ AppendFails(n, j, t) \/ FinishChunk(n, j)
    PROVE  Inv'
<1>1. Domains /\ n \in Nodes /\ NodeInv(n) /\ up \subseteq Nodes
  BY LeaderTypes DEF Inv, Domains, LeaderInv
<1>2. StoreFrame /\ up' = up
  <2>1. CASE LaunchTask(n, j, t) \/ EndTask(n, j, t, o)
    BY <2>1 DEF LaunchTask, EndTask, leader, replicated, StoreFrame
  <2>2. CASE LoseTask(n, j, t) \/ AppendFails(n, j, t)
    BY <2>2 DEF LoseTask, AppendFails, leader, replicated, StoreFrame
  <2>3. CASE FinishChunk(n, j)
    BY <2>3 DEF FinishChunk, leader, replicated, StoreFrame
  <2> QED
    BY <2>1, <2>2, <2>3
<1>3. NodeKept(n)
  BY <1>1, LaunchTaskKeeps, EndTaskKeeps, LoseTaskKeeps, AppendFailsKeeps, FinishChunkKeeps
<1> QED
  BY <1>1, <1>2, <1>3, NodeStep

(* And its crashes and restarts.                                            *)
LEMMA CrashesKeep ==
    ASSUME Inv, NEW n \in setting.members, Crash(n) \/ Restart(n)
    PROVE  Inv'
<1>1. Domains /\ n \in Nodes /\ NodeInv(n) /\ up \subseteq Nodes
  BY LeaderTypes DEF Inv, Domains, LeaderInv
<1>2. CASE Crash(n)
  <2>1. StoreFrame /\ up' = up \ {n}
    BY <1>2 DEF Crash, replicated, StoreFrame
  <2> QED
    BY <1>1, <1>2, <2>1, CrashKeeps, NodeStep
<1>3. CASE Restart(n)
  <2>1. /\ StoreFrame /\ up' = up \cup {n} /\ disk' = disk /\ run' = run /\ jobs' = jobs
        /\ sync' = sync /\ acted' = acted /\ calls' = calls /\ late' = late
        /\ setting' = setting
    BY <1>3 DEF Restart, replicated, leader, history, StoreFrame
  <2>2. NodeInv(n)'
    BY <1>1, <2>1, NodeFrame
  <2>3. NodeKept(n)
    BY <1>1, <2>1, <2>2 DEF NodeKept, Others, Domains
  <2> QED
    BY <1>1, <2>1, <2>3, NodeStep
<1> QED
  BY <1>2, <1>3

(* The steps of the leader and of the store.                                *)
LEMMA LeaderStepsKeep ==
    ASSUME Inv,
           \/ ApplyWrite \/ Commit \/ Cancel
           \/ \E n \in setting.members : AcknowledgeReplay(n)
           \/ Prune
           \/ \E n \in setting.members : SendSync(n)
           \/ \E n \in setting.members : TimeOut(n)
           \/ \E n \in setting.members : CallFails(n)
           \/ \E n \in setting.members : LoseLate(n)
           \/ \E silent, failing \in SUBSET setting.members : Tick(silent, failing)
           \/ LeaderChange
           \/ Recover
    PROVE  Inv'
BY ApplyWriteKeeps, CommitKeeps, RequestsKeep, PruneKeeps, SendSyncKeeps, TimeOutKeeps,
   CallFailsKeeps, LoseLateKeeps, TickKeeps, LeaderChangeKeeps, RecoverKeeps

(* Every step keeps the invariant.                                          *)
LEMMA NextKeeps ==
    ASSUME Inv, [Next]_vars
    PROVE  Inv'
<1>1. CASE Next
  <2>1. CASE \/ ApplyWrite \/ Commit \/ Cancel
             \/ \E n \in setting.members : AcknowledgeReplay(n)
             \/ Prune
             \/ \E n \in setting.members : SendSync(n)
             \/ \E n \in setting.members : TimeOut(n)
             \/ \E n \in setting.members : CallFails(n)
             \/ \E n \in setting.members : LoseLate(n)
             \/ \E silent, failing \in SUBSET setting.members : Tick(silent, failing)
             \/ LeaderChange
             \/ Recover
    BY <2>1, LeaderStepsKeep
  <2>2. CASE \E n \in setting.members :
               \/ Receive(n) \/ ReceiveLate(n) \/ ControlChecked(n) \/ CleanupDone(n)
               \/ RunOpened(n) \/ FenceWritten(n) \/ MarkerClaimed(n)
               \/ DiskError(n) \/ DropSync(n) \/ OrphanEnds(n)
    BY <2>2, SyncStepsKeep
  <2>3. CASE \E n \in setting.members : \E j \in jobs[n] :
               \/ \E t \in DOMAIN j.tasks : LaunchTask(n, j, t)
               \/ \E t \in DOMAIN j.tasks : \E o \in Ended : EndTask(n, j, t, o)
               \/ \E t \in DOMAIN j.tasks : LoseTask(n, j, t)
               \/ \E t \in DOMAIN j.tasks : AppendFails(n, j, t)
               \/ FinishChunk(n, j)
    BY <2>3, JobStepsKeep
  <2>4. CASE \E n \in setting.members : Crash(n) \/ Restart(n)
    BY <2>4, CrashesKeep
  <2> QED
    BY <1>1, <2>1, <2>2, <2>3, <2>4, Zenon DEF Next
<1>2. CASE UNCHANGED vars
  <2>1. /\ kept' = kept /\ index' = index /\ epoch' = epoch /\ term' = term /\ ArrayFrame
        /\ applying' = applying /\ log' = log
        /\ calls' = calls /\ late' = late /\ disk' = disk /\ run' = run
        /\ jobs' = jobs /\ sync' = sync /\ acted' = acted
    BY <1>2 DEF vars, replicated, leader, nodes, history, ArrayFrame
  <2>2. Domains'
    BY <2>1, LeaderTypes DEF Domains, ArrayFrame
  <2>3. LeaderInv'
    BY <2>1, <2>2, LeaderTypes, LeaderFrame
  <2> QED
    BY <2>1, <2>3, QuietStep
<1> QED
  BY <1>1, <1>2

(* The invariant holds initially.                                           *)
LEMMA InitKeeps ==
    ASSUME Init
    PROVE  Inv
<1>1. setting.members \subseteq Nodes
  BY SettingsAssumption DEF Init, Setting
<1>2. LeaderInv
  <2>1. /\ array = NewArray /\ unknown = {} /\ outcome = "none" /\ kept = TRUE /\ index = 1
        /\ term = 1 /\ epoch = 0 /\ log = <<>> /\ applying = <<>> /\ up = Nodes
    BY DEF Init
  <2>2. Domains
    BY <1>1 DEF Init, Domains
  <2>3. array \in ArrayState /\ ValidSnapshot(array) /\ ~IsTerminal(array)
    <3>1. NewArray \in ArrayState /\ ValidSnapshot(NewArray)
      BY NewArrayValid
    <3>2. NewArray.queued # {}
      BY LastChunkFacts DEF NewArray
    <3> QED
      BY <2>1, <3>1, <3>2, TerminalIs
  <2>4. applying \in Seq(Write) /\ log \in Seq([term: Nat, writes: Seq(Write)])
    BY <2>1
  <2>5. kept \in BOOLEAN /\ unknown \subseteq Nodes /\ up \subseteq Nodes
    BY <2>1
  <2>6. index \in Nat /\ term \in Nat /\ epoch \in Nat
    BY <2>1
  <2>7. outcome # "none" <=> IsTerminal(array)
    BY <2>1, <2>3
  <2> QED
    BY <2>2, <2>3, <2>4, <2>5, <2>6, <2>7 DEF LeaderInv
<1>3. ASSUME NEW n \in Nodes
      PROVE  NodeInv(n)
  <2> DEFINE d == FreshDisk
  <2>1. /\ disk[n] = d /\ run[n] = NoRun /\ jobs[n] = {} /\ sync[n] = NoSync
        /\ acted[n] = [version |-> d.control, attempts |-> NoGrants]
        /\ calls[n] = NoCall /\ late[n] = {}
    BY DEF Init
  <2>2. /\ DiskShape(d) /\ d.control = [epoch |-> 0, term |-> 0, index |-> 0]
        /\ d.dir.exists = FALSE
    <3>1. /\ DOMAIN d = DiskFields /\ d.control = [epoch |-> 0, term |-> 0, index |-> 0]
          /\ d.dir = EmptyDirectory
      BY DEF FreshDisk, DiskFields
    <3>2. /\ DOMAIN EmptyDirectory = DirFields /\ EmptyDirectory.fence = NoFile
          /\ EmptyDirectory.markers = {} /\ EmptyDirectory.exists = FALSE
      BY DEF EmptyDirectory, DirFields
    <3> HIDE DEF d
    <3> QED
      BY <3>1, <3>2, NoFileShape DEF DiskShape, Version
  <2> HIDE DEF d
  <2>3. acted[n].version = d.control /\ acted[n].attempts = NoGrants
    BY <2>1
  <2>4. NoGrants \in Attempts /\ d.control \in Version
    BY <2>2 DEF NoGrants, Attempts, Version
  <2>5. ~Stale(d.control, d.control)
    BY <2>2 DEF Stale
  <2>6. sync[n].at = "none" /\ run[n].open = FALSE
    BY <2>1 DEF NoSync, NoRun
  <2>7. NodeShape(n)
    BY <2>1, <2>2, <2>3, <2>4 DEF NodeShape
  <2>8. CallerWaits(n) /\ ControlCovers(n) /\ DirectoryIsCurrent(n)
    BY <2>1, <2>2, <2>3, <2>5, <2>6 DEF CallerWaits, ControlCovers, DirectoryIsCurrent,
       PastControl
  <2>9. RunHasDirectory(n) /\ JobsAreCurrent(n) /\ FenceFits(n)
    BY <2>1, <2>6 DEF RunHasDirectory, JobsAreCurrent, FenceFits
  <2> QED
    BY <2>7, <2>8, <2>9 DEF NodeInv
<1> QED
  BY <1>2, <1>3 DEF Inv

(* The inductive invariant holds in every reachable state: what the store,  *)
(* the leader and each node promise each other holds across elections,      *)
(* forced recoveries, late requests, dropped calls, crashes and disk errors. *)
THEOREM Invariant == Spec => []Inv
<1>1. Init => Inv
  BY InitKeeps
<1>2. Inv /\ [Next]_vars => Inv'
  BY NextKeeps
<1> QED
  BY <1>1, <1>2, PTL DEF Spec
-----------------------------------------------------------------------------

(* What the invariant says of each node and of the store.                   *)

(* Every variable holds the values it is meant to hold.                     *)
THEOREM Typed == Spec => []TypeOK
<1>1. Inv => TypeOK
  <2> SUFFICES ASSUME Inv
               PROVE  TypeOK
    OBVIOUS
  <2>1. LeaderInv
    BY DEF Inv
  <2>2. ASSUME NEW n \in Nodes
        PROVE  /\ calls[n].state \in {"none", "sent", "inside", "answered"}
               /\ late[n] \subseteq Request
               /\ disk[n].control \in Version
               /\ disk[n].dir.markers \subseteq Chunks \X Nat
               /\ run[n].open => run[n].finished \subseteq ChunkResult
               /\ sync[n].at \in {"none", "control", "clean", "open", "fence", "marker"}
    <3>1. NodeShape(n)
      BY DEF Inv, NodeInv
    <3>2. calls[n].state \in {"none", "sent", "inside", "answered"}
      BY <3>1 DEF NodeShape, CallShape, NoCall
    <3>3. run[n].open => run[n].finished \subseteq ChunkResult
      BY <3>1 DEF NodeShape, RunShape, NoRun, Results
    <3>4. sync[n].at \in {"none", "control", "clean", "open", "fence", "marker"}
      BY <3>1 DEF NodeShape, SyncShape, NoSync, Stages
    <3> QED
      BY <3>1, <3>2, <3>3, <3>4 DEF NodeShape, DiskShape
  <2> QED
    BY <2>1, <2>2 DEF TypeOK, LeaderInv
<1> QED
  BY <1>1, Invariant, PTL

(* Whatever entries survive an election or a recovery, in whatever order    *)
(* results, requeues and cancellations apply, the array stays one that      *)
(* every replica can reopen, and its run has an outcome exactly when it is  *)
(* over.                                                                    *)
THEOREM Reopenable == Spec => []SnapshotValid
<1>1. Inv => SnapshotValid
  BY DEF Inv, LeaderInv, SnapshotValid
<1> QED
  BY <1>1, Invariant, PTL

(* Chunks that may still run are of the epoch of the files beside them:     *)
(* what a node kept from before a forced recovery is never mixed with what  *)
(* the recovered council grants.                                            *)
THEOREM OldDataIdle == Spec => []OldDataNeverRuns
<1>1. Inv => OldDataNeverRuns
  BY DEF Inv, NodeInv, JobsAreCurrent, OldDataNeverRuns
<1> QED
  BY <1>1, Invariant, PTL

(* However often a handler is dropped at its await, the fence position a    *)
(* run remembers names a file of the size that is there, or the payload is  *)
(* written to a new one: the write is never refused.                        *)
THEOREM FenceAccepted == Spec => []FenceNeverRefused
<1>1. Inv => FenceNeverRefused
  <2> SUFFICES ASSUME Inv, NEW n \in Nodes, sync[n].at = "fence"
               PROVE  ~Refused(disk[n].dir.fence, sync[n].position, sync[n].payload)
    BY DEF FenceNeverRefused
  <2>1. NodeInv(n)
    BY DEF Inv
  <2>2. /\ Fits(disk[n].dir.fence, run[n].position, run[n].highest)
        /\ sync[n].position = run[n].position /\ sync[n].payload = run[n].highest
        /\ run[n].position \in Positions /\ run[n].highest \in Attempts
    BY <2>1, RunningSync DEF NodeInv, FenceFits, RunShape
  <2>3. Length(run[n].highest) \in Nat /\ run[n].position.stride \in Nat
    BY <2>2, LengthNat DEF Positions
  <2> QED
    BY <2>2, <2>3 DEF Refused, InPlace, Fits
<1> QED
  BY <1>1, Invariant, PTL

-----------------------------------------------------------------------------

(* No old word is acted on.                                                 *)

(* The request a node acts on, if it acts, is not older than the last.      *)
NotOlder(n) == ~Stale(acted'[n].version, acted[n].version)

(* A node that acts on nothing acts on nothing older.                       *)
LEMMA ActsOnNothing ==
    ASSUME NEW n, NodeInv(n), acted'[n] = acted[n]
    PROVE  NotOlder(n)
BY StaleOrder DEF NotOlder, NodeInv, NodeShape

(* The other nodes act on nothing in a sync of this one.                    *)
LEMMA OthersActOnNothing ==
    ASSUME Inv, NEW n \in Nodes, NotOlder(n),
           \A m \in Nodes \ {n} : acted'[m] = acted[m]
    PROVE  \A m \in Nodes : NotOlder(m)
<1> TAKE m \in Nodes
<1>1. CASE m = n
  BY <1>1
<1>2. CASE m # n
  BY <1>2, ActsOnNothing DEF Inv
<1> QED
  BY <1>1, <1>2

(* A sync past the control check carries the version of the control fence,  *)
(* which covers what the node acted on.                                     *)
LEMMA PastControlActs ==
    ASSUME NEW n \in Nodes, NodeInv(n), sync[n].at \in PastControl, NEW target, Acts(n, target)
    PROVE  NotOlder(n)
<1>1. CASE acted'[n] = acted[n]
  BY <1>1, ActsOnNothing
<1>2. CASE acted'[n].version = sync[n].request.version
  BY <1>2 DEF NodeInv, ControlCovers, NotOlder
<1> QED
  BY <1>1, <1>2 DEF Acts

(* Reconcile acts, if at all, on the request of its sync.                   *)
LEMMA ReconcileActs ==
    ASSUME Domains, NEW n \in Nodes, NodeShape(n), NEW r, RunShape(r),
           SyncShape(sync[n]), Reconcile(n, r)
    PROVE  /\ acted'[n] = acted[n] \/ acted'[n].version = sync[n].request.version
           /\ \A m \in Nodes \ {n} : acted'[m] = acted[m]
<1>1. \A m \in Nodes \ {n} : acted'[m] = acted[m]
  BY ReconcileFrame DEF SyncFrame
<1>2. PICK raised, target : Outcome(n, r, raised, target)
  BY ReconcileOutcome
<1> QED
  BY <1>1, <1>2 DEF Outcome, Acts

(* The control check lets through what is not older than the fence, and so  *)
(* not older than what the node acted on.                                   *)
LEMMA ControlCheckedActs ==
    ASSUME Inv, NEW n \in Nodes, ControlChecked(n)
    PROVE  \A m \in Nodes : NotOlder(m)
<1> DEFINE v == sync[n].request.version
<1>1. Domains /\ NodeInv(n)
  BY LeaderTypes DEF Inv
<1>2. sync[n].at = "control"
  BY DEF ControlChecked, Working
<1>3. \/ acted' = acted
      \/ Verdict(disk[n], v) = "accepted" /\ ActsOn(n, v, NoGrants)
      \/ Verdict(disk[n], v) = "accepted" /\ run[n].open /\ Reconcile(n, run[n])
  BY Zenon DEF ControlChecked
<1>4. CASE acted' = acted
  BY <1>4, ActsOnNothing DEF Inv
<1>5. ASSUME Verdict(disk[n], v) = "accepted"
      PROVE  ~Stale(v, acted[n].version)
  BY <1>1, <1>2, <1>5, AcceptedControl
<1>6. CASE Verdict(disk[n], v) = "accepted" /\ ActsOn(n, v, NoGrants)
  <2>1. /\ acted'[n].version = v /\ \A m \in Nodes \ {n} : acted'[m] = acted[m]
    BY <1>1, <1>6 DEF ActsOn, Domains
  <2> QED
    BY <1>5, <1>6, <2>1, OthersActOnNothing DEF NotOlder
<1>7. CASE Verdict(disk[n], v) = "accepted" /\ run[n].open /\ Reconcile(n, run[n])
  <2>1. SyncShape(sync[n]) /\ RunShape(run[n])
    BY <1>1, <1>2, <1>7, AtStage DEF NodeInv, NodeShape, NoRun, Stages
  <2>2. /\ acted'[n] = acted[n] \/ acted'[n].version = v
        /\ \A m \in Nodes \ {n} : acted'[m] = acted[m]
    BY <1>1, <1>7, <2>1, ReconcileActs DEF NodeInv
  <2>3. NotOlder(n)
    BY <1>1, <1>5, <1>7, <2>2, ActsOnNothing DEF NotOlder
  <2> QED
    BY <2>2, <2>3, OthersActOnNothing
<1> QED
  BY <1>3, <1>4, <1>6, <1>7

(* So does a run that was opened for its request.                           *)
LEMMA RunOpenedActs ==
    ASSUME Inv, NEW n \in Nodes, RunOpened(n)
    PROVE  \A m \in Nodes : NotOlder(m)
<1> DEFINE d == disk[n].dir
           q == sync[n].request
           r == OpenRun(d, q)
<1>1. Domains /\ NodeInv(n)
  BY LeaderTypes DEF Inv
<1>2. sync[n].at = "open"
  BY DEF RunOpened, Working
<1>3. \/ acted' = acted
      \/ (d.fence = NoFile \/ Readable(d.fence)) /\ Reconcile(n, r)
  BY Zenon DEF RunOpened
<1>4. CASE acted' = acted
  BY <1>4, ActsOnNothing DEF Inv
<1>5. CASE (d.fence = NoFile \/ Readable(d.fence)) /\ Reconcile(n, r)
  <2>1. SyncShape(sync[n]) /\ d.fence \in Files
    BY <1>1, <1>2, AtStage DEF NodeInv, NodeShape, DiskShape, Stages
  <2>2. r = OpenRun(d, q)
    OBVIOUS
  <2> HIDE DEF r, d, q
  <2>3. RunShape(r)
    <3>1. OpenedRun(d, q, r)
      BY <1>5, <2>1, <2>2, OpenRunShape
    <3> QED
      BY <3>1 DEF OpenedRun
  <2>4. /\ acted'[n] = acted[n] \/ acted'[n].version = sync[n].request.version
        /\ \A m \in Nodes \ {n} : acted'[m] = acted[m]
    BY <1>1, <1>5, <2>1, <2>3, ReconcileActs DEF NodeInv
  <2>5. ~Stale(sync[n].request.version, acted[n].version)
    BY <1>1, <1>2 DEF NodeInv, ControlCovers, PastControl
  <2>6. NotOlder(n)
    BY <1>1, <2>4, <2>5, ActsOnNothing DEF NotOlder
  <2> QED
    BY <2>4, <2>6, OthersActOnNothing
<1> QED
  BY <1>3, <1>4, <1>5

(* And a run whose fence was written, or whose marker was claimed.          *)
LEMMA RunningActs ==
    ASSUME Inv, NEW n \in Nodes, FenceWritten(n) \/ MarkerClaimed(n)
    PROVE  \A m \in Nodes : NotOlder(m)
<1>1. Domains /\ NodeInv(n)
  BY LeaderTypes DEF Inv
<1>2. sync[n].at \in PastControl
  BY DEF FenceWritten, MarkerClaimed, Working, PastControl
<1>3. CASE acted' = acted
  BY <1>3, ActsOnNothing DEF Inv
<1>4. CASE acted' # acted
  <2>1. PICK target : Acts(n, target) /\ SyncFrame(n)
    <3>1. CASE FenceWritten(n)
      <4>1. ~Refused(disk[n].dir.fence, sync[n].position, sync[n].payload)
        BY <1>4, <3>1 DEF FenceWritten, Fail
      <4>2. PICK r, raised, target : Outcome(n, r, raised, target) /\ SyncFrame(n)
        BY <1>1, <3>1, <4>1, FenceWrittenOutcome
      <4> QED
        BY <4>2 DEF Outcome
    <3>2. CASE MarkerClaimed(n)
      BY <1>1, <1>4, <3>2, MarkerClaimedOutcome DEF Outcome
    <3> QED
      BY <3>1, <3>2
  <2>2. NotOlder(n)
    BY <1>1, <1>2, <2>1, PastControlActs
  <2> QED
    BY <2>1, <2>2, OthersActOnNothing DEF SyncFrame
<1> QED
  BY <1>3, <1>4

(* Every other step leaves what the nodes acted on as it was.               *)
LEMMA OtherStepsActOnNothing ==
    ASSUME Next,
           \A n \in setting.members :
               /\ ~ControlChecked(n) /\ ~RunOpened(n) /\ ~FenceWritten(n) /\ ~MarkerClaimed(n)
    PROVE  acted' = acted
<1>1. CASE ApplyWrite \/ Commit \/ Cancel \/ Prune
  BY <1>1 DEF ApplyWrite, Commit, Cancel, Prune, history
<1>2. CASE LeaderChange \/ Recover
  BY <1>2 DEF LeaderChange, Recover, history
<1>3. CASE \E silent, failing \in SUBSET setting.members : Tick(silent, failing)
  BY <1>3 DEF Tick
<1>4. ASSUME NEW n \in setting.members,
             \/ AcknowledgeReplay(n) \/ SendSync(n) \/ TimeOut(n) \/ CallFails(n) \/ LoseLate(n)
      PROVE  acted' = acted
  BY <1>4 DEF AcknowledgeReplay, SendSync, TimeOut, CallFails, LoseLate, history
<1>5. ASSUME NEW n \in setting.members,
             \/ Receive(n) \/ ReceiveLate(n) \/ CleanupDone(n) \/ DiskError(n)
             \/ DropSync(n) \/ OrphanEnds(n) \/ Crash(n) \/ Restart(n)
      PROVE  acted' = acted
  <2>1. CASE Receive(n) \/ ReceiveLate(n)
    BY <2>1 DEF Receive, ReceiveLate, Begin, history
  <2>2. CASE DiskError(n)
    BY <2>2 DEF DiskError, Fail
  <2>3. CASE CleanupDone(n) \/ DropSync(n) \/ OrphanEnds(n) \/ Crash(n) \/ Restart(n)
    BY <2>3 DEF CleanupDone, DropSync, OrphanEnds, Crash, Restart, history
  <2> QED
    BY <1>5, <2>1, <2>2, <2>3
<1>6. ASSUME NEW n \in setting.members, NEW j \in jobs[n], NEW t, NEW o,
             \/ LaunchTask(n, j, t) \/ EndTask(n, j, t, o) \/ LoseTask(n, j, t)
             \/ AppendFails(n, j, t) \/ FinishChunk(n, j)
      PROVE  acted' = acted
  BY <1>6 DEF LaunchTask, EndTask, LoseTask, AppendFails, FinishChunk, history
<1> QED
  BY <1>1, <1>2, <1>3, <1>4, <1>5, <1>6, Zenon DEF Next

(* The control fence is durable before a node acts, and every later request *)
(* is checked against it: whatever arrives late and however often the node  *)
(* restarts, it acts on nothing older than what it acted on before.         *)
THEOREM OldWordIsRefused == Spec => NothingOlderActs
<1>1. ASSUME Inv, [Next]_vars
      PROVE  \A n \in Nodes : ~Stale(acted'[n].version, acted[n].version)
  <2>1. setting.members \subseteq Nodes
    BY <1>1, LeaderTypes DEF Domains, Inv
  <2>2. CASE \E n \in setting.members :
                ControlChecked(n) \/ RunOpened(n) \/ FenceWritten(n) \/ MarkerClaimed(n)
    BY <1>1, <2>1, <2>2, ControlCheckedActs, RunOpenedActs, RunningActs DEF NotOlder
  <2>3. CASE acted' = acted
    BY <1>1, <2>3, ActsOnNothing DEF Inv, NotOlder
  <2>4. CASE UNCHANGED vars
    BY <2>3, <2>4 DEF vars, history
  <2> QED
    BY <1>1, <2>2, <2>3, <2>4, OtherStepsActOnNothing
<1>2. Inv /\ [Next]_vars => [\A n \in Nodes : ~Stale(acted'[n].version, acted[n].version)]_vars
  BY <1>1
<1> QED
  BY <1>2, Invariant, PTL DEF Spec, NothingOlderActs
-----------------------------------------------------------------------------

(* The grant fence before any call has been given up.                       *)

(* No call was given up yet, and the first leader still leads.              *)
Calm == faults.timeouts = 0 /\ term = 1 /\ epoch = 0

(* The faults are counted, and terms start at 1.                            *)
Counted ==
    /\ "timeouts" \in DOMAIN faults /\ faults.timeouts \in Nat
    /\ term >= 1

(* A request that is on its way or being handled.                           *)
Waiting(k) == k.state \in {"sent", "inside"}

(* While all is calm no request is late, a sync is handled for the caller   *)
(* that waits for it, only a listed array is opened, and an array the       *)
(* request does not know has been forgotten by the cluster.                 *)
CallsAreKnown(n) ==
    /\ late[n] = {}
    /\ sync[n] # NoSync => /\ sync[n].live /\ ~sync[n].dropped
                           /\ calls[n].state = "inside" /\ calls[n].request = sync[n].request
    /\ Waiting(calls[n]) => /\ calls[n].request.listed => calls[n].request.known
                            /\ ~calls[n].request.known => ~kept
    /\ sync[n].at \in {"open", "fence", "marker"} => sync[n].request.listed

PositionIn(f) == IF f = NoFile THEN NoPosition ELSE PositionOf(f)
HighestIn(f) == IF f = NoFile THEN NoGrants ELSE PayloadOf(f)

(* The attempts are on the fence file f.                                    *)
OnFence(f, attempts) == \A c \in Chunks : attempts[c] <= HighestIn(f)[c]

(* The directory's fence covers the attempts the node started.              *)
Covered(dir, attempts) ==
    /\ dir.fence = NoFile \/ Readable(dir.fence)
    /\ ~dir.exists => dir.fence = NoFile
    /\ dir.exists /\ ~dir.compacted => OnFence(dir.fence, attempts)

(* Files are gone only after the cluster forgot the array.                  *)
GoneIsForgotten(n) ==
    ~disk[n].dir.exists /\ acted[n].attempts # NoGrants =>
        ~kept /\ (Waiting(calls[n]) => ~calls[n].request.known)

(* The run remembers the fence as it is on disk; while it is written the    *)
(* run is ahead of it, and has what the request lists.                      *)
RunTracks(n) ==
    LET f == disk[n].dir.fence
        r == run[n]
        s == sync[n]
    IN  /\ r.open /\ (~r.failure \/ s.at = "fence") => r.position = PositionIn(f)
        /\ r.open /\ ~r.failure /\ s.at # "fence" => r.highest = HighestIn(f)
        /\ s.at = "fence" =>
              \A c \in Chunks : /\ HighestIn(f)[c] <= r.highest[c]
                                /\ s.request.held[c] <= r.highest[c]
        /\ s.at = "marker" => OnFence(f, s.target)

CalmNode(n) ==
    /\ CallsAreKnown(n)
    /\ Covered(disk[n].dir, acted[n].attempts)
    /\ GoneIsForgotten(n)
    /\ RunTracks(n)

CalmInv == Counted /\ (Calm => \A n \in Nodes : CalmNode(n))

(* What a whole write leaves is read back: its payload, and its position as *)
(* the writer remembers it.                                                 *)
LEMMA WrittenReads ==
    ASSUME NEW f \in Files, f = NoFile \/ Readable(f), NEW p \in Attempts,
           NEW at, at = PositionIn(f), NEW g, g = Written(f, at, p)
    PROVE  Readable(g) /\ g # NoFile /\ PayloadOf(g) = p /\ PositionOf(g) = WrittenPosition(at, p)
<1> DEFINE new == NextSlot(at, p)
<1>1. at \in Positions /\ (at = NoPosition \/ (Readable(f) /\ at = PositionOf(f)))
  BY ReadShape DEF PositionIn, NoPosition, Positions
<1>2. at.generation \in Nat
  BY <1>1 DEF Positions
<1>3. new # Torn /\ new.generation = at.generation + 1 /\ new.payload = p
  <2>1. new.generation = at.generation + 1 /\ new.payload = p /\ Torn.generation = 0
    BY DEF NextSlot, Torn
  <2>2. at.generation + 1 # 0
    BY <1>2
  <2> QED
    BY <2>1, <2>2
<1>n. ASSUME Readable(g)
      PROVE  g # NoFile
  BY <1>n DEF Readable, NoFile
<1> HIDE DEF new
<1>4. CASE InPlace(at, p)
  <2> DEFINE k == NewestSlot(f)
             ss == [f.slots EXCEPT ![3 - k] = new]
  <2>1. /\ Readable(f) /\ at.slot = k /\ at.stride = f.stride
        /\ at.generation = f.slots[k].generation
    BY <1>1, <1>4 DEF InPlace, PositionOf
  <2>2. k \in 1 .. 2 /\ f.slots[k] # Torn /\ DOMAIN f.slots = 1 .. 2
    BY <2>1, ReadShape DEF Files
  <2>3. g.slots = ss /\ g.stride = f.stride
    <3>1. g = RewriteSlot(f, at, new) /\ g.stride = f.stride
      BY <1>1, <1>4, WrittenShape DEF new
    <3>2. g.slots = [f.slots EXCEPT ![3 - at.slot] = new]
      BY <3>1 DEF RewriteSlot, Overwritten, Files
    <3> QED
      BY <2>1, <3>1, <3>2
  <2>4. WrittenPosition(at, p) = [generation |-> at.generation + 1, slot |-> 3 - k,
                                  stride |-> f.stride]
    BY <1>4, <2>1 DEF WrittenPosition, Overwritten
  <2> HIDE DEF k
  <2>5. 3 - k \in 1 .. 2 /\ 3 - k # k
    BY <2>2
  <2>6. ss[3 - k] = new /\ ss[k] = f.slots[k]
    BY <2>2, <2>5
  <2> HIDE DEF ss
  <2>7. NewestSlot(g) = 3 - k
    <3>1. CASE k = 1
      BY <1>2, <1>3, <2>1, <2>3, <2>6, <3>1 DEF NewestSlot
    <3>2. CASE k = 2
      BY <1>2, <1>3, <2>1, <2>3, <2>6, <3>2 DEF NewestSlot
    <3> QED
      BY <2>2, <3>1, <3>2
  <2>8. Readable(g)
    BY <1>3, <2>3, <2>5, <2>6 DEF Readable
  <2> QED
    BY <1>3, <1>n, <2>3, <2>4, <2>6, <2>7, <2>8 DEF PayloadOf, PositionOf
<1>5. CASE ~InPlace(at, p)
  <2>1. g = Create(at, p)
    BY <1>1, <1>5, WrittenShape
  <2>2. g.slots[1] = new /\ g.slots[2] = new /\ g.stride = StrideFor(p)
    BY <2>1 DEF Create, new
  <2>3. new.generation \in Nat
    BY <1>2, <1>3
  <2>4. NewestSlot(g) = 1
    BY <1>3, <2>2, <2>3 DEF NewestSlot
  <2>5. Readable(g)
    BY <1>3, <2>2 DEF Readable
  <2>6. WrittenPosition(at, p) = [generation |-> at.generation + 1, slot |-> 1,
                                  stride |-> StrideFor(p)]
    BY <1>5 DEF WrittenPosition
  <2> QED
    BY <1>3, <1>n, <2>2, <2>4, <2>5, <2>6 DEF PayloadOf, PositionOf
<1> QED
  BY <1>4, <1>5

(* A write that was cut short leaves the file readable, with the payload it *)
(* had or the new one: what is torn is the slot with the older payload.     *)
LEMMA LeftReads ==
    ASSUME NEW f \in Files, f = NoFile \/ Readable(f), NEW p \in Attempts,
           NEW at, at = PositionIn(f), NEW g \in LeftBy(f, at, p)
    PROVE  /\ g = NoFile \/ Readable(g)
           /\ HighestIn(g) \in {HighestIn(f), p}
<1>1. at \in Positions /\ (at = NoPosition \/ (Readable(f) /\ at = PositionOf(f)))
  BY ReadShape DEF PositionIn, NoPosition, Positions
<1>2. \/ g = f \/ g = Written(f, at, p)
      \/ InPlace(at, p) /\ g = RewriteSlot(f, at, Torn)
  BY <1>1, LeftShape
<1>3. CASE g = f
  BY <1>3
<1>4. CASE g = Written(f, at, p)
  BY <1>4, WrittenReads DEF HighestIn
<1>5. CASE InPlace(at, p) /\ g = RewriteSlot(f, at, Torn)
  <2> DEFINE k == NewestSlot(f)
             ss == [f.slots EXCEPT ![3 - k] = Torn]
  <2>1. Readable(f) /\ at.slot = k
    BY <1>1, <1>5 DEF InPlace, PositionOf
  <2>2. k \in 1 .. 2 /\ f.slots[k] # Torn /\ DOMAIN f.slots = 1 .. 2
    BY <2>1, ReadShape DEF Files
  <2>3. g.slots = ss
    BY <1>5, <2>1 DEF RewriteSlot, Overwritten, Files
  <2> HIDE DEF k
  <2>5. 3 - k \in 1 .. 2 /\ 3 - k # k
    BY <2>2
  <2>6. ss[3 - k] = Torn /\ ss[k] = f.slots[k]
    BY <2>2, <2>5
  <2> HIDE DEF ss
  <2>7. NewestSlot(g) = k
    <3>1. CASE k = 1
      BY <2>2, <2>3, <2>6, <3>1 DEF NewestSlot
    <3>2. CASE k = 2
      BY <2>2, <2>3, <2>6, <3>2 DEF NewestSlot
    <3> QED
      BY <2>2, <3>1, <3>2
  <2>8. Readable(g)
    BY <2>2, <2>3, <2>6 DEF Readable
  <2>9. g # NoFile /\ f # NoFile
    BY <2>1, <2>8 DEF Readable, NoFile
  <2>10. PayloadOf(g) = PayloadOf(f)
    BY <2>3, <2>6, <2>7 DEF PayloadOf, k
  <2> QED
    BY <2>8, <2>9, <2>10 DEF HighestIn
<1> QED
  BY <1>2, <1>3, <1>4, <1>5

(* What a fence holds is a payload.                                         *)
LEMMA HighestShape ==
    ASSUME NEW f \in Files, f = NoFile \/ Readable(f)
    PROVE  HighestIn(f) \in Attempts /\ PositionIn(f) \in Positions
BY ReadShape DEF HighestIn, PositionIn, NoGrants, NoPosition, Attempts, Positions

(* What a disk operation leaves of a fence that covered what was started.   *)
DiskCalm(n, x) ==
    /\ Covered(x.dir, acted[n].attempts)
    /\ ~x.dir.exists /\ acted[n].attempts # NoGrants => ~kept
    /\ run[n].open /\ sync[n].at # "fence" => x.dir.fence = disk[n].dir.fence

(* The same directory, but for files that do not matter here.               *)
SameFence(d, x) ==
    /\ x.dir.fence = d.dir.fence /\ x.dir.exists = d.dir.exists
    /\ x.dir.compacted = d.dir.compacted

(* An operation that leaves the fence alone.                                *)
LEMMA SameFenceCalm ==
    ASSUME NEW n, CalmNode(n), NEW x, SameFence(disk[n], x)
    PROVE  DiskCalm(n, x)
BY DEF CalmNode, SameFence, DiskCalm, Covered, GoneIsForgotten

(* What cleanup leaves, field by field.                                     *)
LEMMA CleanedIs ==
    ASSUME NEW n, NodeInv(n), sync[n].at = "clean"
    PROVE  \/ Effect(n) = disk[n]
           \/ ~sync[n].request.known /\ Effect(n).dir.exists = FALSE /\ Effect(n).dir.fence = NoFile
           \/ /\ disk[n].dir.exists /\ Effect(n).dir.exists = disk[n].dir.exists
              /\ Effect(n).dir.compacted = TRUE /\ Effect(n).dir.fence = NoFile
<1> DEFINE d == disk[n]
           x == Effect(n)
           compacted == [d.dir EXCEPT !.compacted = TRUE, !.fence = NoFile, !.markers = {}]
<1>1. \/ x = d
      \/ ~sync[n].request.known /\ x = [d EXCEPT !.dir = EmptyDirectory]
      \/ d.dir.exists /\ x = [d EXCEPT !.dir.compacted = TRUE, !.dir.fence = NoFile, !.dir.markers = {}]
  BY EffectIs DEF Cleaned
<1>2. DOMAIN d = DiskFields /\ DOMAIN d.dir = DirFields
  BY DEF NodeInv, NodeShape, DiskShape
<1>3. CASE ~sync[n].request.known /\ x = [d EXCEPT !.dir = EmptyDirectory]
  <2>1. x.dir = EmptyDirectory
    BY <1>2, <1>3 DEF DiskFields
  <2> QED
    BY <1>3, <2>1 DEF EmptyDirectory
<1>4. CASE /\ d.dir.exists
           /\ x = [d EXCEPT !.dir.compacted = TRUE, !.dir.fence = NoFile, !.dir.markers = {}]
  <2>1. x = [d EXCEPT !.dir = compacted]
    <3> HIDE DEF d, x
    <3> QED
      BY <1>2, <1>4 DEF DiskFields, DirFields
  <2>2. /\ compacted.exists = d.dir.exists /\ compacted.compacted = TRUE
        /\ compacted.fence = NoFile
    BY <1>2 DEF DirFields
  <2>3. x.dir = compacted
    <3> HIDE DEF compacted, d, x
    <3> QED
      BY <1>2, <2>1 DEF DiskFields
  <2> HIDE DEF compacted
  <2> QED
    BY <1>4, <2>2, <2>3
<1> QED
  BY <1>1, <1>3, <1>4

(* Cleanup takes a fence away only with the array's directory, which the    *)
(* cluster has forgotten, or when the run is over.                          *)
LEMMA CleanCalm ==
    ASSUME NEW n, NodeInv(n), CalmNode(n), sync[n].at = "clean"
    PROVE  DiskCalm(n, Effect(n))
<1>1. ~run[n].open
  BY DEF NodeInv, RunHasDirectory
<1>2. ~sync[n].request.known => ~kept
  <2>1. sync[n] # NoSync
    BY DEF NoSync
  <2> QED
    BY <2>1 DEF CalmNode, CallsAreKnown, Waiting
<1>3. CASE Effect(n) = disk[n]
  BY <1>3, SameFenceCalm DEF SameFence
<1>4. CASE ~sync[n].request.known /\ Effect(n).dir.exists = FALSE /\ Effect(n).dir.fence = NoFile
  BY <1>1, <1>2, <1>4 DEF DiskCalm, Covered
<1>5. CASE /\ disk[n].dir.exists /\ Effect(n).dir.exists = disk[n].dir.exists
           /\ Effect(n).dir.compacted = TRUE /\ Effect(n).dir.fence = NoFile
  BY <1>1, <1>5 DEF DiskCalm, Covered
<1> QED
  BY <1>3, <1>4, <1>5, CleanedIs

(* A directory is created only for an array the node started nothing of:    *)
(* one it had started is gone only when no request knows it.                *)
LEMMA OpenCalm ==
    ASSUME NEW n, NodeInv(n), CalmNode(n), sync[n].at = "open"
    PROVE  /\ DiskCalm(n, Effect(n)) /\ Effect(n).dir.fence = disk[n].dir.fence
           /\ ~disk[n].dir.compacted => Effect(n).dir.exists /\ ~Effect(n).dir.compacted
<1> DEFINE d == disk[n]
           x == Effect(n)
           attempts == acted[n].attempts
<1>1. SyncShape(sync[n]) /\ sync[n] # NoSync
  BY AtStage DEF Stages
<1>2. /\ d.dir.compacted => x = d
      /\ ~d.dir.compacted => x.dir.exists /\ x.dir.compacted = d.dir.compacted
      /\ x.dir.fence = d.dir.fence
  BY <1>1, OpenStep DEF DiskStep
<1>3. ~run[n].open
  BY DEF NodeInv, RunHasDirectory
<1>4. ~d.dir.exists => attempts = NoGrants
  BY <1>1 DEF CalmNode, GoneIsForgotten, CallsAreKnown, Waiting
<1>5. CASE d.dir.compacted
  BY <1>2, <1>5, SameFenceCalm DEF SameFence
<1>6. CASE ~d.dir.compacted
  <2>1. d.dir.fence \in Files /\ (d.dir.fence = NoFile \/ Readable(d.dir.fence))
    BY DEF CalmNode, Covered, NodeInv, NodeShape, DiskShape
  <2>2. OnFence(d.dir.fence, attempts)
    <3>1. CASE d.dir.exists
      BY <1>6, <3>1 DEF CalmNode, Covered
    <3>2. CASE ~d.dir.exists
      BY <1>4, <2>1, <3>2, HighestShape DEF OnFence, NoGrants, Attempts
    <3> QED
      BY <3>1, <3>2
  <2> QED
    BY <1>2, <1>3, <1>6, <2>1, <2>2 DEF DiskCalm, Covered
<1> QED
  BY <1>2, <1>5, <1>6

(* A fence write, whole or cut short, keeps what was started on the fence.  *)
LEMMA FenceCalm ==
    ASSUME NEW n, NodeInv(n), CalmNode(n), sync[n].at = "fence", NEW g,
           \/ g = Written(disk[n].dir.fence, sync[n].position, sync[n].payload)
           \/ g \in LeftBy(disk[n].dir.fence, sync[n].position, sync[n].payload),
           NEW x, x = [disk[n] EXCEPT !.dir.fence = g]
    PROVE  DiskCalm(n, x)
<1> DEFINE d == disk[n]
           f == disk[n].dir.fence
           p == run[n].highest
           attempts == acted[n].attempts
<1>1. /\ SyncShape(sync[n]) /\ RunShape(run[n]) /\ run[n].open /\ f \in Files /\ d.dir.exists
      /\ sync[n].position = run[n].position /\ sync[n].payload = p
  BY RunningSync DEF NodeInv, FenceFits
<1>2. /\ f = NoFile \/ Readable(f)
      /\ run[n].position = PositionIn(f)
      /\ ~d.dir.compacted => OnFence(f, attempts)
      /\ \A c \in Chunks : HighestIn(f)[c] <= p[c]
  BY <1>1 DEF CalmNode, Covered, RunTracks
<1>3. p \in Attempts /\ attempts \in Attempts
  BY <1>1 DEF RunShape, NodeInv, NodeShape
<1>4. /\ x.dir.fence = g /\ x.dir.compacted = d.dir.compacted /\ x.dir.exists = d.dir.exists
  <2>1. FenceStepped(n, g, x)
    BY <1>1, FenceStep
  <2> QED
    BY <2>1 DEF FenceStepped, DiskStep
<1> HIDE DEF f, p, attempts
<1>5. /\ g = NoFile \/ Readable(g)
      /\ HighestIn(g) \in {HighestIn(f), p}
  <2>1. CASE g = Written(f, PositionIn(f), p)
    BY <1>1, <1>2, <1>3, <2>1, WrittenReads DEF HighestIn
  <2>2. CASE g \in LeftBy(f, PositionIn(f), p)
    BY <1>1, <1>2, <1>3, <2>2, LeftReads
  <2> QED
    BY <1>1, <1>2, <2>1, <2>2 DEF f
<1>6. HighestIn(f) \in Attempts
  BY <1>1, <1>2, HighestShape
<1>7. OnFence(f, attempts) => OnFence(g, attempts)
  BY <1>2, <1>3, <1>5, <1>6 DEF OnFence, Attempts
<1> QED
  BY <1>1, <1>2, <1>4, <1>5, <1>7 DEF DiskCalm, Covered, attempts

(* Whatever is left of an operation, what was started stays on the fence.   *)
LEMMA OperationCalm ==
    ASSUME NEW n, NodeInv(n), CalmNode(n)
    PROVE  /\ DiskCalm(n, disk[n])
           /\ sync[n] # NoSync => DiskCalm(n, Effect(n))
           /\ \A x \in Remains(n) : DiskCalm(n, x)
<1>1. DiskCalm(n, disk[n])
  BY SameFenceCalm DEF SameFence
<1>2. ASSUME sync[n] # NoSync
      PROVE  SyncShape(sync[n]) /\ sync[n].at \in Stages
  BY <1>2 DEF NodeInv, NodeShape, SyncShape
<1>3. ASSUME sync[n] # NoSync
      PROVE  DiskCalm(n, Effect(n))
  <2>1. CASE sync[n].at = "control"
    BY <1>2, <1>3, <2>1, ControlStep, SameFenceCalm DEF SameFence
  <2>2. CASE sync[n].at = "clean"
    BY <2>2, CleanCalm
  <2>3. CASE sync[n].at = "open"
    BY <2>3, OpenCalm
  <2>4. CASE sync[n].at = "fence"
    <3>1. Effect(n) = [disk[n] EXCEPT !.dir.fence =
                         Written(disk[n].dir.fence, sync[n].position, sync[n].payload)]
      BY <2>4, EffectIs
    <3> QED
      BY <2>4, <3>1, FenceCalm
  <2>5. CASE sync[n].at = "marker"
    <3>1. SameFence(disk[n], Effect(n))
      BY <1>2, <1>3, <2>5, MarkerStep DEF SameFence, DiskStep
    <3> QED
      BY <3>1, SameFenceCalm
  <2> QED
    BY <1>2, <1>3, <2>1, <2>2, <2>3, <2>4, <2>5 DEF Stages
<1>4. ASSUME NEW x \in Remains(n)
      PROVE  DiskCalm(n, x)
  <2>1. CASE sync[n] = NoSync
    <3>1. sync[n].at = "none"
      BY <2>1 DEF NoSync
    <3>2. x = disk[n]
      BY <3>1 DEF Remains
    <3> QED
      BY <1>1, <3>2
  <2>2. CASE sync[n] # NoSync /\ sync[n].at = "fence"
    <3>1. PICK f \in LeftBy(disk[n].dir.fence, sync[n].position, sync[n].payload) :
                 x = [disk[n] EXCEPT !.dir.fence = f]
      BY <2>2 DEF Remains
    <3> QED
      BY <2>2, <3>1, FenceCalm
  <2>3. CASE sync[n] # NoSync /\ sync[n].at # "fence"
    <3>1. sync[n].at # "none" /\ sync[n].at # "fence"
      BY <1>2, <2>3 DEF Stages
    <3>2. x \in {disk[n], Effect(n)}
      BY <3>1 DEF Remains
    <3> QED
      BY <1>1, <1>3, <2>3, <3>2
  <2> QED
    BY <2>1, <2>2, <2>3
<1> QED
  BY <1>1, <1>3, <1>4

(* A step that leaves a node alone keeps it calm; the cluster may forget.   *)
LEMMA CalmFrame ==
    ASSUME NEW n, CalmNode(n), kept' => kept,
           disk'[n].dir = disk[n].dir, run'[n] = run[n], sync'[n] = sync[n],
           acted'[n] = acted[n], calls'[n] = calls[n], late'[n] = late[n]
    PROVE  CalmNode(n)'
<1>1. CallsAreKnown(n)'
  BY DEF CalmNode, CallsAreKnown, Waiting
<1>2. Covered(disk[n].dir, acted[n].attempts)'
  BY DEF CalmNode, Covered, OnFence, HighestIn, PayloadOf, NewestSlot, Readable
<1>3. GoneIsForgotten(n)'
  BY DEF CalmNode, GoneIsForgotten, Waiting
<1>4. RunTracks(n)'
  BY DEF CalmNode, RunTracks, OnFence, PositionIn, HighestIn, PositionOf, PayloadOf, NewestSlot
<1> QED
  BY <1>1, <1>2, <1>3, <1>4 DEF CalmNode

(* Nobody waits for a sync that is over.                                    *)
LEMMA CalmReply ==
    ASSUME Domains, NEW n \in Nodes, CalmNode(n), sync[n] # NoSync, NEW kind, NEW fs,
           Reply(n, kind, fs)
    PROVE  sync'[n] = NoSync /\ ~Waiting(calls'[n])
<1>1. sync'[n] = NoSync /\ (~sync[n].live \/ calls'[n] = Call("answered", calls[n].request, Answer(kind, fs)))
  BY ReplyEffect
<1>2. sync[n].live
  BY DEF CalmNode, CallsAreKnown
<1> QED
  BY <1>1, <1>2 DEF Waiting, Call

(* A sync that ends without starting anything leaves the node calm.         *)
LEMMA CalmEnds ==
    ASSUME NEW n, CalmNode(n), kept' = kept, late'[n] = late[n], acted'[n] = acted[n],
           sync'[n] = NoSync, ~Waiting(calls'[n]), DiskCalm(n, disk'[n]),
           run'[n].open => /\ run[n].open
                           /\ run'[n].highest = run[n].highest
                           /\ run'[n].position = run[n].position
                           /\ ~run'[n].failure => ~run[n].failure /\ sync[n].at # "fence"
    PROVE  CalmNode(n)'
<1>1. sync'[n].at = "none"
  BY DEF NoSync
<1>2. CallsAreKnown(n)'
  BY <1>1 DEF CalmNode, CallsAreKnown, Waiting
<1>3. Covered(disk[n].dir, acted[n].attempts)'
  BY DEF DiskCalm, Covered, OnFence, HighestIn, PayloadOf, NewestSlot, Readable
<1>4. GoneIsForgotten(n)'
  BY DEF DiskCalm, GoneIsForgotten, Waiting
<1>5. RunTracks(n)'
  <2>1. ASSUME run'[n].open, ~run'[n].failure
        PROVE  /\ disk'[n].dir.fence = disk[n].dir.fence
               /\ run'[n].position = PositionIn(disk'[n].dir.fence)
               /\ run'[n].highest = HighestIn(disk'[n].dir.fence)
    BY <2>1 DEF CalmNode, RunTracks, DiskCalm
  <2> QED
    BY <1>1, <2>1 DEF RunTracks, PositionIn, HighestIn, PositionOf, PayloadOf, NewestSlot
<1> QED
  BY <1>2, <1>3, <1>4, <1>5 DEF CalmNode

(* The attempts a sync started are on the fence.                            *)
LEMMA ActsCovered ==
    ASSUME NEW n, NodeShape(n), NEW target \in Attempts, Acts(n, target), NEW f \in Files,
           f = NoFile \/ Readable(f), OnFence(f, acted[n].attempts), OnFence(f, target)
    PROVE  OnFence(f, acted'[n].attempts)
<1>1. HighestIn(f) \in Attempts /\ acted[n].attempts \in Attempts
  BY HighestShape DEF NodeShape
<1>2. CASE acted'[n] = acted[n]
  BY <1>2 DEF OnFence
<1>3. CASE \A c \in Chunks : acted'[n].attempts[c] \in {0, acted[n].attempts[c], target[c]}
  <2> SUFFICES ASSUME NEW c \in Chunks
               PROVE  acted'[n].attempts[c] <= HighestIn(f)[c]
    BY DEF OnFence
  <2>1. acted[n].attempts[c] <= HighestIn(f)[c] /\ target[c] <= HighestIn(f)[c]
    BY DEF OnFence
  <2>2. HighestIn(f)[c] \in Nat
    BY <1>1 DEF Attempts
  <2> QED
    BY <1>3, <2>1, <2>2
<1> QED
  BY <1>2, <1>3 DEF Acts

(* What reconcile, a written fence or a claimed marker leads to leaves the  *)
(* node calm, if the run and the fence agree.                               *)
LEMMA CalmOutcome ==
    ASSUME NEW n, NodeInv(n), CalmNode(n), sync[n] # NoSync, kept' = kept, late'[n] = late[n],
           DiskShape(disk'[n]), DiskCalm(n, disk'[n]), disk'[n].dir.exists,
           sync[n].request.listed,
           NEW r, NEW raised, NEW target \in Attempts, Outcome(n, r, raised, target),
           OnFence(disk'[n].dir.fence, target),
           ~r.failure => /\ r.position = PositionIn(disk'[n].dir.fence)
                         /\ sync'[n].at # "fence" => raised = HighestIn(disk'[n].dir.fence),
           sync'[n].at = "fence" =>
               /\ ~r.failure
               /\ \A c \in Chunks : /\ HighestIn(disk'[n].dir.fence)[c] <= raised[c]
                                    /\ sync[n].request.held[c] <= raised[c]
    PROVE  CalmNode(n)'
<1> DEFINE f == disk'[n].dir.fence
<1>1. CallsAreKnown(n)'
  <2>1. /\ late[n] = {} /\ sync[n].live /\ ~sync[n].dropped
        /\ calls[n].state = "inside" /\ calls[n].request = sync[n].request
        /\ calls[n].request.listed => calls[n].request.known
        /\ ~calls[n].request.known => ~kept
    BY DEF CalmNode, CallsAreKnown, Waiting
  <2>2. CASE sync'[n] = NoSync /\ Answered(n)
    <3>1. sync'[n].at = "none"
      BY <2>2 DEF NoSync
    <3> QED
      BY <2>1, <2>2, <3>1 DEF CallsAreKnown, Waiting, Answered
  <2>3. CASE /\ calls'[n] = calls[n]
             /\ sync'[n].request = sync[n].request /\ sync'[n].live = sync[n].live
             /\ sync'[n].dropped = FALSE
    BY <2>1, <2>3 DEF CallsAreKnown, Waiting
  <2> QED
    BY <2>2, <2>3 DEF Outcome
<1>2. f \in Files /\ (f = NoFile \/ Readable(f))
  BY DEF DiskShape, DiskCalm, Covered
<1>3. disk'[n].dir.exists /\ ~disk'[n].dir.compacted => OnFence(f, acted'[n].attempts)
  BY <1>2, ActsCovered DEF DiskCalm, Covered, Outcome, NodeInv
<1>4. Covered(disk[n].dir, acted[n].attempts)'
  BY <1>2, <1>3 DEF Covered, OnFence, HighestIn, PayloadOf, NewestSlot, Readable
<1>5. GoneIsForgotten(n)'
  BY DEF GoneIsForgotten
<1>6. RunTracks(n)'
  <2>1. /\ run'[n].highest = raised /\ run'[n].position = r.position
        /\ run'[n].failure = r.failure
        /\ sync'[n].at = "fence" => sync'[n].request = sync[n].request
        /\ sync'[n].at = "marker" => sync'[n].target = target
    BY DEF Outcome, NoSync
  <2>2. /\ (~run'[n].failure \/ sync'[n].at = "fence") => run'[n].position = PositionIn(f)
        /\ ~run'[n].failure /\ sync'[n].at # "fence" => run'[n].highest = HighestIn(f)
        /\ sync'[n].at = "fence" =>
              \A c \in Chunks : /\ HighestIn(f)[c] <= run'[n].highest[c]
                                /\ sync'[n].request.held[c] <= run'[n].highest[c]
        /\ sync'[n].at = "marker" => OnFence(f, sync'[n].target)
    BY <2>1
  <2> QED
    BY <2>2 DEF RunTracks, OnFence, PositionIn, HighestIn, PositionOf, PayloadOf, NewestSlot
<1> QED
  BY <1>1, <1>4, <1>5, <1>6 DEF CalmNode

(* Nothing started is on every fence.                                       *)
LEMMA NothingOnFence ==
    ASSUME NEW f \in Files, f = NoFile \/ Readable(f)
    PROVE  NoGrants \in Attempts /\ OnFence(f, NoGrants)
BY HighestShape DEF OnFence, NoGrants, Attempts

(* Reconcile leaves the node calm, if the run it goes on with remembers the *)
(* fence as it is on disk.                                                  *)
LEMMA CalmReconcile ==
    ASSUME Domains, NEW n \in Nodes, NodeInv(n), CalmNode(n), sync[n] # NoSync,
           kept' = kept, late'[n] = late[n],
           DiskShape(disk'[n]), DiskCalm(n, disk'[n]), disk'[n].dir.exists,
           sync[n].request.listed,
           NEW r, RunShape(r),
           ~r.failure => /\ r.position = PositionIn(disk'[n].dir.fence)
                         /\ r.highest = HighestIn(disk'[n].dir.fence),
           Reconcile(n, r)
    PROVE  CalmNode(n)'
<1> DEFINE f == disk'[n].dir.fence
           held == sync[n].request.held
           raised == Raised(held, r.highest)
           target == Target(held, r.highest)
<1>1. SyncShape(sync[n])
  BY DEF NodeInv, NodeShape
<1>2. held \in Attempts /\ r.highest \in Attempts
  BY <1>1, RequestFields DEF SyncShape, RunShape
<1>3. /\ raised \in Attempts /\ target \in Attempts
      /\ \A c \in Chunks : r.highest[c] <= raised[c] /\ held[c] <= raised[c] /\ target[c] <= raised[c]
  BY <1>2, RaisedAttempts DEF Attempts
<1>4. NoGrants \in Attempts /\ OnFence(f, NoGrants)
  BY NothingOnFence DEF DiskShape, DiskCalm, Covered
<1>5. \/ /\ r.failure
         /\ Outcome(n, r, r.highest, NoGrants) /\ sync'[n] = NoSync
      \/ /\ ~r.failure /\ raised # r.highest
         /\ Outcome(n, r, raised, NoGrants)
         /\ sync'[n].at = "fence"
      \/ /\ ~r.failure /\ raised = r.highest
         /\ Outcome(n, r, r.highest, target)
         /\ sync'[n] = NoSync \/ sync'[n].at = "marker"
  BY <1>1, ReconcileOutcome DEF NodeInv
<1>6. sync'[n] = NoSync => sync'[n].at # "fence"
  BY DEF NoSync
<1> HIDE DEF raised, target, held
<1>7. CASE /\ r.failure
           /\ Outcome(n, r, r.highest, NoGrants) /\ sync'[n] = NoSync
  BY <1>4, <1>6, <1>7, CalmOutcome
<1>8. CASE /\ ~r.failure /\ raised # r.highest
           /\ Outcome(n, r, raised, NoGrants)
           /\ sync'[n].at = "fence"
  BY <1>3, <1>4, <1>8, CalmOutcome DEF held
<1>9. CASE /\ ~r.failure /\ raised = r.highest
           /\ Outcome(n, r, r.highest, target)
           /\ sync'[n] = NoSync \/ sync'[n].at = "marker"
  <2>1. OnFence(f, target)
    BY <1>3, <1>9 DEF OnFence
  <2> QED
    BY <1>3, <1>6, <1>9, <2>1, CalmOutcome
<1> QED
  BY <1>5, <1>7, <1>8, <1>9

(* A sync that is refused leaves the run as it was.                         *)
LEMMA CalmRefusal ==
    ASSUME Domains, NEW n \in Nodes, NodeInv(n), CalmNode(n), sync[n] # NoSync,
           sync[n].at # "fence",
           DiskCalm(n, disk'[n]), NEW kind, NEW fs, Reply(n, kind, fs),
           run'[n] = run[n], acted'[n] = acted[n], late'[n] = late[n], kept' = kept
    PROVE  CalmNode(n)'
<1>1. sync'[n] = NoSync /\ ~Waiting(calls'[n])
  BY CalmReply
<1> QED
  BY <1>1, CalmEnds

(* A sync that goes on with cleanup, or with opening the run, has the       *)
(* caller it had.                                                           *)
LEMMA CalmProceeds ==
    ASSUME Domains, NEW n \in Nodes, NodeInv(n), CalmNode(n), sync[n].at = "control",
           DiskCalm(n, disk'[n]), disk'[n].dir = disk[n].dir, kept' = kept, late'[n] = late[n],
           NEW at, at = "clean" \/ (at = "open" /\ sync[n].request.listed),
           Proceed(n, [sync[n] EXCEPT !.at = at]), Acts(n, NoGrants),
           run'[n].open => run'[n] = run[n]
    PROVE  CalmNode(n)'
<1> DEFINE t == [sync[n] EXCEPT !.at = at]
<1>1. SyncShape(sync[n]) /\ sync[n] # NoSync
  BY AtStage DEF Stages
<1>2. sync'[n] = t /\ calls'[n] = calls[n]
  BY ProceedEffect
<1>3. /\ t.at = at /\ t.request = sync[n].request /\ t.live = sync[n].live
      /\ t.dropped = sync[n].dropped
  <2>1. t = [sync[n] EXCEPT !.at = at]
    OBVIOUS
  <2> HIDE DEF t
  <2> QED
    BY <1>1, <2>1, StageChange
<1> HIDE DEF t
<1>4. CallsAreKnown(n)'
  BY <1>1, <1>2, <1>3 DEF CalmNode, CallsAreKnown, Waiting
<1>5. /\ NoGrants \in Attempts /\ acted[n].attempts \in Attempts
      /\ disk[n].dir.fence \in Files
  BY DEF NoGrants, Attempts, NodeInv, NodeShape, DiskShape
<1>6. OnFence(disk[n].dir.fence, acted[n].attempts) =>
         OnFence(disk[n].dir.fence, acted'[n].attempts)
  BY <1>5, ActsCovered, NothingOnFence DEF CalmNode, Covered, NodeInv
<1>7. Covered(disk[n].dir, acted[n].attempts)'
  <2>1. /\ disk[n].dir.fence = NoFile \/ Readable(disk[n].dir.fence)
        /\ ~disk[n].dir.exists => disk[n].dir.fence = NoFile
        /\ disk[n].dir.exists /\ ~disk[n].dir.compacted =>
              OnFence(disk[n].dir.fence, acted'[n].attempts)
    BY <1>6 DEF CalmNode, Covered
  <2> QED
    BY <2>1 DEF Covered, OnFence, HighestIn, PayloadOf, NewestSlot, Readable
<1>8. GoneIsForgotten(n)'
  <2>1. acted[n].attempts = NoGrants => acted'[n].attempts = NoGrants
    BY <1>5 DEF Acts, NoGrants, Attempts
  <2> QED
    BY <1>2, <2>1 DEF CalmNode, GoneIsForgotten, Waiting
<1>9. RunTracks(n)'
  BY <1>2, <1>3 DEF CalmNode, RunTracks, PositionIn, HighestIn, PositionOf, PayloadOf, NewestSlot
<1> QED
  BY <1>4, <1>7, <1>8, <1>9 DEF CalmNode

(* The control check, whichever way it goes.                                *)
LEMMA ControlCheckedCalm ==
    ASSUME Domains, NEW n \in Nodes, NodeInv(n), CalmNode(n), ControlChecked(n)
    PROVE  CalmNode(n)'
<1> DEFINE v == sync[n].request.version
           verdict == Verdict(disk[n], v)
           listed == sync[n].request.listed
<1>1. /\ sync[n].at = "control" /\ disk' = [disk EXCEPT ![n] = Effect(n)]
      /\ late' = late /\ kept' = kept
  BY DEF ControlChecked, Working, Rest, replicated
<1>2. \/ /\ Reply(n, "refused", {})
         /\ \/ run' = run
            \/ run[n].open /\ run' = [run EXCEPT ![n].cancelled = TRUE]
         /\ acted' = acted
      \/ /\ verdict = "accepted"
         /\ run' = [run EXCEPT ![n] = NoRun]
         /\ Proceed(n, [sync[n] EXCEPT !.at = "clean"])
         /\ ActsOn(n, v, NoGrants)
      \/ Reply(n, "unrunnable", {}) /\ run' = run /\ acted' = acted
      \/ /\ listed /\ Proceed(n, [sync[n] EXCEPT !.at = "open"])
         /\ run' = run /\ acted' = acted
      \/ verdict = "accepted" /\ listed /\ run[n].open /\ Reconcile(n, run[n])
  BY Zenon DEF ControlChecked
<1>3. SyncShape(sync[n]) /\ sync[n] # NoSync
  BY <1>1, AtStage DEF Stages
<1>4. /\ disk'[n] = Effect(n) /\ DiskCalm(n, disk'[n]) /\ disk'[n].dir = disk[n].dir
      /\ DiskShape(disk'[n])
  <2>1. disk'[n] = Effect(n)
    BY <1>1, DiskWrite
  <2>2. DiskCalm(n, Effect(n))
    BY <1>3, OperationCalm
  <2>3. Effect(n).dir = disk[n].dir /\ DiskShape(Effect(n))
    BY <1>1, <1>3, ControlStep DEF DiskStep
  <2> QED
    BY <2>1, <2>2, <2>3
<1>5. late'[n] = late[n]
  BY <1>1
<1>6. CASE /\ Reply(n, "refused", {})
           /\ \/ run' = run
              \/ run[n].open /\ run' = [run EXCEPT ![n].cancelled = TRUE]
           /\ acted' = acted
  <2>1. sync'[n] = NoSync /\ ~Waiting(calls'[n])
    BY <1>3, <1>6, CalmReply
  <2>2. run'[n].open => /\ run[n].open
                        /\ run'[n].highest = run[n].highest
                        /\ run'[n].position = run[n].position
                        /\ run'[n].failure = run[n].failure
    <3>1. CASE run' = run
      BY <3>1
    <3>2. CASE run[n].open /\ run' = [run EXCEPT ![n].cancelled = TRUE]
      <4>1. DOMAIN run[n] = RunFields
        BY <3>2 DEF NodeInv, NodeShape, NoRun, RunShape
      <4>2. run'[n] = [run[n] EXCEPT !.cancelled = TRUE]
        BY <3>2 DEF Domains
      <4> QED
        BY <3>2, <4>1, <4>2 DEF RunFields
    <3> QED
      BY <1>6, <3>1, <3>2
  <2> QED
    BY <1>1, <1>4, <1>5, <1>6, <2>1, <2>2, CalmEnds
<1>7. CASE /\ verdict = "accepted"
           /\ run' = [run EXCEPT ![n] = NoRun]
           /\ Proceed(n, [sync[n] EXCEPT !.at = "clean"])
           /\ ActsOn(n, v, NoGrants)
  <2>1. run'[n].open = FALSE
    BY <1>7 DEF Domains, NoRun
  <2>2. Acts(n, NoGrants)
    <3>1. NoGrants \in Attempts /\ \A c \in Chunks : NoGrants[c] \in {0, NoGrants[c]}
      BY DEF NoGrants, Attempts
    <3> QED
      BY <1>7, <3>1, ActsOnEffect DEF NodeInv
  <2> QED
    BY <1>1, <1>4, <1>5, <1>7, <2>1, <2>2, CalmProceeds
<1>8. CASE Reply(n, "unrunnable", {}) /\ run' = run /\ acted' = acted
  BY <1>1, <1>3, <1>4, <1>5, <1>8, CalmRefusal
<1>9. CASE /\ listed /\ Proceed(n, [sync[n] EXCEPT !.at = "open"])
           /\ run' = run /\ acted' = acted
  <2>1. Acts(n, NoGrants)
    BY <1>9 DEF Acts
  <2> QED
    BY <1>1, <1>4, <1>5, <1>9, <2>1, CalmProceeds
<1>10. CASE verdict = "accepted" /\ listed /\ run[n].open /\ Reconcile(n, run[n])
  <2>1. RunShape(run[n]) /\ disk[n].dir.exists
    BY <1>10 DEF NodeInv, NodeShape, NoRun, RunHasDirectory
  <2>2. ~run[n].failure => /\ run[n].position = PositionIn(disk'[n].dir.fence)
                           /\ run[n].highest = HighestIn(disk'[n].dir.fence)
    BY <1>1, <1>4, <1>10 DEF CalmNode, RunTracks
  <2> QED
    BY <1>1, <1>3, <1>4, <1>5, <1>10, <2>1, <2>2, CalmReconcile
<1> QED
  BY <1>2, <1>6, <1>7, <1>8, <1>9, <1>10

(* Cleanup, and a run that is opened.                                       *)
LEMMA CleanupDoneCalm ==
    ASSUME Domains, NEW n \in Nodes, NodeInv(n), CalmNode(n), CleanupDone(n)
    PROVE  CalmNode(n)'
<1>1. /\ sync[n].at = "clean" /\ disk' = [disk EXCEPT ![n] = Effect(n)]
      /\ Reply(n, "absent", {}) /\ run' = run /\ acted' = acted
      /\ late' = late /\ kept' = kept
  BY DEF CleanupDone, Working, Rest, replicated, history
<1>2. sync[n] # NoSync /\ disk'[n] = Effect(n)
  BY <1>1, AtStage, DiskWrite DEF Stages
<1>3. DiskCalm(n, disk'[n])
  BY <1>2, OperationCalm
<1> QED
  BY <1>1, <1>2, <1>3, CalmRefusal

(* A run is opened with what its fence holds.                               *)
LEMMA RunOpenedCalm ==
    ASSUME Domains, NEW n \in Nodes, NodeInv(n), CalmNode(n), RunOpened(n)
    PROVE  CalmNode(n)'
<1> DEFINE d == disk[n].dir
           q == sync[n].request
           r == OpenRun(d, q)
<1>1. /\ sync[n].at = "open" /\ disk' = [disk EXCEPT ![n] = Effect(n)]
      /\ late' = late /\ kept' = kept
  BY DEF RunOpened, Working, Rest, replicated
<1>2. \/ ~d.compacted /\ Reconcile(n, r)
      \/ Reply(n, "refused", {}) /\ run' = run /\ acted' = acted
  BY Zenon DEF RunOpened
<1>3. SyncShape(sync[n]) /\ sync[n] # NoSync /\ late'[n] = late[n]
  BY <1>1, AtStage DEF Stages
<1>4. /\ disk'[n] = Effect(n) /\ DiskCalm(n, disk'[n]) /\ disk'[n].dir.fence = d.fence
      /\ DiskShape(disk'[n])
      /\ ~d.compacted => disk'[n].dir.exists
  <2>1. disk'[n] = Effect(n)
    BY <1>1, DiskWrite
  <2>2. /\ DiskCalm(n, Effect(n)) /\ Effect(n).dir.fence = d.fence
        /\ ~d.compacted => Effect(n).dir.exists
    BY <1>1, OpenCalm
  <2>3. DiskShape(Effect(n))
    BY <1>3, OperationStep DEF DiskStep
  <2> QED
    BY <2>1, <2>2, <2>3
<1>5. CASE Reply(n, "refused", {}) /\ run' = run /\ acted' = acted
  BY <1>1, <1>3, <1>4, <1>5, CalmRefusal
<1>6. CASE ~d.compacted /\ Reconcile(n, r)
  <2>1. /\ d.fence \in Files /\ (d.fence = NoFile \/ Readable(d.fence))
        /\ sync[n].request.listed
    BY <1>1, <1>3 DEF NodeInv, NodeShape, DiskShape, CalmNode, Covered, CallsAreKnown
  <2>2. r = OpenRun(d, q)
    OBVIOUS
  <2> HIDE DEF r, d, q
  <2>3. OpenedRun(d, q, r)
    BY <2>1, <2>2, OpenRunShape
  <2>4. RunShape(r) /\ r.position = PositionIn(d.fence) /\ r.highest = HighestIn(d.fence)
    BY <2>3 DEF OpenedRun, PositionIn, HighestIn
  <2> QED
    BY <1>1, <1>3, <1>4, <1>6, <2>1, <2>4, CalmReconcile
<1> QED
  BY <1>2, <1>5, <1>6

(* A written fence holds what the run remembers, and what it starts.        *)
LEMMA FenceWrittenCalm ==
    ASSUME Domains, NEW n \in Nodes, NodeInv(n), CalmNode(n), FenceWritten(n)
    PROVE  CalmNode(n)'
<1> DEFINE s == sync[n]
           f == disk[n].dir.fence
           w == WrittenPosition(s.position, s.payload)
           r == [run[n] EXCEPT !.position = w]
           x == Effect(n)
           p == run[n].highest
           target == Target(s.request.held, r.highest)
<1>1. sync[n].at = "fence" /\ late' = late /\ kept' = kept
  BY DEF FenceWritten, Working, Rest, replicated
<1>2. /\ SyncShape(s) /\ s # NoSync /\ RunShape(run[n]) /\ run[n].open /\ f \in Files
      /\ disk[n].dir.exists /\ s.position = run[n].position /\ s.payload = p
      /\ Fits(f, run[n].position, p)
  BY <1>1, RunningSync DEF NodeInv, FenceFits
<1>3. p \in Attempts /\ run[n].position \in Positions /\ s.request.held \in Attempts
  BY <1>2, RequestFields DEF RunShape, SyncShape
<1>4. /\ f = NoFile \/ Readable(f)
      /\ run[n].position = PositionIn(f)
      /\ \A c \in Chunks : s.request.held[c] <= p[c]
      /\ s.request.listed
  BY <1>1, <1>2 DEF CalmNode, Covered, RunTracks, CallsAreKnown
<1>5. ~Refused(f, s.position, s.payload)
  <2>1. Length(p) \in Nat /\ run[n].position.stride \in Nat
    BY <1>3, LengthNat DEF Positions
  <2> QED
    BY <1>2, <2>1 DEF Refused, InPlace, Fits
<1>6. /\ r.highest = p /\ r.position = w
      /\ Outcome(n, r, r.highest, target)
      /\ sync'[n] = NoSync \/ sync'[n].at = "marker"
      /\ DiskStep(n, x) /\ disk' = [disk EXCEPT ![n] = x]
      /\ x.dir.fence = Written(f, s.position, s.payload)
  BY <1>5, FenceWrittenOutcome
<1>7. disk'[n] = x /\ late'[n] = late[n] /\ sync'[n].at # "fence"
  <2>1. disk'[n] = x
    <3> HIDE DEF x
    <3> QED
      BY <1>6, DiskWrite
  <2>2. sync'[n].at # "fence"
    BY <1>6 DEF NoSync
  <2> QED
    BY <1>1, <2>1, <2>2
<1> HIDE DEF x, r
<1>8. DiskCalm(n, x) /\ DiskShape(x) /\ x.dir.exists
  <2>1. DiskCalm(n, x)
    BY <1>2, OperationCalm DEF x
  <2> QED
    BY <1>1, <1>2, <1>6, <2>1 DEF DiskStep
<1>9. PositionIn(x.dir.fence) = w /\ HighestIn(x.dir.fence) = p
  <2> DEFINE g == x.dir.fence
  <2>1. g = Written(f, PositionIn(f), p)
    BY <1>2, <1>4, <1>6
  <2> HIDE DEF g, f, p
  <2>2. Readable(g) /\ g # NoFile /\ PayloadOf(g) = p /\ PositionOf(g) = WrittenPosition(PositionIn(f), p)
    BY <1>2, <1>3, <1>4, <2>1, WrittenReads
  <2>3. PositionIn(g) = WrittenPosition(PositionIn(f), p) /\ HighestIn(g) = p
    BY <2>2 DEF PositionIn, HighestIn
  <2> QED
    BY <1>2, <1>4, <2>3 DEF g, p, f
<1>10. target \in Attempts /\ OnFence(x.dir.fence, target)
  <2>1. target = Target(s.request.held, p)
    BY <1>6
  <2>2. /\ Target(s.request.held, p) \in Attempts
        /\ \A c \in Chunks : Target(s.request.held, p)[c] <= p[c]
    BY <1>3, <1>4 DEF Target, Attempts
  <2> QED
    BY <1>9, <2>1, <2>2 DEF OnFence
<1> HIDE DEF target, w
<1> QED
  BY <1>1, <1>2, <1>4, <1>6, <1>7, <1>8, <1>9, <1>10, CalmOutcome

(* A claimed marker starts what the fence holds.                            *)
LEMMA MarkerClaimedCalm ==
    ASSUME Domains, NEW n \in Nodes, NodeInv(n), CalmNode(n), MarkerClaimed(n)
    PROVE  CalmNode(n)'
<1> DEFINE r == run[n]
           target == sync[n].target
           x == disk'[n]
<1>1. /\ sync[n].at = "marker" /\ x = Effect(n) /\ DiskStep(n, x) /\ late' = late
      /\ \/ Reply(n, "refused", {}) /\ run' = run /\ acted' = acted
         \/ /\ Outcome(n, r, r.highest, target)
            /\ sync'[n] = NoSync \/ sync'[n].at = "marker"
  BY MarkerClaimedOutcome
<1>2. kept' = kept /\ late'[n] = late[n]
  BY <1>1 DEF MarkerClaimed, Rest, replicated
<1>3. SyncShape(sync[n]) /\ sync[n] # NoSync /\ r.open /\ disk[n].dir.exists
  BY <1>1, RunningSync
<1>4. DiskCalm(n, x) /\ DiskShape(x) /\ x.dir.fence = disk[n].dir.fence /\ x.dir.exists
  <2>1. DiskCalm(n, x)
    BY <1>1, <1>3, OperationCalm
  <2> QED
    BY <1>1, <1>3, <2>1 DEF DiskStep
<1>5. CASE Reply(n, "refused", {}) /\ run' = run /\ acted' = acted
  BY <1>1, <1>2, <1>3, <1>4, <1>5, CalmRefusal
<1>6. CASE /\ Outcome(n, r, r.highest, target)
           /\ sync'[n] = NoSync \/ sync'[n].at = "marker"
  <2>1. target \in Attempts
    BY <1>1, <1>3 DEF SyncShape
  <2>2. /\ ~r.failure => /\ r.position = PositionIn(x.dir.fence)
                         /\ r.highest = HighestIn(x.dir.fence)
        /\ OnFence(x.dir.fence, target)
        /\ sync[n].request.listed
    BY <1>1, <1>3, <1>4 DEF CalmNode, RunTracks, CallsAreKnown
  <2>3. sync'[n].at # "fence"
    BY <1>6 DEF NoSync
  <2> HIDE DEF r, target
  <2> QED
    BY <1>2, <1>3, <1>4, <1>6, <2>1, <2>2, <2>3, CalmOutcome
<1> QED
  BY <1>1, <1>5, <1>6

(* An error ends the sync; a run whose fence could not be written fails.    *)
LEMMA DiskErrorCalm ==
    ASSUME Domains, NEW n \in Nodes, NodeInv(n), CalmNode(n), DiskError(n)
    PROVE  CalmNode(n)'
<1>1. sync[n] # NoSync /\ late'[n] = late[n] /\ kept' = kept /\ late' = late /\ setting' = setting
  BY DEF DiskError, Rest, replicated
<1>2. DiskFrame(n) /\ disk'[n] \in Remains(n)
  <2>1. PICK d \in Remains(n) : disk' = [disk EXCEPT ![n] = d]
    BY DEF DiskError
  <2> QED
    BY <2>1, DiskWrite
<1>3. DiskStep(n, disk'[n]) /\ DiskCalm(n, disk'[n])
  BY <1>2, OperationStep, OperationCalm
<1>4. CASE sync[n].at = "fence"
  <2>1. Fail(n)
    BY <1>4 DEF DiskError
  <2>2. run'[n].failure = TRUE /\ RunKept(n)
    BY <1>1, <1>2, <1>3, <1>4, <2>1, FailKeeps
  <2>3. Reply(n, "refused", {}) /\ acted'[n] = acted[n]
    BY <2>1 DEF Fail
  <2>4. sync'[n] = NoSync /\ ~Waiting(calls'[n])
    BY <1>1, <2>3, CalmReply
  <2> QED
    BY <1>1, <1>3, <2>2, <2>3, <2>4, CalmEnds DEF RunKept
<1>5. CASE sync[n].at # "fence"
  <2>1. PICK kind : Reply(n, kind, {})
    BY <1>5 DEF DiskError
  <2>2. run'[n] = run[n] /\ acted'[n] = acted[n]
    BY <1>5 DEF DiskError
  <2> QED
    BY <1>1, <1>3, <1>5, <2>1, <2>2, CalmRefusal
<1> QED
  BY <1>4, <1>5

(* A crash leaves the disk as far as the operation came.                    *)
LEMMA CrashCalm ==
    ASSUME Domains, NEW n \in Nodes, NodeInv(n), CalmNode(n), Crash(n)
    PROVE  CalmNode(n)'
<1>1. /\ run' = [run EXCEPT ![n] = NoRun] /\ sync' = [sync EXCEPT ![n] = NoSync]
      /\ acted' = acted /\ late' = late /\ kept' = kept
      /\ calls' = [calls EXCEPT ![n] = IF calls[n].state = "inside" THEN NoCall ELSE calls[n]]
  BY DEF Crash, replicated, Domains
<1>2. DiskFrame(n) /\ disk'[n] \in Remains(n)
  <2>1. PICK d \in Remains(n) : disk' = [disk EXCEPT ![n] = d]
    BY DEF Crash
  <2> QED
    BY <2>1, DiskWrite
<1>3. DiskCalm(n, disk'[n])
  BY <1>2, OperationCalm
<1>4. /\ run'[n].open = FALSE /\ sync'[n] = NoSync /\ sync'[n].at = "none"
      /\ acted'[n] = acted[n] /\ late'[n] = late[n]
      /\ calls'[n] = IF calls[n].state = "inside" THEN NoCall ELSE calls[n]
  BY <1>1 DEF Domains, NoRun, NoSync
<1>5. CASE ~Waiting(calls'[n])
  BY <1>1, <1>3, <1>4, <1>5, CalmEnds
<1>6. CASE Waiting(calls'[n])
  <2>1. calls[n].state = "sent" /\ calls'[n] = calls[n]
    BY <1>4, <1>6 DEF Waiting, NoCall
  <2>2. sync[n] = NoSync
    BY <2>1 DEF CalmNode, CallsAreKnown
  <2>3. disk'[n] = disk[n]
    BY <1>2, <2>2 DEF Remains, NoSync
  <2>4. CallsAreKnown(n)'
    BY <1>1, <1>4, <2>1 DEF CalmNode, CallsAreKnown, Waiting
  <2>5. Covered(disk[n].dir, acted[n].attempts)'
    BY <1>4, <2>3 DEF CalmNode, Covered, OnFence, HighestIn, PayloadOf, NewestSlot, Readable
  <2>6. GoneIsForgotten(n)' /\ RunTracks(n)'
    BY <1>1, <1>4, <2>1, <2>3 DEF CalmNode, GoneIsForgotten, Waiting, RunTracks
  <2> QED
    BY <2>4, <2>5, <2>6 DEF CalmNode
<1> QED
  BY <1>5, <1>6

(* The jobs of a node write its ledger only, and a run that notes a failure *)
(* refuses what comes next.                                                 *)
LEMMA JobCalm ==
    ASSUME NEW n, CalmNode(n), JobStepped(n), kept' = kept
    PROVE  CalmNode(n)'
<1>1. /\ sync'[n] = sync[n] /\ calls'[n] = calls[n] /\ acted'[n] = acted[n]
      /\ late'[n] = late[n]
      /\ disk'[n].dir.exists = disk[n].dir.exists
      /\ disk'[n].dir.compacted = disk[n].dir.compacted
      /\ disk'[n].dir.fence = disk[n].dir.fence
  BY DEF JobStepped, JobFrame, LedgerOnly
<1>2. \/ run'[n] = run[n]
      \/ /\ run'[n].open = run[n].open /\ run'[n].highest = run[n].highest
         /\ run'[n].position = run[n].position
         /\ run'[n].failure = run[n].failure \/ run'[n].failure = TRUE
  BY DEF JobStepped, RunNote
<1>3. CallsAreKnown(n)'
  BY <1>1 DEF CalmNode, CallsAreKnown, Waiting
<1>4. Covered(disk[n].dir, acted[n].attempts)'
  BY <1>1 DEF CalmNode, Covered, OnFence, HighestIn, PayloadOf, NewestSlot, Readable
<1>5. GoneIsForgotten(n)'
  BY <1>1 DEF CalmNode, GoneIsForgotten, Waiting
<1>6. RunTracks(n)'
  BY <1>1, <1>2 DEF CalmNode, RunTracks, OnFence, PositionIn, HighestIn, PositionOf, PayloadOf,
     NewestSlot
<1> QED
  BY <1>3, <1>4, <1>5, <1>6 DEF CalmNode

(* A call that is over leaves an idle node calm.                            *)
LEMMA CallOverCalm ==
    ASSUME NEW n, CalmNode(n), kept' = kept, disk'[n] = disk[n], run'[n] = run[n],
           sync'[n] = sync[n], acted'[n] = acted[n], late'[n] = late[n],
           calls[n].state # "inside", calls'[n] = NoCall
    PROVE  CalmNode(n)'
<1>1. sync[n] = NoSync /\ ~Waiting(calls'[n])
  BY DEF CalmNode, CallsAreKnown, Waiting, NoCall
<1>2. CallsAreKnown(n)'
  BY <1>1 DEF CalmNode, CallsAreKnown, NoSync, Waiting
<1>3. Covered(disk[n].dir, acted[n].attempts)'
  BY DEF CalmNode, Covered, OnFence, HighestIn, PayloadOf, NewestSlot, Readable
<1>4. GoneIsForgotten(n)'
  BY <1>1 DEF CalmNode, GoneIsForgotten, Waiting
<1>5. RunTracks(n)'
  BY DEF CalmNode, RunTracks, OnFence, PositionIn, HighestIn, PositionOf, PayloadOf, NewestSlot
<1> QED
  BY <1>2, <1>3, <1>4, <1>5 DEF CalmNode

(* A request of the moment knows the array as long as the cluster lists it. *)
LEMMA SendSyncCalm ==
    ASSUME Domains, NEW n \in Nodes, CalmNode(n), SendSync(n)
    PROVE  CalmNode(n)'
<1>1. /\ kept' = kept /\ late' = late /\ disk' = disk /\ run' = run /\ sync' = sync
      /\ acted' = acted /\ calls[n] = NoCall
      /\ calls' = [calls EXCEPT ![n] = Call("sent", RequestFor(n), NoAnswer)]
  BY DEF SendSync, replicated, nodes, history
<1>2. calls'[n].state = "sent" /\ calls'[n].request = RequestFor(n)
  BY <1>1 DEF Domains, Call
<1>3. RequestFor(n).known = kept /\ (RequestFor(n).listed => kept)
  BY DEF RequestFor
<1>4. sync[n] = NoSync
  BY <1>1 DEF CalmNode, CallsAreKnown, NoCall
<1>5. CallsAreKnown(n)'
  BY <1>1, <1>2, <1>3, <1>4 DEF CalmNode, CallsAreKnown, NoSync, Waiting
<1>6. Covered(disk[n].dir, acted[n].attempts)'
  BY <1>1 DEF CalmNode, Covered, OnFence, HighestIn, PayloadOf, NewestSlot, Readable
<1>7. GoneIsForgotten(n)'
  BY <1>1, <1>2, <1>3 DEF CalmNode, GoneIsForgotten, Waiting
<1>8. RunTracks(n)'
  BY <1>1 DEF CalmNode, RunTracks, OnFence, PositionIn, HighestIn, PositionOf, PayloadOf,
     NewestSlot
<1> QED
  BY <1>5, <1>6, <1>7, <1>8 DEF CalmNode

(* A request that arrives is handled for the caller that waits for it.      *)
LEMMA ReceiveCalm ==
    ASSUME Domains, NEW n \in Nodes, CalmNode(n), Receive(n)
    PROVE  CalmNode(n)'
<1>1. /\ kept' = kept /\ late' = late /\ disk' = disk /\ run' = run /\ acted' = acted
      /\ calls[n].state = "sent"
      /\ calls' = [calls EXCEPT ![n] = Call("inside", calls[n].request, NoAnswer)]
      /\ sync' = [sync EXCEPT ![n] = [at |-> "control", request |-> calls[n].request,
                                      live |-> TRUE, dropped |-> FALSE]]
  BY DEF Receive, Begin, replicated, history
<1>2. calls'[n].state = "inside" /\ calls'[n].request = calls[n].request
  BY <1>1 DEF Domains, Call
<1>3. /\ sync'[n].at = "control" /\ sync'[n].request = calls[n].request
      /\ sync'[n].live = TRUE /\ sync'[n].dropped = FALSE
  BY <1>1 DEF Domains
<1>4. CallsAreKnown(n)'
  BY <1>1, <1>2, <1>3 DEF CalmNode, CallsAreKnown, Waiting
<1>5. Covered(disk[n].dir, acted[n].attempts)'
  BY <1>1 DEF CalmNode, Covered, OnFence, HighestIn, PayloadOf, NewestSlot, Readable
<1>6. GoneIsForgotten(n)'
  BY <1>1, <1>2 DEF CalmNode, GoneIsForgotten, Waiting
<1>7. sync[n] = NoSync
  BY <1>1 DEF CalmNode, CallsAreKnown
<1>8. RunTracks(n)'
  <2>1. sync[n].at = "none"
    BY <1>7 DEF NoSync
  <2>2. /\ run[n].open /\ ~run[n].failure =>
              /\ run[n].position = PositionIn(disk[n].dir.fence)
              /\ run[n].highest = HighestIn(disk[n].dir.fence)
    BY <2>1 DEF CalmNode, RunTracks
  <2> QED
    BY <1>1, <1>3, <2>2 DEF RunTracks, PositionIn, HighestIn, PositionOf, PayloadOf, NewestSlot
<1> QED
  BY <1>4, <1>5, <1>6, <1>8 DEF CalmNode

(* What a step of one node other than a give-up leaves of the counters.     *)
StillCalm == Counted' /\ (Calm' => Calm)

(* A step that counts no given up call and elects nobody.                   *)
LEMMA StillCalmBy ==
    ASSUME Counted, term' = term, epoch' = epoch,
           \/ faults' = faults
           \/ \E k \in {"cancels", "errors", "crashes", "lost"} : Count1(k)
    PROVE  StillCalm
<1>1. "timeouts" \in DOMAIN faults' /\ faults'.timeouts = faults.timeouts
  <2>1. CASE faults' = faults
    BY <2>1 DEF Counted
  <2>2. ASSUME NEW k \in {"cancels", "errors", "crashes", "lost"}, Count1(k)
        PROVE  "timeouts" \in DOMAIN faults' /\ faults'.timeouts = faults.timeouts
    <3>1. faults' = [faults EXCEPT ![k] = faults[k] + 1] /\ k # "timeouts"
      BY <2>2 DEF Count1
    <3> QED
      BY <3>1 DEF Counted
  <2> QED
    BY <2>1, <2>2
<1> QED
  BY <1>1 DEF StillCalm, Counted, Calm

(* A step of a node that leaves it calm, and the rest as it is.             *)
LEMMA CalmStep ==
    ASSUME CalmInv, StillCalm, NEW n \in Nodes, Others(n), kept' = kept,
           CalmNode(n) => CalmNode(n)'
    PROVE  CalmInv'
<1>1. SUFFICES ASSUME Calm', NEW m \in Nodes
               PROVE  CalmNode(m)'
  BY DEF CalmInv, StillCalm
<1>2. CalmNode(m) /\ CalmNode(n)
  BY <1>1 DEF CalmInv, StillCalm
<1>3. CASE m = n
  BY <1>2, <1>3
<1>4. CASE m # n
  BY <1>1, <1>2, <1>4, CalmFrame DEF Others
<1> QED
  BY <1>3, <1>4

(* A step of the store or the council leaves every node calm.               *)
LEMMA CalmQuiet ==
    ASSUME CalmInv, StillCalm, kept' => kept, disk' = disk, run' = run, sync' = sync,
           acted' = acted, calls' = calls, late' = late
    PROVE  CalmInv'
<1>1. SUFFICES ASSUME Calm', NEW m \in Nodes
               PROVE  CalmNode(m)'
  BY DEF CalmInv, StillCalm
<1>2. CalmNode(m)
  BY <1>1 DEF CalmInv, StillCalm
<1>3. /\ disk'[m].dir = disk[m].dir /\ run'[m] = run[m] /\ sync'[m] = sync[m]
      /\ acted'[m] = acted[m] /\ calls'[m] = calls[m] /\ late'[m] = late[m]
  OBVIOUS
<1> QED
  BY <1>2, <1>3, CalmFrame

(* Writes, commits, requests to the council and pruning.                    *)
LEMMA StoreStepsCalm ==
    ASSUME CalmInv,
           \/ ApplyWrite \/ Commit \/ Cancel \/ Prune
           \/ \E n \in setting.members : AcknowledgeReplay(n)
    PROVE  CalmInv'
<1>1. /\ (kept' => kept) /\ disk' = disk /\ run' = run /\ sync' = sync
      /\ acted' = acted /\ calls' = calls /\ late' = late /\ term' = term /\ epoch' = epoch
      /\ faults' = faults \/ Count1("cancels")
  <2>1. CASE ApplyWrite
    BY <2>1 DEF ApplyWrite, leader, nodes, history
  <2>2. CASE Commit
    BY <2>2 DEF Commit, nodes, history
  <2>3. CASE Cancel
    BY <2>3 DEF Cancel, replicated, nodes
  <2>4. CASE Prune
    BY <2>4 DEF Prune, leader, nodes, history
  <2>5. CASE \E n \in setting.members : AcknowledgeReplay(n)
    BY <2>5 DEF AcknowledgeReplay, replicated, nodes, history
  <2> QED
    BY <2>1, <2>2, <2>3, <2>4, <2>5
<1>2. StillCalm
  BY <1>1, StillCalmBy DEF CalmInv
<1> QED
  BY <1>1, <1>2, CalmQuiet

(* Calls that are sent, fail, or arrive after they were given up.           *)
LEMMA CallStepsCalm ==
    ASSUME CalmInv, Domains, NEW n \in Nodes, SendSync(n) \/ CallFails(n) \/ LoseLate(n)
    PROVE  CalmInv'
<1>1. /\ kept' = kept /\ disk' = disk /\ run' = run /\ sync' = sync /\ jobs' = jobs
      /\ acted' = acted /\ term' = term /\ epoch' = epoch /\ faults' = faults
  <2>1. CASE SendSync(n)
    BY <2>1 DEF SendSync, replicated, nodes, history
  <2>2. CASE CallFails(n)
    BY <2>2 DEF CallFails, replicated, nodes, history
  <2>3. CASE LoseLate(n)
    BY <2>3 DEF LoseLate, replicated, nodes, history
  <2> QED
    BY <2>1, <2>2, <2>3
<1>2. StillCalm
  BY <1>1, StillCalmBy DEF CalmInv
<1>3. Others(n)
  <2>1. CASE SendSync(n)
    BY <1>1, <2>1 DEF SendSync, Others, Domains
  <2>2. CASE CallFails(n)
    BY <1>1, <2>2 DEF CallFails, Others, Domains
  <2>3. CASE LoseLate(n)
    BY <1>1, <2>3 DEF LoseLate, Others, Domains
  <2> QED
    BY <2>1, <2>2, <2>3
<1>4. ASSUME CalmNode(n)
      PROVE  CalmNode(n)'
  <2>1. CASE SendSync(n)
    BY <1>4, <2>1, SendSyncCalm
  <2>2. CASE CallFails(n)
    <3>1. calls[n].state = "sent" /\ late' = late /\ calls' = [calls EXCEPT ![n] = NoCall]
      BY <2>2 DEF CallFails
    <3> QED
      BY <1>1, <1>4, <3>1, CallOverCalm DEF Domains
  <2>3. CASE LoseLate(n)
    BY <1>4, <2>3 DEF LoseLate, CalmNode, CallsAreKnown
  <2> QED
    BY <2>1, <2>2, <2>3
<1> QED
  BY <1>1, <1>2, <1>3, <1>4, CalmStep

(* A tick takes in the answers: nobody waits for those calls any more.      *)
LEMMA TickCalm ==
    ASSUME CalmInv, Domains, NEW silent, NEW failing, Tick(silent, failing)
    PROVE  CalmInv'
<1> DEFINE heard == {n \in Nodes : calls[n].state = "answered"}
<1>1. /\ kept' = kept /\ epoch' = epoch /\ term' = term /\ late' = late
      /\ disk' = disk /\ run' = run /\ sync' = sync /\ acted' = acted
  BY DEF Tick, replicated, nodes
<1>2. /\ calls' = [n \in Nodes |-> IF n \in heard THEN NoCall ELSE calls[n]]
      /\ faults' = [faults EXCEPT !.silences = @ + Cardinality(silent)]
  BY Zenon DEF Tick
<1>3. StillCalm
  <2>1. "timeouts" \in DOMAIN faults' /\ faults'.timeouts = faults.timeouts
    BY <1>2 DEF CalmInv, Counted
  <2> QED
    BY <1>1, <2>1 DEF CalmInv, Counted, StillCalm, Calm
<1>4. SUFFICES ASSUME Calm', NEW m \in Nodes
               PROVE  CalmNode(m)'
  BY <1>3 DEF CalmInv, StillCalm
<1>5. CalmNode(m)
  BY <1>3, <1>4 DEF CalmInv, StillCalm
<1>6. CASE calls[m].state = "answered"
  <2>1. calls'[m] = NoCall
    BY <1>2, <1>6
  <2> QED
    BY <1>1, <1>5, <1>6, <2>1, CallOverCalm
<1>7. CASE calls[m].state # "answered"
  <2>1. calls'[m] = calls[m]
    BY <1>2, <1>7
  <2> QED
    BY <1>1, <1>5, <2>1, CalmFrame
<1> QED
  BY <1>6, <1>7

(* A call given up, an election or a recovery ends the calm.                *)
LEMMA CalmIsOver ==
    ASSUME Inv, CalmInv, NEW n, TimeOut(n) \/ LeaderChange \/ Recover
    PROVE  CalmInv'
<1>1. CASE TimeOut(n)
  <2>1. faults' = [faults EXCEPT !["timeouts"] = faults["timeouts"] + 1] /\ term' = term
    BY <1>1 DEF TimeOut, Count1
  <2>2. "timeouts" \in DOMAIN faults' /\ faults'.timeouts = faults.timeouts + 1
    BY <2>1 DEF CalmInv, Counted
  <2> QED
    BY <2>1, <2>2 DEF CalmInv, Counted, Calm
<1>2. CASE LeaderChange
  <2>1. faults' = faults /\ term' = term + 1 /\ term \in Nat
    BY <1>2, LeaderTypes DEF LeaderChange, history
  <2> QED
    BY <2>1 DEF CalmInv, Counted, Calm
<1>3. CASE Recover
  <2>1. faults' = faults /\ term' = 1 /\ epoch' = epoch + 1 /\ epoch \in Nat
    BY <1>3, LeaderTypes DEF Recover
  <2> QED
    BY <2>1 DEF CalmInv, Counted, Calm
<1> QED
  BY <1>1, <1>2, <1>3

(* A node that handles a request stays calm.                                *)
LEMMA SyncStepsCalm ==
    ASSUME Inv, CalmInv, NEW n \in setting.members,
           \/ Receive(n) \/ ReceiveLate(n) \/ ControlChecked(n) \/ CleanupDone(n)
           \/ RunOpened(n) \/ FenceWritten(n) \/ MarkerClaimed(n)
           \/ DiskError(n) \/ DropSync(n) \/ OrphanEnds(n)
    PROVE  CalmInv'
<1>1. Domains /\ n \in Nodes /\ NodeInv(n)
  BY LeaderTypes DEF Inv, Domains
<1>2. NodeKept(n)
  BY <1>1, ReceiveKeeps, ReceiveLateKeeps, ControlCheckedKeeps, CleanupDoneKeeps,
     RunOpenedKeeps, FenceWrittenKeeps, MarkerClaimedKeeps, DiskErrorKeeps, DropSyncKeeps,
     OrphanEndsKeeps
<1>3. /\ kept' = kept /\ term' = term /\ epoch' = epoch
      /\ faults' = faults \/ Count1("errors")
  <2>1. CASE Receive(n) \/ ReceiveLate(n)
    BY <2>1 DEF Receive, ReceiveLate, Begin, replicated, history
  <2>2. CASE ControlChecked(n) \/ CleanupDone(n)
    BY <2>2 DEF ControlChecked, CleanupDone, Rest, replicated, history
  <2>3. CASE RunOpened(n) \/ FenceWritten(n)
    BY <2>3 DEF RunOpened, FenceWritten, Rest, replicated
  <2>4. CASE MarkerClaimed(n) \/ DiskError(n)
    BY <2>4 DEF MarkerClaimed, DiskError, Rest, replicated
  <2>5. CASE DropSync(n) \/ OrphanEnds(n)
    BY <2>5 DEF DropSync, OrphanEnds, leader, replicated, history
  <2> QED
    BY <2>1, <2>2, <2>3, <2>4, <2>5
<1>4. StillCalm
  BY <1>3, StillCalmBy DEF CalmInv
<1>5. ASSUME CalmNode(n)
      PROVE  CalmNode(n)'
  <2>1. CASE ReceiveLate(n) \/ DropSync(n) \/ OrphanEnds(n)
    BY <1>5, <2>1 DEF ReceiveLate, DropSync, OrphanEnds, CalmNode, CallsAreKnown
  <2>2. CASE ~(ReceiveLate(n) \/ DropSync(n) \/ OrphanEnds(n))
    BY <1>1, <1>5, <2>2, ReceiveCalm, ControlCheckedCalm, CleanupDoneCalm, RunOpenedCalm,
       FenceWrittenCalm, MarkerClaimedCalm, DiskErrorCalm
  <2> QED
    BY <2>1, <2>2
<1>6. Others(n)
  BY <1>2 DEF NodeKept
<1> QED
  BY <1>1, <1>3, <1>4, <1>5, <1>6, CalmStep

(* So does one whose chunks run.                                            *)
LEMMA JobStepsCalm ==
    ASSUME Inv, CalmInv, NEW n \in setting.members, NEW j \in jobs[n], NEW t, NEW o,
           \/ LaunchTask(n, j, t) \/ EndTask(n, j, t, o) \/ LoseTask(n, j, t)
           \/ AppendFails(n, j, t) \/ FinishChunk(n, j)
    PROVE  CalmInv'
<1>1. Domains /\ n \in Nodes /\ NodeInv(n)
  BY LeaderTypes DEF Inv, Domains
<1>2. NodeKept(n) /\ JobStepped(n)
  BY <1>1, LaunchTaskKeeps, EndTaskKeeps, LoseTaskKeeps, AppendFailsKeeps, FinishChunkKeeps
<1>3. /\ kept' = kept /\ term' = term /\ epoch' = epoch
      /\ faults' = faults \/ Count1("lost") \/ Count1("errors")
  <2>1. CASE LaunchTask(n, j, t) \/ EndTask(n, j, t, o)
    BY <2>1 DEF LaunchTask, EndTask, leader, replicated, history
  <2>2. CASE LoseTask(n, j, t) \/ AppendFails(n, j, t)
    BY <2>2 DEF LoseTask, AppendFails, leader, replicated
  <2>3. CASE FinishChunk(n, j)
    BY <2>3 DEF FinishChunk, leader, replicated, history
  <2> QED
    BY <2>1, <2>2, <2>3
<1>4. StillCalm
  BY <1>3, StillCalmBy DEF CalmInv
<1>5. CalmNode(n) => CalmNode(n)'
  BY <1>2, <1>3, JobCalm
<1>6. Others(n)
  BY <1>2 DEF NodeKept
<1> QED
  BY <1>1, <1>3, <1>4, <1>5, <1>6, CalmStep

(* And one that crashes and comes back.                                     *)
LEMMA CrashStepsCalm ==
    ASSUME Inv, CalmInv, NEW n \in setting.members, Crash(n) \/ Restart(n)
    PROVE  CalmInv'
<1>1. Domains /\ n \in Nodes /\ NodeInv(n)
  BY LeaderTypes DEF Inv, Domains
<1>2. CASE Crash(n)
  <2>1. kept' = kept /\ term' = term /\ epoch' = epoch /\ Count1("crashes")
    BY <1>2 DEF Crash, replicated
  <2>2. StillCalm
    BY <2>1, StillCalmBy DEF CalmInv
  <2>3. Others(n)
    BY <1>1, <1>2, CrashKeeps DEF NodeKept
  <2> QED
    BY <1>1, <1>2, <2>1, <2>2, <2>3, CrashCalm, CalmStep
<1>3. CASE Restart(n)
  <2>1. /\ kept' = kept /\ disk' = disk /\ run' = run /\ sync' = sync /\ acted' = acted
        /\ calls' = calls /\ late' = late /\ term' = term /\ epoch' = epoch /\ faults' = faults
    BY <1>3 DEF Restart, replicated, leader, history
  <2> QED
    BY <2>1, StillCalmBy, CalmQuiet DEF CalmInv
<1> QED
  BY <1>2, <1>3

(* Every step keeps a calm system calm, or ends the calm.                   *)
LEMMA NextCalm ==
    ASSUME Inv, CalmInv, [Next]_vars
    PROVE  CalmInv'
<1>0. Domains /\ setting.members \subseteq Nodes
  BY LeaderTypes DEF Domains
<1>1. CASE Next
  <2>1. CASE \/ ApplyWrite \/ Commit \/ Cancel \/ Prune
             \/ \E n \in setting.members : AcknowledgeReplay(n)
    BY <2>1, StoreStepsCalm
  <2>2. CASE \E n \in setting.members : SendSync(n) \/ CallFails(n) \/ LoseLate(n)
    BY <1>0, <2>2, CallStepsCalm
  <2>3. CASE \E silent, failing \in SUBSET setting.members : Tick(silent, failing)
    BY <1>0, <2>3, TickCalm
  <2>4. CASE LeaderChange \/ Recover \/ \E n \in setting.members : TimeOut(n)
    BY <2>4, CalmIsOver
  <2>5. CASE \E n \in setting.members :
               \/ Receive(n) \/ ReceiveLate(n) \/ ControlChecked(n) \/ CleanupDone(n)
               \/ RunOpened(n) \/ FenceWritten(n) \/ MarkerClaimed(n)
               \/ DiskError(n) \/ DropSync(n) \/ OrphanEnds(n)
    BY <2>5, SyncStepsCalm
  <2>6. CASE \E n \in setting.members : \E j \in jobs[n] :
               \/ \E t \in DOMAIN j.tasks : LaunchTask(n, j, t)
               \/ \E t \in DOMAIN j.tasks : \E o \in Ended : EndTask(n, j, t, o)
               \/ \E t \in DOMAIN j.tasks : LoseTask(n, j, t)
               \/ \E t \in DOMAIN j.tasks : AppendFails(n, j, t)
               \/ FinishChunk(n, j)
    BY <2>6, JobStepsCalm
  <2>7. CASE \E n \in setting.members : Crash(n) \/ Restart(n)
    BY <2>7, CrashStepsCalm
  <2> QED
    BY <1>1, <2>1, <2>2, <2>3, <2>4, <2>5, <2>6, <2>7, Zenon DEF Next
<1>2. CASE UNCHANGED vars
  <2>1. /\ kept' = kept /\ disk' = disk /\ run' = run /\ sync' = sync /\ acted' = acted
        /\ calls' = calls /\ late' = late /\ term' = term /\ epoch' = epoch /\ faults' = faults
    BY <1>2 DEF vars, replicated, leader, nodes, history
  <2> QED
    BY <2>1, StillCalmBy, CalmQuiet DEF CalmInv
<1> QED
  BY <1>1, <1>2

(* The system starts calm.                                                  *)
LEMMA InitCalm ==
    ASSUME Init
    PROVE  CalmInv
<1>1. Counted
  BY DEF Init, Counted
<1>2. ASSUME NEW n \in Nodes
      PROVE  CalmNode(n)
  <2> DEFINE d == FreshDisk.dir
  <2>1. /\ disk[n].dir = d /\ run[n] = NoRun /\ sync[n] = NoSync /\ calls[n] = NoCall
        /\ late[n] = {} /\ acted[n].attempts = NoGrants
    BY DEF Init
  <2>2. d.exists = FALSE /\ d.fence = NoFile
    BY DEF FreshDisk, EmptyDirectory
  <2> HIDE DEF d
  <2>3. run[n].open = FALSE /\ sync[n].at = "none" /\ calls[n].state = "none"
    BY <2>1 DEF NoRun, NoSync, NoCall
  <2>4. CallsAreKnown(n) /\ GoneIsForgotten(n)
    BY <2>1, <2>3 DEF CallsAreKnown, GoneIsForgotten, Waiting
  <2>5. Covered(disk[n].dir, acted[n].attempts)
    BY <2>1, <2>2 DEF Covered
  <2>6. RunTracks(n)
    BY <2>3 DEF RunTracks
  <2> QED
    BY <2>4, <2>5, <2>6 DEF CalmNode
<1> QED
  BY <1>1, <1>2 DEF CalmInv

(* As long as no call has been given up, no leader replaced and no council  *)
(* recovered, the grant fence on a node's disk covers every attempt the     *)
(* node started, for every cluster, array and number of crashes and disk    *)
(* errors: reconcile writes the fence before it starts a chunk, a torn      *)
(* write leaves the slot before it readable, and a run whose write failed   *)
(* starts nothing again.                                                    *)
THEOREM StartedIsFenced == Spec => []GrantsAreFenced
<1>1. Init => CalmInv
  BY InitCalm
<1>2. Inv /\ CalmInv /\ [Next]_vars => CalmInv'
  BY NextCalm
<1>3. Inv /\ CalmInv => GrantsAreFenced
  <2>1. SUFFICES ASSUME Inv, CalmInv, Calm, NEW n \in Nodes, NEW c \in Chunks,
                        disk[n].dir.exists, ~disk[n].dir.compacted, acted[n].attempts[c] > 0
                 PROVE  /\ disk[n].dir.fence # NoFile
                        /\ Readable(disk[n].dir.fence)
                        /\ PayloadOf(disk[n].dir.fence)[c] >= acted[n].attempts[c]
    BY DEF GrantsAreFenced, FenceCovers, Calm
  <2> DEFINE f == disk[n].dir.fence
  <2>2. Covered(disk[n].dir, acted[n].attempts) /\ NodeShape(n)
    BY <2>1 DEF CalmInv, CalmNode, Inv, NodeInv
  <2>3. (f = NoFile \/ Readable(f)) /\ acted[n].attempts[c] <= HighestIn(f)[c]
    BY <2>1, <2>2 DEF Covered, OnFence
  <2>4. acted[n].attempts[c] \in Nat
    BY <2>2 DEF NodeShape, Attempts
  <2>5. f # NoFile
    <3>1. SUFFICES ASSUME f = NoFile PROVE FALSE
      OBVIOUS
    <3>2. HighestIn(f)[c] = 0
      BY <3>1 DEF HighestIn, NoGrants
    <3> QED
      BY <2>1, <2>3, <2>4, <3>2
  <2>6. PayloadOf(f)[c] >= acted[n].attempts[c]
    <3>1. HighestIn(f) = PayloadOf(f) /\ HighestIn(f) \in Attempts
      BY <2>2, <2>3, <2>5, HighestShape DEF HighestIn, NodeShape, DiskShape
    <3> QED
      BY <2>3, <2>4, <3>1 DEF Attempts
  <2> QED
    BY <2>3, <2>5, <2>6
<1> QED
  BY <1>1, <1>2, <1>3, Invariant, PTL DEF Spec

=============================================================================
