--------------------------- MODULE TaskArrayState ---------------------------
(***************************************************************************)
(* The replicated progress of one task array: src/meat/task_array_state.rs. *)
(* The array's tasks are cut into chunks.  A chunk is queued, held by one    *)
(* node at a grant attempt, or done.  The operations are functions from the  *)
(* state to the next state; a refused one returns the state it was given.    *)
(*                                                                         *)
(* The Rust state keeps an attempt only once it is above 1 and an accepted   *)
(* grant only for chunks that have one: here an attempt of 1, and an         *)
(* accepted attempt of 0, stand for the missing entry.  Retry causes,        *)
(* duration counts and the preview of failed indices are left out.           *)
(***************************************************************************)
EXTENDS Integers, FiniteSets

CONSTANTS
    Nodes,              \* the nodes that may hold chunks
    NoOwner,            \* the owner of an accepted grant that was folded away
    Count,              \* spec.count: the tasks of the array
    ChunkSize,          \* spec.chunk_size
    MaxFailed,          \* spec.max_failed_indexes (Count when there is none)
    MaxAcceptedRanges   \* MAX_ACCEPTED_RANGES

ASSUME ArrayAssumption ==
    /\ IsFiniteSet(Nodes)
    /\ NoOwner \notin Nodes
    /\ Count \in Nat \ {0}
    /\ ChunkSize \in Nat \ {0}
    /\ MaxFailed \in Nat
    /\ MaxAcceptedRanges \in Nat

-----------------------------------------------------------------------------
(* The specification of the array: its chunks and their tasks.              *)

ChunkCount == (Count + ChunkSize - 1) \div ChunkSize
Chunks == 0 .. ChunkCount - 1
Tasks == 0 .. Count - 1

ChunkRange(c) == {t \in Tasks : c * ChunkSize <= t /\ t < (c + 1) * ChunkSize}

LastChunk == ChunkCount - 1
TasksInChunk(c) == IF c = LastChunk THEN Count - LastChunk * ChunkSize ELSE ChunkSize

(* Mutant of TasksIn: the last chunk counts as a full one. *)
TasksInFullChunks(chunks) == Cardinality(chunks) * ChunkSize

(* Every chunk is full except possibly the last one. *)
TasksIn(chunks) ==
    Cardinality(chunks) * ChunkSize
      - (IF LastChunk \in chunks THEN ChunkSize - TasksInChunk(LastChunk) ELSE 0)

-----------------------------------------------------------------------------
StopReasons == {"no", "cancelled", "failures", "unrunnable"}

AcceptedGrant == [owner: Nodes \cup {NoOwner}, attempt: Nat]
NotAccepted == [owner |-> NoOwner, attempt |-> 0]

ChunkResult ==
    [chunk: Chunks, attempt: Nat, succeeded: Nat, failed: Nat, not_run: Nat]

ArrayState ==
    [queued: SUBSET Chunks, grants: [Nodes -> SUBSET Chunks],
     attempts: [Chunks -> Nat], done: SUBSET Chunks,
     accepted: [Chunks -> AcceptedGrant],
     succeeded: Nat, failed: Nat, not_run: Nat, stopped: StopReasons]

NewArray ==
    [queued |-> Chunks, grants |-> [n \in Nodes |-> {}],
     attempts |-> [c \in Chunks |-> 1], done |-> {},
     accepted |-> [c \in Chunks |-> NotAccepted],
     succeeded |-> 0, failed |-> 0, not_run |-> 0, stopped |-> "no"]

Held(a) == UNION {a.grants[n] : n \in Nodes}

(* What a sync request lists for one node: its chunks and their attempts.   *)
HeldBy(a, n) == [c \in Chunks |-> IF c \in a.grants[n] THEN a.attempts[c] ELSE 0]

Status(a) ==
    LET drained == a.queued = {} /\ Held(a) = {}
    IN  CASE a.stopped # "no" /\ ~drained -> "Stopping"
          [] a.stopped = "cancelled" /\ drained -> "Cancelled"
          [] a.stopped \in {"failures", "unrunnable"} /\ drained -> "Failed"
          [] a.stopped = "no" /\ ~drained -> "Running"
          [] a.stopped = "no" /\ drained ->
                IF a.failed = 0 THEN "Succeeded" ELSE "CompletedWithFailures"

IsTerminal(a) == Status(a) \notin {"Running", "Stopping"}

-----------------------------------------------------------------------------
(* Operations.                                                              *)

(* stop: no more grants, queued chunks count as not run.  The first reason  *)
(* is kept.                                                                 *)
Stop(a, reason) ==
    IF a.stopped # "no" THEN a
    ELSE [queued |-> {}, grants |-> a.grants,
          attempts |-> [c \in Chunks |-> IF c \in a.queued THEN 1 ELSE a.attempts[c]],
          done |-> a.done \cup a.queued, accepted |-> a.accepted,
          succeeded |-> a.succeeded, failed |-> a.failed,
          not_run |-> a.not_run + TasksIn(a.queued), stopped |-> reason]

(* grant: every chunk must be queued; nothing moves unless all of them are. *)
Grant(a, n, chunks) ==
    IF a.stopped # "no" \/ ~(chunks \subseteq a.queued) THEN a
    ELSE [queued |-> a.queued \ chunks,
          grants |-> [a.grants EXCEPT ![n] = a.grants[n] \cup chunks],
          attempts |-> a.attempts, done |-> a.done, accepted |-> a.accepted,
          succeeded |-> a.succeeded, failed |-> a.failed,
          not_run |-> a.not_run, stopped |-> a.stopped]

(* The ranges the accepted record takes, per node and attempt.              *)
RangeStarts(acc) ==
    {c \in Chunks :
        /\ acc[c].owner # NoOwner
        /\ ~(c - 1 \in Chunks /\ acc[c - 1] = acc[c])}

(* fold_accepted_when_full: past the bound the owners are forgotten, never  *)
(* the attempts.                                                            *)
FoldAccepted(acc) ==
    IF Cardinality(RangeStarts(acc)) <= MaxAcceptedRanges THEN acc
    ELSE [c \in Chunks |-> [owner |-> NoOwner, attempt |-> acc[c].attempt]]

(* Only the node holding the chunk, at its current attempt, may retire it,  *)
(* with a result that accounts for every task of the chunk.                 *)
MayComplete(a, n, r) ==
    /\ r.chunk \notin a.done
    /\ r.chunk \in a.grants[n]
    /\ r.attempt = a.attempts[r.chunk]
    /\ r.succeeded + r.failed + r.not_run = TasksInChunk(r.chunk)

Retire(a, n, r) ==
    [queued |-> a.queued,
     grants |-> [a.grants EXCEPT ![n] = a.grants[n] \ {r.chunk}],
     attempts |-> [a.attempts EXCEPT ![r.chunk] = 1],
     done |-> a.done \cup {r.chunk},
     accepted |-> FoldAccepted([a.accepted EXCEPT ![r.chunk] =
                                   [owner |-> n, attempt |-> r.attempt]]),
     succeeded |-> a.succeeded + r.succeeded, failed |-> a.failed + r.failed,
     not_run |-> a.not_run + r.not_run, stopped |-> a.stopped]

Complete(a, n, r) ==
    IF ~MayComplete(a, n, r) THEN a
    ELSE IF a.failed + r.failed > MaxFailed THEN Stop(Retire(a, n, r), "failures")
    ELSE Retire(a, n, r)

(* requeue_node: a lost node's chunks go back to the queue at the next      *)
(* attempt; in a stopped array they count as not run.                       *)
RequeueNode(a, n) ==
    LET chunks == a.grants[n]
        released == [a.grants EXCEPT ![n] = {}]
    IN  IF a.stopped # "no"
        THEN [queued |-> a.queued, grants |-> released,
              attempts |-> [c \in Chunks |-> IF c \in chunks THEN 1 ELSE a.attempts[c]],
              done |-> a.done \cup chunks, accepted |-> a.accepted,
              succeeded |-> a.succeeded, failed |-> a.failed,
              not_run |-> a.not_run + TasksIn(chunks), stopped |-> a.stopped]
        ELSE [queued |-> a.queued \cup chunks, grants |-> released,
              attempts |-> [c \in Chunks |-> IF c \in chunks THEN a.attempts[c] + 1
                                                             ELSE a.attempts[c]],
              done |-> a.done, accepted |-> a.accepted,
              succeeded |-> a.succeeded, failed |-> a.failed,
              not_run |-> a.not_run, stopped |-> a.stopped]

-----------------------------------------------------------------------------
(* What validate_snapshot refuses a reopened state for.                     *)

Partitioned(a) ==
    /\ a.queued \cup Held(a) \cup a.done = Chunks
    /\ a.queued \cap Held(a) = {}
    /\ a.queued \cap a.done = {}
    /\ Held(a) \cap a.done = {}
    /\ \A n, m \in Nodes : n # m => a.grants[n] \cap a.grants[m] = {}

AttemptsAreOpen(a) ==
    \A c \in Chunks : a.attempts[c] >= 1 /\ (c \in a.done => a.attempts[c] = 1)

AcceptedAreDone(a) ==
    \A c \in Chunks : a.accepted[c].attempt > 0 => c \in a.done

CountersAgree(a) == a.succeeded + a.failed + a.not_run = TasksIn(a.done)

StoppedIsDrained(a) == a.stopped # "no" => a.queued = {}

ValidSnapshot(a) ==
    /\ Partitioned(a)
    /\ AttemptsAreOpen(a)
    /\ AcceptedAreDone(a)
    /\ CountersAgree(a)
    /\ StoppedIsDrained(a)

=============================================================================
