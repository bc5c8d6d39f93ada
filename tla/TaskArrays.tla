----------------------------- MODULE TaskArrays -----------------------------
(***************************************************************************)
(* One task array from the leader's grants to the nodes' ledgers:           *)
(*   src/meat/task_array_store.rs   the replicated writes and their apply    *)
(*   src/bun/task_array_leader.rs   the leader's tick and sync calls         *)
(*   src/bun/task_array_node.rs     a node's sync, its fences and its chunks *)
(*   src/bun/task_executor.rs       the tasks of one chunk                   *)
(*                                                                         *)
(* The leader calls every node with the chunks it holds, plans one log       *)
(* entry from the answers and proposes it.  A node checks the request's      *)
(* control version against a durable fence, records the attempts it accepts  *)
(* in its grant fence, runs the chunks and writes each outcome to its        *)
(* ledger before it reports.  Every disk operation of a sync is an await:    *)
(* the node may crash there, and the handler may be dropped there when the   *)
(* leader gives up, while the disk work itself goes on (SyncClaim).          *)
(*                                                                         *)
(* Raft (openraft) is external: proposed entries apply in order, and those   *)
(* of a deposed leader either apply before its successor reads or are lost.  *)
(* Times are nondeterministic choices.  Slots, quotas and the learned grant  *)
(* depth are abstracted to depth; retries of one task inside the executor    *)
(* are part of its run.                                                      *)
(***************************************************************************)
EXTENDS TaskArrayState, FenceFile, SequencesExt

CONSTANT
    Settings    \* the settings a behaviour may have: see Setting

(* What is fixed for a behaviour: the nodes of the cluster, the array's      *)
(* policy, the chunks a node may hold (grant_depth) and the bounds.          *)
Setting ==
    [members: SUBSET Nodes,     \* the nodes the leader knows
     unable: SUBSET Nodes,      \* nodes whose own configuration refuses the array
     replayable: BOOLEAN,       \* replay_unknown: lost work may run again unasked
     depth: Nat \ {0},          \* the chunks a node may hold
     attempts: Nat \ {0},       \* bound: the attempts of a chunk
     log: Nat \ {0},            \* bound: entries proposed and not yet applied
     terms: Nat, epochs: Nat,   \* bounds: elections and forced recoveries
     crashes: Nat, errors: Nat, \* bounds: node crashes, failed disk operations
     timeouts: Nat,             \* bound: calls to a live node the leader gives up on
     silences: Nat,             \* bound: holders declared silent
     lost: Nat,                 \* bound: tasks whose outcome stays unknown
     cancels: Nat]              \* bound: cancel requests

ASSUME SettingsAssumption == Settings \subseteq Setting

VARIABLES
    array,      \* the replicated state of the array
    unknown,    \* unknown_owners: holders whose work needs an acknowledged replay
    outcome,    \* the run's recorded outcome: its terminal status, or "none"
    kept,       \* whether the cluster still lists the array
    index,      \* last_applied_log
    term,       \* the leader's term
    epoch,      \* recovery_epoch of the council
    log,        \* proposed entries not applied yet
    applying,   \* the writes left of the entry being applied
    calls,      \* the leader's outstanding sync call to each node
    late,       \* requests of abandoned calls that may still arrive
    up,         \* the running nodes
    disk,       \* what each node has on disk
    run,        \* the ArrayRun each process holds in memory
    jobs,       \* the chunks each process is executing
    sync,       \* the sync each node is handling
    launches,   \* history: how often this council's grants started each task
    acted,      \* history: the request a node last acted on, and the attempts it started
    faults,     \* the bounded faults so far
    setting     \* the setting of this behaviour, which never changes

replicated == <<array, unknown, outcome, kept, index, epoch, applying>>
leader == <<term, log, calls, late>>
nodes == <<up, disk, run, jobs, sync>>
history == <<launches, acted, faults, setting>>
vars == <<replicated, leader, nodes, history>>

-----------------------------------------------------------------------------
(* Data.                                                                    *)

Version == [epoch: Nat, term: Nat, index: Nat]

Request ==
    [version: Version, known: BOOLEAN, listed: BOOLEAN, stopping: BOOLEAN,
     held: [Chunks -> Nat]]

Answer(kind, finished) == [kind |-> kind, finished |-> finished]

NoCall == [state |-> "none"]
Call(state, request, answer) ==
    [state |-> state, request |-> request, answer |-> answer]
NoAnswer == Answer("absent", {})

NoRecord == [attempt |-> 0, outcome |-> "none"]
NoGrants == [c \in Chunks |-> 0]

EmptyDirectory ==
    [exists |-> FALSE, epoch |-> 0, compacted |-> FALSE, fence |-> NoFile, markers |-> {},
     ledger |-> [t \in Tasks |-> <<>>]]
FreshDisk ==
    [control |-> [epoch |-> 0, term |-> 0, index |-> 0], barred |-> FALSE,
     dir |-> EmptyDirectory]

NoRun == [open |-> FALSE]
NoSync == [at |-> "none"]

Bounded(kind) == faults[kind] < setting[kind]
Count1(kind) == faults' = [faults EXCEPT ![kind] = @ + 1]

-----------------------------------------------------------------------------
(* The replicated store: each write of an applied entry.                    *)

Requeues(n) == [op |-> "requeue", node |-> n]
Unknowns(n) == [op |-> "unknown", node |-> n]
Completes(n, r) == [op |-> "complete", node |-> n, result |-> r]
GrantsTo(n, cs) == [op |-> "grant", node |-> n, chunks |-> cs]
Replays(n, held) == [op |-> "replay", node |-> n, held |-> held]
Stops(reason) == [op |-> "stop", reason |-> reason]

(* The acknowledgement must name the grants the owner holds now. *)
ReplayAllowed(w) ==
    /\ w.node \in unknown
    /\ array.grants[w.node] # {}
    /\ HeldBy(array, w.node) = w.held

AppliedTo(a, w) ==
    CASE w.op = "requeue" -> IF setting.replayable THEN RequeueNode(a, w.node) ELSE a
      [] w.op = "complete" -> Complete(a, w.node, w.result)
      [] w.op = "grant" -> Grant(a, w.node, w.chunks)
      [] w.op = "replay" -> IF ReplayAllowed(w) THEN RequeueNode(a, w.node) ELSE a
      [] w.op = "stop" -> Stop(a, w.reason)
      [] OTHER -> a

(* mark_terminal, which ends every write but Unknown: the first terminal    *)
(* state is the run's recorded outcome, and owners without chunks leave.    *)
ApplyWrite ==
    /\ applying # <<>>
    /\ LET w == Head(applying)
           a == AppliedTo(array, w)
       IN  /\ array' = a
           /\ outcome' = IF w.op # "unknown" /\ outcome = "none" /\ IsTerminal(a)
                         THEN Status(a) ELSE outcome
           /\ unknown' = IF w.op = "unknown"
                         THEN unknown \cup {n \in {w.node} : a.grants[n] # {}}
                         ELSE {n \in unknown : a.grants[n] # {}}
    /\ applying' = Tail(applying)
    /\ UNCHANGED <<kept, index, epoch, leader, nodes, history>>

Commit ==
    /\ applying = <<>>
    /\ log # <<>>
    /\ applying' = Head(log).writes
    /\ log' = Tail(log)
    /\ index' = index + 1
    /\ UNCHANGED <<array, unknown, outcome, kept, epoch, term, calls, late, nodes, history>>

(* is_leader is a linearizable read: a leader acts once every entry of      *)
(* earlier terms has applied or is gone.                                    *)
Leading ==
    /\ applying = <<>>
    /\ \A i \in DOMAIN log : log[i].term = term

Propose(writes) ==
    /\ Len(log) < setting.log
    /\ log' = Append(log, [term |-> term, writes |-> writes])

(* cancel_handler and the operator's acknowledged replay.                   *)
Cancel ==
    /\ Leading /\ kept
    /\ Bounded("cancels") /\ Count1("cancels")
    /\ Propose(<<Stops("cancelled")>>)
    /\ UNCHANGED <<replicated, term, calls, late, nodes, launches, acted, setting>>

AcknowledgeReplay(n) ==
    /\ Leading
    /\ n \in unknown
    /\ \A c \in array.grants[n] : array.attempts[c] < setting.attempts
    /\ \A i \in DOMAIN log : Head(log[i].writes).op # "replay"
    /\ Propose(<<Replays(n, HeldBy(array, n))>>)
    /\ UNCHANGED <<replicated, term, calls, late, nodes, history>>

(* prune_retired_runs: a finished run past retention is forgotten.          *)
Prune ==
    /\ Leading /\ log = <<>>
    /\ kept /\ outcome # "none"
    /\ kept' = FALSE
    /\ index' = index + 1
    /\ UNCHANGED <<array, unknown, outcome, epoch, applying, leader, nodes, history>>

-----------------------------------------------------------------------------
(* The leader.                                                              *)

(* sync_request_for, with the control version of the state it reads. *)
RequestFor(n) ==
    [version |-> [epoch |-> epoch, term |-> term, index |-> index],
     known |-> kept,
     listed |-> kept /\ ~IsTerminal(array),
     stopping |-> array.stopped # "no",
     held |-> HeldBy(array, n)]

(* start_sync, for a tick's own call or its follow-up: a node whose call is *)
(* still out gets none.                                                     *)
SendSync(n) ==
    /\ Leading
    /\ n \in setting.members
    /\ calls[n] = NoCall
    /\ calls' = [calls EXCEPT ![n] = Call("sent", RequestFor(n), NoAnswer)]
    /\ UNCHANGED <<replicated, term, log, late, nodes, history>>

(* The leader stops waiting for the nodes of gone.  A request still on the  *)
(* wire may arrive later (those of arrive do); a handler already running    *)
(* has lost its caller.                                                     *)
Abandon(gone, arrive) ==
    /\ calls' = [n \in Nodes |-> IF n \in gone THEN NoCall ELSE calls[n]]
    /\ late' = [n \in Nodes |->
                  IF n \in gone \cap arrive /\ calls[n].state = "sent"
                  THEN {calls[n].request} ELSE late[n]]
    /\ sync' = [n \in Nodes |->
                  IF n \in gone /\ calls[n].state = "inside"
                  THEN [sync[n] EXCEPT !.live = FALSE] ELSE sync[n]]

(* NODE_SYNC_TIMEOUT, or an answer that never arrives. *)
TimeOut(n) ==
    /\ calls[n] # NoCall
    /\ Bounded("timeouts") /\ Count1("timeouts")
    /\ \E arrive \in SUBSET {n} : Abandon({n}, arrive)
    /\ UNCHANGED <<replicated, term, log, up, disk, run, jobs, launches, acted, setting>>

(* A stopped node refuses the connection; a busy one answers SyncBusy. *)
CallFails(n) ==
    /\ calls[n].state = "sent"
    /\ n \notin up \/ sync[n] # NoSync
    /\ calls' = [calls EXCEPT ![n] = NoCall]
    /\ UNCHANGED <<replicated, term, log, late, nodes, history>>

LoseLate(n) ==
    /\ late[n] # {}
    /\ n \notin up \/ sync[n] # NoSync
    /\ late' = [late EXCEPT ![n] = {}]
    /\ UNCHANGED <<replicated, term, log, calls, nodes, history>>

(* The results worth proposing: as complete() would accept them. *)
Reports(heard) ==
    {p \in UNION {{n} \X calls[n].answer.finished : n \in heard} :
        MayComplete(array, p[1], p[2])}

(* plan_grants: the lowest queued chunks, each node topped up to depth;     *)
(* chunks stay queued only if every node that answered is full.             *)
GrantPlans(queue, held, takers) ==
    {g \in [takers -> SUBSET queue] :
        /\ \A n, m \in takers : n # m => g[n] \cap g[m] = {}
        /\ \A n \in takers : g[n] = {} \/ Cardinality(held[n]) + Cardinality(g[n]) <= setting.depth
        /\ LET given == UNION {g[n] : n \in takers}
           IN  /\ \A c \in given, d \in queue \ given : c < d
               /\ given = queue
                    \/ \A n \in takers : Cardinality(held[n]) + Cardinality(g[n]) >= setting.depth}

RefusingHolders(heard) ==
    {n \in heard : calls[n].answer.kind \in {"refused", "unrunnable"} /\ array.grants[n] # {}}

(* silent_holders: a node that answered this tick is not silent. *)
MaySilence(silent, heard) ==
    /\ silent \subseteq {n \in Nodes : array.grants[n] # {}} \ heard
    /\ faults.silences + Cardinality(silent) <= setting.silences
    /\ setting.replayable => \A n \in silent, c \in Chunks :
                        c \in array.grants[n] => array.attempts[c] < setting.attempts

(* unrunnable_reason: nothing is held, work is queued and every node that   *)
(* could take it has refused it for good.                                   *)
NoNodeCanRun(heard, eligible) ==
    /\ eligible # {}
    /\ eligible \subseteq heard
    /\ \A n \in eligible : calls[n].answer.kind = "unrunnable"
    /\ array.stopped = "no" /\ array.queued # {} /\ Held(array) = {}

(* plan_tick: lost holders first, then results, then grants planned as if   *)
(* the results had applied.                                                 *)
LostWrites(lost) ==
    IF setting.replayable THEN SetToSeq({Requeues(n) : n \in lost})
    ELSE SetToSeq({Unknowns(n) : n \in lost \ unknown})

TickWrites(lost, reports, g) ==
    LostWrites(lost)
      \o SetToSeq({Completes(p[1], p[2]) : p \in reports})
      \o SetToSeq({GrantsTo(n, g[n]) : n \in {m \in DOMAIN g : g[m] # {}}})

(* The preview stops the array once its failures pass the limit. *)
StopsFor(reports) ==
    array.failed + MapThenSumSet(LAMBDA p : p[2].failed, reports) > MaxFailed

Tick(silent, failing) ==
    LET heard == {n \in Nodes : calls[n].state = "answered"}
        reports == Reports(heard)
        taken(n) == {p[2].chunk : p \in {q \in reports : q[1] = n}}
        queue == IF array.stopped # "no" \/ StopsFor(reports) THEN {} ELSE array.queued
        takers == {n \in heard : calls[n].answer.kind = "progress"}
        held == [n \in Nodes |-> array.grants[n] \ taken(n)]
        lost == silent \cup RefusingHolders(heard)
    IN  /\ Leading
        /\ heard \cup silent # {}
        /\ MaySilence(silent, heard)
        /\ calls' = [n \in Nodes |-> IF n \in heard THEN NoCall ELSE calls[n]]
        /\ faults' = [faults EXCEPT !.silences = @ + Cardinality(silent)]
        /\ \/ /\ ~kept \/ IsTerminal(array)
              /\ UNCHANGED log
           \/ /\ kept /\ ~IsTerminal(array)
              /\ NoNodeCanRun(heard, setting.members \ (failing \ heard))
              /\ Propose(<<Stops("unrunnable")>>)
           \/ /\ kept /\ ~IsTerminal(array)
              /\ ~NoNodeCanRun(heard, setting.members \ (failing \ heard))
              /\ \E g \in GrantPlans(queue, held, takers) :
                    LET writes == TickWrites(lost, reports, g)
                    IN  IF writes = <<>> THEN UNCHANGED log ELSE Propose(writes)
        /\ UNCHANGED <<replicated, term, late, nodes, launches, acted, setting>>

(* An election.  A prefix of the old leader's entries survives; the new     *)
(* leader remembers no call.                                                *)
LeaderChange ==
    /\ term < setting.terms
    /\ term' = term + 1
    /\ \E k \in 0 .. Len(log) : log' = SubSeq(log, 1, k)
    /\ \E arrive \in SUBSET setting.members : Abandon(setting.members, arrive)
    /\ UNCHANGED <<replicated, up, disk, run, jobs, history>>

(* A forced recovery restores the array as an old backup has it, in a       *)
(* council at the next epoch.  Requests of the old council may still arrive.*)
Recover ==
    /\ epoch < setting.epochs
    /\ applying = <<>>
    /\ epoch' = epoch + 1
    /\ array' = NewArray
    /\ unknown' = {} /\ outcome' = "none" /\ kept' = TRUE /\ index' = 0
    /\ log' = <<>> /\ term' = 1
    /\ \E arrive \in SUBSET setting.members : Abandon(setting.members, arrive)
    /\ launches' = [t \in Tasks |-> [a \in 1 .. setting.attempts |-> 0]]
    /\ UNCHANGED <<applying, up, disk, run, jobs, acted, faults, setting>>

-----------------------------------------------------------------------------
(* A node's sync.  sync[n].at names the disk operation under way; the       *)
(* operation's effect on the disk is Effect(n).                             *)

Stale(v, previous) ==
    \/ v.epoch < previous.epoch
    \/ v.epoch = previous.epoch /\ (v.term < previous.term \/ v.index < previous.index)

(* Mutant of Verdict: a new epoch is accepted beside old arrays. *)
VerdictForgetful(d, v) ==
    IF Stale(v, d.control) THEN "stale" ELSE IF d.barred THEN "recovery" ELSE "accepted"

(* The control check: what it decides and what it leaves on disk. *)
Verdict(d, v) ==
    CASE Stale(v, d.control) -> "stale"
      [] ~Stale(v, d.control) /\ (d.barred \/ (v.epoch > d.control.epoch /\ d.dir.exists))
            -> "recovery"
      [] OTHER -> "accepted"

(* Mutant of Checked: the accepted version is kept in memory only. *)
CheckedUnsaved(d, v) == [d EXCEPT !.barred = @ \/ Verdict(d, v) = "recovery"]

Checked(d, v) ==
    CASE Verdict(d, v) = "stale" -> d
      [] Verdict(d, v) = "recovery" -> [d EXCEPT !.barred = TRUE]
      [] OTHER -> [d EXCEPT !.control = v]

(* Directories of arrays the cluster forgot go; a finished run whose        *)
(* writers have closed keeps its results and loses its fences.              *)
Cleaned(d, request, busy) ==
    IF ~request.known THEN [d EXCEPT !.dir = EmptyDirectory]
    ELSE IF d.dir.exists /\ ~busy
    THEN [d EXCEPT !.dir.compacted = TRUE, !.dir.fence = NoFile, !.dir.markers = {}]
    ELSE d

Opened(d, request) ==
    IF d.dir.compacted THEN d
    ELSE [d EXCEPT !.dir.exists = TRUE,
                   !.dir.epoch = IF d.dir.exists THEN @ ELSE request.version.epoch]

(* Mutants of Marked: no launch marker, or that of the next chunk. *)
MarkedNothing(d, c, attempt) == d
MarkedNextChunk(d, c, attempt) == [d EXCEPT !.dir.markers = @ \cup {<<c + 1, attempt>>}]

Marked(d, c, attempt) == [d EXCEPT !.dir.markers = @ \cup {<<c, attempt>>}]

(* The disk after the operation under way has succeeded. *)
Effect(n) ==
    LET d == disk[n]
        s == sync[n]
    IN  CASE s.at = "control" -> Checked(d, s.request.version)
          [] s.at = "clean" -> Cleaned(d, s.request, jobs[n] # {})
          [] s.at = "open" -> Opened(d, s.request)
          [] s.at = "fence" ->
                [d EXCEPT !.dir.fence = Written(d.dir.fence, s.position, s.payload)]
          [] s.at = "marker" -> Marked(d, s.chunk, s.target[s.chunk])

(* What a crash or an error in the middle of it can leave. *)
Remains(n) ==
    LET d == disk[n]
        s == sync[n]
    IN  CASE s.at = "none" -> {d}
          [] s.at = "fence" ->
                {[d EXCEPT !.dir.fence = f] : f \in LeftBy(d.dir.fence, s.position, s.payload)}
          [] OTHER -> {d, Effect(n)}

(* Begin: the request arrives, on its call or after the leader gave up. *)
Begin(n, request, live) ==
    /\ n \in up
    /\ sync[n] = NoSync
    /\ sync' = [sync EXCEPT ![n] = [at |-> "control", request |-> request, live |-> live,
                                    dropped |-> FALSE]]
    /\ UNCHANGED <<replicated, term, log, up, disk, run, jobs, history>>

Receive(n) ==
    /\ calls[n].state = "sent"
    /\ calls' = [calls EXCEPT ![n] = Call("inside", calls[n].request, NoAnswer)]
    /\ Begin(n, calls[n].request, TRUE)
    /\ UNCHANGED late

ReceiveLate(n) ==
    /\ \E request \in late[n] : Begin(n, request, FALSE)
    /\ late' = [late EXCEPT ![n] = {}]
    /\ UNCHANGED calls

(* The answer ends the sync; without a caller it goes nowhere. *)
Reply(n, kind, finished) ==
    /\ sync' = [sync EXCEPT ![n] = NoSync]
    /\ calls' = IF sync[n].live
                THEN [calls EXCEPT ![n] = Call("answered", @.request, Answer(kind, finished))]
                ELSE calls

Proceed(n, next) ==
    /\ sync' = [sync EXCEPT ![n] = next]
    /\ UNCHANGED calls

Cancelled(js) == {[j EXCEPT !.cancelled = TRUE] : j \in js}

Working(n, at) ==
    /\ n \in up
    /\ sync[n].at = at
    /\ ~sync[n].dropped
Rest == <<replicated, term, log, late, up>>

-----------------------------------------------------------------------------
(* reconcile, in the pieces between its disk operations.                    *)

(* The attempt to run for each held chunk: never below the highest seen. *)
Target(held, highest) ==
    [c \in Chunks |-> IF held[c] = 0 THEN 0
                      ELSE IF held[c] > highest[c] THEN held[c] ELSE highest[c]]

Raised(held, highest) ==
    [c \in Chunks |-> IF held[c] > highest[c] THEN held[c] ELSE highest[c]]

NewJob(n, c, attempt, r) ==
    [chunk |-> c, attempt |-> attempt, cancelled |-> r.cancelled,
     epoch |-> sync[n].request.version.epoch,
     tasks |-> [t \in ChunkRange(c) |->
                  IF r.resumed[t].attempt = attempt THEN r.resumed[t].outcome ELSE "todo"]]

(* The history of what a node acted on: the attempts are those of the       *)
(* version's epoch.                                                         *)
ActsOn(n, version, started) ==
    LET earlier == IF acted[n].version.epoch = version.epoch THEN acted[n].attempts
                   ELSE NoGrants
    IN  acted' = [acted EXCEPT ![n] =
                    [version |-> version, attempts |-> Raised(started, earlier)]]

(* The chunks of todo start: they run in processes of their own, and what   *)
(* the ledger already held of them is consumed.                             *)
Start(n, r, js, todo, target) ==
    /\ run' = [run EXCEPT ![n] =
                 [r EXCEPT !.chunks = [c \in Chunks |-> IF c \in todo THEN target[c] ELSE @[c]],
                           !.resumed = [t \in Tasks |-> IF \E c \in todo : t \in ChunkRange(c)
                                                        THEN NoRecord ELSE @[t]]]]
    /\ jobs' = [jobs EXCEPT ![n] = js \cup {NewJob(n, c, target[c], r) : c \in todo}]
    /\ ActsOn(n, sync[n].request.version,
              [c \in Chunks |-> IF c \in todo THEN target[c] ELSE 0])

(* The end of reconcile: an outcome the runner could not establish is       *)
(* refused until the run stops or its replay is acknowledged.               *)
Report(n, r, finished) ==
    IF r.unknown /\ ~sync[n].request.stopping
    THEN Reply(n, "refused", {}) ELSE Reply(n, "progress", finished)

Claiming(n, todo, target, finished) ==
    [at |-> "marker", request |-> sync[n].request, live |-> sync[n].live, dropped |-> FALSE,
     chunk |-> Min(todo), todo |-> todo \ {Min(todo)}, target |-> target,
     finished |-> finished]

(* Stop chunks taken back, forget results no longer asked for, then start   *)
(* what is held and not running.  A conservative run claims a durable       *)
(* launch marker for each chunk first.                                      *)
Settle(n, r, js, target) ==
    LET keep == {c \in Chunks : r.chunks[c] # 0 /\ r.chunks[c] = target[c]}
        pruned == [r EXCEPT !.chunks = [c \in Chunks |-> IF c \in keep THEN @[c] ELSE 0],
                            !.finished = {f \in @ : f.attempt = target[f.chunk]}]
        left == {IF j.chunk \in keep /\ j.attempt = r.chunks[j.chunk]
                 THEN j ELSE [j EXCEPT !.cancelled = TRUE] : j \in js}
        todo == {c \in Chunks : target[c] # 0 /\ c \notin keep}
    IN  \/ /\ setting.replayable \/ todo = {}
           /\ Start(n, pruned, left, todo, target)
           /\ Report(n, pruned, pruned.finished)
        \/ /\ ~setting.replayable /\ todo # {}
           /\ run' = [run EXCEPT ![n] = pruned]
           /\ jobs' = [jobs EXCEPT ![n] = left]
           /\ Proceed(n, Claiming(n, todo, target, pruned.finished))
           /\ UNCHANGED acted

(* The attempts the request lists raise the highest seen, in memory first;  *)
(* a raised fence is written before anything starts.                        *)
Reconcile(n, r) ==
    LET held == sync[n].request.held
        stop == sync[n].request.stopping
        r1 == [r EXCEPT !.cancelled = @ \/ stop]
        js == IF stop THEN Cancelled(jobs[n]) ELSE jobs[n]
        raised == Raised(held, r.highest)
    IN  \/ /\ r.failure
           /\ run' = [run EXCEPT ![n] = r]
           /\ Reply(n, "refused", {})
           /\ UNCHANGED <<jobs, acted>>
        \/ /\ ~r.failure /\ raised # r.highest
           /\ run' = [run EXCEPT ![n] = [r1 EXCEPT !.highest = raised, !.unknown = FALSE]]
           /\ jobs' = [jobs EXCEPT ![n] = js]
           /\ Proceed(n, [at |-> "fence", request |-> sync[n].request, live |-> sync[n].live,
                          dropped |-> FALSE, position |-> r.position, payload |-> raised])
           /\ UNCHANGED acted
        \/ /\ ~r.failure /\ raised = r.highest
           /\ Settle(n, r1, js, Target(held, r.highest))

-----------------------------------------------------------------------------
(* The end of each disk operation of a sync.                                *)

ControlChecked(n) ==
    LET request == sync[n].request
        verdict == Verdict(disk[n], request.version)
    IN  /\ Working(n, "control")
        /\ disk' = [disk EXCEPT ![n] = Effect(n)]
        /\ \/ /\ verdict # "accepted"
              /\ Reply(n, "refused", {})
              /\ IF verdict = "recovery" /\ run[n].open
                 THEN /\ run' = [run EXCEPT ![n].cancelled = TRUE]
                      /\ jobs' = [jobs EXCEPT ![n] = Cancelled(@)]
                 ELSE UNCHANGED <<run, jobs>>
              /\ UNCHANGED acted
           \/ /\ verdict = "accepted" /\ ~request.listed
              /\ run' = [run EXCEPT ![n] = NoRun]
              /\ jobs' = [jobs EXCEPT ![n] = Cancelled(@)]
              /\ Proceed(n, [sync[n] EXCEPT !.at = "clean"])
              /\ ActsOn(n, request.version, NoGrants)
           \/ /\ verdict = "accepted" /\ request.listed /\ n \in setting.unable
              /\ Reply(n, "unrunnable", {})
              /\ UNCHANGED <<run, jobs, acted>>
           \/ /\ verdict = "accepted" /\ request.listed /\ n \notin setting.unable /\ ~run[n].open
              /\ Proceed(n, [sync[n] EXCEPT !.at = "open"])
              /\ UNCHANGED <<run, jobs, acted>>
           \/ /\ verdict = "accepted" /\ request.listed /\ n \notin setting.unable /\ run[n].open
              /\ Reconcile(n, run[n])
        /\ UNCHANGED <<Rest, launches, faults, setting>>

CleanupDone(n) ==
    /\ Working(n, "clean")
    /\ disk' = [disk EXCEPT ![n] = Effect(n)]
    /\ Reply(n, "absent", {})
    /\ UNCHANGED <<Rest, run, jobs, history>>

(* Mutant of LastOutcome: a restart starts from an empty ledger. *)
LastOutcomeForgotten(ledger, t) == NoRecord

(* The last outcome the ledger holds of a task, of a chunk the request      *)
(* lists; a task that was not run has none.                                 *)
LastOutcome(ledger, t) ==
    LET ran == {i \in DOMAIN ledger[t] : ledger[t][i].outcome # "notrun"}
    IN  IF ran = {} THEN NoRecord
        ELSE ledger[t][CHOOSE i \in ran : \A j \in ran : j <= i]

(* Mutant of OpenRun: the fenced chunks are taken for running ones. *)
OpenRunAsRunning(d, request) ==
    [open |-> TRUE, epoch |-> request.version.epoch,
     highest |-> IF d.fence = NoFile THEN NoGrants ELSE PayloadOf(d.fence),
     position |-> IF d.fence = NoFile THEN NoPosition ELSE PositionOf(d.fence),
     chunks |-> IF d.fence = NoFile THEN NoGrants ELSE PayloadOf(d.fence), finished |-> {},
     resumed |-> [t \in Tasks |-> NoRecord],
     failure |-> FALSE, cancelled |-> FALSE, unknown |-> FALSE]

OpenRun(d, request) ==
    [open |-> TRUE, epoch |-> request.version.epoch,
     highest |-> IF d.fence = NoFile THEN NoGrants ELSE PayloadOf(d.fence),
     position |-> IF d.fence = NoFile THEN NoPosition ELSE PositionOf(d.fence),
     chunks |-> NoGrants, finished |-> {},
     resumed |-> [t \in Tasks |->
                    IF \E c \in Chunks : request.held[c] # 0 /\ t \in ChunkRange(c)
                    THEN LastOutcome(d.ledger, t) ELSE NoRecord],
     failure |-> FALSE, cancelled |-> FALSE, unknown |-> FALSE]

RunOpened(n) ==
    LET d == disk[n].dir
        openable == ~d.compacted /\ (d.fence = NoFile \/ Readable(d.fence))
    IN  /\ Working(n, "open")
        /\ disk' = [disk EXCEPT ![n] = Effect(n)]
        /\ \/ /\ openable
              /\ Reconcile(n, OpenRun(d, sync[n].request))
           \/ /\ ~openable
              /\ Reply(n, "refused", {})
              /\ UNCHANGED <<run, jobs, acted>>
        /\ UNCHANGED <<Rest, launches, faults, setting>>

(* A run whose fence cannot be written is refused from then on. *)
Fail(n) ==
    /\ run' = [run EXCEPT ![n].failure = TRUE, ![n].cancelled = TRUE]
    /\ jobs' = [jobs EXCEPT ![n] = Cancelled(@)]
    /\ Reply(n, "refused", {})
    /\ UNCHANGED acted

FenceWritten(n) ==
    LET s == sync[n]
        r == [run[n] EXCEPT !.position = WrittenPosition(s.position, s.payload)]
        refused == Refused(disk[n].dir.fence, s.position, s.payload)
    IN  /\ Working(n, "fence")
        /\ IF refused THEN Fail(n) /\ UNCHANGED disk
           ELSE /\ disk' = [disk EXCEPT ![n] = Effect(n)]
                /\ Settle(n, r, jobs[n], Target(s.request.held, r.highest))
        /\ UNCHANGED <<Rest, launches, faults, setting>>

(* A marker already there means the chunk was started at this attempt and   *)
(* its outcome is known only if the ledger has all of it.                   *)
MarkerClaimed(n) ==
    LET s == sync[n]
        r == run[n]
        c == s.chunk
        marked == <<c, s.target[c]>> \in disk[n].dir.markers
        complete == \A t \in ChunkRange(c) : r.resumed[t].attempt = s.target[c]
    IN  /\ Working(n, "marker")
        /\ disk' = [disk EXCEPT ![n] = Effect(n)]
        /\ \/ /\ marked /\ ~complete
              /\ Reply(n, "refused", {})
              /\ UNCHANGED <<run, jobs, acted>>
           \/ /\ ~marked \/ complete
              /\ Start(n, r, jobs[n], {c}, s.target)
              /\ IF s.todo = {} THEN Report(n, r, s.finished)
                 ELSE Proceed(n, Claiming(n, s.todo, s.target, s.finished))
        /\ UNCHANGED <<Rest, launches, faults, setting>>

(* An I/O error ends the sync with a refusal, except during cleanup, whose  *)
(* errors are only logged.                                                  *)
DiskError(n) ==
    /\ n \in up
    /\ sync[n] # NoSync /\ ~sync[n].dropped
    /\ Bounded("errors") /\ Count1("errors")
    /\ \E d \in Remains(n) : disk' = [disk EXCEPT ![n] = d]
    /\ IF sync[n].at = "fence" THEN Fail(n)
       ELSE /\ Reply(n, IF sync[n].at = "clean" THEN "absent" ELSE "refused", {})
            /\ UNCHANGED <<run, jobs, acted>>
    /\ UNCHANGED <<Rest, launches, setting>>

(* The connection closes and the handler is dropped at its await.  The disk *)
(* operation still runs to its end, holding the claim.                      *)
DropSync(n) ==
    /\ n \in up
    /\ sync[n] # NoSync /\ ~sync[n].live /\ ~sync[n].dropped
    /\ sync' = [sync EXCEPT ![n].dropped = TRUE]
    /\ UNCHANGED <<replicated, leader, up, disk, run, jobs, history>>

OrphanEnds(n) ==
    /\ n \in up
    /\ sync[n] # NoSync /\ sync[n].dropped
    /\ sync' = [sync EXCEPT ![n] = NoSync]
    /\ \/ disk' = [disk EXCEPT ![n] =
             IF sync[n].at = "fence"
                /\ Refused(disk[n].dir.fence, sync[n].position, sync[n].payload)
             THEN @ ELSE Effect(n)]
          /\ UNCHANGED faults
       \/ /\ Bounded("errors") /\ Count1("errors")
          /\ \E d \in Remains(n) : disk' = [disk EXCEPT ![n] = d]
    /\ UNCHANGED <<replicated, leader, up, run, jobs, launches, acted, setting>>

-----------------------------------------------------------------------------
(* A chunk's tasks, and a node's crashes.                                   *)

Ended == {"ok", "failed", "notrun"}
Replace(n, j, new) == jobs' = [jobs EXCEPT ![n] = (@ \ {j}) \cup new]

(* A job keeps the ledger and the ArrayRun it was started with, also when   *)
(* the directory has been deleted or the run has been dropped since.  An    *)
(* array is opened again in one process only after a forced recovery, so    *)
(* the epoch tells the old ones from the new.                               *)
InLedger(n, j) == disk[n].dir.exists /\ disk[n].dir.epoch = j.epoch
InRun(n, j) == run[n].open /\ run[n].epoch = j.epoch

(* Mutant of Append1: a success is reported and not recorded. *)
Append1FailuresOnly(n, j, t, o) ==
    IF InLedger(n, j) /\ o # "ok"
    THEN [disk EXCEPT ![n].dir.ledger[t] = Append(@, [attempt |-> j.attempt, outcome |-> o])]
    ELSE disk

Append1(n, j, t, o) ==
    IF InLedger(n, j)
    THEN [disk EXCEPT ![n].dir.ledger[t] = Append(@, [attempt |-> j.attempt, outcome |-> o])]
    ELSE disk

(* Tasks take slots in index order. *)
LaunchTask(n, j, t) ==
    /\ j.tasks[t] = "todo" /\ ~j.cancelled
    /\ \A u \in DOMAIN j.tasks : j.tasks[u] = "todo" => t <= u
    /\ Replace(n, j, {[j EXCEPT !.tasks[t] = "running"]})
    /\ launches' = IF j.epoch = epoch THEN [launches EXCEPT ![t][j.attempt] = @ + 1]
                   ELSE launches
    /\ UNCHANGED <<replicated, leader, up, disk, run, sync, acted, faults, setting>>

(* The command ends and its record is durable before anything reports it.   *)
EndTask(n, j, t, o) ==
    /\ j.tasks[t] = "running"
    /\ o = "notrun" => j.cancelled
    /\ disk' = Append1(n, j, t, o)
    /\ Replace(n, j, {[j EXCEPT !.tasks[t] = o]})
    /\ UNCHANGED <<replicated, leader, up, run, sync, history>>

(* A timeout or an unknown outcome of work that must not run twice: the     *)
(* task waits, unrecorded, until it is cancelled.                           *)
LoseTask(n, j, t) ==
    /\ ~setting.replayable
    /\ j.tasks[t] = "running"
    /\ Bounded("lost") /\ Count1("lost")
    /\ Replace(n, j, {[j EXCEPT !.tasks[t] = "lost"]})
    /\ run' = [run EXCEPT ![n] = IF InRun(n, j) THEN [@ EXCEPT !.unknown = TRUE] ELSE @]
    /\ UNCHANGED <<replicated, leader, up, disk, sync, launches, acted, setting>>

(* The ledger stopped: the run is refused from now on and nothing of this   *)
(* chunk is acknowledged.                                                   *)
AppendFails(n, j, t) ==
    /\ j.tasks[t] = "running"
    /\ Bounded("errors") /\ Count1("errors")
    /\ jobs' = [jobs EXCEPT ![n] = Cancelled(@ \ {j})]
    /\ run' = [run EXCEPT ![n] = IF InRun(n, j) THEN [@ EXCEPT !.failure = TRUE, !.cancelled = TRUE]
                                 ELSE @]
    /\ UNCHANGED <<replicated, leader, up, disk, sync, launches, acted, setting>>

Settled(j) ==
    [t \in DOMAIN j.tasks |-> IF j.tasks[t] \in Ended THEN j.tasks[t] ELSE "notrun"]

Tally(tasks, o) == Cardinality({t \in DOMAIN tasks : tasks[t] = o})

ResultOf(j) ==
    [chunk |-> j.chunk, attempt |-> j.attempt, succeeded |-> Tally(Settled(j), "ok"),
     failed |-> Tally(Settled(j), "failed"), not_run |-> Tally(Settled(j), "notrun")]

(* Tasks never started get their records now; then the result is published. *)
FinishChunk(n, j) ==
    /\ \A t \in DOMAIN j.tasks :
          j.tasks[t] \in Ended \/ (j.cancelled /\ j.tasks[t] \in {"todo", "lost"})
    /\ disk' = [disk EXCEPT ![n].dir.ledger =
                  [t \in Tasks |->
                     IF InLedger(n, j) /\ t \in DOMAIN j.tasks /\ j.tasks[t] \notin Ended
                     THEN Append(@[t], [attempt |-> j.attempt, outcome |-> "notrun"])
                     ELSE @[t]]]
    /\ Replace(n, j, {})
    /\ run' = [run EXCEPT ![n] =
                 IF InRun(n, j) THEN [run[n] EXCEPT !.finished = @ \cup {ResultOf(j)}] ELSE @]
    /\ UNCHANGED <<replicated, leader, up, sync, history>>

(* The process dies: its memory, its chunks and its handler are gone, and   *)
(* the disk operation under way may have been cut short.                    *)
Crash(n) ==
    /\ n \in up
    /\ Bounded("crashes") /\ Count1("crashes")
    /\ up' = up \ {n}
    /\ \E d \in Remains(n) : disk' = [disk EXCEPT ![n] = d]
    /\ run' = [run EXCEPT ![n] = NoRun]
    /\ jobs' = [jobs EXCEPT ![n] = {}]
    /\ sync' = [sync EXCEPT ![n] = NoSync]
    /\ calls' = [calls EXCEPT ![n] = IF @.state = "inside" THEN NoCall ELSE @]
    /\ UNCHANGED <<replicated, term, log, late, launches, acted, setting>>

Restart(n) ==
    /\ n \notin up
    /\ up' = up \cup {n}
    /\ UNCHANGED <<replicated, leader, disk, run, jobs, sync, history>>

-----------------------------------------------------------------------------
Init ==
    /\ setting \in Settings
    /\ array = NewArray
    /\ unknown = {} /\ outcome = "none" /\ kept = TRUE
    /\ index = 1 /\ term = 1 /\ epoch = 0
    /\ log = <<>> /\ applying = <<>>
    /\ calls = [n \in Nodes |-> NoCall]
    /\ late = [n \in Nodes |-> {}]
    /\ up = Nodes
    /\ disk = [n \in Nodes |-> FreshDisk]
    /\ run = [n \in Nodes |-> NoRun]
    /\ jobs = [n \in Nodes |-> {}]
    /\ sync = [n \in Nodes |-> NoSync]
    /\ launches = [t \in Tasks |-> [a \in 1 .. setting.attempts |-> 0]]
    /\ acted = [n \in Nodes |-> [version |-> FreshDisk.control, attempts |-> NoGrants]]
    /\ faults = [crashes |-> 0, errors |-> 0, timeouts |-> 0, silences |-> 0, lost |-> 0,
                 cancels |-> 0]

Next ==
    \/ ApplyWrite
    \/ Commit
    \/ Cancel
    \/ \E n \in setting.members : AcknowledgeReplay(n)
    \/ Prune
    \/ \E n \in setting.members : SendSync(n)
    \/ \E n \in setting.members : TimeOut(n)
    \/ \E n \in setting.members : CallFails(n)
    \/ \E n \in setting.members : LoseLate(n)
    \/ \E silent, failing \in SUBSET setting.members : Tick(silent, failing)
    \/ LeaderChange
    \/ Recover
    \/ \E n \in setting.members : Receive(n)
    \/ \E n \in setting.members : ReceiveLate(n)
    \/ \E n \in setting.members : ControlChecked(n)
    \/ \E n \in setting.members : CleanupDone(n)
    \/ \E n \in setting.members : RunOpened(n)
    \/ \E n \in setting.members : FenceWritten(n)
    \/ \E n \in setting.members : MarkerClaimed(n)
    \/ \E n \in setting.members : DiskError(n)
    \/ \E n \in setting.members : DropSync(n)
    \/ \E n \in setting.members : OrphanEnds(n)
    \/ \E n \in setting.members : \E j \in jobs[n] : \E t \in DOMAIN j.tasks : LaunchTask(n, j, t)
    \/ \E n \in setting.members : \E j \in jobs[n] : \E t \in DOMAIN j.tasks :
          \E o \in Ended : EndTask(n, j, t, o)
    \/ \E n \in setting.members : \E j \in jobs[n] : \E t \in DOMAIN j.tasks : LoseTask(n, j, t)
    \/ \E n \in setting.members : \E j \in jobs[n] : \E t \in DOMAIN j.tasks : AppendFails(n, j, t)
    \/ \E n \in setting.members : \E j \in jobs[n] : FinishChunk(n, j)
    \/ \E n \in setting.members : Crash(n)
    \/ \E n \in setting.members : Restart(n)

Spec == Init /\ [][Next]_vars

(* Fairness for the progress of a run that may be replayed: the leader's    *)
(* loop keeps calling and planning, committed entries apply, a node's disk  *)
(* operations and commands end, and a stopped node comes back.              *)
Fairness ==
    /\ WF_vars(ApplyWrite) /\ WF_vars(Commit)
    /\ WF_vars(Tick({}, {}))
    /\ \A n \in Nodes :
          /\ WF_vars(SendSync(n)) /\ WF_vars(CallFails(n))
          /\ WF_vars(Receive(n)) /\ WF_vars(OrphanEnds(n))
          /\ WF_vars(ControlChecked(n)) /\ WF_vars(CleanupDone(n))
          /\ WF_vars(RunOpened(n)) /\ WF_vars(FenceWritten(n)) /\ WF_vars(MarkerClaimed(n))
          /\ WF_vars(Restart(n))
          /\ WF_vars(\E j \in jobs[n] : \E t \in DOMAIN j.tasks : LaunchTask(n, j, t))
          /\ WF_vars(\E j \in jobs[n] : \E t \in DOMAIN j.tasks :
                        \E o \in Ended : EndTask(n, j, t, o))
          /\ WF_vars(\E j \in jobs[n] : FinishChunk(n, j))

FairSpec == Spec /\ Fairness

-----------------------------------------------------------------------------
(* Properties.                                                              *)

(* The kinds of value the variables hold. *)
TypeOK ==
    /\ array \in ArrayState
    /\ unknown \subseteq Nodes
    /\ kept \in BOOLEAN
    /\ index \in Nat /\ term \in Nat /\ epoch \in Nat
    /\ up \subseteq Nodes
    /\ \A n \in Nodes :
          /\ calls[n].state \in {"none", "sent", "inside", "answered"}
          /\ late[n] \subseteq Request
          /\ disk[n].control \in Version
          /\ disk[n].dir.markers \subseteq Chunks \X Nat
          /\ run[n].open => run[n].finished \subseteq ChunkResult
          /\ sync[n].at \in {"none", "control", "clean", "open", "fence", "marker"}

(* What every replica must be able to reopen (validate_snapshot): each      *)
(* chunk is queued, held by one node or done, its attempt is open only      *)
(* until it is done, an accepted grant is of a done chunk, the counters     *)
(* account for exactly the tasks of the done chunks and a stopped array has *)
(* an empty queue; and the run has an outcome exactly when it is terminal   *)
(* (TaskArrays::validate).                                                  *)
SnapshotValid ==
    /\ ValidSnapshot(array)
    /\ outcome # "none" <=> IsTerminal(array)

(* Work that must not run twice is started at most once per grant attempt,  *)
(* by any node, across crashes, dropped syncs, elections and late requests: *)
(* only an acknowledged replay, which raises the attempt, starts it again.  *)
StartedOnce ==
    ~setting.replayable => \A t \in Tasks : \A a \in 1 .. setting.attempts : launches[t][a] <= 1

(* The record of task t that a node's result index shows for an attempt. *)
RecordAt(n, t, attempt) ==
    LET l == disk[n].dir.ledger[t]
        at == {i \in DOMAIN l : l[i].attempt = attempt}
    IN  IF at = {} THEN NoRecord ELSE l[CHOOSE i \in at : \A j \in at : j <= i]

AcceptedOutcomes(o) ==
    {t \in Tasks : \E c \in Chunks :
        /\ t \in ChunkRange(c)
        /\ array.accepted[c].attempt > 0
        /\ RecordAt(array.accepted[c].owner, t, array.accepted[c].attempt).outcome = o}

(* The counts the cluster reports are on the disks of the nodes it names:   *)
(* while the array is listed and owners are kept, every task counted as     *)
(* succeeded or failed has that outcome in the ledger of the node whose     *)
(* grant was accepted, at that attempt, and no accepted grant has others.   *)
CountsAreOnDisk ==
    kept /\ (\A c \in Chunks : array.accepted[c].attempt > 0 => array.accepted[c].owner # NoOwner)
    => /\ array.succeeded = Cardinality(AcceptedOutcomes("ok"))
       /\ array.failed = Cardinality(AcceptedOutcomes("failed"))

(* "a restart replays the ledger and each held chunk runs only the tasks    *)
(* with no terminal record", for the first grant of a chunk: a task running *)
(* at attempt 1 has no outcome of that attempt on disk.  (A chunk granted   *)
(* again judges a task by its last record only.)                            *)
FirstGrantsResume ==
    \A n \in Nodes : \A j \in jobs[n] : \A t \in DOMAIN j.tasks :
        j.tasks[t] = "running" /\ j.attempt = 1 /\ InLedger(n, j)
        => \A i \in DOMAIN disk[n].dir.ledger[t] :
              disk[n].dir.ledger[t][i].outcome # "notrun"
              => disk[n].dir.ledger[t][i].attempt # 1

(* A node acts on no request that is older than one it acted on before,     *)
(* whatever requests arrive late and however often it restarts: a chunk     *)
(* taken back, or a run that ended, never starts again on old word.         *)
NothingOlderActs ==
    [][\A n \in Nodes : ~Stale(acted'[n].version, acted[n].version)]_vars

(* A node with an array's files from before a forced recovery never runs    *)
(* chunks the recovered council grants: its files name another history.     *)
OldDataNeverRuns ==
    \A n \in Nodes : \A j \in jobs[n] :
        disk[n].dir.exists /\ ~j.cancelled => j.epoch = disk[n].dir.epoch

FenceCovers(n) ==
    LET d == disk[n].dir
    IN  d.exists /\ ~d.compacted =>
          \A c \in Chunks :
            acted[n].attempts[c] > 0 /\ acted[n].version.epoch = d.epoch =>
              /\ d.fence # NoFile
              /\ Readable(d.fence)
              /\ PayloadOf(d.fence)[c] >= acted[n].attempts[c]

(* As long as no call has been given up (only then is a handler dropped at  *)
(* its await), the grant fence on disk covers every attempt the node        *)
(* started, through crashes that tear writes and through failed ones.       *)
GrantsAreFenced ==
    faults.timeouts = 0 /\ term = 1 /\ epoch = 0 => \A n \in Nodes : FenceCovers(n)

(* A node never finds its grant fence changed underneath it: the position   *)
(* it remembers may be of an older write, when a handler was dropped, but   *)
(* never of a file of another size, which it would refuse for good.         *)
FenceNeverRefused ==
    \A n \in Nodes : sync[n].at = "fence" =>
        ~Refused(disk[n].dir.fence, sync[n].position, sync[n].payload)

(* "Durable before the node acts on it" (reconcile): a running node has     *)
(* started no attempt its grant fence does not hold.                        *)
DurableBeforeActing == \A n \in up : FenceCovers(n)

(* A run that may be replayed ends, whatever the bounded crashes, timeouts, *)
(* elections and silences.                                                  *)
RunEnds == <>IsTerminal(array)

=============================================================================
