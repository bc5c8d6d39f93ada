-------------------------- MODULE StartedOnceProofs -------------------------
(***************************************************************************)
(* The proof that work which must not run twice is started at most once per *)
(* attempt, for every cluster, array and setting of TaskArrays.             *)
(*                                                                         *)
(* An attempt at a chunk is known to one node only, the one it was granted  *)
(* to, wherever word of it may be: in the grants, in a request under way,   *)
(* in a run, on a fence file.  That node writes the attempt's launch marker *)
(* before the chunk's tasks wait to be started, and whatever becomes of the *)
(* marker's file, the attempt stays spent: the node refuses it for good.    *)
(*                                                                         *)
(* And the proof that a chunk's first grant resumes from the ledger: the    *)
(* requests to a node are ordered, all that hold the chunk at its first     *)
(* attempt before all that do not, so that the node runs it in one job at a *)
(* time, and one that starts again has read what the ledger holds.          *)
(***************************************************************************)
EXTENDS TaskArraysProofs

-----------------------------------------------------------------------------
(* Who knows of an attempt.                                                 *)

(* The requests on their way to a node or in its hands.                     *)
Requests(n) ==
    late[n] \cup (IF calls[n] = NoCall THEN {} ELSE {calls[n].request})
            \cup (IF sync[n] = NoSync THEN {} ELSE {sync[n].request})

(* Those of the council in office.                                          *)
Current(q) == q.version.epoch = epoch

Granted(n, c, a) == c \in array.grants[n] /\ array.attempts[c] = a
Asked(n, c, a) == \E q \in Requests(n) : Current(q) /\ q.held[c] = a
Recalled(n, c, a) == run[n].open /\ run[n].epoch = epoch /\ run[n].highest[c] = a
OnFile(d, c, a) ==
    /\ d.dir.exists /\ d.dir.epoch = epoch
    /\ \E i \in 1 .. 2 : d.dir.fence.slots[i] # Torn /\ d.dir.fence.slots[i].payload[c] = a
Aimed(n, c, a) ==
    sync[n].at = "marker" /\ Current(sync[n].request) /\ sync[n].target[c] = a

(* Word of attempt a at chunk c is with node n, or on its way there.        *)
Knows(n, c, a) ==
    \/ Granted(n, c, a) \/ Asked(n, c, a) \/ Recalled(n, c, a)
    \/ OnFile(disk[n], c, a) \/ Aimed(n, c, a)

Tries == Nat \ {0}

(* An attempt somebody knows of is over, or its node still holds the chunk. *)
GrantsFit ==
    \A n \in Nodes, c \in Chunks, a \in Tries : Knows(n, c, a) =>
        \/ c \in array.done
        \/ a < array.attempts[c]
        \/ a = array.attempts[c] /\ c \in array.grants[n]

(* No attempt is known to two nodes.                                        *)
Apart ==
    \A n, m \in Nodes, c \in Chunks, a \in Tries :
        Knows(n, c, a) /\ Knows(m, c, a) => n = m

-----------------------------------------------------------------------------
(* What a node's requests, files and memory have to do with the council.    *)

(* A request that does not know the array was made after it was forgotten,  *)
(* and so after every request that does.                                    *)
RequestsReady(n) ==
    \A q \in Requests(n) :
        /\ q.version.epoch <= epoch
        /\ q.listed => q.known
        /\ Current(q) =>
              /\ q.version.index <= index
              /\ ~q.known => ~kept
              /\ ~kept /\ q.known => q.version.index < index
              /\ \A p \in Requests(n) :
                    Current(p) /\ q.known /\ ~p.known => q.version.index < p.version.index

Records == [attempt: Nat, outcome: Ended]

Sound(d) ==
    /\ d.control.epoch <= epoch
    /\ ~d.dir.exists => d.dir.fence = NoFile
    /\ d.dir.ledger \in [Tasks -> Seq(Records)]

RunReady(n) ==
    run[n].open => /\ ~disk[n].dir.compacted
                   /\ \A t \in Tasks : run[n].resumed[t].outcome # "todo"

SyncReady(n) ==
    /\ sync[n].at \in {"open", "fence", "marker"} => sync[n].request.listed
    /\ sync[n].at = "marker" =>
          /\ sync[n].target[sync[n].chunk] > 0
          /\ \A c \in sync[n].todo : sync[n].target[c] > 0

JobsReady(n) ==
    \A j \in jobs[n] : /\ j.epoch \in Nat /\ j.epoch <= epoch
                       /\ j.attempt > 0 /\ DOMAIN j.tasks = ChunkRange(j.chunk)

Ready(n) ==
    /\ RequestsReady(n) /\ Sound(disk[n]) /\ RunReady(n) /\ SyncReady(n) /\ JobsReady(n)

-----------------------------------------------------------------------------
(* What has been used.                                                      *)

(* The marker of an attempt is on disk d, or its run was compacted.         *)
MarkedOn(d, c, a) ==
    /\ d.dir.exists /\ d.dir.epoch = epoch
    /\ d.dir.compacted \/ <<c, a>> \in d.dir.markers

(* With files d the node takes part no more: the array was forgotten, and   *)
(* every request that knows of it is behind the control fence.              *)
Over(n, d) ==
    /\ d.control.epoch = epoch /\ ~kept
    /\ \A q \in Requests(n) : Current(q) /\ q.known => Stale(q.version, d.control)

SpentOn(n, d, c, a) ==
    MarkedOn(d, c, a) \/ (~d.dir.exists /\ Over(n, d))
Spent(n, c, a) == SpentOn(n, disk[n], c, a)

Waits(j, t) == j.epoch = epoch /\ t \in DOMAIN j.tasks /\ j.tasks[t] = "todo"
Launched(t, a) == a \in 1 .. setting.attempts /\ launches[t][a] > 0
Used(t, a) ==
    Launched(t, a) \/ \E n \in Nodes : \E j \in jobs[n] : Waits(j, t) /\ j.attempt = a

(* An attempt at which a task was started, or waits to be, is spent with    *)
(* whoever knows of it, and is not one the queue would give out.            *)
UsedIsSpent ==
    \A c \in Chunks : \A t \in ChunkRange(c), a \in Tries : Used(t, a) =>
        /\ \A n \in Nodes : Knows(n, c, a) => Spent(n, c, a)
        /\ \/ c \in array.done
           \/ a < array.attempts[c]
           \/ a = array.attempts[c] /\ c \notin array.queued

(* A task waits in one job per attempt, and only if it was not started.     *)
WaitsOnce ==
    \A n \in Nodes : \A j \in jobs[n], t \in Tasks : Waits(j, t) =>
        /\ ~Launched(t, j.attempt)
        /\ \A m \in Nodes : \A k \in jobs[m] :
              Waits(k, t) /\ k.attempt = j.attempt => m = n /\ k = j

Counts == launches \in [Tasks -> [1 .. setting.attempts -> Nat]]

Single == \A t \in Tasks : \A a \in 1 .. setting.attempts : launches[t][a] <= 1

(* The invariant of a run that must not be replayed.                        *)
OnceInv ==
    /\ \A n \in Nodes : Ready(n)
    /\ GrantsFit /\ Apart
    /\ UsedIsSpent /\ WaitsOnce
    /\ Counts /\ Single

-----------------------------------------------------------------------------
(* Disk operations: what they can teach a node and what they leave spent.   *)

(* The request a node handles is one of its requests.                       *)
LEMMA HandledRequest ==
    ASSUME NEW n, sync[n] # NoSync
    PROVE  sync[n].request \in Requests(n)
BY DEF Requests

(* A node's requests have their shape.                                      *)
LEMMA RequestTypes ==
    ASSUME NEW n, NodeShape(n), NEW q \in Requests(n)
    PROVE  /\ q \in Request /\ q.version \in Version /\ q.held \in Attempts
           /\ q.version.epoch \in Nat /\ q.version.index \in Nat
<1>1. q \in Request
  BY DEF Requests, NodeShape, SyncShape, CallShape
<1> QED
  BY <1>1, RequestFields DEF Version

(* What an operation, a crash or an error may leave as the node's disk: it  *)
(* names no attempt the node does not know of, what was spent stays spent,  *)
(* and the files of an open run are not compacted.                          *)
Moves(n, x) ==
    /\ Sound(x)
    /\ run[n].open /\ ~disk[n].dir.compacted => ~x.dir.compacted
    /\ \A c \in Chunks, a \in Tries : OnFile(x, c, a) => Knows(n, c, a)
    /\ \A c \in Chunks, a \in Tries : Spent(n, c, a) => SpentOn(n, x, c, a)

(* Nothing older than the control fence comes back when it moves forward.   *)
LEMMA StaysOver ==
    ASSUME NEW n, NodeShape(n), Over(n, disk[n]), epoch \in Nat, NEW x, x.control \in Version,
           x.control.epoch <= epoch, ~Stale(x.control, disk[n].control)
    PROVE  Over(n, x)
<1>1. disk[n].control \in Version /\ disk[n].control.epoch = epoch /\ ~kept
  BY DEF NodeShape, DiskShape, Over
<1>2. x.control.epoch = epoch
  BY <1>1 DEF Version, Stale
<1>3. ASSUME NEW q \in Requests(n), Current(q), q.known
      PROVE  Stale(q.version, x.control)
  <2>1. q.version \in Version /\ Stale(q.version, disk[n].control)
    BY <1>3, RequestTypes DEF Over
  <2> QED
    BY <1>1, <2>1, StaleOrder
<1> QED
  BY <1>1, <1>2, <1>3 DEF Over

(* An operation that keeps the directory, its epoch and its fence, and      *)
(* loses no marker.                                                         *)
LEMMA KeepsFiles ==
    ASSUME NEW n, NodeShape(n), epoch \in Nat, NEW x,
           x.control \in Version, x.control.epoch <= epoch, ~Stale(x.control, disk[n].control),
           x.dir.exists = disk[n].dir.exists, x.dir.epoch = disk[n].dir.epoch,
           x.dir.compacted = disk[n].dir.compacted, x.dir.fence = disk[n].dir.fence,
           disk[n].dir.markers \subseteq x.dir.markers,
           x.dir.ledger \in [Tasks -> Seq(Records)], Sound(disk[n])
    PROVE  Moves(n, x)
<1>1. Sound(x)
  BY DEF Sound
<1>2. \A c \in Chunks, a \in Tries : OnFile(x, c, a) => Knows(n, c, a)
  BY DEF OnFile, Knows
<1>3. ASSUME NEW c \in Chunks, NEW a \in Tries, Spent(n, c, a)
      PROVE  SpentOn(n, x, c, a)
  <2>1. CASE MarkedOn(disk[n], c, a)
    BY <2>1 DEF MarkedOn, SpentOn
  <2>2. CASE ~disk[n].dir.exists /\ Over(n, disk[n])
    <3>1. Over(n, x)
      BY <2>2, StaysOver
    <3> QED
      BY <2>2, <3>1 DEF SpentOn
  <2> QED
    BY <1>3, <2>1, <2>2 DEF Spent, SpentOn
<1> QED
  BY <1>1, <1>2, <1>3 DEF Moves

(* Such is no change at all.                                                *)
LEMMA NoMove ==
    ASSUME NEW n, NodeShape(n), epoch \in Nat, Sound(disk[n])
    PROVE  Moves(n, disk[n])
<1>1. disk[n].control \in Version
  BY DEF NodeShape, DiskShape
<1>2. ~Stale(disk[n].control, disk[n].control)
  BY <1>1, StaleOrder
<1> QED
  BY <1>1, <1>2, KeepsFiles DEF Sound

(* The control check.                                                       *)
LEMMA ControlMoves ==
    ASSUME NEW n, NodeInv(n), Ready(n), epoch \in Nat, sync[n].at = "control",
           SyncShape(sync[n]), sync[n] # NoSync
    PROVE  Moves(n, Effect(n))
<1> DEFINE x == Effect(n)
<1>1. /\ DiskStep(n, x) /\ x.dir = disk[n].dir
      /\ x.control = sync[n].request.version \/ x.control = disk[n].control
  BY ControlStep
<1>2. /\ NodeShape(n) /\ Sound(disk[n]) /\ sync[n].request \in Requests(n)
      /\ sync[n].request.version.epoch <= epoch
  BY HandledRequest DEF NodeInv, Ready, RequestsReady
<1>3. /\ x.control \in Version /\ ~Stale(x.control, disk[n].control)
      /\ x.control.epoch <= epoch
  BY <1>1, <1>2 DEF DiskStep, DiskShape, Sound
<1> HIDE DEF x
<1> QED
  BY <1>1, <1>2, <1>3, KeepsFiles DEF x, Sound

(* A claimed marker.                                                        *)
LEMMA MarkerMoves ==
    ASSUME NEW n, NodeInv(n), Ready(n), epoch \in Nat, sync[n].at = "marker",
           SyncShape(sync[n])
    PROVE  /\ Moves(n, Effect(n))
           /\ Effect(n).dir.exists = disk[n].dir.exists
           /\ Effect(n).dir.epoch = disk[n].dir.epoch
           /\ <<sync[n].chunk, sync[n].target[sync[n].chunk]>> \in Effect(n).dir.markers
<1> DEFINE d == disk[n]
           s == sync[n]
           ms == d.dir.markers \cup {<<s.chunk, s.target[s.chunk]>>}
           x == Effect(n)
           new == [d.dir EXCEPT !.markers = ms]
<1>1. x = [d EXCEPT !.dir.markers = ms]
  BY EffectIs DEF Marked
<1>2. NodeShape(n) /\ DOMAIN d = DiskFields /\ DOMAIN d.dir = DirFields
  BY DEF NodeInv, NodeShape, DiskShape
<1> HIDE DEF ms
<1>3. x.dir = new /\ x.control = d.control
  <2> HIDE DEF d, x
  <2> QED
    BY <1>1, <1>2 DEF DiskFields
<1>4. /\ new.fence = d.dir.fence /\ new.markers = ms /\ new.ledger = d.dir.ledger
      /\ new.exists = d.dir.exists /\ new.epoch = d.dir.epoch
      /\ new.compacted = d.dir.compacted
  BY <1>2 DEF DirFields
<1>5. d.control \in Version /\ ~Stale(d.control, d.control) /\ Sound(d)
  BY StaleOrder DEF NodeInv, NodeShape, DiskShape, Ready
<1> HIDE DEF new
<1>6. Moves(n, x)
  <2> HIDE DEF x
  <2>1. d.dir.markers \subseteq ms
    BY DEF ms
  <2> QED
    BY <1>2, <1>3, <1>4, <1>5, <2>1, KeepsFiles DEF Sound
<1> QED
  BY <1>3, <1>4, <1>6 DEF ms

(* Cleanup.  Files are deleted only for a request that does not know the    *)
(* array, and every request that does is older.                             *)
LEMMA CleanMoves ==
    ASSUME NEW n, NodeInv(n), Ready(n), epoch \in Nat, sync[n].at = "clean",
           SyncShape(sync[n]), sync[n] # NoSync
    PROVE  Moves(n, Effect(n))
<1> DEFINE d == disk[n]
           q == sync[n].request
           x == Effect(n)
           compacted == [d.dir EXCEPT !.compacted = TRUE, !.fence = NoFile, !.markers = {}]
<1>1. \/ x = d
      \/ ~q.known /\ x = [d EXCEPT !.dir = EmptyDirectory]
      \/ d.dir.exists /\ x = [d EXCEPT !.dir.compacted = TRUE, !.dir.fence = NoFile, !.dir.markers = {}]
  BY EffectIs DEF Cleaned
<1>2. /\ NodeShape(n) /\ DOMAIN d = DiskFields /\ DOMAIN d.dir = DirFields
      /\ d.control \in Version /\ Sound(d) /\ ~run[n].open
  BY DEF NodeInv, NodeShape, DiskShape, Ready, RunHasDirectory
<1>3. q \in Requests(n) /\ q.version = d.control
  BY HandledRequest DEF NodeInv, ControlCovers, PastControl
<1>t. \A i \in 1 .. 2 : NoFile.slots[i] = Torn
  BY DEF NoFile
<1>4. CASE x = d
  BY <1>2, <1>4, NoMove
<1>5. CASE ~q.known /\ x = [d EXCEPT !.dir = EmptyDirectory]
  <2>1. x.control = d.control /\ x.dir = EmptyDirectory
    <3> HIDE DEF d, x
    <3> QED
      BY <1>2, <1>5 DEF DiskFields
  <2>2. /\ EmptyDirectory.exists = FALSE /\ EmptyDirectory.fence = NoFile
        /\ EmptyDirectory.ledger = [t \in Tasks |-> <<>>]
    BY DEF EmptyDirectory
  <2> HIDE DEF x
  <2>3. Sound(x)
    <3>1. <<>> \in Seq(Records)
      OBVIOUS
    <3> QED
      BY <1>2, <2>1, <2>2, <3>1 DEF Sound
  <2>4. \A c \in Chunks, a \in Tries : ~OnFile(x, c, a)
    BY <2>1, <2>2 DEF OnFile
  <2>5. ASSUME NEW c \in Chunks, NEW a \in Tries, Spent(n, c, a)
        PROVE  SpentOn(n, x, c, a)
    <3>1. d.control.epoch = epoch
      BY <2>5 DEF Spent, SpentOn, MarkedOn, Over, NodeInv, DirectoryIsCurrent
    <3>2. Current(q) /\ ~kept
      BY <1>3, <1>5, <3>1 DEF Current, Ready, RequestsReady
    <3>3. ASSUME NEW p \in Requests(n), Current(p), p.known
          PROVE  Stale(p.version, d.control)
      <4>1. p.version.index < q.version.index
        BY <1>3, <1>5, <3>2, <3>3 DEF Ready, RequestsReady
      <4> QED
        BY <1>3, <3>1, <3>3, <4>1 DEF Stale, Current
    <3> QED
      BY <2>1, <2>2, <3>1, <3>2, <3>3 DEF SpentOn, Over
  <2> QED
    BY <1>2, <2>3, <2>4, <2>5 DEF Moves, x
<1>6. CASE /\ d.dir.exists
           /\ x = [d EXCEPT !.dir.compacted = TRUE, !.dir.fence = NoFile, !.dir.markers = {}]
  <2>1. x.control = d.control /\ x.dir = compacted
    <3> HIDE DEF d, x
    <3> QED
      BY <1>2, <1>6 DEF DiskFields, DirFields
  <2>2. /\ compacted.fence = NoFile /\ compacted.compacted = TRUE
        /\ compacted.exists = d.dir.exists /\ compacted.epoch = d.dir.epoch
        /\ compacted.ledger = d.dir.ledger
    BY <1>2 DEF DirFields
  <2> HIDE DEF x, compacted
  <2>3. Sound(x)
    BY <1>2, <2>1, <2>2 DEF Sound
  <2>4. \A c \in Chunks, a \in Tries : ~OnFile(x, c, a)
    BY <1>t, <2>1, <2>2 DEF OnFile
  <2>5. ASSUME NEW c \in Chunks, NEW a \in Tries, Spent(n, c, a)
        PROVE  SpentOn(n, x, c, a)
    BY <1>6, <2>1, <2>2, <2>5 DEF Spent, SpentOn, MarkedOn
  <2> QED
    BY <1>2, <2>3, <2>4, <2>5 DEF Moves, x
<1> QED
  BY <1>1, <1>4, <1>5, <1>6

(* Opening.  A directory is made only for a request that lists the array,   *)
(* and such a request is not behind the control fence.                      *)
LEMMA OpenMoves ==
    ASSUME NEW n, NodeInv(n), Ready(n), epoch \in Nat, sync[n].at = "open",
           SyncShape(sync[n]), sync[n] # NoSync
    PROVE  /\ Moves(n, Effect(n))
           /\ Effect(n).dir.compacted = disk[n].dir.compacted
<1> DEFINE d == disk[n]
           q == sync[n].request
           x == Effect(n)
           e == IF d.dir.exists THEN d.dir.epoch ELSE q.version.epoch
           opened == [d.dir EXCEPT !.exists = TRUE, !.epoch = e]
<1>1. /\ d.dir.compacted => x = d
      /\ ~d.dir.compacted => x = [d EXCEPT !.dir.exists = TRUE, !.dir.epoch = e]
  BY EffectIs DEF Opened
<1>2. /\ NodeShape(n) /\ DOMAIN d = DiskFields /\ DOMAIN d.dir = DirFields
      /\ d.control \in Version /\ Sound(d) /\ ~run[n].open
  BY DEF NodeInv, NodeShape, DiskShape, Ready, RunHasDirectory
<1>3. /\ q \in Requests(n) /\ q.version = d.control /\ q.listed /\ q.known
  BY HandledRequest DEF NodeInv, ControlCovers, PastControl, Ready, SyncReady, RequestsReady
<1>t. \A i \in 1 .. 2 : NoFile.slots[i] = Torn
  BY DEF NoFile
<1>4. CASE d.dir.compacted
  BY <1>1, <1>2, <1>4, NoMove
<1>5. CASE ~d.dir.compacted
  <2>1. x.control = d.control /\ x.dir = opened
    <3> HIDE DEF d, x, e
    <3> QED
      BY <1>1, <1>2, <1>5 DEF DiskFields, DirFields
  <2>2. /\ opened.fence = d.dir.fence /\ opened.compacted = d.dir.compacted
        /\ opened.exists = TRUE /\ opened.epoch = e /\ opened.ledger = d.dir.ledger
        /\ opened.markers = d.dir.markers
    <3> HIDE DEF e
    <3> QED
      BY <1>2 DEF DirFields
  <2>3. d.dir.exists => e = d.dir.epoch
    OBVIOUS
  <2> HIDE DEF x, opened, e
  <2>4. Sound(x)
    BY <1>2, <2>1, <2>2 DEF Sound
  <2>5. ASSUME NEW c \in Chunks, NEW a \in Tries, OnFile(x, c, a)
        PROVE  Knows(n, c, a)
    <3>1. d.dir.fence # NoFile
      BY <1>t, <2>1, <2>2, <2>5 DEF OnFile
    <3>2. d.dir.exists
      BY <1>2, <3>1 DEF Sound
    <3> QED
      BY <2>1, <2>2, <2>3, <2>5, <3>2 DEF OnFile, Knows
  <2>6. ASSUME NEW c \in Chunks, NEW a \in Tries, Spent(n, c, a)
        PROVE  SpentOn(n, x, c, a)
    <3>1. CASE MarkedOn(d, c, a)
      BY <2>1, <2>2, <2>3, <3>1 DEF SpentOn, MarkedOn
    <3>2. CASE ~d.dir.exists /\ Over(n, d)
      <4>1. Current(q) /\ ~Stale(q.version, d.control)
        BY <1>2, <1>3, <3>2, StaleOrder DEF Over, Current
      <4> QED
        BY <1>3, <3>2, <4>1 DEF Over
    <3> QED
      BY <2>6, <3>1, <3>2 DEF Spent, SpentOn
  <2>7. x.dir.compacted = d.dir.compacted
    BY <2>1, <2>2
  <2> QED
    BY <1>2, <2>4, <2>5, <2>6, <2>7 DEF Moves, x
<1> QED
  BY <1>4, <1>5

(* A slot of a written fence file, or of one a cut-short write leaves, was  *)
(* there before, is the one written, or is torn.                            *)
LEMMA SlotsLeft ==
    ASSUME NEW f \in Files, NEW at \in Positions, NEW p \in Attempts, NEW g,
           g = Written(f, at, p) \/ g \in LeftBy(f, at, p), NEW i \in 1 .. 2
    PROVE  \/ g.slots[i] = f.slots[i]
           \/ g.slots[i] = Torn
           \/ g.slots[i].payload = p
<1> DEFINE new == NextSlot(at, p)
           rewritten(s) == [f.slots EXCEPT ![Overwritten(at)] = s]
<1>1. new.payload = p
  BY DEF NextSlot
<1>2. DOMAIN f = {"stride", "slots"} /\ DOMAIN f.slots = 1 .. 2
  BY DEF Files
<1>3. \A s : RewriteSlot(f, at, s).slots = rewritten(s)
  BY <1>2 DEF RewriteSlot
<1>4. \A s : rewritten(s)[i] \in {f.slots[i], s}
  BY <1>2
<1>5. Create(at, p).slots[i] = new
  BY DEF Create
<1>6. g = f \/ g = RewriteSlot(f, at, new) \/ g = RewriteSlot(f, at, Torn) \/ g = Create(at, p)
  BY DEF Written, LeftBy
<1> HIDE DEF new, rewritten
<1> QED
  BY <1>1, <1>3, <1>4, <1>5, <1>6

(* A fence write.                                                           *)
LEMMA FenceMoves ==
    ASSUME NEW n, NodeInv(n), Ready(n), epoch \in Nat, sync[n].at = "fence",
           SyncShape(sync[n]), NEW g,
           \/ g = Written(disk[n].dir.fence, sync[n].position, sync[n].payload)
           \/ g \in LeftBy(disk[n].dir.fence, sync[n].position, sync[n].payload),
           NEW x, x = [disk[n] EXCEPT !.dir.fence = g]
    PROVE  /\ Moves(n, x) /\ x.dir.compacted = disk[n].dir.compacted
<1> DEFINE d == disk[n]
           p == sync[n].payload
           new == [d.dir EXCEPT !.fence = g]
<1>1. /\ NodeShape(n) /\ DOMAIN d = DiskFields /\ DOMAIN d.dir = DirFields
      /\ d.dir.fence \in Files /\ d.control \in Version /\ Sound(d)
      /\ sync[n].position \in Positions /\ p \in Attempts
  BY DEF NodeInv, NodeShape, DiskShape, Ready, SyncShape
<1>2. /\ run[n].open /\ d.dir.exists /\ run[n].epoch = d.dir.epoch /\ run[n].highest = p
  BY DEF NodeInv, RunHasDirectory, FenceFits
<1>3. x.control = d.control /\ x.dir = new
  <2> HIDE DEF d
  <2> QED
    BY <1>1 DEF DiskFields, d
<1>4. /\ new.fence = g /\ new.markers = d.dir.markers /\ new.ledger = d.dir.ledger
      /\ new.exists = d.dir.exists /\ new.epoch = d.dir.epoch
      /\ new.compacted = d.dir.compacted
  BY <1>1 DEF DirFields
<1> HIDE DEF new
<1>5. Sound(x)
  BY <1>1, <1>2, <1>3, <1>4 DEF Sound
<1>6. ASSUME NEW c \in Chunks, NEW a \in Tries, OnFile(x, c, a)
      PROVE  Knows(n, c, a)
  <2>1. PICK i \in 1 .. 2 : g.slots[i] # Torn /\ g.slots[i].payload[c] = a
    BY <1>3, <1>4, <1>6 DEF OnFile
  <2>2. d.dir.epoch = epoch
    BY <1>3, <1>4, <1>6 DEF OnFile
  <2>3. g.slots[i] = d.dir.fence.slots[i] \/ g.slots[i].payload = p
    BY <1>1, <2>1, SlotsLeft
  <2>4. CASE g.slots[i] = d.dir.fence.slots[i]
    BY <1>2, <2>1, <2>2, <2>4 DEF OnFile, Knows
  <2>5. CASE g.slots[i].payload = p
    BY <1>2, <2>1, <2>2, <2>5 DEF Recalled, Knows
  <2> QED
    BY <2>3, <2>4, <2>5
<1>7. ASSUME NEW c \in Chunks, NEW a \in Tries, Spent(n, c, a)
      PROVE  SpentOn(n, x, c, a)
  BY <1>2, <1>3, <1>4, <1>7 DEF Spent, SpentOn, MarkedOn
<1> QED
  BY <1>3, <1>4, <1>5, <1>6, <1>7 DEF Moves

(* Whatever the operation under way leaves.                                 *)
LEMMA OperationMoves ==
    ASSUME NEW n, NodeInv(n), Ready(n), epoch \in Nat
    PROVE  /\ Moves(n, disk[n])
           /\ sync[n] # NoSync => Moves(n, Effect(n))
           /\ \A x \in Remains(n) : Moves(n, x)
<1>1. Moves(n, disk[n])
  BY NoMove DEF NodeInv, Ready
<1>2. ASSUME sync[n] # NoSync
      PROVE  SyncShape(sync[n]) /\ sync[n].at \in Stages
  BY <1>2 DEF NodeInv, NodeShape, SyncShape
<1>3. ASSUME sync[n] # NoSync
      PROVE  Moves(n, Effect(n))
  <2>1. CASE sync[n].at = "control"
    BY <1>2, <1>3, <2>1, ControlMoves
  <2>2. CASE sync[n].at = "clean"
    BY <1>2, <1>3, <2>2, CleanMoves
  <2>3. CASE sync[n].at = "open"
    BY <1>2, <1>3, <2>3, OpenMoves
  <2>4. CASE sync[n].at = "fence"
    <3>1. Effect(n) = [disk[n] EXCEPT !.dir.fence =
                         Written(disk[n].dir.fence, sync[n].position, sync[n].payload)]
      BY <2>4, EffectIs
    <3> QED
      BY <1>2, <1>3, <2>4, <3>1, FenceMoves
  <2>5. CASE sync[n].at = "marker"
    BY <1>2, <1>3, <2>5, MarkerMoves
  <2> QED
    BY <1>2, <1>3, <2>1, <2>2, <2>3, <2>4, <2>5 DEF Stages
<1>4. ASSUME NEW x \in Remains(n)
      PROVE  Moves(n, x)
  <2>1. CASE sync[n] = NoSync
    <3>1. sync[n].at = "none"
      BY <2>1 DEF NoSync
    <3>2. x = disk[n]
      BY <3>1 DEF Remains
    <3> QED
      BY <1>1, <3>2
  <2>2. CASE sync[n] # NoSync /\ sync[n].at = "fence"
    <3>1. PICK f \in LeftBy(disk[n].dir.fence, sync[n].position, sync[n].payload) :
                 x = [disk[n] EXCEPT !.dir.fence = f]
      BY <2>2 DEF Remains
    <3> QED
      BY <1>2, <2>2, <3>1, FenceMoves
  <2>3. CASE sync[n] # NoSync /\ sync[n].at # "fence"
    <3>1. sync[n].at # "none" /\ sync[n].at # "fence"
      BY <1>2, <2>3 DEF Stages
    <3>2. x \in {disk[n], Effect(n)}
      BY <3>1 DEF Remains
    <3> QED
      BY <1>1, <1>3, <2>3, <3>2
  <2> QED
    BY <2>1, <2>2, <2>3
<1> QED
  BY <1>1, <1>3, <1>4

-----------------------------------------------------------------------------
(* A step of one node.                                                      *)

(* After a step nobody knows more than before, and what was spent is spent. *)
Learns == \A m \in Nodes, c \in Chunks, a \in Tries :
    (Knows(m, c, a)' => Knows(m, c, a)) /\ (Spent(m, c, a) => Spent(m, c, a)')

(* The run and the sync a step leaves bring no attempt of their own.        *)
RunMoves(n) ==
    run'[n].open =>
        /\ ~disk'[n].dir.compacted
        /\ \A t \in Tasks : run'[n].resumed[t].outcome # "todo"
        /\ run'[n].epoch = epoch =>
              \A c \in Chunks, a \in Tries : run'[n].highest[c] = a => Knows(n, c, a)

SyncMoves(n) ==
    /\ SyncReady(n)'
    /\ sync'[n].at = "marker" /\ Current(sync'[n].request) =>
          \A c \in Chunks, a \in Tries : sync'[n].target[c] = a => Knows(n, c, a)

NodeMoves(n) ==
    /\ Moves(n, disk'[n]) /\ RunMoves(n) /\ SyncMoves(n)
    /\ Requests(n)' \subseteq Requests(n)

(* A step that leaves a node alone teaches it nothing.                      *)
LEMMA OthersLearn ==
    ASSUME NEW m, NEW c, NEW a, array' = array, epoch' = epoch, kept' = kept,
           disk'[m] = disk[m], run'[m] = run[m], sync'[m] = sync[m], calls'[m] = calls[m],
           late'[m] = late[m]
    PROVE  Knows(m, c, a)' = Knows(m, c, a) /\ Spent(m, c, a)' = Spent(m, c, a)
<1>1. Requests(m)' = Requests(m)
  BY DEF Requests
<1>2. /\ Granted(m, c, a)' = Granted(m, c, a) /\ Recalled(m, c, a)' = Recalled(m, c, a)
      /\ OnFile(disk[m], c, a)' = OnFile(disk[m], c, a)
      /\ Aimed(m, c, a)' = Aimed(m, c, a)
  BY DEF Granted, Recalled, OnFile, Aimed, Current
<1>3. Asked(m, c, a)' = Asked(m, c, a)
  BY <1>1 DEF Asked, Current
<1>4. Spent(m, c, a)' = Spent(m, c, a)
  BY <1>1 DEF Spent, SpentOn, MarkedOn, Over, Current, Stale
<1> QED
  BY <1>2, <1>3, <1>4 DEF Knows

(* The node itself learns nothing when its disk, run and sync do not.       *)
LEMMA NodeLearns ==
    ASSUME NEW n, NEW c \in Chunks, NEW a \in Tries, array' = array, epoch' = epoch,
           kept' = kept, NodeMoves(n)
    PROVE  (Knows(n, c, a)' => Knows(n, c, a)) /\ (Spent(n, c, a) => Spent(n, c, a)')
<1>1. ASSUME Knows(n, c, a)'
      PROVE  Knows(n, c, a)
  <2>1. CASE Granted(n, c, a)'
    BY <2>1 DEF Granted, Knows
  <2>2. CASE Asked(n, c, a)'
    <3>1. PICK q \in Requests(n)' : q.version.epoch = epoch /\ q.held[c] = a
      BY <2>2 DEF Asked, Current
    <3> QED
      BY <3>1 DEF NodeMoves, Asked, Current, Knows
  <2>3. CASE Recalled(n, c, a)'
    BY <2>3 DEF Recalled, NodeMoves, RunMoves
  <2>4. CASE OnFile(disk[n], c, a)'
    <3>1. OnFile(disk'[n], c, a)
      BY <2>4 DEF OnFile
    <3> QED
      BY <3>1 DEF NodeMoves, Moves
  <2>5. CASE Aimed(n, c, a)'
    BY <2>5 DEF Aimed, NodeMoves, SyncMoves, Current
  <2> QED
    BY <1>1, <2>1, <2>2, <2>3, <2>4, <2>5 DEF Knows
<1>2. ASSUME Spent(n, c, a)
      PROVE  Spent(n, c, a)'
  <2>1. SpentOn(n, disk'[n], c, a)
    BY <1>2 DEF NodeMoves, Moves
  <2>2. CASE MarkedOn(disk'[n], c, a)
    BY <2>2 DEF MarkedOn, Spent, SpentOn
  <2>3. CASE ~disk'[n].dir.exists /\ Over(n, disk'[n])
    <3>1. Over(n, disk[n])'
      BY <2>3 DEF Over, NodeMoves, Current, Stale
    <3> QED
      BY <2>3, <3>1 DEF Spent, SpentOn
  <2> QED
    BY <2>1, <2>2, <2>3 DEF SpentOn
<1> QED
  BY <1>1, <1>2

(* So a step of one node teaches nobody anything.                           *)
LEMMA StepLearns ==
    ASSUME NEW n \in Nodes, StoreFrame, Others(n), NodeMoves(n)
    PROVE  Learns
<1> SUFFICES ASSUME NEW m \in Nodes, NEW c \in Chunks, NEW a \in Tries
             PROVE  /\ Knows(m, c, a)' => Knows(m, c, a)
                    /\ Spent(m, c, a) => Spent(m, c, a)'
  BY DEF Learns
<1>1. array' = array /\ epoch' = epoch /\ kept' = kept
  BY DEF StoreFrame
<1>2. CASE m = n
  BY <1>1, <1>2, NodeLearns
<1>3. CASE m # n
  <2>1. /\ disk'[m] = disk[m] /\ run'[m] = run[m] /\ sync'[m] = sync[m]
        /\ calls'[m] = calls[m] /\ late'[m] = late[m]
    BY <1>3 DEF Others
  <2> QED
    BY <1>1, <2>1, OthersLearn
<1> QED
  BY <1>2, <1>3

(* What is known still fits and is still apart.                             *)
LEMMA KnownKept ==
    ASSUME GrantsFit, Apart, Learns, array' = array
    PROVE  GrantsFit' /\ Apart'
BY DEF GrantsFit, Apart, Learns

(* Nothing new is used, so what is used is spent.                           *)
LEMMA UsedKept ==
    ASSUME UsedIsSpent, Learns, array' = array,
           \A t \in Tasks, a \in Tries : Used(t, a)' => Used(t, a)
    PROVE  UsedIsSpent'
<1> SUFFICES ASSUME NEW c \in Chunks, NEW t \in ChunkRange(c), NEW a \in Tries, Used(t, a)'
             PROVE  /\ \A n \in Nodes : Knows(n, c, a)' => Spent(n, c, a)'
                    /\ \/ c \in array.done
                       \/ a < array.attempts[c]
                       \/ a = array.attempts[c] /\ c \notin array.queued
  BY DEF UsedIsSpent
<1>1. t \in Tasks
  BY DEF ChunkRange
<1>2. Used(t, a)
  BY <1>1
<1> QED
  BY <1>2 DEF UsedIsSpent, Learns

(* The jobs of a node go on: each is an earlier one, with no task waiting   *)
(* that did not wait before and none unfinished that had ended.             *)
Unfinished == {"todo", "running"}
SameWork(k, j) ==
    /\ j.epoch = k.epoch /\ j.chunk = k.chunk /\ j.attempt = k.attempt
    /\ DOMAIN j.tasks = DOMAIN k.tasks
    /\ \A t \in DOMAIN k.tasks : /\ j.tasks[t] = "todo" => k.tasks[t] = "todo"
                                 /\ j.tasks[t] \in Unfinished => k.tasks[t] \in Unfinished

Continues(old, new) ==
    \E F : /\ \A j \in new : \E k \in old : j = F[k]
           /\ \A k \in old : SameWork(k, F[k])

(* Jobs that are the same go on, and so do those that go on twice.          *)
LEMMA ContinuesAlways ==
    ASSUME NEW old, NEW new, new \subseteq old
    PROVE  Continues(old, new)
<1> DEFINE F == [k \in old |-> k]
<1>1. \A k \in old : F[k] = k
  OBVIOUS
<1>2. /\ \A j \in new : \E k \in old : j = F[k]
      /\ \A k \in old : SameWork(k, F[k])
  BY <1>1 DEF SameWork
<1> HIDE DEF F
<1> QED
  BY <1>2 DEF Continues

(* Going on is transitive.                                                  *)
LEMMA ContinuesTwice ==
    ASSUME NEW old, NEW mid, NEW new, Continues(old, mid), Continues(mid, new)
    PROVE  Continues(old, new)
<1>1. PICK F : /\ \A j \in mid : \E k \in old : j = F[k]
               /\ \A k \in old : SameWork(k, F[k])
  BY DEF Continues
<1>2. PICK G : /\ \A j \in new : \E k \in mid : j = G[k]
               /\ \A k \in mid : SameWork(k, G[k])
  BY DEF Continues
<1> DEFINE H == [k \in old |-> IF F[k] \in mid THEN G[F[k]] ELSE F[k]]
<1>3. \A k \in old : H[k] = IF F[k] \in mid THEN G[F[k]] ELSE F[k]
  OBVIOUS
<1> HIDE DEF H
<1>4. ASSUME NEW j \in new
      PROVE  \E k \in old : j = H[k]
  <2>1. PICK i \in mid : j = G[i]
    BY <1>2
  <2>2. PICK k \in old : i = F[k]
    BY <1>1
  <2> QED
    BY <1>3, <2>1, <2>2
<1>5. ASSUME NEW k \in old
      PROVE  SameWork(k, H[k])
  <2>1. SameWork(k, F[k])
    BY <1>1
  <2>2. CASE F[k] \in mid
    <3>1. SameWork(F[k], G[F[k]]) /\ H[k] = G[F[k]]
      BY <1>2, <1>3, <2>2
    <3> QED
      BY <2>1, <3>1 DEF SameWork
  <2>3. CASE F[k] \notin mid
    BY <1>3, <2>1, <2>3
  <2> QED
    BY <2>2, <2>3
<1> QED
  BY <1>4, <1>5 DEF Continues

(* When the jobs of one node go on and nothing is launched, nothing new is  *)
(* used and every waiting task waits in one job.                            *)
LEMMA JobsGoOn ==
    ASSUME NEW n \in Nodes, epoch' = epoch, setting' = setting, launches' = launches,
           \A m \in Nodes \ {n} : jobs'[m] = jobs[m], Continues(jobs[n], jobs'[n])
    PROVE  /\ JobsReady(n) => JobsReady(n)'
           /\ \A t, a : Used(t, a)' => Used(t, a)
           /\ WaitsOnce => WaitsOnce'
<1>1. PICK F : /\ \A j \in jobs'[n] : \E k \in jobs[n] : j = F[k]
               /\ \A k \in jobs[n] : SameWork(k, F[k])
  BY DEF Continues
<1>2. JobsReady(n) => JobsReady(n)'
  BY <1>1 DEF JobsReady, SameWork
<1>3. \A t, a : Launched(t, a)' = Launched(t, a)
  BY DEF Launched
<1>4. \A t : \A k \in jobs[n] : Waits(F[k], t)' => Waits(k, t) /\ F[k].attempt = k.attempt
  BY <1>1 DEF Waits, SameWork
<1>5. \A j, t : Waits(j, t)' = Waits(j, t)
  BY DEF Waits
<1>6. ASSUME NEW t, NEW m \in Nodes, NEW j \in jobs'[m], Waits(j, t)'
      PROVE  \E k \in jobs[m] : /\ Waits(k, t) /\ k.attempt = j.attempt
                                /\ j = IF m = n THEN F[k] ELSE k
  <2>1. CASE m = n
    BY <1>1, <1>4, <1>6, <2>1
  <2>2. CASE m # n
    <3>1. j \in jobs[m]
      BY <2>2
    <3> QED
      BY <1>5, <1>6, <2>2, <3>1
  <2> QED
    BY <2>1, <2>2
<1>7. ASSUME NEW t, NEW a, Used(t, a)'
      PROVE  Used(t, a)
  <2>1. CASE Launched(t, a)'
    BY <1>3, <2>1 DEF Used
  <2>2. CASE \E m \in Nodes : \E j \in jobs'[m] : Waits(j, t)' /\ j.attempt = a
    BY <1>6, <2>2 DEF Used
  <2> QED
    BY <1>7, <2>1, <2>2 DEF Used
<1>8. ASSUME WaitsOnce
      PROVE  WaitsOnce'
  <2> SUFFICES ASSUME NEW p \in Nodes, NEW j \in jobs'[p], NEW t \in Tasks, Waits(j, t)'
               PROVE  /\ ~Launched(t, j.attempt)'
                      /\ \A m \in Nodes : \A k \in jobs'[m] :
                            Waits(k, t)' /\ k.attempt = j.attempt => m = p /\ k = j
    BY DEF WaitsOnce
  <2>1. PICK j0 \in jobs[p] : /\ Waits(j0, t) /\ j0.attempt = j.attempt
                              /\ j = IF p = n THEN F[j0] ELSE j0
    BY <1>6
  <2>2. ~Launched(t, j.attempt)'
    BY <1>3, <1>8, <2>1 DEF WaitsOnce
  <2>3. ASSUME NEW m \in Nodes, NEW k \in jobs'[m], Waits(k, t)', k.attempt = j.attempt
        PROVE  m = p /\ k = j
    <3>1. PICK k0 \in jobs[m] : /\ Waits(k0, t) /\ k0.attempt = k.attempt
                                /\ k = IF m = n THEN F[k0] ELSE k0
      BY <1>6, <2>3
    <3>2. m = p /\ k0 = j0
      BY <1>8, <2>1, <2>3, <3>1 DEF WaitsOnce
    <3> QED
      BY <2>1, <3>1, <3>2
  <2> QED
    BY <2>2, <2>3
<1> QED
  BY <1>2, <1>7, <1>8

(* The node that takes a step stays ready.                                  *)
LEMMA ReadyKept ==
    ASSUME NEW n, Ready(n), StoreFrame, NodeMoves(n), JobsReady(n)'
    PROVE  Ready(n)'
<1>1. RequestsReady(n)'
  <2>1. Requests(n)' \subseteq Requests(n)
    BY DEF NodeMoves
  <2>2. epoch' = epoch /\ index' = index /\ kept' = kept
    BY DEF StoreFrame
  <2> QED
    BY <2>1, <2>2 DEF Ready, RequestsReady, Current
<1>2. Sound(disk[n])' /\ RunReady(n)' /\ SyncReady(n)'
  BY DEF NodeMoves, Moves, Sound, RunMoves, RunReady, SyncMoves, StoreFrame
<1> QED
  BY <1>1, <1>2 DEF Ready

(* A node that a step leaves alone stays ready.                             *)
LEMMA ReadyFrame ==
    ASSUME NEW m, Ready(m), StoreFrame, disk'[m] = disk[m], run'[m] = run[m],
           jobs'[m] = jobs[m], sync'[m] = sync[m], calls'[m] = calls[m], late'[m] = late[m]
    PROVE  Ready(m)'
<1>1. Requests(m)' = Requests(m)
  BY DEF Requests
<1>2. epoch' = epoch /\ index' = index /\ kept' = kept
  BY DEF StoreFrame
<1>3. RequestsReady(m)'
  BY <1>1, <1>2 DEF Ready, RequestsReady, Current
<1>4. Sound(disk[m])' /\ RunReady(m)' /\ SyncReady(m)' /\ JobsReady(m)'
  BY <1>2 DEF Ready, Sound, RunReady, SyncReady, JobsReady
<1> QED
  BY <1>3, <1>4 DEF Ready

(* A step of a node keeps all but the count of launches.                    *)
LEMMA NodeReady ==
    ASSUME OnceInv, NEW n \in Nodes, StoreFrame, Others(n), NodeMoves(n), JobsReady(n)'
    PROVE  Learns /\ GrantsFit' /\ Apart' /\ \A m \in Nodes : Ready(m)'
<1>1. Learns
  BY StepLearns
<1>2. GrantsFit' /\ Apart'
  BY <1>1, KnownKept DEF OnceInv, StoreFrame
<1>3. ASSUME NEW m \in Nodes
      PROVE  Ready(m)'
  <2>1. Ready(m)
    BY DEF OnceInv
  <2>2. CASE m = n
    BY <2>1, <2>2, ReadyKept
  <2>3. CASE m # n
    <3>1. /\ disk'[m] = disk[m] /\ run'[m] = run[m] /\ jobs'[m] = jobs[m]
          /\ sync'[m] = sync[m] /\ calls'[m] = calls[m] /\ late'[m] = late[m]
      BY <2>3 DEF Others
    <3> QED
      BY <2>1, <3>1, ReadyFrame
  <2> QED
    BY <2>2, <2>3
<1> QED
  BY <1>1, <1>2, <1>3

(* A step of a node whose jobs go on keeps the invariant.                   *)
LEMMA NodeGoesOn ==
    ASSUME OnceInv, NEW n \in Nodes, StoreFrame, Others(n), NodeMoves(n),
           setting' = setting, launches' = launches, Continues(jobs[n], jobs'[n])
    PROVE  OnceInv'
<1>1. epoch' = epoch /\ array' = array /\ \A m \in Nodes \ {n} : jobs'[m] = jobs[m]
  BY DEF StoreFrame, Others
<1>2. /\ JobsReady(n)'
      /\ \A t, a : Used(t, a)' => Used(t, a)
      /\ WaitsOnce'
  BY <1>1, JobsGoOn DEF OnceInv, Ready
<1>3. Learns /\ GrantsFit' /\ Apart' /\ \A m \in Nodes : Ready(m)'
  BY <1>2, NodeReady
<1>4. UsedIsSpent'
  BY <1>1, <1>2, <1>3, UsedKept DEF OnceInv
<1>5. Counts' /\ Single'
  BY DEF OnceInv, Counts, Single
<1> QED
  BY <1>2, <1>3, <1>4, <1>5 DEF OnceInv
-----------------------------------------------------------------------------
(* The steps of a node's sync.                                              *)

(* A sync that ends or goes on holds no request it did not hold before.     *)
LEMMA SyncRequests ==
    ASSUME NEW n, CallerWaits(n), sync[n] # NoSync, late'[n] = late[n], Answered(n),
           sync'[n] = NoSync \/ sync'[n].request = sync[n].request
    PROVE  Requests(n)' \subseteq Requests(n)
<1>1. calls'[n] = NoCall \/ (calls[n] # NoCall /\ calls'[n].request = calls[n].request)
  BY DEF Answered, CallerWaits, NoCall
<1> QED
  BY <1>1 DEF Requests

(* A job that is cancelled goes on.                                         *)
LEMMA CancelledGoesOn ==
    ASSUME NEW j, JobShape(j)
    PROVE  SameWork(j, [j EXCEPT !.cancelled = TRUE]) /\ SameWork(j, j)
<1> DEFINE k == [j EXCEPT !.cancelled = TRUE]
<1>1. DOMAIN j = JobFields
  BY DEF JobShape
<1>2. k.epoch = j.epoch /\ k.chunk = j.chunk /\ k.attempt = j.attempt /\ k.tasks = j.tasks
  BY <1>1 DEF JobFields
<1> HIDE DEF k
<1>3. SameWork(j, k) /\ SameWork(j, j)
  BY <1>2 DEF SameWork
<1> QED
  BY <1>3 DEF k

(* Jobs go on when some of them are cancelled.                              *)
LEMMA SomeCancelled ==
    ASSUME NEW old, NEW new, NEW keep, \A j \in old : JobShape(j),
           new = {IF j \in keep THEN j ELSE [j EXCEPT !.cancelled = TRUE] : j \in old}
    PROVE  Continues(old, new)
<1> DEFINE F == [j \in old |-> IF j \in keep THEN j ELSE [j EXCEPT !.cancelled = TRUE]]
<1>1. \A j \in old : F[j] = IF j \in keep THEN j ELSE [j EXCEPT !.cancelled = TRUE]
  OBVIOUS
<1>2. \A j \in new : \E k \in old : j = F[k]
  BY <1>1
<1>3. ASSUME NEW k \in old
      PROVE  SameWork(k, F[k])
  <2>1. F[k] = k \/ F[k] = [k EXCEPT !.cancelled = TRUE]
    BY <1>1
  <2>2. SameWork(k, k) /\ SameWork(k, [k EXCEPT !.cancelled = TRUE])
    BY CancelledGoesOn
  <2> HIDE DEF F
  <2> QED
    BY <2>1, <2>2
<1> HIDE DEF F
<1> QED
  BY <1>2, <1>3 DEF Continues

(* Jobs go on when all of them are.                                         *)
LEMMA AllCancelled ==
    ASSUME NEW old, \A j \in old : JobShape(j)
    PROVE  Continues(old, Cancelled(old))
<1> DEFINE new == Cancelled(old)
           keep == {}
<1>1. new = {IF j \in keep THEN j ELSE [j EXCEPT !.cancelled = TRUE] : j \in old}
  BY DEF Cancelled
<1> HIDE DEF new, keep
<1>2. Continues(old, new)
  BY <1>1, SomeCancelled
<1> QED
  BY <1>2 DEF new

(* What a sync leaves of a run that must not be replayed: its jobs go on,   *)
(* no outcome of the ledger is forgotten for good, and the marker it claims *)
(* next is of an attempt.                                                   *)
Outcomes(r) == \A t \in Tasks : r.resumed[t].outcome # "todo"
AimsRight(s) ==
    s.at = "marker" => s.target[s.chunk] > 0 /\ \A c \in s.todo : s.target[c] > 0
GoesOn(n, js) ==
    Continues(js, jobs'[n]) /\ Outcomes(run'[n]) /\ AimsRight(sync'[n])

(* The marker claimed first is of one of the chunks to start.               *)
LEMMA ClaimingAims ==
    ASSUME NEW n, NEW todo, SomeChunks(todo), NEW target \in Attempts,
           \A c \in todo : target[c] # 0, NEW fs, NEW next,
           next = Claiming(n, todo, target, fs)
    PROVE  AimsRight(next)
<1>1. next.chunk = Min(todo) /\ next.todo = todo \ {Min(todo)} /\ next.target = target
  BY DEF Claiming
<1>2. Min(todo) \in todo
  BY FirstChunk DEF SomeChunks
<1>3. \A c \in todo : target[c] > 0
  BY DEF Attempts, SomeChunks
<1> QED
  BY <1>1, <1>2, <1>3 DEF AimsRight

(* Settle starts nothing by itself: it asks for a marker.                   *)
LEMMA SettleGoesOn ==
    ASSUME Domains, NEW n \in Nodes, NEW r, NEW js, NEW target,
           RunShape(r), \A j \in js : JobShape(j), target \in Attempts, Outcomes(r),
           ~setting.replayable, Settle(n, r, js, target)
    PROVE  GoesOn(n, js)
<1> DEFINE keep == {c \in Chunks : r.chunks[c] # 0 /\ r.chunks[c] = target[c]}
           chunks == [c \in Chunks |-> IF c \in keep THEN r.chunks[c] ELSE 0]
           finished == {f \in r.finished : f.attempt = target[f.chunk]}
           pruned == [r EXCEPT !.chunks = chunks, !.finished = finished]
           left == {IF j.chunk \in keep /\ j.attempt = r.chunks[j.chunk]
                    THEN j ELSE [j EXCEPT !.cancelled = TRUE] : j \in js}
           todo == {c \in Chunks : target[c] # 0 /\ c \notin keep}
           kept1 == {j \in js : j.chunk \in keep /\ j.attempt = r.chunks[j.chunk]}
<1>1. \/ /\ todo = {}
         /\ Start(n, pruned, left, todo, target)
         /\ Report(n, pruned, pruned.finished)
      \/ /\ run' = [run EXCEPT ![n] = pruned]
         /\ jobs' = [jobs EXCEPT ![n] = left]
         /\ Proceed(n, Claiming(n, todo, target, pruned.finished))
         /\ todo # {} /\ UNCHANGED acted
  BY Zenon DEF Settle
<1>2. Continues(js, left)
  <2>1. left = {IF j \in kept1 THEN j ELSE [j EXCEPT !.cancelled = TRUE] : j \in js}
    OBVIOUS
  <2> HIDE DEF left, kept1
  <2> QED
    BY <2>1, SomeCancelled
<1>3. DOMAIN pruned = RunFields /\ pruned.resumed = r.resumed
  <2>1. DOMAIN r = RunFields
    BY DEF RunShape
  <2> HIDE DEF chunks, finished
  <2> QED
    BY <2>1 DEF RunFields
<1>4. todo \subseteq Chunks /\ \A c \in todo : target[c] # 0
  OBVIOUS
<1> HIDE DEF keep, chunks, finished, pruned, left, todo, kept1
<1>5. CASE /\ todo = {}
           /\ Start(n, pruned, left, todo, target)
           /\ Report(n, pruned, pruned.finished)
  <2> DEFINE resumed == [t \in Tasks |-> IF \E c \in todo : t \in ChunkRange(c)
                                         THEN NoRecord ELSE pruned.resumed[t]]
             more == [c \in Chunks |-> IF c \in todo THEN target[c] ELSE pruned.chunks[c]]
             rr == [pruned EXCEPT !.chunks = more, !.resumed = resumed]
             new == {NewJob(n, c, target[c], pruned) : c \in todo}
  <2>1. run' = [run EXCEPT ![n] = rr] /\ jobs' = [jobs EXCEPT ![n] = left \cup new]
    BY <1>5 DEF Start
  <2>2. new = {} /\ \A t \in Tasks : resumed[t] = pruned.resumed[t]
    BY <1>5
  <2> HIDE DEF resumed, more, new
  <2>3. rr.resumed = resumed
    BY <1>3 DEF RunFields
  <2> HIDE DEF rr
  <2>4. run'[n] = rr /\ jobs'[n] = left
    BY <2>1, <2>2 DEF Domains
  <2>5. \A t \in Tasks : rr.resumed[t] = r.resumed[t]
    BY <1>3, <2>2, <2>3
  <2>6. Outcomes(run'[n])
    BY <2>4, <2>5 DEF Outcomes
  <2>7. sync'[n] = NoSync
    <3>1. Reply(n, "refused", {}) \/ Reply(n, "progress", pruned.finished)
      BY <1>5, Zenon DEF Report
    <3> QED
      BY <3>1, ReplyEffect
  <2>8. AimsRight(sync'[n])
    BY <2>7 DEF AimsRight, NoSync
  <2> QED
    BY <1>2, <2>4, <2>6, <2>8 DEF GoesOn
<1>6. CASE /\ run' = [run EXCEPT ![n] = pruned]
           /\ jobs' = [jobs EXCEPT ![n] = left]
           /\ Proceed(n, Claiming(n, todo, target, pruned.finished))
           /\ todo # {} /\ UNCHANGED acted
  <2> DEFINE fs == pruned.finished
             next == Claiming(n, todo, target, fs)
  <2>1. sync'[n] = next
    BY <1>6, ProceedEffect
  <2>2. next = Claiming(n, todo, target, fs) /\ SomeChunks(todo)
    BY <1>4, <1>6 DEF SomeChunks
  <2> HIDE DEF fs, next
  <2>3. AimsRight(next)
    BY <1>4, <2>2, ClaimingAims
  <2>4. run'[n] = pruned /\ jobs'[n] = left
    BY <1>6 DEF Domains
  <2>5. Outcomes(run'[n])
    BY <1>3, <2>4 DEF Outcomes
  <2> QED
    BY <1>2, <2>1, <2>3, <2>4, <2>5 DEF GoesOn
<1> QED
  BY <1>1, <1>5, <1>6

(* Neither does reconcile.                                                  *)
LEMMA ReconcileGoesOn ==
    ASSUME Domains, NEW n \in Nodes, NodeShape(n), NEW r, RunShape(r), SyncShape(sync[n]),
           Outcomes(r), ~setting.replayable, Reconcile(n, r)
    PROVE  GoesOn(n, jobs[n])
<1> DEFINE held == sync[n].request.held
           stop == sync[n].request.stopping
           r1 == [r EXCEPT !.cancelled = @ \/ stop]
           js == IF stop THEN Cancelled(jobs[n]) ELSE jobs[n]
           raised == Raised(held, r.highest)
           next == [at |-> "fence", request |-> sync[n].request, live |-> sync[n].live,
                    dropped |-> FALSE, position |-> r.position, payload |-> raised]
           rr == [r1 EXCEPT !.highest = raised, !.unknown = FALSE]
           target == Target(held, r.highest)
<1>1. \/ /\ run' = [run EXCEPT ![n] = r]
         /\ Reply(n, "refused", {})
         /\ UNCHANGED <<jobs, acted>>
      \/ /\ run' = [run EXCEPT ![n] = rr]
         /\ jobs' = [jobs EXCEPT ![n] = js]
         /\ Proceed(n, next)
      \/ Settle(n, r1, js, target)
  BY Zenon DEF Reconcile
<1>2. RunShape(r1)
  BY AdvisedRun DEF Advised
<1>3. r1.resumed = r.resumed
  BY DEF RunShape, RunFields
<1>4. \A j \in jobs[n] : JobShape(j)
  BY DEF NodeShape
<1>5. Continues(jobs[n], js) /\ \A j \in js : JobShape(j)
  <2>1. js = IF stop THEN Cancelled(jobs[n]) ELSE jobs[n]
    OBVIOUS
  <2> HIDE DEF js, stop
  <2>2. CASE stop
    BY <1>4, <2>1, <2>2, AllCancelled, CancelledKept
  <2>3. CASE ~stop
    BY <1>4, <2>1, <2>3, ContinuesAlways
  <2> QED
    BY <2>2, <2>3
<1>6. target \in Attempts
  BY RequestFields, RaisedAttempts DEF RunShape, SyncShape
<1>7. rr.resumed = r.resumed
  <2>1. DOMAIN r1 = RunFields
    BY <1>2 DEF RunShape
  <2> HIDE DEF r1, raised
  <2> QED
    BY <1>3, <2>1 DEF RunFields
<1>8. next.at = "fence"
  OBVIOUS
<1> HIDE DEF held, stop, r1, js, raised, next, rr, target
<1>9. CASE /\ run' = [run EXCEPT ![n] = r]
           /\ Reply(n, "refused", {})
           /\ UNCHANGED <<jobs, acted>>
  <2>1. run'[n] = r /\ jobs'[n] = jobs[n] /\ sync'[n] = NoSync
    BY <1>9, ReplyEffect DEF Domains
  <2>2. Continues(jobs[n], jobs'[n])
    BY <2>1, ContinuesAlways
  <2> QED
    BY <2>1, <2>2 DEF GoesOn, AimsRight, NoSync
<1>10. CASE /\ run' = [run EXCEPT ![n] = rr]
            /\ jobs' = [jobs EXCEPT ![n] = js]
            /\ Proceed(n, next)
  <2>1. run'[n] = rr /\ jobs'[n] = js /\ sync'[n] = next
    BY <1>10, ProceedEffect DEF Domains
  <2> QED
    BY <1>5, <1>7, <1>8, <2>1 DEF GoesOn, AimsRight, Outcomes
<1>11. CASE Settle(n, r1, js, target)
  <2>1. Outcomes(r1)
    BY <1>3 DEF Outcomes
  <2>2. GoesOn(n, js)
    BY <1>2, <1>5, <1>6, <1>11, <2>1, SettleGoesOn
  <2>3. Continues(jobs[n], jobs'[n])
    BY <1>5, <2>2, ContinuesTwice DEF GoesOn
  <2> QED
    BY <2>2, <2>3 DEF GoesOn
<1> QED
  BY <1>1, <1>9, <1>10, <1>11

(* Attempts the node knows of, all of them of the council in office.        *)
AllKnown(n, attempts) == \A c \in Chunks, a \in Tries : attempts[c] = a => Knows(n, c, a)

(* What reconcile leaves names no attempt of its own.                       *)
LEMMA OutcomeMoves ==
    ASSUME NEW n, NodeInv(n), SyncShape(sync[n]), sync[n] # NoSync,
           NEW r, NEW raised, NEW target, Outcome(n, r, raised, target),
           sync[n].request.listed, late'[n] = late[n], epoch' = epoch,
           Moves(n, disk'[n]), ~disk'[n].dir.compacted,
           r.epoch = sync[n].request.version.epoch,
           r.epoch = epoch => AllKnown(n, raised) /\ AllKnown(n, target),
           Outcomes(run'[n]), AimsRight(sync'[n])
    PROVE  NodeMoves(n)
<1>1. /\ run'[n].highest = raised /\ run'[n].epoch = r.epoch
      /\ \/ sync'[n] = NoSync
         \/ /\ sync'[n].at = "fence" /\ sync'[n].request = sync[n].request
         \/ /\ sync'[n].at = "marker" /\ sync'[n].request = sync[n].request
            /\ sync'[n].target = target
  BY DEF Outcome
<1>2. Answered(n)
  BY DEF Outcome, Answered
<1>3. Requests(n)' \subseteq Requests(n)
  BY <1>1, <1>2, SyncRequests DEF NodeInv
<1>4. RunMoves(n)
  BY <1>1 DEF RunMoves, Outcomes, AllKnown
<1>5. SyncMoves(n)
  <2>1. CASE sync'[n] = NoSync
    BY <2>1 DEF SyncMoves, SyncReady, NoSync
  <2>2. CASE sync'[n].at = "fence" /\ sync'[n].request = sync[n].request
    BY <2>2 DEF SyncMoves, SyncReady
  <2>3. CASE /\ sync'[n].at = "marker" /\ sync'[n].request = sync[n].request
             /\ sync'[n].target = target
    <3>1. SyncReady(n)'
      BY <2>3 DEF SyncReady, AimsRight
    <3> QED
      BY <2>3, <3>1 DEF SyncMoves, Current, AllKnown
  <2> QED
    BY <1>1, <2>1, <2>2, <2>3
<1> QED
  BY <1>3, <1>4, <1>5 DEF NodeMoves

(* The attempts of a request are known to the node that handles it.         *)
LEMMA RaisedKnown ==
    ASSUME NEW n, sync[n] # NoSync, sync[n].request.version.epoch = epoch,
           sync[n].request.held \in Attempts, NEW highest \in Attempts, AllKnown(n, highest)
    PROVE  /\ AllKnown(n, Raised(sync[n].request.held, highest))
           /\ AllKnown(n, Target(sync[n].request.held, highest))
<1> DEFINE held == sync[n].request.held
<1>1. AllKnown(n, held)
  BY HandledRequest DEF AllKnown, Knows, Asked, Current
<1>2. \A c \in Chunks : /\ Raised(held, highest)[c] \in {held[c], highest[c]}
                        /\ Target(held, highest)[c] \in {0, held[c], highest[c]}
  BY DEF Raised, Target
<1> HIDE DEF held
<1>3. AllKnown(n, Raised(held, highest)) /\ AllKnown(n, Target(held, highest))
  BY <1>1, <1>2 DEF AllKnown, Tries
<1> QED
  BY <1>3 DEF held

(* Reconcile, of a run whose attempts the node knows of.                    *)
LEMMA ReconcileMoves ==
    ASSUME Domains, NEW n \in Nodes, NodeInv(n), SyncShape(sync[n]), sync[n] # NoSync,
           sync[n].request.listed, late'[n] = late[n], epoch' = epoch,
           Moves(n, disk'[n]), ~disk'[n].dir.compacted, ~setting.replayable,
           NEW r, RunShape(r), r.epoch = sync[n].request.version.epoch,
           r.epoch = epoch => AllKnown(n, r.highest), Outcomes(r), Reconcile(n, r)
    PROVE  NodeMoves(n) /\ Continues(jobs[n], jobs'[n])
<1> DEFINE held == sync[n].request.held
           raised == Raised(held, r.highest)
           target == Target(held, r.highest)
<1>1. GoesOn(n, jobs[n])
  BY ReconcileGoesOn DEF NodeInv
<1>2. \/ Outcome(n, r, r.highest, NoGrants) \/ Outcome(n, r, raised, NoGrants)
      \/ Outcome(n, r, r.highest, target)
  BY ReconcileOutcome DEF NodeInv
<1>3. held \in Attempts /\ r.highest \in Attempts
  BY RequestFields DEF SyncShape, RunShape
<1>4. r.epoch = epoch => AllKnown(n, raised) /\ AllKnown(n, target)
  BY <1>3, RaisedKnown
<1>5. AllKnown(n, NoGrants)
  BY DEF AllKnown, NoGrants, Tries
<1> HIDE DEF held, raised, target
<1>6. NodeMoves(n)
  <2>1. Outcomes(run'[n]) /\ AimsRight(sync'[n])
    BY <1>1 DEF GoesOn
  <2>2. CASE Outcome(n, r, r.highest, NoGrants)
    BY <1>5, <2>1, <2>2, OutcomeMoves
  <2>3. CASE Outcome(n, r, raised, NoGrants)
    BY <1>4, <1>5, <2>1, <2>3, OutcomeMoves
  <2>4. CASE Outcome(n, r, r.highest, target)
    BY <1>4, <2>1, <2>4, OutcomeMoves
  <2> QED
    BY <1>2, <2>2, <2>3, <2>4
<1> QED
  BY <1>1, <1>6 DEF GoesOn

(* A step that leaves the attempts of the run, and the sync but for its     *)
(* stage.                                                                   *)
RunStays(n) ==
    run'[n].open => /\ run[n].open /\ run'[n].epoch = run[n].epoch
                    /\ run'[n].highest = run[n].highest /\ run'[n].resumed = run[n].resumed

SyncStays(n) ==
    \/ sync'[n] = NoSync \/ SameSync(sync[n], sync'[n])
    \/ sync'[n].at \in {"control", "clean"}
    \/ sync'[n].at = "open" /\ sync'[n].request.listed

(* Such a step names no attempt of its own.                                 *)
LEMMA StayingMoves ==
    ASSUME NEW n, Ready(n), Moves(n, disk'[n]), RunStays(n), SyncStays(n), epoch' = epoch,
           Requests(n)' \subseteq Requests(n)
    PROVE  NodeMoves(n)
<1>1. RunMoves(n)
  <2>1. ASSUME run'[n].open
        PROVE  /\ run[n].open /\ run'[n].epoch = run[n].epoch
               /\ run'[n].highest = run[n].highest /\ run'[n].resumed = run[n].resumed
    BY <2>1 DEF RunStays
  <2>2. ASSUME run'[n].open
        PROVE  ~disk'[n].dir.compacted /\ \A t \in Tasks : run'[n].resumed[t].outcome # "todo"
    BY <2>1, <2>2 DEF Moves, Ready, RunReady
  <2>3. ASSUME run'[n].open, run'[n].epoch = epoch,
               NEW c \in Chunks, NEW a \in Tries, run'[n].highest[c] = a
        PROVE  Knows(n, c, a)
    BY <2>1, <2>3 DEF Recalled, Knows
  <2> QED
    BY <2>2, <2>3 DEF RunMoves
<1>2. SyncMoves(n)
  <2>1. CASE sync'[n] = NoSync
    BY <2>1 DEF SyncMoves, SyncReady, NoSync
  <2>2. CASE sync'[n] = sync[n]
    BY <2>2 DEF SyncMoves, SyncReady, Ready, Aimed, Current, Knows
  <2>3. CASE sync'[n] # sync[n] /\ SameSync(sync[n], sync'[n])
    <3>1. /\ sync'[n].at = sync[n].at /\ sync'[n].request = sync[n].request
          /\ sync[n].at = "marker" => /\ sync'[n].target = sync[n].target
                                      /\ sync'[n].chunk = sync[n].chunk
                                      /\ sync'[n].todo = sync[n].todo
      BY <2>3 DEF SameSync
    <3>2. SyncReady(n)'
      BY <3>1 DEF SyncReady, Ready
    <3> QED
      BY <3>1, <3>2 DEF SyncMoves, Aimed, Current, Knows
  <2>4. CASE sync'[n].at \in {"control", "clean"}
    BY <2>4 DEF SyncMoves, SyncReady
  <2>5. CASE sync'[n].at = "open" /\ sync'[n].request.listed
    BY <2>5 DEF SyncMoves, SyncReady
  <2> QED
    BY <2>1, <2>2, <2>3, <2>4, <2>5 DEF SyncStays
<1> QED
  BY <1>1, <1>2 DEF NodeMoves

(* What every action of a node has to show.                                 *)
MovesOn(n) == NodeMoves(n) /\ Continues(jobs[n], jobs'[n])

(* An answer that leaves the run and the jobs, or cancels them.             *)
LEMMA ReplyMoves ==
    ASSUME Domains, NEW n \in Nodes, NodeInv(n), Ready(n), sync[n] # NoSync, epoch' = epoch,
           Moves(n, disk'[n]), late'[n] = late[n], NEW kind, Reply(n, kind, {}), RunStays(n),
           jobs'[n] = jobs[n] \/ jobs'[n] = Cancelled(jobs[n])
    PROVE  MovesOn(n)
<1>1. sync'[n] = NoSync /\ Answered(n)
  BY ReplyAnswers, MoreResults
<1>2. Requests(n)' \subseteq Requests(n)
  BY <1>1, SyncRequests DEF NodeInv
<1>3. NodeMoves(n)
  BY <1>1, <1>2, StayingMoves DEF SyncStays
<1>4. Continues(jobs[n], jobs'[n])
  <2>1. \A j \in jobs[n] : JobShape(j)
    BY DEF NodeInv, NodeShape
  <2> QED
    BY <2>1, AllCancelled, ContinuesAlways
<1> QED
  BY <1>3, <1>4 DEF MovesOn

(* The control check.                                                       *)
LEMMA ControlCheckedMoves ==
    ASSUME Domains, NEW n \in Nodes, NodeInv(n), Ready(n), epoch \in Nat,
           ~setting.replayable, ControlChecked(n)
    PROVE  MovesOn(n)
<1> DEFINE q == sync[n].request
           verdict == Verdict(disk[n], q.version)
           x == Effect(n)
<1>1. /\ sync[n].at = "control" /\ disk' = [disk EXCEPT ![n] = x]
      /\ late' = late /\ epoch' = epoch
  BY DEF ControlChecked, Working, Rest, replicated
<1>2. \/ /\ Reply(n, "refused", {})
         /\ \/ UNCHANGED <<run, jobs>>
            \/ /\ run[n].open
               /\ run' = [run EXCEPT ![n].cancelled = TRUE]
               /\ jobs' = [jobs EXCEPT ![n] = Cancelled(@)]
      \/ /\ run' = [run EXCEPT ![n] = NoRun]
         /\ jobs' = [jobs EXCEPT ![n] = Cancelled(@)]
         /\ Proceed(n, [sync[n] EXCEPT !.at = "clean"])
      \/ Reply(n, "unrunnable", {}) /\ UNCHANGED <<run, jobs>>
      \/ /\ q.listed
         /\ Proceed(n, [sync[n] EXCEPT !.at = "open"])
         /\ UNCHANGED <<run, jobs>>
      \/ verdict = "accepted" /\ q.listed /\ run[n].open /\ Reconcile(n, run[n])
  <2>1. UNCHANGED <<run, jobs, acted>> => UNCHANGED <<run, jobs>>
    OBVIOUS
  <2> QED
    BY <2>1, Zenon DEF ControlChecked
<1>3. SyncShape(sync[n]) /\ sync[n] # NoSync
  BY <1>1, AtStage DEF Stages
<1>4. Moves(n, disk'[n]) /\ disk'[n] = x
  <2>1. Moves(n, x)
    BY <1>3, OperationMoves
  <2>2. disk'[n] = x
    BY <1>1 DEF Domains
  <2> HIDE DEF x
  <2> QED
    BY <2>1, <2>2
<1>5. \A j \in jobs[n] : JobShape(j)
  BY DEF NodeInv, NodeShape
<1>6. CASE /\ Reply(n, "refused", {})
           /\ \/ UNCHANGED <<run, jobs>>
              \/ /\ run[n].open
                 /\ run' = [run EXCEPT ![n].cancelled = TRUE]
                 /\ jobs' = [jobs EXCEPT ![n] = Cancelled(@)]
  <2>1. CASE UNCHANGED <<run, jobs>>
    <3>1. RunStays(n) /\ jobs'[n] = jobs[n]
      BY <2>1 DEF RunStays
    <3> QED
      BY <1>1, <1>3, <1>4, <1>6, <3>1, ReplyMoves
  <2>2. CASE /\ run[n].open
             /\ run' = [run EXCEPT ![n].cancelled = TRUE]
             /\ jobs' = [jobs EXCEPT ![n] = Cancelled(@)]
    <3> DEFINE r == [run[n] EXCEPT !.cancelled = TRUE]
    <3>1. DOMAIN run[n] = RunFields
      BY <2>2 DEF NodeInv, NodeShape, NoRun, RunShape
    <3>2. /\ r.open = run[n].open /\ r.epoch = run[n].epoch
          /\ r.highest = run[n].highest /\ r.resumed = run[n].resumed
      BY <3>1 DEF RunFields
    <3>3. run'[n] = r /\ jobs'[n] = Cancelled(jobs[n])
      BY <2>2 DEF Domains
    <3> HIDE DEF r
    <3>4. RunStays(n)
      BY <3>2, <3>3 DEF RunStays
    <3> QED
      BY <1>1, <1>3, <1>4, <1>6, <3>3, <3>4, ReplyMoves
  <2> QED
    BY <1>6, <2>1, <2>2
<1>7. CASE /\ run' = [run EXCEPT ![n] = NoRun]
           /\ jobs' = [jobs EXCEPT ![n] = Cancelled(@)]
           /\ Proceed(n, [sync[n] EXCEPT !.at = "clean"])
  <2> DEFINE t == [sync[n] EXCEPT !.at = "clean"]
  <2>1. t.at = "clean" /\ t.request = q
    BY <1>1, <1>3, StageChange
  <2>2. sync'[n] = t /\ calls' = calls
    BY <1>7, ProceedEffect
  <2> HIDE DEF t
  <2>3. run'[n] = NoRun /\ jobs'[n] = Cancelled(jobs[n])
    BY <1>7 DEF Domains
  <2>4. RunStays(n) /\ SyncStays(n) /\ Answered(n)
    BY <2>1, <2>2, <2>3 DEF RunStays, SyncStays, Answered, NoRun
  <2>5. Requests(n)' \subseteq Requests(n)
    BY <1>1, <1>3, <2>1, <2>2, <2>4, SyncRequests DEF NodeInv
  <2> QED
    BY <1>1, <1>4, <1>5, <2>3, <2>4, <2>5, StayingMoves, AllCancelled DEF MovesOn
<1>8. CASE Reply(n, "unrunnable", {}) /\ UNCHANGED <<run, jobs>>
  <2>1. RunStays(n) /\ jobs'[n] = jobs[n]
    BY <1>8 DEF RunStays
  <2> QED
    BY <1>1, <1>3, <1>4, <1>8, <2>1, ReplyMoves
<1>9. CASE /\ q.listed
           /\ Proceed(n, [sync[n] EXCEPT !.at = "open"])
           /\ UNCHANGED <<run, jobs>>
  <2> DEFINE t == [sync[n] EXCEPT !.at = "open"]
  <2>1. t.at = "open" /\ t.request = q
    BY <1>1, <1>3, StageChange
  <2>2. sync'[n] = t /\ calls' = calls
    BY <1>9, ProceedEffect
  <2> HIDE DEF t
  <2>3. run'[n] = run[n] /\ jobs'[n] = jobs[n]
    BY <1>9
  <2>4. RunStays(n) /\ SyncStays(n) /\ Answered(n)
    BY <1>9, <2>1, <2>2, <2>3 DEF RunStays, SyncStays, Answered
  <2>5. Requests(n)' \subseteq Requests(n)
    BY <1>1, <1>3, <2>1, <2>2, <2>4, SyncRequests DEF NodeInv
  <2> QED
    BY <1>1, <1>4, <2>3, <2>4, <2>5, StayingMoves, ContinuesAlways DEF MovesOn
<1>10. CASE verdict = "accepted" /\ q.listed /\ run[n].open /\ Reconcile(n, run[n])
  <2>1. RunShape(run[n]) /\ disk[n].dir.exists /\ run[n].epoch = disk[n].dir.epoch
    BY <1>10 DEF NodeInv, NodeShape, NoRun, RunHasDirectory
  <2>2. x.dir = disk[n].dir /\ (x.dir.exists => x.dir.epoch = q.version.epoch)
    BY <1>1, <1>10, AcceptedControl
  <2>3. ~disk'[n].dir.compacted /\ Outcomes(run[n])
    BY <1>4, <1>10, <2>2 DEF Ready, RunReady, Outcomes
  <2>4. run[n].epoch = epoch => AllKnown(n, run[n].highest)
    BY <1>10 DEF AllKnown, Recalled, Knows
  <2> DEFINE r == run[n]
  <2>5. RunShape(r) /\ r.epoch = q.version.epoch
    BY <2>1, <2>2
  <2> QED
    BY <1>1, <1>3, <1>4, <1>10, <2>3, <2>4, <2>5, ReconcileMoves DEF MovesOn
<1> QED
  BY <1>2, <1>6, <1>7, <1>8, <1>9, <1>10

(* A set of positions of a sequence that is not empty has a last one.       *)
LEMMA LastPosition ==
    ASSUME NEW N \in Nat, NEW S \in SUBSET (1 .. N), S # {}
    PROVE  (CHOOSE i \in S : \A j \in S : j <= i) \in S
<1> DEFINE R == {p \in Nat \X Nat : p[1] < p[2]}
           T == {m \in Nat : N - m \in S}
<1>1. T \subseteq Nat /\ T # {}
  <2>1. PICK i \in S : TRUE
    OBVIOUS
  <2>2. N - i \in Nat /\ N - (N - i) = i
    OBVIOUS
  <2> QED
    BY <2>1, <2>2
<1>2. \E x \in T : \A y \in T : ~(<<y, x>> \in R)
  <2>1. IsWellFoundedOn(R, Nat)
    BY NatLessThanWellFounded DEF OpToRel
  <2> HIDE DEF R, T
  <2> QED
    BY <1>1, <2>1, WFMin
<1>3. PICK x \in T : \A y \in T : ~(<<y, x>> \in R)
  BY <1>2
<1>4. ASSUME NEW j \in S
      PROVE  j <= N - x
  <2>1. N - j \in Nat /\ N - (N - j) = j /\ x \in Nat
    OBVIOUS
  <2>2. N - j \in T
    BY <2>1
  <2>3. ~(<<N - j, x>> \in R)
    BY <1>3, <2>2
  <2>4. ~(N - j < x)
    BY <2>1, <2>3
  <2> QED
    BY <2>1, <2>4
<1>5. N - x \in S
  OBVIOUS
<1> QED
  BY <1>4, <1>5

(* A run opened on sound files remembers no task as waiting.                *)
LEMMA OpenRunOutcomes ==
    ASSUME NEW d, d.ledger \in [Tasks -> Seq(Records)], NEW q, NEW r, r = OpenRun(d, q)
    PROVE  Outcomes(r)
<1> SUFFICES ASSUME NEW t \in Tasks
             PROVE  r.resumed[t].outcome # "todo"
  BY DEF Outcomes
<1>1. r.resumed[t] = NoRecord \/ r.resumed[t] = LastOutcome(d.ledger, t)
  BY DEF OpenRun
<1>2. NoRecord.outcome = "none"
  BY DEF NoRecord
<1>3. LastOutcome(d.ledger, t) = NoRecord \/ LastOutcome(d.ledger, t) \in Records
  <2> DEFINE l == d.ledger[t]
             ran == {i \in DOMAIN l : l[i].outcome # "notrun"}
             last == CHOOSE i \in ran : \A j \in ran : j <= i
  <2>1. LastOutcome(d.ledger, t) = IF ran = {} THEN NoRecord ELSE l[last]
    BY DEF LastOutcome
  <2>2. l \in Seq(Records)
    OBVIOUS
  <2>3. Len(l) \in Nat /\ DOMAIN l = 1 .. Len(l) /\ \A i \in 1 .. Len(l) : l[i] \in Records
    <3> HIDE DEF l
    <3> QED
      BY <2>2
  <2>4. ran \in SUBSET (1 .. Len(l))
    BY <2>3
  <2>5. ran # {} => last \in ran
    <3> HIDE DEF ran, l
    <3> QED
      BY <2>3, <2>4, LastPosition
  <2> HIDE DEF last, ran
  <2> QED
    BY <2>1, <2>3, <2>4, <2>5
<1>4. \A e \in Records : e.outcome # "todo"
  BY DEF Records, Ended
<1> QED
  BY <1>1, <1>2, <1>3, <1>4

(* Cleanup.                                                                 *)
LEMMA CleanupDoneMoves ==
    ASSUME Domains, NEW n \in Nodes, NodeInv(n), Ready(n), epoch \in Nat, CleanupDone(n)
    PROVE  MovesOn(n)
<1>1. /\ sync[n].at = "clean" /\ disk' = [disk EXCEPT ![n] = Effect(n)]
      /\ Reply(n, "absent", {}) /\ run' = run /\ jobs' = jobs /\ late' = late
      /\ epoch' = epoch
  BY DEF CleanupDone, Working, Rest, replicated
<1>2. sync[n] # NoSync
  BY <1>1, AtStage DEF Stages
<1>3. Moves(n, disk'[n])
  BY <1>1, <1>2, OperationMoves, DiskWrite
<1>4. RunStays(n) /\ jobs'[n] = jobs[n] /\ late'[n] = late[n]
  BY <1>1 DEF RunStays
<1> QED
  BY <1>1, <1>2, <1>3, <1>4, ReplyMoves

(* The end of opening.                                                      *)
LEMMA RunOpenedMoves ==
    ASSUME Domains, NEW n \in Nodes, NodeInv(n), Ready(n), epoch \in Nat,
           ~setting.replayable, RunOpened(n)
    PROVE  MovesOn(n)
<1> DEFINE d == disk[n].dir
           q == sync[n].request
           r == OpenRun(d, q)
<1>1. /\ sync[n].at = "open" /\ disk' = [disk EXCEPT ![n] = Effect(n)]
      /\ late' = late /\ epoch' = epoch
  BY DEF RunOpened, Working, Rest, replicated
<1>2. \/ /\ ~d.compacted /\ (d.fence = NoFile \/ Readable(d.fence))
         /\ Reconcile(n, r)
      \/ Reply(n, "refused", {}) /\ UNCHANGED <<run, jobs, acted>>
  BY Zenon DEF RunOpened
<1>3. SyncShape(sync[n]) /\ sync[n] # NoSync
  BY <1>1, AtStage DEF Stages
<1>4. disk'[n] = Effect(n)
  BY <1>1, DiskWrite
<1>5. Moves(n, disk'[n]) /\ disk'[n].dir.compacted = d.compacted
  BY <1>1, <1>3, <1>4, OpenMoves
<1>6. CASE Reply(n, "refused", {}) /\ UNCHANGED <<run, jobs, acted>>
  <2>1. RunStays(n) /\ jobs'[n] = jobs[n] /\ late'[n] = late[n]
    BY <1>1, <1>6 DEF RunStays
  <2> QED
    BY <1>1, <1>3, <1>5, <1>6, <2>1, ReplyMoves
<1>7. CASE /\ ~d.compacted /\ (d.fence = NoFile \/ Readable(d.fence))
           /\ Reconcile(n, r)
  <2>1. d.fence \in Files /\ Sound(disk[n])
    BY DEF NodeInv, NodeShape, DiskShape, Ready
  <2>2. /\ RunShape(r) /\ r.epoch = q.version.epoch
        /\ r.highest = (IF d.fence = NoFile THEN NoGrants ELSE PayloadOf(d.fence))
        /\ Outcomes(r)
    <3>1. r = OpenRun(d, q) /\ d.ledger \in [Tasks -> Seq(Records)]
      BY <2>1 DEF Sound
    <3> HIDE DEF r, d
    <3>2. OpenedRun(d, q, r) /\ Outcomes(r)
      BY <1>7, <2>1, <3>1, OpenRunShape, OpenRunOutcomes
    <3> QED
      BY <3>2 DEF OpenedRun
  <2>3. ASSUME r.epoch = epoch
        PROVE  AllKnown(n, r.highest)
    <3>1. CASE d.fence = NoFile
      BY <2>2, <3>1 DEF AllKnown, NoGrants, Tries
    <3>2. CASE d.fence # NoFile
      <4> DEFINE i == NewestSlot(d.fence)
      <4>1. i \in 1 .. 2 /\ d.fence.slots[i] # Torn
        BY <1>7, <2>1, <3>2, ReadShape
      <4>2. r.highest = d.fence.slots[i].payload
        BY <2>2, <3>2 DEF PayloadOf
      <4>3. d.exists /\ d.epoch = epoch
        BY <1>1, <2>1, <2>2, <2>3, <3>2 DEF Sound, NodeInv, DirectoryIsCurrent, ControlCovers,
             PastControl
      <4> HIDE DEF i, r
      <4>4. \A c \in Chunks, a \in Tries : r.highest[c] = a => OnFile(disk[n], c, a)
        BY <4>1, <4>2, <4>3 DEF OnFile
      <4> QED
        BY <4>4 DEF AllKnown, Knows
    <3> QED
      BY <3>1, <3>2
  <2>4. q.listed /\ late'[n] = late[n]
    BY <1>1 DEF Ready, SyncReady
  <2> HIDE DEF r
  <2> QED
    BY <1>1, <1>3, <1>5, <1>7, <2>2, <2>3, <2>4, ReconcileMoves DEF MovesOn
<1> QED
  BY <1>2, <1>6, <1>7

(* A run whose fence cannot be written.                                     *)
LEMMA FailMoves ==
    ASSUME Domains, NEW n \in Nodes, NodeInv(n), Ready(n), sync[n].at = "fence", Fail(n),
           epoch' = epoch, late'[n] = late[n], Moves(n, disk'[n])
    PROVE  MovesOn(n)
<1> DEFINE r == [run[n] EXCEPT !.failure = TRUE, !.cancelled = TRUE]
<1>1. /\ run' = [run EXCEPT ![n].failure = TRUE, ![n].cancelled = TRUE]
      /\ jobs' = [jobs EXCEPT ![n] = Cancelled(@)]
      /\ Reply(n, "refused", {})
  BY DEF Fail
<1>2. sync[n] # NoSync /\ DOMAIN run[n] = RunFields
  BY RunningSync DEF RunShape
<1>3. /\ r.open = run[n].open /\ r.epoch = run[n].epoch
      /\ r.highest = run[n].highest /\ r.resumed = run[n].resumed
  BY <1>2 DEF RunFields
<1>4. run' = [run EXCEPT ![n] = r]
  BY <1>1 DEF Domains
<1> HIDE DEF r
<1>5. run'[n] = r /\ jobs'[n] = Cancelled(jobs[n])
  BY <1>1, <1>4 DEF Domains
<1>6. RunStays(n)
  BY <1>3, <1>5 DEF RunStays
<1> QED
  BY <1>1, <1>2, <1>5, <1>6, ReplyMoves

(* The end of a fence write.                                                *)
LEMMA FenceWrittenMoves ==
    ASSUME Domains, NEW n \in Nodes, NodeInv(n), Ready(n), epoch \in Nat,
           ~setting.replayable, FenceWritten(n)
    PROVE  MovesOn(n)
<1> DEFINE s == sync[n]
           refused == Refused(disk[n].dir.fence, s.position, s.payload)
           r == [run[n] EXCEPT !.position = WrittenPosition(s.position, s.payload)]
           target == Target(s.request.held, r.highest)
<1>1. /\ s.at = "fence" /\ late' = late /\ epoch' = epoch
      /\ refused => Fail(n) /\ disk' = disk
      /\ ~refused => Settle(n, r, jobs[n], target)
  BY Zenon DEF FenceWritten, Working, Rest, replicated
<1>2. /\ SyncShape(s) /\ s # NoSync /\ RunShape(run[n]) /\ run[n].open
      /\ run[n].epoch = disk[n].dir.epoch /\ disk[n].dir.epoch = s.request.version.epoch
  BY <1>1, RunningSync
<1>3. CASE refused
  <2>1. Moves(n, disk'[n])
    BY <1>1, <1>3, OperationMoves
  <2> QED
    BY <1>1, <1>3, <2>1, FailMoves
<1>4. CASE ~refused
  <2>1. /\ RunShape(r) /\ r.epoch = run[n].epoch /\ r.highest = run[n].highest
        /\ Outcome(n, r, r.highest, target)
        /\ disk' = [disk EXCEPT ![n] = Effect(n)]
        /\ Effect(n).dir.compacted = disk[n].dir.compacted
    BY <1>4, FenceWrittenOutcome
  <2>2. r.resumed = run[n].resumed
    <3>1. DOMAIN run[n] = RunFields
      BY <1>2 DEF RunShape
    <3> QED
      BY <3>1 DEF RunFields
  <2> HIDE DEF r, refused
  <2>3. Outcomes(r) /\ ~disk[n].dir.compacted
    BY <1>2, <2>2 DEF Outcomes, Ready, RunReady
  <2>4. disk'[n] = Effect(n)
    BY <2>1, DiskWrite
  <2>5. Moves(n, disk'[n]) /\ ~disk'[n].dir.compacted
    BY <1>2, <2>1, <2>3, <2>4, OperationMoves
  <2>6. s.request.held \in Attempts /\ r.highest \in Attempts
    BY <1>2, <2>1, RequestFields DEF SyncShape, RunShape
  <2>7. target \in Attempts
    BY <2>6, RaisedAttempts
  <2>8. r.epoch = epoch => AllKnown(n, r.highest)
    BY <1>2, <2>1 DEF AllKnown, Recalled, Knows
  <2>9. r.epoch = epoch => AllKnown(n, target)
    BY <1>2, <2>1, <2>6, <2>8, RaisedKnown
  <2>10. GoesOn(n, jobs[n])
    <3>1. \A j \in jobs[n] : JobShape(j)
      BY DEF NodeInv, NodeShape
    <3> HIDE DEF target
    <3> QED
      BY <1>1, <1>4, <2>1, <2>3, <2>7, <3>1, SettleGoesOn
  <2>11. s.request.listed /\ late'[n] = late[n]
    BY <1>1 DEF Ready, SyncReady
  <2> HIDE DEF target
  <2>12. NodeMoves(n)
    BY <1>1, <1>2, <2>1, <2>5, <2>8, <2>9, <2>10, <2>11, OutcomeMoves DEF GoesOn
  <2> QED
    BY <2>10, <2>12 DEF GoesOn, MovesOn
<1> QED
  BY <1>3, <1>4

(* A failed disk operation.                                                 *)
LEMMA DiskErrorMoves ==
    ASSUME Domains, NEW n \in Nodes, NodeInv(n), Ready(n), epoch \in Nat, DiskError(n)
    PROVE  MovesOn(n)
<1>1. sync[n] # NoSync /\ late'[n] = late[n] /\ epoch' = epoch
  BY DEF DiskError, Rest, replicated
<1>2. Moves(n, disk'[n])
  <2>1. PICK d \in Remains(n) : disk' = [disk EXCEPT ![n] = d]
    BY DEF DiskError
  <2> QED
    BY <2>1, DiskWrite, OperationMoves
<1>3. CASE sync[n].at = "fence"
  <2>1. Fail(n)
    BY <1>3 DEF DiskError
  <2> QED
    BY <1>1, <1>2, <1>3, <2>1, FailMoves
<1>4. CASE sync[n].at # "fence"
  <2>1. PICK kind : Reply(n, kind, {})
    BY <1>4 DEF DiskError
  <2>2. run' = run /\ jobs' = jobs
    BY <1>4 DEF DiskError
  <2>3. RunStays(n) /\ jobs'[n] = jobs[n]
    BY <2>2 DEF RunStays
  <2> QED
    BY <1>1, <1>2, <2>1, <2>3, ReplyMoves
<1> QED
  BY <1>3, <1>4

(* A sync that is left by its handler, or ends without one.                 *)
LEMMA DropSyncMoves ==
    ASSUME Domains, NEW n \in Nodes, NodeInv(n), Ready(n), epoch \in Nat, DropSync(n)
    PROVE  MovesOn(n)
<1> DEFINE t == [sync[n] EXCEPT !.dropped = TRUE]
<1>1. /\ sync[n] # NoSync /\ disk' = disk /\ run' = run /\ jobs' = jobs /\ calls' = calls
      /\ late' = late /\ epoch' = epoch /\ sync' = [sync EXCEPT ![n] = t]
  BY DEF DropSync, leader, replicated
<1>2. SameSync(sync[n], t)
  <2>1. SyncShape(sync[n]) /\ t = [sync[n] EXCEPT !.dropped = TRUE]
    BY <1>1 DEF NodeInv, NodeShape
  <2> HIDE DEF t
  <2> QED
    BY <2>1, SyncLeft
<1> HIDE DEF t
<1>3. sync'[n] = t /\ SyncStays(n)
  BY <1>1, <1>2 DEF SyncStays, Domains
<1>4. Requests(n)' \subseteq Requests(n)
  <2>1. t.request = sync[n].request
    BY <1>2 DEF SameSync
  <2> QED
    BY <1>1, <1>3, <2>1 DEF Requests
<1>5. Moves(n, disk'[n]) /\ RunStays(n)
  BY <1>1, OperationMoves DEF RunStays
<1> QED
  BY <1>1, <1>3, <1>4, <1>5, StayingMoves, ContinuesAlways DEF MovesOn

(* The disk operation of a dropped sync.                                    *)
LEMMA OrphanEndsMoves ==
    ASSUME Domains, NEW n \in Nodes, NodeInv(n), Ready(n), epoch \in Nat, OrphanEnds(n)
    PROVE  MovesOn(n)
<1>1. /\ sync[n] # NoSync /\ sync' = [sync EXCEPT ![n] = NoSync] /\ run' = run
      /\ jobs' = jobs /\ calls' = calls /\ late' = late /\ epoch' = epoch
  BY DEF OrphanEnds, leader, replicated
<1>2. disk'[n] = disk[n] \/ disk'[n] = Effect(n) \/ disk'[n] \in Remains(n)
  <2>1. \/ disk' = [disk EXCEPT ![n] = disk[n]]
        \/ disk' = [disk EXCEPT ![n] = Effect(n)]
        \/ \E d \in Remains(n) : disk' = [disk EXCEPT ![n] = d]
    BY DEF OrphanEnds
  <2> QED
    BY <2>1, DiskWrite
<1>3. Moves(n, disk'[n]) /\ RunStays(n)
  BY <1>1, <1>2, OperationMoves DEF RunStays
<1>4. sync'[n] = NoSync /\ SyncStays(n) /\ Requests(n)' \subseteq Requests(n)
  BY <1>1 DEF SyncStays, Domains, Requests
<1> QED
  BY <1>1, <1>3, <1>4, StayingMoves, ContinuesAlways DEF MovesOn

(* A request arrives.                                                       *)
LEMMA BeginMoves ==
    ASSUME Domains, NEW n \in Nodes, NodeInv(n), Ready(n), epoch \in Nat,
           NEW q \in Requests(n), NEW live, Begin(n, q, live), late'[n] \subseteq late[n],
           calls'[n] = calls[n] \/ (calls[n] # NoCall /\ calls'[n].request = calls[n].request)
    PROVE  MovesOn(n)
<1> DEFINE t == [at |-> "control", request |-> q, live |-> live, dropped |-> FALSE]
<1>1. /\ sync' = [sync EXCEPT ![n] = t] /\ disk' = disk /\ run' = run /\ jobs' = jobs
      /\ epoch' = epoch
  BY DEF Begin, replicated
<1>2. sync'[n] = t /\ t.at = "control" /\ t.request = q
  BY <1>1 DEF Domains
<1> HIDE DEF t
<1>3. Requests(n)' \subseteq Requests(n)
  BY <1>2 DEF Requests
<1>4. Moves(n, disk'[n]) /\ RunStays(n) /\ SyncStays(n)
  BY <1>1, <1>2, OperationMoves DEF RunStays, SyncStays
<1> QED
  BY <1>1, <1>3, <1>4, StayingMoves, ContinuesAlways DEF MovesOn

(* It does so on its call or late.                                          *)
LEMMA ReceiveMoves ==
    ASSUME Domains, NEW n \in Nodes, NodeInv(n), Ready(n), epoch \in Nat,
           Receive(n) \/ ReceiveLate(n)
    PROVE  MovesOn(n)
<1>1. CASE Receive(n)
  <2> DEFINE q == calls[n].request
             k == Call("inside", q, NoAnswer)
  <2>1. /\ calls[n].state = "sent" /\ calls' = [calls EXCEPT ![n] = k]
        /\ Begin(n, q, TRUE) /\ late' = late
    BY <1>1 DEF Receive
  <2>2. calls[n] # NoCall /\ q \in Requests(n)
    BY <2>1 DEF NoCall, Requests
  <2>3. k.request = q
    BY DEF Call
  <2> HIDE DEF k
  <2>4. calls'[n].request = q
    BY <2>1, <2>3 DEF Domains
  <2> QED
    BY <2>1, <2>2, <2>4, BeginMoves
<1>2. CASE ReceiveLate(n)
  <2>1. PICK q \in late[n] : Begin(n, q, FALSE)
    BY <1>2 DEF ReceiveLate
  <2>2. late' = [late EXCEPT ![n] = {}] /\ calls' = calls
    BY <1>2 DEF ReceiveLate
  <2>3. late'[n] \subseteq late[n] /\ q \in Requests(n)
    BY <2>2 DEF Domains, Requests
  <2> QED
    BY <2>1, <2>2, <2>3, BeginMoves
<1> QED
  BY <1>1, <1>2

-----------------------------------------------------------------------------
(* The steps of a chunk's tasks, and a node's crashes.                      *)

(* A step of a job names no attempt.                                        *)
LEMMA JobSteppedMoves ==
    ASSUME NEW n, NodeInv(n), Ready(n), epoch \in Nat, epoch' = epoch, JobStepped(n),
           disk'[n].dir.ledger \in [Tasks -> Seq(Records)]
    PROVE  NodeMoves(n)
<1>1. /\ disk'[n].control = disk[n].control /\ disk'[n].dir.exists = disk[n].dir.exists
      /\ disk'[n].dir.epoch = disk[n].dir.epoch /\ disk'[n].dir.fence = disk[n].dir.fence
      /\ disk'[n].dir.compacted = disk[n].dir.compacted
      /\ disk'[n].dir.markers = disk[n].dir.markers
  BY DEF JobStepped, LedgerOnly
<1>2. /\ NodeShape(n) /\ Sound(disk[n]) /\ disk[n].control \in Version
      /\ disk[n].control.epoch <= epoch /\ ~Stale(disk[n].control, disk[n].control)
  BY StaleOrder DEF NodeInv, NodeShape, DiskShape, Ready, Sound
<1> DEFINE x == disk'[n]
<1>3. Moves(n, x)
  <2>1. x.dir.ledger \in [Tasks -> Seq(Records)] /\ disk[n].dir.markers \subseteq x.dir.markers
    BY <1>1
  <2> HIDE DEF x
  <2> QED
    BY <1>1, <1>2, <2>1, KeepsFiles DEF x
<1>4. RunStays(n)
  BY DEF JobStepped, RunNote, RunStays
<1>5. sync'[n] = sync[n] /\ calls'[n] = calls[n] /\ late'[n] = late[n]
  BY DEF JobStepped, JobFrame
<1>6. SyncStays(n) /\ Requests(n)' \subseteq Requests(n)
  BY <1>5 DEF SyncStays, SameSync, Requests
<1> QED
  BY <1>3, <1>4, <1>6, StayingMoves

(* Jobs j and k differ in task t only.                                      *)
Differs(j, k, t, v) ==
    \A u \in DOMAIN j.tasks : k.tasks[u] = IF u = t THEN v ELSE j.tasks[u]

(* A job one task of which no longer waits goes on.                         *)
LEMMA TaskGoesOn ==
    ASSUME NEW j, JobShape(j), NEW t, NEW v, v # "todo",
           v \notin Unfinished \/ j.tasks[t] \in Unfinished, NEW k, k = [j EXCEPT !.tasks[t] = v]
    PROVE  SameWork(j, k) /\ Differs(j, k, t, v)
<1> DEFINE ts == [j.tasks EXCEPT ![t] = v]
<1>1. DOMAIN j = JobFields
  BY DEF JobShape
<1>2. k = [j EXCEPT !.tasks = ts]
  BY <1>1 DEF JobFields
<1>3. DOMAIN ts = DOMAIN j.tasks /\ \A u \in DOMAIN j.tasks : ts[u] = IF u = t THEN v ELSE j.tasks[u]
  OBVIOUS
<1> HIDE DEF ts
<1>4. /\ k.chunk = j.chunk /\ k.attempt = j.attempt /\ k.epoch = j.epoch /\ k.tasks = ts
  BY <1>1, <1>2 DEF JobFields
<1> QED
  BY <1>3, <1>4 DEF SameWork, Differs

(* Jobs go on when one of them is replaced by one that does.                *)
LEMMA ReplacedGoOn ==
    ASSUME NEW old, NEW new, NEW j \in old, NEW k, SameWork(j, k),
           new \subseteq (old \ {j}) \cup {k}
    PROVE  Continues(old, new)
<1> DEFINE F == [i \in old |-> IF i = j THEN k ELSE i]
<1>1. \A i \in old : F[i] = IF i = j THEN k ELSE i
  OBVIOUS
<1>2. \A i \in new : \E h \in old : i = F[h]
  BY <1>1
<1>3. \A i \in old : SameWork(i, i)
  BY DEF SameWork
<1>4. \A i \in old : SameWork(i, F[i])
  BY <1>1, <1>3
<1> HIDE DEF F
<1> QED
  BY <1>2, <1>4 DEF Continues

(* The jobs after a step of one of them.                                    *)
LEMMA ReplaceGoesOn ==
    ASSUME Domains, NEW n \in Nodes, NodeInv(n), NEW j \in jobs[n], NEW t, NEW v,
           v \notin Unfinished,
           \/ Replace(n, j, {[j EXCEPT !.tasks[t] = v]})
           \/ Replace(n, j, {})
    PROVE  Continues(jobs[n], jobs'[n])
<1> DEFINE k == [j EXCEPT !.tasks[t] = v]
<1>1. JobShape(j) /\ k = [j EXCEPT !.tasks[t] = v]
  BY DEF NodeInv, NodeShape
<1>2. jobs'[n] \subseteq (jobs[n] \ {j}) \cup {k}
  BY DEF Replace, Domains
<1> HIDE DEF k
<1>3. SameWork(j, k)
  <2>1. v # "todo"
    BY DEF Unfinished
  <2> QED
    BY <1>1, <2>1, TaskGoesOn
<1> QED
  BY <1>2, <1>3, ReplacedGoOn

(* What a ledger holds are records.                                         *)
LEMMA LedgerRecords ==
    ASSUME NEW l \in [Tasks -> Seq(Records)], NEW t \in Tasks, NEW j, JobShape(j), NEW o \in Ended
    PROVE  Append(l[t], [attempt |-> j.attempt, outcome |-> o]) \in Seq(Records)
<1> DEFINE e == [attempt |-> j.attempt, outcome |-> o]
<1>1. e \in Records
  BY DEF JobShape, Records
<1>2. l[t] \in Seq(Records)
  OBVIOUS
<1> HIDE DEF e
<1>3. Append(l[t], e) \in Seq(Records)
  BY <1>1, <1>2
<1> QED
  BY <1>3 DEF e

(* A new ledger on an otherwise unchanged disk.                             *)
LEMMA LedgerOf ==
    ASSUME NEW n, NodeInv(n), NEW l, NEW x, x = [disk[n] EXCEPT !.dir.ledger = l]
    PROVE  x.dir.ledger = l
<1> DEFINE d == disk[n]
<1>1. DOMAIN d = DiskFields /\ DOMAIN d.dir = DirFields
  BY DEF NodeInv, NodeShape, DiskShape
<1> HIDE DEF d
<1> QED
  BY <1>1 DEF DiskFields, DirFields, d

(* The records of a task that ended.                                        *)
LEMMA EndTaskLedger ==
    ASSUME Domains, NEW n \in Nodes, NodeInv(n), Ready(n), NEW j \in jobs[n],
           NEW t \in DOMAIN j.tasks, NEW o \in Ended, disk' = Append1(n, j, t, o)
    PROVE  disk'[n].dir.ledger \in [Tasks -> Seq(Records)]
<1>1. JobShape(j) /\ t \in Tasks /\ disk[n].dir.ledger \in [Tasks -> Seq(Records)]
  BY DEF NodeInv, NodeShape, JobShape, Ready, Sound
<1>2. CASE ~InLedger(n, j)
  BY <1>1, <1>2 DEF Append1
<1>3. CASE InLedger(n, j)
  <2> DEFINE rec == [attempt |-> j.attempt, outcome |-> o]
             old == disk[n].dir.ledger
             l == [old EXCEPT ![t] = Append(old[t], rec)]
             x == [disk[n] EXCEPT !.dir.ledger = l]
  <2>1. disk' = [disk EXCEPT ![n].dir.ledger[t] = Append(@, rec)]
    BY <1>3 DEF Append1
  <2>2. Append(old[t], rec) \in Seq(Records)
    BY <1>1, LedgerRecords
  <2>3. disk' = [disk EXCEPT ![n] = x]
    <3>1. DOMAIN disk[n] = DiskFields /\ DOMAIN disk[n].dir = DirFields
      BY DEF NodeInv, NodeShape, DiskShape
    <3> HIDE DEF rec
    <3> QED
      BY <2>1, <3>1, Zenon DEF Domains, DiskFields, DirFields
  <2>4. l \in [Tasks -> Seq(Records)]
    <3> DEFINE s == Append(old[t], rec)
    <3> HIDE DEF s, old
    <3>1. s \in Seq(Records) /\ old \in [Tasks -> Seq(Records)]
      BY <1>1, <2>2 DEF s, old
    <3>2. l = [old EXCEPT ![t] = s]
      BY DEF s
    <3> HIDE DEF l
    <3> QED
      BY <1>1, <3>1, <3>2
  <2>5. x = [disk[n] EXCEPT !.dir.ledger = l]
    OBVIOUS
  <2> HIDE DEF l, x
  <2>6. x.dir.ledger = l
    <3> DEFINE d == disk[n]
    <3>1. DOMAIN d = DiskFields /\ DOMAIN d.dir = DirFields
      BY DEF NodeInv, NodeShape, DiskShape
    <3>2. x = [d EXCEPT !.dir.ledger = l]
      BY <2>5
    <3> HIDE DEF d
    <3> QED
      BY <3>1, <3>2 DEF DiskFields, DirFields
  <2>7. disk'[n] = x
    BY <2>3 DEF Domains
  <2> QED
    BY <2>4, <2>6, <2>7
<1> QED
  BY <1>2, <1>3

(* The last records of a chunk.                                             *)
LEMMA FinishChunkLedger ==
    ASSUME Domains, NEW n \in Nodes, NodeInv(n), Ready(n), NEW j \in jobs[n], FinishChunk(n, j)
    PROVE  disk'[n].dir.ledger \in [Tasks -> Seq(Records)]
<1> DEFINE old == disk[n].dir.ledger
           l == [t \in Tasks |->
                   IF InLedger(n, j) /\ t \in DOMAIN j.tasks /\ j.tasks[t] \notin Ended
                   THEN Append(old[t], [attempt |-> j.attempt, outcome |-> "notrun"])
                   ELSE old[t]]
           x == [disk[n] EXCEPT !.dir.ledger = l]
<1>1. disk' = [disk EXCEPT ![n] = x]
  BY Zenon DEF FinishChunk, Domains
<1>2. JobShape(j) /\ old \in [Tasks -> Seq(Records)] /\ "notrun" \in Ended
  BY DEF NodeInv, NodeShape, Ready, Sound, Ended
<1>3. l \in [Tasks -> Seq(Records)]
  <2> HIDE DEF old
  <2>1. ASSUME NEW t \in Tasks
        PROVE  l[t] \in Seq(Records)
    <3>1. Append(old[t], [attempt |-> j.attempt, outcome |-> "notrun"]) \in Seq(Records)
      BY <1>2, LedgerRecords
    <3>2. old[t] \in Seq(Records)
      BY <1>2
    <3> QED
      BY <3>1, <3>2
  <2>2. l = [t \in Tasks |-> l[t]]
    OBVIOUS
  <2> HIDE DEF l
  <2> QED
    BY <2>1, <2>2
<1>4. x = [disk[n] EXCEPT !.dir.ledger = l]
  OBVIOUS
<1> HIDE DEF l, x
<1>5. x.dir.ledger = l /\ disk'[n] = x
  BY <1>1, <1>4, LedgerOf, DiskWrite
<1> QED
  BY <1>3, <1>5

(* The steps of jobs that start no task.                                    *)
LEMMA JobStepsMove ==
    ASSUME Domains, NEW n \in Nodes, NodeInv(n), Ready(n), epoch \in Nat, epoch' = epoch,
           NEW j \in jobs[n], NEW t \in DOMAIN j.tasks, NEW o \in Ended,
           EndTask(n, j, t, o) \/ LoseTask(n, j, t) \/ AppendFails(n, j, t)
    PROVE  MovesOn(n)
<1>1. disk[n].dir.ledger \in [Tasks -> Seq(Records)]
  BY DEF Ready, Sound
<1>2. CASE EndTask(n, j, t, o)
  <2>1. disk' = Append1(n, j, t, o) /\ Replace(n, j, {[j EXCEPT !.tasks[t] = o]})
    BY <1>2 DEF EndTask
  <2>2. JobStepped(n) /\ disk'[n].dir.ledger \in [Tasks -> Seq(Records)]
    BY <1>2, <2>1, EndTaskKeeps, EndTaskLedger
  <2>3. o \notin Unfinished
    BY DEF Ended, Unfinished
  <2>4. Continues(jobs[n], jobs'[n])
    BY <2>1, <2>3, ReplaceGoesOn
  <2> QED
    BY <2>2, <2>4, JobSteppedMoves DEF MovesOn
<1>3. CASE LoseTask(n, j, t)
  <2>1. disk' = disk /\ Replace(n, j, {[j EXCEPT !.tasks[t] = "lost"]})
    BY <1>3 DEF LoseTask
  <2>2. JobStepped(n) /\ disk'[n].dir.ledger \in [Tasks -> Seq(Records)]
    BY <1>1, <1>3, <2>1, LoseTaskKeeps
  <2>3. Continues(jobs[n], jobs'[n])
    <3>1. "lost" \notin Unfinished
      BY DEF Unfinished
    <3> QED
      BY <2>1, <3>1, ReplaceGoesOn
  <2> QED
    BY <2>2, <2>3, JobSteppedMoves DEF MovesOn
<1>4. CASE AppendFails(n, j, t)
  <2>1. disk' = disk /\ jobs' = [jobs EXCEPT ![n] = Cancelled(jobs[n] \ {j})]
    BY <1>4 DEF AppendFails
  <2>2. JobStepped(n) /\ disk'[n].dir.ledger \in [Tasks -> Seq(Records)]
    BY <1>1, <1>4, <2>1, AppendFailsKeeps
  <2>3. jobs'[n] = Cancelled(jobs[n] \ {j})
    BY <2>1 DEF Domains
  <2>4. Continues(jobs[n], jobs'[n])
    <3> DEFINE rest == jobs[n] \ {j}
    <3>1. Continues(jobs[n], rest) /\ \A i \in rest : JobShape(i)
      BY ContinuesAlways DEF NodeInv, NodeShape
    <3> HIDE DEF rest
    <3>2. Continues(rest, Cancelled(rest))
      BY <3>1, AllCancelled
    <3> QED
      BY <2>3, <3>1, <3>2, ContinuesTwice DEF rest
  <2> QED
    BY <2>2, <2>4, JobSteppedMoves DEF MovesOn
<1> QED
  BY <1>2, <1>3, <1>4

(* The end of a chunk.                                                      *)
LEMMA FinishChunkMoves ==
    ASSUME Domains, NEW n \in Nodes, NodeInv(n), Ready(n), epoch \in Nat, epoch' = epoch,
           NEW j \in jobs[n], FinishChunk(n, j)
    PROVE  MovesOn(n)
<1>1. JobStepped(n) /\ disk'[n].dir.ledger \in [Tasks -> Seq(Records)]
  BY FinishChunkKeeps, FinishChunkLedger
<1>2. Replace(n, j, {})
  BY DEF FinishChunk
<1>3. jobs'[n] \subseteq jobs[n]
  BY <1>2 DEF Replace, Domains
<1> QED
  BY <1>1, <1>3, JobSteppedMoves, ContinuesAlways DEF MovesOn

(* A crash or a restart.                                                    *)
LEMMA CrashesMove ==
    ASSUME Domains, NEW n \in Nodes, NodeInv(n), Ready(n), epoch \in Nat, epoch' = epoch,
           Crash(n) \/ Restart(n)
    PROVE  MovesOn(n)
<1>1. CASE Crash(n)
  <2> DEFINE k == IF calls[n].state = "inside" THEN NoCall ELSE calls[n]
  <2>1. /\ run' = [run EXCEPT ![n] = NoRun] /\ jobs' = [jobs EXCEPT ![n] = {}]
        /\ sync' = [sync EXCEPT ![n] = NoSync] /\ late' = late
    BY <1>1 DEF Crash
  <2>2. calls' = [calls EXCEPT ![n] = k]
    BY <1>1 DEF Crash, Domains
  <2>3. k = NoCall \/ k = calls[n]
    OBVIOUS
  <2>4. PICK x \in Remains(n) : disk' = [disk EXCEPT ![n] = x]
    BY <1>1 DEF Crash
  <2>5. Moves(n, disk'[n])
    BY <2>4, DiskWrite, OperationMoves
  <2> HIDE DEF k
  <2>6. /\ run'[n] = NoRun /\ jobs'[n] = {} /\ sync'[n] = NoSync /\ late'[n] = late[n]
        /\ calls'[n] = k
    BY <2>1, <2>2 DEF Domains
  <2>7. RunStays(n) /\ SyncStays(n)
    BY <2>6 DEF RunStays, SyncStays, NoRun
  <2>8. Requests(n)' \subseteq Requests(n)
    BY <2>3, <2>6 DEF Requests
  <2>9. Continues(jobs[n], jobs'[n])
    BY <2>6, ContinuesAlways
  <2> QED
    BY <2>5, <2>7, <2>8, <2>9, StayingMoves DEF MovesOn
<1>2. CASE Restart(n)
  <2>1. /\ disk' = disk /\ run' = run /\ jobs' = jobs /\ sync' = sync /\ calls' = calls
        /\ late' = late
    BY <1>2 DEF Restart, leader
  <2>2. Moves(n, disk'[n]) /\ RunStays(n) /\ SyncStays(n) /\ Requests(n)' \subseteq Requests(n)
    BY <2>1, OperationMoves DEF RunStays, SyncStays, SameSync, Requests
  <2> QED
    BY <2>1, <2>2, StayingMoves, ContinuesAlways DEF MovesOn
<1> QED
  BY <1>1, <1>2
(* After task t of job j was started, and j became k, no task waits at the  *)
(* node that did not, and this one does not any more.                       *)
Started(n, j, t, k) ==
    \A i \in jobs'[n] : \A u : Waits(i, u) =>
        \E h \in jobs[n] : /\ Waits(h, u) /\ h.attempt = i.attempt
                           /\ i = IF h = j THEN k ELSE h
                           /\ ~(h = j /\ u = t)

(* Such are the jobs of a node after one of its tasks was started.          *)
LEMMA LaunchedJobs ==
    ASSUME Domains, NEW n \in Nodes, NodeInv(n), NEW j \in jobs[n], NEW t, j.tasks[t] = "todo",
           Replace(n, j, {[j EXCEPT !.tasks[t] = "running"]})
    PROVE  /\ Continues(jobs[n], jobs'[n])
           /\ \E k : Started(n, j, t, k)
<1> DEFINE k == [j EXCEPT !.tasks[t] = "running"]
<1>1. JobShape(j) /\ k = [j EXCEPT !.tasks[t] = "running"] /\ "running" # "todo"
  BY DEF NodeInv, NodeShape
<1>2. j.tasks[t] \in Unfinished
  BY DEF Unfinished
<1>3. jobs'[n] = (jobs[n] \ {j}) \cup {k}
  BY DEF Replace, Domains
<1> HIDE DEF k
<1>4. SameWork(j, k) /\ Differs(j, k, t, "running")
  BY <1>1, <1>2, TaskGoesOn
<1>5. Continues(jobs[n], jobs'[n])
  BY <1>3, <1>4, ReplacedGoOn
<1>6. ASSUME NEW i \in jobs'[n], NEW u, Waits(i, u)
      PROVE  \E h \in jobs[n] : /\ Waits(h, u) /\ h.attempt = i.attempt
                                /\ i = IF h = j THEN k ELSE h
                                /\ ~(h = j /\ u = t)
  <2>1. CASE i = k
    <3>1. Waits(j, u) /\ j.attempt = i.attempt /\ u # t
      BY <1>4, <1>6, <2>1 DEF Waits, SameWork, Differs
    <3> QED
      BY <2>1, <3>1
  <2>2. CASE i # k
    BY <1>3, <1>6, <2>2
  <2> QED
    BY <2>1, <2>2
<1> QED
  BY <1>6, <1>5 DEF Started

(* The count of launches after a task was started.                          *)
LEMMA LaunchCounted ==
    ASSUME Counts, NEW t \in Tasks, NEW a, setting' = setting,
           launches' = [launches EXCEPT ![t][a] = @ + 1]
    PROVE  /\ Counts'
           /\ \A u \in Tasks, b \in 1 .. setting.attempts :
                 launches'[u][b] = IF u = t /\ b = a THEN launches[u][b] + 1 ELSE launches[u][b]
<1> DEFINE B == 1 .. setting.attempts
           row == [launches[t] EXCEPT ![a] = launches[t][a] + 1]
<1>1. launches' = [launches EXCEPT ![t] = row]
  BY DEF Counts
<1>2. launches \in [Tasks -> [B -> Nat]]
  BY DEF Counts
<1> HIDE DEF B
<1>3. /\ row \in [B -> Nat]
      /\ \A b \in B : row[b] = IF b = a THEN launches[t][b] + 1 ELSE launches[t][b]
  <2> DEFINE old == launches[t]
             v == old[a] + 1
  <2>1. old \in [B -> Nat] /\ (a \in B => v \in Nat) /\ row = [old EXCEPT ![a] = v]
    BY <1>2
  <2>2. v = old[a] + 1
    OBVIOUS
  <2> HIDE DEF old, v, row
  <2>3. DOMAIN row = B /\ \A b \in B : row[b] = IF b = a THEN v ELSE old[b]
    BY <2>1
  <2>4. row = [b \in B |-> row[b]]
    BY <2>1
  <2>5. \A b \in B : row[b] \in Nat
    BY <2>1, <2>3
  <2> QED
    BY <2>2, <2>3, <2>4, <2>5 DEF old
<1> HIDE DEF row
<1>4. /\ launches' \in [Tasks -> [B -> Nat]]
      /\ \A u \in Tasks : launches'[u] = IF u = t THEN row ELSE launches[u]
  BY <1>1, <1>2, <1>3
<1>5. Counts'
  BY <1>4 DEF Counts, B
<1>6. ASSUME NEW u \in Tasks, NEW b \in B
      PROVE  launches'[u][b] = IF u = t /\ b = a THEN launches[u][b] + 1 ELSE launches[u][b]
  BY <1>3, <1>4
<1> QED
  BY <1>5, <1>6 DEF B

(* A task that is started was not started at this attempt before: it waited. *)
LEMMA LaunchTaskOnce ==
    ASSUME Inv, OnceInv, NEW n \in Nodes, NEW j \in jobs[n], NEW t \in DOMAIN j.tasks,
           LaunchTask(n, j, t), StoreFrame, setting' = setting
    PROVE  OnceInv'
<1>1. /\ Domains /\ NodeInv(n) /\ Ready(n) /\ epoch \in Nat /\ epoch' = epoch /\ array' = array
      /\ JobShape(j) /\ t \in Tasks
  BY LeaderTypes DEF Inv, LeaderInv, OnceInv, NodeInv, NodeShape, JobShape, StoreFrame
<1>2. /\ j.tasks[t] = "todo" /\ disk' = disk
      /\ Replace(n, j, {[j EXCEPT !.tasks[t] = "running"]})
      /\ j.epoch = epoch => launches' = [launches EXCEPT ![t][j.attempt] = @ + 1]
      /\ j.epoch # epoch => launches' = launches
  BY DEF LaunchTask
<1>3. NodeKept(n) /\ JobStepped(n)
  BY <1>1, LaunchTaskKeeps
<1>4. Others(n) /\ \A m \in Nodes \ {n} : jobs'[m] = jobs[m]
  BY <1>3 DEF NodeKept, Others
<1>5. NodeMoves(n)
  <2>1. disk'[n].dir.ledger \in [Tasks -> Seq(Records)]
    BY <1>1, <1>2 DEF Ready, Sound
  <2> QED
    BY <1>1, <1>3, <2>1, JobSteppedMoves
<1>6. Continues(jobs[n], jobs'[n])
  BY <1>1, <1>2, LaunchedJobs
<1>7. CASE j.epoch # epoch
  BY <1>2, <1>4, <1>5, <1>6, <1>7, NodeGoesOn
<1>8. CASE j.epoch = epoch
  <2>1. PICK k : Started(n, j, t, k)
    BY <1>1, <1>2, LaunchedJobs
  <2>2. \A i, u : Waits(i, u)' = Waits(i, u)
    BY <1>1 DEF Waits
  <2>3. ASSUME NEW m \in Nodes, NEW i \in jobs'[m], NEW u, Waits(i, u)'
        PROVE  \E h \in jobs[m] : /\ Waits(h, u) /\ h.attempt = i.attempt
                                  /\ i = IF m = n /\ h = j THEN k ELSE h
                                  /\ ~(m = n /\ h = j /\ u = t)
    <3>1. CASE m = n
      BY <2>1, <2>2, <2>3, <3>1 DEF Started
    <3>2. CASE m # n
      <4>1. i \in jobs[m]
        BY <1>4, <3>2
      <4> QED
        BY <2>2, <2>3, <3>2, <4>1
    <3> QED
      BY <3>1, <3>2
  <2>4. Waits(j, t) /\ ~Launched(t, j.attempt) /\ WaitsOnce /\ Counts /\ Single
    BY <1>1, <1>2, <1>8 DEF Waits, OnceInv, WaitsOnce
  <2>5. /\ Counts'
        /\ \A u \in Tasks, b \in 1 .. setting.attempts : launches'[u][b] =
              IF u = t /\ b = j.attempt THEN launches[u][b] + 1 ELSE launches[u][b]
    BY <1>1, <1>2, <1>8, <2>4, LaunchCounted
  <2>6. \A b : \A u \in Tasks : Launched(u, b)' => Launched(u, b) \/ (u = t /\ b = j.attempt)
    BY <2>5 DEF Launched
  <2>7. \A b : \A u \in Tasks : Used(u, b)' => Used(u, b)
    <3> SUFFICES ASSUME NEW u \in Tasks, NEW b, Used(u, b)'
                 PROVE  Used(u, b)
      OBVIOUS
    <3>1. CASE Launched(u, b)'
      BY <2>4, <2>6, <3>1 DEF Used
    <3>2. CASE \E m \in Nodes : \E i \in jobs'[m] : Waits(i, u)' /\ i.attempt = b
      BY <2>3, <3>2 DEF Used
    <3> QED
      BY <3>1, <3>2 DEF Used
  <2>8. WaitsOnce'
    <3> SUFFICES ASSUME NEW p \in Nodes, NEW i \in jobs'[p], NEW u \in Tasks, Waits(i, u)'
                 PROVE  /\ ~Launched(u, i.attempt)'
                        /\ \A m \in Nodes : \A h \in jobs'[m] :
                              Waits(h, u)' /\ h.attempt = i.attempt => m = p /\ h = i
      BY DEF WaitsOnce
    <3>1. PICK i0 \in jobs[p] : /\ Waits(i0, u) /\ i0.attempt = i.attempt
                                /\ i = IF p = n /\ i0 = j THEN k ELSE i0
                                /\ ~(p = n /\ i0 = j /\ u = t)
      BY <2>3
    <3>2. ~Launched(u, i.attempt)'
      <4>1. ~Launched(u, i.attempt)
        BY <2>4, <3>1 DEF WaitsOnce
      <4>2. ~(u = t /\ i.attempt = j.attempt)
        BY <2>4, <3>1 DEF WaitsOnce
      <4> QED
        BY <2>6, <4>1, <4>2
    <3>3. ASSUME NEW m \in Nodes, NEW h \in jobs'[m], Waits(h, u)', h.attempt = i.attempt
          PROVE  m = p /\ h = i
      <4>1. PICK h0 \in jobs[m] : /\ Waits(h0, u) /\ h0.attempt = h.attempt
                                  /\ h = IF m = n /\ h0 = j THEN k ELSE h0
        BY <2>3, <3>3
      <4>2. m = p /\ h0 = i0
        BY <2>4, <3>1, <3>3, <4>1 DEF WaitsOnce
      <4> QED
        BY <3>1, <4>1, <4>2
    <3> QED
      BY <3>2, <3>3
  <2>9. Single'
    <3> SUFFICES ASSUME NEW u \in Tasks, NEW b \in 1 .. setting.attempts
                 PROVE  launches'[u][b] <= 1
      BY DEF Single
    <3>1. launches[u][b] \in Nat /\ launches[u][b] <= 1
      BY <2>4 DEF Counts, Single
    <3>2. u = t /\ b = j.attempt => launches[u][b] = 0
      BY <2>4, <3>1 DEF Launched
    <3> QED
      BY <2>5, <3>1, <3>2
  <2>10. JobsReady(n)'
    <3>1. PICK F : /\ \A i \in jobs'[n] : \E h \in jobs[n] : i = F[h]
                   /\ \A h \in jobs[n] : SameWork(h, F[h])
      BY <1>6 DEF Continues
    <3> QED
      BY <1>1, <3>1 DEF JobsReady, SameWork, Ready
  <2>11. Learns /\ GrantsFit' /\ Apart' /\ \A m \in Nodes : Ready(m)'
    BY <1>4, <1>5, <2>10, NodeReady
  <2>12. UsedIsSpent'
    BY <1>1, <2>7, <2>11, UsedKept DEF OnceInv
  <2> QED
    BY <2>5, <2>8, <2>9, <2>11, <2>12 DEF OnceInv
<1> QED
  BY <1>7, <1>8
-----------------------------------------------------------------------------
(* The start of a chunk.                                                    *)

(* A task is in one chunk only.                                             *)
LEMMA OneChunk ==
    ASSUME NEW c \in Chunks, NEW d \in Chunks, NEW t, t \in ChunkRange(c), t \in ChunkRange(d)
    PROVE  c = d
<1>1. c \in Nat /\ d \in Nat /\ ChunkSize \in Nat \ {0} /\ t \in Nat
  BY ArrayAssumption, LastChunkFacts DEF Chunks, ChunkRange, Tasks
<1>2. /\ c * ChunkSize <= t /\ t < (c + 1) * ChunkSize
      /\ d * ChunkSize <= t /\ t < (d + 1) * ChunkSize
  BY DEF ChunkRange
<1>3. ASSUME NEW x \in Nat, NEW y \in Nat, x < y
      PROVE  (x + 1) * ChunkSize <= y * ChunkSize
  <2>1. PICK k \in Nat : y = x + 1 + k
    <3>1. y - (x + 1) \in Nat /\ y = x + 1 + (y - (x + 1))
      BY <1>3
    <3> QED
      BY <3>1
  <2>2. y * ChunkSize = (x + 1) * ChunkSize + k * ChunkSize
    BY <1>1, <2>1
  <2>3. k * ChunkSize \in Nat /\ (x + 1) * ChunkSize \in Nat
    BY <1>1
  <2> QED
    BY <2>2, <2>3
<1>4. c * ChunkSize \in Nat /\ d * ChunkSize \in Nat /\ (c + 1) * ChunkSize \in Nat
      /\ (d + 1) * ChunkSize \in Nat
  BY <1>1
<1>5. ~(c < d)
  BY <1>1, <1>2, <1>3, <1>4
<1>6. ~(d < c)
  BY <1>1, <1>2, <1>3, <1>4
<1> QED
  BY <1>1, <1>5, <1>6

(* A chunk may start at an attempt that nobody has used and that is spent   *)
(* with the one node that knows of it when the step is over.                *)
LEMMA NewJobOnce ==
    ASSUME Inv, OnceInv, NEW n \in Nodes, StoreFrame, Others(n), NodeMoves(n),
           setting' = setting, launches' = launches,
           NEW c \in Chunks, NEW a \in Tries, NEW j, j.attempt = a,
           jobs'[n] = jobs[n] \cup {j}, JobsReady(n)',
           \A u : Waits(j, u) => u \in ChunkRange(c) /\ ~Used(u, a),
           \A u : Waits(j, u) => Knows(n, c, a) /\ Spent(n, c, a)'
    PROVE  OnceInv'
<1>1. /\ epoch' = epoch /\ array' = array /\ UsedIsSpent /\ WaitsOnce /\ GrantsFit /\ Apart
      /\ \A m \in Nodes \ {n} : jobs'[m] = jobs[m]
  BY DEF StoreFrame, OnceInv, Others
<1>2. Learns /\ GrantsFit' /\ Apart' /\ \A m \in Nodes : Ready(m)'
  BY NodeReady
<1>3. \A i, u : Waits(i, u)' = Waits(i, u)
  BY <1>1 DEF Waits
<1>4. \A u, b : Launched(u, b)' = Launched(u, b)
  BY DEF Launched
<1>5. \A m \in Nodes : \A i \in jobs'[m] : i \in jobs[m] \/ (m = n /\ i = j)
  BY <1>1
<1>6. \A u, b : Used(u, b)' => Used(u, b) \/ (Waits(j, u) /\ b = a)
  <2> SUFFICES ASSUME NEW u, NEW b, Used(u, b)'
               PROVE  Used(u, b) \/ (Waits(j, u) /\ b = a)
    OBVIOUS
  <2>1. CASE Launched(u, b)'
    BY <1>4, <2>1 DEF Used
  <2>2. CASE \E m \in Nodes : \E i \in jobs'[m] : Waits(i, u)' /\ i.attempt = b
    BY <1>3, <1>5, <2>2 DEF Used
  <2> QED
    BY <2>1, <2>2 DEF Used
<1>7. UsedIsSpent'
  <2> SUFFICES ASSUME NEW d \in Chunks, NEW t \in ChunkRange(d), NEW b \in Tries, Used(t, b)'
               PROVE  /\ \A m \in Nodes : Knows(m, d, b)' => Spent(m, d, b)'
                      /\ \/ d \in array.done
                         \/ b < array.attempts[d]
                         \/ b = array.attempts[d] /\ d \notin array.queued
    BY <1>1 DEF UsedIsSpent
  <2>1. CASE Used(t, b)
    BY <1>1, <1>2, <2>1 DEF UsedIsSpent, Learns
  <2>2. CASE ~Used(t, b)
    <3>1. Waits(j, t) /\ b = a
      BY <1>6, <2>2
    <3>2. d = c /\ Knows(n, c, a) /\ Spent(n, c, a)'
      BY <3>1, OneChunk
    <3>3. ASSUME NEW m \in Nodes, Knows(m, d, b)'
          PROVE  Spent(m, d, b)'
      <4>1. Knows(m, c, a)
        BY <1>2, <3>1, <3>2, <3>3 DEF Learns
      <4>2. m = n
        BY <1>1, <3>2, <4>1 DEF Apart
      <4> QED
        BY <3>1, <3>2, <4>2
    <3>4. \/ d \in array.done \/ b < array.attempts[d]
          \/ b = array.attempts[d] /\ d \in array.grants[n]
      BY <1>1, <3>1, <3>2 DEF GrantsFit
    <3>5. d \in array.grants[n] => d \notin array.queued
      BY PlacedIs DEF Inv, LeaderInv, ValidSnapshot, Placed
    <3> QED
      BY <3>3, <3>4, <3>5
  <2> QED
    BY <2>1, <2>2
<1>8. WaitsOnce'
  <2> SUFFICES ASSUME NEW p \in Nodes, NEW i \in jobs'[p], NEW u \in Tasks, Waits(i, u)
               PROVE  /\ ~Launched(u, i.attempt)
                      /\ \A m \in Nodes : \A h \in jobs'[m] :
                            Waits(h, u) /\ h.attempt = i.attempt => m = p /\ h = i
    BY <1>3, <1>4 DEF WaitsOnce
  <2>1. CASE i \in jobs[p]
    <3>1. Used(u, i.attempt)
      BY <2>1 DEF Used
    <3>2. ASSUME NEW m \in Nodes, NEW h \in jobs'[m], Waits(h, u), h.attempt = i.attempt
          PROVE  m = p /\ h = i
      <4>1. h \in jobs[m]
        BY <1>5, <3>1, <3>2
      <4> QED
        BY <1>1, <2>1, <3>2, <4>1 DEF WaitsOnce
    <3> QED
      BY <1>1, <2>1, <3>2 DEF WaitsOnce
  <2>2. CASE i \notin jobs[p]
    <3>1. p = n /\ i = j /\ ~Used(u, a)
      BY <1>5, <2>2
    <3>2. ASSUME NEW m \in Nodes, NEW h \in jobs'[m], Waits(h, u), h.attempt = i.attempt
          PROVE  m = p /\ h = i
      <4>1. h \notin jobs[m]
        BY <3>1, <3>2 DEF Used
      <4> QED
        BY <1>5, <3>1, <4>1
    <3> QED
      BY <3>1, <3>2 DEF Used
  <2> QED
    BY <2>1, <2>2
<1>9. Counts' /\ Single'
  BY DEF OnceInv, Counts, Single
<1> QED
  BY <1>2, <1>7, <1>8, <1>9 DEF OnceInv

(* What the start of a claimed chunk leaves in the run, the sync and the    *)
(* jobs.                                                                    *)
LEMMA MarkerStarts ==
    ASSUME Domains, NEW n \in Nodes, NodeInv(n), Ready(n), epoch \in Nat, epoch' = epoch,
           sync[n].at = "marker", late' = late, disk' = [disk EXCEPT ![n] = Effect(n)],
           Start(n, run[n], jobs[n], {sync[n].chunk}, sync[n].target),
           IF sync[n].todo = {} THEN Report(n, run[n], sync[n].finished)
           ELSE Proceed(n, Claiming(n, sync[n].todo, sync[n].target, sync[n].finished))
    PROVE  /\ NodeMoves(n)
           /\ jobs'[n] = jobs[n] \cup {NewJob(n, sync[n].chunk, sync[n].target[sync[n].chunk], run[n])}
<1> DEFINE r == run[n]
           s == sync[n]
<1>1. /\ SyncShape(s) /\ s # NoSync /\ RunShape(r) /\ r.open
      /\ r.epoch = disk[n].dir.epoch /\ disk[n].dir.epoch = s.request.version.epoch
  BY RunningSync
<1>2. s.target \in Attempts /\ s.chunk \in Chunks /\ s.todo \subseteq Chunks
  BY <1>1 DEF SyncShape
<1>3. /\ Settles(n, r, s.target)
      /\ JobsFrom(jobs'[n], jobs[n], s.request.version.epoch)
  BY <1>1, MarkerSettles
<1>4. Outcome(n, r, r.highest, s.target)
  BY <1>2, <1>3, SettledOutcome DEF NodeInv
<1>5. jobs'[n] = jobs[n] \cup {NewJob(n, s.chunk, s.target[s.chunk], r)}
  BY <1>1, StartEffect
<1>6. Outcomes(run'[n])
  <2> DEFINE resumed == [t \in Tasks |-> IF \E c \in {s.chunk} : t \in ChunkRange(c)
                                         THEN NoRecord ELSE r.resumed[t]]
             more == [c \in Chunks |-> IF c \in {s.chunk} THEN s.target[c] ELSE r.chunks[c]]
             rr == [r EXCEPT !.chunks = more, !.resumed = resumed]
  <2>1. run' = [run EXCEPT ![n] = rr]
    BY DEF Start
  <2>2. \A t \in Tasks : resumed[t] \in {NoRecord, r.resumed[t]}
    OBVIOUS
  <2> HIDE DEF resumed, more
  <2>3. rr.resumed = resumed
    BY <1>1 DEF RunShape, RunFields
  <2> HIDE DEF rr
  <2>4. run'[n].resumed = resumed
    BY <2>1, <2>3 DEF Domains
  <2>5. NoRecord.outcome # "todo" /\ \A t \in Tasks : r.resumed[t].outcome # "todo"
    BY <1>1 DEF NoRecord, Ready, RunReady
  <2> QED
    BY <2>2, <2>4, <2>5 DEF Outcomes
<1>7. AimsRight(sync'[n])
  <2>1. CASE s.todo = {}
    <3>1. Report(n, r, s.finished)
      BY <2>1
    <3>2. Reply(n, "refused", {}) \/ Reply(n, "progress", s.finished)
      BY <3>1, Zenon DEF Report
    <3>3. sync'[n] = NoSync
      BY <3>2, ReplyEffect
    <3> QED
      BY <3>3 DEF AimsRight, NoSync
  <2>2. CASE s.todo # {}
    <3> DEFINE todo == s.todo
               fs == s.finished
               target == s.target
               next == Claiming(n, todo, target, fs)
    <3>1. sync'[n] = next /\ next = Claiming(n, todo, target, fs)
      BY <2>2, ProceedEffect
    <3>2. /\ SomeChunks(todo) /\ target \in Attempts
          /\ \A c \in todo : target[c] # 0
      BY <1>2, <2>2 DEF SomeChunks, Ready, SyncReady, Attempts
    <3> HIDE DEF todo, fs, target, next
    <3> QED
      BY <3>1, <3>2, ClaimingAims
  <2> QED
    BY <2>1, <2>2
<1>8. disk'[n] = Effect(n)
  BY DiskWrite
<1>9. Moves(n, disk'[n]) /\ ~disk'[n].dir.compacted
  <2>1. Moves(n, Effect(n)) /\ Effect(n).dir.compacted = disk[n].dir.compacted
    BY <1>1, MarkerMoves, MarkerStep
  <2> QED
    BY <1>1, <1>8, <2>1 DEF Ready, RunReady
<1>10. r.epoch = epoch => AllKnown(n, r.highest) /\ AllKnown(n, s.target)
  BY <1>1 DEF AllKnown, Knows, Recalled, Aimed, Current
<1>11. s.request.listed /\ late'[n] = late[n]
  BY DEF Ready, SyncReady
<1>12. NodeMoves(n)
  <2> HIDE DEF r
  <2> QED
    BY <1>1, <1>4, <1>6, <1>7, <1>9, <1>10, <1>11, OutcomeMoves
<1> QED
  BY <1>5, <1>12
(* A claimed chunk starts once.  With its marker new, nobody has used the   *)
(* attempt; with the marker there, it starts only if the ledger has the     *)
(* outcome of every task, and then none of them waits.                      *)
LEMMA MarkerStartOnce ==
    ASSUME Inv, OnceInv, NEW n \in Nodes, StoreFrame, Others(n), setting' = setting,
           launches' = launches, sync[n].at = "marker", disk'[n] = Effect(n),
           NEW c, c = sync[n].chunk, NEW a, a = sync[n].target[c],
           NEW j, j = NewJob(n, c, a, run[n]),
           \/ <<c, a>> \notin disk[n].dir.markers
           \/ \A t \in ChunkRange(c) : run[n].resumed[t].attempt = a,
           NodeMoves(n), jobs'[n] = jobs[n] \cup {j}
    PROVE  OnceInv'
<1> DEFINE r == run[n]
           s == sync[n]
<1>1. Domains /\ NodeInv(n) /\ Ready(n) /\ epoch \in Nat /\ epoch' = epoch
  BY LeaderTypes DEF Inv, LeaderInv, OnceInv, StoreFrame
<1>2. /\ SyncShape(s) /\ s # NoSync /\ r.open /\ disk[n].dir.exists
      /\ disk[n].dir.epoch = s.request.version.epoch
  BY <1>1, RunningSync
<1>3. c \in Chunks /\ a \in Tries
  BY <1>1, <1>2 DEF SyncShape, Attempts, Ready, SyncReady, Tries
<1>4. /\ j.attempt = a /\ j.epoch = s.request.version.epoch /\ j.chunk = c
      /\ DOMAIN j.tasks = ChunkRange(c)
      /\ \A t \in ChunkRange(c) : j.tasks[t] =
            IF r.resumed[t].attempt = a THEN r.resumed[t].outcome ELSE "todo"
  BY DEF NewJob
<1>5. s.request.version.epoch \in Nat /\ s.request.version.epoch <= epoch
  <2>1. s.request \in Requests(n) /\ NodeShape(n)
    BY <1>1, <1>2, HandledRequest DEF NodeInv
  <2> QED
    BY <1>1, <2>1, RequestTypes DEF Ready, RequestsReady
<1>6. JobsReady(n)'
  <2>1. \A i \in jobs[n] : /\ i.epoch \in Nat /\ i.epoch <= epoch
                           /\ i.attempt > 0 /\ DOMAIN i.tasks = ChunkRange(i.chunk)
    BY <1>1 DEF Ready, JobsReady
  <2>2. j.attempt > 0
    BY <1>3, <1>4 DEF Tries
  <2> QED
    BY <1>1, <1>4, <1>5, <2>1, <2>2 DEF JobsReady
<1>7. ASSUME NEW u, Waits(j, u)
      PROVE  u \in ChunkRange(c) /\ ~Used(u, a) /\ Knows(n, c, a) /\ Spent(n, c, a)'
  <2>1. u \in ChunkRange(c) /\ s.request.version.epoch = epoch /\ j.tasks[u] = "todo"
    BY <1>4, <1>7 DEF Waits
  <2>2. u \in Tasks
    BY <2>1 DEF ChunkRange
  <2>3. r.resumed[u].attempt # a
    BY <1>1, <1>2, <1>4, <2>1, <2>2 DEF Ready, RunReady
  <2>4. Knows(n, c, a)
    BY <2>1 DEF Knows, Aimed, Current
  <2>5. ~Spent(n, c, a)
    <3>1. <<c, a>> \notin disk[n].dir.markers /\ ~disk[n].dir.compacted
      BY <1>1, <1>2, <2>1, <2>3 DEF Ready, RunReady
    <3> QED
      BY <1>2, <3>1 DEF Spent, SpentOn, MarkedOn
  <2>6. ~Used(u, a)
    BY <1>3, <2>1, <2>4, <2>5 DEF OnceInv, UsedIsSpent
  <2>7. Spent(n, c, a)'
    <3>1. /\ Effect(n).dir.exists = disk[n].dir.exists
          /\ Effect(n).dir.epoch = disk[n].dir.epoch
          /\ <<c, a>> \in Effect(n).dir.markers
      BY <1>1, <1>2, MarkerMoves
    <3>2. /\ disk'[n].dir.exists /\ disk'[n].dir.epoch = epoch
          /\ <<c, a>> \in disk'[n].dir.markers
      BY <1>2, <2>1, <3>1
    <3> QED
      BY <1>1, <3>2 DEF Spent, SpentOn, MarkedOn
  <2> QED
    BY <2>1, <2>4, <2>6, <2>7
<1> QED
  BY <1>3, <1>4, <1>6, <1>7, NewJobOnce

(* The end of a marker's claim.                                             *)
LEMMA MarkerClaimedOnce ==
    ASSUME Inv, OnceInv, NEW n \in Nodes, MarkerClaimed(n), StoreFrame, setting' = setting,
           launches' = launches
    PROVE  OnceInv'
<1>1. PICK c : c = sync[n].chunk
  OBVIOUS
<1>2. PICK a : a = sync[n].target[c]
  OBVIOUS
<1>3. PICK j : j = NewJob(n, c, a, run[n])
  OBVIOUS
<1> DEFINE r == run[n]
           s == sync[n]
           complete == \A t \in ChunkRange(c) : r.resumed[t].attempt = a
<1>4. Domains /\ NodeInv(n) /\ Ready(n) /\ epoch \in Nat /\ epoch' = epoch
  BY LeaderTypes DEF Inv, LeaderInv, OnceInv, StoreFrame
<1>5. /\ s.at = "marker" /\ late' = late /\ disk' = [disk EXCEPT ![n] = Effect(n)]
      /\ \/ Reply(n, "refused", {}) /\ UNCHANGED <<run, jobs, acted>>
         \/ /\ <<c, a>> \notin disk[n].dir.markers \/ complete
            /\ Start(n, r, jobs[n], {s.chunk}, s.target)
            /\ IF s.todo = {} THEN Report(n, r, s.finished)
               ELSE Proceed(n, Claiming(n, s.todo, s.target, s.finished))
  BY <1>1, <1>2, Zenon DEF MarkerClaimed, Working, Rest
<1>6. Others(n)
  BY <1>4, MarkerClaimedKeeps DEF NodeKept
<1>7. SyncShape(s) /\ s # NoSync /\ disk'[n] = Effect(n)
  BY <1>4, <1>5, RunningSync, DiskWrite
<1>8. CASE Reply(n, "refused", {}) /\ UNCHANGED <<run, jobs, acted>>
  <2>1. run' = run /\ jobs' = jobs
    BY <1>8
  <2>2. Moves(n, disk'[n]) /\ RunStays(n) /\ jobs'[n] = jobs[n] /\ late'[n] = late[n]
    BY <1>4, <1>5, <1>7, <2>1, OperationMoves DEF RunStays
  <2>3. MovesOn(n)
    BY <1>4, <1>7, <1>8, <2>2, ReplyMoves
  <2> QED
    BY <1>6, <2>3, NodeGoesOn DEF MovesOn
<1>9. CASE /\ <<c, a>> \notin disk[n].dir.markers \/ complete
           /\ Start(n, r, jobs[n], {s.chunk}, s.target)
           /\ IF s.todo = {} THEN Report(n, r, s.finished)
              ELSE Proceed(n, Claiming(n, s.todo, s.target, s.finished))
  <2>1. NodeMoves(n) /\ jobs'[n] = jobs[n] \cup {j}
    BY <1>1, <1>2, <1>3, <1>4, <1>5, <1>9, MarkerStarts
  <2> QED
    BY <1>1, <1>2, <1>3, <1>5, <1>6, <1>7, <1>9, <2>1, MarkerStartOnce
<1> QED
  BY <1>5, <1>8, <1>9
-----------------------------------------------------------------------------
(* The leader and the store.                                                *)

(* What a step leaves a node that is not its own.                           *)
Untouched(n) ==
    /\ disk'[n] = disk[n] /\ run'[n] = run[n] /\ jobs'[n] = jobs[n]
    /\ SameSync(sync[n], sync'[n])

(* The same sync says the same of its request and its markers.              *)
LEMMA SyncSame ==
    ASSUME NEW n, SameSync(sync[n], sync'[n])
    PROVE  /\ sync'[n].at = sync[n].at
           /\ sync'[n] # sync[n] => sync'[n].request = sync[n].request
           /\ sync'[n].request = sync[n].request
           /\ sync[n].at = "marker" => /\ sync'[n].target = sync[n].target
                                       /\ sync'[n].chunk = sync[n].chunk
                                       /\ sync'[n].todo = sync[n].todo
BY DEF SameSync

(* An array that went on: chunks done stay done, an attempt is not lowered  *)
(* until then, a grant is kept or is one of the queue, and what returns to  *)
(* the queue does so at a later attempt.                                    *)
Advances(a, b) ==
    \A c \in Chunks :
        /\ c \in a.done => c \in b.done
        /\ c \in b.done \/ a.attempts[c] <= b.attempts[c]
        /\ \A n \in Nodes : c \in b.grants[n] =>
              /\ b.attempts[c] = a.attempts[c]
              /\ c \in a.grants[n] \/ c \in a.queued
        /\ \A n \in Nodes : c \in a.grants[n] =>
              c \in b.done \/ c \in b.grants[n] \/ a.attempts[c] < b.attempts[c]
        /\ c \in b.queued =>
              \/ c \in a.queued /\ b.attempts[c] = a.attempts[c]
              \/ a.attempts[c] < b.attempts[c]

(* What anybody knows after a step of the leader: what it knew, or what is  *)
(* granted now.                                                             *)
LEMMA LeaderTeaches ==
    ASSUME NEW n, NEW c, NEW a, Untouched(n), epoch' = epoch,
           \A q \in Requests(n)' : Current(q) =>
               q \in Requests(n) \/ \A d \in Chunks : q.held[d] # 0 => Granted(n, d, q.held[d])',
           c \in Chunks, a \in Tries, Knows(n, c, a)'
    PROVE  Knows(n, c, a) \/ Granted(n, c, a)'
<1>1. CASE Granted(n, c, a)'
  BY <1>1
<1>2. CASE Asked(n, c, a)'
  <2>1. PICK q \in Requests(n)' : q.version.epoch = epoch /\ q.held[c] = a
    BY <1>2 DEF Asked, Current
  <2>2. CASE q \in Requests(n)
    BY <2>1, <2>2 DEF Asked, Current, Knows
  <2>3. CASE q \notin Requests(n)
    <3>1. a # 0
      BY DEF Tries
    <3> QED
      BY <2>1, <2>3, <3>1 DEF Current
  <2> QED
    BY <2>2, <2>3
<1>3. CASE Recalled(n, c, a)'
  BY <1>3 DEF Recalled, Knows, Untouched
<1>4. CASE OnFile(disk[n], c, a)'
  BY <1>4 DEF OnFile, Knows, Untouched
<1>5. CASE Aimed(n, c, a)'
  BY <1>5, SyncSame DEF Aimed, Knows, Untouched, Current
<1> QED
  BY <1>1, <1>2, <1>3, <1>4, <1>5 DEF Knows

(* Nothing a node has spent is taken back by the leader.                    *)
LEMMA LeaderSpends ==
    ASSUME NEW n, NEW c, NEW a, Untouched(n), epoch' = epoch, ~kept => ~kept',
           \A q \in Requests(n)' : Current(q) =>
               q \in Requests(n) \/ (~kept => ~q.known),
           Spent(n, c, a)
    PROVE  Spent(n, c, a)'
<1>1. disk'[n] = disk[n]
  BY DEF Untouched
<1>2. CASE MarkedOn(disk[n], c, a)
  BY <1>1, <1>2 DEF Spent, SpentOn, MarkedOn
<1>3. CASE ~disk[n].dir.exists /\ Over(n, disk[n])
  <2>1. ASSUME NEW q \in Requests(n)', q.version.epoch = epoch, q.known
        PROVE  Stale(q.version, disk[n].control)
    BY <1>3, <2>1 DEF Over, Current
  <2>2. Over(n, disk[n])'
    BY <1>1, <1>3, <2>1 DEF Over, Current, Stale
  <2> QED
    BY <1>1, <1>3, <2>2 DEF Spent, SpentOn
<1> QED
  BY <1>2, <1>3 DEF Spent, SpentOn

(* What a step of the leader has to leave for the invariant to hold.        *)
LeaderMoves ==
    /\ Advances(array, array') /\ Placed(array')
    /\ epoch' = epoch /\ setting' = setting /\ launches' = launches
    /\ ~kept => ~kept'
    /\ \A n \in Nodes :
          /\ Untouched(n) /\ RequestsReady(n)'
          /\ \A q \in Requests(n)' : Current(q) => q \in Requests(n) \/
                /\ \A d \in Chunks : q.held[d] # 0 => Granted(n, d, q.held[d])'
                /\ ~kept => ~q.known

(* A node the leader leaves alone stays ready.                              *)
LEMMA UntouchedReady ==
    ASSUME NEW n, Ready(n), Untouched(n), RequestsReady(n)', epoch' = epoch
    PROVE  Ready(n)'
<1>1. Sound(disk[n])' /\ RunReady(n)' /\ JobsReady(n)'
  BY DEF Untouched, Ready, Sound, RunReady, JobsReady
<1>2. SyncReady(n)'
  BY SyncSame DEF Untouched, Ready, SyncReady
<1> QED
  BY <1>1, <1>2 DEF Ready

(* Granted attempts fit, and whoever else knows of an attempt does not      *)
(* disturb one that leaves the queue.                                       *)
LEMMA AdvancesKnown ==
    ASSUME array \in ArrayState, array' \in ArrayState, Placed(array), Placed(array'),
           Advances(array, array'), GrantsFit, Apart,
           NEW c \in Chunks, NEW a \in Tries,
           \A n \in Nodes : Knows(n, c, a)' => Knows(n, c, a) \/ Granted(n, c, a)'
    PROVE  /\ \A n \in Nodes : Knows(n, c, a)' =>
                 \/ c \in array'.done \/ a < array'.attempts[c]
                 \/ a = array'.attempts[c] /\ c \in array'.grants[n]
           /\ \A n, m \in Nodes : Knows(n, c, a)' /\ Knows(m, c, a)' => n = m
<1>1. /\ array.attempts[c] \in Nat /\ array'.attempts[c] \in Nat /\ a \in Nat
  BY DEF ArrayState, Tries
<1>2. ASSUME NEW n \in Nodes, Knows(n, c, a)'
      PROVE  \/ c \in array'.done \/ a < array'.attempts[c]
             \/ a = array'.attempts[c] /\ c \in array'.grants[n]
  <2>1. CASE Granted(n, c, a)'
    BY <2>1 DEF Granted
  <2>2. CASE Knows(n, c, a)
    <3>1. \/ c \in array.done \/ a < array.attempts[c]
          \/ a = array.attempts[c] /\ c \in array.grants[n]
      BY <2>2 DEF GrantsFit
    <3> QED
      BY <1>1, <3>1 DEF Advances
  <2> QED
    BY <1>2, <2>1, <2>2
<1>3. ASSUME NEW n \in Nodes, NEW m \in Nodes, Granted(n, c, a)', Knows(m, c, a)
      PROVE  n = m
  <2>1. c \in array'.grants[n] /\ a = array.attempts[c] /\ c \notin array.done
    BY <1>3 DEF Granted, Advances, Placed
  <2>2. c \in array.grants[m]
    BY <1>1, <1>3, <2>1 DEF GrantsFit
  <2>3. c \in array.grants[n]
    BY <2>1, <2>2 DEF Advances, Placed
  <2> QED
    BY <2>2, <2>3 DEF Placed
<1>4. ASSUME NEW n \in Nodes, NEW m \in Nodes, Knows(n, c, a)', Knows(m, c, a)'
      PROVE  n = m
  <2>1. CASE Granted(n, c, a)' /\ Granted(m, c, a)'
    BY <2>1 DEF Granted, Placed
  <2>2. CASE Granted(n, c, a)' /\ Knows(m, c, a)
    BY <1>3, <2>2
  <2>3. CASE Knows(n, c, a) /\ Granted(m, c, a)'
    BY <1>3, <2>3
  <2>4. CASE Knows(n, c, a) /\ Knows(m, c, a)
    BY <2>4 DEF Apart
  <2> QED
    BY <1>4, <2>1, <2>2, <2>3, <2>4
<1> QED
  BY <1>2, <1>4

(* Steps of the leader keep the invariant.                                  *)
LEMMA LeaderGoesOn ==
    ASSUME Inv, OnceInv, array' \in ArrayState, LeaderMoves
    PROVE  OnceInv'
<1>1. /\ array \in ArrayState /\ Placed(array) /\ Placed(array')
      /\ Advances(array, array') /\ epoch' = epoch /\ setting' = setting
      /\ launches' = launches
  BY PlacedIs DEF Inv, LeaderInv, ValidSnapshot, LeaderMoves
<1>2. \A n \in Nodes : Ready(n)'
  BY <1>1, UntouchedReady DEF OnceInv, LeaderMoves
<1>3. ASSUME NEW n \in Nodes, NEW c \in Chunks, NEW a \in Tries
      PROVE  /\ Knows(n, c, a)' => Knows(n, c, a) \/ Granted(n, c, a)'
             /\ Spent(n, c, a) => Spent(n, c, a)'
  <2>1. /\ Untouched(n) /\ (~kept => ~kept')
        /\ \A q \in Requests(n)' : Current(q) =>
               q \in Requests(n) \/ \A d \in Chunks : q.held[d] # 0 => Granted(n, d, q.held[d])'
        /\ \A q \in Requests(n)' : Current(q) =>
               q \in Requests(n) \/ (~kept => ~q.known)
    BY DEF LeaderMoves
  <2>2. Knows(n, c, a)' => Knows(n, c, a) \/ Granted(n, c, a)'
    BY <1>1, <2>1, LeaderTeaches
  <2>3. Spent(n, c, a) => Spent(n, c, a)'
    BY <1>1, <2>1, LeaderSpends
  <2> QED
    BY <2>2, <2>3
<1>4. GrantsFit /\ Apart /\ UsedIsSpent /\ WaitsOnce /\ Counts /\ Single
  BY DEF OnceInv
<1>5. GrantsFit' /\ Apart'
  <2>1. ASSUME NEW c \in Chunks, NEW a \in Tries
        PROVE  /\ \A n \in Nodes : Knows(n, c, a)' =>
                     \/ c \in array'.done \/ a < array'.attempts[c]
                     \/ a = array'.attempts[c] /\ c \in array'.grants[n]
               /\ \A n, m \in Nodes : Knows(n, c, a)' /\ Knows(m, c, a)' => n = m
    BY <1>1, <1>3, <1>4, AdvancesKnown
  <2> QED
    BY <2>1 DEF GrantsFit, Apart
<1>6. /\ \A t, a : Launched(t, a)' = Launched(t, a)
      /\ \A j, t : Waits(j, t)' = Waits(j, t)
      /\ \A n \in Nodes : jobs'[n] = jobs[n]
  BY <1>1 DEF Launched, Waits, LeaderMoves, Untouched
<1>7. \A t, a : Used(t, a)' => Used(t, a)
  BY <1>6 DEF Used
<1>8. UsedIsSpent'
  <2> SUFFICES ASSUME NEW c \in Chunks, NEW t \in ChunkRange(c), NEW a \in Tries, Used(t, a)'
               PROVE  /\ \A n \in Nodes : Knows(n, c, a)' => Spent(n, c, a)'
                      /\ \/ c \in array'.done
                         \/ a < array'.attempts[c]
                         \/ a = array'.attempts[c] /\ c \notin array'.queued
    BY DEF UsedIsSpent
  <2>1. /\ array.attempts[c] \in Nat /\ array'.attempts[c] \in Nat /\ a \in Nat
    BY <1>1 DEF ArrayState, Tries
  <2>2. /\ \A n \in Nodes : Knows(n, c, a) => Spent(n, c, a)
        /\ \/ c \in array.done
           \/ a < array.attempts[c]
           \/ a = array.attempts[c] /\ c \notin array.queued
    BY <1>4, <1>7 DEF UsedIsSpent
  <2>3. ASSUME NEW n \in Nodes, Knows(n, c, a)'
        PROVE  Spent(n, c, a)'
    <3>1. CASE Knows(n, c, a)
      BY <1>3, <2>2, <3>1
    <3>2. CASE Granted(n, c, a)'
      <4>1. /\ c \in array'.grants[n] /\ a = array.attempts[c] /\ c \notin array.done
            /\ c \in array.grants[n] \/ c \in array.queued
        BY <1>1, <3>2 DEF Granted, Advances, Placed
      <4>2. c \in array.grants[n]
        BY <2>1, <2>2, <4>1
      <4>3. Knows(n, c, a)
        BY <4>1, <4>2 DEF Knows, Granted
      <4> QED
        BY <1>3, <2>2, <4>3
    <3> QED
      BY <1>3, <2>3, <3>1, <3>2
  <2>4. \/ c \in array'.done
        \/ a < array'.attempts[c]
        \/ a = array'.attempts[c] /\ c \notin array'.queued
    BY <1>1, <2>1, <2>2 DEF Advances
  <2> QED
    BY <2>3, <2>4
<1>9. WaitsOnce'
  BY <1>4, <1>6 DEF WaitsOnce
<1>10. Counts' /\ Single'
  BY <1>1, <1>4 DEF Counts, Single
<1> QED
  BY <1>2, <1>5, <1>8, <1>9, <1>10 DEF OnceInv

(* An array that a step leaves alone went on.                               *)
LEMMA AdvancesSame ==
    ASSUME NEW a \in ArrayState
    PROVE  Advances(a, a)
BY DEF Advances, ArrayState

(* A step that leaves the array alone and sends nothing.                    *)
LEMMA QuietOnce ==
    ASSUME Inv, OnceInv, array' = array, epoch' = epoch, setting' = setting,
           launches' = launches, index' \in Nat, index <= index',
           kept' = kept \/ (~kept' /\ index < index'),
           \A n \in Nodes : Untouched(n) /\ Requests(n)' \subseteq Requests(n)
    PROVE  OnceInv'
<1>1. array \in ArrayState /\ index \in Nat /\ \A n \in Nodes : NodeShape(n)
  BY LeaderTypes DEF Inv, NodeInv
<1>2. Placed(array)
  BY <1>1, PlacedIs DEF Inv, LeaderInv, ValidSnapshot
<1>3. ASSUME NEW n \in Nodes
      PROVE  RequestsReady(n)'
  <2>1. RequestsReady(n) /\ Requests(n)' \subseteq Requests(n)
    BY DEF OnceInv, Ready
  <2>2. \A q \in Requests(n) : q.version.index \in Nat
    BY <1>1, RequestTypes
  <2> QED
    BY <1>1, <2>1, <2>2 DEF RequestsReady, Current
<1>4. \A n \in Nodes : \A q \in Requests(n)' : q \in Requests(n)
  OBVIOUS
<1>5. Advances(array, array') /\ Placed(array')
  BY <1>1, <1>2, AdvancesSame
<1>6. ~kept => ~kept'
  OBVIOUS
<1>7. LeaderMoves
  BY <1>3, <1>4, <1>5, <1>6 DEF LeaderMoves
<1> QED
  BY <1>1, <1>7, LeaderGoesOn

(* What the nodes and their requests are after a step that sends nothing.   *)
LEMMA FramesOnce ==
    ASSUME NEW n, disk' = disk, run' = run, jobs' = jobs, sync' = sync,
           late'[n] \subseteq late[n], calls'[n] = calls[n] \/ calls'[n] = NoCall
    PROVE  Untouched(n) /\ Requests(n)' \subseteq Requests(n)
<1>1. Untouched(n)
  BY DEF Untouched, SameSync
<1> QED
  BY <1>1 DEF Requests

(* Commits, requests to the council and pruning.                            *)
LEMMA StoreStepsOnce ==
    ASSUME Inv, OnceInv,
           \/ Commit \/ Cancel \/ Prune
           \/ \E n \in setting.members : AcknowledgeReplay(n)
    PROVE  OnceInv'
<1>1. /\ array' = array /\ epoch' = epoch /\ setting' = setting /\ launches' = launches
      /\ disk' = disk /\ run' = run /\ jobs' = jobs /\ sync' = sync
      /\ late' = late /\ calls' = calls
      /\ kept' = kept \/ (~kept' /\ index' = index + 1)
      /\ index' = index \/ index' = index + 1
  <2>1. CASE Commit
    BY <2>1 DEF Commit, nodes, history
  <2>2. CASE Cancel
    BY <2>2 DEF Cancel, replicated, nodes
  <2>3. CASE Prune
    BY <2>3 DEF Prune, leader, nodes, history
  <2>4. CASE \E n \in setting.members : AcknowledgeReplay(n)
    BY <2>4 DEF AcknowledgeReplay, replicated, nodes, history
  <2> QED
    BY <2>1, <2>2, <2>3, <2>4
<1>2. \A n \in Nodes : Untouched(n) /\ Requests(n)' \subseteq Requests(n)
  BY <1>1, FramesOnce
<1>3. index' \in Nat /\ index <= index' /\ (kept' = kept \/ (~kept' /\ index < index'))
  BY <1>1, LeaderTypes
<1> QED
  BY <1>1, <1>2, <1>3, QuietOnce

(* Calls that fail and late requests that are lost.                         *)
LEMMA LostCallsOnce ==
    ASSUME Inv, OnceInv, NEW n \in setting.members, CallFails(n) \/ LoseLate(n)
    PROVE  OnceInv'
<1>1. /\ array' = array /\ epoch' = epoch /\ setting' = setting /\ launches' = launches
      /\ disk' = disk /\ run' = run /\ jobs' = jobs /\ sync' = sync
      /\ kept' = kept /\ index' = index
  BY DEF CallFails, LoseLate, replicated, nodes, history
<1>2. \A m \in Nodes : late'[m] \subseteq late[m] /\ (calls'[m] = calls[m] \/ calls'[m] = NoCall)
  <2>1. CASE CallFails(n)
    BY <2>1, LeaderTypes DEF CallFails, Domains
  <2>2. CASE LoseLate(n)
    BY <2>2, LeaderTypes DEF LoseLate, Domains
  <2> QED
    BY <2>1, <2>2
<1>3. \A m \in Nodes : Untouched(m) /\ Requests(m)' \subseteq Requests(m)
  BY <1>1, <1>2, FramesOnce
<1> QED
  BY <1>1, <1>3, LeaderTypes, QuietOnce

(* A tick takes in the answers and forgets their calls.                     *)
LEMMA TickOnce ==
    ASSUME Inv, OnceInv, NEW silent, NEW failing, Tick(silent, failing)
    PROVE  OnceInv'
<1> DEFINE heard == {n \in Nodes : calls[n].state = "answered"}
<1>1. /\ array' = array /\ epoch' = epoch /\ setting' = setting /\ launches' = launches
      /\ disk' = disk /\ run' = run /\ jobs' = jobs /\ sync' = sync
      /\ kept' = kept /\ index' = index /\ late' = late
  BY DEF Tick, replicated, nodes
<1>2. calls' = [n \in Nodes |-> IF n \in heard THEN NoCall ELSE calls[n]]
  BY Zenon DEF Tick
<1>3. \A m \in Nodes : late'[m] \subseteq late[m] /\ (calls'[m] = calls[m] \/ calls'[m] = NoCall)
  BY <1>1, <1>2
<1>4. \A m \in Nodes : Untouched(m) /\ Requests(m)' \subseteq Requests(m)
  BY <1>1, <1>3, FramesOnce
<1> QED
  BY <1>1, <1>4, LeaderTypes, QuietOnce

(* Giving up a call makes no new request: one on the wire may arrive late.  *)
LEMMA AbandonOnce ==
    ASSUME Inv, NEW gone, NEW arrive, Abandon(gone, arrive), NEW n \in Nodes
    PROVE  /\ SameSync(sync[n], sync'[n])
           /\ Requests(n)' \subseteq Requests(n)
<1>1. SameSync(sync[n], sync'[n])
  BY AbandonKeeps
<1>2. calls'[n] = NoCall \/ calls'[n] = calls[n]
  BY DEF Abandon
<1>3. late'[n] \subseteq Requests(n)
  <2>1. late'[n] = IF n \in gone \cap arrive /\ calls[n].state = "sent"
                   THEN {calls[n].request} ELSE late[n]
    BY DEF Abandon
  <2>2. calls[n].state = "sent" => calls[n] # NoCall
    BY DEF NoCall
  <2> QED
    BY <2>1, <2>2 DEF Requests
<1>4. sync[n] = NoSync => sync'[n] = NoSync
  <2>1. sync'[n] = sync[n] \/ sync'[n] = [sync[n] EXCEPT !.live = FALSE]
    BY DEF Abandon
  <2> QED
    BY <2>1 DEF NoSync
<1>5. sync'[n].request = sync[n].request
  BY <1>1, SyncSame
<1> QED
  BY <1>1, <1>2, <1>3, <1>4, <1>5 DEF Requests

(* Time-outs and elections.                                                 *)
LEMMA GivenUpOnce ==
    ASSUME Inv, OnceInv, LeaderChange \/ \E n \in setting.members : TimeOut(n)
    PROVE  OnceInv'
<1>1. PICK gone, arrive : Abandon(gone, arrive)
  BY DEF LeaderChange, TimeOut
<1>2. /\ array' = array /\ epoch' = epoch /\ setting' = setting /\ launches' = launches
      /\ disk' = disk /\ run' = run /\ jobs' = jobs
      /\ kept' = kept /\ index' = index
  <2>1. CASE LeaderChange
    BY <2>1 DEF LeaderChange, replicated, history
  <2>2. CASE \E n \in setting.members : TimeOut(n)
    BY <2>2 DEF TimeOut, replicated
  <2> QED
    BY <2>1, <2>2
<1>3. \A m \in Nodes : Untouched(m) /\ Requests(m)' \subseteq Requests(m)
  BY <1>1, <1>2, AbandonOnce DEF Untouched
<1> QED
  BY <1>2, <1>3, LeaderTypes, QuietOnce

(* What the leader sends names the attempts it granted the node.            *)
LEMMA SentRequest ==
    ASSUME Inv, NEW n \in Nodes, NEW q, q = RequestFor(n)
    PROVE  /\ q.version.epoch = epoch /\ q.version.index = index /\ q.known = kept
           /\ q.listed => q.known
           /\ \A d \in Chunks : q.held[d] # 0 => Granted(n, d, q.held[d])
<1> DEFINE listed == kept /\ ~IsTerminal(array)
           stopping == array.stopped # "no"
           held == HeldBy(array, n)
           v == [epoch |-> epoch, term |-> term, index |-> index]
<1>1. q = [version |-> v, known |-> kept, listed |-> listed, stopping |-> stopping,
           held |-> held]
  BY Zenon DEF RequestFor
<1>2. v.epoch = epoch /\ v.index = index /\ (listed => kept)
  OBVIOUS
<1>3. \A d \in Chunks : held[d] # 0 => Granted(n, d, held[d])
  BY DEF HeldBy, Granted
<1> HIDE DEF listed, stopping, held, v
<1>4. q.version = v /\ q.known = kept /\ q.listed = listed /\ q.held = held
  BY <1>1
<1> QED
  BY <1>2, <1>3, <1>4

(* A request of the array as it is now joins those before it.               *)
LEMMA OneMoreRequest ==
    ASSUME NEW n, RequestsReady(n), NodeShape(n), index \in Nat, epoch \in Nat,
           epoch' = epoch, index' = index, kept' = kept,
           NEW q, Requests(n)' \subseteq Requests(n) \cup {q},
           q.version.epoch = epoch, q.version.index = index, q.known = kept, q.listed => q.known
    PROVE  RequestsReady(n)'
<1>1. \A p \in Requests(n) : p.version.index \in Nat
  BY RequestTypes
<1>2. ASSUME NEW p \in Requests(n) \cup {q}
      PROVE  /\ p.version.epoch <= epoch /\ (p.listed => p.known)
             /\ p.version.epoch = epoch =>
                   /\ p.version.index <= index
                   /\ ~p.known => ~kept
  BY DEF RequestsReady, Current
<1>3. ~kept => ~q.known
  OBVIOUS
<1>4. ASSUME NEW p \in Requests(n) \cup {q}, p.version.epoch = epoch, ~kept, p.known
      PROVE  p.version.index < index
  BY <1>3, <1>4 DEF RequestsReady, Current
<1>5. ASSUME NEW p \in Requests(n) \cup {q}, NEW o \in Requests(n) \cup {q},
             p.version.epoch = epoch, o.version.epoch = epoch, p.known, ~o.known
      PROVE  p.version.index < o.version.index
  <2>1. ~kept
    BY <1>2, <1>5
  <2>2. p \in Requests(n)
    BY <1>3, <1>5, <2>1
  <2>3. CASE o = q
    BY <1>4, <1>5, <2>1, <2>3
  <2>4. CASE o \in Requests(n)
    BY <1>5, <2>2, <2>4 DEF RequestsReady, Current
  <2> QED
    BY <2>3, <2>4
<1> QED
  BY <1>2, <1>4, <1>5 DEF RequestsReady, Current

(* A sync is sent.                                                          *)
LEMMA SendSyncOnce ==
    ASSUME Inv, OnceInv, NEW n \in setting.members, SendSync(n)
    PROVE  OnceInv'
<1>1. PICK q : q = RequestFor(n)
  OBVIOUS
<1>2. /\ array' = array /\ epoch' = epoch /\ setting' = setting /\ launches' = launches
      /\ disk' = disk /\ run' = run /\ jobs' = jobs /\ sync' = sync
      /\ kept' = kept /\ index' = index /\ late' = late
      /\ calls' = [calls EXCEPT ![n] = Call("sent", q, NoAnswer)]
  BY <1>1 DEF SendSync, replicated, nodes, history
<1>3. /\ n \in Nodes /\ calls'[n].request = q
      /\ \A m \in Nodes : m # n => calls'[m] = calls[m]
  BY <1>2, LeaderTypes DEF Domains, Call
<1>4. /\ array \in ArrayState /\ index \in Nat /\ epoch \in Nat
      /\ \A m \in Nodes : NodeShape(m) /\ RequestsReady(m)
  BY LeaderTypes DEF Inv, NodeInv, OnceInv, Ready
<1>5. Requests(n)' \subseteq Requests(n) \cup {q}
  BY <1>2, <1>3 DEF Requests
<1>6. \A m \in Nodes : m # n => Requests(m)' = Requests(m)
  BY <1>2, <1>3 DEF Requests
<1>7. /\ q.version.epoch = epoch /\ q.version.index = index /\ q.known = kept
      /\ q.listed => q.known
      /\ \A d \in Chunks : q.held[d] # 0 => Granted(n, d, q.held[d])
  BY <1>1, <1>3, SentRequest
<1>8. ASSUME NEW m \in Nodes
      PROVE  RequestsReady(m)'
  <2>1. CASE m = n
    BY <1>2, <1>4, <1>5, <1>7, <2>1, OneMoreRequest
  <2>2. CASE m # n
    BY <1>2, <1>4, <1>6, <2>2 DEF RequestsReady, Current
  <2> QED
    BY <2>1, <2>2
<1>9. \A m \in Nodes : Untouched(m)
  BY <1>2 DEF Untouched, SameSync
<1>10. \A d \in Chunks : q.held[d] # 0 => Granted(n, d, q.held[d])'
  BY <1>2, <1>7 DEF Granted
<1>11. ~kept => ~q.known
  BY <1>7
<1>12. ASSUME NEW m \in Nodes, NEW p \in Requests(m)'
       PROVE  p \in Requests(m) \/ (m = n /\ p = q)
  BY <1>5, <1>6, <1>12
<1>13. Advances(array, array') /\ Placed(array')
  BY <1>2, <1>4, AdvancesSame, PlacedIs DEF Inv, LeaderInv, ValidSnapshot
<1>14. LeaderMoves
  BY <1>2, <1>8, <1>9, <1>10, <1>11, <1>12, <1>13 DEF LeaderMoves
<1> QED
  BY <1>2, <1>4, <1>14, LeaderGoesOn

(* Granting queued chunks.                                                  *)
LEMMA GrantAdvances ==
    ASSUME NEW a \in ArrayState, NEW n \in Nodes, NEW cs \in SUBSET Chunks
    PROVE  Advances(a, Grant(a, n, cs))
<1> DEFINE b == Grant(a, n, cs)
<1>1. CASE b = a
  BY <1>1, AdvancesSame
<1>2. CASE b # a
  <2>1. /\ cs \subseteq a.queued /\ b.queued = a.queued \ cs
        /\ b.grants = [a.grants EXCEPT ![n] = a.grants[n] \cup cs]
        /\ b.attempts = a.attempts /\ b.done = a.done
    BY <1>2 DEF Grant
  <2> HIDE DEF b
  <2>2. a.grants \in [Nodes -> SUBSET Chunks] /\ a.attempts \in [Chunks -> Nat]
    BY DEF ArrayState
  <2>3. /\ \A m \in Nodes : m # n => b.grants[m] = a.grants[m]
        /\ b.grants[n] = a.grants[n] \cup cs
    BY <2>1, <2>2
  <2>4. ASSUME NEW c \in Chunks, NEW m \in Nodes
        PROVE  /\ c \in b.grants[m] => c \in a.grants[m] \/ c \in a.queued
               /\ c \in a.grants[m] => c \in b.grants[m]
    BY <2>1, <2>3
  <2>5. Advances(a, b)
    BY <2>1, <2>2, <2>4 DEF Advances
  <2> QED
    BY <2>5 DEF b
<1> QED
  BY <1>1, <1>2

(* Stopping what went on: the queue is done.                                *)
LEMMA StopAdvances ==
    ASSUME NEW a \in ArrayState, NEW b \in ArrayState, NEW reason, Advances(a, b), Placed(b)
    PROVE  Advances(a, Stop(b, reason))
<1> DEFINE e == Stop(b, reason)
<1>1. CASE e = b
  BY <1>1
<1>2. CASE e # b
  <2>1. /\ e.queued = {} /\ e.grants = b.grants /\ e.done = b.done \cup b.queued
        /\ e.attempts = [c \in Chunks |-> IF c \in b.queued THEN 1 ELSE b.attempts[c]]
    BY <1>2 DEF Stop
  <2> HIDE DEF e
  <2>2. a.attempts \in [Chunks -> Nat] /\ b.attempts \in [Chunks -> Nat]
    BY DEF ArrayState
  <2>3. ASSUME NEW c \in Chunks
        PROVE  /\ c \in a.done => c \in e.done
               /\ c \in e.done \/ a.attempts[c] <= e.attempts[c]
               /\ \A n \in Nodes : c \in e.grants[n] =>
                     /\ e.attempts[c] = a.attempts[c]
                     /\ c \in a.grants[n] \/ c \in a.queued
               /\ \A n \in Nodes : c \in a.grants[n] =>
                     c \in e.done \/ c \in e.grants[n] \/ a.attempts[c] < e.attempts[c]
    <3>1. CASE c \in b.queued
      <4>1. c \in e.done /\ \A n \in Nodes : c \notin e.grants[n]
        BY <2>1, <3>1 DEF Placed
      <4> QED
        BY <4>1
    <3>2. CASE c \notin b.queued
      <4>1. e.attempts[c] = b.attempts[c]
        BY <2>1, <3>2
      <4> QED
        BY <2>1, <4>1 DEF Advances
    <3> QED
      BY <3>1, <3>2
  <2>4. Advances(a, e)
    BY <2>1, <2>3 DEF Advances
  <2> QED
    BY <2>4 DEF e
<1> QED
  BY <1>1, <1>2

(* A chunk retired is done.                                                 *)
LEMMA RetireAdvances ==
    ASSUME NEW a \in ArrayState, NEW n \in Nodes, NEW r \in ChunkResult,
           Placed(a), r.chunk \in a.grants[n]
    PROVE  Advances(a, Retire(a, n, r))
<1> DEFINE b == Retire(a, n, r)
<1>1. /\ b.queued = a.queued /\ b.done = a.done \cup {r.chunk}
      /\ b.grants = [a.grants EXCEPT ![n] = a.grants[n] \ {r.chunk}]
      /\ b.attempts = [a.attempts EXCEPT ![r.chunk] = 1]
  BY DEF Retire
<1> HIDE DEF b
<1>2. /\ a.grants \in [Nodes -> SUBSET Chunks] /\ a.attempts \in [Chunks -> Nat]
      /\ r.chunk \in Chunks
  BY DEF ArrayState, ChunkResult
<1>3. ASSUME NEW m \in Nodes, NEW c \in Chunks
      PROVE  /\ c \in b.grants[m] => c \in a.grants[m]
             /\ c # r.chunk => (c \in b.grants[m] <=> c \in a.grants[m])
  BY <1>1, <1>2
<1>4. \A c \in Chunks : c # r.chunk => b.attempts[c] = a.attempts[c]
  BY <1>1, <1>2
<1>5. r.chunk \in b.done /\ r.chunk \notin b.queued /\ \A m \in Nodes : r.chunk \notin b.grants[m]
  BY <1>1, <1>2 DEF Placed
<1>6. ASSUME NEW c \in Chunks, c # r.chunk
      PROVE  /\ b.attempts[c] = a.attempts[c] /\ a.attempts[c] \in Nat
             /\ c \in b.done <=> c \in a.done
             /\ c \in b.queued <=> c \in a.queued
  BY <1>1, <1>2, <1>4, <1>6
<1>7. Advances(a, b)
  BY <1>3, <1>5, <1>6 DEF Advances
<1> QED
  BY <1>7 DEF b

(* A lost node's chunks return at the next attempt, or are done.            *)
LEMMA RequeueAdvances ==
    ASSUME NEW a \in ArrayState, NEW n \in Nodes, Placed(a)
    PROVE  Advances(a, RequeueNode(a, n))
<1> DEFINE b == RequeueNode(a, n)
<1>1. a.grants \in [Nodes -> SUBSET Chunks] /\ a.attempts \in [Chunks -> Nat]
  BY DEF ArrayState
<1>2. /\ b.grants = [a.grants EXCEPT ![n] = {}]
      /\ \/ /\ b.queued = a.queued /\ b.done = a.done \cup a.grants[n]
            /\ b.attempts = [c \in Chunks |-> IF c \in a.grants[n] THEN 1 ELSE a.attempts[c]]
         \/ /\ b.queued = a.queued \cup a.grants[n] /\ b.done = a.done
            /\ b.attempts = [c \in Chunks |-> IF c \in a.grants[n] THEN a.attempts[c] + 1
                                                                   ELSE a.attempts[c]]
  BY DEF RequeueNode
<1> HIDE DEF b
<1>3. \A m \in Nodes : b.grants[m] = IF m = n THEN {} ELSE a.grants[m]
  BY <1>1, <1>2
<1>4. ASSUME NEW c \in Chunks, c \in a.grants[n]
      PROVE  /\ \A m \in Nodes : c \notin b.grants[m]
             /\ c \notin a.done /\ c \notin a.queued
             /\ \/ c \in b.done /\ c \notin b.queued
                \/ a.attempts[c] < b.attempts[c]
  BY <1>1, <1>2, <1>3, <1>4 DEF Placed
<1>5. ASSUME NEW c \in Chunks, c \notin a.grants[n]
      PROVE  /\ b.attempts[c] = a.attempts[c]
             /\ c \in b.done <=> c \in a.done
             /\ c \in b.queued <=> c \in a.queued
             /\ \A m \in Nodes : c \in b.grants[m] <=> c \in a.grants[m]
  BY <1>1, <1>2, <1>3, <1>5
<1>6. ASSUME NEW c \in Chunks
      PROVE  a.attempts[c] \in Nat /\ b.attempts[c] \in Nat
  BY <1>1, <1>2
<1>7. ASSUME NEW c \in Chunks
      PROVE  /\ c \in a.done => c \in b.done
             /\ c \in b.done \/ a.attempts[c] <= b.attempts[c]
             /\ \A m \in Nodes : c \in b.grants[m] =>
                   /\ b.attempts[c] = a.attempts[c]
                   /\ c \in a.grants[m] \/ c \in a.queued
             /\ \A m \in Nodes : c \in a.grants[m] =>
                   c \in b.done \/ c \in b.grants[m] \/ a.attempts[c] < b.attempts[c]
             /\ c \in b.queued =>
                   \/ c \in a.queued /\ b.attempts[c] = a.attempts[c]
                   \/ a.attempts[c] < b.attempts[c]
  <2>1. CASE c \in a.grants[n]
    BY <1>4, <1>6, <2>1
  <2>2. CASE c \notin a.grants[n]
    BY <1>5, <1>6, <2>2
  <2> QED
    BY <2>1, <2>2
<1>8. Advances(a, b)
  BY <1>7 DEF Advances
<1> QED
  BY <1>8 DEF b

(* Every write takes the array on.                                          *)
LEMMA AppliedAdvances ==
    ASSUME NEW a \in ArrayState, ValidSnapshot(a), NEW w \in Write
    PROVE  Advances(a, AppliedTo(a, w))
<1>1. /\ w.op \in {"requeue", "unknown", "complete", "grant", "replay", "stop"}
      /\ w.op # "stop" => w.node \in Nodes
      /\ w.op = "complete" => w.result \in ChunkResult
      /\ w.op = "grant" => w.chunks \in SUBSET Chunks
      /\ w.op = "stop" => w.reason \in StopReasons
  BY WriteFields
<1>2. Placed(a) /\ Advances(a, a)
  BY PlacedIs, AdvancesSame DEF ValidSnapshot
<1>3. CASE w.op \in {"requeue", "unknown", "replay"}
  <2>1. AppliedTo(a, w) = a \/ (w.op # "unknown" /\ AppliedTo(a, w) = RequeueNode(a, w.node))
    BY <1>3 DEF AppliedTo
  <2> QED
    BY <1>1, <1>2, <1>3, <2>1, RequeueAdvances
<1>4. CASE w.op = "complete"
  <2> DEFINE r == w.result
             n == w.node
             b == Retire(a, n, r)
  <2>1. AppliedTo(a, w) = Complete(a, n, r)
    BY <1>4 DEF AppliedTo
  <2>2. CASE ~MayComplete(a, n, r)
    BY <1>2, <2>1, <2>2 DEF Complete
  <2>3. CASE MayComplete(a, n, r)
    <3>1. n \in Nodes /\ r \in ChunkResult /\ r.chunk \in a.grants[n]
      BY <1>1, <1>4, <2>3 DEF MayComplete
    <3>2. Advances(a, b)
      BY <1>2, <3>1, RetireAdvances
    <3>3. b \in ArrayState /\ ValidSnapshot(b)
      BY <2>3, <3>1, RetireKeeps
    <3>4. Placed(b)
      BY <3>3, PlacedIs DEF ValidSnapshot
    <3>5. AppliedTo(a, w) = b \/ AppliedTo(a, w) = Stop(b, "failures")
      BY <2>1, <2>3 DEF Complete
    <3> HIDE DEF b
    <3> QED
      BY <3>2, <3>3, <3>4, <3>5, StopAdvances
  <2> QED
    BY <2>2, <2>3
<1>5. CASE w.op = "grant"
  BY <1>1, <1>5, GrantAdvances DEF AppliedTo
<1>6. CASE w.op = "stop"
  BY <1>2, <1>6, StopAdvances DEF AppliedTo
<1> QED
  BY <1>1, <1>3, <1>4, <1>5, <1>6

(* One write of a committed entry is applied.                               *)
LEMMA ApplyWriteOnce ==
    ASSUME Inv, OnceInv, ApplyWrite
    PROVE  OnceInv'
<1> DEFINE w == Head(applying)
           a == AppliedTo(array, w)
<1>1. applying # <<>> /\ array' = a
  BY Zenon DEF ApplyWrite
<1>2. /\ kept' = kept /\ index' = index /\ epoch' = epoch /\ setting' = setting
      /\ launches' = launches /\ calls' = calls /\ late' = late
      /\ disk' = disk /\ run' = run /\ jobs' = jobs /\ sync' = sync
  BY DEF ApplyWrite, leader, nodes, history
<1>3. array \in ArrayState /\ ValidSnapshot(array)
  BY DEF Inv, LeaderInv
<1>4. w \in Write
  BY <1>1, HeadTailProperties DEF Inv, LeaderInv
<1>5. a \in ArrayState /\ ValidSnapshot(a)
  BY <1>3, <1>4, AppliedKeeps
<1>6. Advances(array, a)
  BY <1>3, <1>4, AppliedAdvances
<1> HIDE DEF w, a
<1>7. Placed(a)
  BY <1>5, PlacedIs DEF ValidSnapshot
<1>8. \A n \in Nodes : Untouched(n) /\ Requests(n)' = Requests(n)
  BY <1>2 DEF Untouched, SameSync, Requests
<1>9. \A n \in Nodes : RequestsReady(n)'
  BY <1>2, <1>8 DEF OnceInv, Ready, RequestsReady, Current
<1>10. Advances(array, array') /\ Placed(array') /\ array' \in ArrayState
  BY <1>1, <1>5, <1>6, <1>7
<1>11. LeaderMoves
  BY <1>2, <1>8, <1>9, <1>10 DEF LeaderMoves
<1> QED
  BY <1>10, <1>11, LeaderGoesOn
-----------------------------------------------------------------------------
(* A council that nobody has heard of yet.                                  *)

(* Nobody knows of an attempt and no task was started or waits.             *)
Unheard ==
    /\ \A n \in Nodes, c \in Chunks, a \in Tries : ~Knows(n, c, a)
    /\ \A n \in Nodes : \A j \in jobs[n], t \in Tasks : ~Waits(j, t)
    /\ \A t \in Tasks : \A a \in 1 .. setting.attempts : launches[t][a] = 0

(* That is where the invariant starts.                                      *)
LEMMA UnheardOnce ==
    ASSUME Unheard, Counts, \A n \in Nodes : Ready(n)
    PROVE  OnceInv
<1>1. GrantsFit /\ Apart
  BY DEF Unheard, GrantsFit, Apart
<1>2. ASSUME NEW t \in Tasks, NEW a
      PROVE  ~Used(t, a)
  BY DEF Unheard, Used, Launched
<1>3. \A c \in Chunks : ChunkRange(c) \subseteq Tasks
  BY DEF ChunkRange
<1>4. UsedIsSpent
  BY <1>2, <1>3 DEF UsedIsSpent
<1>5. WaitsOnce
  BY DEF Unheard, WaitsOnce
<1>6. Single
  BY DEF Unheard, Single
<1> QED
  BY <1>1, <1>4, <1>5, <1>6 DEF OnceInv

(* Initially.                                                               *)
LEMMA InitOnce ==
    ASSUME Init
    PROVE  OnceInv
<1>1. setting \in Setting
  BY SettingsAssumption DEF Init
<1>2. /\ array = NewArray /\ epoch = 0
      /\ launches = [t \in Tasks |-> [a \in 1 .. setting.attempts |-> 0]]
      /\ \A n \in Nodes : /\ disk[n] = FreshDisk /\ run[n] = NoRun /\ jobs[n] = {}
                          /\ sync[n] = NoSync /\ calls[n] = NoCall /\ late[n] = {}
  BY DEF Init
<1>3. ASSUME NEW n \in Nodes
      PROVE  Ready(n)
  <2>1. Requests(n) = {}
    BY <1>2 DEF Requests
  <2>2. RequestsReady(n)
    BY <2>1 DEF RequestsReady
  <2>3. RunReady(n) /\ SyncReady(n) /\ JobsReady(n)
    BY <1>2 DEF RunReady, SyncReady, JobsReady, NoRun, NoSync
  <2>4. Sound(disk[n])
    <3>1. /\ disk[n].control.epoch = 0 /\ disk[n].dir.fence = NoFile
          /\ disk[n].dir.ledger = [t \in Tasks |-> <<>>]
      BY <1>2 DEF FreshDisk, EmptyDirectory
    <3>2. disk[n].dir.ledger \in [Tasks -> Seq(Records)]
      BY <3>1
    <3> QED
      BY <1>2, <3>1, <3>2 DEF Sound
  <2> QED
    BY <2>2, <2>3, <2>4 DEF Ready
<1>4. ASSUME NEW n \in Nodes, NEW c \in Chunks, NEW a \in Tries
      PROVE  ~Knows(n, c, a)
  <2>1. ~Granted(n, c, a)
    BY <1>2 DEF Granted, NewArray
  <2>2. ~Asked(n, c, a)
    BY <1>2 DEF Asked, Requests
  <2>3. ~Recalled(n, c, a)
    BY <1>2 DEF Recalled, NoRun
  <2>4. ~OnFile(disk[n], c, a)
    BY <1>2 DEF OnFile, FreshDisk, EmptyDirectory
  <2>5. ~Aimed(n, c, a)
    BY <1>2 DEF Aimed, NoSync
  <2> QED
    BY <2>1, <2>2, <2>3, <2>4, <2>5 DEF Knows
<1>5. Unheard
  BY <1>2, <1>4 DEF Unheard
<1>6. Counts
  BY <1>2 DEF Counts
<1> QED
  BY <1>3, <1>5, <1>6, UnheardOnce

(* After a forced recovery: whatever is on its way or on a disk is of an    *)
(* earlier epoch.                                                           *)
LEMMA RecoverOnce ==
    ASSUME Inv, OnceInv, Recover
    PROVE  OnceInv'
<1>1. PICK arrive : Abandon(setting.members, arrive)
  BY DEF Recover
<1>2. /\ array' = NewArray /\ epoch' = epoch + 1 /\ setting' = setting
      /\ launches' = [t \in Tasks |-> [a \in 1 .. setting.attempts |-> 0]]
      /\ disk' = disk /\ run' = run /\ jobs' = jobs
  BY DEF Recover
<1>3. epoch \in Nat
  BY LeaderTypes
<1>4. ASSUME NEW n \in Nodes
      PROVE  /\ Requests(n)' \subseteq Requests(n) /\ SameSync(sync[n], sync'[n])
             /\ sync[n] = NoSync \/ sync[n].request \in Requests(n)
             /\ NodeInv(n) /\ Ready(n)
  BY <1>1, AbandonOnce DEF Inv, OnceInv, Requests
<1>5. ASSUME NEW n \in Nodes, NEW q \in Requests(n)
      PROVE  q.version.epoch \in Nat /\ q.version.epoch <= epoch
  BY <1>4, RequestTypes DEF NodeInv, Ready, RequestsReady
<1>6. ASSUME NEW n \in Nodes
      PROVE  /\ disk[n].control.epoch \in Nat /\ disk[n].control.epoch <= epoch
             /\ disk[n].dir.exists => disk[n].dir.epoch = disk[n].control.epoch
             /\ run[n].open => disk[n].dir.exists /\ run[n].epoch = disk[n].dir.epoch
  BY <1>4 DEF NodeInv, NodeShape, DiskShape, Version, DirectoryIsCurrent, RunHasDirectory,
     Ready, Sound
<1>7. ASSUME NEW n \in Nodes
      PROVE  Ready(n)'
  <2>1. RequestsReady(n)'
    <3>1. ASSUME NEW q \in Requests(n)'
          PROVE  q \in Requests(n) /\ q.version.epoch <= epoch' /\ q.version.epoch # epoch'
      BY <1>2, <1>3, <1>4, <1>5, <3>1
    <3>2. \A q \in Requests(n) : q.listed => q.known
      BY <1>4 DEF Ready, RequestsReady
    <3> QED
      BY <3>1, <3>2 DEF RequestsReady, Current
  <2>2. Sound(disk[n])'
    BY <1>2, <1>3, <1>4, <1>6 DEF Ready, Sound
  <2>3. RunReady(n)'
    BY <1>2, <1>4 DEF Ready, RunReady
  <2>4. JobsReady(n)'
    BY <1>2, <1>3, <1>4 DEF Ready, JobsReady
  <2>5. SyncReady(n)'
    BY <1>4, SyncSame DEF Ready, SyncReady
  <2> QED
    BY <2>1, <2>2, <2>3, <2>4, <2>5 DEF Ready
<1>8. ASSUME NEW n \in Nodes, NEW c \in Chunks, NEW a \in Tries
      PROVE  ~Knows(n, c, a)'
  <2>1. ~Granted(n, c, a)'
    BY <1>2 DEF Granted, NewArray
  <2>2. ~Asked(n, c, a)'
    BY <1>2, <1>3, <1>4, <1>5 DEF Asked, Current
  <2>3. ~Recalled(n, c, a)'
    BY <1>2, <1>3, <1>6 DEF Recalled
  <2>4. ~OnFile(disk[n], c, a)'
    BY <1>2, <1>3, <1>6 DEF OnFile
  <2>5. ~Aimed(n, c, a)'
    <3> SUFFICES ASSUME sync'[n].at = "marker", sync'[n].request.version.epoch = epoch'
                 PROVE  FALSE
      BY DEF Aimed, Current
    <3>1. sync[n].at = "marker" /\ sync'[n].request = sync[n].request
      BY <1>4, SyncSame
    <3>2. sync[n] # NoSync
      BY <3>1 DEF NoSync
    <3> QED
      BY <1>2, <1>3, <1>4, <1>5, <3>1, <3>2
  <2> QED
    BY <2>1, <2>2, <2>3, <2>4, <2>5 DEF Knows
<1>9. ASSUME NEW n \in Nodes, NEW j \in jobs'[n], NEW t \in Tasks
      PROVE  ~Waits(j, t)'
  BY <1>2, <1>3, <1>4 DEF Waits, Ready, JobsReady
<1>10. Unheard'
  BY <1>2, <1>8, <1>9 DEF Unheard
<1>11. Counts'
  BY <1>2 DEF Counts
<1>12. GrantsFit' /\ Apart' /\ WaitsOnce' /\ Single'
  BY <1>10 DEF Unheard, GrantsFit, Apart, WaitsOnce, Single
<1>13. ASSUME NEW t \in Tasks, NEW a
       PROVE  ~Used(t, a)'
  BY <1>10 DEF Unheard, Used, Launched
<1>14. UsedIsSpent'
  BY <1>13 DEF UsedIsSpent, ChunkRange
<1> QED
  BY <1>7, <1>11, <1>12, <1>14 DEF OnceInv
-----------------------------------------------------------------------------
(* The whole system.                                                        *)

(* A step of a node's own that moves on.                                    *)
LEMMA NodeStepOnce ==
    ASSUME OnceInv, NEW n \in Nodes, NodeKept(n), StoreFrame, MovesOn(n),
           setting' = setting, launches' = launches
    PROVE  OnceInv'
<1>1. Others(n) /\ NodeMoves(n) /\ Continues(jobs[n], jobs'[n])
  BY DEF NodeKept, MovesOn
<1> QED
  BY <1>1, NodeGoesOn

(* The steps of a sync.                                                     *)
LEMMA SyncStepsOnce ==
    ASSUME Inv, OnceInv, ~setting.replayable, NEW n \in setting.members,
           \/ Receive(n) \/ ReceiveLate(n) \/ ControlChecked(n) \/ CleanupDone(n)
           \/ RunOpened(n) \/ FenceWritten(n) \/ MarkerClaimed(n)
           \/ DiskError(n) \/ DropSync(n) \/ OrphanEnds(n)
    PROVE  OnceInv'
<1>1. Domains /\ n \in Nodes /\ NodeInv(n) /\ Ready(n) /\ epoch \in Nat
  BY LeaderTypes DEF Inv, Domains, OnceInv
<1>2. StoreFrame /\ setting' = setting /\ launches' = launches
  <2>1. CASE Receive(n) \/ ReceiveLate(n)
    BY <2>1 DEF Receive, ReceiveLate, Begin, replicated, StoreFrame, history
  <2>2. CASE ControlChecked(n) \/ CleanupDone(n)
    BY <2>2 DEF ControlChecked, CleanupDone, Rest, replicated, StoreFrame, history
  <2>3. CASE RunOpened(n) \/ FenceWritten(n)
    BY <2>3 DEF RunOpened, FenceWritten, Rest, replicated, StoreFrame
  <2>4. CASE MarkerClaimed(n) \/ DiskError(n)
    BY <2>4 DEF MarkerClaimed, DiskError, Rest, replicated, StoreFrame
  <2>5. CASE DropSync(n) \/ OrphanEnds(n)
    BY <2>5 DEF DropSync, OrphanEnds, leader, replicated, StoreFrame, history
  <2> QED
    BY <2>1, <2>2, <2>3, <2>4, <2>5
<1>3. CASE MarkerClaimed(n)
  BY <1>1, <1>2, <1>3, MarkerClaimedOnce
<1>4. CASE ~MarkerClaimed(n)
  <2>1. NodeKept(n)
    BY <1>1, <1>4, ReceiveKeeps, ReceiveLateKeeps, ControlCheckedKeeps, CleanupDoneKeeps,
       RunOpenedKeeps, FenceWrittenKeeps, DiskErrorKeeps, DropSyncKeeps, OrphanEndsKeeps
  <2>2. MovesOn(n)
    BY <1>1, <1>4, ReceiveMoves, ControlCheckedMoves, CleanupDoneMoves, RunOpenedMoves,
       FenceWrittenMoves, DiskErrorMoves, DropSyncMoves, OrphanEndsMoves
  <2> QED
    BY <1>1, <1>2, <2>1, <2>2, NodeStepOnce
<1> QED
  BY <1>3, <1>4

(* The steps of a job.                                                      *)
LEMMA JobStepsOnce ==
    ASSUME Inv, OnceInv, NEW n \in setting.members, NEW j \in jobs[n],
           \/ \E t \in DOMAIN j.tasks : LaunchTask(n, j, t)
           \/ \E t \in DOMAIN j.tasks : \E o \in Ended : EndTask(n, j, t, o)
           \/ \E t \in DOMAIN j.tasks : LoseTask(n, j, t)
           \/ \E t \in DOMAIN j.tasks : AppendFails(n, j, t)
           \/ FinishChunk(n, j)
    PROVE  OnceInv'
<1>1. Domains /\ n \in Nodes /\ NodeInv(n) /\ Ready(n) /\ epoch \in Nat
  BY LeaderTypes DEF Inv, Domains, OnceInv
<1>2. ASSUME NEW t \in DOMAIN j.tasks, LaunchTask(n, j, t)
      PROVE  OnceInv'
  <2>1. StoreFrame /\ setting' = setting
    BY <1>2 DEF LaunchTask, leader, replicated, StoreFrame
  <2> QED
    BY <1>1, <1>2, <2>1, LaunchTaskOnce
<1>3. ASSUME NEW t \in DOMAIN j.tasks, NEW o \in Ended,
             EndTask(n, j, t, o) \/ LoseTask(n, j, t) \/ AppendFails(n, j, t)
      PROVE  OnceInv'
  <2>1. StoreFrame /\ setting' = setting /\ launches' = launches
    <3>1. CASE EndTask(n, j, t, o)
      BY <3>1 DEF EndTask, leader, replicated, StoreFrame, history
    <3>2. CASE LoseTask(n, j, t) \/ AppendFails(n, j, t)
      BY <3>2 DEF LoseTask, AppendFails, leader, replicated, StoreFrame
    <3> QED
      BY <1>3, <3>1, <3>2
  <2>2. epoch' = epoch
    BY <2>1 DEF StoreFrame
  <2>3. NodeKept(n)
    BY <1>1, <1>3, EndTaskKeeps, LoseTaskKeeps, AppendFailsKeeps
  <2>4. MovesOn(n)
    BY <1>1, <1>3, <2>2, JobStepsMove
  <2> QED
    BY <1>1, <2>1, <2>3, <2>4, NodeStepOnce
<1>4. ASSUME FinishChunk(n, j)
      PROVE  OnceInv'
  <2>1. StoreFrame /\ setting' = setting /\ launches' = launches
    BY <1>4 DEF FinishChunk, leader, replicated, StoreFrame, history
  <2>2. epoch' = epoch
    BY <2>1 DEF StoreFrame
  <2>3. NodeKept(n) /\ MovesOn(n)
    BY <1>1, <1>4, <2>2, FinishChunkKeeps, FinishChunkMoves
  <2> QED
    BY <1>1, <2>1, <2>3, NodeStepOnce
<1>5. "ok" \in Ended
  BY DEF Ended
<1> QED
  BY <1>2, <1>3, <1>4, <1>5

(* A crash and a restart.                                                   *)
LEMMA CrashesOnce ==
    ASSUME Inv, OnceInv, NEW n \in setting.members, Crash(n) \/ Restart(n)
    PROVE  OnceInv'
<1>1. Domains /\ n \in Nodes /\ NodeInv(n) /\ Ready(n) /\ epoch \in Nat
  BY LeaderTypes DEF Inv, Domains, OnceInv
<1>2. StoreFrame /\ setting' = setting /\ launches' = launches
  <2>1. CASE Crash(n)
    BY <2>1 DEF Crash, replicated, StoreFrame
  <2>2. CASE Restart(n)
    BY <2>2 DEF Restart, replicated, leader, history, StoreFrame
  <2> QED
    BY <2>1, <2>2
<1>3. MovesOn(n)
  <2>1. epoch' = epoch
    BY <1>2 DEF StoreFrame
  <2> QED
    BY <1>1, <2>1, CrashesMove
<1>4. Others(n)
  <2>1. CASE Crash(n)
    BY <1>1, <2>1, CrashKeeps DEF NodeKept
  <2>2. CASE Restart(n)
    BY <2>2 DEF Restart, leader, history, Others
  <2> QED
    BY <2>1, <2>2
<1>5. NodeMoves(n) /\ Continues(jobs[n], jobs'[n])
  BY <1>3 DEF MovesOn
<1> QED
  BY <1>1, <1>2, <1>4, <1>5, NodeGoesOn

(* Every step keeps the invariant, if the work must not be replayed.        *)
LEMMA NextOnce ==
    ASSUME Inv, OnceInv, ~setting.replayable, [Next]_vars
    PROVE  OnceInv'
<1>1. CASE Next
  <2>1. CASE ApplyWrite
    BY <2>1, ApplyWriteOnce
  <2>2. CASE \/ Commit \/ Cancel \/ Prune
             \/ \E n \in setting.members : AcknowledgeReplay(n)
    BY <2>2, StoreStepsOnce
  <2>3. CASE \E n \in setting.members : SendSync(n)
    BY <2>3, SendSyncOnce
  <2>4. CASE LeaderChange \/ \E n \in setting.members : TimeOut(n)
    BY <2>4, GivenUpOnce
  <2>5. CASE \E n \in setting.members : CallFails(n) \/ LoseLate(n)
    BY <2>5, LostCallsOnce
  <2>6. CASE \E silent, failing \in SUBSET setting.members : Tick(silent, failing)
    BY <2>6, TickOnce
  <2>7. CASE Recover
    BY <2>7, RecoverOnce
  <2>8. CASE \E n \in setting.members :
               \/ Receive(n) \/ ReceiveLate(n) \/ ControlChecked(n) \/ CleanupDone(n)
               \/ RunOpened(n) \/ FenceWritten(n) \/ MarkerClaimed(n)
               \/ DiskError(n) \/ DropSync(n) \/ OrphanEnds(n)
    BY <2>8, SyncStepsOnce
  <2>9. CASE \E n \in setting.members : \E j \in jobs[n] :
               \/ \E t \in DOMAIN j.tasks : LaunchTask(n, j, t)
               \/ \E t \in DOMAIN j.tasks : \E o \in Ended : EndTask(n, j, t, o)
               \/ \E t \in DOMAIN j.tasks : LoseTask(n, j, t)
               \/ \E t \in DOMAIN j.tasks : AppendFails(n, j, t)
               \/ FinishChunk(n, j)
    BY <2>9, JobStepsOnce
  <2>10. CASE \E n \in setting.members : Crash(n) \/ Restart(n)
    BY <2>10, CrashesOnce
  <2> QED
    BY <1>1, <2>1, <2>2, <2>3, <2>4, <2>5, <2>6, <2>7, <2>8, <2>9, <2>10, Zenon DEF Next
<1>2. CASE UNCHANGED vars
  <2>1. /\ array' = array /\ epoch' = epoch /\ setting' = setting /\ launches' = launches
        /\ disk' = disk /\ run' = run /\ jobs' = jobs /\ sync' = sync
        /\ late' = late /\ calls' = calls /\ kept' = kept /\ index' = index
    BY <1>2 DEF vars, replicated, leader, nodes, history
  <2>2. \A n \in Nodes : Untouched(n) /\ Requests(n)' \subseteq Requests(n)
    BY <2>1, FramesOnce
  <2> QED
    BY <2>1, <2>2, LeaderTypes, QuietOnce
<1> QED
  BY <1>1, <1>2

(* No step changes the setting.                                             *)
LEMMA SettingStays ==
    ASSUME [Next]_vars
    PROVE  setting' = setting
<1>1. CASE \/ ApplyWrite \/ Commit \/ Cancel \/ Prune \/ LeaderChange \/ Recover
           \/ \E n \in setting.members :
                 AcknowledgeReplay(n) \/ SendSync(n) \/ TimeOut(n) \/ CallFails(n) \/ LoseLate(n)
  BY <1>1 DEF ApplyWrite, Commit, Cancel, Prune, LeaderChange, Recover, AcknowledgeReplay,
     SendSync, TimeOut, CallFails, LoseLate, history
<1>2. CASE \E silent, failing \in SUBSET setting.members : Tick(silent, failing)
  BY <1>2 DEF Tick
<1>3. CASE \E n \in setting.members :
              \/ Receive(n) \/ ReceiveLate(n) \/ ControlChecked(n) \/ CleanupDone(n)
              \/ RunOpened(n) \/ FenceWritten(n)
  BY <1>3 DEF Receive, ReceiveLate, Begin, ControlChecked, CleanupDone, RunOpened, FenceWritten,
     history
<1>4. CASE \E n \in setting.members :
              \/ MarkerClaimed(n) \/ DiskError(n) \/ DropSync(n) \/ OrphanEnds(n)
              \/ Crash(n) \/ Restart(n)
  BY <1>4 DEF MarkerClaimed, DiskError, DropSync, OrphanEnds, Crash, Restart, history
<1>5. CASE \E n \in setting.members : \E j \in jobs[n] :
              \/ \E t \in DOMAIN j.tasks : LaunchTask(n, j, t)
              \/ \E t \in DOMAIN j.tasks : \E o \in Ended : EndTask(n, j, t, o)
              \/ \E t \in DOMAIN j.tasks : LoseTask(n, j, t)
              \/ \E t \in DOMAIN j.tasks : AppendFails(n, j, t)
              \/ FinishChunk(n, j)
  <2>1. ASSUME NEW n, NEW j, NEW t, NEW o,
               \/ LaunchTask(n, j, t) \/ EndTask(n, j, t, o) \/ LoseTask(n, j, t)
               \/ AppendFails(n, j, t) \/ FinishChunk(n, j)
        PROVE  setting' = setting
    <3>1. CASE LaunchTask(n, j, t)
      BY <3>1 DEF LaunchTask
    <3>2. CASE EndTask(n, j, t, o)
      BY <3>2 DEF EndTask, history
    <3>3. CASE LoseTask(n, j, t) \/ AppendFails(n, j, t)
      BY <3>3 DEF LoseTask, AppendFails
    <3>4. CASE FinishChunk(n, j)
      BY <3>4 DEF FinishChunk, history
    <3> QED
      BY <2>1, <3>1, <3>2, <3>3, <3>4
  <2> QED
    BY <1>5, <2>1
<1>6. CASE UNCHANGED vars
  BY <1>6 DEF vars, history
<1> QED
  BY <1>1, <1>2, <1>3, <1>4, <1>5, <1>6, Zenon DEF Next

(* Work that must not be replayed unasked is started at most once per grant *)
(* attempt, whatever requests arrive late, whatever handlers are dropped,   *)
(* and wherever crashes, disk errors, elections and forced recoveries fall: *)
(* the launch markers of reconcile do what they are for.                    *)
THEOREM StartsOnce == Spec => []StartedOnce
<1> DEFINE Once == ~setting.replayable => OnceInv
<1>1. Init => Once
  BY InitOnce
<1>2. Inv /\ Once /\ [Next]_vars => Once'
  BY NextOnce, SettingStays
<1>3. Once => StartedOnce
  BY DEF OnceInv, Single, StartedOnce
<1> QED
  BY <1>1, <1>2, <1>3, Invariant, PTL DEF Spec

-----------------------------------------------------------------------------
(* A chunk's first grant resumes from the ledger: who says, and to whom,    *)
(* that a chunk is held at its first attempt, and until when.               *)

(* The chunk is past its first attempt, or done.                            *)
NeverFirst(c) == c \in array.done \/ array.attempts[c] > 1

(* The request holds the chunk at its first attempt.                        *)
First(q, c) == q.held[c] = 1

(* A node that has accepted version v will not accept a request that holds  *)
(* the chunk at its first attempt any more, and none will be made.          *)
EndsFirst(n, c, v) ==
    /\ v.epoch = epoch => NeverFirst(c)
    /\ \A p \in Requests(n) : p.version.epoch = v.epoch /\ First(p, c) => Stale(p.version, v)

(* From version v on, a request that does not hold the chunk at its first   *)
(* attempt comes after all that do.                                         *)
OrdersFirst(n, c, v) ==
    /\ v.epoch = epoch => NeverFirst(c) \/ Granted(n, c, 1)
    /\ \A q \in Requests(n) :
          q.version.epoch = v.epoch /\ ~Stale(q.version, v) /\ ~First(q, c)
          => EndsFirst(n, c, q.version)

(* A request of the index in office says what is granted; one that holds a  *)
(* first attempt came before all that do not; one of a later attempt, and   *)
(* one that no longer lists the array, after all that do.                   *)
RequestsFit(n) ==
    \A q \in Requests(n) :
        /\ q.version.epoch <= epoch
        /\ ~q.listed => \A c \in Chunks : q.held[c] = 0
        /\ Current(q) => q.version.index <= index
        /\ Current(q) /\ q.version.index = index =>
              applying = <<>> /\ \A c \in Chunks : First(q, c) <=> Granted(n, c, 1)
        /\ \A c \in Chunks : /\ First(q, c) => OrdersFirst(n, c, q.version)
                             /\ q.held[c] > 1 => EndsFirst(n, c, q.version)

(* What a step keeps of the words under way to a node.                      *)
WordsKept(n) ==
    /\ RequestsFit(n)'
    /\ \A c \in Chunks, v \in Version : v.epoch <= epoch =>
          /\ EndsFirst(n, c, v) => EndsFirst(n, c, v)'
          /\ OrdersFirst(n, c, v) => OrdersFirst(n, c, v)'

(* An array that went on gives no chunk a first attempt again.              *)
LEMMA FirstOnce ==
    ASSUME array \in ArrayState, array' \in ArrayState, Advances(array, array'),
           NEW n \in Nodes, NEW c \in Chunks
    PROVE  /\ NeverFirst(c) => NeverFirst(c)'
           /\ Granted(n, c, 1) => NeverFirst(c)' \/ Granted(n, c, 1)'
<1>1. array.attempts[c] \in Nat /\ array'.attempts[c] \in Nat
  BY DEF ArrayState
<1> QED
  BY <1>1 DEF Advances, NeverFirst, Granted

(* A step that sends the node nothing keeps the words under way to it.      *)
LEMMA FewerWords ==
    ASSUME array \in ArrayState, array' \in ArrayState, Advances(array, array'),
           index \in Nat, epoch \in Nat, epoch' = epoch,
           NEW n \in Nodes, NodeShape(n), RequestsFit(n), Requests(n)' \subseteq Requests(n),
           \/ array' = array /\ index' = index /\ applying' = applying
           \/ index' = index /\ applying # <<>>
           \/ index' = index + 1
    PROVE  WordsKept(n)
<1>1. ASSUME NEW c \in Chunks, NEW v, EndsFirst(n, c, v)
      PROVE  EndsFirst(n, c, v)'
  BY <1>1, FirstOnce DEF EndsFirst, First, Stale
<1>2. ASSUME NEW c \in Chunks, NEW v, OrdersFirst(n, c, v)
      PROVE  OrdersFirst(n, c, v)'
  <2>1. v.epoch = epoch' => NeverFirst(c)' \/ Granted(n, c, 1)'
    BY <1>2, FirstOnce DEF OrdersFirst
  <2>2. ASSUME NEW q \in Requests(n)', q.version.epoch = v.epoch, ~Stale(q.version, v), ~First(q, c)
        PROVE  EndsFirst(n, c, q.version)'
    <3>1. EndsFirst(n, c, q.version)
      BY <1>2, <2>2 DEF OrdersFirst
    <3> QED
      BY <1>1, <3>1
  <2> QED
    BY <2>1, <2>2 DEF OrdersFirst, First, Stale
<1>3. RequestsFit(n)'
  <2> SUFFICES ASSUME NEW q \in Requests(n)'
               PROVE  /\ q.version.epoch <= epoch
                      /\ ~q.listed => \A c \in Chunks : q.held[c] = 0
                      /\ q.version.epoch = epoch => q.version.index <= index'
                      /\ q.version.epoch = epoch /\ q.version.index = index' =>
                            applying' = <<>> /\ \A c \in Chunks : First(q, c) <=> Granted(n, c, 1)'
                      /\ \A c \in Chunks : /\ First(q, c) => OrdersFirst(n, c, q.version)'
                                           /\ q.held[c] > 1 => EndsFirst(n, c, q.version)'
    BY DEF RequestsFit, Current, First
  <2>1. /\ q.version.epoch <= epoch
        /\ ~q.listed => \A c \in Chunks : q.held[c] = 0
        /\ q.version.epoch = epoch => q.version.index <= index
        /\ q.version.epoch = epoch /\ q.version.index = index =>
              applying = <<>> /\ \A c \in Chunks : First(q, c) <=> Granted(n, c, 1)
        /\ \A c \in Chunks : /\ First(q, c) => OrdersFirst(n, c, q.version)
                             /\ q.held[c] > 1 => EndsFirst(n, c, q.version)
    BY DEF RequestsFit, Current
  <2>2. q.version.index \in Nat
    BY RequestTypes
  <2>3. q.version.epoch = epoch => q.version.index <= index'
    BY <2>1, <2>2
  <2>4. q.version.epoch = epoch /\ q.version.index = index' =>
            applying' = <<>> /\ \A c \in Chunks : First(q, c) <=> Granted(n, c, 1)'
    BY <2>1, <2>2 DEF Granted
  <2> QED
    BY <1>1, <1>2, <2>1, <2>3, <2>4
<1> QED
  BY <1>1, <1>2, <1>3 DEF WordsKept

(* What the leader sends, when it asks of the array as it is now.           *)
LEMMA SentFirst ==
    ASSUME Inv, ~kept => outcome # "none", NEW n \in Nodes, NEW q, q = RequestFor(n)
    PROVE  /\ ~q.listed => \A c \in Chunks : q.held[c] = 0
           /\ \A c \in Chunks : /\ First(q, c) <=> Granted(n, c, 1)
                                /\ q.held[c] > 1 => Granted(n, c, q.held[c])
           /\ q.version \in Version
<1> DEFINE listed == kept /\ ~IsTerminal(array)
           stopping == array.stopped # "no"
           held == HeldBy(array, n)
           v == [epoch |-> epoch, term |-> term, index |-> index]
<1>1. q = [version |-> v, known |-> kept, listed |-> listed, stopping |-> stopping,
           held |-> held]
  BY Zenon DEF RequestFor
<1>2. v \in Version
  BY LeaderTypes DEF Version
<1>3. \A c \in Chunks : held[c] = IF c \in array.grants[n] THEN array.attempts[c] ELSE 0
  BY DEF HeldBy
<1>4. array \in ArrayState /\ ValidSnapshot(array) /\ (outcome # "none" <=> IsTerminal(array))
  BY DEF Inv, LeaderInv
<1>5. ASSUME ~listed
      PROVE  \A c \in Chunks : held[c] = 0
  <2>1. IsTerminal(array)
    BY <1>4, <1>5
  <2>2. \A c : c \notin array.grants[n]
    BY <1>4, <2>1, TerminalIs, HeldIs
  <2> QED
    BY <1>3, <2>2
<1> HIDE DEF listed, stopping, held, v
<1>6. q.version = v /\ q.listed = listed /\ q.held = held
  BY <1>1
<1>7. ASSUME NEW c \in Chunks
      PROVE  /\ First(q, c) <=> Granted(n, c, 1)
             /\ q.held[c] > 1 => Granted(n, c, q.held[c])
  BY <1>3, <1>6 DEF First, Granted
<1> QED
  BY <1>2, <1>5, <1>6, <1>7

(* A request of the array as it is now keeps the words under way in order.  *)
LEMMA SentWords ==
    ASSUME Inv, ~kept => outcome # "none", NEW n \in Nodes, RequestsFit(n),
           array' = array, index' = index, epoch' = epoch, applying' = applying,
           applying = <<>>, NEW q, q = RequestFor(n),
           Requests(n)' \subseteq Requests(n) \cup {q}
    PROVE  WordsKept(n)
<1>1. /\ q.version.epoch = epoch /\ q.version.index = index
      /\ ~q.listed => \A c \in Chunks : q.held[c] = 0
      /\ \A c \in Chunks : /\ First(q, c) <=> Granted(n, c, 1)
                           /\ q.held[c] > 1 => Granted(n, c, q.held[c])
      /\ q.version \in Version
  BY SentRequest, SentFirst
<1>2. /\ array \in ArrayState /\ index \in Nat /\ epoch \in Nat /\ NodeShape(n)
      /\ Placed(array)
  BY LeaderTypes, PlacedIs DEF Inv, NodeInv, LeaderInv, ValidSnapshot
<1>3. \A p \in Requests(n) : p.version \in Version /\ p.version.index \in Nat /\ p.version.epoch \in Nat
  BY <1>2, RequestTypes
<1>4. \A c \in Chunks : Granted(n, c, 1) => ~NeverFirst(c)
  BY <1>2 DEF Granted, NeverFirst, Placed
<1>5. \A c \in Chunks : \A a : Granted(n, c, a)' = Granted(n, c, a) /\ NeverFirst(c)' = NeverFirst(c)
  BY DEF Granted, NeverFirst
<1>6. ASSUME NEW c \in Chunks, NEW v, EndsFirst(n, c, v)
      PROVE  EndsFirst(n, c, v)'
  BY <1>1, <1>4, <1>5, <1>6 DEF EndsFirst, First, Stale
(* The new request, when it does not hold the chunk at its first attempt
   although it might, comes after every request that does. *)
<1>7. ASSUME NEW c \in Chunks, ~First(q, c), NeverFirst(c) \/ Granted(n, c, 1)
      PROVE  EndsFirst(n, c, q.version)'
  <2>1. NeverFirst(c)
    BY <1>1, <1>7
  <2>2. ASSUME NEW p \in Requests(n)', p.version.epoch = epoch, First(p, c)
        PROVE  Stale(p.version, q.version)
    <3>1. p \in Requests(n)
      BY <1>7, <2>2
    <3>2. p.version.index <= index /\ (p.version.index = index => Granted(n, c, 1))
      BY <2>2, <3>1 DEF RequestsFit, Current
    <3> QED
      BY <1>1, <1>2, <1>3, <1>4, <2>1, <2>2, <3>1, <3>2 DEF Stale
  <2> QED
    BY <1>1, <1>5, <2>1, <2>2 DEF EndsFirst, First, Stale
<1>8. ASSUME NEW c \in Chunks, NEW v, OrdersFirst(n, c, v)
      PROVE  OrdersFirst(n, c, v)'
  <2>1. v.epoch = epoch' => NeverFirst(c)' \/ Granted(n, c, 1)'
    BY <1>5, <1>8 DEF OrdersFirst
  <2>2. ASSUME NEW p \in Requests(n)', p.version.epoch = v.epoch, ~Stale(p.version, v), ~First(p, c)
        PROVE  EndsFirst(n, c, p.version)'
    <3>1. CASE p \in Requests(n)
      <4>1. EndsFirst(n, c, p.version)
        BY <1>8, <2>2, <3>1 DEF OrdersFirst
      <4> QED
        BY <1>6, <4>1
    <3>2. CASE p = q
      <4>1. NeverFirst(c) \/ Granted(n, c, 1)
        BY <1>1, <1>8, <2>2, <3>2 DEF OrdersFirst
      <4> QED
        BY <1>7, <2>2, <3>2, <4>1
    <3> QED
      BY <3>1, <3>2
  <2> QED
    BY <2>1, <2>2 DEF OrdersFirst, First, Stale
<1>9. ASSUME NEW c \in Chunks, First(q, c)
      PROVE  OrdersFirst(n, c, q.version)'
  <2>1. Granted(n, c, 1) /\ ~NeverFirst(c)
    BY <1>1, <1>4, <1>9
  <2>2. ASSUME NEW p \in Requests(n)', p.version.epoch = epoch, ~Stale(p.version, q.version)
        PROVE  First(p, c)
    <3>1. CASE p \in Requests(n)
      <4>1. p.version.index = index
        <5>1. p.version.index <= index
          BY <2>2, <3>1 DEF RequestsFit, Current
        <5> QED
          BY <1>1, <1>2, <1>3, <2>2, <3>1, <5>1 DEF Stale
      <4> QED
        BY <2>1, <2>2, <3>1, <4>1 DEF RequestsFit, Current
    <3> QED
      BY <1>9, <3>1
  <2> QED
    BY <1>1, <1>5, <2>1, <2>2 DEF OrdersFirst, First, Stale
<1>10. ASSUME NEW c \in Chunks, q.held[c] > 1
       PROVE  EndsFirst(n, c, q.version)'
  <2>1. NeverFirst(c) /\ ~First(q, c)
    BY <1>1, <1>10 DEF NeverFirst, Granted, First
  <2> QED
    BY <1>7, <2>1
<1>11. RequestsFit(n)'
  <2> SUFFICES ASSUME NEW p \in Requests(n)'
               PROVE  /\ p.version.epoch <= epoch
                      /\ ~p.listed => \A c \in Chunks : p.held[c] = 0
                      /\ p.version.epoch = epoch => p.version.index <= index
                      /\ p.version.epoch = epoch /\ p.version.index = index =>
                            applying = <<>> /\ \A c \in Chunks : First(p, c) <=> Granted(n, c, 1)
                      /\ \A c \in Chunks : /\ First(p, c) => OrdersFirst(n, c, p.version)'
                                           /\ p.held[c] > 1 => EndsFirst(n, c, p.version)'
    BY <1>5 DEF RequestsFit, Current, First
  <2>1. CASE p \in Requests(n)
    BY <1>6, <1>8, <2>1 DEF RequestsFit, Current
  <2>2. CASE p = q
    BY <1>1, <1>2, <1>9, <1>10, <2>2
  <2> QED
    BY <2>1, <2>2
<1> QED
  BY <1>6, <1>8, <1>11 DEF WordsKept

(* Neither does a forced recovery disturb the words of earlier epochs.      *)
LEMMA RecoveredWords ==
    ASSUME epoch \in Nat, epoch' = epoch + 1, NEW n, NodeShape(n), RequestsFit(n),
           Requests(n)' \subseteq Requests(n)
    PROVE  WordsKept(n)
<1>1. \A q \in Requests(n) : q.version.epoch \in Nat /\ q.version.epoch <= epoch
  BY RequestTypes DEF RequestsFit
<1>2. ASSUME NEW c \in Chunks, NEW v, v.epoch \in Nat, v.epoch <= epoch, EndsFirst(n, c, v)
      PROVE  EndsFirst(n, c, v)'
  BY <1>2 DEF EndsFirst, First, Stale
<1>3. ASSUME NEW c \in Chunks, NEW v, v.epoch \in Nat, v.epoch <= epoch, OrdersFirst(n, c, v)
      PROVE  OrdersFirst(n, c, v)'
  <2>1. ASSUME NEW q \in Requests(n)', q.version.epoch = v.epoch, ~Stale(q.version, v), ~First(q, c)
        PROVE  EndsFirst(n, c, q.version)'
    <3>1. EndsFirst(n, c, q.version)
      BY <1>3, <2>1 DEF OrdersFirst
    <3> QED
      BY <1>1, <1>2, <3>1
  <2> QED
    BY <1>3, <2>1 DEF OrdersFirst, First, Stale
<1>4. RequestsFit(n)'
  <2> SUFFICES ASSUME NEW q \in Requests(n)'
               PROVE  /\ q.version.epoch <= epoch /\ q.version.epoch \in Nat
                      /\ ~q.listed => \A c \in Chunks : q.held[c] = 0
                      /\ \A c \in Chunks : /\ First(q, c) => OrdersFirst(n, c, q.version)'
                                           /\ q.held[c] > 1 => EndsFirst(n, c, q.version)'
    BY DEF RequestsFit, Current, First
  <2>1. /\ ~q.listed => \A c \in Chunks : q.held[c] = 0
        /\ \A c \in Chunks : /\ First(q, c) => OrdersFirst(n, c, q.version)
                             /\ q.held[c] > 1 => EndsFirst(n, c, q.version)
    BY DEF RequestsFit
  <2> QED
    BY <1>1, <1>2, <1>3, <2>1
<1>5. \A v \in Version : v.epoch \in Nat
  BY DEF Version
<1> QED
  BY <1>2, <1>3, <1>4, <1>5 DEF WordsKept

-----------------------------------------------------------------------------
(* What a node has of the first attempt at a chunk: with disk d, run r,     *)
(* jobs js and sync s.                                                      *)

(* The ledger has an outcome of the task's first attempt.                   *)
Ran(d, t) ==
    \E i \in DOMAIN d.dir.ledger[t] :
        d.dir.ledger[t][i].attempt = 1 /\ d.dir.ledger[t][i].outcome # "notrun"

(* A job of the chunk in the epoch on the control fence.                    *)
JobOf(c, d, j) == j.chunk = c /\ j.epoch = d.control.epoch
FirstJob(c, d, j) == JobOf(c, d, j) /\ j.attempt = 1

(* Word of a later attempt is in a fence slot or in the ledger.             *)
LaterOnDisk(c, d) ==
    \/ \E i \in 1 .. 2 : d.dir.fence.slots[i] # Torn /\ d.dir.fence.slots[i].payload[c] > 1
    \/ \E t \in ChunkRange(c) : \E i \in DOMAIN d.dir.ledger[t] : d.dir.ledger[t][i].attempt > 1

HeardLater(c, d, r, js) ==
    \/ r.open /\ r.highest[c] > 1
    \/ \E j \in js : JobOf(c, d, j) /\ j.attempt > 1
    \/ LaterOnDisk(c, d)

(* The first attempt has not begun here.                                    *)
Fresh(c, d, r, js) ==
    /\ \A j \in js : ~FirstJob(c, d, j)
    /\ \A t \in ChunkRange(c) : ~Ran(d, t)
    /\ r.open => r.chunks[c] # 1

(* One job runs it, and what the ledger has is over for that job.           *)
OneWriter(c, d, js) ==
    \A j \in js : FirstJob(c, d, j) =>
        /\ \A k \in js : FirstJob(c, d, k) => k = j
        /\ \A t \in ChunkRange(c) : j.tasks[t] \in Unfinished => ~Ran(d, t)

(* No job runs it, and an open run remembers what the ledger has.           *)
Resumable(c, d, r, js) ==
    /\ \A j \in js : ~FirstJob(c, d, j)
    /\ r.open => \A t \in ChunkRange(c) :
          Ran(d, t) => r.resumed[t].attempt = 1 /\ r.resumed[t].outcome \notin Unfinished

(* It has begun, and a job for it starts again only from the ledger.        *)
Begun(n, c, d, r, js) ==
    /\ OrdersFirst(n, c, d.control)
    /\ OneWriter(c, d, js)
    /\ \/ EndsFirst(n, c, d.control)
       \/ r.open /\ r.chunks[c] = 1
       \/ Resumable(c, d, r, js)

ChunkFits(n, c, d, r, js) ==
    /\ HeardLater(c, d, r, js) => EndsFirst(n, c, d.control)
    /\ Fresh(c, d, r, js) \/ Begun(n, c, d, r, js)

Entries == [attempt: Tries, outcome: Ended]

FilesFit(d) ==
    /\ d.dir.ledger \in [Tasks -> Seq(Entries)]
    /\ ~d.dir.exists => d.dir.fence = NoFile /\ \A t \in Tasks : d.dir.ledger[t] = <<>>

JobsFit(d, js) ==
    \A j \in js : /\ j.epoch \in Nat /\ j.epoch <= d.control.epoch
                  /\ j.attempt > 0 /\ DOMAIN j.tasks = ChunkRange(j.chunk)

(* The chunks whose markers are claimed are held, do not run, and start at  *)
(* the first attempt only if the request says so.                           *)
AimsFit(n, d, r, s) ==
    s.at = "marker" =>
        /\ s.chunk \notin s.todo
        /\ \A c \in s.todo \cup {s.chunk} : s.target[c] > 0 /\ r.chunks[c] = 0
        /\ \A c \in Chunks : /\ s.target[c] = 1 => First(s.request, c)
                             /\ s.target[c] > 1 => EndsFirst(n, c, d.control)

Fit(n, d, r, js, s) ==
    /\ d.control.epoch <= epoch
    /\ FilesFit(d) /\ JobsFit(d, js) /\ AimsFit(n, d, r, s)
    /\ \A c \in Chunks : ChunkFits(n, c, d, r, js)

FirstFits(n) == RequestsFit(n) /\ Fit(n, disk[n], run[n], jobs[n], sync[n])

(* The invariant.                                                           *)
FirstInv ==
    /\ ~kept => outcome # "none"
    /\ \A n \in Nodes : FirstFits(n)

(* What fits the words under way fits those that a step keeps.              *)
LEMMA FitsLater ==
    ASSUME NEW n, WordsKept(n), NEW d, NEW r, NEW js, NEW s, Fit(n, d, r, js, s),
           d.control \in Version, epoch <= epoch', epoch \in Nat, epoch' \in Nat,
           disk'[n] = d, run'[n] = r, jobs'[n] = js, sync'[n] = s
    PROVE  FirstFits(n)'
<1>1. /\ d.control.epoch <= epoch /\ d.control.epoch \in Nat
      /\ FilesFit(d) /\ JobsFit(d, js) /\ AimsFit(n, d, r, s)
      /\ \A c \in Chunks : ChunkFits(n, c, d, r, js)
  BY DEF Fit, Version
<1>2. ASSUME NEW c \in Chunks
      PROVE  /\ EndsFirst(n, c, d.control) => EndsFirst(n, c, d.control)'
             /\ OrdersFirst(n, c, d.control) => OrdersFirst(n, c, d.control)'
  BY <1>1 DEF WordsKept
<1>3. ASSUME NEW c \in Chunks
      PROVE  ChunkFits(n, c, disk[n], run[n], jobs[n])'
  <2>1. ChunkFits(n, c, d, r, js)'
    <3>1. /\ HeardLater(c, d, r, js)' = HeardLater(c, d, r, js)
          /\ Fresh(c, d, r, js)' = Fresh(c, d, r, js)
          /\ OneWriter(c, d, js)' = OneWriter(c, d, js)
          /\ Resumable(c, d, r, js)' = Resumable(c, d, r, js)
      BY DEF HeardLater, Fresh, OneWriter, Resumable, LaterOnDisk, JobOf, FirstJob, Ran
    <3>2. ChunkFits(n, c, d, r, js)
      BY <1>1
    <3> QED
      BY <1>2, <3>1, <3>2 DEF ChunkFits, Begun
  <2> QED
    BY <2>1
<1>4. AimsFit(n, disk[n], run[n], sync[n])'
  <2>1. AimsFit(n, d, r, s)'
    BY <1>1, <1>2 DEF AimsFit, First
  <2> QED
    BY <2>1
<1>5. FilesFit(disk[n])' /\ JobsFit(disk[n], jobs[n])'
  BY <1>1 DEF FilesFit, JobsFit
<1>6. disk'[n].control.epoch <= epoch'
  BY <1>1
<1> QED
  BY <1>3, <1>4, <1>5, <1>6 DEF FirstFits, Fit, WordsKept

-----------------------------------------------------------------------------
(* What keeps a node fitting.                                               *)

(* A run that goes on as it is, but for what the chunks do not depend on.   *)
SameRun(r, r2) ==
    /\ r2.open => /\ r.open /\ r2.highest = r.highest /\ r2.chunks = r.chunks
                  /\ r2.resumed = r.resumed
    /\ r.open => r2.open

(* A run ends with its jobs, or on word that the first attempt is over.     *)
RunOver(n, c, v, r, js) ==
    ~r.open /\ (js = {} \/ (OrdersFirst(n, c, v) => EndsFirst(n, c, v)))

(* A disk with no other outcome of the chunk and no word of it unheard of.  *)
SameOutcomes(c, d, r, js, d2) ==
    /\ d2.control = d.control
    /\ \A t \in ChunkRange(c) : Ran(d2, t) => Ran(d, t)
    /\ LaterOnDisk(c, d2) => HeardLater(c, d, r, js)

(* A job that goes on is the first of its chunk if it was.                  *)
LEMMA JobsContinue ==
    ASSUME NEW js, NEW js2, Continues(js, js2)
    PROVE  \E F : \A j \in js2 : \E k \in js : /\ j = F[k] /\ SameWork(k, j)
BY DEF Continues

(* A chunk goes on fitting when its jobs do and its outcomes stay.          *)
LEMMA ChunkMoves ==
    ASSUME NEW n, NEW c \in Chunks, NEW d, NEW r, NEW js, ChunkFits(n, c, d, r, js), JobsFit(d, js),
           NEW d2, SameOutcomes(c, d, r, js, d2), NEW js2, Continues(js, js2),
           NEW r2, SameRun(r, r2) \/ RunOver(n, c, d.control, r2, js2)
    PROVE  ChunkFits(n, c, d2, r2, js2)
<1>1. PICK F : \A j \in js2 : \E k \in js : j = F[k] /\ SameWork(k, j)
  BY JobsContinue
<1>2. \A j \in js2 : \E k \in js :
         /\ j = F[k] /\ SameWork(k, j)
         /\ JobOf(c, d2, j) => JobOf(c, d, k)
         /\ FirstJob(c, d2, j) => FirstJob(c, d, k)
  BY <1>1 DEF SameWork, JobOf, FirstJob, SameOutcomes
<1>3. d2.control = d.control
  BY DEF SameOutcomes
<1>4. HeardLater(c, d2, r2, js2) => HeardLater(c, d, r, js)
  <2>1. CASE r2.open /\ r2.highest[c] > 1
    BY <2>1 DEF HeardLater, SameRun, RunOver
  <2>2. CASE \E j \in js2 : JobOf(c, d2, j) /\ j.attempt > 1
    BY <1>2, <2>2 DEF HeardLater, SameWork
  <2>3. CASE LaterOnDisk(c, d2)
    BY <2>3 DEF SameOutcomes
  <2> QED
    BY <2>1, <2>2, <2>3 DEF HeardLater
<1>5. \A t \in ChunkRange(c) : Ran(d2, t) => Ran(d, t)
  BY DEF SameOutcomes
<1>6. ASSUME Fresh(c, d, r, js)
      PROVE  Fresh(c, d2, r2, js2)
  BY <1>2, <1>5, <1>6 DEF Fresh, SameRun, RunOver
<1>7. ASSUME Begun(n, c, d, r, js)
      PROVE  Begun(n, c, d2, r2, js2)
  <2>1. OneWriter(c, d2, js2)
    <3> SUFFICES ASSUME NEW j \in js2, FirstJob(c, d2, j)
                 PROVE  /\ \A k \in js2 : FirstJob(c, d2, k) => k = j
                        /\ \A t \in ChunkRange(c) : j.tasks[t] \in Unfinished => ~Ran(d2, t)
      BY DEF OneWriter
    <3>1. PICK k \in js : j = F[k] /\ SameWork(k, j) /\ FirstJob(c, d, k)
      BY <1>2
    <3>2. OneWriter(c, d, js)
      BY <1>7 DEF Begun
    <3>3. DOMAIN k.tasks = ChunkRange(c)
      BY <3>1 DEF FirstJob, JobOf, JobsFit
    <3>4. \A i \in js2 : FirstJob(c, d2, i) => i = j
      BY <1>2, <3>1, <3>2 DEF OneWriter
    <3>5. \A t \in ChunkRange(c) : j.tasks[t] \in Unfinished => ~Ran(d2, t)
      BY <1>5, <3>1, <3>2, <3>3 DEF OneWriter, SameWork
    <3> QED
      BY <3>4, <3>5
  <2>2. CASE EndsFirst(n, c, d.control)
    BY <1>3, <1>7, <2>1, <2>2 DEF Begun
  <2>3. CASE SameRun(r, r2)
    <3>1. Resumable(c, d, r, js) => Resumable(c, d2, r2, js2)
      BY <1>2, <1>5, <2>3 DEF Resumable, SameRun
    <3> QED
      BY <1>3, <1>7, <2>1, <2>3, <3>1 DEF Begun, SameRun
  <2>4. CASE RunOver(n, c, d.control, r2, js2) /\ js2 = {}
    <3>1. Resumable(c, d2, r2, js2)
      BY <2>4 DEF Resumable, RunOver
    <3> QED
      BY <1>3, <1>7, <2>1, <3>1 DEF Begun
  <2> QED
    BY <1>7, <2>2, <2>3, <2>4 DEF Begun, RunOver
<1> QED
  BY <1>3, <1>4, <1>6, <1>7 DEF ChunkFits

(* The control fence moves to the version of a request that is not stale.   *)
LEMMA ControlFits ==
    ASSUME NEW n, RequestsFit(n), NodeShape(n), NEW q \in Requests(n), NEW c \in Chunks,
           NEW d, d.control \in Version, NEW r, NEW js, ChunkFits(n, c, d, r, js), FilesFit(d),
           JobsFit(d, js), ~Stale(q.version, d.control),
           q.version.epoch > d.control.epoch => ~d.dir.exists, r.open => d.dir.exists,
           NEW x, x.control = q.version, x.dir = d.dir
    PROVE  ChunkFits(n, c, x, r, js)
<1> DEFINE v == q.version
<1>1. /\ v \in Version /\ v.epoch \in Nat /\ d.control.epoch \in Nat
      /\ \A p \in Requests(n) : p.version \in Version
  BY RequestTypes DEF Version
<1>2. \A t : Ran(x, t) = Ran(d, t)
  BY DEF Ran
<1>3. LaterOnDisk(c, x) = LaterOnDisk(c, d)
  BY DEF LaterOnDisk
<1>4. CASE v.epoch = d.control.epoch
  <2>1. \A j : JobOf(c, x, j) = JobOf(c, d, j) /\ FirstJob(c, x, j) = FirstJob(c, d, j)
    BY <1>4 DEF JobOf, FirstJob
  <2>2. /\ HeardLater(c, x, r, js) = HeardLater(c, d, r, js)
        /\ Fresh(c, x, r, js) = Fresh(c, d, r, js)
        /\ OneWriter(c, x, js) = OneWriter(c, d, js)
        /\ Resumable(c, x, r, js) = Resumable(c, d, r, js)
    BY <1>2, <1>3, <2>1 DEF HeardLater, Fresh, OneWriter, Resumable
  <2>3. \A p \in Requests(n) : ~Stale(p.version, v) => ~Stale(p.version, d.control)
    BY <1>1, StaleOrder
  <2>4. EndsFirst(n, c, d.control) => EndsFirst(n, c, v)
    BY <1>4, <2>3 DEF EndsFirst
  <2>5. OrdersFirst(n, c, d.control) => OrdersFirst(n, c, v)
    BY <1>4, <2>3 DEF OrdersFirst
  <2> QED
    BY <2>2, <2>4, <2>5 DEF ChunkFits, Begun
<1>5. CASE v.epoch # d.control.epoch
  <2>1. v.epoch > d.control.epoch
    BY <1>1, <1>5 DEF Stale
  <2>2. /\ ~d.dir.exists /\ ~r.open /\ d.dir.fence = NoFile
        /\ \A t \in Tasks : d.dir.ledger[t] = <<>>
    BY <2>1 DEF FilesFit
  <2>3. \A j \in js : ~JobOf(c, x, j)
    BY <1>1, <2>1 DEF JobOf, JobsFit
  <2>4. \A t \in ChunkRange(c) : t \in Tasks /\ DOMAIN d.dir.ledger[t] = {}
    BY <2>2 DEF ChunkRange
  <2>5. \A i \in 1 .. 2 : d.dir.fence.slots[i] = Torn
    BY <2>2 DEF NoFile
  <2>6. ~LaterOnDisk(c, x)
    BY <1>3, <2>4, <2>5 DEF LaterOnDisk
  <2>7. \A t \in ChunkRange(c) : ~Ran(x, t)
    BY <1>2, <2>4 DEF Ran
  <2>8. Fresh(c, x, r, js) /\ ~HeardLater(c, x, r, js)
    BY <2>2, <2>3, <2>6, <2>7 DEF Fresh, HeardLater, FirstJob
  <2> QED
    BY <2>8 DEF ChunkFits
<1> QED
  BY <1>4, <1>5

(* The same outcomes are on the same disk.                                  *)
LEMMA SameDisk ==
    ASSUME NEW c, NEW d, NEW r, NEW js
    PROVE  SameOutcomes(c, d, r, js, d)
BY DEF SameOutcomes, HeardLater

(* Jobs that go on fit as before.                                           *)
LEMMA JobsFitOn ==
    ASSUME NEW d, NEW js, JobsFit(d, js), NEW js2, Continues(js, js2), NEW d2,
           d2.control = d.control
    PROVE  JobsFit(d2, js2)
<1>1. PICK F : \A j \in js2 : \E k \in js : j = F[k] /\ SameWork(k, j)
  BY JobsContinue
<1> QED
  BY <1>1 DEF SameWork, JobsFit

(* The sync does not claim a marker, or claims the same.                    *)
SameAims(s, r, s2, r2) ==
    \/ s2.at # "marker"
    \/ /\ s.at = s2.at /\ s2.request = s.request /\ s2.target = s.target
       /\ s2.chunk = s.chunk /\ s2.todo = s.todo /\ r2.chunks = r.chunks

(* A node whose jobs go on, with a run that goes on or is over.             *)
LEMMA FitGoesOn ==
    ASSUME NEW n, NEW d, NEW r, NEW js, NEW s, Fit(n, d, r, js, s),
           NEW js2, Continues(js, js2), NEW r2,
           SameRun(r, r2) \/ \A c \in Chunks : RunOver(n, c, d.control, r2, js2),
           NEW s2, SameAims(s, r, s2, r2)
    PROVE  Fit(n, d, r2, js2, s2)
<1>1. /\ d.control.epoch <= epoch
      /\ FilesFit(d) /\ JobsFit(d, js) /\ AimsFit(n, d, r, s)
      /\ \A c \in Chunks : ChunkFits(n, c, d, r, js)
  BY DEF Fit
<1>2. ASSUME NEW c \in Chunks
      PROVE  ChunkFits(n, c, d, r2, js2)
  BY <1>1, SameDisk, ChunkMoves
<1>3. JobsFit(d, js2)
  BY <1>1, JobsFitOn
<1>4. AimsFit(n, d, r2, s2)
  BY <1>1 DEF AimsFit, SameAims
<1> QED
  BY <1>1, <1>2, <1>3, <1>4 DEF Fit

(* A disk on which the control fence and the outcomes are the same.         *)
LEMMA FitOnDisk ==
    ASSUME NEW n, NEW d, NEW r, NEW js, NEW s, Fit(n, d, r, js, s), NEW x, FilesFit(x),
           x.control = d.control, \A c \in Chunks : SameOutcomes(c, d, r, js, x)
    PROVE  Fit(n, x, r, js, s)
<1>1. /\ d.control.epoch <= epoch
      /\ FilesFit(d) /\ JobsFit(d, js) /\ AimsFit(n, d, r, s)
      /\ \A c \in Chunks : ChunkFits(n, c, d, r, js)
  BY DEF Fit
<1>2. Continues(js, js) /\ SameRun(r, r)
  BY ContinuesAlways DEF SameRun
<1>3. ASSUME NEW c \in Chunks
      PROVE  ChunkFits(n, c, x, r, js)
  BY <1>1, <1>2, ChunkMoves
<1>4. JobsFit(x, js)
  BY <1>1, <1>2, JobsFitOn
<1>5. AimsFit(n, x, r, s)
  BY <1>1 DEF AimsFit
<1> QED
  BY <1>1, <1>3, <1>4, <1>5 DEF Fit

(* A disk whose ledger is the same or gone, and whose fence holds nothing   *)
(* that was not there or is the run's.                                      *)
LEMMA FitOnFence ==
    ASSUME NEW n, NEW d, NEW r, NEW js, NEW s, Fit(n, d, r, js, s), NEW x, FilesFit(x),
           x.control = d.control,
           x.dir.ledger = d.dir.ledger \/ \A t \in Tasks : x.dir.ledger[t] = <<>>,
           \A i \in 1 .. 2 : \/ x.dir.fence.slots[i] = d.dir.fence.slots[i]
                             \/ x.dir.fence.slots[i] = Torn
                             \/ r.open /\ x.dir.fence.slots[i].payload = r.highest
    PROVE  Fit(n, x, r, js, s)
<1>1. ASSUME NEW c \in Chunks
      PROVE  SameOutcomes(c, d, r, js, x)
  <2>1. ChunkRange(c) \subseteq Tasks
    BY DEF ChunkRange
  <2>2. \A t \in ChunkRange(c) : Ran(x, t) => Ran(d, t)
    BY <2>1 DEF Ran
  <2>3. LaterOnDisk(c, x) => HeardLater(c, d, r, js)
    <3>1. ASSUME NEW i \in 1 .. 2, x.dir.fence.slots[i] # Torn, x.dir.fence.slots[i].payload[c] > 1
          PROVE  HeardLater(c, d, r, js)
      BY <3>1 DEF LaterOnDisk, HeardLater
    <3>2. ASSUME NEW t \in ChunkRange(c), NEW i \in DOMAIN x.dir.ledger[t],
                 x.dir.ledger[t][i].attempt > 1
          PROVE  HeardLater(c, d, r, js)
      <4>1. x.dir.ledger = d.dir.ledger
        BY <2>1, <3>2
      <4> QED
        BY <3>2, <4>1 DEF LaterOnDisk, HeardLater
    <3> QED
      BY <3>1, <3>2 DEF LaterOnDisk
  <2> QED
    BY <2>2, <2>3 DEF SameOutcomes
<1> QED
  BY <1>1, FitOnDisk

(* The control check.                                                       *)
LEMMA ControlOperation ==
    ASSUME NEW n, NodeInv(n), FirstFits(n), epoch \in Nat, sync[n].at = "control",
           SyncShape(sync[n]), sync[n] # NoSync
    PROVE  Fit(n, Effect(n), run[n], jobs[n], sync[n])
<1> DEFINE d == disk[n]
           q == sync[n].request
           x == Effect(n)
<1>1. /\ RequestsFit(n) /\ d.control.epoch <= epoch /\ FilesFit(d) /\ JobsFit(d, jobs[n])
      /\ \A c \in Chunks : ChunkFits(n, c, d, run[n], jobs[n])
  BY DEF FirstFits, Fit
<1>2. /\ NodeShape(n) /\ d.control \in Version /\ d.control.epoch \in Nat
      /\ run[n].open => d.dir.exists
  BY DEF NodeInv, NodeShape, DiskShape, RunHasDirectory, Version
<1>3. /\ q \in Requests(n) /\ q.version \in Version /\ q.version.epoch \in Nat
      /\ q.version.epoch <= epoch
  BY <1>1, <1>2, HandledRequest, RequestTypes DEF RequestsFit
<1>4. x.dir = d.dir /\ (x.control = q.version \/ x.control = d.control)
  BY ControlStep
<1>5. FilesFit(x)
  BY <1>1, <1>4 DEF FilesFit
<1>6. AimsFit(n, x, run[n], sync[n])
  BY DEF AimsFit
<1>7. CASE x.control = d.control
  BY <1>4, <1>5, <1>7, FitOnFence DEF FirstFits
<1>8. CASE x.control = q.version /\ x.control # d.control
  <2>1. Verdict(d, q.version) = "accepted"
    BY <1>8, ControlStep
  <2>2. ~Stale(q.version, d.control) /\ (q.version.epoch > d.control.epoch => ~d.dir.exists)
    BY <2>1, CheckedIs
  <2>3. q.version.epoch >= d.control.epoch
    BY <1>2, <1>3, <2>2 DEF Stale
  <2>4. JobsFit(x, jobs[n])
    BY <1>1, <1>2, <1>3, <1>8, <2>3 DEF JobsFit
  <2>5. ASSUME NEW c \in Chunks
        PROVE  ChunkFits(n, c, x, run[n], jobs[n])
    <3> HIDE DEF x, d, q
    <3> QED
      BY <1>1, <1>2, <1>3, <1>4, <1>8, <2>2, <2>5, ControlFits
  <2> QED
    BY <1>3, <1>5, <1>6, <1>8, <2>4, <2>5 DEF Fit
<1> QED
  BY <1>4, <1>7, <1>8

(* Cleanup, opening and a claimed marker leave the outcomes and the fence,  *)
(* or delete them.                                                          *)
LEMMA FilesOperation ==
    ASSUME NEW n, NodeInv(n), FirstFits(n), sync[n].at \in {"clean", "open", "marker"},
           SyncShape(sync[n])
    PROVE  Fit(n, Effect(n), run[n], jobs[n], sync[n])
<1> DEFINE d == disk[n]
           s == sync[n]
           x == Effect(n)
           e == IF d.dir.exists THEN d.dir.epoch ELSE s.request.version.epoch
           marked == d.dir.markers \cup {<<s.chunk, s.target[s.chunk]>>}
           dir == IF s.at = "clean"
                  THEN [d.dir EXCEPT !.compacted = TRUE, !.fence = NoFile, !.markers = {}]
                  ELSE IF s.at = "open" THEN [d.dir EXCEPT !.exists = TRUE, !.epoch = e]
                  ELSE [d.dir EXCEPT !.markers = marked]
<1>1. /\ DOMAIN d = DiskFields /\ DOMAIN d.dir = DirFields
      /\ FilesFit(d) /\ Fit(n, d, run[n], jobs[n], s)
  BY DEF NodeInv, NodeShape, DiskShape, FirstFits, Fit
<1>2. x = d \/ x = [d EXCEPT !.dir = EmptyDirectory] \/ x = [d EXCEPT !.dir = dir]
  <2>1. CASE s.at = "clean"
    <3>1. \/ x = d \/ x = [d EXCEPT !.dir = EmptyDirectory]
          \/ x = [d EXCEPT !.dir.compacted = TRUE, !.dir.fence = NoFile, !.dir.markers = {}]
      BY <2>1, EffectIs DEF Cleaned
    <3> HIDE DEF d, x
    <3> QED
      BY <1>1, <2>1, <3>1 DEF DiskFields, DirFields
  <2>2. CASE s.at = "open"
    <3>1. x = d \/ x = [d EXCEPT !.dir.exists = TRUE, !.dir.epoch = e]
      BY <2>2, EffectIs DEF Opened
    <3> HIDE DEF d, x, e
    <3> QED
      BY <1>1, <2>2, <3>1 DEF DiskFields, DirFields
  <2>3. CASE s.at = "marker"
    <3>1. x = [d EXCEPT !.dir.markers = marked]
      BY <2>3, EffectIs DEF Marked
    <3> HIDE DEF d, x, marked
    <3> QED
      BY <1>1, <2>3, <3>1 DEF DiskFields, DirFields
  <2> QED
    BY <2>1, <2>2, <2>3
<1>3. /\ DOMAIN dir = DirFields /\ dir.ledger = d.dir.ledger
      /\ dir.fence = d.dir.fence \/ dir.fence = NoFile
      /\ ~dir.exists => ~d.dir.exists
  <2> HIDE DEF e, marked
  <2> QED
    BY <1>1 DEF DirFields
<1>4. /\ EmptyDirectory.fence = NoFile /\ EmptyDirectory.ledger = [t \in Tasks |-> <<>>]
      /\ \A i \in 1 .. 2 : NoFile.slots[i] = Torn
  BY DEF EmptyDirectory, NoFile
<1> HIDE DEF dir, e, marked, x, d
<1>5. CASE x = d
  BY <1>1, <1>5 DEF x, s
<1>6. CASE x = [d EXCEPT !.dir = EmptyDirectory]
  <2>1. x.control = d.control /\ x.dir = EmptyDirectory
    BY <1>1, <1>6 DEF DiskFields
  <2>2. FilesFit(x)
    <3>1. <<>> \in Seq(Entries)
      OBVIOUS
    <3> QED
      BY <1>4, <2>1, <3>1 DEF FilesFit
  <2>3. Fit(n, x, run[n], jobs[n], s)
    BY <1>1, <1>4, <2>1, <2>2, FitOnFence
  <2> QED
    BY <2>3 DEF x, s
<1>7. CASE x = [d EXCEPT !.dir = dir]
  <2>1. x.control = d.control /\ x.dir = dir
    BY <1>1, <1>7 DEF DiskFields
  <2>2. FilesFit(x)
    BY <1>1, <1>3, <2>1 DEF FilesFit
  <2>3. Fit(n, x, run[n], jobs[n], s)
    BY <1>1, <1>3, <1>4, <2>1, <2>2, FitOnFence
  <2> QED
    BY <2>3 DEF x, s
<1> QED
  BY <1>2, <1>5, <1>6, <1>7

(* A fence write, or what is left of it.                                    *)
LEMMA FenceOperation ==
    ASSUME NEW n, NodeInv(n), FirstFits(n), sync[n].at = "fence", SyncShape(sync[n]), NEW g,
           \/ g = Written(disk[n].dir.fence, sync[n].position, sync[n].payload)
           \/ g \in LeftBy(disk[n].dir.fence, sync[n].position, sync[n].payload),
           NEW x, x = [disk[n] EXCEPT !.dir.fence = g]
    PROVE  Fit(n, x, run[n], jobs[n], sync[n])
<1> DEFINE d == disk[n]
           p == sync[n].payload
           r == run[n]
           new == [d.dir EXCEPT !.fence = g]
<1>1. /\ DOMAIN d = DiskFields /\ DOMAIN d.dir = DirFields /\ d.dir.fence \in Files
      /\ FilesFit(d) /\ Fit(n, d, r, jobs[n], sync[n])
      /\ sync[n].position \in Positions /\ p \in Attempts
  BY DEF NodeInv, NodeShape, DiskShape, FirstFits, Fit, SyncShape
<1>2. r.open /\ d.dir.exists /\ r.highest = p
  BY DEF NodeInv, RunHasDirectory, FenceFits
<1>3. x.control = d.control /\ x.dir = new
  <2> HIDE DEF d
  <2> QED
    BY <1>1 DEF DiskFields, d
<1>4. new.fence = g /\ new.ledger = d.dir.ledger /\ new.exists = d.dir.exists
  BY <1>1 DEF DirFields
<1> HIDE DEF new
<1>5. FilesFit(x)
  BY <1>1, <1>2, <1>3, <1>4 DEF FilesFit
<1>6. \A i \in 1 .. 2 : \/ g.slots[i] = d.dir.fence.slots[i] \/ g.slots[i] = Torn
                        \/ g.slots[i].payload = p
  BY <1>1, SlotsLeft
<1> HIDE DEF d, p, r
<1>7. x.dir.fence = g /\ x.dir.ledger = d.dir.ledger
  BY <1>3, <1>4
<1>8. \A i \in 1 .. 2 : \/ x.dir.fence.slots[i] = d.dir.fence.slots[i]
                        \/ x.dir.fence.slots[i] = Torn
                        \/ r.open /\ x.dir.fence.slots[i].payload = r.highest
  BY <1>2, <1>6, <1>7
<1>9. Fit(n, x, r, jobs[n], sync[n])
  BY <1>1, <1>3, <1>5, <1>7, <1>8, FitOnFence
<1> QED
  BY <1>9 DEF r

(* Whatever the operation under way leaves fits.                            *)
LEMMA OperationFits ==
    ASSUME NEW n, NodeInv(n), FirstFits(n), epoch \in Nat
    PROVE  /\ sync[n] # NoSync => Fit(n, Effect(n), run[n], jobs[n], sync[n])
           /\ \A x \in Remains(n) : Fit(n, x, run[n], jobs[n], sync[n])
<1>1. Fit(n, disk[n], run[n], jobs[n], sync[n])
  BY DEF FirstFits
<1>2. ASSUME sync[n] # NoSync
      PROVE  SyncShape(sync[n]) /\ sync[n].at \in Stages
  BY <1>2 DEF NodeInv, NodeShape, SyncShape
<1>3. ASSUME sync[n] # NoSync
      PROVE  Fit(n, Effect(n), run[n], jobs[n], sync[n])
  <2>1. CASE sync[n].at = "control"
    BY <1>2, <1>3, <2>1, ControlOperation
  <2>2. CASE sync[n].at \in {"clean", "open", "marker"}
    BY <1>2, <1>3, <2>2, FilesOperation
  <2>3. CASE sync[n].at = "fence"
    <3>1. Effect(n) = [disk[n] EXCEPT !.dir.fence =
                         Written(disk[n].dir.fence, sync[n].position, sync[n].payload)]
      BY <2>3, EffectIs
    <3> QED
      BY <1>2, <1>3, <2>3, <3>1, FenceOperation
  <2> QED
    BY <1>2, <1>3, <2>1, <2>2, <2>3 DEF Stages
<1>4. ASSUME NEW x \in Remains(n)
      PROVE  Fit(n, x, run[n], jobs[n], sync[n])
  <2>1. CASE sync[n] = NoSync
    <3>1. sync[n].at = "none"
      BY <2>1 DEF NoSync
    <3>2. x = disk[n]
      BY <3>1 DEF Remains
    <3> QED
      BY <1>1, <3>2
  <2>2. CASE sync[n] # NoSync /\ sync[n].at = "fence"
    <3>1. PICK f \in LeftBy(disk[n].dir.fence, sync[n].position, sync[n].payload) :
                 x = [disk[n] EXCEPT !.dir.fence = f]
      BY <2>2 DEF Remains
    <3> QED
      BY <1>2, <2>2, <3>1, FenceOperation
  <2>3. CASE sync[n] # NoSync /\ sync[n].at # "fence"
    <3>1. sync[n].at # "none" /\ sync[n].at # "fence"
      BY <1>2, <2>3 DEF Stages
    <3>2. x \in {disk[n], Effect(n)}
      BY <3>1 DEF Remains
    <3> QED
      BY <1>1, <1>3, <2>3, <3>2
  <2> QED
    BY <2>1, <2>2, <2>3
<1> QED
  BY <1>3, <1>4

-----------------------------------------------------------------------------
(* Reconcile.                                                               *)

(* The node with disk d has accepted request q.                             *)
Accepted(n, d, q) ==
    /\ RequestsFit(n) /\ q \in Requests(n) /\ d.control = q.version
    /\ q.version \in Version /\ q.held \in Attempts

(* What a request just accepted says of a chunk's first attempt.            *)
LEMMA AcceptedWord ==
    ASSUME NEW n, NEW d, NEW q, Accepted(n, d, q), NEW c \in Chunks
    PROVE  /\ First(q, c) => OrdersFirst(n, c, d.control) /\ ~EndsFirst(n, c, d.control)
           /\ ~First(q, c) /\ OrdersFirst(n, c, d.control) => EndsFirst(n, c, d.control)
           /\ q.held[c] > 1 => EndsFirst(n, c, d.control)
<1>1. ~Stale(q.version, q.version)
  BY StaleOrder DEF Accepted
<1>2. First(q, c) => OrdersFirst(n, c, q.version)
  BY DEF Accepted, RequestsFit
<1>3. q.held[c] > 1 => EndsFirst(n, c, q.version)
  BY DEF Accepted, RequestsFit
<1>4. First(q, c) => ~EndsFirst(n, c, q.version)
  BY <1>1 DEF Accepted, EndsFirst
<1>5. ~First(q, c) /\ OrdersFirst(n, c, q.version) => EndsFirst(n, c, q.version)
  BY <1>1 DEF Accepted, OrdersFirst
<1> QED
  BY <1>2, <1>3, <1>4, <1>5 DEF Accepted

(* A target that fits starts the first attempt only if the request holds it. *)
TargetFits(n, d, q, target) ==
    \A c \in Chunks :
        /\ target[c] = 1 => First(q, c)
        /\ target[c] > 1 => EndsFirst(n, c, d.control)
        /\ target[c] # 1 /\ OrdersFirst(n, c, d.control) => EndsFirst(n, c, d.control)

(* The target of reconcile does, and what it raises is over for the first.  *)
LEMMA RaisedFits ==
    ASSUME NEW n, NEW d, NEW q, Accepted(n, d, q), NEW r, r.open, r.highest \in Attempts, NEW js,
           \A c \in Chunks : ChunkFits(n, c, d, r, js)
    PROVE  /\ TargetFits(n, d, q, Target(q.held, r.highest))
           /\ \A c \in Chunks : Raised(q.held, r.highest)[c] > 1 => EndsFirst(n, c, d.control)
<1> DEFINE target == Target(q.held, r.highest)
           raised == Raised(q.held, r.highest)
<1>1. ASSUME NEW c \in Chunks
      PROVE  /\ q.held[c] \in Nat /\ r.highest[c] \in Nat
             /\ target[c] = IF q.held[c] = 0 THEN 0
                            ELSE IF q.held[c] > r.highest[c] THEN q.held[c] ELSE r.highest[c]
             /\ raised[c] = IF q.held[c] > r.highest[c] THEN q.held[c] ELSE r.highest[c]
  BY DEF Accepted, Attempts, Target, Raised
<1> HIDE DEF target, raised
<1>2. ASSUME NEW c \in Chunks, r.highest[c] > 1
      PROVE  EndsFirst(n, c, d.control)
  BY <1>2 DEF ChunkFits, HeardLater
<1>3. ASSUME NEW c \in Chunks
      PROVE  raised[c] > 1 => EndsFirst(n, c, d.control)
  BY <1>1, <1>2, AcceptedWord
<1>4. ASSUME NEW c \in Chunks
      PROVE  /\ target[c] = 1 => First(q, c)
             /\ target[c] > 1 => EndsFirst(n, c, d.control)
             /\ target[c] # 1 /\ OrdersFirst(n, c, d.control) => EndsFirst(n, c, d.control)
  BY <1>1, <1>2, AcceptedWord DEF First
<1>5. TargetFits(n, d, q, target)
  BY <1>4 DEF TargetFits
<1> QED
  BY <1>3, <1>5 DEF target, raised

(* A chunk that may start: it does not run, and the attempt fits.           *)
MayStart(n, c, d, q, r, target) ==
    /\ r.chunks[c] = 0 /\ target[c] > 0
    /\ target[c] = 1 => First(q, c)
    /\ target[c] > 1 => EndsFirst(n, c, d.control)

(* The chunks of todo start.                                                *)
LEMMA ChunkStarts ==
    ASSUME NEW n, NEW d, NEW q, Accepted(n, d, q), q = sync[n].request,
           NEW r, r.open, NEW js, NEW todo \in SUBSET Chunks, NEW target \in Attempts,
           \A c \in todo : MayStart(n, c, d, q, r, target),
           NEW r2, r2.open, r2.highest = r.highest,
           \A c \in Chunks : r2.chunks[c] = IF c \in todo THEN target[c] ELSE r.chunks[c],
           \A t \in Tasks : (\A c \in todo : t \notin ChunkRange(c)) => r2.resumed[t] = r.resumed[t],
           NEW js2, js \subseteq js2,
           \A j \in js2 : j \in js \/ \E c \in todo : j = NewJob(n, c, target[c], r),
           NEW c \in Chunks, ChunkFits(n, c, d, r, js)
    PROVE  ChunkFits(n, c, d, r2, js2)
<1> DEFINE Job(b) == NewJob(n, b, target[b], r)
<1>1. ASSUME NEW b \in Chunks
      PROVE  /\ Job(b).chunk = b /\ Job(b).attempt = target[b] /\ Job(b).epoch = d.control.epoch
             /\ \A t \in ChunkRange(b) : Job(b).tasks[t] =
                   IF r.resumed[t].attempt = target[b] THEN r.resumed[t].outcome ELSE "todo"
  BY DEF NewJob, Accepted
<1>2. \A j \in js2 : j \in js \/ \E b \in todo : j = Job(b)
  OBVIOUS
<1> HIDE DEF Job
<1>3. \A j \in js2 : JobOf(c, d, j) => j \in js \/ (c \in todo /\ j = Job(c))
  BY <1>1, <1>2 DEF JobOf
<1>4. js \subseteq js2
  OBVIOUS
<1>5. CASE c \notin todo
  <2>1. \A j \in js2 : JobOf(c, d, j) => j \in js
    BY <1>3, <1>5
  <2>2. r2.chunks[c] = r.chunks[c]
    BY <1>5
  <2>3. \A t \in ChunkRange(c) : r2.resumed[t] = r.resumed[t]
    <3>1. ASSUME NEW t \in ChunkRange(c), NEW b \in todo
          PROVE  t \notin ChunkRange(b)
      BY <1>5, OneChunk
    <3>2. \A t \in ChunkRange(c) : t \in Tasks
      BY DEF ChunkRange
    <3> QED
      BY <3>1, <3>2
  <2>4. HeardLater(c, d, r2, js2) => HeardLater(c, d, r, js)
    BY <2>1 DEF HeardLater
  <2>5. Fresh(c, d, r, js) => Fresh(c, d, r2, js2)
    BY <2>1, <2>2 DEF Fresh, FirstJob
  <2>6. OneWriter(c, d, js) => OneWriter(c, d, js2)
    BY <2>1 DEF OneWriter, FirstJob
  <2>7. Resumable(c, d, r, js) => Resumable(c, d, r2, js2)
    BY <2>1, <2>3 DEF Resumable, FirstJob
  <2> QED
    BY <2>2, <2>4, <2>5, <2>6, <2>7 DEF ChunkFits, Begun
<1>6. CASE c \in todo /\ target[c] # 1
  <2>1. target[c] > 1 /\ EndsFirst(n, c, d.control)
    BY <1>6 DEF MayStart, Attempts
  <2>2. \A j \in js2 : FirstJob(c, d, j) => j \in js
    BY <1>1, <1>3, <1>6 DEF FirstJob
  <2>3. Fresh(c, d, r, js) => Fresh(c, d, r2, js2)
    BY <1>6, <2>2 DEF Fresh
  <2>4. OneWriter(c, d, js) => OneWriter(c, d, js2)
    BY <2>2 DEF OneWriter
  <2> QED
    BY <2>1, <2>3, <2>4 DEF ChunkFits, Begun
<1>7. CASE c \in todo /\ target[c] = 1
  <2>1. First(q, c) /\ r.chunks[c] = 0
    BY <1>7 DEF MayStart
  <2>2. OrdersFirst(n, c, d.control) /\ ~EndsFirst(n, c, d.control)
    BY <2>1, AcceptedWord
  <2>3. ~HeardLater(c, d, r, js) /\ (Fresh(c, d, r, js) \/ Resumable(c, d, r, js))
    BY <2>1, <2>2 DEF ChunkFits, Begun
  <2>4. \A j \in js2 : FirstJob(c, d, j) => j = Job(c)
    BY <1>3, <2>3 DEF FirstJob, Fresh, Resumable
  <2>5. ~HeardLater(c, d, r2, js2)
    BY <1>1, <1>3, <1>7, <2>3 DEF HeardLater
  <2>6. \A t \in ChunkRange(c) : Job(c).tasks[t] \in Unfinished => ~Ran(d, t)
    BY <1>1, <1>7, <2>3 DEF Fresh, Resumable
  <2>7. OneWriter(c, d, js2)
    BY <2>4, <2>6 DEF OneWriter
  <2>8. r2.chunks[c] = 1
    BY <1>7
  <2> QED
    BY <2>2, <2>5, <2>7, <2>8 DEF ChunkFits, Begun
<1> QED
  BY <1>5, <1>6, <1>7

(* The marker claimed next is of a chunk that does not run.                 *)
ClaimsNext(q, r, target, s2) ==
    s2.at = "marker" =>
        /\ s2.request = q /\ s2.target = target /\ s2.chunk \notin s2.todo
        /\ \A c \in s2.todo \cup {s2.chunk} : c \in Chunks /\ r.chunks[c] = 0 /\ target[c] > 0

TargetAims(n, d, q, target) ==
    \A c \in Chunks : /\ target[c] = 1 => First(q, c)
                      /\ target[c] > 1 => EndsFirst(n, c, d.control)

(* So it is when reconcile goes on to claim.                                *)
LEMMA ClaimingNext ==
    ASSUME NEW n, NEW todo, SomeChunks(todo), NEW target \in Attempts, NEW r,
           \A c \in todo : target[c] # 0 /\ r.chunks[c] = 0, NEW fs, NEW next,
           next = Claiming(n, todo, target, fs)
    PROVE  ClaimsNext(sync[n].request, r, target, next)
<1>1. /\ next.chunk = Min(todo) /\ next.todo = todo \ {Min(todo)} /\ next.target = target
      /\ next.request = sync[n].request
  BY DEF Claiming
<1>2. Min(todo) \in todo
  BY FirstChunk DEF SomeChunks
<1>3. \A c \in todo : target[c] > 0 /\ c \in Chunks
  BY DEF Attempts, SomeChunks
<1> QED
  BY <1>1, <1>2, <1>3 DEF ClaimsNext

(* A claim of chunks that do not run, at attempts that fit, fits.           *)
LEMMA ClaimFits ==
    ASSUME NEW n, NEW d, NEW q, NEW target, TargetAims(n, d, q, target), NEW r, NEW s2,
           ClaimsNext(q, r, target, s2)
    PROVE  AimsFit(n, d, r, s2)
BY DEF ClaimsNext, TargetAims, AimsFit

(* Chunks start.                                                            *)
LEMMA StartFits ==
    ASSUME Domains, NEW n \in Nodes, NEW d, NEW q, Accepted(n, d, q), q = sync[n].request,
           NEW r, RunShape(r), r.open, NEW js, NEW s, Fit(n, d, r, js, s),
           NEW todo \in SUBSET Chunks, NEW target \in Attempts, TargetAims(n, d, q, target),
           \A c \in todo : r.chunks[c] = 0 /\ target[c] > 0,
           Start(n, r, js, todo, target), NEW s2, ClaimsNext(q, r, target, s2),
           s2.at = "marker" => \A c \in s2.todo \cup {s2.chunk} : c \notin todo
    PROVE  Fit(n, d, run'[n], jobs'[n], s2)
<1> DEFINE resumed == [t \in Tasks |-> IF \E c \in todo : t \in ChunkRange(c)
                                       THEN NoRecord ELSE r.resumed[t]]
           more == [c \in Chunks |-> IF c \in todo THEN target[c] ELSE r.chunks[c]]
           r2 == [r EXCEPT !.chunks = more, !.resumed = resumed]
           js2 == js \cup {NewJob(n, c, target[c], r) : c \in todo}
<1>1. run' = [run EXCEPT ![n] = r2] /\ jobs' = [jobs EXCEPT ![n] = js2]
  BY DEF Start
<1>2. /\ \A t \in Tasks : (\A c \in todo : t \notin ChunkRange(c)) => resumed[t] = r.resumed[t]
      /\ \A c \in Chunks : more[c] = IF c \in todo THEN target[c] ELSE r.chunks[c]
  OBVIOUS
<1>3. /\ js \subseteq js2
      /\ \A j \in js2 : j \in js \/ \E c \in todo : j = NewJob(n, c, target[c], r)
  OBVIOUS
<1> HIDE DEF resumed, more, js2
<1>4. r2.open /\ r2.highest = r.highest /\ r2.chunks = more /\ r2.resumed = resumed
  BY DEF RunShape, RunFields
<1> HIDE DEF r2
<1>5. run'[n] = r2 /\ jobs'[n] = js2
  BY <1>1 DEF Domains
<1>6. /\ d.control.epoch <= epoch /\ FilesFit(d) /\ JobsFit(d, js)
      /\ \A c \in Chunks : ChunkFits(n, c, d, r, js)
  BY DEF Fit
<1>7. \A c \in todo : MayStart(n, c, d, q, r, target)
  BY DEF MayStart, TargetAims
<1>8. ASSUME NEW c \in Chunks
      PROVE  ChunkFits(n, c, d, r2, js2)
  <2>1. /\ ChunkFits(n, c, d, r, js)
        /\ \A b \in Chunks : r2.chunks[b] = IF b \in todo THEN target[b] ELSE r.chunks[b]
        /\ \A t \in Tasks : (\A b \in todo : t \notin ChunkRange(b)) => r2.resumed[t] = r.resumed[t]
    BY <1>2, <1>4, <1>6
  <2> QED
    BY <1>3, <1>4, <1>7, <2>1, ChunkStarts
<1>9. JobsFit(d, js2)
  <2>1. ASSUME NEW c \in todo
        PROVE  LET j == NewJob(n, c, target[c], r)
               IN  /\ j.epoch = d.control.epoch
                   /\ j.attempt > 0 /\ DOMAIN j.tasks = ChunkRange(j.chunk)
    BY DEF NewJob, Accepted, Attempts
  <2>2. d.control.epoch \in Nat
    BY DEF Accepted, Version
  <2>3. \A j \in js : /\ j.epoch \in Nat /\ j.epoch <= d.control.epoch
                     /\ j.attempt > 0 /\ DOMAIN j.tasks = ChunkRange(j.chunk)
    BY <1>6 DEF JobsFit
  <2> QED
    BY <1>3, <2>1, <2>2, <2>3 DEF JobsFit
<1>10. AimsFit(n, d, r2, s2)
  <2>1. ClaimsNext(q, r2, target, s2)
    BY <1>2, <1>4 DEF ClaimsNext
  <2> QED
    BY <2>1, ClaimFits
<1> QED
  BY <1>5, <1>6, <1>8, <1>9, <1>10 DEF Fit

(* Chunks taken back no longer run.                                         *)
LEMMA PruneFits ==
    ASSUME NEW n, NEW d, NEW r, r.open, NEW js, NEW s, Fit(n, d, r, js, s),
           NEW q, NEW target, TargetFits(n, d, q, target),
           NEW js2, Continues(js, js2), NEW r2,
           r2.open, r2.highest = r.highest, r2.resumed = r.resumed,
           \A c \in Chunks : r2.chunks[c] = r.chunks[c] \/ (r2.chunks[c] = 0 /\ target[c] # r.chunks[c]),
           NEW s2, AimsFit(n, d, r2, s2)
    PROVE  Fit(n, d, r2, js2, s2)
<1>1. /\ d.control.epoch <= epoch /\ FilesFit(d) /\ JobsFit(d, js)
      /\ \A c \in Chunks : ChunkFits(n, c, d, r, js)
  BY DEF Fit
<1>2. ASSUME NEW c \in Chunks
      PROVE  ChunkFits(n, c, d, r2, js2)
  <2>1. ChunkFits(n, c, d, r, js2)
    <3>1. SameRun(r, r)
      BY DEF SameRun
    <3> QED
      BY <1>1, <3>1, SameDisk, ChunkMoves
  <2>2. HeardLater(c, d, r2, js2) => HeardLater(c, d, r, js2)
    BY DEF HeardLater
  <2>3. Fresh(c, d, r, js2) => Fresh(c, d, r2, js2)
    BY DEF Fresh
  <2>4. Resumable(c, d, r, js2) => Resumable(c, d, r2, js2)
    BY DEF Resumable
  <2>5. r.chunks[c] = 1 /\ OrdersFirst(n, c, d.control) => r2.chunks[c] = 1 \/ EndsFirst(n, c, d.control)
    BY DEF TargetFits
  <2> QED
    BY <2>1, <2>2, <2>3, <2>4, <2>5 DEF ChunkFits, Begun
<1>3. JobsFit(d, js2)
  BY <1>1, JobsFitOn
<1> QED
  BY <1>1, <1>2, <1>3 DEF Fit

(* Settle.                                                                  *)
LEMMA SettleFits ==
    ASSUME Domains, NEW n \in Nodes, NEW d, NEW q, Accepted(n, d, q), q = sync[n].request,
           NEW r, RunShape(r), r.open, NEW js, \A j \in js : JobShape(j),
           NEW s, Fit(n, d, r, js, s),
           NEW target \in Attempts, TargetFits(n, d, q, target), Settle(n, r, js, target)
    PROVE  Fit(n, d, run'[n], jobs'[n], sync'[n])
<1> DEFINE keep == {c \in Chunks : r.chunks[c] # 0 /\ r.chunks[c] = target[c]}
           chunks == [c \in Chunks |-> IF c \in keep THEN r.chunks[c] ELSE 0]
           finished == {f \in r.finished : f.attempt = target[f.chunk]}
           pruned == [r EXCEPT !.chunks = chunks, !.finished = finished]
           left == {IF j.chunk \in keep /\ j.attempt = r.chunks[j.chunk]
                    THEN j ELSE [j EXCEPT !.cancelled = TRUE] : j \in js}
           todo == {c \in Chunks : target[c] # 0 /\ c \notin keep}
           kept1 == {j \in js : j.chunk \in keep /\ j.attempt = r.chunks[j.chunk]}
<1>1. \/ /\ Start(n, pruned, left, todo, target)
         /\ Report(n, pruned, pruned.finished)
      \/ /\ run' = [run EXCEPT ![n] = pruned]
         /\ jobs' = [jobs EXCEPT ![n] = left]
         /\ Proceed(n, Claiming(n, todo, target, pruned.finished))
         /\ todo # {}
  BY Zenon DEF Settle
<1>2. Continues(js, left)
  <2>1. left = {IF j \in kept1 THEN j ELSE [j EXCEPT !.cancelled = TRUE] : j \in js}
    OBVIOUS
  <2> HIDE DEF left, kept1
  <2> QED
    BY <2>1, SomeCancelled
<1>3. /\ RunShape(pruned) /\ pruned.open /\ pruned.highest = r.highest
      /\ pruned.resumed = r.resumed /\ pruned.chunks = chunks
  <2>1. DOMAIN r = RunFields /\ Results(finished)
    BY FewerResults DEF RunShape
  <2> HIDE DEF chunks, finished
  <2>2. /\ DOMAIN pruned = RunFields /\ pruned.open /\ pruned.highest = r.highest
        /\ pruned.resumed = r.resumed /\ pruned.chunks = chunks
        /\ pruned.position = r.position /\ pruned.finished = finished
    BY <2>1 DEF RunFields
  <2> HIDE DEF pruned
  <2> QED
    BY <2>1, <2>2 DEF RunShape
<1>4. /\ todo \in SUBSET Chunks /\ \A c \in todo : target[c] # 0 /\ chunks[c] = 0
      /\ \A c \in Chunks : chunks[c] = r.chunks[c] \/ (chunks[c] = 0 /\ target[c] # r.chunks[c])
  OBVIOUS
<1>5. TargetAims(n, d, q, target)
  BY DEF TargetFits, TargetAims
<1>6. \A c \in todo : target[c] > 0
  BY <1>4 DEF Attempts
<1> HIDE DEF keep, chunks, finished, pruned, left, todo, kept1
<1>7. ASSUME NEW s2, AimsFit(n, d, pruned, s2)
      PROVE  Fit(n, d, pruned, left, s2)
  BY <1>2, <1>3, <1>4, <1>7, PruneFits
<1>8. CASE /\ Start(n, pruned, left, todo, target)
           /\ Report(n, pruned, pruned.finished)
  <2>1. sync'[n] = NoSync
    <3>1. Reply(n, "refused", {}) \/ Reply(n, "progress", pruned.finished)
      BY <1>8, Zenon DEF Report
    <3> QED
      BY <3>1, ReplyEffect
  <2>2. sync'[n].at # "marker"
    BY <2>1 DEF NoSync
  <2>3. Fit(n, d, pruned, left, sync'[n])
    BY <1>7, <2>2 DEF AimsFit
  <2>4. ClaimsNext(q, pruned, target, sync'[n])
    BY <2>2 DEF ClaimsNext
  <2>5. \A c \in todo : pruned.chunks[c] = 0 /\ target[c] > 0
    BY <1>3, <1>4, <1>6
  <2> QED
    BY <1>3, <1>4, <1>5, <1>8, <2>2, <2>3, <2>4, <2>5, StartFits
<1>9. CASE /\ run' = [run EXCEPT ![n] = pruned]
           /\ jobs' = [jobs EXCEPT ![n] = left]
           /\ Proceed(n, Claiming(n, todo, target, pruned.finished))
           /\ todo # {}
  <2> DEFINE fs == pruned.finished
             next == Claiming(n, todo, target, fs)
  <2>1. sync'[n] = next
    BY <1>9, ProceedEffect
  <2>2. next = Claiming(n, todo, target, fs) /\ SomeChunks(todo)
    BY <1>4, <1>9 DEF SomeChunks
  <2>3. \A c \in todo : target[c] # 0 /\ pruned.chunks[c] = 0
    BY <1>3, <1>4
  <2> HIDE DEF fs, next
  <2>4. ClaimsNext(q, pruned, target, next)
    BY <2>2, <2>3, ClaimingNext
  <2>5. AimsFit(n, d, pruned, next)
    BY <1>5, <2>4, ClaimFits
  <2>6. run'[n] = pruned /\ jobs'[n] = left
    BY <1>9 DEF Domains
  <2> QED
    BY <1>7, <2>1, <2>5, <2>6
<1> QED
  BY <1>1, <1>8, <1>9

(* Word of an attempt that a request brings into the run.                   *)
LEMMA RaisedRunFits ==
    ASSUME NEW n, NEW d, NEW r, r.open, NEW js, NEW s, Fit(n, d, r, js, s),
           NEW js2, Continues(js, js2), NEW r2, r2.open, r2.chunks = r.chunks,
           r2.resumed = r.resumed,
           \A c \in Chunks : r2.highest[c] > 1 => EndsFirst(n, c, d.control),
           NEW s2, s2.at # "marker"
    PROVE  Fit(n, d, r2, js2, s2)
<1>1. /\ d.control.epoch <= epoch /\ FilesFit(d) /\ JobsFit(d, js)
      /\ \A c \in Chunks : ChunkFits(n, c, d, r, js)
  BY DEF Fit
<1>2. ASSUME NEW c \in Chunks
      PROVE  ChunkFits(n, c, d, r2, js2)
  <2>1. ChunkFits(n, c, d, r, js2)
    <3>1. SameRun(r, r)
      BY DEF SameRun
    <3> QED
      BY <1>1, <3>1, SameDisk, ChunkMoves
  <2>2. HeardLater(c, d, r2, js2) => HeardLater(c, d, r, js2) \/ EndsFirst(n, c, d.control)
    BY DEF HeardLater
  <2>3. Fresh(c, d, r, js2) => Fresh(c, d, r2, js2)
    BY DEF Fresh
  <2>4. Resumable(c, d, r, js2) => Resumable(c, d, r2, js2)
    BY DEF Resumable
  <2> QED
    BY <2>1, <2>2, <2>3, <2>4 DEF ChunkFits, Begun
<1>3. JobsFit(d, js2)
  BY <1>1, JobsFitOn
<1> QED
  BY <1>1, <1>2, <1>3 DEF Fit, AimsFit

(* Reconcile.                                                               *)
LEMMA ReconcileFits ==
    ASSUME Domains, NEW n \in Nodes, NodeShape(n), SyncShape(sync[n]),
           NEW d, NEW q, Accepted(n, d, q), q = sync[n].request,
           NEW r, RunShape(r), r.open, NEW s, Fit(n, d, r, jobs[n], s), Reconcile(n, r)
    PROVE  Fit(n, d, run'[n], jobs'[n], sync'[n])
<1> DEFINE held == q.held
           stop == q.stopping
           r1 == [r EXCEPT !.cancelled = @ \/ stop]
           js == IF stop THEN Cancelled(jobs[n]) ELSE jobs[n]
           raised == Raised(held, r.highest)
           next == [at |-> "fence", request |-> sync[n].request, live |-> sync[n].live,
                    dropped |-> FALSE, position |-> r.position, payload |-> raised]
           rr == [r1 EXCEPT !.highest = raised, !.unknown = FALSE]
           target == Target(held, r.highest)
<1>1. \/ /\ run' = [run EXCEPT ![n] = r]
         /\ Reply(n, "refused", {})
         /\ UNCHANGED <<jobs, acted>>
      \/ /\ run' = [run EXCEPT ![n] = rr]
         /\ jobs' = [jobs EXCEPT ![n] = js]
         /\ Proceed(n, next)
      \/ Settle(n, r1, js, target)
  BY Zenon DEF Reconcile
<1>2. RunShape(r1) /\ r1.open
  BY AdvisedRun DEF Advised
<1>3. /\ r1.resumed = r.resumed /\ r1.chunks = r.chunks /\ r1.highest = r.highest
  BY DEF RunShape, RunFields
<1>4. \A j \in jobs[n] : JobShape(j)
  BY DEF NodeShape
<1>5. Continues(jobs[n], js) /\ \A j \in js : JobShape(j)
  <2>1. js = IF stop THEN Cancelled(jobs[n]) ELSE jobs[n]
    OBVIOUS
  <2> HIDE DEF js, stop
  <2>2. CASE stop
    BY <1>4, <2>1, <2>2, AllCancelled, CancelledKept
  <2>3. CASE ~stop
    BY <1>4, <2>1, <2>3, ContinuesAlways
  <2> QED
    BY <2>2, <2>3
<1>6. target \in Attempts
  BY RaisedAttempts DEF RunShape, Accepted
<1>7. /\ rr.resumed = r.resumed /\ rr.chunks = r.chunks /\ rr.highest = raised /\ rr.open
  <2>1. DOMAIN r1 = RunFields
    BY <1>2 DEF RunShape
  <2> HIDE DEF r1, raised
  <2> QED
    BY <1>2, <1>3, <2>1 DEF RunFields
<1>8. next.at = "fence"
  OBVIOUS
<1>9. /\ TargetFits(n, d, q, target)
      /\ \A c \in Chunks : raised[c] > 1 => EndsFirst(n, c, d.control)
  <2>1. r.highest \in Attempts /\ \A c \in Chunks : ChunkFits(n, c, d, r, jobs[n])
    BY DEF RunShape, Fit
  <2> QED
    BY <2>1, RaisedFits
<1> HIDE DEF held, stop, r1, js, raised, next, rr, target
<1>10. CASE /\ run' = [run EXCEPT ![n] = r]
            /\ Reply(n, "refused", {})
            /\ UNCHANGED <<jobs, acted>>
  <2>1. run'[n] = r /\ jobs'[n] = jobs[n] /\ sync'[n] = NoSync
    BY <1>10, ReplyEffect DEF Domains
  <2>2. Continues(jobs[n], jobs'[n]) /\ SameRun(r, run'[n]) /\ SameAims(s, r, sync'[n], run'[n])
    BY <2>1, ContinuesAlways DEF SameRun, SameAims, NoSync
  <2> QED
    BY <2>2, FitGoesOn
<1>11. CASE /\ run' = [run EXCEPT ![n] = rr]
            /\ jobs' = [jobs EXCEPT ![n] = js]
            /\ Proceed(n, next)
  <2>1. run'[n] = rr /\ jobs'[n] = js /\ sync'[n] = next
    BY <1>11, ProceedEffect DEF Domains
  <2>2. next.at # "marker"
    BY <1>8
  <2> QED
    BY <1>5, <1>7, <1>9, <2>1, <2>2, RaisedRunFits
<1>12. CASE Settle(n, r1, js, target)
  <2>1. Fit(n, d, r1, js, NoSync)
    <3>1. SameRun(r, r1) /\ SameAims(s, r, NoSync, r1)
      BY <1>2, <1>3 DEF SameRun, SameAims, NoSync
    <3> QED
      BY <1>5, <3>1, FitGoesOn
  <2> QED
    BY <1>2, <1>5, <1>6, <1>9, <1>12, <2>1, SettleFits
<1> QED
  BY <1>1, <1>10, <1>11, <1>12

-----------------------------------------------------------------------------
(* The steps of a node's sync.                                              *)

(* What every action of a node has to show: the node fits the words it had, *)
(* and has no new ones.                                                     *)
FitsOn(n) ==
    /\ Fit(n, disk'[n], run'[n], jobs'[n], sync'[n])
    /\ Requests(n)' \subseteq Requests(n)

(* A request whose version is on the control fence is accepted.             *)
LEMMA RequestAccepted ==
    ASSUME NEW n, NodeInv(n), RequestsFit(n), sync[n] # NoSync, NEW d,
           d.control = sync[n].request.version
    PROVE  Accepted(n, d, sync[n].request)
BY HandledRequest, RequestTypes DEF Accepted, NodeInv

(* An answer that leaves the run and the jobs, or cancels them.             *)
LEMMA ReplyFits ==
    ASSUME Domains, NEW n \in Nodes, NodeInv(n), sync[n] # NoSync,
           Fit(n, disk'[n], run[n], jobs[n], sync[n]), late'[n] = late[n],
           NEW kind, Reply(n, kind, {}), SameRun(run[n], run'[n]),
           jobs'[n] = jobs[n] \/ jobs'[n] = Cancelled(jobs[n])
    PROVE  FitsOn(n)
<1>1. sync'[n] = NoSync /\ Answered(n)
  BY ReplyAnswers, MoreResults
<1>2. Requests(n)' \subseteq Requests(n)
  BY <1>1, SyncRequests DEF NodeInv
<1>3. Continues(jobs[n], jobs'[n])
  <2>1. \A j \in jobs[n] : JobShape(j)
    BY DEF NodeInv, NodeShape
  <2> QED
    BY <2>1, AllCancelled, ContinuesAlways
<1>4. SameAims(sync[n], run[n], sync'[n], run'[n])
  BY <1>1 DEF SameAims, NoSync
<1> QED
  BY <1>2, <1>3, <1>4, FitGoesOn DEF FitsOn

(* A sync that reconciled.                                                  *)
LEMMA ReconciledFits ==
    ASSUME Domains, NEW n \in Nodes, NodeInv(n), RequestsFit(n), SyncShape(sync[n]), sync[n] # NoSync,
           late'[n] = late[n], disk'[n].control = sync[n].request.version,
           NEW r, RunShape(r), r.open, NEW s, Fit(n, disk'[n], r, jobs[n], s), Reconcile(n, r)
    PROVE  FitsOn(n)
<1> DEFINE q == sync[n].request
<1>1. Accepted(n, disk'[n], q) /\ NodeShape(n)
  BY RequestAccepted DEF NodeInv
<1>2. Fit(n, disk'[n], run'[n], jobs'[n], sync'[n])
  <2>1. q = sync[n].request
    OBVIOUS
  <2> HIDE DEF q
  <2> QED
    BY <1>1, <2>1, ReconcileFits
<1>3. PICK raised, target : Outcome(n, r, raised, target)
  BY <1>1, ReconcileOutcome
<1>4. Answered(n) /\ (sync'[n] = NoSync \/ sync'[n].request = sync[n].request)
  BY <1>3 DEF Outcome, Answered
<1>5. Requests(n)' \subseteq Requests(n)
  BY <1>4, SyncRequests DEF NodeInv
<1> QED
  BY <1>2, <1>5 DEF FitsOn

(* The control check.                                                       *)
LEMMA ControlCheckedFits ==
    ASSUME Domains, NEW n \in Nodes, NodeInv(n), FirstFits(n), epoch \in Nat, ControlChecked(n)
    PROVE  FitsOn(n)
<1> DEFINE q == sync[n].request
           verdict == Verdict(disk[n], q.version)
           x == Effect(n)
<1>1. /\ sync[n].at = "control" /\ disk' = [disk EXCEPT ![n] = x] /\ late' = late
  BY DEF ControlChecked, Working, Rest
<1>2. \/ /\ Reply(n, "refused", {})
         /\ \/ UNCHANGED <<run, jobs>>
            \/ /\ run[n].open
               /\ run' = [run EXCEPT ![n].cancelled = TRUE]
               /\ jobs' = [jobs EXCEPT ![n] = Cancelled(@)]
      \/ /\ verdict = "accepted" /\ ~q.listed
         /\ run' = [run EXCEPT ![n] = NoRun]
         /\ jobs' = [jobs EXCEPT ![n] = Cancelled(@)]
         /\ Proceed(n, [sync[n] EXCEPT !.at = "clean"])
      \/ Reply(n, "unrunnable", {}) /\ UNCHANGED <<run, jobs>>
      \/ /\ Proceed(n, [sync[n] EXCEPT !.at = "open"])
         /\ UNCHANGED <<run, jobs>>
      \/ verdict = "accepted" /\ run[n].open /\ Reconcile(n, run[n])
  <2>1. UNCHANGED <<run, jobs, acted>> => UNCHANGED <<run, jobs>>
    OBVIOUS
  <2> QED
    BY <2>1, Zenon DEF ControlChecked
<1>3. SyncShape(sync[n]) /\ sync[n] # NoSync /\ RequestsFit(n)
  BY <1>1, AtStage DEF Stages, FirstFits
<1>4. /\ Fit(n, disk'[n], run[n], jobs[n], sync[n]) /\ late'[n] = late[n]
      /\ verdict = "accepted" => disk'[n].control = q.version
  <2>1. Fit(n, x, run[n], jobs[n], sync[n])
    BY <1>3, OperationFits
  <2>2. disk'[n] = x
    BY <1>1 DEF Domains
  <2>3. verdict = "accepted" => x.control = q.version
    BY <1>1, <1>3, ControlStep
  <2> HIDE DEF x
  <2> QED
    BY <1>1, <2>1, <2>2, <2>3
<1>5. \A j \in jobs[n] : JobShape(j)
  BY DEF NodeInv, NodeShape
<1>6. CASE /\ Reply(n, "refused", {}) \/ Reply(n, "unrunnable", {})
           /\ UNCHANGED <<run, jobs>>
  <2>1. SameRun(run[n], run'[n]) /\ jobs'[n] = jobs[n]
    BY <1>6 DEF SameRun
  <2> QED
    BY <1>3, <1>4, <1>6, <2>1, ReplyFits
<1>7. CASE /\ Reply(n, "refused", {})
           /\ run[n].open
           /\ run' = [run EXCEPT ![n].cancelled = TRUE]
           /\ jobs' = [jobs EXCEPT ![n] = Cancelled(@)]
  <2> DEFINE r == [run[n] EXCEPT !.cancelled = TRUE]
  <2>1. DOMAIN run[n] = RunFields
    BY <1>7 DEF NodeInv, NodeShape, NoRun, RunShape
  <2>2. /\ r.open = run[n].open /\ r.chunks = run[n].chunks
        /\ r.highest = run[n].highest /\ r.resumed = run[n].resumed
    BY <2>1 DEF RunFields
  <2>3. run'[n] = r /\ jobs'[n] = Cancelled(jobs[n])
    BY <1>7 DEF Domains
  <2> HIDE DEF r
  <2>4. SameRun(run[n], run'[n])
    BY <2>2, <2>3 DEF SameRun
  <2> QED
    BY <1>3, <1>4, <1>7, <2>3, <2>4, ReplyFits
<1>8. CASE /\ verdict = "accepted" /\ ~q.listed
           /\ run' = [run EXCEPT ![n] = NoRun]
           /\ jobs' = [jobs EXCEPT ![n] = Cancelled(@)]
           /\ Proceed(n, [sync[n] EXCEPT !.at = "clean"])
  <2> DEFINE t == [sync[n] EXCEPT !.at = "clean"]
  <2>1. t.at = "clean" /\ t.request = q
    BY <1>1, <1>3, StageChange
  <2>2. sync'[n] = t /\ calls' = calls
    BY <1>8, ProceedEffect
  <2> HIDE DEF t
  <2>3. run'[n] = NoRun /\ jobs'[n] = Cancelled(jobs[n])
    BY <1>8 DEF Domains
  <2>4. Accepted(n, disk'[n], q)
    BY <1>3, <1>4, <1>8, RequestAccepted
  <2>5. ASSUME NEW c \in Chunks
        PROVE  RunOver(n, c, disk'[n].control, run'[n], jobs'[n])
    <3>1. ~First(q, c)
      BY <1>8, <2>4 DEF Accepted, RequestsFit, First
    <3>2. OrdersFirst(n, c, disk'[n].control) => EndsFirst(n, c, disk'[n].control)
      BY <2>4, <3>1, AcceptedWord
    <3> QED
      BY <2>3, <3>2 DEF RunOver, NoRun
  <2>6. Answered(n) /\ SameAims(sync[n], run[n], sync'[n], run'[n])
    BY <2>1, <2>2 DEF Answered, SameAims
  <2>7. Requests(n)' \subseteq Requests(n)
    BY <1>1, <1>3, <2>1, <2>2, <2>6, SyncRequests DEF NodeInv
  <2>8. Continues(jobs[n], jobs'[n])
    BY <1>5, <2>3, AllCancelled
  <2> QED
    BY <1>4, <2>5, <2>6, <2>7, <2>8, FitGoesOn DEF FitsOn
<1>9. CASE /\ Proceed(n, [sync[n] EXCEPT !.at = "open"])
           /\ UNCHANGED <<run, jobs>>
  <2> DEFINE t == [sync[n] EXCEPT !.at = "open"]
  <2>1. t.at = "open" /\ t.request = q
    BY <1>1, <1>3, StageChange
  <2>2. sync'[n] = t /\ calls' = calls
    BY <1>9, ProceedEffect
  <2> HIDE DEF t
  <2>3. run'[n] = run[n] /\ jobs'[n] = jobs[n]
    BY <1>9
  <2>4. /\ Answered(n) /\ SameAims(sync[n], run[n], sync'[n], run'[n])
        /\ SameRun(run[n], run'[n]) /\ Continues(jobs[n], jobs'[n])
    BY <2>1, <2>2, <2>3, ContinuesAlways DEF Answered, SameAims, SameRun
  <2>5. Requests(n)' \subseteq Requests(n)
    BY <1>1, <1>3, <2>1, <2>2, <2>4, SyncRequests DEF NodeInv
  <2> QED
    BY <1>4, <2>4, <2>5, FitGoesOn DEF FitsOn
<1>10. CASE verdict = "accepted" /\ run[n].open /\ Reconcile(n, run[n])
  <2> DEFINE r == run[n]
  <2>1. RunShape(r) /\ r.open /\ Fit(n, disk'[n], r, jobs[n], sync[n]) /\ Reconcile(n, r)
    BY <1>4, <1>10 DEF NodeInv, NodeShape, NoRun
  <2> HIDE DEF r
  <2> QED
    BY <1>3, <1>4, <1>10, <2>1, ReconciledFits
<1> QED
  BY <1>2, <1>6, <1>7, <1>8, <1>9, <1>10

(* Cleanup.                                                                 *)
LEMMA CleanupDoneFits ==
    ASSUME Domains, NEW n \in Nodes, NodeInv(n), FirstFits(n), epoch \in Nat, CleanupDone(n)
    PROVE  FitsOn(n)
<1>1. /\ sync[n].at = "clean" /\ disk' = [disk EXCEPT ![n] = Effect(n)]
      /\ Reply(n, "absent", {}) /\ run' = run /\ jobs' = jobs /\ late' = late
  BY DEF CleanupDone, Working, Rest
<1>2. sync[n] # NoSync
  BY <1>1, AtStage DEF Stages
<1>3. Fit(n, disk'[n], run[n], jobs[n], sync[n])
  BY <1>1, <1>2, OperationFits, DiskWrite
<1>4. SameRun(run[n], run'[n]) /\ jobs'[n] = jobs[n] /\ late'[n] = late[n]
  BY <1>1 DEF SameRun
<1> QED
  BY <1>1, <1>2, <1>3, <1>4, ReplyFits

(* The last outcome of a task that ran is one of its entries.               *)
LEMMA LastOutcomeIs ==
    ASSUME NEW ledger \in [Tasks -> Seq(Entries)], NEW t \in Tasks, NEW k \in DOMAIN ledger[t],
           ledger[t][k].outcome # "notrun"
    PROVE  \E i \in DOMAIN ledger[t] : /\ LastOutcome(ledger, t) = ledger[t][i]
                                       /\ ledger[t][i] \in Entries
<1> DEFINE l == ledger[t]
           ran == {i \in DOMAIN l : l[i].outcome # "notrun"}
           last == CHOOSE i \in ran : \A j \in ran : j <= i
<1>1. LastOutcome(ledger, t) = IF ran = {} THEN NoRecord ELSE l[last]
  BY DEF LastOutcome
<1>2. l \in Seq(Entries) /\ ran # {}
  OBVIOUS
<1>3. Len(l) \in Nat /\ DOMAIN l = 1 .. Len(l) /\ \A i \in 1 .. Len(l) : l[i] \in Entries
  <2> HIDE DEF l
  <2> QED
    BY <1>2
<1>4. ran \in SUBSET (1 .. Len(l))
  BY <1>3
<1>5. last \in ran
  <2> HIDE DEF ran, l
  <2> QED
    BY <1>2, <1>3, <1>4, LastPosition
<1>6. last \in DOMAIN l
  BY <1>3, <1>4, <1>5
<1> HIDE DEF last, ran
<1> QED
  BY <1>1, <1>2, <1>3, <1>6

(* A run opened on a node's files knows what the ledger has of the chunks   *)
(* it is to run at their first attempt.                                     *)
LEMMA OpenedFits ==
    ASSUME NEW n, NEW x, NEW q, Accepted(n, x, q), NEW r0, ~r0.open, NEW js, NEW s,
           Fit(n, x, r0, js, s), NEW dir, dir.ledger = x.dir.ledger, dir.fence = x.dir.fence,
           dir.fence \in Files, dir.fence = NoFile \/ Readable(dir.fence),
           NEW r, r = OpenRun(dir, q)
    PROVE  Fit(n, x, r, js, NoSync)
<1>1. /\ x.control.epoch <= epoch /\ FilesFit(x) /\ JobsFit(x, js)
      /\ \A c \in Chunks : ChunkFits(n, c, x, r0, js)
  BY DEF Fit
<1>2. /\ r.chunks = NoGrants
      /\ r.highest = (IF dir.fence = NoFile THEN NoGrants ELSE PayloadOf(dir.fence))
      /\ \A t \in Tasks : (\E c \in Chunks : q.held[c] # 0 /\ t \in ChunkRange(c))
                          => r.resumed[t] = LastOutcome(dir.ledger, t)
  BY DEF OpenRun
<1>3. ASSUME NEW c \in Chunks, r.highest[c] > 1
      PROVE  LaterOnDisk(c, x)
  <2>1. CASE dir.fence = NoFile
    BY <1>2, <1>3, <2>1 DEF NoGrants
  <2>2. CASE dir.fence # NoFile
    <3> DEFINE i == NewestSlot(dir.fence)
    <3>1. i \in 1 .. 2 /\ dir.fence.slots[i] # Torn
      BY <2>2, ReadShape
    <3>2. r.highest = dir.fence.slots[i].payload
      BY <1>2, <2>2 DEF PayloadOf
    <3> HIDE DEF i
    <3> QED
      BY <1>3, <3>1, <3>2 DEF LaterOnDisk
  <2> QED
    BY <2>1, <2>2
<1>4. ASSUME NEW c \in Chunks
      PROVE  ChunkFits(n, c, x, r, js)
  <2>1. ChunkFits(n, c, x, r0, js)
    BY <1>1
  <2>2. HeardLater(c, x, r, js) => HeardLater(c, x, r0, js)
    BY <1>3 DEF HeardLater
  <2>3. r.chunks[c] = 0
    BY <1>2 DEF NoGrants
  <2>4. Fresh(c, x, r0, js) => Fresh(c, x, r, js)
    BY <2>3 DEF Fresh
  <2>5. ASSUME Begun(n, c, x, r0, js), ~EndsFirst(n, c, x.control)
        PROVE  Resumable(c, x, r, js)
    <3>1. First(q, c)
      BY <2>5, AcceptedWord DEF Begun
    <3>2. \A j \in js : ~FirstJob(c, x, j)
      BY <2>5 DEF Begun, Resumable
    <3>3. ASSUME NEW t \in ChunkRange(c), Ran(x, t)
          PROVE  r.resumed[t].attempt = 1 /\ r.resumed[t].outcome \notin Unfinished
      <4>1. t \in Tasks
        BY DEF ChunkRange
      <4>2. r.resumed[t] = LastOutcome(dir.ledger, t)
        BY <1>2, <3>1, <4>1 DEF First
      <4>3. PICK k \in DOMAIN dir.ledger[t] : dir.ledger[t][k].outcome # "notrun"
        BY <3>3 DEF Ran
      <4>4. dir.ledger \in [Tasks -> Seq(Entries)]
        BY <1>1 DEF FilesFit
      <4>5. PICK i \in DOMAIN dir.ledger[t] : /\ LastOutcome(dir.ledger, t) = dir.ledger[t][i]
                                              /\ dir.ledger[t][i] \in Entries
        BY <4>1, <4>3, <4>4, LastOutcomeIs
      <4>6. ~(dir.ledger[t][i].attempt > 1)
        BY <2>1, <2>5, <4>5 DEF ChunkFits, HeardLater, LaterOnDisk
      <4>7. dir.ledger[t][i].attempt = 1 /\ dir.ledger[t][i].outcome \notin Unfinished
        BY <4>5, <4>6 DEF Entries, Tries, Ended, Unfinished
      <4> QED
        BY <4>2, <4>5, <4>7
    <3> QED
      BY <3>2, <3>3 DEF Resumable
  <2> QED
    BY <2>1, <2>2, <2>4, <2>5 DEF ChunkFits, Begun
<1> QED
  BY <1>1, <1>4 DEF Fit, AimsFit, NoSync

(* The end of opening.                                                      *)
LEMMA RunOpenedFits ==
    ASSUME Domains, NEW n \in Nodes, NodeInv(n), FirstFits(n), epoch \in Nat, RunOpened(n)
    PROVE  FitsOn(n)
<1> DEFINE d == disk[n].dir
           q == sync[n].request
           r == OpenRun(d, q)
<1>1. /\ sync[n].at = "open" /\ disk' = [disk EXCEPT ![n] = Effect(n)] /\ late' = late
  BY DEF RunOpened, Working, Rest
<1>2. \/ /\ ~d.compacted /\ (d.fence = NoFile \/ Readable(d.fence))
         /\ Reconcile(n, r)
      \/ Reply(n, "refused", {}) /\ UNCHANGED <<run, jobs, acted>>
  BY Zenon DEF RunOpened
<1>3. SyncShape(sync[n]) /\ sync[n] # NoSync /\ RequestsFit(n) /\ late'[n] = late[n]
  BY <1>1, AtStage DEF Stages, FirstFits
<1>4. disk'[n] = Effect(n)
  BY <1>1, DiskWrite
<1>5. Fit(n, disk'[n], run[n], jobs[n], sync[n])
  BY <1>3, <1>4, OperationFits
<1>6. CASE Reply(n, "refused", {}) /\ UNCHANGED <<run, jobs, acted>>
  <2>1. SameRun(run[n], run'[n]) /\ jobs'[n] = jobs[n]
    BY <1>6 DEF SameRun
  <2> QED
    BY <1>3, <1>5, <1>6, <2>1, ReplyFits
<1>7. CASE /\ ~d.compacted /\ (d.fence = NoFile \/ Readable(d.fence))
           /\ Reconcile(n, r)
  <2>1. d.fence \in Files /\ ~run[n].open /\ disk[n].control = q.version
    BY <1>1 DEF NodeInv, NodeShape, DiskShape, RunHasDirectory, ControlCovers, PastControl
  <2>2. /\ disk'[n].control = disk[n].control /\ disk'[n].dir.ledger = d.ledger
        /\ disk'[n].dir.fence = d.fence
    <3> DEFINE o == disk[n]
               e == IF o.dir.exists THEN o.dir.epoch ELSE q.version.epoch
               x == disk'[n]
    <3>1. DOMAIN o = DiskFields /\ DOMAIN o.dir = DirFields
      BY DEF NodeInv, NodeShape, DiskShape
    <3>2. x = [o EXCEPT !.dir.exists = TRUE, !.dir.epoch = e]
      BY <1>1, <1>4, <1>7, EffectIs DEF Opened
    <3> HIDE DEF o, e, x
    <3>3. x.control = o.control /\ x.dir.ledger = o.dir.ledger /\ x.dir.fence = o.dir.fence
      BY <3>1, <3>2 DEF DiskFields, DirFields
    <3> QED
      BY <3>3 DEF o, x
  <2>3. RunShape(r) /\ r.open
    <3>1. r = OpenRun(d, q)
      OBVIOUS
    <3> HIDE DEF r, d
    <3> QED
      BY <1>7, <2>1, <3>1, OpenRunShape DEF OpenedRun
  <2>4. Accepted(n, disk'[n], q)
    BY <1>3, <2>1, <2>2, RequestAccepted
  <2>5. Fit(n, disk'[n], r, jobs[n], NoSync)
    <3>1. r = OpenRun(d, q) /\ disk'[n].dir.ledger = d.ledger /\ disk'[n].dir.fence = d.fence
      BY <2>2
    <3> HIDE DEF r, d
    <3> QED
      BY <1>5, <1>7, <2>1, <2>4, <3>1, OpenedFits
  <2> HIDE DEF r
  <2>6. disk'[n].control = q.version
    BY <2>1, <2>2
  <2> QED
    BY <1>3, <1>7, <2>3, <2>5, <2>6, ReconciledFits
<1> QED
  BY <1>2, <1>6, <1>7

(* A run whose fence cannot be written.                                     *)
LEMMA FailFits ==
    ASSUME Domains, NEW n \in Nodes, NodeInv(n), sync[n].at = "fence", Fail(n),
           late'[n] = late[n], Fit(n, disk'[n], run[n], jobs[n], sync[n])
    PROVE  FitsOn(n)
<1> DEFINE r == [run[n] EXCEPT !.failure = TRUE, !.cancelled = TRUE]
<1>1. /\ run' = [run EXCEPT ![n].failure = TRUE, ![n].cancelled = TRUE]
      /\ jobs' = [jobs EXCEPT ![n] = Cancelled(@)]
      /\ Reply(n, "refused", {})
  BY DEF Fail
<1>2. sync[n] # NoSync /\ DOMAIN run[n] = RunFields
  BY RunningSync DEF RunShape
<1>3. /\ r.open = run[n].open /\ r.chunks = run[n].chunks
      /\ r.highest = run[n].highest /\ r.resumed = run[n].resumed
  BY <1>2 DEF RunFields
<1>4. run' = [run EXCEPT ![n] = r]
  BY <1>1 DEF Domains
<1> HIDE DEF r
<1>5. run'[n] = r /\ jobs'[n] = Cancelled(jobs[n])
  BY <1>1, <1>4 DEF Domains
<1>6. SameRun(run[n], run'[n])
  BY <1>3, <1>5 DEF SameRun
<1> QED
  BY <1>1, <1>2, <1>5, <1>6, ReplyFits

(* The end of a fence write.                                                *)
LEMMA FenceWrittenFits ==
    ASSUME Domains, NEW n \in Nodes, NodeInv(n), FirstFits(n), epoch \in Nat, FenceWritten(n)
    PROVE  FitsOn(n)
<1> DEFINE s == sync[n]
           q == s.request
           refused == Refused(disk[n].dir.fence, s.position, s.payload)
           r == [run[n] EXCEPT !.position = WrittenPosition(s.position, s.payload)]
           target == Target(q.held, r.highest)
<1>1. /\ s.at = "fence" /\ late' = late
      /\ refused => Fail(n) /\ disk' = disk
      /\ ~refused => Settle(n, r, jobs[n], target)
  BY Zenon DEF FenceWritten, Working, Rest
<1>2. /\ SyncShape(s) /\ s # NoSync /\ RunShape(run[n]) /\ run[n].open
      /\ disk[n].control = q.version
  BY <1>1, RunningSync
<1>3. CASE refused
  <2>1. Fit(n, disk'[n], run[n], jobs[n], sync[n]) /\ late'[n] = late[n]
    BY <1>1, <1>3 DEF FirstFits
  <2> QED
    BY <1>1, <1>3, <2>1, FailFits
<1>4. CASE ~refused
  <2>1. /\ RunShape(r) /\ r.open = run[n].open /\ r.highest = run[n].highest
        /\ Outcome(n, r, r.highest, target)
        /\ disk' = [disk EXCEPT ![n] = Effect(n)]
    BY <1>4, FenceWrittenOutcome
  <2>2. r.resumed = run[n].resumed /\ r.chunks = run[n].chunks
    <3>1. DOMAIN run[n] = RunFields
      BY <1>2 DEF RunShape
    <3> QED
      BY <3>1 DEF RunFields
  <2> HIDE DEF r, refused
  <2>3. disk'[n] = Effect(n)
    BY <2>1, DiskWrite
  <2>4. Fit(n, disk'[n], run[n], jobs[n], sync[n])
    BY <1>2, <2>3, OperationFits
  <2>5. disk'[n].control = q.version
    <3> DEFINE d == disk[n]
               f == Written(d.dir.fence, s.position, s.payload)
               x == disk'[n]
    <3>1. DOMAIN d = DiskFields /\ d.control = q.version
      BY <1>2 DEF NodeInv, NodeShape, DiskShape
    <3>2. x = [d EXCEPT !.dir.fence = f]
      BY <1>1, <2>3, EffectIs
    <3> HIDE DEF d, f, x
    <3>3. x.control = d.control
      BY <3>1, <3>2 DEF DiskFields
    <3> QED
      BY <3>1, <3>3 DEF x
  <2>6. Accepted(n, disk'[n], q)
    BY <1>2, <2>5, RequestAccepted DEF FirstFits
  <2>7. Fit(n, disk'[n], r, jobs[n], NoSync)
    <3>1. SameRun(run[n], r) /\ SameAims(sync[n], run[n], NoSync, r) /\ Continues(jobs[n], jobs[n])
      BY <2>1, <2>2, ContinuesAlways DEF SameRun, SameAims, NoSync
    <3> QED
      BY <2>4, <3>1, FitGoesOn
  <2>8. TargetFits(n, disk'[n], q, target) /\ target \in Attempts
    <3>1. r.highest \in Attempts /\ \A c \in Chunks : ChunkFits(n, c, disk'[n], r, jobs[n])
      BY <2>1, <2>7 DEF RunShape, Fit
    <3>2. q.held \in Attempts /\ r.open
      BY <1>2, <2>1, <2>6 DEF Accepted
    <3> QED
      BY <2>6, <3>1, <3>2, RaisedFits, RaisedAttempts
  <2>9. /\ \A j \in jobs[n] : JobShape(j)
        /\ q = sync[n].request /\ r.open /\ Settle(n, r, jobs[n], target)
    BY <1>1, <1>2, <1>4, <2>1 DEF NodeInv, NodeShape
  <2>10. late'[n] = late[n]
    BY <1>1
  <2> HIDE DEF target, q, s
  <2>11. Fit(n, disk'[n], run'[n], jobs'[n], sync'[n])
    BY <2>1, <2>6, <2>7, <2>8, <2>9, SettleFits
  <2>12. Answered(n) /\ (sync'[n] = NoSync \/ sync'[n].request = sync[n].request)
    BY <2>1 DEF Outcome, Answered
  <2>13. Requests(n)' \subseteq Requests(n)
    BY <1>2, <2>10, <2>12, SyncRequests DEF NodeInv, s
  <2> QED
    BY <2>11, <2>13 DEF FitsOn
<1> QED
  BY <1>3, <1>4

(* The end of a marker's claim.                                             *)
LEMMA MarkerClaimedFits ==
    ASSUME Domains, NEW n \in Nodes, NodeInv(n), FirstFits(n), epoch \in Nat, MarkerClaimed(n)
    PROVE  FitsOn(n)
<1> DEFINE r == run[n]
           s == sync[n]
           q == s.request
           target == s.target
<1>1. /\ s.at = "marker" /\ late' = late /\ disk' = [disk EXCEPT ![n] = Effect(n)]
      /\ \/ Reply(n, "refused", {}) /\ UNCHANGED <<run, jobs, acted>>
         \/ /\ Start(n, r, jobs[n], {s.chunk}, target)
            /\ IF s.todo = {} THEN Report(n, r, s.finished)
               ELSE Proceed(n, Claiming(n, s.todo, target, s.finished))
  BY Zenon DEF MarkerClaimed, Working, Rest
<1>2. /\ SyncShape(s) /\ s # NoSync /\ RunShape(r) /\ r.open /\ late'[n] = late[n]
      /\ disk[n].control = q.version /\ disk'[n] = Effect(n)
  BY <1>1, RunningSync, DiskWrite
<1>3. Fit(n, disk'[n], r, jobs[n], s)
  BY <1>2, OperationFits
<1>4. CASE Reply(n, "refused", {}) /\ UNCHANGED <<run, jobs, acted>>
  <2>1. SameRun(run[n], run'[n]) /\ jobs'[n] = jobs[n]
    BY <1>4 DEF SameRun
  <2> QED
    BY <1>2, <1>3, <1>4, <2>1, ReplyFits
<1>5. CASE /\ Start(n, r, jobs[n], {s.chunk}, target)
           /\ IF s.todo = {} THEN Report(n, r, s.finished)
              ELSE Proceed(n, Claiming(n, s.todo, target, s.finished))
  <2>1. disk'[n].control = q.version
    <3> DEFINE d == disk[n]
               x == disk'[n]
               marked == d.dir.markers \cup {<<s.chunk, s.target[s.chunk]>>}
    <3>1. DOMAIN d = DiskFields /\ d.control = q.version
      BY <1>2 DEF NodeInv, NodeShape, DiskShape
    <3>2. x = [d EXCEPT !.dir.markers = marked]
      BY <1>1, <1>2, EffectIs DEF Marked
    <3> HIDE DEF d, x, marked
    <3>3. x.control = d.control
      BY <3>1, <3>2 DEF DiskFields
    <3> QED
      BY <3>1, <3>3 DEF x
  <2>2. Accepted(n, disk'[n], q)
    BY <1>2, <2>1, RequestAccepted DEF FirstFits
  <2>3. /\ target \in Attempts /\ s.chunk \in Chunks /\ s.todo \subseteq Chunks
    BY <1>1, <1>2 DEF SyncShape
  <2>4. /\ s.chunk \notin s.todo
        /\ \A c \in s.todo \cup {s.chunk} : target[c] > 0 /\ r.chunks[c] = 0
        /\ TargetAims(n, disk'[n], q, target)
    BY <1>1, <1>3 DEF Fit, AimsFit, TargetAims
  <2>5. /\ ClaimsNext(q, r, target, sync'[n])
        /\ sync'[n].at = "marker" => \A c \in sync'[n].todo \cup {sync'[n].chunk} : c \notin {s.chunk}
        /\ Answered(n) /\ (sync'[n] = NoSync \/ sync'[n].request = sync[n].request)
    <3>1. CASE s.todo = {}
      <4>1. Report(n, r, s.finished) /\ Results(s.finished)
        BY <1>1, <1>2, <1>5, <3>1 DEF SyncShape
      <4>2. Reply(n, "refused", {}) \/ Reply(n, "progress", s.finished)
        BY <4>1, Zenon DEF Report
      <4>3. sync'[n] = NoSync /\ Answered(n)
        BY <4>1, <4>2, ReplyAnswers, MoreResults
      <4> QED
        BY <4>3 DEF ClaimsNext, NoSync
    <3>2. CASE s.todo # {}
      <4> DEFINE todo == s.todo
                 fs == s.finished
                 next == Claiming(n, todo, target, fs)
      <4>1. sync'[n] = next /\ next = Claiming(n, todo, target, fs) /\ calls' = calls
        BY <1>5, <3>2, ProceedEffect
      <4>2. /\ SomeChunks(todo) /\ target \in Attempts
            /\ \A c \in todo : target[c] # 0 /\ r.chunks[c] = 0
        BY <2>3, <2>4, <3>2 DEF SomeChunks, Attempts
      <4>3. next.chunk \in todo /\ next.todo \subseteq todo /\ next.request = sync[n].request
        <5>1. Min(todo) \in todo
          BY <4>2, FirstChunk DEF SomeChunks
        <5> QED
          BY <5>1 DEF Claiming
      <4> HIDE DEF fs, next
      <4>4. ClaimsNext(sync[n].request, r, target, next)
        BY <4>1, <4>2, ClaimingNext
      <4> QED
        BY <2>4, <4>1, <4>3, <4>4 DEF Answered
    <3> QED
      BY <3>1, <3>2
  <2>6. Requests(n)' \subseteq Requests(n)
    BY <1>2, <2>5, SyncRequests DEF NodeInv
  <2>7. PICK todo \in SUBSET Chunks : todo = {s.chunk}
    BY <2>3
  <2>8. /\ q = sync[n].request /\ Start(n, r, jobs[n], todo, target)
        /\ \A c \in todo : r.chunks[c] = 0 /\ target[c] > 0
        /\ sync'[n].at = "marker" => \A c \in sync'[n].todo \cup {sync'[n].chunk} : c \notin todo
    BY <1>5, <2>4, <2>5, <2>7
  <2> HIDE DEF q, r, s, target
  <2>9. Fit(n, disk'[n], run'[n], jobs'[n], sync'[n])
    BY <1>2, <1>3, <2>2, <2>3, <2>4, <2>5, <2>8, StartFits
  <2> QED
    BY <2>6, <2>9 DEF FitsOn
<1> QED
  BY <1>1, <1>4, <1>5

(* A failed disk operation.                                                 *)
LEMMA DiskErrorFits ==
    ASSUME Domains, NEW n \in Nodes, NodeInv(n), FirstFits(n), epoch \in Nat, DiskError(n)
    PROVE  FitsOn(n)
<1>1. sync[n] # NoSync /\ late'[n] = late[n]
  BY DEF DiskError, Rest
<1>2. Fit(n, disk'[n], run[n], jobs[n], sync[n])
  <2>1. PICK d \in Remains(n) : disk' = [disk EXCEPT ![n] = d]
    BY DEF DiskError
  <2> QED
    BY <2>1, DiskWrite, OperationFits
<1>3. CASE sync[n].at = "fence"
  <2>1. Fail(n)
    BY <1>3 DEF DiskError
  <2> QED
    BY <1>1, <1>2, <1>3, <2>1, FailFits
<1>4. CASE sync[n].at # "fence"
  <2>1. PICK kind : Reply(n, kind, {})
    BY <1>4 DEF DiskError
  <2>2. run' = run /\ jobs' = jobs
    BY <1>4 DEF DiskError
  <2>3. SameRun(run[n], run'[n]) /\ jobs'[n] = jobs[n]
    BY <2>2 DEF SameRun
  <2> QED
    BY <1>1, <1>2, <2>1, <2>3, ReplyFits
<1> QED
  BY <1>3, <1>4

(* A sync that is left by its handler, or ends without one.                 *)
LEMMA DropSyncFits ==
    ASSUME Domains, NEW n \in Nodes, NodeInv(n), FirstFits(n), epoch \in Nat, DropSync(n)
    PROVE  FitsOn(n)
<1> DEFINE t == [sync[n] EXCEPT !.dropped = TRUE]
<1>1. /\ sync[n] # NoSync /\ disk' = disk /\ run' = run /\ jobs' = jobs /\ calls' = calls
      /\ late' = late /\ sync' = [sync EXCEPT ![n] = t]
  BY DEF DropSync, leader
<1>2. SameSync(sync[n], t)
  <2>1. SyncShape(sync[n]) /\ t = [sync[n] EXCEPT !.dropped = TRUE]
    BY <1>1 DEF NodeInv, NodeShape
  <2> HIDE DEF t
  <2> QED
    BY <2>1, SyncLeft
<1> HIDE DEF t
<1>3. sync'[n] = t /\ SameAims(sync[n], run[n], sync'[n], run'[n])
  BY <1>1, <1>2 DEF SameSync, SameAims, Domains
<1>4. Requests(n)' \subseteq Requests(n)
  <2>1. t.request = sync[n].request
    BY <1>2 DEF SameSync
  <2> QED
    BY <1>1, <1>3, <2>1 DEF Requests
<1>5. /\ SameRun(run[n], run'[n]) /\ Continues(jobs[n], jobs'[n])
      /\ Fit(n, disk'[n], run[n], jobs[n], sync[n])
  BY <1>1, ContinuesAlways DEF SameRun, FirstFits
<1> QED
  BY <1>3, <1>4, <1>5, FitGoesOn DEF FitsOn

(* The disk operation of a dropped sync.                                    *)
LEMMA OrphanEndsFits ==
    ASSUME Domains, NEW n \in Nodes, NodeInv(n), FirstFits(n), epoch \in Nat, OrphanEnds(n)
    PROVE  FitsOn(n)
<1>1. /\ sync[n] # NoSync /\ sync' = [sync EXCEPT ![n] = NoSync] /\ run' = run
      /\ jobs' = jobs /\ calls' = calls /\ late' = late
  BY DEF OrphanEnds, leader
<1>2. disk'[n] = disk[n] \/ disk'[n] = Effect(n) \/ disk'[n] \in Remains(n)
  <2>1. \/ disk' = [disk EXCEPT ![n] = disk[n]]
        \/ disk' = [disk EXCEPT ![n] = Effect(n)]
        \/ \E d \in Remains(n) : disk' = [disk EXCEPT ![n] = d]
    BY DEF OrphanEnds
  <2> QED
    BY <2>1, DiskWrite
<1>3. Fit(n, disk'[n], run[n], jobs[n], sync[n])
  BY <1>1, <1>2, OperationFits DEF FirstFits
<1>4. sync'[n] = NoSync /\ Requests(n)' \subseteq Requests(n)
  BY <1>1 DEF Domains, Requests
<1>5. /\ SameRun(run[n], run'[n]) /\ Continues(jobs[n], jobs'[n])
      /\ SameAims(sync[n], run[n], sync'[n], run'[n])
  BY <1>1, <1>4, ContinuesAlways DEF SameRun, SameAims, NoSync
<1> QED
  BY <1>3, <1>4, <1>5, FitGoesOn DEF FitsOn

(* A request arrives.                                                       *)
LEMMA BeginFits ==
    ASSUME Domains, NEW n \in Nodes, NodeInv(n), FirstFits(n),
           NEW q \in Requests(n), NEW live, Begin(n, q, live), late'[n] \subseteq late[n],
           calls'[n] = calls[n] \/ (calls[n] # NoCall /\ calls'[n].request = calls[n].request)
    PROVE  FitsOn(n)
<1> DEFINE t == [at |-> "control", request |-> q, live |-> live, dropped |-> FALSE]
<1>1. /\ sync' = [sync EXCEPT ![n] = t] /\ disk' = disk /\ run' = run /\ jobs' = jobs
  BY DEF Begin
<1>2. sync'[n] = t /\ t.at = "control" /\ t.request = q
  BY <1>1 DEF Domains
<1> HIDE DEF t
<1>3. Requests(n)' \subseteq Requests(n)
  BY <1>2 DEF Requests
<1>4. /\ SameRun(run[n], run'[n]) /\ Continues(jobs[n], jobs'[n])
      /\ Fit(n, disk'[n], run[n], jobs[n], sync[n])
      /\ SameAims(sync[n], run[n], sync'[n], run'[n])
  BY <1>1, <1>2, ContinuesAlways DEF SameRun, SameAims, FirstFits
<1> QED
  BY <1>3, <1>4, FitGoesOn DEF FitsOn

(* It does so on its call or late.                                          *)
LEMMA ReceiveFits ==
    ASSUME Domains, NEW n \in Nodes, NodeInv(n), FirstFits(n), Receive(n) \/ ReceiveLate(n)
    PROVE  FitsOn(n)
<1>1. CASE Receive(n)
  <2> DEFINE q == calls[n].request
             k == Call("inside", q, NoAnswer)
  <2>1. /\ calls[n].state = "sent" /\ calls' = [calls EXCEPT ![n] = k]
        /\ Begin(n, q, TRUE) /\ late' = late
    BY <1>1 DEF Receive
  <2>2. calls[n] # NoCall /\ q \in Requests(n)
    BY <2>1 DEF NoCall, Requests
  <2>3. k.request = q
    BY DEF Call
  <2> HIDE DEF k
  <2>4. calls'[n].request = q
    BY <2>1, <2>3 DEF Domains
  <2> QED
    BY <2>1, <2>2, <2>4, BeginFits
<1>2. CASE ReceiveLate(n)
  <2>1. PICK q \in late[n] : Begin(n, q, FALSE)
    BY <1>2 DEF ReceiveLate
  <2>2. late' = [late EXCEPT ![n] = {}] /\ calls' = calls
    BY <1>2 DEF ReceiveLate
  <2>3. late'[n] \subseteq late[n] /\ q \in Requests(n)
    BY <2>2 DEF Domains, Requests
  <2> QED
    BY <2>1, <2>2, <2>3, BeginFits
<1> QED
  BY <1>1, <1>2

-----------------------------------------------------------------------------
(* The steps of a chunk's tasks, and a node's crashes.                      *)

(* A step of a job that leaves the disk.                                    *)
LEMMA JobSteppedFits ==
    ASSUME NEW n, JobStepped(n), Continues(jobs[n], jobs'[n]),
           Fit(n, disk'[n], run[n], jobs[n], sync[n])
    PROVE  FitsOn(n)
<1>1. sync'[n] = sync[n] /\ calls'[n] = calls[n] /\ late'[n] = late[n]
  BY DEF JobStepped, JobFrame
<1>2. SameRun(run[n], run'[n]) /\ run'[n].chunks = run[n].chunks
  BY DEF JobStepped, RunNote, SameRun
<1>3. SameAims(sync[n], run[n], sync'[n], run'[n]) /\ Requests(n)' \subseteq Requests(n)
  BY <1>1, <1>2 DEF SameAims, Requests
<1> QED
  BY <1>2, <1>3, FitGoesOn DEF FitsOn

(* One more entry in a ledger.                                              *)
LEMMA OneMoreEntry ==
    ASSUME NEW l \in Seq(Entries), NEW e \in Entries
    PROVE  /\ Append(l, e) \in Seq(Entries)
           /\ \A i \in DOMAIN Append(l, e) :
                 (i \in DOMAIN l /\ Append(l, e)[i] = l[i]) \/ Append(l, e)[i] = e
<1>1. Append(l, e) \in Seq(Entries) /\ Len(l) \in Nat /\ DOMAIN l = 1 .. Len(l)
  OBVIOUS
<1>2. /\ DOMAIN Append(l, e) = 1 .. Len(l) + 1 /\ Append(l, e)[Len(l) + 1] = e
      /\ \A i \in 1 .. Len(l) : Append(l, e)[i] = l[i]
  OBVIOUS
<1> QED
  BY <1>1, <1>2

(* A ledger with one more entry for each task of a set.                     *)
Extended(l, S, e) == [u \in Tasks |-> IF u \in S THEN Append(l[u], e) ELSE l[u]]

(* What the entries of a job add to what a disk tells.                      *)
LEMMA LedgerGrows ==
    ASSUME NEW d, FilesFit(d), NEW d2, d2.dir.exists = d.dir.exists, d2.dir.fence = d.dir.fence,
           NEW S, S # {} => d.dir.exists, NEW e \in Entries,
           d2.dir.ledger = Extended(d.dir.ledger, S, e)
    PROVE  /\ FilesFit(d2)
           /\ \A u \in Tasks : Ran(d2, u) =>
                 Ran(d, u) \/ (u \in S /\ e.attempt = 1 /\ e.outcome # "notrun")
           /\ \A c \in Chunks : LaterOnDisk(c, d2) =>
                 LaterOnDisk(c, d) \/ (e.attempt > 1 /\ \E u \in S : u \in ChunkRange(c))
<1> DEFINE old == d.dir.ledger
           new == d2.dir.ledger
<1>1. old \in [Tasks -> Seq(Entries)] /\ DOMAIN new = Tasks
  BY DEF FilesFit, Extended
<1>2. ASSUME NEW u \in Tasks
      PROVE  /\ new[u] \in Seq(Entries) /\ (u \notin S => new[u] = old[u])
             /\ \A i \in DOMAIN new[u] :
                   (i \in DOMAIN old[u] /\ new[u][i] = old[u][i]) \/ (u \in S /\ new[u][i] = e)
  <2>1. old[u] \in Seq(Entries) /\ new[u] = IF u \in S THEN Append(old[u], e) ELSE old[u]
    BY <1>1 DEF Extended
  <2> HIDE DEF old, new
  <2> QED
    BY <2>1, OneMoreEntry
<1>3. new = [u \in Tasks |-> new[u]]
  BY DEF Extended
<1>4. new \in [Tasks -> Seq(Entries)]
  <2> HIDE DEF new
  <2> QED
    BY <1>2, <1>3
<1>5. ~d2.dir.exists => d2.dir.fence = NoFile /\ \A u \in Tasks : new[u] = <<>>
  <2> HIDE DEF new
  <2> QED
    BY <1>2 DEF FilesFit
<1>6. FilesFit(d2)
  BY <1>4, <1>5 DEF FilesFit
<1> HIDE DEF old, new
<1>7. ASSUME NEW u \in Tasks, Ran(d2, u)
      PROVE  Ran(d, u) \/ (u \in S /\ e.attempt = 1 /\ e.outcome # "notrun")
  <2>1. PICK i \in DOMAIN new[u] : new[u][i].attempt = 1 /\ new[u][i].outcome # "notrun"
    BY <1>7 DEF Ran, new
  <2> QED
    BY <1>2, <2>1 DEF Ran, old
<1>8. ASSUME NEW c \in Chunks, LaterOnDisk(c, d2)
      PROVE  LaterOnDisk(c, d) \/ (e.attempt > 1 /\ \E u \in S : u \in ChunkRange(c))
  <2>1. ASSUME NEW u \in ChunkRange(c), NEW i \in DOMAIN new[u], new[u][i].attempt > 1
        PROVE  LaterOnDisk(c, d) \/ (e.attempt > 1 /\ \E w \in S : w \in ChunkRange(c))
    <3>1. u \in Tasks
      BY DEF ChunkRange
    <3> QED
      BY <1>2, <2>1, <3>1 DEF LaterOnDisk, old
  <2> QED
    BY <1>8, <2>1 DEF LaterOnDisk, new
<1> QED
  BY <1>6, <1>7, <1>8

(* The chunks after a task of job j, now k, ended with its record on disk.  *)
LEMMA EndedChunk ==
    ASSUME NEW n, NEW c \in Chunks, NEW d, NEW r, NEW js, ChunkFits(n, c, d, r, js), JobsFit(d, js),
           NEW j \in js, j.epoch = d.control.epoch, j.chunk \in Chunks,
           NEW t \in DOMAIN j.tasks, NEW o, o \notin Unfinished,
           NEW k, SameWork(j, k), Differs(j, k, t, o),
           NEW d2, d2.control = d.control,
           \A u \in Tasks : Ran(d2, u) => Ran(d, u) \/ (u = t /\ j.attempt = 1),
           LaterOnDisk(c, d2) => LaterOnDisk(c, d) \/ (j.attempt > 1 /\ t \in ChunkRange(c)),
           NEW js2, js2 \subseteq (js \ {j}) \cup {k}
    PROVE  ChunkFits(n, c, d2, r, js2)
<1>1. DOMAIN j.tasks = ChunkRange(j.chunk) /\ ChunkRange(c) \subseteq Tasks
  BY DEF JobsFit, ChunkRange
<1>2. t \in ChunkRange(c) => JobOf(c, d, j)
  BY <1>1, OneChunk DEF JobOf
<1>3. LaterOnDisk(c, d2) => HeardLater(c, d, r, js)
  BY <1>2 DEF HeardLater
<1>4. CASE ~(t \in ChunkRange(c) /\ j.attempt = 1)
  <2>1. SameOutcomes(c, d, r, js, d2)
    BY <1>1, <1>3, <1>4 DEF SameOutcomes
  <2>2. Continues(js, js2) /\ SameRun(r, r)
    BY ReplacedGoOn DEF SameRun
  <2> QED
    BY <2>1, <2>2, ChunkMoves
<1>5. CASE t \in ChunkRange(c) /\ j.attempt = 1
  <2>1. FirstJob(c, d, j) /\ DOMAIN j.tasks = ChunkRange(c)
    BY <1>1, <1>2, <1>5 DEF FirstJob, JobOf
  <2>2. Begun(n, c, d, r, js)
    BY <2>1 DEF ChunkFits, Fresh
  <2>3. \A i \in js2 : FirstJob(c, d2, i) => i = k
    <3>1. \A i \in js : FirstJob(c, d, i) => i = j
      BY <2>1, <2>2 DEF Begun, OneWriter
    <3> QED
      BY <3>1 DEF FirstJob, JobOf
  <2>4. \A u \in ChunkRange(c) : k.tasks[u] \in Unfinished => ~Ran(d2, u)
    <3>1. \A u \in ChunkRange(c) : j.tasks[u] \in Unfinished => ~Ran(d, u)
      BY <2>1, <2>2 DEF Begun, OneWriter
    <3> QED
      BY <1>1, <2>1, <3>1 DEF SameWork, Differs
  <2>5. OneWriter(c, d2, js2)
    BY <2>3, <2>4 DEF OneWriter
  <2>6. Begun(n, c, d2, r, js2)
    BY <2>1, <2>2, <2>5 DEF Begun, Resumable
  <2>7. HeardLater(c, d2, r, js2) => HeardLater(c, d, r, js)
    <3>1. ASSUME NEW i \in js2, JobOf(c, d2, i), i.attempt > 1
          PROVE  HeardLater(c, d, r, js)
      BY <1>5, <3>1 DEF JobOf, SameWork, HeardLater
    <3> QED
      BY <1>3, <3>1 DEF HeardLater
  <2> QED
    BY <2>6, <2>7 DEF ChunkFits
<1> QED
  BY <1>4, <1>5

(* The ledger after the record of a task that ended.                        *)
LEMMA OneRecord ==
    ASSUME Domains, NEW n \in Nodes, NodeInv(n), NEW j, NEW t, NEW o, InLedger(n, j),
           FilesFit(disk[n]), disk' = Append1(n, j, t, o), NEW e,
           e = [attempt |-> j.attempt, outcome |-> o], NEW S, S = {t}
    PROVE  disk'[n].dir.ledger = Extended(disk[n].dir.ledger, S, e)
<1> DEFINE old == disk[n].dir.ledger
           l == [old EXCEPT ![t] = Append(old[t], e)]
           x == [disk[n] EXCEPT !.dir.ledger = l]
<1>1. disk' = [disk EXCEPT ![n].dir.ledger[t] = Append(@, e)]
  BY DEF Append1
<1>2. disk' = [disk EXCEPT ![n] = x]
  <2>1. DOMAIN disk[n] = DiskFields /\ DOMAIN disk[n].dir = DirFields
    BY DEF NodeInv, NodeShape, DiskShape
  <2> QED
    BY <1>1, <2>1, Zenon DEF Domains, DiskFields, DirFields
<1>3. l = Extended(old, S, e)
  <2> HIDE DEF old
  <2>1. DOMAIN old = Tasks
    BY DEF old, FilesFit
  <2> QED
    BY <2>1 DEF Extended
<1>4. x = [disk[n] EXCEPT !.dir.ledger = l]
  OBVIOUS
<1> HIDE DEF l, x
<1>5. x.dir.ledger = l
  BY <1>4, LedgerOf
<1>6. disk'[n] = x
  BY <1>2, DiskWrite
<1> QED
  BY <1>3, <1>5, <1>6

(* What is on a node's disk of a job with a ledger.                         *)
LEMMA RecordedJob ==
    ASSUME NEW n, NodeInv(n), FirstFits(n), NEW j \in jobs[n], InLedger(n, j), NEW o \in Ended, NEW e,
           e = [attempt |-> j.attempt, outcome |-> o]
    PROVE  /\ e \in Entries /\ e.attempt = j.attempt /\ e.outcome = o
           /\ j.epoch = disk[n].control.epoch /\ j.chunk \in Chunks
           /\ DOMAIN j.tasks = ChunkRange(j.chunk) /\ disk[n].dir.exists
<1>1. /\ JobShape(j) /\ disk[n].dir.exists /\ disk[n].dir.epoch = j.epoch
      /\ DirectoryIsCurrent(n)
  BY DEF NodeInv, NodeShape, InLedger
<1>2. j.attempt > 0 /\ DOMAIN j.tasks = ChunkRange(j.chunk)
  BY DEF FirstFits, Fit, JobsFit
<1>3. j.attempt \in Nat /\ j.chunk \in Chunks
  BY <1>1 DEF JobShape
<1>4. j.attempt \in Tries
  BY <1>2, <1>3 DEF Tries
<1>5. e \in Entries
  BY <1>4 DEF Entries
<1> QED
  BY <1>1, <1>2, <1>3, <1>5 DEF DirectoryIsCurrent

(* A task ends.                                                             *)
LEMMA EndTaskFits ==
    ASSUME Domains, NEW n \in Nodes, NodeInv(n), FirstFits(n),
           NEW j \in jobs[n], NEW t \in DOMAIN j.tasks, NEW o \in Ended, EndTask(n, j, t, o)
    PROVE  FitsOn(n)
<1> DEFINE k == [j EXCEPT !.tasks[t] = o]
           e == [attempt |-> j.attempt, outcome |-> o]
           d == disk[n]
           r == run[n]
           js == jobs[n]
           s == sync[n]
<1>1. disk' = Append1(n, j, t, o) /\ Replace(n, j, {k}) /\ JobStepped(n)
  BY EndTaskKeeps DEF EndTask
<1>2. o \notin Unfinished /\ o # "todo" /\ JobShape(j) /\ k = [j EXCEPT !.tasks[t] = o]
  BY DEF Ended, Unfinished, NodeInv, NodeShape
<1>3. jobs'[n] \subseteq (js \ {j}) \cup {k}
  BY <1>1 DEF Replace, Domains
<1>4. e = [attempt |-> j.attempt, outcome |-> o]
  OBVIOUS
<1> HIDE DEF k, e
<1>5. SameWork(j, k) /\ Differs(j, k, t, o)
  BY <1>2, TaskGoesOn
<1>6. Continues(js, jobs'[n])
  BY <1>3, <1>5, ReplacedGoOn
<1>7. CASE ~InLedger(n, j)
  <2>1. disk' = disk
    BY <1>1, <1>7 DEF Append1
  <2> QED
    BY <1>1, <1>6, <2>1, JobSteppedFits DEF FirstFits
<1>8. CASE InLedger(n, j)
  <2>1. /\ e \in Entries /\ e.attempt = j.attempt /\ j.epoch = d.control.epoch
        /\ j.chunk \in Chunks /\ DOMAIN j.tasks = ChunkRange(j.chunk) /\ d.dir.exists
    BY <1>4, <1>8, RecordedJob
  <2>2. /\ d.control.epoch <= epoch /\ FilesFit(d) /\ JobsFit(d, js) /\ AimsFit(n, d, r, s)
        /\ \A c \in Chunks : ChunkFits(n, c, d, r, js)
    BY DEF FirstFits, Fit
  <2>3. PICK S : S = {t} /\ disk'[n].dir.ledger = Extended(d.dir.ledger, S, e)
    <3>1. PICK S : S = {t}
      OBVIOUS
    <3>2. disk'[n].dir.ledger = Extended(disk[n].dir.ledger, S, e)
      BY <1>1, <1>4, <1>8, <2>2, <3>1, OneRecord
    <3> QED
      BY <3>1, <3>2
  <2>4. PICK x : x = disk'[n]
    OBVIOUS
  <2>5. x.control = d.control /\ x.dir.exists = d.dir.exists /\ x.dir.fence = d.dir.fence
    BY <1>1, <2>4 DEF JobStepped, LedgerOnly
  <2>6. /\ FilesFit(x)
        /\ \A u \in Tasks : Ran(x, u) =>
              Ran(d, u) \/ (u \in S /\ e.attempt = 1 /\ e.outcome # "notrun")
        /\ \A c \in Chunks : LaterOnDisk(c, x) =>
              LaterOnDisk(c, d) \/ (e.attempt > 1 /\ \E u \in S : u \in ChunkRange(c))
    <3> HIDE DEF d
    <3> QED
      BY <2>1, <2>2, <2>3, <2>4, <2>5, LedgerGrows
  <2>7. ASSUME NEW c \in Chunks
        PROVE  ChunkFits(n, c, x, r, jobs'[n])
    <3> HIDE DEF d, r, js
    <3>1. /\ \A u \in Tasks : Ran(x, u) => Ran(d, u) \/ (u = t /\ j.attempt = 1)
          /\ LaterOnDisk(c, x) => LaterOnDisk(c, d) \/ (j.attempt > 1 /\ t \in ChunkRange(c))
      BY <2>1, <2>3, <2>6
    <3>2. j \in js
      BY DEF js
    <3> QED
      BY <1>2, <1>3, <1>5, <2>1, <2>2, <2>5, <3>1, <3>2, EndedChunk
  <2>8. JobsFit(x, jobs'[n]) /\ AimsFit(n, x, r, s)
    BY <1>6, <2>2, <2>5, JobsFitOn DEF AimsFit
  <2>9. Fit(n, disk'[n], run[n], jobs'[n], sync[n])
    BY <2>2, <2>4, <2>5, <2>6, <2>7, <2>8 DEF Fit
  <2>10. run'[n] = run[n] /\ sync'[n] = sync[n] /\ calls'[n] = calls[n] /\ late'[n] = late[n]
    BY DEF EndTask, leader
  <2> QED
    BY <2>9, <2>10 DEF FitsOn, Requests
<1> QED
  BY <1>7, <1>8

(* The end of a chunk.                                                      *)
LEMMA FinishChunkFits ==
    ASSUME Domains, NEW n \in Nodes, NodeInv(n), FirstFits(n), NEW j \in jobs[n], FinishChunk(n, j)
    PROVE  FitsOn(n)
<1> DEFINE d == disk[n]
           old == disk[n].dir.ledger
           e == [attempt |-> j.attempt, outcome |-> "notrun"]
           S == {t \in Tasks : InLedger(n, j) /\ t \in DOMAIN j.tasks /\ j.tasks[t] \notin Ended}
           l == [t \in Tasks |->
                   IF InLedger(n, j) /\ t \in DOMAIN j.tasks /\ j.tasks[t] \notin Ended
                   THEN Append(old[t], e) ELSE old[t]]
           x == [disk[n] EXCEPT !.dir.ledger = l]
<1>1. disk' = [disk EXCEPT ![n] = x] /\ Replace(n, j, {}) /\ JobStepped(n)
  <2>1. disk' = [disk EXCEPT ![n] = x]
    BY Zenon DEF FinishChunk, Domains
  <2> QED
    BY <2>1, FinishChunkKeeps DEF FinishChunk
<1>2. l = Extended(old, S, e)
  BY DEF Extended
<1>3. x = [disk[n] EXCEPT !.dir.ledger = l]
  OBVIOUS
<1>4. S # {} => InLedger(n, j)
  OBVIOUS
<1>5. \A t \in S : t \in DOMAIN j.tasks
  OBVIOUS
<1> HIDE DEF l, x, S
<1>6. x.dir.ledger = l /\ disk'[n] = x
  BY <1>1, <1>3, LedgerOf, DiskWrite
<1>7. x.control = d.control /\ x.dir.exists = d.dir.exists /\ x.dir.fence = d.dir.fence
  BY <1>1, <1>6 DEF JobStepped, LedgerOnly
<1>8. Fit(n, d, run[n], jobs[n], sync[n]) /\ FilesFit(d)
  BY DEF FirstFits, Fit
<1>9. jobs'[n] \subseteq jobs[n]
  BY <1>1 DEF Replace, Domains
<1>10. "notrun" \in Ended /\ e = [attempt |-> j.attempt, outcome |-> "notrun"]
  BY DEF Ended
<1> HIDE DEF e, d
<1>11. CASE ~InLedger(n, j)
  <2>1. x.dir.ledger = [t \in Tasks |-> d.dir.ledger[t]]
    BY <1>2, <1>4, <1>6, <1>11 DEF d, Extended
  <2>2. x.dir.ledger = d.dir.ledger
    BY <1>8, <2>1 DEF FilesFit
  <2>3. FilesFit(x)
    BY <1>7, <1>8, <2>2 DEF FilesFit
  <2>4. Fit(n, x, run[n], jobs[n], sync[n])
    BY <1>7, <1>8, <2>2, <2>3, FitOnFence
  <2> QED
    BY <1>1, <1>6, <1>9, <2>4, JobSteppedFits, ContinuesAlways
<1>12. CASE InLedger(n, j)
  <2>1. /\ e \in Entries /\ e.attempt = j.attempt /\ e.outcome = "notrun"
        /\ j.epoch = d.control.epoch
        /\ j.chunk \in Chunks /\ DOMAIN j.tasks = ChunkRange(j.chunk) /\ d.dir.exists
    BY <1>10, <1>12, RecordedJob DEF d
  <2>2. x.dir.ledger = Extended(d.dir.ledger, S, e)
    BY <1>2, <1>6 DEF d
  <2>3. /\ FilesFit(x)
        /\ \A u \in Tasks : Ran(x, u) =>
              Ran(d, u) \/ (u \in S /\ e.attempt = 1 /\ e.outcome # "notrun")
        /\ \A c \in Chunks : LaterOnDisk(c, x) =>
              LaterOnDisk(c, d) \/ (e.attempt > 1 /\ \E u \in S : u \in ChunkRange(c))
    BY <1>7, <1>8, <2>1, <2>2, LedgerGrows
  <2>4. ASSUME NEW c \in Chunks
        PROVE  SameOutcomes(c, d, run[n], jobs[n], x)
    <3>1. \A t \in ChunkRange(c) : Ran(x, t) => Ran(d, t)
      BY <2>1, <2>3 DEF ChunkRange
    <3>2. ASSUME NEW u \in S, u \in ChunkRange(c)
          PROVE  JobOf(c, d, j)
      BY <1>5, <2>1, <3>2, OneChunk DEF JobOf
    <3>3. LaterOnDisk(c, x) => HeardLater(c, d, run[n], jobs[n])
      BY <2>1, <2>3, <3>2 DEF HeardLater
    <3> QED
      BY <1>7, <3>1, <3>3 DEF SameOutcomes
  <2>5. Fit(n, x, run[n], jobs[n], sync[n])
    BY <1>7, <1>8, <2>3, <2>4, FitOnDisk
  <2> QED
    BY <1>1, <1>6, <1>9, <2>5, JobSteppedFits, ContinuesAlways
<1> QED
  BY <1>11, <1>12

(* The other steps of a job.                                                *)
LEMMA JobStepsFit ==
    ASSUME Domains, NEW n \in Nodes, NodeInv(n), FirstFits(n),
           NEW j \in jobs[n], NEW t \in DOMAIN j.tasks,
           LaunchTask(n, j, t) \/ LoseTask(n, j, t) \/ AppendFails(n, j, t)
    PROVE  FitsOn(n)
<1>1. disk' = disk
  BY DEF LaunchTask, LoseTask, AppendFails
<1>2. JobStepped(n)
  BY LaunchTaskKeeps, LoseTaskKeeps, AppendFailsKeeps
<1>3. CASE LaunchTask(n, j, t)
  <2>1. j.tasks[t] = "todo" /\ Replace(n, j, {[j EXCEPT !.tasks[t] = "running"]})
    BY <1>3 DEF LaunchTask
  <2>2. Continues(jobs[n], jobs'[n])
    BY <2>1, LaunchedJobs
  <2> QED
    BY <1>1, <1>2, <2>2, JobSteppedFits DEF FirstFits
<1>4. CASE LoseTask(n, j, t)
  <2>1. Replace(n, j, {[j EXCEPT !.tasks[t] = "lost"]}) /\ "lost" \notin Unfinished
    BY <1>4 DEF LoseTask, Unfinished
  <2>2. Continues(jobs[n], jobs'[n])
    BY <2>1, ReplaceGoesOn
  <2> QED
    BY <1>1, <1>2, <2>2, JobSteppedFits DEF FirstFits
<1>5. CASE AppendFails(n, j, t)
  <2> DEFINE rest == jobs[n] \ {j}
  <2>1. jobs'[n] = Cancelled(rest)
    BY <1>5 DEF AppendFails, Domains
  <2>2. Continues(jobs[n], rest) /\ \A i \in rest : JobShape(i)
    BY ContinuesAlways DEF NodeInv, NodeShape
  <2> HIDE DEF rest
  <2>3. Continues(jobs[n], jobs'[n])
    BY <2>1, <2>2, AllCancelled, ContinuesTwice
  <2> QED
    BY <1>1, <1>2, <2>3, JobSteppedFits DEF FirstFits
<1> QED
  BY <1>3, <1>4, <1>5

(* A crash or a restart.                                                    *)
LEMMA CrashesFit ==
    ASSUME Domains, NEW n \in Nodes, NodeInv(n), FirstFits(n), epoch \in Nat,
           Crash(n) \/ Restart(n)
    PROVE  FitsOn(n)
<1>1. CASE Crash(n)
  <2> DEFINE k == IF calls[n].state = "inside" THEN NoCall ELSE calls[n]
  <2>1. /\ run' = [run EXCEPT ![n] = NoRun] /\ jobs' = [jobs EXCEPT ![n] = {}]
        /\ sync' = [sync EXCEPT ![n] = NoSync] /\ late' = late
    BY <1>1 DEF Crash
  <2>2. calls' = [calls EXCEPT ![n] = k]
    BY <1>1 DEF Crash, Domains
  <2>3. k = NoCall \/ k = calls[n]
    OBVIOUS
  <2>4. PICK x \in Remains(n) : disk' = [disk EXCEPT ![n] = x]
    BY <1>1 DEF Crash
  <2>5. Fit(n, disk'[n], run[n], jobs[n], sync[n])
    BY <2>4, DiskWrite, OperationFits
  <2> HIDE DEF k
  <2>6. /\ run'[n] = NoRun /\ jobs'[n] = {} /\ sync'[n] = NoSync /\ late'[n] = late[n]
        /\ calls'[n] = k
    BY <2>1, <2>2 DEF Domains
  <2>7. /\ Requests(n)' \subseteq Requests(n) /\ Continues(jobs[n], jobs'[n])
        /\ SameAims(sync[n], run[n], sync'[n], run'[n])
    BY <2>3, <2>6, ContinuesAlways DEF Requests, SameAims, NoSync
  <2>8. \A c \in Chunks : RunOver(n, c, disk'[n].control, run'[n], jobs'[n])
    BY <2>6 DEF RunOver, NoRun
  <2> QED
    BY <2>5, <2>7, <2>8, FitGoesOn DEF FitsOn
<1>2. CASE Restart(n)
  BY <1>2 DEF Restart, leader, FitsOn, FirstFits, Requests
<1> QED
  BY <1>1, <1>2

-----------------------------------------------------------------------------
(* The steps of the leader, and the whole system.                           *)

(* A node that a step leaves alone fits the words it keeps.                 *)
LEMMA UntouchedFits ==
    ASSUME NEW n, NodeInv(n), FirstFits(n), Untouched(n), WordsKept(n),
           epoch <= epoch', epoch \in Nat, epoch' \in Nat
    PROVE  FirstFits(n)'
<1>1. PICK d, r, js, s : d = disk'[n] /\ r = run'[n] /\ js = jobs'[n] /\ s = sync'[n]
  OBVIOUS
<1>2. d = disk[n] /\ r = run[n] /\ js = jobs[n] /\ SameAims(sync[n], run[n], s, r)
  BY <1>1, SyncSame DEF Untouched, SameAims
<1>3. Continues(jobs[n], js) /\ SameRun(run[n], r) /\ d.control \in Version
  BY <1>2, ContinuesAlways DEF SameRun, NodeInv, NodeShape, DiskShape
<1>4. Fit(n, d, r, js, s)
  BY <1>2, <1>3, FitGoesOn DEF FirstFits
<1> QED
  BY <1>1, <1>3, <1>4, FitsLater

(* A step of a node.                                                        *)
LEMMA NodeStepFirst ==
    ASSUME Inv, FirstInv, NEW n \in Nodes, NodeKept(n), StoreFrame, FitsOn(n)
    PROVE  FirstInv'
<1>1. /\ array \in ArrayState /\ array' \in ArrayState /\ Advances(array, array')
      /\ index \in Nat /\ epoch \in Nat /\ epoch' = epoch /\ epoch <= epoch' /\ epoch' \in Nat
      /\ array' = array /\ index' = index /\ applying' = applying
      /\ kept' = kept /\ outcome' = outcome
  BY LeaderTypes, AdvancesSame DEF StoreFrame
<1>2. \A m \in Nodes : NodeInv(m) /\ NodeShape(m) /\ FirstFits(m) /\ RequestsFit(m)
  BY DEF Inv, NodeInv, FirstInv, FirstFits
<1>3. \A m \in Nodes : Requests(m)' \subseteq Requests(m)
  BY DEF FitsOn, NodeKept, Others, Requests
<1>4. \A m \in Nodes : WordsKept(m)
  BY <1>1, <1>2, <1>3, FewerWords
<1>5. FirstFits(n)'
  <2>1. PICK d, r, js, s : d = disk'[n] /\ r = run'[n] /\ js = jobs'[n] /\ s = sync'[n]
    OBVIOUS
  <2>2. Fit(n, d, r, js, s) /\ d.control \in Version
    BY <2>1 DEF FitsOn, NodeKept, NodeInv, NodeShape, DiskShape
  <2> QED
    BY <1>1, <1>4, <2>1, <2>2, FitsLater
<1>6. ASSUME NEW m \in Nodes, m # n
      PROVE  FirstFits(m)'
  <2>1. Untouched(m)
    BY <1>6 DEF NodeKept, Others, Untouched, SameSync
  <2> QED
    BY <1>1, <1>2, <1>4, <2>1, UntouchedFits
<1> QED
  BY <1>1, <1>5, <1>6 DEF FirstInv

(* A step of the leader that sends nothing.                                 *)
LEMMA QuietFirst ==
    ASSUME Inv, FirstInv, array' \in ArrayState, Advances(array, array'), epoch' = epoch,
           \/ array' = array /\ index' = index /\ applying' = applying
           \/ index' = index /\ applying # <<>>
           \/ index' = index + 1,
           \A n \in Nodes : Untouched(n) /\ Requests(n)' \subseteq Requests(n),
           ~kept' => outcome' # "none"
    PROVE  FirstInv'
<1>1. /\ array \in ArrayState /\ index \in Nat /\ epoch \in Nat /\ epoch <= epoch'
      /\ epoch' \in Nat
  BY LeaderTypes
<1>2. \A m \in Nodes : NodeInv(m) /\ NodeShape(m) /\ FirstFits(m) /\ RequestsFit(m)
  BY DEF Inv, NodeInv, FirstInv, FirstFits
<1>3. \A m \in Nodes : WordsKept(m)
  BY <1>1, <1>2, FewerWords
<1>4. \A m \in Nodes : FirstFits(m)'
  BY <1>1, <1>2, <1>3, UntouchedFits
<1> QED
  BY <1>4 DEF FirstInv

(* Commits, requests to the council and pruning.                            *)
LEMMA StoreStepsFirst ==
    ASSUME Inv, FirstInv,
           \/ Commit \/ Cancel \/ Prune
           \/ \E n \in setting.members : AcknowledgeReplay(n)
    PROVE  FirstInv'
<1>1. /\ array' = array /\ epoch' = epoch /\ outcome' = outcome
      /\ disk' = disk /\ run' = run /\ jobs' = jobs /\ sync' = sync
      /\ late' = late /\ calls' = calls
      /\ kept' = kept \/ outcome # "none"
      /\ (index' = index /\ applying' = applying) \/ index' = index + 1
  <2>1. CASE Commit
    BY <2>1 DEF Commit, nodes, history
  <2>2. CASE Cancel
    BY <2>2 DEF Cancel, replicated, nodes
  <2>3. CASE Prune
    BY <2>3 DEF Prune, leader, nodes, history
  <2>4. CASE \E n \in setting.members : AcknowledgeReplay(n)
    BY <2>4 DEF AcknowledgeReplay, replicated, nodes, history
  <2> QED
    BY <2>1, <2>2, <2>3, <2>4
<1>2. \A n \in Nodes : Untouched(n) /\ Requests(n)' \subseteq Requests(n)
  BY <1>1, FramesOnce
<1>3. array' \in ArrayState /\ Advances(array, array') /\ (~kept' => outcome' # "none")
  BY <1>1, LeaderTypes, AdvancesSame DEF FirstInv
<1> QED
  BY <1>1, <1>2, <1>3, QuietFirst

(* Calls that fail, late requests that are lost and ticks.                  *)
LEMMA CallsFirst ==
    ASSUME Inv, FirstInv,
           \/ \E n \in setting.members : CallFails(n) \/ LoseLate(n)
           \/ \E silent, failing : Tick(silent, failing)
    PROVE  FirstInv'
<1>1. /\ array' = array /\ epoch' = epoch /\ outcome' = outcome /\ kept' = kept
      /\ disk' = disk /\ run' = run /\ jobs' = jobs /\ sync' = sync
      /\ index' = index /\ applying' = applying
  BY DEF CallFails, LoseLate, Tick, replicated, nodes, history
<1>2. \A m \in Nodes : late'[m] \subseteq late[m] /\ (calls'[m] = calls[m] \/ calls'[m] = NoCall)
  <2>1. CASE \E n \in setting.members : CallFails(n)
    BY <2>1, LeaderTypes DEF CallFails, Domains
  <2>2. CASE \E n \in setting.members : LoseLate(n)
    BY <2>2, LeaderTypes DEF LoseLate, Domains
  <2>3. CASE \E silent, failing : Tick(silent, failing)
    <3> DEFINE heard == {n \in Nodes : calls[n].state = "answered"}
    <3>1. calls' = [n \in Nodes |-> IF n \in heard THEN NoCall ELSE calls[n]] /\ late' = late
      BY <2>3, Zenon DEF Tick
    <3> QED
      BY <3>1
  <2> QED
    BY <2>1, <2>2, <2>3
<1>3. \A m \in Nodes : Untouched(m) /\ Requests(m)' \subseteq Requests(m)
  BY <1>1, <1>2, FramesOnce
<1>4. array' \in ArrayState /\ Advances(array, array') /\ (~kept' => outcome' # "none")
  BY <1>1, LeaderTypes, AdvancesSame DEF FirstInv
<1> QED
  BY <1>1, <1>3, <1>4, QuietFirst

(* Time-outs and elections.                                                 *)
LEMMA GivenUpFirst ==
    ASSUME Inv, FirstInv, LeaderChange \/ \E n \in setting.members : TimeOut(n)
    PROVE  FirstInv'
<1>1. PICK gone, arrive : Abandon(gone, arrive)
  BY DEF LeaderChange, TimeOut
<1>2. /\ array' = array /\ epoch' = epoch /\ outcome' = outcome /\ kept' = kept
      /\ disk' = disk /\ run' = run /\ jobs' = jobs
      /\ index' = index /\ applying' = applying
  <2>1. CASE LeaderChange
    BY <2>1 DEF LeaderChange, replicated, history
  <2>2. CASE \E n \in setting.members : TimeOut(n)
    BY <2>2 DEF TimeOut, replicated
  <2> QED
    BY <2>1, <2>2
<1>3. \A m \in Nodes : Untouched(m) /\ Requests(m)' \subseteq Requests(m)
  BY <1>1, <1>2, AbandonOnce DEF Untouched
<1>4. array' \in ArrayState /\ Advances(array, array') /\ (~kept' => outcome' # "none")
  BY <1>2, LeaderTypes, AdvancesSame DEF FirstInv
<1> QED
  BY <1>2, <1>3, <1>4, QuietFirst

(* One write of a committed entry is applied.                               *)
LEMMA ApplyWriteFirst ==
    ASSUME Inv, FirstInv, ApplyWrite
    PROVE  FirstInv'
<1> DEFINE w == Head(applying)
           a == AppliedTo(array, w)
<1>1. applying # <<>> /\ array' = a
  BY Zenon DEF ApplyWrite
<1>2. /\ kept' = kept /\ index' = index /\ epoch' = epoch /\ calls' = calls /\ late' = late
      /\ disk' = disk /\ run' = run /\ jobs' = jobs /\ sync' = sync
  BY DEF ApplyWrite, leader, nodes, history
<1>3. array \in ArrayState /\ ValidSnapshot(array)
  BY DEF Inv, LeaderInv
<1>4. w \in Write
  BY <1>1, HeadTailProperties DEF Inv, LeaderInv
<1>5. a \in ArrayState /\ Advances(array, a)
  BY <1>3, <1>4, AppliedKeeps, AppliedAdvances
<1>6. outcome # "none" => outcome' = outcome
  BY DEF ApplyWrite
<1> HIDE DEF w, a
<1>7. \A n \in Nodes : Untouched(n) /\ Requests(n)' \subseteq Requests(n)
  BY <1>2, FramesOnce
<1>8. ~kept' => outcome' # "none"
  BY <1>2, <1>6 DEF FirstInv
<1> QED
  BY <1>1, <1>2, <1>5, <1>7, <1>8, QuietFirst

(* A sync is sent.                                                          *)
LEMMA SendSyncFirst ==
    ASSUME Inv, FirstInv, NEW n \in setting.members, SendSync(n)
    PROVE  FirstInv'
<1>1. PICK q : q = RequestFor(n)
  OBVIOUS
<1>2. /\ array' = array /\ epoch' = epoch /\ outcome' = outcome /\ kept' = kept
      /\ disk' = disk /\ run' = run /\ jobs' = jobs /\ sync' = sync
      /\ index' = index /\ late' = late /\ applying' = applying /\ applying = <<>>
      /\ calls' = [calls EXCEPT ![n] = Call("sent", q, NoAnswer)]
  BY <1>1 DEF SendSync, Leading, replicated, nodes, history
<1>3. /\ n \in Nodes /\ calls'[n].request = q
      /\ \A m \in Nodes : m # n => calls'[m] = calls[m]
  BY <1>2, LeaderTypes DEF Domains, Call
<1>4. /\ array \in ArrayState /\ array' \in ArrayState /\ Advances(array, array')
      /\ index \in Nat /\ epoch \in Nat /\ epoch <= epoch' /\ epoch' \in Nat
  BY <1>2, LeaderTypes, AdvancesSame
<1>5. \A m \in Nodes : NodeInv(m) /\ NodeShape(m) /\ FirstFits(m) /\ RequestsFit(m)
  BY DEF Inv, NodeInv, FirstInv, FirstFits
<1>6. Requests(n)' \subseteq Requests(n) \cup {q}
  BY <1>2, <1>3 DEF Requests
<1>7. \A m \in Nodes : m # n => Requests(m)' \subseteq Requests(m)
  BY <1>2, <1>3 DEF Requests
<1>8. ~kept => outcome # "none"
  BY DEF FirstInv
<1>9. WordsKept(n)
  BY <1>1, <1>2, <1>3, <1>5, <1>6, <1>8, SentWords
<1>10. \A m \in Nodes : WordsKept(m)
  BY <1>2, <1>4, <1>5, <1>7, <1>9, FewerWords
<1>11. \A m \in Nodes : Untouched(m)
  BY <1>2 DEF Untouched, SameSync
<1>12. \A m \in Nodes : FirstFits(m)'
  BY <1>4, <1>5, <1>10, <1>11, UntouchedFits
<1> QED
  BY <1>2, <1>8, <1>12 DEF FirstInv

(* A forced recovery.                                                       *)
LEMMA RecoverFirst ==
    ASSUME Inv, FirstInv, Recover
    PROVE  FirstInv'
<1>1. PICK arrive : Abandon(setting.members, arrive)
  BY DEF Recover
<1>2. epoch' = epoch + 1 /\ disk' = disk /\ run' = run /\ jobs' = jobs /\ kept'
  BY DEF Recover
<1>3. epoch \in Nat /\ epoch' \in Nat /\ epoch <= epoch'
  BY <1>2, LeaderTypes
<1>4. \A m \in Nodes : Untouched(m) /\ Requests(m)' \subseteq Requests(m)
  BY <1>1, <1>2, AbandonOnce DEF Untouched
<1>5. \A m \in Nodes : NodeInv(m) /\ NodeShape(m) /\ FirstFits(m) /\ RequestsFit(m)
  BY DEF Inv, NodeInv, FirstInv, FirstFits
<1>6. \A m \in Nodes : WordsKept(m)
  BY <1>2, <1>3, <1>4, <1>5, RecoveredWords
<1>7. \A m \in Nodes : FirstFits(m)'
  BY <1>3, <1>4, <1>5, <1>6, UntouchedFits
<1> QED
  BY <1>2, <1>7 DEF FirstInv

(* Initially.                                                               *)
LEMMA InitFirst ==
    ASSUME Init
    PROVE  FirstInv
<1>1. /\ kept = TRUE /\ epoch = 0
      /\ \A n \in Nodes : /\ disk[n] = FreshDisk /\ run[n] = NoRun /\ jobs[n] = {}
                          /\ sync[n] = NoSync /\ calls[n] = NoCall /\ late[n] = {}
  BY DEF Init
<1>2. ASSUME NEW n \in Nodes
      PROVE  FirstFits(n)
  <2> DEFINE d == disk[n]
             r == run[n]
             js == jobs[n]
  <2>1. Requests(n) = {}
    BY <1>1 DEF Requests
  <2>2. RequestsFit(n)
    BY <2>1 DEF RequestsFit
  <2>3. /\ d.control.epoch = 0 /\ d.dir.fence = NoFile /\ d.dir.ledger = [t \in Tasks |-> <<>>]
        /\ ~r.open /\ js = {} /\ sync[n].at # "marker"
    BY <1>1 DEF FreshDisk, EmptyDirectory, NoRun, NoSync
  <2>4. FilesFit(d)
    BY <2>3 DEF FilesFit
  <2>5. JobsFit(d, js) /\ AimsFit(n, d, r, sync[n])
    BY <2>3 DEF JobsFit, AimsFit
  <2>6. ASSUME NEW c \in Chunks
        PROVE  ChunkFits(n, c, d, r, js)
    <3>1. \A t \in ChunkRange(c) : t \in Tasks /\ DOMAIN d.dir.ledger[t] = {}
      BY <2>3 DEF ChunkRange
    <3>2. \A i \in 1 .. 2 : d.dir.fence.slots[i] = Torn
      BY <2>3 DEF NoFile
    <3>3. ~LaterOnDisk(c, d) /\ \A t \in ChunkRange(c) : ~Ran(d, t)
      BY <3>1, <3>2 DEF LaterOnDisk, Ran
    <3>4. ~HeardLater(c, d, r, js) /\ Fresh(c, d, r, js)
      BY <2>3, <3>3 DEF HeardLater, Fresh
    <3> QED
      BY <3>4 DEF ChunkFits
  <2>7. d.control.epoch <= epoch
    BY <1>1, <2>3
  <2> QED
    BY <2>2, <2>4, <2>5, <2>6, <2>7 DEF FirstFits, Fit
<1> QED
  BY <1>1, <1>2 DEF FirstInv

(* The steps of a sync.                                                     *)
LEMMA SyncStepsFirst ==
    ASSUME Inv, FirstInv, NEW n \in setting.members,
           \/ Receive(n) \/ ReceiveLate(n) \/ ControlChecked(n) \/ CleanupDone(n)
           \/ RunOpened(n) \/ FenceWritten(n) \/ MarkerClaimed(n)
           \/ DiskError(n) \/ DropSync(n) \/ OrphanEnds(n)
    PROVE  FirstInv'
<1>1. Domains /\ n \in Nodes /\ NodeInv(n) /\ FirstFits(n) /\ epoch \in Nat
  BY LeaderTypes DEF Inv, Domains, FirstInv
<1>2. StoreFrame
  <2>1. CASE Receive(n) \/ ReceiveLate(n)
    BY <2>1 DEF Receive, ReceiveLate, Begin, replicated, StoreFrame
  <2>2. CASE ControlChecked(n) \/ CleanupDone(n)
    BY <2>2 DEF ControlChecked, CleanupDone, Rest, replicated, StoreFrame
  <2>3. CASE RunOpened(n) \/ FenceWritten(n)
    BY <2>3 DEF RunOpened, FenceWritten, Rest, replicated, StoreFrame
  <2>4. CASE MarkerClaimed(n) \/ DiskError(n)
    BY <2>4 DEF MarkerClaimed, DiskError, Rest, replicated, StoreFrame
  <2>5. CASE DropSync(n) \/ OrphanEnds(n)
    BY <2>5 DEF DropSync, OrphanEnds, leader, replicated, StoreFrame
  <2> QED
    BY <2>1, <2>2, <2>3, <2>4, <2>5
<1>3. NodeKept(n)
  BY <1>1, ReceiveKeeps, ReceiveLateKeeps, ControlCheckedKeeps, CleanupDoneKeeps, RunOpenedKeeps,
     FenceWrittenKeeps, MarkerClaimedKeeps, DiskErrorKeeps, DropSyncKeeps, OrphanEndsKeeps
<1>4. FitsOn(n)
  BY <1>1, ReceiveFits, ControlCheckedFits, CleanupDoneFits, RunOpenedFits, FenceWrittenFits,
     MarkerClaimedFits, DiskErrorFits, DropSyncFits, OrphanEndsFits
<1> QED
  BY <1>1, <1>2, <1>3, <1>4, NodeStepFirst

(* The steps of a job.                                                      *)
LEMMA JobStepsFirst ==
    ASSUME Inv, FirstInv, NEW n \in setting.members, NEW j \in jobs[n],
           \/ \E t \in DOMAIN j.tasks : LaunchTask(n, j, t)
           \/ \E t \in DOMAIN j.tasks : \E o \in Ended : EndTask(n, j, t, o)
           \/ \E t \in DOMAIN j.tasks : LoseTask(n, j, t)
           \/ \E t \in DOMAIN j.tasks : AppendFails(n, j, t)
           \/ FinishChunk(n, j)
    PROVE  FirstInv'
<1>1. Domains /\ n \in Nodes /\ NodeInv(n) /\ FirstFits(n)
  BY LeaderTypes DEF Inv, Domains, FirstInv
<1>2. ASSUME NEW t \in DOMAIN j.tasks,
             LaunchTask(n, j, t) \/ LoseTask(n, j, t) \/ AppendFails(n, j, t)
      PROVE  FirstInv'
  <2>1. StoreFrame
    BY <1>2 DEF LaunchTask, LoseTask, AppendFails, leader, replicated, StoreFrame
  <2>2. NodeKept(n) /\ FitsOn(n)
    BY <1>1, <1>2, LaunchTaskKeeps, LoseTaskKeeps, AppendFailsKeeps, JobStepsFit
  <2> QED
    BY <1>1, <2>1, <2>2, NodeStepFirst
<1>3. ASSUME NEW t \in DOMAIN j.tasks, NEW o \in Ended, EndTask(n, j, t, o)
      PROVE  FirstInv'
  <2>1. StoreFrame
    BY <1>3 DEF EndTask, leader, replicated, StoreFrame
  <2>2. NodeKept(n) /\ FitsOn(n)
    BY <1>1, <1>3, EndTaskKeeps, EndTaskFits
  <2> QED
    BY <1>1, <2>1, <2>2, NodeStepFirst
<1>4. ASSUME FinishChunk(n, j)
      PROVE  FirstInv'
  <2>1. StoreFrame
    BY <1>4 DEF FinishChunk, leader, replicated, StoreFrame
  <2>2. NodeKept(n) /\ FitsOn(n)
    BY <1>1, <1>4, FinishChunkKeeps, FinishChunkFits
  <2> QED
    BY <1>1, <2>1, <2>2, NodeStepFirst
<1> QED
  BY <1>2, <1>3, <1>4

(* A crash and a restart.                                                   *)
LEMMA CrashesFirst ==
    ASSUME Inv, FirstInv, NEW n \in setting.members, Crash(n) \/ Restart(n)
    PROVE  FirstInv'
<1>1. Domains /\ n \in Nodes /\ NodeInv(n) /\ FirstFits(n) /\ epoch \in Nat
  BY LeaderTypes DEF Inv, Domains, FirstInv
<1>2. StoreFrame
  BY DEF Crash, Restart, replicated, leader, StoreFrame
<1>3. FitsOn(n)
  BY <1>1, CrashesFit
<1>4. NodeKept(n)
  <2>1. CASE Crash(n)
    BY <1>1, <2>1, CrashKeeps
  <2>2. CASE Restart(n)
    <3>1. /\ disk' = disk /\ run' = run /\ jobs' = jobs /\ sync' = sync /\ calls' = calls
          /\ late' = late /\ acted' = acted /\ setting' = setting
      BY <2>2 DEF Restart, leader, history
    <3>2. NodeInv(n)'
      BY <1>1, <3>1 DEF NodeInv, NodeShape, CallerWaits, ControlCovers, DirectoryIsCurrent,
         RunHasDirectory, JobsAreCurrent, FenceFits
    <3>3. Others(n) /\ Domains'
      BY <1>1, <3>1 DEF Others, Domains
    <3> QED
      BY <3>2, <3>3 DEF NodeKept
  <2> QED
    BY <2>1, <2>2
<1> QED
  BY <1>1, <1>2, <1>3, <1>4, NodeStepFirst

(* Every step keeps the invariant.                                          *)
LEMMA NextFirst ==
    ASSUME Inv, FirstInv, [Next]_vars
    PROVE  FirstInv'
<1>1. CASE Next
  <2>1. CASE ApplyWrite
    BY <2>1, ApplyWriteFirst
  <2>2. CASE \/ Commit \/ Cancel \/ Prune
             \/ \E n \in setting.members : AcknowledgeReplay(n)
    BY <2>2, StoreStepsFirst
  <2>3. CASE \E n \in setting.members : SendSync(n)
    BY <2>3, SendSyncFirst
  <2>4. CASE LeaderChange \/ \E n \in setting.members : TimeOut(n)
    BY <2>4, GivenUpFirst
  <2>5. CASE \E n \in setting.members : CallFails(n) \/ LoseLate(n)
    BY <2>5, CallsFirst
  <2>6. CASE \E silent, failing \in SUBSET setting.members : Tick(silent, failing)
    BY <2>6, CallsFirst
  <2>7. CASE Recover
    BY <2>7, RecoverFirst
  <2>8. CASE \E n \in setting.members :
               \/ Receive(n) \/ ReceiveLate(n) \/ ControlChecked(n) \/ CleanupDone(n)
               \/ RunOpened(n) \/ FenceWritten(n) \/ MarkerClaimed(n)
               \/ DiskError(n) \/ DropSync(n) \/ OrphanEnds(n)
    BY <2>8, SyncStepsFirst
  <2>9. CASE \E n \in setting.members : \E j \in jobs[n] :
               \/ \E t \in DOMAIN j.tasks : LaunchTask(n, j, t)
               \/ \E t \in DOMAIN j.tasks : \E o \in Ended : EndTask(n, j, t, o)
               \/ \E t \in DOMAIN j.tasks : LoseTask(n, j, t)
               \/ \E t \in DOMAIN j.tasks : AppendFails(n, j, t)
               \/ FinishChunk(n, j)
    BY <2>9, JobStepsFirst
  <2>10. CASE \E n \in setting.members : Crash(n) \/ Restart(n)
    BY <2>10, CrashesFirst
  <2> QED
    BY <1>1, <2>1, <2>2, <2>3, <2>4, <2>5, <2>6, <2>7, <2>8, <2>9, <2>10, Zenon DEF Next
<1>2. CASE UNCHANGED vars
  <2>1. /\ array' = array /\ epoch' = epoch /\ outcome' = outcome /\ kept' = kept
        /\ disk' = disk /\ run' = run /\ jobs' = jobs /\ sync' = sync
        /\ late' = late /\ calls' = calls /\ index' = index /\ applying' = applying
    BY <1>2 DEF vars, replicated, leader, nodes
  <2>2. \A n \in Nodes : Untouched(n) /\ Requests(n)' \subseteq Requests(n)
    BY <2>1, FramesOnce
  <2>3. array' \in ArrayState /\ Advances(array, array') /\ (~kept' => outcome' # "none")
    BY <2>1, LeaderTypes, AdvancesSame DEF FirstInv
  <2> QED
    BY <2>1, <2>2, <2>3, QuietFirst
<1> QED
  BY <1>1, <1>2

(* What the invariant says of a task that runs at its first attempt.        *)
LEMMA FirstResumes ==
    ASSUME Inv, FirstInv
    PROVE  FirstGrantsResume
<1> SUFFICES ASSUME NEW n \in Nodes, NEW j \in jobs[n], NEW t \in DOMAIN j.tasks,
                    j.tasks[t] = "running", j.attempt = 1, InLedger(n, j)
             PROVE  ~Ran(disk[n], t)
  BY DEF FirstGrantsResume, Ran
<1>1. NodeInv(n) /\ FirstFits(n)
  BY DEF Inv, FirstInv
<1>2. /\ j.chunk \in Chunks /\ j.epoch = disk[n].control.epoch
      /\ DOMAIN j.tasks = ChunkRange(j.chunk)
  BY <1>1 DEF NodeInv, NodeShape, JobShape, InLedger, DirectoryIsCurrent, FirstFits, Fit, JobsFit
<1>3. FirstJob(j.chunk, disk[n], j) /\ ChunkFits(n, j.chunk, disk[n], run[n], jobs[n])
  BY <1>1, <1>2 DEF FirstJob, JobOf, FirstFits, Fit
<1>4. OneWriter(j.chunk, disk[n], jobs[n])
  BY <1>3 DEF ChunkFits, Fresh, Begun
<1>5. j.tasks[t] \in Unfinished
  BY DEF Unfinished
<1> QED
  BY <1>2, <1>3, <1>4, <1>5 DEF OneWriter

(* "a restart replays the ledger and each held chunk runs only the tasks    *)
(* with no terminal record": a task that runs at a chunk's first grant has  *)
(* no outcome of it on disk, however often the chunk stops and starts over  *)
(* crashes, dropped handlers, stale or late requests, elections and forced  *)
(* recoveries.                                                              *)
THEOREM FirstGrantsDoResume == Spec => []FirstGrantsResume
<1>1. Init => FirstInv
  BY InitFirst
<1>2. Inv /\ FirstInv /\ [Next]_vars => FirstInv'
  BY NextFirst
<1>3. Inv /\ FirstInv => FirstGrantsResume
  BY FirstResumes
<1> QED
  BY <1>1, <1>2, <1>3, Invariant, PTL DEF Spec

=============================================================================
