-------------------------------- MODULE Swim --------------------------------
(***************************************************************************)
(* The gossip membership protocol of Mustard (src/mustard).                *)
(*                                                                         *)
(* Every node keeps a membership table (MembershipTable), a queue of       *)
(* updates still to piggyback (DisseminationQueue), and runs one probe     *)
(* cycle at a time: ping, wait, ask relays, wait, suspect.  Messages that  *)
(* arrive while it waits are handled in between.  Datagrams are lost,      *)
(* duplicated and reordered; processes crash and come back with            *)
(* incarnation 1 and an empty table.                                       *)
(*                                                                         *)
(* A handler that sends builds each datagram just before its own send, so  *)
(* the sends of a handler are kept in todo and made one Emit at a time;    *)
(* the node does nothing else until they are out.                          *)
(***************************************************************************)
EXTENDS Integers, Sequences, FiniteSets

CONSTANTS Node,         \* the processes
          Seeds,        \* Seeds[i]: the peers whose addresses i was given
          Broadcasts,   \* how often one queued update is piggybacked
          Scopes        \* the bounded clusters explored: see Scope

\* A cluster and the bounds of its behaviours.
Scope == [nodes : SUBSET Node,     \* its members
          inc : Nat \ {0},         \* the highest incarnation
          seq : [Node -> Nat],     \* the datagrams each node sends
          inFlight : Nat,          \* the datagrams in the network
          stops : Nat]             \* crashes and departures

ASSUME SwimAssumption ==
    /\ IsFiniteSet(Node)
    /\ Seeds \in [Node -> SUBSET Node]
    /\ Broadcasts \in Nat \ {0}
    /\ Scopes \subseteq Scope

VARIABLES
    status,    \* "up", "leaving" (leave() is sending) or "down"
    inc,       \* MustardNode::incarnation
    table,     \* MustardNode::membership: what i holds about j
    queue,     \* MustardNode::dissemination, one entry per subject
    probe,     \* the probe cycle i is in
    todo,      \* the datagrams the running handler still sends
    contacts,  \* MustardNode::rejoin_contacts
    pending,   \* MustardNode::pending_relays
    seen,      \* MustardNode::sequences
    seq,       \* next_sequence(), clock based: survives a restart
    net,       \* datagrams in flight
    minted,    \* history: the highest incarnation j ever gave itself
    stops,     \* history: crashes and departures so far
    scope      \* the scope of this behaviour, which never changes

nodeVars == <<status, inc, table, queue, probe, todo, contacts, pending, seen>>
vars == <<nodeVars, seq, net, minted, stops, scope>>

-----------------------------------------------------------------------------
(* NodeState and the membership table *)

States == {"alive", "suspect", "dead", "left"}
Absent == [st |-> "absent", inc |-> 0]
Claim  == [st : States, inc : Nat] \cup {Absent}
Is(s, n) == [st |-> s, inc |-> n]

Priority(s) == CASE s \in {"dead", "left"} -> 3
                 [] s = "suspect" -> 2
                 [] s = "alive"   -> 1
                 [] OTHER         -> 0

IsDown(s) == s \in {"dead", "left"}

\* resolve_conflict when Left won at any incarnation, as it once did.
ResolveConflictLeftWins(old, new) ==
    IF new.st = "left" THEN new ELSE IF old.st = "left" THEN old
    ELSE IF new.inc > old.inc \/ (new.inc = old.inc /\ Priority(new.st) >= Priority(old.st))
         THEN new ELSE old

ResolveConflict(old, new) ==
    IF new.st = "left" /\ new.inc >= old.inc THEN new
    ELSE IF old.st = "left" /\ old.inc >= new.inc THEN old
    ELSE IF new.inc > old.inc
            \/ (new.inc = old.inc /\ Priority(new.st) >= Priority(old.st))
         THEN new ELSE old

\* An update (Absent: none) about a member; an unknown one enters only alive.
ApplyUpdate(cur, upd) ==
    IF upd = Absent THEN cur
    ELSE IF cur = Absent THEN (IF upd.st = "alive" THEN upd ELSE Absent)
    ELSE ResolveConflict(cur, upd)

\* add_node that takes an equal incarnation for news.
AddNodeAgain(cur, n) ==
    IF cur = Absent THEN Is("alive", n)
    ELSE IF cur.st = "left" THEN cur
    ELSE IF n >= cur.inc THEN Is("alive", n) ELSE cur

\* The sender of a datagram is registered at the incarnation it carries.
AddNode(cur, n) ==
    IF cur = Absent THEN Is("alive", n)
    ELSE IF cur.st = "left" THEN cur
    ELSE IF n > cur.inc THEN Is("alive", n) ELSE cur

Alive(i)  == {j \in Node \ {i} : table[i][j].st = "alive"}

-----------------------------------------------------------------------------
(* The dissemination queue.  Selection takes every entry (all of them fit  *)
(* a datagram in an instance this size), discarding superseded ones, so    *)
(* only the best-ranked update about each subject is ever sent: the queue  *)
(* is a function from subject to that update and its remaining broadcasts. *)

NoEntry == [st |-> "absent", inc |-> 0, left |-> 0]
Entry   == [st : States, inc : Nat, left : 0..Broadcasts] \cup {NoEntry}
ClaimOf(e) == Is(e.st, e.inc)

Outranks(a, b) == \/ a.inc > b.inc
                  \/ a.inc = b.inc /\ Priority(a.st) > Priority(b.st)

\* push: dropped when a queued update outranks it, else it supersedes.
Push(e, c) == IF Outranks(e, c) THEN e
              ELSE [st |-> c.st, inc |-> c.inc, left |-> Broadcasts]

\* Decrements without dropping the entry at its last broadcast.
SpendOnly(e) == [st |-> e.st, inc |-> e.inc, left |-> e.left - 1]

Spend(e) == IF e.left <= 1 THEN NoEntry
            ELSE [st |-> e.st, inc |-> e.inc, left |-> e.left - 1]

-----------------------------------------------------------------------------
(* Datagrams *)

\* "sync" carries wants_reply, "reply" answers one.
Kinds == {"ping", "pingreq", "ack", "sync", "reply"}

\* A send a handler still has to make: to whom, what, which peer's claim
\* goes first (about), and the node a relay probes or vouches for (target).
Send == [kind : Kinds, dst : Node, about : SUBSET Node,
         target : SUBSET Node]

Message == [kind : Kinds, src : Node, dst : Node, seq : Nat, inc : Nat,
            upd : [Node -> Claim], target : SUBSET Node]

Ping(j, about)    == [kind |-> "ping", dst |-> j, about |-> about,
                      target |-> {}]
PingReq(r, j)     == [kind |-> "pingreq", dst |-> r, about |-> {},
                      target |-> {j}]
Ack(j, for)       == [kind |-> "ack", dst |-> j, about |-> {j},
                      target |-> for]
SyncTo(j, kind)   == [kind |-> kind, dst |-> j, about |-> {},
                      target |-> {}]

\* Every order in which a burst may address a set of nodes.
Orders(S) == {o \in [1..Cardinality(S) -> S] :
                \A k, l \in 1..Cardinality(S) : o[k] = o[l] => k = l}

\* probe_message: our claim about the addressed peer, then the queue.
\* send_membership: the whole table, the queue untouched.
Updates(i, s) ==
    IF s.kind \in {"sync", "reply"} THEN table[i]
    ELSE [j \in Node |->
            IF j \in s.about /\ table[i][j].st \in {"suspect", "dead", "left"}
            THEN table[i][j] ELSE ClaimOf(queue[i][j])]

-----------------------------------------------------------------------------
NoProbe == [target |-> {}, stage |-> "idle"]
Idle(i) == status[i] = "up" /\ todo[i] = <<>>

Fresh(i) == [j \in Node |-> IF j = i THEN Is("alive", 1) ELSE Absent]

\* A cluster that has joined and whose queues have drained; nodes that are
\* not of it are down.
Init ==
    /\ scope \in Scopes
    /\ status = [i \in Node |-> IF i \in scope.nodes THEN "up" ELSE "down"]
    /\ table = [i \in Node |-> [j \in Node |->
                  IF i = j \/ {i, j} \subseteq scope.nodes THEN Is("alive", 1) ELSE Absent]]
    /\ contacts = [i \in Node |-> IF i \in scope.nodes THEN scope.nodes \ {i} ELSE {}]
    /\ inc = [i \in Node |-> 1]
    /\ queue = [i \in Node |-> [j \in Node |-> NoEntry]]
    /\ probe = [i \in Node |-> NoProbe]
    /\ todo = [i \in Node |-> <<>>]
    /\ pending = [i \in Node |-> {}]
    /\ seen = [i \in Node |-> [j \in Node |-> 0]]
    /\ seq = [i \in Node |-> 0]
    /\ net = {}
    /\ minted = [i \in Node |-> 1]
    /\ stops = 0

\* A step that would leave the behaviour's scope is not taken.
InBounds ==
    /\ \A i \in Node : inc'[i] <= scope.inc /\ seq'[i] + Len(todo'[i]) <= scope.seq[i]
    /\ Cardinality(net') <= scope.inFlight
    /\ stops' <= scope.stops
    /\ \A i \in Node \ scope.nodes : status'[i] = "down"
    /\ UNCHANGED scope

-----------------------------------------------------------------------------
(* The probe cycle *)

\* An explicit departure retires a contact; a failure does not.
Kept(i) == {c \in contacts[i] : table[i][c].st # "left"}

\* promote_expired_suspects, then reap_expired_dead.
Swept(i, expired, reaped) ==
    [j \in Node |-> IF j \in reaped THEN Absent
                    ELSE IF j \in expired THEN Is("dead", table[i][j].inc)
                    ELSE table[i][j]]

\* ping_rejoin_contact: one retained contact, unless it is Alive.
RejoinPings(i, view) ==
    IF Kept(i) = {} THEN {<<>>}
    ELSE {IF view[c].st = "alive" THEN <<>> ELSE <<Ping(c, {c})>> : c \in Kept(i)}

\* push_pull with one live peer, when due.
Syncs(i, view, due) ==
    LET peers == {j \in Node \ {i} : view[j].st = "alive"}
    IN  IF due /\ peers # {} THEN {<<SyncTo(j, "sync")>> : j \in peers} ELSE {<<>>}

\* run_one_cycle up to its first wait, given what has timed out.
CycleWith(i, expired, reaped, due) ==
    LET view == Swept(i, expired, reaped)
        active == {j \in Node \ {i} : view[j].st \in {"alive", "suspect"}}
    IN
    /\ contacts' = [contacts EXCEPT ![i] = Kept(i)]
    /\ table' = [table EXCEPT ![i] = view]
    /\ queue' = [queue EXCEPT ![i] = [j \in Node |->
                    IF j \in expired THEN Push(queue[i][j], view[j]) ELSE queue[i][j]]]
    /\ seen' = [seen EXCEPT ![i] = [j \in Node |->
                    IF j \in reaped THEN 0 ELSE seen[i][j]]]
    /\ \E r \in RejoinPings(i, view), s \in Syncs(i, view, due) :
         \/ /\ active = {}
            /\ probe' = probe
            /\ \E o \in Orders(Seeds[i] \ {i}) :
                 todo' = [todo EXCEPT ![i] = r \o s \o
                            [k \in DOMAIN o |-> Ping(o[k], {o[k]})]]
         \/ \E t \in active :
            /\ probe' = [probe EXCEPT ![i] = [target |-> {t}, stage |-> "direct"]]
            /\ todo' = [todo EXCEPT ![i] = r \o s \o <<Ping(t, {})>>]

\* Timeouts are choices: which suspects expired, which down members are due
\* for reaping, whether a push-pull is due.
Cycle(i) ==
    /\ Idle(i)
    /\ probe[i] = NoProbe
    /\ \E expired \in SUBSET {j \in Node \ {i} : table[i][j].st = "suspect"},
          reaped \in SUBSET {j \in Node : IsDown(table[i][j].st)},
          due \in BOOLEAN : CycleWith(i, expired, reaped, due)
    /\ UNCHANGED <<status, inc, pending, seq, net, minted, stops>>
    /\ InBounds

\* The direct wait ran out: ask the chosen relays, then wait again.
AskRelays(i) ==
    /\ Idle(i)
    /\ probe[i].stage = "direct"
    /\ \E relays \in SUBSET (Alive(i) \ probe[i].target), t \in probe[i].target :
         \E o \in Orders(relays) :
           todo' = [todo EXCEPT ![i] = [k \in DOMAIN o |-> PingReq(o[k], t)]]
    /\ probe' = [probe EXCEPT ![i] =
                   [target |-> probe[i].target, stage |-> "indirect"]]
    /\ UNCHANGED <<status, inc, table, queue, contacts, pending, seen,
                   seq, net, minted, stops>>
    /\ InBounds

\* The prober's own incarnation in place of the target's.
ProbersIncarnation(i, t) == inc[i]

\* membership_incarnation_of: what i holds as t's incarnation.
IncarnationOf(i, t) == table[i][t].inc

\* The second wait ran out: a member still Alive becomes Suspect, at the
\* target's incarnation.
SuspectTarget(i) ==
    /\ Idle(i)
    /\ probe[i].stage = "indirect"
    /\ \E t \in probe[i].target :
         IF table[i][t].st = "alive"
         THEN /\ table' = [table EXCEPT ![i][t] = Is("suspect", table[i][t].inc)]
              /\ queue' = [queue EXCEPT ![i][t] =
                             Push(queue[i][t], Is("suspect", IncarnationOf(i, t)))]
         ELSE UNCHANGED <<table, queue>>
    /\ probe' = [probe EXCEPT ![i] = NoProbe]
    /\ UNCHANGED <<status, inc, todo, contacts, pending, seen,
                   seq, net, minted, stops>>
    /\ InBounds

\* The next datagram of the running handler leaves; leave() ends the process.
Emit(i) ==
    /\ status[i] # "down"
    /\ todo[i] # <<>>
    /\ LET s == Head(todo[i]) IN
         /\ net' = net \cup
              {[kind |-> s.kind, src |-> i, dst |-> s.dst, seq |-> seq[i] + 1,
                inc |-> inc[i], upd |-> Updates(i, s),
                target |-> s.target]}
         /\ queue' = IF s.kind \in {"sync", "reply"} THEN queue
                     ELSE [queue EXCEPT ![i] = [j \in Node |-> Spend(queue[i][j])]]
    /\ seq' = [seq EXCEPT ![i] = @ + 1]
    /\ todo' = [todo EXCEPT ![i] = Tail(@)]
    /\ UNCHANGED <<status, inc, table, probe, contacts, pending, seen,
                   minted, stops>>
    /\ InBounds

-----------------------------------------------------------------------------
(* handle_message *)

\* Whether a claim about the receiver itself has to be refuted.
Refutable(i, c) == c.st \in {"suspect", "dead"} \/ (c.st = "left" /\ status[i] # "leaving")

Larger(a, b) == IF a > b THEN a ELSE b

\* The incarnation after handling claim c about ourselves.
Refute(i, c) == IF Refutable(i, c) THEN Larger(inc[i], c.inc) + 1 ELSE inc[i]

\* The table once the sender is registered, and once the updates are applied.
Added(i, m) == [table[i] EXCEPT ![m.src] = AddNode(@, m.inc)]
Told(i, m)  == [j \in Node |-> ApplyUpdate(Added(i, m)[j], m.upd[j])]

\* ... and our own refutation.
Merged(i, m) ==
    [Told(i, m) EXCEPT ![i] =
        IF Refutable(i, m.upd[i])
        THEN ApplyUpdate(@, Is("alive", Refute(i, m.upd[i]))) ELSE @]

\* What the handling re-disseminates about j: a new sender, an update that
\* changed the table, our refutation.
Requeued(i, m, j) ==
    LET new  == IF j = m.src /\ table[i][j] = Absent
                THEN Push(queue[i][j], Is("alive", m.inc)) ELSE queue[i][j]
        told == IF Told(i, m)[j] # Added(i, m)[j] THEN Push(new, m.upd[j]) ELSE new
    IN  IF j = i /\ Refutable(i, m.upd[i])
        THEN Push(told, Is("alive", Refute(i, m.upd[i]))) ELSE told

\* The node an ACK vouches for: the probed one when relayed, else its sender.
Acknowledged(m) == IF m.target = {} THEN m.src ELSE CHOOSE t \in m.target : TRUE

Acked(view, j) == IF view[j].st = "suspect"
                  THEN [view EXCEPT ![j] = Is("alive", view[j].inc)] ELSE view

\* Common to every accepted datagram; view is the table it leaves.
Accept(i, m, view) ==
    /\ table' = [table EXCEPT ![i] = view]
    /\ queue' = [queue EXCEPT ![i] = [j \in Node |-> Requeued(i, m, j)]]
    /\ inc' = [inc EXCEPT ![i] = Refute(i, m.upd[i])]
    /\ minted' = [minted EXCEPT ![i] = Larger(@, Refute(i, m.upd[i]))]
    /\ seen' = [seen EXCEPT ![i][m.src] = m.seq]
    /\ contacts' = [contacts EXCEPT ![i] = @ \cup {m.src}]
    /\ UNCHANGED <<status, seq, stops>>

Fresher(i, m) == m.seq > seen[i][m.src]

\* A datagram is delivered once, or again later.
Consume(m) == net' = net \ {m} \/ net' = net

Arrives(i, m) == Idle(i) /\ m.dst = i

HandlePing(i, m) ==
    /\ Arrives(i, m) /\ m.kind = "ping" /\ Fresher(i, m)
    /\ Accept(i, m, Merged(i, m))
    /\ todo' = [todo EXCEPT ![i] = <<Ack(m.src, {})>>]
    /\ Consume(m)
    /\ UNCHANGED <<probe, pending>>
    /\ InBounds

\* A relay pings the target and remembers whom to tell; it does not wait.
HandlePingReq(i, m) ==
    /\ Arrives(i, m) /\ m.kind = "pingreq" /\ Fresher(i, m)
    /\ LET view == Merged(i, m)
           known == {t \in m.target : view[t] # Absent}
       IN /\ Accept(i, m, view)
          /\ \E o \in Orders(known) :
               todo' = [todo EXCEPT ![i] = [k \in DOMAIN o |-> Ping(o[k], {})]]
          /\ pending' = [pending EXCEPT ![i] =
                @ \cup {[target |-> t, requester |-> m.src] : t \in known}]
    /\ Consume(m)
    /\ UNCHANGED probe
    /\ InBounds

HandleSync(i, m) ==
    /\ Arrives(i, m) /\ m.kind \in {"sync", "reply"} /\ Fresher(i, m)
    /\ Accept(i, m, Merged(i, m))
    /\ todo' = [todo EXCEPT ![i] = IF m.kind = "sync" THEN <<SyncTo(m.src, "reply")>> ELSE <<>>]
    /\ Consume(m)
    /\ UNCHANGED <<probe, pending>>
    /\ InBounds

\* Clears a suspicion of the acknowledged node, forwards a direct ACK to the
\* requesters whose relay has not expired, and ends a probe waiting for it.
HandleAck(i, m) ==
    /\ Arrives(i, m) /\ m.kind = "ack" /\ Fresher(i, m)
    /\ LET view == Acked(Merged(i, m), Acknowledged(m))
           asked == IF m.target = {} THEN {p \in pending[i] : p.target = m.src} ELSE {}
       IN /\ Accept(i, m, view)
          /\ pending' = [pending EXCEPT ![i] = @ \ asked]
          /\ \E live \in SUBSET asked :
               \E o \in Orders({j \in Node : /\ \E p \in live : p.requester = j
                                            /\ view[j] # Absent}) :
                 todo' = [todo EXCEPT ![i] =
                            [k \in DOMAIN o |-> Ack(o[k], {m.src})]]
          /\ probe' = [probe EXCEPT ![i] =
                         IF Acknowledged(m) \in @.target THEN NoProbe ELSE @]
    /\ Consume(m)
    /\ InBounds

\* A replay or duplicate: dropped unread.
DropStale(i, m) ==
    /\ Arrives(i, m) /\ ~Fresher(i, m)
    /\ net' = net \ {m}
    /\ UNCHANGED <<nodeVars, seq, minted, stops>>
    /\ InBounds

-----------------------------------------------------------------------------
(* Departure, crash, start, loss *)

\* leave(): taken between two cycles, then the process is gone.
Leave(i) ==
    /\ Idle(i)
    /\ probe[i] = NoProbe
    /\ status' = [status EXCEPT ![i] = "leaving"]
    /\ table' = [table EXCEPT ![i][i] =
                   IF table[i][i] = Absent THEN Absent ELSE Is("left", table[i][i].inc)]
    /\ queue' = [queue EXCEPT ![i][i] = Push(queue[i][i], Is("left", inc[i]))]
    /\ \E o \in Orders(Alive(i)) :
         todo' = [todo EXCEPT ![i] = [k \in DOMAIN o |-> Ping(o[k], {})]]
    /\ stops' = stops + 1
    /\ UNCHANGED <<inc, probe, contacts, pending, seen, seq, net, minted>>
    /\ InBounds

\* The process is gone with everything it held in memory.
Stopped(i) ==
    /\ status' = [status EXCEPT ![i] = "down"]
    /\ inc' = [inc EXCEPT ![i] = 1]
    /\ table' = [table EXCEPT ![i] = Fresh(i)]
    /\ queue' = [queue EXCEPT ![i] = [j \in Node |-> NoEntry]]
    /\ probe' = [probe EXCEPT ![i] = NoProbe]
    /\ todo' = [todo EXCEPT ![i] = <<>>]
    /\ contacts' = [contacts EXCEPT ![i] = {}]
    /\ pending' = [pending EXCEPT ![i] = {}]
    /\ seen' = [seen EXCEPT ![i] = [j \in Node |-> 0]]
    /\ UNCHANGED <<seq, net, minted>>

Crash(i) == status[i] = "up" /\ Stopped(i) /\ stops' = stops + 1 /\ InBounds

Left(i) == status[i] = "leaving" /\ todo[i] = <<>> /\ Stopped(i) /\ UNCHANGED stops /\ InBounds

\* MustardNode::new: incarnation 1, a table of one, nothing remembered.
Start(i) ==
    /\ status[i] = "down"
    /\ status' = [status EXCEPT ![i] = "up"]
    /\ UNCHANGED <<inc, table, queue, probe, todo, contacts, pending, seen,
                   seq, net, minted, stops>>
    /\ InBounds

Lose(m) ==
    /\ net' = net \ {m}
    /\ UNCHANGED <<nodeVars, seq, minted, stops>>
    /\ InBounds

-----------------------------------------------------------------------------
Next ==
    \/ \E i \in Node : \/ Cycle(i) \/ AskRelays(i) \/ SuspectTarget(i) \/ Emit(i)
                       \/ Leave(i) \/ Crash(i) \/ Left(i) \/ Start(i)
    \/ \E m \in net : HandlePing(m.dst, m)
    \/ \E m \in net : HandlePingReq(m.dst, m)
    \/ \E m \in net : HandleSync(m.dst, m)
    \/ \E m \in net : HandleAck(m.dst, m)
    \/ \E m \in net : DropStale(m.dst, m)
    \/ \E m \in net : Lose(m)

Spec == Init /\ [][Next]_vars

-----------------------------------------------------------------------------
(* Properties *)

\* Every variable has its type.
TypeOK ==
    /\ status \in [Node -> {"up", "leaving", "down"}]
    /\ inc \in [Node -> Nat]
    /\ table \in [Node -> [Node -> Claim]]
    /\ queue \in [Node -> [Node -> Entry]]
    /\ probe \in [Node -> [target : SUBSET Node, stage : {"idle", "direct", "indirect"}]]
    /\ todo \in [Node -> Seq(Send)]
    /\ contacts \in [Node -> SUBSET Node]
    /\ pending \in [Node -> SUBSET [target : Node, requester : Node]]
    /\ seen \in [Node -> [Node -> Nat]]
    /\ seq \in [Node -> Nat]
    /\ net \subseteq Message
    /\ minted \in [Node -> Nat]
    /\ stops \in Nat

\* Only a node mints its own incarnations: no table entry, queued update or
\* datagram anywhere, through any relay, restart or replay, carries an
\* incarnation of j above the highest j ever gave itself.  What refute()
\* relies on ("peers can't mint our incarnation numbers", handle_message).
NoForgedIncarnation ==
    /\ \A i \in Node : inc[i] <= minted[i]
    /\ \A i, j \in Node : /\ table[i][j].inc <= minted[j]
                          /\ queue[i][j].inc <= minted[j]
    /\ \A m \in net : /\ m.inc <= minted[m.src]
                      /\ \A j \in Node : m.upd[j].inc <= minted[j]

\* A running node never holds itself Suspect, Dead or Left, whatever its
\* peers claim and however often it restarted: refute() reaches its own
\* record and jumps past the offending incarnation in one step.
OwnRecordAlive ==
    \A i \in Node : status[i] = "up" =>
        table[i][i].st = "alive" /\ table[i][i].inc >= inc[i]

\* The precedence SWIM promises: incarnation, then alive < suspect < dead < left.
Severity == [absent |-> 0, alive |-> 1, suspect |-> 2, dead |-> 3, left |-> 4]
Beats(a, b) == \/ a.inc > b.inc
               \/ a.inc = b.inc /\ Severity[a.st] > Severity[b.st]

\* A running node's opinion of a member only moves up that order.  The
\* exceptions are the ones the protocol names: a down member is reaped, and
\* an ACK clears a suspicion at the same incarnation.
OpinionAdvances ==
    \A i, j \in Node :
        LET old == table[i][j]  new == table'[i][j] IN
        status[i] = "up" /\ status'[i] = "up" =>
            \/ new = old
            \/ Beats(new, old)
            \/ new = Absent /\ IsDown(old.st)
            \/ old.st = "suspect" /\ new = Is("alive", old.inc)
OpinionsOnlyAdvance == [][OpinionAdvances]_vars
=============================================================================
