---------------------------- MODULE SwimProofs ----------------------------
(***************************************************************************)
(* Proofs about Swim for every cluster, seed list and bound.               *)
(***************************************************************************)
EXTENDS Swim, FiniteSetTheorems, SequenceTheorems, TLAPS

(* A claim is Absent exactly when it says nothing, and a stated one has a  *)
(* state and an incarnation.                                               *)
LEMMA ClaimFields ==
    ASSUME NEW c \in Claim
    PROVE  /\ c.st \in States \cup {"absent"} /\ c.inc \in Nat
           /\ c = [st |-> c.st, inc |-> c.inc]
           /\ c.st = "absent" <=> c = Absent
           /\ Absent.st = "absent" /\ Absent.inc = 0 /\ Absent \in Claim
<1>1. Absent.st = "absent" /\ Absent.inc = 0 /\ Absent = [st |-> "absent", inc |-> 0]
  BY DEF Absent
<1>2. CASE c \in [st : States, inc : Nat]
  BY <1>1, <1>2 DEF Claim, States
<1>3. CASE c = Absent
  BY <1>1, <1>3 DEF Claim
<1> QED
  BY <1>2, <1>3 DEF Claim

(* A statement about a member is a claim.                                  *)
LEMMA Statements ==
    ASSUME NEW s \in States, NEW n \in Nat
    PROVE  /\ Is(s, n) \in Claim /\ Is(s, n) # Absent
           /\ Is(s, n).st = s /\ Is(s, n).inc = n
<1>1. Is(s, n).st = s /\ Is(s, n).inc = n /\ Is(s, n) \in [st : States, inc : Nat]
  BY DEF Is
<1>2. Is(s, n) # Absent
  BY <1>1 DEF Absent, States
<1> QED
  BY <1>1, <1>2 DEF Claim

(* resolve_conflict, apply_update and add_node keep claims claims.         *)
LEMMA ClaimTypes ==
    ASSUME NEW c \in Claim, NEW u \in Claim, NEW n \in Nat
    PROVE  /\ Absent \in Claim
           /\ ResolveConflict(c, u) \in {c, u}
           /\ ApplyUpdate(c, u) \in {c, u, Absent}
           /\ AddNode(c, n) \in {c, Is("alive", n)}
           /\ Is("alive", n) \in Claim
<1>1. Absent \in Claim /\ Is("alive", n) \in Claim
  BY ClaimFields, Statements DEF States
<1> QED
  BY <1>1 DEF ResolveConflict, ApplyUpdate, AddNode

(* The queue's operators keep entries entries, and neither invents an      *)
(* incarnation.                                                            *)
LEMMA EntryTypes ==
    ASSUME NEW e \in Entry, NEW c \in Claim
    PROVE  /\ NoEntry \in Entry
           /\ e.inc \in Nat
           /\ c # Absent => Push(e, c) \in Entry
           /\ Push(e, c).inc \in {e.inc, c.inc}
           /\ Spend(e) \in Entry
           /\ Spend(e).inc \in {e.inc, 0}
           /\ ClaimOf(e) \in Claim
           /\ ClaimOf(e).inc = e.inc
<1>1. /\ NoEntry \in Entry /\ NoEntry.inc = 0 /\ NoEntry.left = 0
      /\ NoEntry.st = "absent"
  BY DEF Entry, NoEntry
<1>2. e = NoEntry \/ e \in [st : States, inc : Nat, left : 0..Broadcasts]
  BY DEF Entry
<1>3. e.inc \in Nat /\ e.left \in 0..Broadcasts
  BY <1>1, <1>2, SwimAssumption
<1>4. c # Absent => c.st \in States /\ c.inc \in Nat
  BY ClaimFields
<1>5. c # Absent => Push(e, c) \in Entry
  BY <1>4, SwimAssumption DEF Push, Entry
<1>6. Push(e, c).inc \in {e.inc, c.inc}
  BY DEF Push
<1>7. Spend(e) \in Entry /\ Spend(e).inc \in {e.inc, 0}
  <2>1. CASE e.left <= 1
    BY <1>1, <2>1 DEF Spend
  <2>2. CASE e.left > 1
    <3>1. /\ Spend(e) = [st |-> e.st, inc |-> e.inc, left |-> e.left - 1]
          /\ e \in [st : States, inc : Nat, left : 0..Broadcasts]
      BY <1>1, <1>2, <1>3, <2>2, SwimAssumption DEF Spend
    <3>2. e.left - 1 \in 0..Broadcasts
      BY <1>3, <2>2, SwimAssumption
    <3> QED
      BY <3>1, <3>2 DEF Entry
  <2> QED
    BY <1>3, <2>1, <2>2, SwimAssumption
<1>8. ClaimOf(e) \in Claim /\ ClaimOf(e).inc = e.inc
  <2>1. CASE e = NoEntry
    <3>1. Is("absent", 0) = Absent
      BY DEF Is, Absent
    <3> QED
      BY <1>1, <2>1, <3>1, ClaimFields DEF ClaimOf, Is
  <2>2. CASE e \in [st : States, inc : Nat, left : 0..Broadcasts]
    BY <2>2, Statements DEF ClaimOf
  <2> QED
    BY <1>2, <2>1, <2>2
<1> QED
  BY <1>1, <1>3, <1>5, <1>6, <1>7, <1>8

(* A burst to a set of nodes is a finite sequence of sends.                *)
LEMMA OrdersType ==
    ASSUME NEW S \in SUBSET Node, NEW o \in Orders(S)
    PROVE  /\ \E n \in Nat : DOMAIN o = 1..n
           /\ \A k \in DOMAIN o : o[k] \in Node
<1>1. IsFiniteSet(S)
  BY SwimAssumption, FS_Subset
<1>2. Cardinality(S) \in Nat
  BY <1>1, FS_CardinalityType
<1> QED
  BY <1>2 DEF Orders

(* What an accepted datagram makes of the receiver's table, queue and own  *)
(* incarnation has the right type.                                         *)
LEMMA HandlingTypes ==
    ASSUME TypeOK, NEW i \in Node, NEW m \in Message
    PROVE  /\ Refute(i, m.upd[i]) \in Nat
           /\ Refute(i, m.upd[i]) >= inc[i]
           /\ Added(i, m) \in [Node -> Claim]
           /\ Told(i, m) \in [Node -> Claim]
           /\ Merged(i, m) \in [Node -> Claim]
           /\ \A j \in Node : Requeued(i, m, j) \in Entry
<1>1. /\ m.src \in Node /\ m.inc \in Nat /\ m.upd \in [Node -> Claim]
      /\ table[i] \in [Node -> Claim] /\ queue[i] \in [Node -> Entry]
      /\ inc[i] \in Nat
  BY DEF TypeOK, Message
<1>2. m.upd[i] \in Claim /\ m.upd[i].inc \in Nat
  BY <1>1, ClaimFields
<1>3. /\ Refute(i, m.upd[i]) \in Nat
      /\ Refute(i, m.upd[i]) >= inc[i]
  BY <1>1, <1>2 DEF Refute, Larger
<1>4. Added(i, m) \in [Node -> Claim]
  BY <1>1, ClaimTypes DEF Added
<1>5. Told(i, m) \in [Node -> Claim]
  BY <1>1, <1>4, ClaimTypes DEF Told
<1>6. Merged(i, m) \in [Node -> Claim]
  BY <1>3, <1>5, ClaimTypes DEF Merged
<1>7. ASSUME NEW j \in Node
      PROVE  Requeued(i, m, j) \in Entry
  <2> DEFINE new == IF j = m.src /\ table[i][j] = Absent
                    THEN Push(queue[i][j], Is("alive", m.inc)) ELSE queue[i][j]
             told == IF Told(i, m)[j] # Added(i, m)[j]
                     THEN Push(new, m.upd[j]) ELSE new
  <2>0. /\ Is("alive", m.inc) \in Claim /\ Is("alive", m.inc) # Absent
        /\ queue[i][j] \in Entry /\ m.upd[j] \in Claim
    BY <1>1, Statements DEF States
  <2>1. new \in Entry
    BY <2>0, EntryTypes
  <2> HIDE DEF new
  <2>6. Told(i, m)[j] # Added(i, m)[j] => m.upd[j] # Absent
    BY DEF Told, ApplyUpdate
  <2>2. told \in Entry
    BY <2>0, <2>1, <2>6, EntryTypes
  <2> HIDE DEF told
  <2>4. /\ Is("alive", Refute(i, m.upd[i])) \in Claim
        /\ Is("alive", Refute(i, m.upd[i])) # Absent
    BY <1>3, Statements DEF States
  <2>5. Push(told, Is("alive", Refute(i, m.upd[i]))) \in Entry
    BY <2>2, <2>4, EntryTypes
  <2>3. (IF j = i /\ Refutable(i, m.upd[i])
         THEN Push(told, Is("alive", Refute(i, m.upd[i]))) ELSE told) \in Entry
    BY <2>2, <2>5
  <2> QED
    BY <2>3, Zenon DEF Requeued, new, told
<1> QED
  BY <1>3, <1>4, <1>5, <1>6, <1>7

(* The part of the type invariant every accepted datagram re-establishes.  *)
LEMMA AcceptTypes ==
    ASSUME TypeOK, NEW i \in Node, NEW m \in Message,
           NEW view \in [Node -> Claim], Accept(i, m, view)
    PROVE  /\ status' \in [Node -> {"up", "leaving", "down"}]
           /\ inc' \in [Node -> Nat]
           /\ table' \in [Node -> [Node -> Claim]]
           /\ queue' \in [Node -> [Node -> Entry]]
           /\ contacts' \in [Node -> SUBSET Node]
           /\ seen' \in [Node -> [Node -> Nat]]
           /\ seq' \in [Node -> Nat]
           /\ minted' \in [Node -> Nat]
           /\ stops' \in Nat
<1>1. m.src \in Node /\ m.seq \in Nat
  BY DEF Message
<1>2. /\ Refute(i, m.upd[i]) \in Nat
      /\ \A j \in Node : Requeued(i, m, j) \in Entry
  BY HandlingTypes
<1>3. Larger(minted[i], Refute(i, m.upd[i])) \in Nat
  BY <1>2 DEF Larger, TypeOK
<1> QED
  BY <1>1, <1>2, <1>3 DEF Accept, TypeOK

(* A burst of pings, relay requests or forwarded ACKs is a sequence.       *)
LEMMA BurstTypes ==
    ASSUME NEW S \in SUBSET Node, NEW o \in Orders(S), NEW t \in Node
    PROVE  /\ [k \in DOMAIN o |-> Ping(o[k], {})] \in Seq(Send)
           /\ [k \in DOMAIN o |-> Ping(o[k], {o[k]})] \in Seq(Send)
           /\ [k \in DOMAIN o |-> PingReq(o[k], t)] \in Seq(Send)
           /\ [k \in DOMAIN o |-> Ack(o[k], {t})] \in Seq(Send)
<1>1. PICK n \in Nat : DOMAIN o = 1..n
  BY OrdersType
<1>2. \A k \in 1..n : o[k] \in Node
  BY <1>1, OrdersType
<1>3. \A k \in 1..n : /\ Ping(o[k], {}) \in Send /\ Ping(o[k], {o[k]}) \in Send
                      /\ PingReq(o[k], t) \in Send /\ Ack(o[k], {t}) \in Send
  BY <1>2 DEF Ping, PingReq, Ack, Send, Kinds
<1>4. /\ [k \in 1..n |-> Ping(o[k], {})] \in [1..n -> Send]
      /\ [k \in 1..n |-> Ping(o[k], {o[k]})] \in [1..n -> Send]
      /\ [k \in 1..n |-> PingReq(o[k], t)] \in [1..n -> Send]
      /\ [k \in 1..n |-> Ack(o[k], {t})] \in [1..n -> Send]
  BY <1>3
<1>5. [1..n -> Send] \subseteq Seq(Send)
  BY SeqDef
<1> QED
  BY <1>1, <1>4, <1>5

(* The single sends of the handlers.                                       *)
LEMMA SingleTypes ==
    ASSUME NEW j \in Node
    PROVE  /\ <<Ping(j, {})>> \in Seq(Send) /\ <<Ping(j, {j})>> \in Seq(Send)
           /\ <<Ack(j, {})>> \in Seq(Send)
           /\ <<SyncTo(j, "sync")>> \in Seq(Send) /\ <<SyncTo(j, "reply")>> \in Seq(Send)
<1>1. /\ Ping(j, {}) \in Send /\ Ping(j, {j}) \in Send /\ Ack(j, {}) \in Send
      /\ SyncTo(j, "sync") \in Send /\ SyncTo(j, "reply") \in Send
  BY DEF Ping, Ack, SyncTo, Send, Kinds
<1> QED
  BY <1>1

(* Every step keeps the types.                                             *)
LEMMA TypeStep == TypeOK /\ [Next]_vars => TypeOK'
<1> SUFFICES ASSUME TypeOK, [Next]_vars PROVE TypeOK'
  OBVIOUS
<1>1. ASSUME NEW i \in Node, Cycle(i) PROVE TypeOK'
  <2>1. PICK expired \in SUBSET {j \in Node \ {i} : table[i][j].st = "suspect"},
             reaped \in SUBSET {j \in Node : IsDown(table[i][j].st)},
             due \in BOOLEAN : CycleWith(i, expired, reaped, due)
    BY <1>1 DEF Cycle
  <2> DEFINE view == Swept(i, expired, reaped)
  <2>2. view \in [Node -> Claim]
    BY DEF Swept, Claim, States, Is, Absent, TypeOK
  <2>3. /\ table' \in [Node -> [Node -> Claim]]
        /\ contacts' \in [Node -> SUBSET Node]
        /\ seen' \in [Node -> [Node -> Nat]]
    <3>1. /\ table' = [table EXCEPT ![i] = view]
          /\ contacts' = [contacts EXCEPT ![i] = Kept(i)]
          /\ seen' = [seen EXCEPT ![i] = [j \in Node |->
                        IF j \in reaped THEN 0 ELSE seen[i][j]]]
      BY <2>1, Zenon DEF CycleWith
    <3>2. Kept(i) \subseteq Node
      BY DEF Kept, TypeOK
    <3> HIDE DEF view
    <3> QED
      BY <2>2, <3>1, <3>2 DEF TypeOK
  <2>4. queue' \in [Node -> [Node -> Entry]]
    <3>1. ASSUME NEW j \in Node
          PROVE  /\ queue[i][j] \in Entry
                 /\ j \in expired => Push(queue[i][j], view[j]) \in Entry
      <4>1. queue[i][j] \in Entry /\ view[j] \in Claim
        BY <2>2 DEF TypeOK
      <4>2. ASSUME j \in expired PROVE view[j] # Absent
        <5>1. table[i][j].st = "suspect" /\ table[i][j].inc \in Nat
          BY <4>2, ClaimFields DEF TypeOK
        <5>2. view[j] = Is("dead", table[i][j].inc)
          BY <4>2, <5>1 DEF Swept, IsDown
        <5> QED
          BY <5>1, <5>2, Statements DEF States
      <4> QED
        BY <4>1, <4>2, EntryTypes
    <3>2. queue' = [queue EXCEPT ![i] = [j \in Node |->
                      IF j \in expired THEN Push(queue[i][j], view[j])
                      ELSE queue[i][j]]]
      BY <2>1 DEF CycleWith
    <3> HIDE DEF view
    <3> QED
      BY <3>1, <3>2 DEF TypeOK
  <2>5. PICK r \in RejoinPings(i, view), s \in Syncs(i, view, due) :
          \/ /\ probe' = probe
             /\ \E o \in Orders(Seeds[i] \ {i}) :
                  todo' = [todo EXCEPT ![i] = r \o s \o
                             [k \in DOMAIN o |-> Ping(o[k], {o[k]})]]
          \/ \E t \in Node :
             /\ probe' = [probe EXCEPT ![i] = [target |-> {t}, stage |-> "direct"]]
             /\ todo' = [todo EXCEPT ![i] = r \o s \o <<Ping(t, {})>>]
    <3>1. {j \in Node \ {i} : view[j].st \in {"alive", "suspect"}} \subseteq Node
      OBVIOUS
    <3> QED
      BY <2>1, <3>1, Zenon DEF CycleWith
  <2> HIDE DEF view
  <2>6. r \in Seq(Send)
    <3>1. r = <<>> \/ \E c \in Kept(i) : r = <<Ping(c, {c})>>
      BY Zenon DEF RejoinPings
    <3>2. <<>> \in Seq(Send)
      OBVIOUS
    <3>3. \A c \in Kept(i) : <<Ping(c, {c})>> \in Seq(Send)
      BY SingleTypes DEF Kept, TypeOK
    <3> QED
      BY <3>1, <3>2, <3>3, Zenon
  <2>7. s \in Seq(Send)
    <3>1. s = <<>> \/ \E j \in Node : s = <<SyncTo(j, "sync")>>
      BY Zenon DEF Syncs
    <3>2. <<>> \in Seq(Send)
      OBVIOUS
    <3>3. \A j \in Node : <<SyncTo(j, "sync")>> \in Seq(Send)
      BY SingleTypes
    <3> QED
      BY <3>1, <3>2, <3>3, Zenon
  <2>8. \A q \in Seq(Send) : r \o s \o q \in Seq(Send)
    BY <2>6, <2>7
  <2>9. CASE /\ probe' = probe
             /\ \E o \in Orders(Seeds[i] \ {i}) :
                  todo' = [todo EXCEPT ![i] = r \o s \o
                             [k \in DOMAIN o |-> Ping(o[k], {o[k]})]]
    <3>1. PICK o \in Orders(Seeds[i] \ {i}) :
                  todo' = [todo EXCEPT ![i] = r \o s \o
                             [k \in DOMAIN o |-> Ping(o[k], {o[k]})]]
      BY <2>9
    <3>2. Seeds[i] \ {i} \in SUBSET Node
      BY SwimAssumption
    <3>3. [k \in DOMAIN o |-> Ping(o[k], {o[k]})] \in Seq(Send)
      BY <3>2, BurstTypes
    <3>4. todo' \in [Node -> Seq(Send)]
      BY <2>8, <3>1, <3>3 DEF TypeOK
    <3> QED
      BY <1>1, <2>3, <2>4, <2>9, <3>4 DEF Cycle, TypeOK
  <2>10. CASE \E t \in Node :
             /\ probe' = [probe EXCEPT ![i] = [target |-> {t}, stage |-> "direct"]]
             /\ todo' = [todo EXCEPT ![i] = r \o s \o <<Ping(t, {})>>]
    <3>1. PICK t \in Node :
             /\ probe' = [probe EXCEPT ![i] = [target |-> {t}, stage |-> "direct"]]
             /\ todo' = [todo EXCEPT ![i] = r \o s \o <<Ping(t, {})>>]
      BY <2>10
    <3>2. <<Ping(t, {})>> \in Seq(Send)
      BY SingleTypes
    <3>3. todo' \in [Node -> Seq(Send)]
      BY <2>8, <3>1, <3>2 DEF TypeOK
    <3>4. UNCHANGED <<status, inc, pending, seq, net, minted, stops>>
      BY <1>1 DEF Cycle
    <3>5. probe' \in [Node -> [target : SUBSET Node, stage : {"idle", "direct", "indirect"}]]
      BY <3>1 DEF TypeOK
    <3> QED
      BY <2>3, <2>4, <3>3, <3>4, <3>5 DEF TypeOK
  <2> QED
    BY <2>5, <2>9, <2>10
<1>2. ASSUME NEW i \in Node, AskRelays(i) PROVE TypeOK'
  <2>0. PICK relays \in SUBSET (Alive(i) \ probe[i].target), t \in probe[i].target :
          \E o \in Orders(relays) :
            todo' = [todo EXCEPT ![i] = [k \in DOMAIN o |-> PingReq(o[k], t)]]
    BY <1>2 DEF AskRelays
  <2>1. PICK o \in Orders(relays) :
          todo' = [todo EXCEPT ![i] = [k \in DOMAIN o |-> PingReq(o[k], t)]]
    BY <2>0
  <2>2. relays \in SUBSET Node /\ t \in Node
    BY DEF Alive, TypeOK
  <2>3. todo' \in [Node -> Seq(Send)]
    <3>1. [k \in DOMAIN o |-> PingReq(o[k], t)] \in Seq(Send)
      BY <2>2, BurstTypes
    <3> QED
      BY <2>1, <3>1 DEF TypeOK
  <2>4. probe' \in [Node -> [target : SUBSET Node, stage : {"idle", "direct", "indirect"}]]
    BY <1>2 DEF AskRelays, TypeOK
  <2> QED
    BY <1>2, <2>3, <2>4 DEF AskRelays, TypeOK
<1>3. ASSUME NEW i \in Node, SuspectTarget(i) PROVE TypeOK'
  <2>1. PICK t \in probe[i].target :
         IF table[i][t].st = "alive"
         THEN /\ table' = [table EXCEPT ![i][t] = Is("suspect", table[i][t].inc)]
              /\ queue' = [queue EXCEPT ![i][t] =
                             Push(queue[i][t], Is("suspect", table[i][t].inc))]
         ELSE UNCHANGED <<table, queue>>
    BY <1>3 DEF SuspectTarget, IncarnationOf
  <2>2. t \in Node
    BY DEF TypeOK
  <2>3. /\ Is("suspect", table[i][t].inc) \in Claim
        /\ Is("suspect", table[i][t].inc) # Absent
    <3>1. table[i][t] \in Claim
      BY <2>2 DEF TypeOK
    <3>2. table[i][t].inc \in Nat /\ "suspect" \in States
      BY <3>1, ClaimFields DEF States
    <3> QED
      BY <3>2, Statements
  <2>4. Push(queue[i][t], Is("suspect", table[i][t].inc)) \in Entry
    <3>1. queue[i][t] \in Entry
      BY <2>2 DEF TypeOK
    <3> QED
      BY <2>3, <3>1, EntryTypes
  <2>5. /\ table' \in [Node -> [Node -> Claim]]
        /\ queue' \in [Node -> [Node -> Entry]]
    <3>1. CASE table[i][t].st = "alive"
      <4>1. /\ table' = [table EXCEPT ![i][t] = Is("suspect", table[i][t].inc)]
            /\ queue' = [queue EXCEPT ![i][t] =
                           Push(queue[i][t], Is("suspect", table[i][t].inc))]
        BY <2>1, <3>1
      <4> QED
        BY <2>2, <2>3, <2>4, <4>1 DEF TypeOK
    <3>2. CASE table[i][t].st # "alive"
      BY <2>1, <3>2 DEF TypeOK
    <3> QED
      BY <3>1, <3>2
  <2>6. probe' \in [Node -> [target : SUBSET Node, stage : {"idle", "direct", "indirect"}]]
    BY <1>3 DEF SuspectTarget, NoProbe, TypeOK
  <2> QED
    BY <1>3, <2>5, <2>6 DEF SuspectTarget, TypeOK
<1>4. ASSUME NEW i \in Node, Emit(i) PROVE TypeOK'
  <2> DEFINE s == Head(todo[i])
  <2>1. s \in Send /\ Tail(todo[i]) \in Seq(Send)
    BY <1>4 DEF Emit, TypeOK
  <2>2. Updates(i, s) \in [Node -> Claim]
    <3>1. \A j \in Node : table[i][j] \in Claim /\ ClaimOf(queue[i][j]) \in Claim
      BY EntryTypes, ClaimTypes DEF TypeOK
    <3>2. table[i] \in [Node -> Claim]
      BY DEF TypeOK
    <3> QED
      BY <3>1, <3>2 DEF Updates
  <2>3. net' \subseteq Message
    <3>1. [kind |-> s.kind, src |-> i, dst |-> s.dst, seq |-> seq[i] + 1,
           inc |-> inc[i], upd |-> Updates(i, s),
           target |-> s.target] \in Message
      <4>1. /\ s.kind \in Kinds /\ s.dst \in Node /\ s.target \in SUBSET Node
        BY <2>1 DEF Send
      <4>2. seq[i] + 1 \in Nat /\ inc[i] \in Nat
        BY DEF TypeOK
      <4> HIDE DEF s
      <4> QED
        BY <2>2, <4>1, <4>2 DEF Message
    <3> QED
      BY <1>4, <3>1 DEF Emit, TypeOK
  <2>4. queue' \in [Node -> [Node -> Entry]]
    <3>1. \A j \in Node : Spend(queue[i][j]) \in Entry
      BY EntryTypes, ClaimTypes DEF TypeOK
    <3> QED
      BY <1>4, <3>1 DEF Emit, TypeOK
  <2> QED
    BY <1>4, <2>1, <2>3, <2>4 DEF Emit, TypeOK
<1>5. ASSUME NEW m \in net, HandlePing(m.dst, m) PROVE TypeOK'
  <2> DEFINE i == m.dst
  <2>1. m \in Message /\ i \in Node /\ m.src \in Node /\ m.target \in SUBSET Node
    BY DEF TypeOK, Message
  <2>2. net' \subseteq Message
    BY <1>5 DEF HandlePing, Consume, TypeOK
  <2> HIDE DEF i
  <2>3. Merged(i, m) \in [Node -> Claim]
    BY <2>1, HandlingTypes
  <2>4. Accept(i, m, Merged(i, m))
    BY <1>5 DEF HandlePing, i
  <2>5. todo' \in [Node -> Seq(Send)]
    <3>1. <<Ack(m.src, {})>> \in Seq(Send)
      BY <2>1, SingleTypes
    <3> QED
      BY <1>5, <2>1, <3>1 DEF HandlePing, TypeOK, i
  <2> QED
    BY <1>5, <2>1, <2>2, <2>3, <2>4, <2>5, AcceptTypes DEF HandlePing, TypeOK
<1>6. ASSUME NEW m \in net, HandlePingReq(m.dst, m) PROVE TypeOK'
  <2> DEFINE i == m.dst
  <2>1. m \in Message /\ i \in Node /\ m.src \in Node /\ m.target \in SUBSET Node
    BY DEF TypeOK, Message
  <2>2. net' \subseteq Message
    BY <1>6 DEF HandlePingReq, Consume, TypeOK
  <2> HIDE DEF i
  <2> DEFINE view == Merged(i, m)
             known == {t \in m.target : view[t] # Absent}
  <2>3. view \in [Node -> Claim]
    BY <2>1, HandlingTypes
  <2>4. Accept(i, m, view)
    BY <1>6 DEF HandlePingReq, i
  <2>5. known \in SUBSET Node
    BY <2>1
  <2>6. todo' \in [Node -> Seq(Send)]
    <3>1. PICK o \in Orders(known) :
            todo' = [todo EXCEPT ![i] = [k \in DOMAIN o |-> Ping(o[k], {})]]
      BY <1>6 DEF HandlePingReq, i
    <3>2. [k \in DOMAIN o |-> Ping(o[k], {})] \in Seq(Send)
      BY <2>1, <2>5, BurstTypes
    <3> QED
      BY <3>1, <3>2 DEF TypeOK
  <2>7. pending' \in [Node -> SUBSET [target : Node, requester : Node]]
    <3>1. pending' = [pending EXCEPT ![i] =
                        @ \cup {[target |-> t, requester |-> m.src] : t \in known}]
      BY <1>6 DEF HandlePingReq, i
    <3>2. {[target |-> t, requester |-> m.src] : t \in known}
            \in SUBSET [target : Node, requester : Node]
      BY <2>1, <2>5
    <3> HIDE DEF known
    <3> QED
      BY <2>1, <3>1, <3>2 DEF TypeOK
  <2> HIDE DEF view
  <2> QED
    BY <1>6, <2>1, <2>2, <2>3, <2>4, <2>6, <2>7, AcceptTypes DEF HandlePingReq, TypeOK
<1>7. ASSUME NEW m \in net, HandleSync(m.dst, m) PROVE TypeOK'
  <2> DEFINE i == m.dst
  <2>1. m \in Message /\ i \in Node /\ m.src \in Node /\ m.target \in SUBSET Node
    BY DEF TypeOK, Message
  <2>2. net' \subseteq Message
    BY <1>7 DEF HandleSync, Consume, TypeOK
  <2> HIDE DEF i
  <2>3. Merged(i, m) \in [Node -> Claim]
    BY <2>1, HandlingTypes
  <2>4. Accept(i, m, Merged(i, m))
    BY <1>7 DEF HandleSync, i
  <2>5. todo' \in [Node -> Seq(Send)]
    <3>1. <<SyncTo(m.src, "reply")>> \in Seq(Send)
      BY <2>1, SingleTypes
    <3>2. <<>> \in Seq(Send)
      OBVIOUS
    <3> QED
      BY <1>7, <2>1, <3>1, <3>2 DEF HandleSync, TypeOK, i
  <2> QED
    BY <1>7, <2>1, <2>2, <2>3, <2>4, <2>5, AcceptTypes DEF HandleSync, TypeOK
<1>8. ASSUME NEW m \in net, HandleAck(m.dst, m) PROVE TypeOK'
  <2> DEFINE i == m.dst
  <2>1. m \in Message /\ i \in Node /\ m.src \in Node /\ m.target \in SUBSET Node
    BY DEF TypeOK, Message
  <2>2. net' \subseteq Message
    BY <1>8 DEF HandleAck, Consume, TypeOK
  <2> HIDE DEF i
  <2> DEFINE view == Acked(Merged(i, m), Acknowledged(m))
             asked == IF m.target = {} THEN {p \in pending[i] : p.target = m.src} ELSE {}
  <2>3. view \in [Node -> Claim]
    <3>1. Merged(i, m) \in [Node -> Claim]
      BY <2>1, HandlingTypes
    <3>2. Acknowledged(m) \in Node
      BY <2>1 DEF Acknowledged
    <3>3. Merged(i, m)[Acknowledged(m)].inc \in Nat
      BY <3>1, <3>2, ClaimFields
    <3>4. Is("alive", Merged(i, m)[Acknowledged(m)].inc) \in Claim
      BY <3>3, Statements DEF States
    <3> QED
      BY <3>1, <3>4 DEF Acked
  <2>4. Accept(i, m, view)
    BY <1>8, Zenon DEF HandleAck, i
  <2>5. todo' \in [Node -> Seq(Send)]
    <3>1. PICK live \in SUBSET asked :
             \E o \in Orders({j \in Node : /\ \E p \in live : p.requester = j
                                          /\ view[j] # Absent}) :
               todo' = [todo EXCEPT ![i] = [k \in DOMAIN o |-> Ack(o[k], {m.src})]]
      BY <1>8, Zenon DEF HandleAck, i
    <3> DEFINE D == {j \in Node : /\ \E p \in live : p.requester = j
                                  /\ view[j] # Absent}
    <3>2. PICK o \in Orders(D) :
               todo' = [todo EXCEPT ![i] = [k \in DOMAIN o |-> Ack(o[k], {m.src})]]
      BY <3>1
    <3>3. D \in SUBSET Node
      OBVIOUS
    <3> HIDE DEF D
    <3>4. [k \in DOMAIN o |-> Ack(o[k], {m.src})] \in Seq(Send)
      BY <2>1, <3>3, BurstTypes
    <3> QED
      BY <3>2, <3>4 DEF TypeOK
  <2>6. pending' \in [Node -> SUBSET [target : Node, requester : Node]]
    <3>1. pending' = [pending EXCEPT ![i] = @ \ asked]
      BY <1>8, Zenon DEF HandleAck, i
    <3> HIDE DEF asked
    <3> QED
      BY <2>1, <3>1 DEF TypeOK
  <2>7. probe' \in [Node -> [target : SUBSET Node, stage : {"idle", "direct", "indirect"}]]
    <3>1. probe' = [probe EXCEPT ![i] =
                      IF Acknowledged(m) \in @.target THEN NoProbe ELSE @]
      BY <1>8, Zenon DEF HandleAck, i
    <3> QED
      BY <2>1, <3>1 DEF TypeOK, NoProbe
  <2> HIDE DEF view
  <2> QED
    BY <2>1, <2>2, <2>3, <2>4, <2>5, <2>6, <2>7, AcceptTypes DEF TypeOK
<1>9. ASSUME NEW m \in net, DropStale(m.dst, m) PROVE TypeOK'
  BY <1>9 DEF DropStale, TypeOK, nodeVars
<1>10. ASSUME NEW m \in net, Lose(m) PROVE TypeOK'
  BY <1>10 DEF Lose, TypeOK, nodeVars
<1>11. ASSUME NEW i \in Node, Leave(i) PROVE TypeOK'
  <2>1. /\ table[i][i] \in Claim /\ queue[i][i] \in Entry /\ inc[i] \in Nat
    BY DEF TypeOK
  <2>2. /\ Is("left", table[i][i].inc) \in Claim
        /\ Is("left", inc[i]) \in Claim /\ Is("left", inc[i]) # Absent
    BY <2>1, ClaimFields, Statements DEF States
  <2>3. Push(queue[i][i], Is("left", inc[i])) \in Entry
    BY <2>1, <2>2, EntryTypes
  <2>4. Absent \in Claim
    BY DEF Absent, Claim, States
  <2>5. /\ table' \in [Node -> [Node -> Claim]]
        /\ queue' \in [Node -> [Node -> Entry]]
        /\ status' \in [Node -> {"up", "leaving", "down"}]
    BY <1>11, <2>2, <2>3, <2>4 DEF Leave, TypeOK
  <2>6. todo' \in [Node -> Seq(Send)]
    <3>1. PICK o \in Orders(Alive(i)) :
            todo' = [todo EXCEPT ![i] = [k \in DOMAIN o |-> Ping(o[k], {})]]
      BY <1>11 DEF Leave
    <3>2. [k \in DOMAIN o |-> Ping(o[k], {})] \in Seq(Send)
      BY BurstTypes DEF Alive
    <3> QED
      BY <3>1, <3>2 DEF TypeOK
  <2>7. /\ stops' \in Nat
        /\ UNCHANGED <<inc, probe, contacts, pending, seen, seq, net, minted>>
    BY <1>11 DEF Leave, TypeOK
  <2> QED
    BY <2>5, <2>6, <2>7 DEF TypeOK
<1>12. ASSUME NEW i \in Node, Stopped(i), stops' \in Nat PROVE TypeOK'
  <2>1. Fresh(i) \in [Node -> Claim]
    BY DEF Fresh, Claim, Is, Absent, States
  <2>2. NoEntry \in Entry /\ <<>> \in Seq(Send)
    BY SwimAssumption DEF NoEntry, Entry
  <2> QED
    BY <1>12, <2>1, <2>2 DEF Stopped, NoProbe, TypeOK
<1>13. ASSUME NEW i \in Node, Crash(i) PROVE TypeOK'
  <2>1. stops' \in Nat
    BY <1>13 DEF Crash, TypeOK
  <2> QED
    BY <1>12, <1>13, <2>1 DEF Crash
<1>14. ASSUME NEW i \in Node, Left(i) PROVE TypeOK'
  <2>1. stops' \in Nat
    BY <1>14 DEF Left, TypeOK
  <2> QED
    BY <1>12, <1>14, <2>1 DEF Left
<1>15. ASSUME NEW i \in Node, Start(i) PROVE TypeOK'
  BY <1>15 DEF Start, TypeOK
<1>16. CASE UNCHANGED vars
  BY <1>16 DEF vars, nodeVars, TypeOK
<1> QED
  BY <1>1, <1>2, <1>3, <1>4, <1>5, <1>6, <1>7, <1>8, <1>9, <1>10, <1>11, <1>13,
     <1>14, <1>15, <1>16 DEF Next

(* The types hold in every reachable state.                                *)
THEOREM TypeCorrect == Spec => []TypeOK
<1>1. Init => TypeOK
  <2> SUFFICES ASSUME Init PROVE TypeOK
    OBVIOUS
  <2>1. /\ Is("alive", 1) \in Claim /\ Absent \in Claim
        /\ NoEntry \in Entry /\ <<>> \in Seq(Send)
    BY SwimAssumption DEF Is, Absent, Claim, States, NoEntry, Entry
  <2>2. scope.nodes \subseteq Node
    BY SwimAssumption DEF Init, Scope
  <2>3. /\ status \in [Node -> {"up", "leaving", "down"}]
        /\ table \in [Node -> [Node -> Claim]]
        /\ contacts \in [Node -> SUBSET Node]
    BY <2>1, <2>2 DEF Init
  <2> QED
    BY <2>1, <2>3 DEF Init, TypeOK, NoProbe
<1> QED
  BY <1>1, TypeStep, PTL DEF Spec

(* Neither merging nor re-disseminating raises an incarnation of j above   *)
(* what j minted, the receiver's own refutation included.                  *)
LEMMA HandlingBounds ==
    ASSUME TypeOK, NoForgedIncarnation, NEW m \in net, NEW i \in Node,
           NEW j \in Node, NEW top \in Nat, minted[j] <= top,
           j = i => Refute(i, m.upd[i]) <= top
    PROVE  Merged(i, m)[j].inc <= top /\ Requeued(i, m, j).inc <= top
<1>1. m \in Message /\ m.src \in Node /\ m.inc \in Nat /\ m.upd \in [Node -> Claim]
  BY DEF TypeOK, Message
<1>2. /\ table[i][j] \in Claim /\ queue[i][j] \in Entry /\ m.upd[j] \in Claim
      /\ minted[j] \in Nat
  BY <1>1 DEF TypeOK
<1>3. /\ table[i][j].inc <= top /\ queue[i][j].inc <= top /\ m.upd[j].inc <= top
      /\ j = m.src => m.inc <= top
  <2>1. /\ table[i][j].inc <= minted[j] /\ queue[i][j].inc <= minted[j]
        /\ m.upd[j].inc <= minted[j] /\ m.inc <= minted[m.src]
    BY DEF NoForgedIncarnation
  <2>2. /\ table[i][j].inc \in Nat /\ queue[i][j].inc \in Nat /\ m.upd[j].inc \in Nat
    BY <1>2, ClaimFields, EntryTypes
  <2> QED
    BY <1>1, <1>2, <2>1, <2>2
<1>4. Absent.inc = 0 /\ Is("alive", m.inc).inc = m.inc
      /\ Is("alive", Refute(i, m.upd[i])).inc = Refute(i, m.upd[i])
  BY DEF Absent, Is
<1>5. Refute(i, m.upd[i]) \in Nat
  BY <1>1, HandlingTypes
<1>6. Added(i, m)[j] \in Claim /\ Added(i, m)[j].inc <= top
  <2>1. Added(i, m)[j] = IF j = m.src THEN AddNode(table[i][j], m.inc) ELSE table[i][j]
    BY <1>1 DEF Added, TypeOK
  <2>2. AddNode(table[i][j], m.inc) \in {table[i][j], Is("alive", m.inc)}
    BY <1>1, <1>2, ClaimTypes
  <2>3. Added(i, m)[j] \in Claim
    BY <1>1, HandlingTypes
  <2> QED
    BY <1>3, <1>4, <2>1, <2>2, <2>3
<1>7. Told(i, m)[j] \in Claim /\ Told(i, m)[j].inc <= top
  <2>1. Told(i, m)[j] = ApplyUpdate(Added(i, m)[j], m.upd[j])
    BY DEF Told
  <2>2. ApplyUpdate(Added(i, m)[j], m.upd[j]) \in {Added(i, m)[j], m.upd[j], Absent}
    BY <1>1, <1>2, <1>6, ClaimTypes
  <2>3. Told(i, m)[j] \in Claim
    BY <1>1, HandlingTypes
  <2> QED
    BY <1>3, <1>4, <1>6, <2>1, <2>2, <2>3
<1> DEFINE mine == Is("alive", Refute(i, m.upd[i]))
<1>8. mine \in Claim
  BY <1>5, ClaimTypes DEF Claim, Is, States
<1>9. Merged(i, m)[j].inc <= top
  <2>1. Merged(i, m)[j] \in {Told(i, m)[j], ApplyUpdate(Told(i, m)[j], mine)}
    BY <1>1, HandlingTypes DEF Merged
  <2>2. Merged(i, m)[j] = Told(i, m)[j] \/ j = i
    BY <1>1, HandlingTypes DEF Merged
  <2>3. ApplyUpdate(Told(i, m)[j], mine) \in {Told(i, m)[j], mine, Absent}
    BY <1>7, <1>8, ClaimTypes
  <2> QED
    BY <1>4, <1>5, <1>7, <2>1, <2>2, <2>3
<1>10. Requeued(i, m, j).inc <= top
  <2> DEFINE new == IF j = m.src /\ table[i][j] = Absent
                    THEN Push(queue[i][j], Is("alive", m.inc)) ELSE queue[i][j]
             told == IF Told(i, m)[j] # Added(i, m)[j]
                     THEN Push(new, m.upd[j]) ELSE new
  <2>1. new \in Entry /\ new.inc <= top
    <3> DEFINE met == Is("alive", m.inc)
               put == Push(queue[i][j], met)
    <3>1. met \in Claim /\ met.inc = m.inc /\ met # Absent
      BY <1>1, Statements DEF States
    <3> HIDE DEF met
    <3>2. put \in Entry /\ put.inc \in {queue[i][j].inc, met.inc}
      BY <1>2, <3>1, EntryTypes
    <3> HIDE DEF put
    <3>3. CASE j = m.src /\ table[i][j] = Absent
      <4>1. new = put
        BY <3>3 DEF met, put
      <4>2. put.inc <= top
        BY <1>3, <3>1, <3>2, <3>3
      <4> QED
        BY <3>2, <4>1, <4>2
    <3>4. CASE ~(j = m.src /\ table[i][j] = Absent)
      <4>1. new = queue[i][j]
        BY <3>4
      <4> QED
        BY <1>2, <1>3, <4>1
    <3> QED
      BY <3>3, <3>4
  <2>2. told \in Entry /\ told.inc <= top
    <3> HIDE DEF new
    <3>1. Told(i, m)[j] # Added(i, m)[j] => m.upd[j] # Absent
      BY DEF Told, ApplyUpdate
    <3> QED
      BY <1>2, <1>3, <2>1, <3>1, EntryTypes
  <2> HIDE DEF new, told, mine
  <2>3. Push(told, mine).inc \in {told.inc, mine.inc}
    BY <1>8, <2>2, EntryTypes
  <2>4. Requeued(i, m, j) \in {told, Push(told, mine)}
    BY Zenon DEF Requeued, new, told, mine
  <2>5. Requeued(i, m, j) = told \/ j = i
    BY Zenon DEF Requeued, new, told, mine
  <2>6. mine.inc = Refute(i, m.upd[i])
    BY <1>4 DEF mine
  <2> QED
    BY <1>5, <2>2, <2>3, <2>4, <2>5, <2>6
<1> QED
  BY <1>9, <1>10

(* An accepted datagram forges nothing.                                    *)
LEMMA AcceptForgesNothing ==
    ASSUME TypeOK, NoForgedIncarnation, NEW m \in net, NEW i \in Node, NEW view,
           \A j \in Node : view[j].inc = Merged(i, m)[j].inc,
           Accept(i, m, view), net' \subseteq net
    PROVE  NoForgedIncarnation'
<1>1. m \in Message
  BY DEF TypeOK
<1>2. Refute(i, m.upd[i]) \in Nat /\ minted \in [Node -> Nat] /\ inc \in [Node -> Nat]
  BY <1>1, HandlingTypes DEF TypeOK
<1>3. /\ minted' = [minted EXCEPT ![i] = Larger(minted[i], Refute(i, m.upd[i]))]
      /\ inc' = [inc EXCEPT ![i] = Refute(i, m.upd[i])]
      /\ table' = [table EXCEPT ![i] = view]
      /\ queue' = [queue EXCEPT ![i] = [j \in Node |-> Requeued(i, m, j)]]
  BY DEF Accept
<1>4. \A j \in Node : /\ minted'[j] \in Nat /\ minted[j] \in Nat
                      /\ minted[j] <= minted'[j]
  BY <1>2, <1>3 DEF Larger
<1>5. Refute(i, m.upd[i]) <= minted'[i]
  BY <1>2, <1>3 DEF Larger
<1>6. \A j \in Node : /\ Merged(i, m)[j].inc <= minted'[j]
                      /\ Requeued(i, m, j).inc <= minted'[j]
  BY <1>4, <1>5, HandlingBounds
<1>7. \A j \in Node : inc'[j] <= minted'[j]
  <2>1. \A j \in Node : inc[j] <= minted[j] /\ inc[j] \in Nat
    BY <1>2 DEF NoForgedIncarnation
  <2> QED
    BY <1>2, <1>3, <1>4, <1>5, <2>1
<1>8. \A k, j \in Node : /\ table'[k][j].inc <= minted'[j]
                         /\ queue'[k][j].inc <= minted'[j]
  <2> SUFFICES ASSUME NEW k \in Node, NEW j \in Node
               PROVE  table'[k][j].inc <= minted'[j] /\ queue'[k][j].inc <= minted'[j]
    OBVIOUS
  <2>1. CASE k = i
    <3>1. table'[k][j] = view[j] /\ queue'[k][j] = Requeued(i, m, j)
      BY <1>3, <2>1 DEF TypeOK
    <3> QED
      BY <1>6, <3>1
  <2>2. CASE k # i
    <3>1. table'[k] = table[k] /\ queue'[k] = queue[k]
      BY <1>3, <2>2 DEF TypeOK
    <3>2. table[k][j].inc <= minted[j] /\ queue[k][j].inc <= minted[j]
      BY DEF NoForgedIncarnation
    <3>3. table[k][j].inc \in Nat /\ queue[k][j].inc \in Nat
      <4>1. table[k][j] \in Claim /\ queue[k][j] \in Entry
        BY DEF TypeOK
      <4> QED
        BY <4>1, ClaimFields, EntryTypes
    <3> QED
      BY <1>4, <3>1, <3>2, <3>3
  <2> QED
    BY <2>1, <2>2
<1>9. ASSUME NEW n \in net'
      PROVE  n.inc <= minted'[n.src] /\ \A j \in Node : n.upd[j].inc <= minted'[j]
  <2>1. n \in net /\ n \in Message
    BY DEF TypeOK
  <2>2. n.src \in Node /\ n.inc \in Nat /\ \A j \in Node : n.upd[j].inc \in Nat
    BY <2>1, ClaimFields DEF Message
  <2>3. n.inc <= minted[n.src] /\ \A j \in Node : n.upd[j].inc <= minted[j]
    BY <2>1 DEF NoForgedIncarnation
  <2> QED
    BY <1>4, <2>2, <2>3
<1> QED
  BY <1>7, <1>8, <1>9 DEF NoForgedIncarnation

(* Every node has minted at least the incarnation it starts with.          *)
Minted == \A j \in Node : minted[j] >= 1

(* Minted incarnations never fall.                                         *)
LEMMA MintedStep == TypeOK /\ Minted /\ [Next]_vars => Minted'
<1> SUFFICES ASSUME TypeOK, Minted, [Next]_vars PROVE Minted'
  OBVIOUS
<1>1. ASSUME UNCHANGED minted PROVE Minted'
  BY <1>1 DEF Minted
<1>2. ASSUME NEW m \in net, NEW view, Accept(m.dst, m, view) PROVE Minted'
  <2>1. m \in Message /\ m.dst \in Node
    BY DEF TypeOK, Message
  <2>2. Refute(m.dst, m.upd[m.dst]) \in Nat /\ minted \in [Node -> Nat]
    BY <2>1, HandlingTypes DEF TypeOK
  <2>3. minted' = [minted EXCEPT ![m.dst] =
                     Larger(minted[m.dst], Refute(m.dst, m.upd[m.dst]))]
    BY <1>2 DEF Accept
  <2> QED
    BY <2>1, <2>2, <2>3 DEF Minted, Larger
<1>3. ASSUME NEW m \in net,
             \/ HandlePing(m.dst, m) \/ HandlePingReq(m.dst, m)
             \/ HandleSync(m.dst, m) \/ HandleAck(m.dst, m)
      PROVE  Minted'
  <2>1. \E view : Accept(m.dst, m, view)
    BY <1>3, Zenon DEF HandlePing, HandlePingReq, HandleSync, HandleAck
  <2> QED
    BY <1>2, <2>1
<1> QED
  BY <1>1, <1>3 DEF Next, Cycle, AskRelays, SuspectTarget, Emit, Leave, Crash, Left,
     Start, Stopped, DropStale, Lose, nodeVars, vars

(* Every step keeps NoForgedIncarnation.                                   *)
LEMMA ForgeStep ==
    TypeOK /\ Minted /\ NoForgedIncarnation /\ [Next]_vars => NoForgedIncarnation'
<1> SUFFICES ASSUME TypeOK, Minted, NoForgedIncarnation, [Next]_vars
             PROVE  NoForgedIncarnation'
  OBVIOUS
<1>0. /\ \A i, j \in Node : /\ table[i][j] \in Claim /\ queue[i][j] \in Entry
                            /\ table[i][j].inc \in Nat /\ queue[i][j].inc \in Nat
                            /\ table[i][j].inc <= minted[j] /\ queue[i][j].inc <= minted[j]
      /\ \A j \in Node : minted[j] \in Nat /\ inc[j] \in Nat /\ inc[j] <= minted[j]
  <2>1. \A i, j \in Node : table[i][j] \in Claim /\ queue[i][j] \in Entry
    BY DEF TypeOK
  <2>2. \A i, j \in Node : table[i][j].inc \in Nat /\ queue[i][j].inc \in Nat
    BY <2>1, ClaimFields, EntryTypes
  <2> QED
    BY <2>1, <2>2 DEF TypeOK, NoForgedIncarnation
<1>1. ASSUME NEW i \in Node, Cycle(i) PROVE NoForgedIncarnation'
  <2>1. PICK expired \in SUBSET {j \in Node \ {i} : table[i][j].st = "suspect"},
             reaped \in SUBSET {j \in Node : IsDown(table[i][j].st)},
             due \in BOOLEAN : CycleWith(i, expired, reaped, due)
    BY <1>1 DEF Cycle
  <2> DEFINE view == Swept(i, expired, reaped)
  <2>2. /\ table' = [table EXCEPT ![i] = view]
        /\ queue' = [queue EXCEPT ![i] = [j \in Node |->
                        IF j \in expired THEN Push(queue[i][j], view[j])
                        ELSE queue[i][j]]]
    BY <2>1, Zenon DEF CycleWith
  <2>3. \A j \in Node : view[j] \in Claim /\ view[j].inc <= minted[j]
    BY <1>0 DEF Swept, Is, Absent, Claim, States
  <2> HIDE DEF view
  <2>4. ASSUME NEW j \in Node PROVE Push(queue[i][j], view[j]).inc <= minted[j]
    <3>1. /\ queue[i][j] \in Entry /\ queue[i][j].inc <= minted[j]
          /\ view[j] \in Claim /\ view[j].inc <= minted[j]
      BY <1>0, <2>3
    <3>2. Push(queue[i][j], view[j]).inc \in {queue[i][j].inc, view[j].inc}
      BY <3>1, EntryTypes
    <3> QED
      BY <3>1, <3>2
  <2>5. \A k, j \in Node : table'[k][j].inc <= minted[j] /\ queue'[k][j].inc <= minted[j]
    BY <1>0, <2>2, <2>3, <2>4 DEF TypeOK
  <2> QED
    BY <1>1, <2>5 DEF Cycle, NoForgedIncarnation
<1>2. ASSUME NEW i \in Node, AskRelays(i) PROVE NoForgedIncarnation'
  BY <1>2 DEF AskRelays, NoForgedIncarnation
<1>3. ASSUME NEW i \in Node, SuspectTarget(i) PROVE NoForgedIncarnation'
  <2>1. PICK t \in probe[i].target :
         IF table[i][t].st = "alive"
         THEN /\ table' = [table EXCEPT ![i][t] = Is("suspect", table[i][t].inc)]
              /\ queue' = [queue EXCEPT ![i][t] =
                             Push(queue[i][t], Is("suspect", table[i][t].inc))]
         ELSE UNCHANGED <<table, queue>>
    BY <1>3 DEF SuspectTarget, IncarnationOf
  <2>2. t \in Node
    BY DEF TypeOK
  <2> DEFINE c == Is("suspect", table[i][t].inc)
  <2>3. c \in Claim /\ c.inc = table[i][t].inc
    BY <1>0, <2>2 DEF Is, Claim, States
  <2> HIDE DEF c
  <2>4. Push(queue[i][t], c).inc <= minted[t]
    <3>1. /\ queue[i][t] \in Entry /\ queue[i][t].inc <= minted[t]
          /\ c.inc <= minted[t]
      BY <1>0, <2>2, <2>3
    <3>2. Push(queue[i][t], c).inc \in {queue[i][t].inc, c.inc}
      BY <2>3, <3>1, EntryTypes
    <3> QED
      BY <3>1, <3>2
  <2>5. \A k, j \in Node : table'[k][j].inc <= minted[j] /\ queue'[k][j].inc <= minted[j]
    <3>1. CASE table[i][t].st = "alive"
      <4>1. /\ table' = [table EXCEPT ![i][t] = c]
            /\ queue' = [queue EXCEPT ![i][t] = Push(queue[i][t], c)]
        BY <2>1, <3>1 DEF c
      <4> QED
        BY <1>0, <2>2, <2>3, <2>4, <4>1 DEF TypeOK
    <3>2. CASE table[i][t].st # "alive"
      BY <1>0, <2>1, <3>2
    <3> QED
      BY <3>1, <3>2
  <2> QED
    BY <1>3, <2>5 DEF SuspectTarget, NoForgedIncarnation
<1>4. ASSUME NEW i \in Node, Emit(i) PROVE NoForgedIncarnation'
  <2> DEFINE s == Head(todo[i])
             new == [kind |-> s.kind, src |-> i, dst |-> s.dst, seq |-> seq[i] + 1,
                     inc |-> inc[i], upd |-> Updates(i, s), target |-> s.target]
  <2>1. /\ net' = net \cup {new}
        /\ queue' = IF s.kind \in {"sync", "reply"} THEN queue
                    ELSE [queue EXCEPT ![i] = [j \in Node |-> Spend(queue[i][j])]]
        /\ UNCHANGED <<table, inc, minted>>
    BY <1>4 DEF Emit
  <2>2. \A j \in Node : Updates(i, s)[j].inc <= minted[j]
    <3>1. \A j \in Node : ClaimOf(queue[i][j]).inc <= minted[j]
      BY <1>0 DEF ClaimOf, Is
    <3> QED
      BY <1>0, <3>1 DEF Updates
  <2>3. new.src = i /\ new.inc = inc[i] /\ new.upd = Updates(i, s)
    OBVIOUS
  <2>4. \A j \in Node : Spend(queue[i][j]).inc <= minted[j]
    BY <1>0 DEF Spend, NoEntry
  <2> HIDE DEF new, s
  <2>5. \A k, j \in Node : queue'[k][j].inc <= minted[j]
    BY <1>0, <2>1, <2>4 DEF TypeOK
  <2>6. \A m \in net' : m.inc <= minted[m.src] /\ \A j \in Node : m.upd[j].inc <= minted[j]
    BY <1>0, <2>1, <2>2, <2>3 DEF NoForgedIncarnation
  <2> QED
    BY <2>1, <2>5, <2>6 DEF NoForgedIncarnation
<1>5. ASSUME NEW m \in net,
             \/ HandlePing(m.dst, m) \/ HandlePingReq(m.dst, m)
             \/ HandleSync(m.dst, m) \/ HandleAck(m.dst, m)
      PROVE  NoForgedIncarnation'
  <2>1. m \in Message /\ m.dst \in Node
    BY DEF TypeOK, Message
  <2>2. net' \subseteq net
    BY <1>5 DEF HandlePing, HandlePingReq, HandleSync, HandleAck, Consume
  <2>3. \/ Accept(m.dst, m, Merged(m.dst, m))
        \/ Accept(m.dst, m, Acked(Merged(m.dst, m), Acknowledged(m)))
    BY <1>5, Zenon DEF HandlePing, HandlePingReq, HandleSync, HandleAck
  <2>4. \A j \in Node : Acked(Merged(m.dst, m), Acknowledged(m))[j].inc
                       = Merged(m.dst, m)[j].inc
    <3>1. Merged(m.dst, m) \in [Node -> Claim]
      BY <2>1, HandlingTypes
    <3> QED
      BY <3>1 DEF Acked, Is
  <2> QED
    BY <2>1, <2>2, <2>3, <2>4, AcceptForgesNothing
<1>6. ASSUME NEW m \in net, DropStale(m.dst, m) \/ Lose(m) PROVE NoForgedIncarnation'
  BY <1>6 DEF DropStale, Lose, nodeVars, NoForgedIncarnation
<1>7. ASSUME NEW i \in Node, Leave(i) PROVE NoForgedIncarnation'
  <2> DEFINE c == Is("left", inc[i])
             t == IF table[i][i] = Absent THEN Absent ELSE Is("left", table[i][i].inc)
  <2>1. c \in Claim /\ c.inc = inc[i] /\ t.inc <= minted[i]
    BY <1>0 DEF Is, Claim, States, Absent
  <2>2. Push(queue[i][i], c).inc <= minted[i]
    <3> HIDE DEF c
    <3> QED
      BY <1>0, <2>1, EntryTypes
  <2>3. /\ table' = [table EXCEPT ![i][i] = t]
        /\ queue' = [queue EXCEPT ![i][i] = Push(queue[i][i], c)]
        /\ UNCHANGED <<inc, net, minted>>
    BY <1>7 DEF Leave
  <2> HIDE DEF c, t
  <2>4. \A k, j \in Node : table'[k][j].inc <= minted[j] /\ queue'[k][j].inc <= minted[j]
    BY <1>0, <2>1, <2>2, <2>3 DEF TypeOK
  <2> QED
    BY <2>3, <2>4 DEF NoForgedIncarnation
<1>8. ASSUME NEW i \in Node, Stopped(i) PROVE NoForgedIncarnation'
  <2>1. \A j \in Node : Fresh(i)[j].inc <= minted[j] /\ NoEntry.inc <= minted[j]
    BY <1>0 DEF Fresh, Is, Absent, NoEntry, Minted
  <2>2. /\ inc' = [inc EXCEPT ![i] = 1]
        /\ table' = [table EXCEPT ![i] = Fresh(i)]
        /\ queue' = [queue EXCEPT ![i] = [j \in Node |-> NoEntry]]
        /\ UNCHANGED <<net, minted>>
    BY <1>8 DEF Stopped
  <2>3. \A j \in Node : inc'[j] <= minted[j]
    BY <1>0, <2>2 DEF TypeOK, Minted
  <2>4. \A k, j \in Node : table'[k][j].inc <= minted[j] /\ queue'[k][j].inc <= minted[j]
    BY <1>0, <2>1, <2>2 DEF TypeOK
  <2> QED
    BY <2>2, <2>3, <2>4 DEF NoForgedIncarnation
<1>9. ASSUME NEW i \in Node, Start(i) PROVE NoForgedIncarnation'
  BY <1>9 DEF Start, NoForgedIncarnation
<1>10. CASE UNCHANGED vars
  BY <1>10 DEF vars, nodeVars, NoForgedIncarnation
<1> QED
  BY <1>1, <1>2, <1>3, <1>4, <1>5, <1>6, <1>7, <1>8, <1>9, <1>10 DEF Next, Crash, Left

(* No incarnation is ever forged: in any cluster, however many processes   *)
(* restart at incarnation 1 and whatever the network loses, repeats or     *)
(* reorders, what handle_message assumes when it refutes ("peers can't     *)
(* mint our incarnation numbers") holds.                                   *)
THEOREM IncarnationsAreOwned == Spec => []NoForgedIncarnation
<1>1. Init => Minted /\ NoForgedIncarnation
  BY DEF Init, Minted, NoForgedIncarnation, Is, Absent, NoEntry
<1> QED
  BY <1>1, TypeCorrect, MintedStep, ForgeStep, PTL DEF Spec

-----------------------------------------------------------------------------
(* How opinions are ordered: a claim is the other, or beats it.            *)
Reaches(new, old) == new = old \/ Beats(new, old)

(* The order of claims is transitive: incarnation first, then severity.    *)
LEMMA BeatsTransitive ==
    ASSUME NEW a \in Claim, NEW b \in Claim, NEW c \in Claim,
           Reaches(a, b), Reaches(b, c)
    PROVE  Reaches(a, c)
<1>1. a.inc \in Nat /\ b.inc \in Nat /\ c.inc \in Nat
  BY ClaimFields
<1>2. Severity[a.st] \in Nat /\ Severity[b.st] \in Nat /\ Severity[c.st] \in Nat
  <2>1. \A x \in Claim : Severity[x.st] \in Nat
    BY ClaimFields DEF Severity, States
  <2> QED
    BY <2>1
<1> QED
  BY <1>1, <1>2 DEF Reaches, Beats

(* resolve_conflict keeps the old claim or takes one that beats it: its    *)
(* two rules for Left and its tie rule agree with the promised order.      *)
LEMMA ResolveAdvances ==
    ASSUME NEW c \in Claim, NEW u \in Claim, c # Absent, u # Absent
    PROVE  Reaches(ResolveConflict(c, u), c)
<1>1. /\ c.st \in States /\ c.inc \in Nat /\ c = [st |-> c.st, inc |-> c.inc]
      /\ u.st \in States /\ u.inc \in Nat /\ u = [st |-> u.st, inc |-> u.inc]
  BY ClaimFields
<1>2. \A s \in States : Priority(s) = IF s \in {"dead", "left"} THEN 3
                                      ELSE IF s = "suspect" THEN 2 ELSE 1
  BY DEF Priority, States
<1>3. \A s \in States : Severity[s] = IF s = "left" THEN 4 ELSE IF s = "dead" THEN 3
                                      ELSE IF s = "suspect" THEN 2 ELSE 1
  BY DEF Severity, States
<1>4. CASE u.inc # c.inc
  BY <1>1, <1>4 DEF ResolveConflict, Reaches, Beats
<1>5. CASE u.inc = c.inc /\ u.st = c.st
  <2>1. u = c
    BY <1>1, <1>5
  <2> QED
    BY <2>1, Zenon DEF ResolveConflict, Reaches
<1>6. CASE u.inc = c.inc /\ u.st # c.st
  <2>1. Severity[u.st] > Severity[c.st] => Beats(u, c)
    BY <1>6 DEF Beats
  <2>2. Severity[u.st] <= Severity[c.st] => ResolveConflict(c, u) = c
    BY <1>1, <1>2, <1>3, <1>6 DEF ResolveConflict, States
  <2>3. ResolveConflict(c, u) \in {c, u}
    BY ClaimTypes
  <2>4. Severity[u.st] \in Nat /\ Severity[c.st] \in Nat
    BY <1>1, <1>3
  <2> QED
    BY <2>1, <2>2, <2>3, <2>4 DEF Reaches
<1> QED
  BY <1>4, <1>5, <1>6

(* So do apply_update and add_node, for known and for unknown members.     *)
LEMMA UpdatesAdvance ==
    ASSUME NEW c \in Claim, NEW u \in Claim, NEW n \in Nat
    PROVE  Reaches(ApplyUpdate(c, u), c) /\ Reaches(AddNode(c, n), c)
<1>1. \A k \in Nat : Reaches(Is("alive", k), Absent)
  BY DEF Reaches, Beats, Is, Absent, Severity
<1>2. Reaches(ApplyUpdate(c, u), c)
  <2>1. CASE u = Absent
    BY <2>1 DEF ApplyUpdate, Reaches
  <2>2. CASE u # Absent /\ c = Absent
    <3>1. u.st = "alive" => u = Is("alive", u.inc)
      BY ClaimFields DEF Is
    <3>2. u.inc \in Nat
      BY ClaimFields
    <3>3. u.st = "alive" => Reaches(u, c)
      BY <1>1, <2>2, <3>1, <3>2
    <3> QED
      BY <2>2, <3>3 DEF ApplyUpdate, Reaches
  <2>3. CASE u # Absent /\ c # Absent
    BY <2>3, ResolveAdvances DEF ApplyUpdate
  <2> QED
    BY <2>1, <2>2, <2>3
<1>3. Reaches(AddNode(c, n), c)
  <2>1. c.inc \in Nat /\ Is("alive", n).inc = n
    BY ClaimFields DEF Is
  <2>2. n > c.inc => Reaches(Is("alive", n), c)
    BY <2>1 DEF Reaches, Beats
  <2> QED
    BY <1>1, <2>2 DEF AddNode, Reaches
<1> QED
  BY <1>2, <1>3

(* What handling a datagram makes of any one opinion is reached from it.   *)
LEMMA HandlingAdvances ==
    ASSUME TypeOK, NEW i \in Node, NEW m \in Message, NEW j \in Node
    PROVE  Reaches(Merged(i, m)[j], table[i][j])
<1>1. /\ m.src \in Node /\ m.inc \in Nat /\ m.upd[j] \in Claim
      /\ table[i] \in [Node -> Claim] /\ table[i][j] \in Claim
  BY DEF TypeOK, Message
<1>2. /\ Added(i, m)[j] \in Claim /\ Told(i, m)[j] \in Claim
      /\ Merged(i, m)[j] \in Claim /\ Refute(i, m.upd[i]) \in Nat
  BY HandlingTypes
<1> DEFINE mine == Is("alive", Refute(i, m.upd[i]))
<1>3. mine \in Claim
  BY <1>2, Statements DEF States
<1>4. Reaches(Added(i, m)[j], table[i][j])
  <2>1. Added(i, m)[j] = IF j = m.src THEN AddNode(table[i][j], m.inc) ELSE table[i][j]
    BY <1>1 DEF Added
  <2>2. Reaches(AddNode(table[i][j], m.inc), table[i][j])
    BY <1>1, UpdatesAdvance
  <2>3. Reaches(table[i][j], table[i][j])
    BY DEF Reaches
  <2> QED
    BY <2>1, <2>2, <2>3
<1>5. Reaches(Told(i, m)[j], Added(i, m)[j])
  <2>1. Told(i, m)[j] = ApplyUpdate(Added(i, m)[j], m.upd[j])
    BY DEF Told
  <2> QED
    BY <1>1, <1>2, <2>1, UpdatesAdvance
<1>6. Reaches(Merged(i, m)[j], Told(i, m)[j])
  <2>1. Merged(i, m)[j] \in {Told(i, m)[j], ApplyUpdate(Told(i, m)[j], mine)}
    BY HandlingTypes DEF Merged
  <2>2. Reaches(ApplyUpdate(Told(i, m)[j], mine), Told(i, m)[j])
    BY <1>2, <1>3, UpdatesAdvance
  <2>3. Reaches(Told(i, m)[j], Told(i, m)[j])
    BY DEF Reaches
  <2> QED
    BY <2>1, <2>2, <2>3
<1> QED
  BY <1>1, <1>2, <1>4, <1>5, <1>6, BeatsTransitive

(* An ACK then clears at most a suspicion: at the incarnation already held *)
(* or on the way to one that beats it.                                     *)
LEMMA AckAdvances ==
    ASSUME NEW old \in Claim, NEW c \in Claim, Reaches(c, old), c.st = "suspect"
    PROVE  \/ Is("alive", c.inc) = old
           \/ Beats(Is("alive", c.inc), old)
           \/ old.st = "suspect" /\ Is("alive", c.inc) = Is("alive", old.inc)
<1>1. /\ c.inc \in Nat /\ old.inc \in Nat /\ old.st \in States \cup {"absent"}
      /\ old = [st |-> old.st, inc |-> old.inc]
  BY ClaimFields
<1>2. Is("alive", c.inc).st = "alive" /\ Is("alive", c.inc).inc = c.inc
  BY DEF Is
<1>3. CASE c = old
  BY <1>3
<1>4. CASE c.inc > old.inc
  BY <1>2, <1>4 DEF Beats
<1>5. CASE c.inc = old.inc /\ Severity["suspect"] > Severity[old.st]
  <2>1. old.st \in {"alive", "absent"}
    BY <1>1, <1>5 DEF Severity, States
  <2>2. CASE old.st = "alive"
    BY <1>1, <1>5, <2>2 DEF Is
  <2>3. CASE old.st = "absent"
    BY <1>2, <1>5, <2>3 DEF Beats, Severity
  <2> QED
    BY <2>1, <2>2, <2>3
<1> QED
  BY <1>3, <1>4, <1>5 DEF Reaches, Beats

(* Every step of every node moves opinions up the order, or by one of the  *)
(* exceptions the protocol names.                                          *)
LEMMA OpinionStep == TypeOK /\ [Next]_vars => OpinionAdvances
<1> SUFFICES ASSUME TypeOK, [Next]_vars, NEW i \in Node, NEW j \in Node,
                    status[i] = "up", status'[i] = "up"
             PROVE  \/ table'[i][j] = table[i][j]
                    \/ Beats(table'[i][j], table[i][j])
                    \/ table'[i][j] = Absent /\ IsDown(table[i][j].st)
                    \/ /\ table[i][j].st = "suspect"
                       /\ table'[i][j] = Is("alive", table[i][j].inc)
  BY DEF OpinionAdvances
<1>0. table[i][j] \in Claim /\ table[i][j].inc \in Nat
  BY ClaimFields DEF TypeOK
<1> DEFINE Goal == \/ table'[i][j] = table[i][j]
                   \/ Beats(table'[i][j], table[i][j])
                   \/ table'[i][j] = Absent /\ IsDown(table[i][j].st)
                   \/ /\ table[i][j].st = "suspect"
                      /\ table'[i][j] = Is("alive", table[i][j].inc)
<1>1. ASSUME NEW k \in Node, Cycle(k) PROVE Goal
  <2>1. PICK expired \in SUBSET {l \in Node \ {k} : table[k][l].st = "suspect"},
             reaped \in SUBSET {l \in Node : IsDown(table[k][l].st)},
             due \in BOOLEAN : CycleWith(k, expired, reaped, due)
    BY <1>1 DEF Cycle
  <2>2. table' = [table EXCEPT ![k] = Swept(k, expired, reaped)]
    BY <2>1, Zenon DEF CycleWith
  <2>3. CASE k # i
    BY <2>2, <2>3 DEF TypeOK
  <2>4. CASE k = i
    <3>1. table'[i][j] = IF j \in reaped THEN Absent
                         ELSE IF j \in expired THEN Is("dead", table[i][j].inc)
                         ELSE table[i][j]
      BY <2>2, <2>4 DEF TypeOK, Swept
    <3>2. j \in expired => Beats(Is("dead", table[i][j].inc), table[i][j])
      BY <2>4 DEF Beats, Is, Severity
    <3>3. j \in reaped => IsDown(table[i][j].st)
      BY <2>4
    <3> QED
      BY <3>1, <3>2, <3>3
  <2> QED
    BY <2>3, <2>4
<1>2. ASSUME NEW k \in Node, SuspectTarget(k) PROVE Goal
  <2>1. PICK t \in probe[k].target :
         IF table[k][t].st = "alive"
         THEN table' = [table EXCEPT ![k][t] = Is("suspect", table[k][t].inc)]
         ELSE UNCHANGED table
    BY <1>2 DEF SuspectTarget
  <2>2. t \in Node
    BY DEF TypeOK
  <2>3. CASE table[k][t].st # "alive" \/ k # i \/ t # j
    <3>1. table' = table \/ table' = [table EXCEPT ![k][t] = Is("suspect", table[k][t].inc)]
      BY <2>1
    <3>2. table[k][t].st # "alive" => table' = table
      BY <2>1
    <3>3. table'[i][j] = table[i][j]
      <4>1. CASE table' = table
        BY <4>1
      <4>2. CASE table' # table
        <5>1. (k # i \/ t # j) /\ table[k] \in [Node -> Claim]
          BY <2>3, <3>2, <4>2 DEF TypeOK
        <5>2. table' = [table EXCEPT ![k] = [table[k] EXCEPT ![t] = Is("suspect", table[k][t].inc)]]
          BY <3>1, <4>2
        <5> QED
          BY <2>2, <5>1, <5>2 DEF TypeOK
      <4> QED
        BY <4>1, <4>2
    <3> QED
      BY <3>3
  <2>4. CASE table[k][t].st = "alive" /\ k = i /\ t = j
    <3>1. table'[i][j] = Is("suspect", table[i][j].inc)
      BY <2>1, <2>2, <2>4 DEF TypeOK
    <3> QED
      BY <2>4, <3>1 DEF Beats, Is, Severity
  <2> QED
    BY <2>3, <2>4
<1>3. ASSUME NEW m \in net,
             \/ HandlePing(m.dst, m) \/ HandlePingReq(m.dst, m)
             \/ HandleSync(m.dst, m) \/ HandleAck(m.dst, m)
      PROVE  Goal
  <2> DEFINE k == m.dst
  <2>1. m \in Message /\ k \in Node
    BY DEF TypeOK, Message
  <2>2. \/ table' = [table EXCEPT ![k] = Merged(k, m)]
        \/ table' = [table EXCEPT ![k] = Acked(Merged(k, m), Acknowledged(m))]
    BY <1>3, Zenon DEF HandlePing, HandlePingReq, HandleSync, HandleAck, Accept
  <2> HIDE DEF k
  <2>3. CASE k # i
    BY <2>2, <2>3 DEF TypeOK
  <2>4. CASE k = i
    <3>1. /\ Reaches(Merged(i, m)[j], table[i][j])
          /\ Merged(i, m) \in [Node -> Claim] /\ Merged(i, m)[j] \in Claim
      BY <2>1, HandlingAdvances, HandlingTypes
    <3>2. \/ table'[i][j] = Merged(i, m)[j]
          \/ /\ Merged(i, m)[j].st = "suspect"
             /\ table'[i][j] = Is("alive", Merged(i, m)[j].inc)
      BY <2>1, <2>2, <2>4, <3>1 DEF TypeOK, Acked
    <3>3. CASE table'[i][j] = Merged(i, m)[j]
      BY <3>1, <3>3 DEF Reaches
    <3>4. CASE /\ Merged(i, m)[j].st = "suspect"
               /\ table'[i][j] = Is("alive", Merged(i, m)[j].inc)
      <4> DEFINE c == Merged(i, m)[j]
      <4>1. \/ Is("alive", c.inc) = table[i][j]
            \/ Beats(Is("alive", c.inc), table[i][j])
            \/ /\ table[i][j].st = "suspect"
               /\ Is("alive", c.inc) = Is("alive", table[i][j].inc)
        BY <1>0, <3>1, <3>4, AckAdvances
      <4> QED
        BY <3>4, <4>1
    <3> QED
      BY <3>2, <3>3, <3>4
  <2> QED
    BY <2>3, <2>4
<1>4. ASSUME NEW k \in Node, Leave(k) \/ Stopped(k) PROVE Goal
  <2>1. status'[k] # "up"
    BY <1>4 DEF Leave, Stopped, TypeOK
  <2>2. \A l \in Node \ {k} : table'[l] = table[l]
    BY <1>4 DEF Leave, Stopped, TypeOK
  <2> QED
    BY <2>1, <2>2
<1>5. ASSUME UNCHANGED table PROVE Goal
  BY <1>5
<1> QED
  BY <1>1, <1>2, <1>3, <1>4, <1>5 DEF Next, AskRelays, Emit, Crash, Left, Start,
     DropStale, Lose, nodeVars, vars

(* The precedence SWIM promises holds in every step of every cluster: in a *)
(* running node no claim, relayed, replayed or late, takes an opinion back *)
(* to what a newer one had replaced.                                       *)
THEOREM OpinionsAdvance == Spec => OpinionsOnlyAdvance
<1>1. TypeOK /\ [Next]_vars => [OpinionAdvances]_vars
  BY OpinionStep
<1> QED
  BY <1>1, TypeCorrect, PTL DEF Spec, OpinionsOnlyAdvance

-----------------------------------------------------------------------------
(* What keeps a running node's own record alive: no probe of a node is     *)
(* aimed at itself, and a process that is down will start with a fresh     *)
(* record of itself.                                                       *)
OwnRecord(i) ==
    /\ status[i] = "up" => table[i][i].st = "alive" /\ table[i][i].inc >= inc[i]
    /\ status[i] = "down" => table[i][i] = Is("alive", 1) /\ inc[i] = 1
    /\ i \notin probe[i].target

OwnInv == \A i \in Node : OwnRecord(i)

(* refute() reaches the receiver's own record: whatever a datagram claims  *)
(* about its receiver, and even when it names it as its sender, handling   *)
(* it leaves the receiver's record alive, at its new incarnation or above. *)
LEMMA RefutationWins ==
    ASSUME TypeOK, NEW i \in Node, NEW m \in Message, status[i] = "up", OwnRecord(i)
    PROVE  /\ Merged(i, m)[i].st = "alive"
           /\ Merged(i, m)[i].inc >= Refute(i, m.upd[i])
<1> DEFINE u == m.upd[i]
           own == table[i][i]
           add == Added(i, m)[i]
           told == Told(i, m)[i]
           mine == Is("alive", Refute(i, u))
<1>1. /\ m.src \in Node /\ m.inc \in Nat /\ u \in Claim /\ own \in Claim
      /\ inc[i] \in Nat /\ table[i] \in [Node -> Claim]
  BY DEF TypeOK, Message
<1>2. add \in Claim /\ told \in Claim /\ Refute(i, u) \in Nat
  BY HandlingTypes
<1>3. own.st = "alive" /\ own.inc >= inc[i] /\ own.inc \in Nat /\ own # Absent
  BY <1>1, ClaimFields DEF OwnRecord
<1>4. add.st = "alive" /\ add.inc \in Nat /\ add.inc >= inc[i] /\ add # Absent
  <2>1. add = IF i = m.src THEN AddNode(own, m.inc) ELSE own
    BY <1>1 DEF Added
  <2>2. AddNode(own, m.inc) = IF m.inc > own.inc THEN Is("alive", m.inc) ELSE own
    BY <1>3 DEF AddNode
  <2>3. Is("alive", m.inc).st = "alive" /\ Is("alive", m.inc).inc = m.inc
    BY DEF Is
  <2> HIDE DEF add, own
  <2>4. add.st = "alive" /\ add.inc \in Nat /\ add.inc >= inc[i]
    BY <1>1, <1>3, <2>1, <2>2, <2>3
  <2> QED
    BY <1>2, <2>4, ClaimFields
<1>5. told = IF u = Absent THEN add ELSE ResolveConflict(add, u)
  BY <1>4 DEF Told, ApplyUpdate
<1>6. u # Absent => ResolveConflict(add, u) \in {add, u}
  BY <1>1, <1>2, ClaimTypes
<1>7. Merged(i, m)[i] = IF Refutable(i, u) THEN ApplyUpdate(told, mine) ELSE told
  BY HandlingTypes DEF Merged
<1>8. u.st \in States \cup {"absent"} /\ u.inc \in Nat /\ (u.st = "absent" <=> u = Absent)
  BY <1>1, ClaimFields
<1>9. Refutable(i, u) <=> u.st \in {"suspect", "dead", "left"}
  BY DEF Refutable
<1>10. /\ mine.st = "alive" /\ mine.inc = Refute(i, u) /\ mine # Absent
       /\ Refutable(i, u) => mine.inc > u.inc /\ mine.inc > inc[i]
       /\ ~Refutable(i, u) => Refute(i, u) = inc[i]
  BY <1>1, <1>2, <1>8, Statements DEF States, Refute, Larger
<1> HIDE DEF u, own, add, told, mine
<1>11. CASE ~Refutable(i, u)
  <2>1. u = Absent \/ u.st = "alive"
    BY <1>8, <1>9, <1>11 DEF States
  <2>2. told = add \/ (told = u /\ u.st = "alive" /\ u.inc >= add.inc)
    <3>1. CASE u = Absent
      BY <1>5, <3>1
    <3>2. CASE u # Absent /\ u.st = "alive"
      <4>1. u.inc < add.inc => ResolveConflict(add, u) = add
        BY <1>4, <1>8, <3>2 DEF ResolveConflict
      <4> QED
        BY <1>4, <1>5, <1>6, <1>8, <3>2, <4>1
    <3> QED
      BY <2>1, <3>1, <3>2
  <2>3. Merged(i, m)[i] = told /\ Refute(i, u) = inc[i]
    BY <1>7, <1>10, <1>11
  <2>4. told.st = "alive" /\ told.inc >= inc[i]
    BY <1>1, <1>4, <1>8, <2>2
  <2> QED
    BY <2>3, <2>4 DEF u
<1>12. CASE Refutable(i, u)
  <2>1. u # Absent /\ told \in {add, u}
    BY <1>5, <1>6, <1>8, <1>9, <1>12
  <2>2. told # Absent
    BY <1>4, <2>1
  <2>3. Merged(i, m)[i] = ResolveConflict(told, mine)
    BY <1>7, <1>10, <1>12, <2>2 DEF ApplyUpdate
  <2>4. CASE told = u
    <3>1. ResolveConflict(told, mine) = mine
      BY <1>8, <1>10, <1>12, <1>2, <2>4 DEF ResolveConflict
    <3> QED
      BY <1>2, <1>10, <2>3, <3>1 DEF u
  <2>5. CASE told = add
    <3>1. add.inc < mine.inc => ResolveConflict(told, mine) = mine
      BY <1>4, <1>10, <1>2, <2>5 DEF ResolveConflict
    <3>2. ResolveConflict(told, mine) \in {add, mine}
      BY <2>5 DEF ResolveConflict
    <3> QED
      BY <1>2, <1>4, <1>10, <2>3, <3>1, <3>2 DEF u
  <2> QED
    BY <2>1, <2>4, <2>5
<1> QED
  BY <1>11, <1>12

(* A step that changes nothing of a node's status, incarnation, own record *)
(* and probe target keeps its OwnRecord.                                   *)
LEMMA OwnRecordFrame ==
    ASSUME NEW i \in Node, OwnRecord(i), status'[i] = status[i], inc'[i] = inc[i],
           table'[i][i] = table[i][i], i \notin probe'[i].target
    PROVE  OwnRecord(i)'
BY DEF OwnRecord

(* Every step keeps every node's OwnRecord.                                *)
LEMMA OwnStep == TypeOK /\ OwnInv /\ [Next]_vars => OwnInv'
<1> SUFFICES ASSUME TypeOK, OwnInv, [Next]_vars, NEW i \in Node
             PROVE  OwnRecord(i)'
  BY DEF OwnInv
<1>0. OwnRecord(i) /\ table[i] \in [Node -> Claim]
  BY DEF OwnInv, TypeOK
<1>1. ASSUME NEW k \in Node, Cycle(k) PROVE OwnRecord(i)'
  <2>1. PICK expired \in SUBSET {l \in Node \ {k} : table[k][l].st = "suspect"},
             reaped \in SUBSET {l \in Node : IsDown(table[k][l].st)},
             due \in BOOLEAN : CycleWith(k, expired, reaped, due)
    BY <1>1 DEF Cycle
  <2>2. table' = [table EXCEPT ![k] = Swept(k, expired, reaped)]
    BY <2>1, Zenon DEF CycleWith
  <2>3. \/ probe' = probe
        \/ \E t \in Node \ {k} :
             probe' = [probe EXCEPT ![k] = [target |-> {t}, stage |-> "direct"]]
    BY <2>1, Zenon DEF CycleWith
  <2>4. UNCHANGED <<status, inc>> /\ status[k] = "up"
    BY <1>1 DEF Cycle, Idle
  <2>5. table'[i][i] = table[i][i]
    <3>1. CASE k # i
      BY <2>2, <3>1 DEF TypeOK
    <3>2. CASE k = i
      <4>1. table[i][i].st = "alive"
        BY <1>0, <2>4, <3>2 DEF OwnRecord
      <4>2. i \notin expired /\ i \notin reaped
        BY <3>2, <4>1 DEF IsDown
      <4> QED
        BY <2>2, <3>2, <4>2 DEF TypeOK, Swept
    <3> QED
      BY <3>1, <3>2
  <2>6. i \notin probe'[i].target
    <3>0. i \notin probe[i].target /\ DOMAIN probe = Node
      BY <1>0 DEF OwnRecord, TypeOK
    <3>1. CASE probe' = probe
      BY <3>0, <3>1
    <3>2. CASE \E t \in Node \ {k} :
                 probe' = [probe EXCEPT ![k] = [target |-> {t}, stage |-> "direct"]]
      <4>1. PICK t \in Node \ {k} :
              probe' = [probe EXCEPT ![k] = [target |-> {t}, stage |-> "direct"]]
        BY <3>2
      <4>2. probe'[i] = IF i = k THEN [target |-> {t}, stage |-> "direct"] ELSE probe[i]
        BY <3>0, <4>1
      <4> QED
        BY <3>0, <4>2
    <3> QED
      BY <2>3, <3>1, <3>2
  <2> QED
    BY <1>0, <2>4, <2>5, <2>6, OwnRecordFrame
<1>2. ASSUME NEW k \in Node, AskRelays(k) PROVE OwnRecord(i)'
  <2>1. /\ UNCHANGED <<status, inc, table>>
        /\ probe' = [probe EXCEPT ![k] = [target |-> probe[k].target, stage |-> "indirect"]]
    BY <1>2 DEF AskRelays
  <2>2. i \notin probe'[i].target
    BY <1>0, <2>1 DEF OwnRecord, TypeOK
  <2> QED
    BY <1>0, <2>1, <2>2, OwnRecordFrame
<1>3. ASSUME NEW k \in Node, SuspectTarget(k) PROVE OwnRecord(i)'
  <2>1. PICK t \in probe[k].target :
          \/ table' = table
          \/ table' = [table EXCEPT ![k] =
                         [table[k] EXCEPT ![t] = Is("suspect", table[k][t].inc)]]
    BY <1>3 DEF SuspectTarget
  <2>2. t \in Node /\ t # k
    BY DEF OwnInv, OwnRecord, TypeOK
  <2>3. table'[i][i] = table[i][i]
    <3>1. table[k] \in [Node -> Claim] /\ DOMAIN table = Node
      BY DEF TypeOK
    <3>2. [table[k] EXCEPT ![t] = Is("suspect", table[k][t].inc)][k] = table[k][k]
      BY <2>2, <3>1
    <3> DEFINE row == [table[k] EXCEPT ![t] = Is("suspect", table[k][t].inc)]
    <3> HIDE DEF row
    <3>3. table' = table \/ table' = [table EXCEPT ![k] = row]
      BY <2>1 DEF row
    <3>4. row[k] = table[k][k]
      BY <3>2 DEF row
    <3> QED
      BY <3>1, <3>3, <3>4
  <2>4. UNCHANGED <<status, inc>> /\ probe' = [probe EXCEPT ![k] = NoProbe]
    BY <1>3 DEF SuspectTarget
  <2>5. i \notin probe'[i].target
    BY <1>0, <2>4 DEF OwnRecord, TypeOK, NoProbe
  <2> QED
    BY <1>0, <2>3, <2>4, <2>5, OwnRecordFrame
<1>4. ASSUME NEW m \in net,
             \/ HandlePing(m.dst, m) \/ HandlePingReq(m.dst, m)
             \/ HandleSync(m.dst, m) \/ HandleAck(m.dst, m)
      PROVE  OwnRecord(i)'
  <2> DEFINE k == m.dst
  <2>1. m \in Message /\ k \in Node
    BY DEF TypeOK, Message
  <2>2. /\ \/ table' = [table EXCEPT ![k] = Merged(k, m)]
           \/ table' = [table EXCEPT ![k] = Acked(Merged(k, m), Acknowledged(m))]
        /\ inc' = [inc EXCEPT ![k] = Refute(k, m.upd[k])]
        /\ UNCHANGED status
    BY <1>4, Zenon DEF HandlePing, HandlePingReq, HandleSync, HandleAck, Accept
  <2>3. \/ probe' = probe
        \/ probe' = [probe EXCEPT ![k] = NoProbe]
    <3>1. CASE HandleAck(k, m)
      <4>1. probe' = [probe EXCEPT ![k] =
                        IF Acknowledged(m) \in probe[k].target THEN NoProbe ELSE probe[k]]
        BY <3>1, Zenon DEF HandleAck
      <4> QED
        BY <2>1, <4>1 DEF TypeOK
    <3>2. CASE HandlePing(k, m) \/ HandlePingReq(k, m) \/ HandleSync(k, m)
      BY <3>2, Zenon DEF HandlePing, HandlePingReq, HandleSync
    <3> QED
      BY <1>4, <3>1, <3>2
  <2>4. i \notin probe'[i].target
    <3>1. i \notin probe[i].target /\ DOMAIN probe = Node /\ NoProbe.target = {}
      BY <1>0 DEF OwnRecord, TypeOK, NoProbe
    <3> QED
      BY <2>3, <3>1
  <2>5. status[k] = "up"
    BY <1>4 DEF HandlePing, HandlePingReq, HandleSync, HandleAck, Arrives, Idle
  <2> HIDE DEF k
  <2>6. CASE k # i
    <3>1. table'[i] = table[i] /\ inc'[i] = inc[i]
      BY <2>1, <2>2, <2>6 DEF TypeOK
    <3> QED
      BY <1>0, <2>2, <2>4, <3>1, OwnRecordFrame
  <2>7. CASE k = i
    <3>1. /\ Merged(i, m)[i].st = "alive"
          /\ Merged(i, m)[i].inc >= Refute(i, m.upd[i])
      BY <1>0, <2>1, <2>5, <2>7, RefutationWins
    <3>2. Merged(i, m) \in [Node -> Claim]
      BY <2>1, HandlingTypes
    <3>3. table'[i][i] = Merged(i, m)[i] /\ inc'[i] = Refute(i, m.upd[i])
      <4>1. Acked(Merged(i, m), Acknowledged(m))[i] = Merged(i, m)[i]
        BY <3>1, <3>2 DEF Acked
      <4>2. DOMAIN table = Node /\ DOMAIN inc = Node
        BY DEF TypeOK
      <4> QED
        BY <2>1, <2>2, <2>7, <4>1, <4>2
    <3>4. status'[i] = "up"
      BY <2>2, <2>5, <2>7
    <3> QED
      BY <2>4, <3>1, <3>3, <3>4 DEF OwnRecord
  <2> QED
    BY <2>6, <2>7
<1>5. ASSUME NEW k \in Node, Leave(k) PROVE OwnRecord(i)'
  <2>1. UNCHANGED <<inc, probe>> /\ status' = [status EXCEPT ![k] = "leaving"]
        /\ \A l \in Node \ {k} : table'[l] = table[l]
    BY <1>5 DEF Leave, TypeOK
  <2>2. CASE k = i
    BY <1>0, <2>1, <2>2 DEF OwnRecord, TypeOK
  <2>3. CASE k # i
    <3>1. status'[i] = status[i] /\ table'[i] = table[i] /\ i \notin probe[i].target
      BY <1>0, <2>1, <2>3 DEF OwnRecord, TypeOK
    <3> QED
      BY <1>0, <2>1, <3>1, OwnRecordFrame
  <2> QED
    BY <2>2, <2>3
<1>6. ASSUME NEW k \in Node, Stopped(k) PROVE OwnRecord(i)'
  <2>1. /\ status' = [status EXCEPT ![k] = "down"] /\ inc' = [inc EXCEPT ![k] = 1]
        /\ table' = [table EXCEPT ![k] = Fresh(k)] /\ probe' = [probe EXCEPT ![k] = NoProbe]
    BY <1>6 DEF Stopped
  <2>2. CASE k = i
    <3>1. table'[i] = Fresh(i) /\ inc'[i] = 1 /\ probe'[i] = NoProbe /\ status'[i] = "down"
      BY <2>1, <2>2 DEF TypeOK
    <3>2. Fresh(i)[i] = Is("alive", 1) /\ NoProbe.target = {}
      BY DEF Fresh, NoProbe
    <3> QED
      BY <3>1, <3>2 DEF OwnRecord
  <2>3. CASE k # i
    <3>1. /\ status'[i] = status[i] /\ table'[i] = table[i]
          /\ inc'[i] = inc[i] /\ probe'[i] = probe[i]
      BY <2>1, <2>3 DEF TypeOK
    <3>2. i \notin probe'[i].target
      BY <1>0, <3>1 DEF OwnRecord
    <3> QED
      BY <1>0, <3>1, <3>2, OwnRecordFrame
  <2> QED
    BY <2>2, <2>3
<1>7. ASSUME NEW k \in Node, Start(k) PROVE OwnRecord(i)'
  <2>1. UNCHANGED <<inc, table, probe>> /\ status[k] = "down"
        /\ status' = [status EXCEPT ![k] = "up"]
    BY <1>7 DEF Start
  <2>2. CASE k = i
    <3>1. table[i][i] = Is("alive", 1) /\ inc[i] = 1 /\ i \notin probe[i].target
      BY <1>0, <2>1, <2>2 DEF OwnRecord
    <3> QED
      BY <2>1, <2>2, <3>1 DEF OwnRecord, Is, TypeOK
  <2>3. CASE k # i
    <3>1. status'[i] = status[i] /\ i \notin probe[i].target
      BY <1>0, <2>1, <2>3 DEF OwnRecord, TypeOK
    <3> QED
      BY <1>0, <2>1, <3>1, OwnRecordFrame
  <2> QED
    BY <2>2, <2>3
<1>8. ASSUME UNCHANGED <<status, inc, table, probe>> PROVE OwnRecord(i)'
  BY <1>0, <1>8 DEF OwnRecord
<1> QED
  BY <1>1, <1>2, <1>3, <1>4, <1>5, <1>6, <1>7, <1>8 DEF Next, Emit, Crash, Left,
     DropStale, Lose, nodeVars, vars

(* A running node never holds itself suspect, dead or left: in any cluster *)
(* and whatever its peers claim, also about a life it has forgotten,       *)
(* refute() brings its own record back in the step that handles the claim. *)
THEOREM OwnRecordsStayAlive == Spec => []OwnRecordAlive
<1>1. Init => OwnInv
  BY DEF Init, OwnInv, OwnRecord, Is, NoProbe
<1>2. OwnInv => OwnRecordAlive
  BY DEF OwnInv, OwnRecord, OwnRecordAlive
<1> QED
  BY <1>1, <1>2, TypeCorrect, OwnStep, PTL DEF Spec

===========================================================================
