-------------------------- MODULE WithdrawalProofs --------------------------
(***************************************************************************)
(* Proofs about Withdrawal for every cluster, lease and setting: the values *)
(* its variables hold; that a node the ledger does not wait for has no      *)
(* lease, as long as no leader is re-elected with discharges in hand; and   *)
(* that no node refuses its council, as long as no recovery epoch overflows. *)
(***************************************************************************)
EXTENDS Withdrawal, TLAPS

-----------------------------------------------------------------------------
(* The values the variables hold, field by field.                           *)

AgentFields == {"up", "view", "lapsed", "lease", "stale", "waiting", "sync"}
JournalFields == {"publications", "phase", "receipts"}
CouncilFields == {"generation", "catalog", "pending", "consumers", "fenced", "epoch"}
ContactFields == {"term", "since", "served", "discharging"}
Phases == {"Publishing", "Active", "Withdrawing", "Withdrawn"}
Lives == {"new", "running", "retiring", "stopped", "released"}
Kinds == {"crashes", "elections", "reelections", "recoveries", "lost", "drains", "flaps",
          "changes"}

(* A request that waits in an agent or is being carried out there.          *)
RequestShape(r) ==
    r = NoRequest \/ (/\ {"at", "age"} \subseteq DOMAIN r
                      /\ r.at # "none" /\ r.age \in LocalRequest .. Lease)

AgentShape(a) ==
    /\ DOMAIN a = AgentFields /\ a.lease \in 0 .. Lease
    /\ RequestShape(a.waiting) /\ RequestShape(a.sync)

JournalShape(j) == DOMAIN j = JournalFields /\ j.phase \in Phases

PollShape(p) ==
    p = Idle \/ (DOMAIN p = {"stage", "age"} /\ p.stage = "recorded" /\ p.age \in 0 .. Lease)

CouncilShape(k) ==
    /\ DOMAIN k = CouncilFields
    /\ k.generation \in Nat /\ k.epoch \in Nat /\ k.consumers \subseteq setting.consumers

ContactShape(c) ==
    /\ DOMAIN c = ContactFields /\ c.term \in Nat /\ c.since \in 0 .. DischargeAfter
    /\ \A n \in DOMAIN c.served : c.served[n] \in 0 .. DischargeAfter

NodeShape(n) ==
    /\ AgentShape(agent[n]) /\ JournalShape(journal[n]) /\ PollShape(poll[n])
    /\ poll[n] # Idle => n \in setting.consumers

Typed ==
    /\ setting \in Settings /\ faults \in [Kinds -> Nat]
    /\ CouncilShape(council) /\ CouncilShape(backup)
    /\ term \in Nat /\ ContactShape(contacts) /\ contacts.term <= term
    /\ scan \subseteq Nodes /\ late \subseteq Nodes
    /\ DOMAIN agent = Nodes /\ DOMAIN journal = Nodes /\ DOMAIN poll = Nodes
    /\ \A n \in Nodes : NodeShape(n)
    /\ execution \in [Executions -> Lives]

-----------------------------------------------------------------------------
(* Leases and contacts.                                                     *)

(* How old the poll behind a request is, as far as its lease goes.          *)
Age(r) == IF r = NoRequest \/ r.age = LocalRequest THEN Lease ELSE r.age

(* The ages of the polls whose leases an agent has or may yet get.          *)
Claims(a) == {Lease - a.lease, Age(a.waiting), Age(a.sync)}
PollAge(p) == IF p = Idle THEN Lease ELSE p.age

(* A lease the node has or may yet get counts from a poll the leader has    *)
(* heard: its count of the node's silence is not ahead of the lease.        *)
Timely(n) ==
    \A x \in Claims(agent[n]) \cup {PollAge(poll[n])} :
        contacts.term = term /\ x < Lease => Silence(contacts, n) <= x

(* Whatever polls the node may still hear of, their leases have run out.    *)
Silent(n) == \A x \in Claims(agent[n]) : x = Lease

LeaseInv ==
    /\ \A n \in Nodes : Timely(n)
    /\ \A n \in Nodes \ council.consumers : Silent(n)
    /\ scan \cup late # {} => contacts.term = term
    /\ scan \cup late \subseteq contacts.discharging
    /\ scan \cap late = {}
    /\ contacts.term = term =>
          \A n \in Nodes \cap contacts.discharging : Silent(n) /\ PollAge(poll[n]) = Lease

(* A re-elected leader writes discharges it decided in an earlier term,     *)
(* which the contacts of its new term no longer hold back.                  *)
Steady == faults.reelections = 0

Inv == Typed /\ (Steady => LeaseInv)
-----------------------------------------------------------------------------
(* Requests of the state machine.                                           *)

(* What a step may do to the count of bounded events: it only grows.        *)
FaultsGrow == faults' \in [Kinds -> Nat] /\ (Steady' => Steady)

(* Counting an event (Count) keeps the counters and cannot undo a           *)
(* re-election. *)
LEMMA CountGrows ==
    ASSUME faults \in [Kinds -> Nat], NEW kind \in Kinds, Count(kind)
    PROVE  FaultsGrow
BY DEF FaultsGrow, Count, Steady, Kinds

(* A step that counts nothing leaves the counters as they are.              *)
LEMMA SameGrows ==
    ASSUME faults \in [Kinds -> Nat], faults' = faults
    PROVE  FaultsGrow
BY DEF FaultsGrow, Steady

(* Publishing a catalogue (Planned) keeps the ledger's fields and its       *)
(* consumers. *)
LEMMA PlannedShape ==
    ASSUME NEW k, CouncilShape(k), NEW next
    PROVE  CouncilShape(Planned(k, next)) /\ Planned(k, next).consumers = k.consumers
BY DEF CouncilShape, Planned, CouncilFields

(* So does committing a publication (PublishEndpoints), refused or not.     *)
LEMMA PublishShape ==
    ASSUME NEW k, CouncilShape(k), NEW g, NEW next
    PROVE  /\ CouncilShape(PublishEndpoints(k, g, next))
           /\ PublishEndpoints(k, g, next).consumers = k.consumers
BY PlannedShape DEF PublishEndpoints

(* So does fencing an execution (RetireExecution).                          *)
LEMMA RetireShape ==
    ASSUME NEW k, CouncilShape(k), NEW e
    PROVE  CouncilShape(RetireExecution(k, e)) /\ RetireExecution(k, e).consumers = k.consumers
<1> DEFINE f == k.fenced \cup {e}
           p == Planned(k, Withdrawn(f, k.catalog))
<1>1. CouncilShape(p) /\ p.consumers = k.consumers  BY PlannedShape
<1>2. RetireExecution(k, e) = k \/ RetireExecution(k, e) = [p EXCEPT !.fenced = f]
  BY Zenon DEF RetireExecution
<1> HIDE DEF p, f
<1>3. CouncilShape([p EXCEPT !.fenced = f]) /\ [p EXCEPT !.fenced = f].consumers = k.consumers
  BY <1>1 DEF CouncilShape, CouncilFields
<1> QED  BY <1>2, <1>3

(* So does a receipt (AcknowledgeWithdrawal).                               *)
LEMMA AcknowledgeShape ==
    ASSUME NEW k, CouncilShape(k), NEW n, NEW g
    PROVE  /\ CouncilShape(AcknowledgeWithdrawal(k, n, g))
           /\ AcknowledgeWithdrawal(k, n, g).consumers = k.consumers
<1> DEFINE q == Receipted(k.pending, {g}, n)
<1>1. \/ AcknowledgeWithdrawal(k, n, g) = k
      \/ AcknowledgeWithdrawal(k, n, g) = [k EXCEPT !.pending = q]
  BY DEF AcknowledgeWithdrawal
<1> HIDE DEF q
<1> QED  BY <1>1 DEF CouncilShape, CouncilFields

(* Registration adds one consumer.                                          *)
LEMMA RegisterShape ==
    ASSUME NEW k, CouncilShape(k), NEW n \in setting.consumers
    PROVE  /\ CouncilShape(RegisterConsumer(k, n))
           /\ RegisterConsumer(k, n).consumers = k.consumers \cup {n}
BY DEF CouncilShape, CouncilFields, RegisterConsumer

(* A discharge removes one consumer and whatever it owes.                   *)
LEMMA DischargeShape ==
    ASSUME NEW k, CouncilShape(k), NEW n
    PROVE  /\ CouncilShape(DischargeConsumer(k, n))
           /\ DischargeConsumer(k, n).consumers = k.consumers \ {n}
<1> DEFINE q == Receipted(k.pending, DOMAIN k.pending, n)
<1>1. CASE n \in k.consumers
  <2>1. DischargeConsumer(k, n) = [k EXCEPT !.consumers = k.consumers \ {n}, !.pending = q]
    BY <1>1, Zenon DEF DischargeConsumer
  <2> HIDE DEF q
  <2> QED  BY <2>1 DEF CouncilShape, CouncilFields
<1>2. CASE n \notin k.consumers
  BY <1>2 DEF DischargeConsumer
<1> QED  BY <1>1, <1>2

(* A restored council (EnterRecoveryEpoch) has the consumers of its backup. *)
LEMMA RecoveryShape ==
    ASSUME NEW k, CouncilShape(k), NEW floor \in Nat
    PROVE  /\ CouncilShape(EnterRecoveryEpoch(k, floor))
           /\ EnterRecoveryEpoch(k, floor).consumers = k.consumers
<1> DEFINE e == (IF k.epoch > floor THEN k.epoch ELSE floor) + 1
           f == EpochFloor(e)
           g == IF k.generation > f THEN k.generation ELSE f
<1>1. e \in Nat  BY DEF CouncilShape
<1>2. f \in Nat
  <2> HIDE DEF e
  <2>1. EpochSpan \in Nat  BY EndpointLedgerAssumption
  <2>2. e * EpochSpan \in Nat  BY <1>1, <2>1
  <2> QED  BY <2>2 DEF EpochFloor
<1>3. EnterRecoveryEpoch(k, floor) = [k EXCEPT !.epoch = e, !.generation = g]
  BY Zenon DEF EnterRecoveryEpoch
<1> HIDE DEF e, f
<1>4. g \in Nat  BY <1>2 DEF CouncilShape
<1> HIDE DEF g
<1> QED  BY <1>1, <1>3, <1>4 DEF CouncilShape, CouncilFields
-----------------------------------------------------------------------------
(* What the steps of a synchronisation do to an agent.                      *)

(* An agent that the step of a synchronisation leaves behind: its lease and *)
(* its requests count from polls that the agent knew of before.             *)
Succeeds(a, b) == AgentShape(a) /\ Claims(a) \subseteq Claims(b) \cup {Lease}

(* A request that is there is not the empty one, and carries an age.        *)
LEMMA RequestFacts ==
    ASSUME NEW r, RequestShape(r), r # NoRequest
    PROVE  /\ {"at", "age"} \subseteq DOMAIN r /\ r.at # "none"
           /\ r.age \in LocalRequest .. Lease
           /\ Age(r) \in 0 .. Lease
           /\ Age(r) = IF r.age = LocalRequest THEN Lease ELSE r.age
BY WithdrawalAssumption DEF RequestShape, LocalRequest, Age

(* A record with an age is not the empty request.                           *)
LEMMA AgedIsRequest ==
    ASSUME NEW r, "age" \in DOMAIN r
    PROVE  r # NoRequest
<1>1. DOMAIN NoRequest = {"at"}  BY DEF NoRequest
<1> QED  BY <1>1

(* The empty request claims no lease.                                       *)
LEMMA NoRequestFacts == RequestShape(NoRequest) /\ Age(NoRequest) = Lease
BY DEF RequestShape, Age

(* Every claim is a number of ticks within the lease.                       *)
LEMMA ClaimsTyped ==
    ASSUME NEW a, AgentShape(a)
    PROVE  Claims(a) \subseteq 0 .. Lease
<1>1. Age(a.waiting) \in 0 .. Lease
  BY RequestFacts, NoRequestFacts, WithdrawalAssumption DEF AgentShape
<1>2. Age(a.sync) \in 0 .. Lease
  BY RequestFacts, NoRequestFacts, WithdrawalAssumption DEF AgentShape
<1>3. Lease - a.lease \in 0 .. Lease
  BY WithdrawalAssumption DEF AgentShape
<1> QED  BY <1>1, <1>2, <1>3 DEF Claims

(* answer_consumer_sync grants the lease of the poll that it answers, or    *)
(* none. *)
LEMMA DoneSucceeds ==
    ASSUME NEW a, AgentShape(a), a.sync # NoRequest, NEW p \in BOOLEAN
    PROVE  Succeeds(Done(a, p), a)
<1> DEFINE r == a.sync
           l == IF p /\ r.age # LocalRequest THEN Greatest(a.lease, Lease - r.age) ELSE a.lease
           s == a.stale \/ (~p /\ r.age = LocalRequest)
           d == [a EXCEPT !.sync = NoRequest, !.lease = l, !.stale = s]
<1>1. Done(a, p) = d  BY DEF Done
<1>2. /\ DOMAIN a = AgentFields /\ a.lease \in 0 .. Lease
      /\ RequestShape(a.waiting) /\ RequestShape(r)
  BY DEF AgentShape
<1>3. /\ r.age \in LocalRequest .. Lease
      /\ Age(r) = IF r.age = LocalRequest THEN Lease ELSE r.age
  BY <1>2, RequestFacts
<1> HIDE DEF r
<1>4. l = a.lease \/ (l = Lease - Age(r) /\ l \in 0 .. Lease)
  BY <1>2, <1>3, WithdrawalAssumption DEF Greatest, LocalRequest
<1> HIDE DEF l, s
<1>5. /\ DOMAIN d = AgentFields /\ d.sync = NoRequest /\ d.lease = l /\ d.waiting = a.waiting
  BY <1>2 DEF AgentFields
<1> HIDE DEF d
<1>6. AgentShape(d)  BY <1>2, <1>4, <1>5, NoRequestFacts DEF AgentShape
<1>7. Lease - l \in {Lease - a.lease, Age(r)}
  <2>1. Age(r) \in Int  BY <1>3, WithdrawalAssumption DEF LocalRequest
  <2> QED  BY <1>2, <1>4, <2>1, WithdrawalAssumption
<1>8. Claims(d) = {Lease - l, Age(a.waiting), Lease}
  BY <1>5, NoRequestFacts DEF Claims
<1>9. Claims(a) = {Lease - a.lease, Age(a.waiting), Age(r)}  BY DEF Claims, r
<1> QED  BY <1>1, <1>6, <1>7, <1>8, <1>9 DEF Succeeds

(* An agent whose lease and requests stay succeeds itself.                  *)
LEMMA SameSucceeds ==
    ASSUME NEW a, NEW b, AgentShape(a), DOMAIN b = AgentFields,
           b.lease = a.lease, b.waiting = a.waiting, b.sync = a.sync
    PROVE  Succeeds(b, a)
BY DEF Succeeds, AgentShape, Claims

(* Going on to the next step keeps the age of the request.                  *)
LEMMA GotoSucceeds ==
    ASSUME NEW a, AgentShape(a), a.sync # NoRequest, NEW step, step # "none"
    PROVE  Succeeds(Goto(a, step), a)
<1> DEFINE r == a.sync
           q == [r EXCEPT !.at = step]
           d == [a EXCEPT !.sync = q]
<1>1. Goto(a, step) = d  BY DEF Goto
<1>2. /\ DOMAIN a = AgentFields /\ a.lease \in 0 .. Lease
      /\ RequestShape(a.waiting) /\ RequestShape(r)
  BY DEF AgentShape
<1>3. {"at", "age"} \subseteq DOMAIN r /\ r.age \in LocalRequest .. Lease
  BY <1>2, RequestFacts
<1> HIDE DEF r
<1>4. DOMAIN q = DOMAIN r /\ q.at = step /\ q.age = r.age  BY <1>3
<1> HIDE DEF q
<1>5. RequestShape(q)  BY <1>3, <1>4 DEF RequestShape
<1>6. Age(q) = Age(r)
  <2>1. q # NoRequest  BY <1>3, <1>4, AgedIsRequest
  <2> QED  BY <2>1, <1>4 DEF Age, r
<1>7. /\ DOMAIN d = AgentFields /\ d.sync = q /\ d.lease = a.lease /\ d.waiting = a.waiting
  BY <1>2 DEF AgentFields
<1> HIDE DEF d
<1> QED  BY <1>1, <1>2, <1>5, <1>6, <1>7 DEF Succeeds, AgentShape, Claims, r

(* Successors compose.                                                      *)
LEMMA SucceedsTwice ==
    ASSUME NEW a, NEW b, NEW c, Succeeds(b, a), Succeeds(c, b)
    PROVE  Succeeds(c, a)
BY DEF Succeeds

(* Installing a view touches neither lease nor requests.                    *)
LEMMA InstalledSucceeds ==
    ASSUME NEW a, AgentShape(a), NEW p
    PROVE  /\ Succeeds(Installed(a, p), a)
           /\ Installed(a, p).sync = a.sync
<1> DEFINE v == p.effective
           d == [a EXCEPT !.view = v, !.lapsed = FALSE]
<1>1. Installed(a, p) = d  BY DEF Installed
<1> HIDE DEF v
<1>2. DOMAIN d = AgentFields /\ d.sync = a.sync /\ d.lease = a.lease /\ d.waiting = a.waiting
  BY DEF AgentFields, AgentShape
<1> HIDE DEF d
<1> QED  BY <1>1, <1>2, SameSucceeds
-----------------------------------------------------------------------------
(* Steps that change one agent.                                             *)

(* A step of an agent that only lowers what the agent may claim, and writes *)
(* a well-formed journal, keeps the invariant.                              *)
LEMMA AgentKeeps ==
    ASSUME Inv, NEW n \in Nodes, NEW a, NEW j,
           Succeeds(a, agent[n]), JournalShape(j),
           agent' = [agent EXCEPT ![n] = a], journal' = [journal EXCEPT ![n] = j],
           UNCHANGED <<council, backup, leader, poll, execution, setting>>, FaultsGrow
    PROVE  Inv'
<1>1. Typed /\ (Steady => LeaseInv)  BY DEF Inv
<1>2. /\ council' = council /\ backup' = backup /\ term' = term /\ contacts' = contacts
      /\ scan' = scan /\ late' = late /\ poll' = poll /\ execution' = execution
      /\ setting' = setting
  BY DEF leader
<1>3. /\ agent'[n] = a /\ journal'[n] = j
      /\ DOMAIN agent' = Nodes /\ DOMAIN journal' = Nodes
      /\ \A m \in Nodes : m # n => agent'[m] = agent[m] /\ journal'[m] = journal[m]
  BY <1>1 DEF Typed
<1>4. AgentShape(a) /\ Claims(a) \subseteq Claims(agent[n]) \cup {Lease}
  BY DEF Succeeds
<1>5. \A m \in Nodes : NodeShape(m)'
  <2> TAKE m \in Nodes
  <2>1. NodeShape(m)  BY <1>1 DEF Typed
  <2>2. AgentShape(agent'[m]) /\ JournalShape(journal'[m])
    BY <1>3, <1>4, <2>1 DEF NodeShape
  <2> QED  BY <2>1, <2>2, <1>2 DEF NodeShape, AgentShape, JournalShape
<1>6. Typed'
  BY <1>1, <1>2, <1>3, <1>5 DEF Typed, CouncilShape, ContactShape, FaultsGrow
<1>7. \A m \in Nodes : Claims(agent'[m]) \subseteq Claims(agent[m]) \cup {Lease}
  BY <1>3, <1>4
<1>8. ASSUME Steady' PROVE LeaseInv'
  <2>1. LeaseInv  BY <1>1, <1>8 DEF FaultsGrow
  <2>2. \A m \in Nodes : Timely(m)'
    <3> TAKE m \in Nodes
    <3>1. Timely(m)  BY <2>1 DEF LeaseInv
    <3>2. Lease \in Int  BY WithdrawalAssumption
    <3> QED  BY <3>1, <3>2, <1>2, <1>7 DEF Timely
  <2>3. \A m \in Nodes : Silent(m) => Silent(m)'
    BY <1>7 DEF Silent
  <2> QED  BY <2>1, <2>2, <2>3, <1>2 DEF LeaseInv
<1> QED  BY <1>6, <1>8 DEF Inv

(* The same for a step written with Sync.                                   *)
LEMMA SyncKeeps ==
    ASSUME Inv, NEW n \in Nodes, NEW a, NEW j,
           Succeeds(a, agent[n]), JournalShape(j), Sync(n, a, j), FaultsGrow
    PROVE  Inv'
<1>1. /\ agent' = [agent EXCEPT ![n] = a] /\ journal' = [journal EXCEPT ![n] = j]
      /\ UNCHANGED <<council, backup, leader, poll, execution, setting>>
  BY DEF Sync, workload
<1> QED  BY <1>1, AgentKeeps

(* What the invariant says of one node.                                     *)
LEMMA NodeFacts ==
    ASSUME Inv, NEW n \in Nodes
    PROVE  /\ AgentShape(agent[n]) /\ JournalShape(journal[n]) /\ PollShape(poll[n])
           /\ poll[n] # Idle => n \in setting.consumers
           /\ faults \in [Kinds -> Nat]
BY DEF Inv, Typed, NodeShape

(* An agent at a step of a synchronisation has a request.                   *)
LEMMA AtHasRequest ==
    ASSUME NEW n, NEW step, step # "none", At(n, step)
    PROVE  agent[n].sync # NoRequest
BY DEF At, NoRequest

(* A journal whose phase, publications or receipts change stays a journal.  *)
LEMMA JournalKept ==
    ASSUME NEW j, JournalShape(j), NEW p, NEW phase \in Phases, NEW r
    PROVE  /\ JournalShape([j EXCEPT !.phase = phase])
           /\ JournalShape([j EXCEPT !.receipts = r])
           /\ JournalShape([j EXCEPT !.publications = p, !.phase = phase])
           /\ JournalShape([j EXCEPT !.publications = p, !.receipts = r])
           /\ JournalShape([publications |-> p, phase |-> phase, receipts |-> r])
BY DEF JournalShape, JournalFields
(* StartSync hands the waiting request to the synchronisation, with its age. *)
LEMMA StartSyncKeeps ==
    ASSUME Inv, NEW n \in Nodes, StartSync(n)
    PROVE  Inv'
<1> DEFINE request == agent[n].waiting
           p == Publication(n, request.generation, request.catalog)
           s == [at |-> "journal", age |-> request.age, publication |-> p,
                 withdrawals |-> request.withdrawals]
           taken == [agent[n] EXCEPT !.waiting = NoRequest, !.sync = s]
           last == IF Regressed(journal[n], request) THEN Done(taken, FALSE) ELSE taken
<1>1. request # NoRequest /\ Sync(n, last, journal[n]) /\ faults' = faults
  BY Zenon DEF StartSync
<1>2. AgentShape(agent[n]) /\ JournalShape(journal[n]) /\ faults \in [Kinds -> Nat]
  BY NodeFacts
<1>3. /\ DOMAIN agent[n] = AgentFields /\ agent[n].lease \in 0 .. Lease
      /\ RequestShape(request)
  BY <1>2 DEF AgentShape
<1>4. /\ request.age \in LocalRequest .. Lease
      /\ Age(request) = IF request.age = LocalRequest THEN Lease ELSE request.age
  BY <1>1, <1>3, RequestFacts
<1> HIDE DEF p
<1>5. {"at", "age"} \subseteq DOMAIN s /\ s.at = "journal" /\ s.age = request.age  OBVIOUS
<1> HIDE DEF s
<1>6. RequestShape(s) /\ s # NoRequest /\ Age(s) = Age(request)
  <2>1. s # NoRequest  BY <1>5, AgedIsRequest
  <2> QED  BY <2>1, <1>4, <1>5 DEF RequestShape, Age
<1>7. /\ DOMAIN taken = AgentFields /\ taken.waiting = NoRequest /\ taken.sync = s
      /\ taken.lease = agent[n].lease
  BY <1>3 DEF AgentFields
<1> HIDE DEF taken
<1>8. Succeeds(taken, agent[n])
  BY <1>3, <1>6, <1>7, NoRequestFacts DEF Succeeds, AgentShape, Claims
<1>9. Succeeds(last, agent[n])
  <2>1. Succeeds(Done(taken, FALSE), taken)
    BY <1>6, <1>7, <1>8, DoneSucceeds DEF Succeeds
  <2> QED  BY <1>8, <2>1, SucceedsTwice
<1> HIDE DEF last
<1>10. PICK b : b = last  OBVIOUS
<1>11. PICK j : j = journal[n]  OBVIOUS
<1> QED  BY <1>1, <1>2, <1>9, <1>10, <1>11, SameGrows, SyncKeeps

(* JournalAnswer notes what the node owes and goes on, or refuses.          *)
LEMMA JournalAnswerKeeps ==
    ASSUME Inv, NEW n \in Nodes, JournalAnswer(n)
    PROVE  Inv'
<1>1. PICK a : a = agent[n]  OBVIOUS
<1>2. PICK j : j = journal[n]  OBVIOUS
<1> DEFINE p == a.sync.publication
           r == Noted(j.receipts, a.sync.withdrawals)
           q == Appended(j, p)
           shown == IF a.lapsed THEN Installed(a, p) ELSE a
<1>3. /\ At(n, "journal") /\ faults' = faults
      /\ \/ Sync(n, Done(a, FALSE), j)
         \/ Sync(n, Goto(a, "withdraw"),
                 [publications |-> q, phase |-> "Withdrawing", receipts |-> r])
         \/ Sync(n, Goto(a, "install"),
                 [publications |-> q, phase |-> "Publishing", receipts |-> r])
         \/ Sync(n, Goto(shown, "compact"), [j EXCEPT !.receipts = r])
  BY <1>1, <1>2, Zenon DEF JournalAnswer
<1>4. AgentShape(a) /\ JournalShape(j) /\ faults \in [Kinds -> Nat] /\ a.sync # NoRequest
  BY <1>1, <1>2, <1>3, NodeFacts, AtHasRequest
<1>5. FaultsGrow  BY <1>3, <1>4, SameGrows
<1>6. Succeeds(shown, a) /\ shown.sync = a.sync
  BY <1>4, InstalledSucceeds, SameSucceeds DEF AgentShape
<1>7. Succeeds(Goto(shown, "compact"), a)
  <2> HIDE DEF shown
  <2>1. Succeeds(Goto(shown, "compact"), shown)
    BY <1>4, <1>6, GotoSucceeds DEF Succeeds
  <2> QED  BY <1>6, <2>1, SucceedsTwice
<1> HIDE DEF p, r, q, shown
<1>8. CASE Sync(n, Done(a, FALSE), j)
  <2>1. Succeeds(Done(a, FALSE), agent[n])  BY <1>1, <1>4, DoneSucceeds
  <2> QED  BY <2>1, <1>4, <1>5, <1>8, SyncKeeps
<1>9. ASSUME NEW step \in {"withdraw", "install"}, NEW phase \in Phases,
             Sync(n, Goto(a, step), [publications |-> q, phase |-> phase, receipts |-> r])
      PROVE  Inv'
  <2>1. Succeeds(Goto(a, step), agent[n])  BY <1>1, <1>4, GotoSucceeds
  <2>2. JournalShape([publications |-> q, phase |-> phase, receipts |-> r])
    BY <1>4, JournalKept
  <2>3. PICK k : k = [publications |-> q, phase |-> phase, receipts |-> r]  OBVIOUS
  <2> QED  BY <2>1, <2>2, <2>3, <1>5, <1>9, SyncKeeps
<1>10. CASE Sync(n, Goto(shown, "compact"), [j EXCEPT !.receipts = r])
  <2>1. PICK k : k = [j EXCEPT !.receipts = r]  OBVIOUS
  <2>2. JournalShape(k)  BY <1>4, <2>1, JournalKept DEF JournalShape
  <2>3. PICK b : b = Goto(shown, "compact")  OBVIOUS
  <2> QED  BY <2>1, <2>2, <2>3, <1>1, <1>5, <1>7, <1>10, SyncKeeps
<1>11. {"Withdrawing", "Publishing"} \subseteq Phases  BY DEF Phases
<1> QED  BY <1>3, <1>8, <1>9, <1>10, <1>11

(* WithdrawView clears the view, and may have to wait for open requests.    *)
LEMMA WithdrawViewKeeps ==
    ASSUME Inv, NEW n \in Nodes, WithdrawView(n)
    PROVE  Inv'
<1>1. PICK a : a = agent[n]  OBVIOUS
<1>2. PICK j : j = journal[n]  OBVIOUS
<1> DEFINE c == [a EXCEPT !.view = NoServices, !.lapsed = FALSE]
<1>3. /\ At(n, "withdraw")
      /\ \/ Sync(n, Goto(c, "prove"), [j EXCEPT !.phase = "Withdrawn"]) /\ faults' = faults
         \/ Count("drains") /\ Sync(n, Done(c, FALSE), j)
  BY <1>1, <1>2, Zenon DEF WithdrawView
<1>4. AgentShape(a) /\ JournalShape(j) /\ faults \in [Kinds -> Nat] /\ a.sync # NoRequest
  BY <1>1, <1>2, <1>3, NodeFacts, AtHasRequest
<1>5. Succeeds(c, a) /\ c.sync = a.sync
  BY <1>4, SameSucceeds DEF AgentShape, AgentFields
<1> HIDE DEF c
<1>6. Succeeds(Goto(c, "prove"), agent[n]) /\ Succeeds(Done(c, FALSE), agent[n])
  BY <1>1, <1>4, <1>5, GotoSucceeds, DoneSucceeds, SucceedsTwice DEF Succeeds
<1>7. CASE Sync(n, Goto(c, "prove"), [j EXCEPT !.phase = "Withdrawn"]) /\ faults' = faults
  <2>1. PICK k : k = [j EXCEPT !.phase = "Withdrawn"]  OBVIOUS
  <2>2. JournalShape(k)  BY <1>4, <2>1, JournalKept DEF Phases
  <2>3. PICK b : b = Goto(c, "prove")  OBVIOUS
  <2> QED  BY <2>1, <2>2, <2>3, <1>4, <1>6, <1>7, SameGrows, SyncKeeps
<1>8. CASE Count("drains") /\ Sync(n, Done(c, FALSE), j)
  <2>1. FaultsGrow  BY <1>4, <1>8, CountGrows DEF Kinds
  <2>2. PICK b : b = Done(c, FALSE)  OBVIOUS
  <2> QED  BY <2>1, <2>2, <1>4, <1>6, <1>8, SyncKeeps
<1> QED  BY <1>3, <1>7, <1>8
(* ProveReceipts marks the receipts whose withdrawal the node has carried   *)
(* out, or refuses. *)
LEMMA ProveReceiptsKeeps ==
    ASSUME Inv, NEW n \in Nodes, ProveReceipts(n)
    PROVE  Inv'
<1>1. PICK a : a = agent[n]  OBVIOUS
<1>2. PICK j : j = journal[n]  OBVIOUS
<1> DEFINE r == Proven(j.receipts, a.sync.publication)
<1>3. /\ At(n, "prove") /\ faults' = faults
      /\ \/ Sync(n, Done(a, FALSE), j)
         \/ Sync(n, Goto(a, "publish"), [j EXCEPT !.receipts = r])
  BY <1>1, <1>2 DEF ProveReceipts
<1>4. AgentShape(a) /\ JournalShape(j) /\ faults \in [Kinds -> Nat] /\ a.sync # NoRequest
  BY <1>1, <1>2, <1>3, NodeFacts, AtHasRequest
<1> HIDE DEF r
<1>5. Succeeds(Goto(a, "publish"), agent[n]) /\ Succeeds(Done(a, FALSE), agent[n])
  BY <1>1, <1>4, GotoSucceeds, DoneSucceeds
<1>6. PICK k : k = [j EXCEPT !.receipts = r]  OBVIOUS
<1>7. JournalShape(k)  BY <1>4, <1>6, JournalKept DEF JournalShape
<1> QED  BY <1>3, <1>4, <1>5, <1>6, <1>7, SameGrows, SyncKeeps

(* PublishView announces the only view there will be.                       *)
LEMMA PublishViewKeeps ==
    ASSUME Inv, NEW n \in Nodes, PublishView(n)
    PROVE  Inv'
<1>1. PICK a : a = agent[n]  OBVIOUS
<1>2. PICK j : j = journal[n]  OBVIOUS
<1> DEFINE p == <<a.sync.publication>>
<1>3. /\ At(n, "publish") /\ faults' = faults
      /\ Sync(n, Goto(a, "install"), [j EXCEPT !.publications = p, !.phase = "Publishing"])
  BY <1>1, <1>2 DEF PublishView
<1>4. AgentShape(a) /\ JournalShape(j) /\ faults \in [Kinds -> Nat] /\ a.sync # NoRequest
  BY <1>1, <1>2, <1>3, NodeFacts, AtHasRequest
<1> HIDE DEF p
<1>5. Succeeds(Goto(a, "install"), agent[n])  BY <1>1, <1>4, GotoSucceeds
<1>6. PICK k : k = [j EXCEPT !.publications = p, !.phase = "Publishing"]  OBVIOUS
<1>7. JournalShape(k)  BY <1>4, <1>6, JournalKept DEF Phases
<1> QED  BY <1>3, <1>4, <1>5, <1>6, <1>7, SameGrows, SyncKeeps

(* InstallView puts the announced view into the kernel.                     *)
LEMMA InstallViewKeeps ==
    ASSUME Inv, NEW n \in Nodes, InstallView(n)
    PROVE  Inv'
<1>1. PICK a : a = agent[n]  OBVIOUS
<1>2. PICK j : j = journal[n]  OBVIOUS
<1>3. PICK p : p = a.sync.publication  OBVIOUS
<1>4. /\ At(n, "install") /\ faults' = faults
      /\ Sync(n, Goto(Installed(a, p), "activate"), j)
  BY <1>1, <1>2, <1>3 DEF InstallView
<1>5. AgentShape(a) /\ JournalShape(j) /\ faults \in [Kinds -> Nat] /\ a.sync # NoRequest
  BY <1>1, <1>2, <1>4, NodeFacts, AtHasRequest
<1>6. Succeeds(Installed(a, p), a) /\ Installed(a, p).sync = a.sync
  BY <1>5, InstalledSucceeds
<1>7. Succeeds(Goto(Installed(a, p), "activate"), agent[n])
  BY <1>1, <1>5, <1>6, GotoSucceeds, SucceedsTwice DEF Succeeds
<1> QED  BY <1>4, <1>5, <1>7, SameGrows, SyncKeeps

(* Activate records that the view is in the kernel.                         *)
LEMMA ActivateKeeps ==
    ASSUME Inv, NEW n \in Nodes, Activate(n)
    PROVE  Inv'
<1>1. PICK a : a = agent[n]  OBVIOUS
<1>2. PICK j : j = journal[n]  OBVIOUS
<1>3. PICK k : k = [j EXCEPT !.phase = "Active"]  OBVIOUS
<1>4. At(n, "activate") /\ faults' = faults /\ Sync(n, Goto(a, "compact"), k)
  BY <1>1, <1>2, <1>3 DEF Activate
<1>5. AgentShape(a) /\ JournalShape(j) /\ faults \in [Kinds -> Nat] /\ a.sync # NoRequest
  BY <1>1, <1>2, <1>4, NodeFacts, AtHasRequest
<1>6. JournalShape(k)  BY <1>3, <1>5, JournalKept DEF Phases
<1>7. Succeeds(Goto(a, "compact"), agent[n])  BY <1>1, <1>5, GotoSucceeds
<1> QED  BY <1>4, <1>5, <1>6, <1>7, SameGrows, SyncKeeps

(* Compact ends the synchronisation and renews the lease from its poll.     *)
LEMMA CompactKeeps ==
    ASSUME Inv, NEW n \in Nodes, Compact(n)
    PROVE  Inv'
<1>1. PICK a : a = agent[n]  OBVIOUS
<1>2. PICK j : j = journal[n]  OBVIOUS
<1>3. PICK p : p = <<Latest(j)>>  OBVIOUS
<1>4. PICK r : r = Proven(j.receipts, Latest(j))  OBVIOUS
<1>5. PICK k : k = [j EXCEPT !.publications = p, !.receipts = r]  OBVIOUS
<1>6. /\ At(n, "compact")
      /\ \/ Sync(n, Done(a, TRUE), k) /\ faults' = faults
         \/ Count("drains") /\ Sync(n, Done(a, TRUE), j)
  BY <1>1, <1>2, <1>3, <1>4, <1>5, Zenon DEF Compact
<1>7. AgentShape(a) /\ JournalShape(j) /\ faults \in [Kinds -> Nat] /\ a.sync # NoRequest
  BY <1>1, <1>2, <1>6, NodeFacts, AtHasRequest
<1>8. JournalShape(k)  BY <1>5, <1>7 DEF JournalShape, JournalFields
<1>9. Succeeds(Done(a, TRUE), agent[n])  BY <1>1, <1>7, DoneSucceeds
<1>10. FaultsGrow  BY <1>6, <1>7, SameGrows, CountGrows DEF Kinds
<1> QED  BY <1>6, <1>7, <1>8, <1>9, <1>10, SyncKeeps

(* Every step of a synchronisation keeps the invariant.                     *)
LEMMA SyncStepKeeps ==
    ASSUME Inv, NEW n \in Nodes, SyncStep(n)
    PROVE  Inv'
BY StartSyncKeeps, JournalAnswerKeeps, WithdrawViewKeeps, ProveReceiptsKeeps, PublishViewKeeps,
   InstallViewKeeps, ActivateKeeps, CompactKeeps DEF SyncStep

(* Fencing a lapsed view changes no lease.                                  *)
LEMMA FencedSucceeds ==
    ASSUME NEW n, AgentShape(agent[n])
    PROVE  Succeeds(Fenced(n), agent[n])
<1> DEFINE v == LocalView(n, Latest(journal[n]).effective)
           d == [agent[n] EXCEPT !.view = v, !.lapsed = TRUE]
<1>1. Fenced(n) = d  BY DEF Fenced
<1> HIDE DEF v
<1>2. /\ DOMAIN d = AgentFields /\ d.sync = agent[n].sync /\ d.lease = agent[n].lease
      /\ d.waiting = agent[n].waiting
  BY DEF AgentFields, AgentShape
<1> HIDE DEF d
<1> QED  BY <1>1, <1>2, SameSucceeds

(* Clearing the mark of a stale view changes no lease.                      *)
LEMMA StaleSucceeds ==
    ASSUME NEW a, AgentShape(a), NEW s
    PROVE  Succeeds([a EXCEPT !.stale = s], a)
BY SameSucceeds DEF AgentShape, AgentFields

(* Refresh republishes the last catalogue without claiming a lease.         *)
LEMMA RefreshKeeps ==
    ASSUME Inv, NEW n \in Nodes, Refresh(n)
    PROVE  Inv'
<1>1. PICK a : a = agent[n]  OBVIOUS
<1>2. PICK j : j = journal[n]  OBVIOUS
<1>3. PICK f : f = Fenced(n)  OBVIOUS
<1> DEFINE w == [at |-> "waiting", age |-> LocalRequest, generation |-> Latest(j).generation,
                 catalog |-> Latest(j).catalog, withdrawals |-> NoServices]
           c == [a EXCEPT !.stale = FALSE]
           b == [c EXCEPT !.waiting = w]
<1>4. /\ faults' = faults
      /\ \/ Sync(n, c, j) \/ Sync(n, [f EXCEPT !.stale = FALSE], j) \/ Sync(n, b, j)
  BY <1>1, <1>2, <1>3, Zenon DEF Refresh
<1>5. AgentShape(a) /\ JournalShape(j) /\ faults \in [Kinds -> Nat]
  BY <1>1, <1>2, NodeFacts
<1>6. Succeeds(c, agent[n])  BY <1>1, <1>5, StaleSucceeds
<1>7. Succeeds([f EXCEPT !.stale = FALSE], agent[n])
  <2>1. Succeeds(f, agent[n])  BY <1>1, <1>3, <1>5, FencedSucceeds
  <2>2. Succeeds([f EXCEPT !.stale = FALSE], f)  BY <2>1, StaleSucceeds DEF Succeeds
  <2> QED  BY <2>1, <2>2, SucceedsTwice
<1>8. {"at", "age"} \subseteq DOMAIN w /\ w.at = "waiting" /\ w.age = LocalRequest  OBVIOUS
<1> HIDE DEF w
<1>9. RequestShape(w) /\ Age(w) = Lease
  BY <1>8, WithdrawalAssumption DEF RequestShape, Age, LocalRequest
<1>10. Succeeds(b, agent[n])
  <2>1. DOMAIN c = AgentFields /\ AgentShape(c)  BY <1>6 DEF Succeeds, AgentShape
  <2> HIDE DEF c
  <2>2. /\ DOMAIN b = AgentFields /\ b.waiting = w /\ b.lease = c.lease /\ b.sync = c.sync
    BY <2>1 DEF AgentFields
  <2> HIDE DEF b
  <2>3. Succeeds(b, c)  BY <2>1, <2>2, <1>9 DEF Succeeds, AgentShape, Claims
  <2> QED  BY <2>3, <1>6, SucceedsTwice
<1>11. FaultsGrow  BY <1>4, <1>5, SameGrows
<1> HIDE DEF b, c
<1>12. PICK g : g = [f EXCEPT !.stale = FALSE]  OBVIOUS
<1>13. PICK x : x = b  OBVIOUS
<1>14. PICK y : y = c  OBVIOUS
<1> QED  BY <1>4, <1>5, <1>6, <1>7, <1>10, <1>11, <1>12, <1>13, <1>14, SyncKeeps

(* FenceLapsedView takes remote backends out of a view without a lease.     *)
LEMMA FenceLapsedViewKeeps ==
    ASSUME Inv, NEW n \in Nodes, FenceLapsedView(n)
    PROVE  Inv'
<1>1. PICK f : f = Fenced(n)  OBVIOUS
<1>2. PICK j : j = journal[n]  OBVIOUS
<1>3. Sync(n, f, j) /\ faults' = faults  BY <1>1, <1>2 DEF FenceLapsedView
<1>4. JournalShape(j) /\ faults \in [Kinds -> Nat] /\ Succeeds(f, agent[n])
  BY <1>1, <1>2, NodeFacts, FencedSucceeds
<1> QED  BY <1>3, <1>4, SameGrows, SyncKeeps
-----------------------------------------------------------------------------
(* Steps that change neither the contacts nor the discharges.               *)

(* What such a step may do: the ledger loses no consumer, agents claim no   *)
(* new lease and polls may end.                                             *)
Frame ==
    /\ CouncilShape(council') /\ council.consumers \subseteq council'.consumers
    /\ backup' \in {backup, council}
    /\ DOMAIN agent' = Nodes /\ DOMAIN journal' = Nodes /\ DOMAIN poll' = Nodes
    /\ \A m \in Nodes :
          /\ Succeeds(agent'[m], agent[m]) /\ JournalShape(journal'[m])
          /\ poll'[m] \in {poll[m], Idle}
    /\ execution' \in [Executions -> Lives]
    /\ UNCHANGED <<term, contacts, scan, late, setting>>
    /\ FaultsGrow

(* Such a step keeps the invariant.                                         *)
LEMMA FrameKeeps ==
    ASSUME Inv, Frame
    PROVE  Inv'
<1>1. Typed /\ (Steady => LeaseInv)  BY DEF Inv
<1>2. /\ term' = term /\ contacts' = contacts /\ scan' = scan /\ late' = late
      /\ setting' = setting
  BY DEF Frame
<1>3. \A m \in Nodes : NodeShape(m)'
  <2> TAKE m \in Nodes
  <2>1. NodeShape(m)  BY <1>1 DEF Typed
  <2>2. AgentShape(agent'[m]) /\ JournalShape(journal'[m]) /\ poll'[m] \in {poll[m], Idle}
    BY DEF Frame, Succeeds
  <2>3. PollShape(poll'[m])  BY <2>1, <2>2 DEF NodeShape, PollShape
  <2> QED  BY <2>1, <2>2, <2>3, <1>2 DEF NodeShape, AgentShape, JournalShape, PollShape
<1>4. CouncilShape(council)' /\ CouncilShape(backup)'
  BY <1>1, <1>2 DEF Frame, Typed, CouncilShape
<1>5. Typed'
  BY <1>1, <1>2, <1>3, <1>4 DEF Typed, ContactShape, FaultsGrow, Frame
<1>6. \A m \in Nodes : Claims(agent'[m]) \subseteq Claims(agent[m]) \cup {Lease}
  BY DEF Frame, Succeeds
<1>7. \A m \in Nodes : PollAge(poll'[m]) \in {PollAge(poll[m]), Lease}
  BY DEF Frame, PollAge
<1>8. ASSUME Steady' PROVE LeaseInv'
  <2>1. LeaseInv  BY <1>1, <1>8 DEF Frame, FaultsGrow
  <2>2. \A m \in Nodes : Timely(m)'
    <3> TAKE m \in Nodes
    <3>1. Timely(m)  BY <2>1 DEF LeaseInv
    <3>2. Lease \in Int  BY WithdrawalAssumption
    <3> QED  BY <3>1, <3>2, <1>2, <1>6, <1>7 DEF Timely
  <2>3. \A m \in Nodes : Silent(m) => Silent(m)'
    BY <1>6 DEF Silent
  <2>4. council.consumers \subseteq council'.consumers  BY DEF Frame
  <2>5. \A m \in Nodes : PollAge(poll[m]) = Lease => PollAge(poll[m])' = Lease
    BY <1>7
  <2> QED  BY <2>1, <2>2, <2>3, <2>4, <2>5, <1>2 DEF LeaseInv
<1> QED  BY <1>5, <1>8 DEF Inv

(* An agent that does not change succeeds itself, and so does one whose     *)
(* mark changes. *)
LEMMA AgentsSucceed ==
    ASSUME Inv, NEW s, agent' = agent \/ agent' = [agent EXCEPT ![Producer].stale = s]
    PROVE  DOMAIN agent' = Nodes /\ \A m \in Nodes : Succeeds(agent'[m], agent[m])
<1>1. DOMAIN agent = Nodes  BY DEF Inv, Typed
<1>2. ASSUME NEW m \in Nodes PROVE Succeeds(agent[m], agent[m])
  BY NodeFacts, SameSucceeds DEF AgentShape
<1>3. ASSUME NEW m \in Nodes PROVE Succeeds([agent[m] EXCEPT !.stale = s], agent[m])
  BY NodeFacts, StaleSucceeds
<1>4. ASSUME NEW m \in Nodes
      PROVE  agent'[m] = agent[m] \/ agent'[m] = [agent[m] EXCEPT !.stale = s]
  BY <1>1
<1> QED  BY <1>1, <1>2, <1>3, <1>4

(* What stays as it is satisfies the rest of the frame.                     *)
LEMMA StillFrame ==
    ASSUME Inv
    PROVE  /\ CouncilShape(council) /\ DOMAIN journal = Nodes /\ DOMAIN poll = Nodes
           /\ \A m \in Nodes : JournalShape(journal[m])
           /\ execution \in [Executions -> Lives] /\ faults \in [Kinds -> Nat]
BY DEF Inv, Typed, NodeShape

(* The steps of the producer's executions.                                  *)
LEMMA ExecutionKeeps ==
    ASSUME Inv, NEW e \in Executions, Start(e) \/ Retire(e) \/ Stop(e) \/ AskRelease(e)
    PROVE  Inv'
<1>1. PICK s : s = (Producer \in setting.consumers)  OBVIOUS
<1>2. /\ agent' = agent \/ agent' = [agent EXCEPT ![Producer].stale = s]
      /\ backup' = backup /\ journal' = journal /\ poll' = poll /\ term' = term
      /\ contacts' = contacts /\ scan' = scan /\ late' = late /\ setting' = setting
      /\ faults' = faults
  BY <1>1 DEF Start, Retire, Stop, AskRelease, leader, nodes
<1>3. \E l \in Lives : execution' = execution \/ execution' = [execution EXCEPT ![e] = l]
  <2>1. {"running", "retiring", "stopped", "released"} \subseteq Lives  BY DEF Lives
  <2> QED  BY <2>1 DEF Start, Retire, Stop, AskRelease
<1>4. execution' \in [Executions -> Lives]  BY <1>3, StillFrame
<1>5. council' = council \/ council' = RetireExecution(council, e)
  BY DEF Start, Retire, Stop, AskRelease
<1>6. CouncilShape(council') /\ council'.consumers = council.consumers
  BY <1>5, StillFrame, RetireShape
<1>7. Frame
  BY <1>2, <1>4, <1>6, AgentsSucceed, StillFrame, SameGrows DEF Frame
<1> QED  BY <1>7, FrameKeeps

(* Declaring a service, a report, a plan, its publication and a backup.     *)
LEMMA LeaderQuietKeeps ==
    ASSUME Inv, (\E s \in Services : Declare(s)) \/ Report \/ BuildCatalog \/ Publish \/ Backup
    PROVE  Inv'
<1>1. /\ agent' = agent /\ journal' = journal /\ poll' = poll /\ term' = term
      /\ contacts' = contacts /\ scan' = scan /\ late' = late /\ setting' = setting
      /\ execution' = execution /\ backup' \in {backup, council}
  BY DEF Declare, Report, BuildCatalog, Publish, Backup, leader, nodes, workload
<1>2. \/ faults' = faults \/ Count("changes") \/ Count("flaps")
  BY DEF Declare, Report, BuildCatalog, Publish, Backup
<1>3. FaultsGrow  BY <1>2, StillFrame, SameGrows, CountGrows DEF Kinds
<1>4. council' = council \/ council' = PublishEndpoints(council, plan.generation, plan.catalog)
  BY DEF Declare, Report, BuildCatalog, Publish, Backup
<1>5. CouncilShape(council') /\ council'.consumers = council.consumers
  BY <1>4, StillFrame, PublishShape
<1>6. Frame
  BY <1>1, <1>3, <1>5, AgentsSucceed, StillFrame DEF Frame
<1> QED  BY <1>6, FrameKeeps
(* DeliverReceipt settles what the node owes; the ledger keeps its          *)
(* consumers. *)
LEMMA DeliverReceiptKeeps ==
    ASSUME Inv, NEW n \in Nodes, NEW g, DeliverReceipt(n, g)
    PROVE  Inv'
<1> DEFINE r == [h \in DOMAIN journal[n].receipts \ {g} |-> journal[n].receipts[h]]
           j == [journal[n] EXCEPT !.receipts = r]
<1>1. /\ agent' = agent /\ backup' = backup /\ poll' = poll /\ term' = term
      /\ contacts' = contacts /\ scan' = scan /\ late' = late /\ setting' = setting
      /\ execution' = execution /\ council' = AcknowledgeWithdrawal(council, n, g)
  BY DEF DeliverReceipt, leader, workload
<1>2. \/ faults' = faults /\ journal' = [journal EXCEPT ![n] = j]
      \/ Count("lost") /\ journal' = journal
  BY DEF DeliverReceipt
<1> HIDE DEF r
<1>3. JournalShape(j)
  <2>1. JournalShape(journal[n])  BY StillFrame
  <2> QED  BY <2>1 DEF JournalShape, JournalFields
<1> HIDE DEF j
<1>4. DOMAIN journal' = Nodes /\ \A m \in Nodes : JournalShape(journal'[m])
  BY <1>2, <1>3, StillFrame
<1>5. FaultsGrow  BY <1>2, StillFrame, SameGrows, CountGrows DEF Kinds
<1>6. CouncilShape(council') /\ council'.consumers = council.consumers
  BY <1>1, StillFrame, AcknowledgeShape
<1>7. Frame
  BY <1>1, <1>4, <1>5, <1>6, AgentsSucceed, StillFrame DEF Frame
<1> QED  BY <1>7, FrameKeeps

(* A crash loses the agent's requests and its poll, and keeps its lease.    *)
LEMMA CrashKeeps ==
    ASSUME Inv, NEW n \in Nodes, Crash(n)
    PROVE  Inv'
<1> DEFINE a == agent[n]
           d == [a EXCEPT !.up = FALSE, !.waiting = NoRequest, !.sync = NoRequest, !.stale = FALSE]
<1>1. /\ agent' = [agent EXCEPT ![n] = d] /\ poll' = [poll EXCEPT ![n] = Idle]
      /\ backup' = backup /\ journal' = journal /\ term' = term
      /\ contacts' = contacts /\ scan' = scan /\ late' = late /\ setting' = setting
      /\ execution' = execution /\ council' = council /\ Count("crashes")
  BY DEF Crash, leader, workload
<1>2. AgentShape(a)  BY NodeFacts
<1>3. DOMAIN a = AgentFields  BY <1>2 DEF AgentShape
<1> HIDE DEF a
<1>4. /\ DOMAIN d = AgentFields /\ d.lease = a.lease
      /\ d.waiting = NoRequest /\ d.sync = NoRequest
  BY <1>3 DEF AgentFields
<1> HIDE DEF d
<1>5. Succeeds(d, a)
  BY <1>2, <1>4, NoRequestFacts DEF Succeeds, AgentShape, Claims
<1>6. \A m \in Nodes : Succeeds(agent[m], agent[m])
  BY NodeFacts, SameSucceeds DEF AgentShape
<1>7. DOMAIN agent = Nodes  BY DEF Inv, Typed
<1>8. DOMAIN agent' = Nodes /\ \A m \in Nodes : Succeeds(agent'[m], agent[m])
  BY <1>1, <1>5, <1>6, <1>7 DEF a
<1>9. DOMAIN poll' = Nodes /\ \A m \in Nodes : poll'[m] \in {poll[m], Idle}
  BY <1>1, StillFrame
<1>10. FaultsGrow  BY <1>1, StillFrame, CountGrows DEF Kinds
<1>11. Frame
  BY <1>1, <1>8, <1>9, <1>10, StillFrame DEF Frame
<1> QED  BY <1>11, FrameKeeps

(* A restart first journals that the view is being withdrawn.               *)
LEMMA BeginRestartKeeps ==
    ASSUME Inv, NEW n \in Nodes, BeginRestart(n)
    PROVE  Inv'
<1>1. PICK a : a = agent[n]  OBVIOUS
<1>2. PICK k : k = [journal[n] EXCEPT !.phase = "Withdrawing"]  OBVIOUS
<1>3. Sync(n, a, k) /\ faults' = faults  BY <1>1, <1>2 DEF BeginRestart
<1>4. Succeeds(a, agent[n])  BY <1>1, NodeFacts, SameSucceeds DEF AgentShape
<1>5. JournalShape(k)
  <2>1. JournalShape(journal[n])  BY StillFrame
  <2> QED  BY <2>1, <1>2 DEF JournalShape, JournalFields, Phases
<1> QED  BY <1>3, <1>4, <1>5, StillFrame, SameGrows, SyncKeeps

(* It then withdraws the view; the lease starts expired.                    *)
LEMMA FinishRestartKeeps ==
    ASSUME Inv, NEW n \in Nodes, FinishRestart(n)
    PROVE  Inv'
<1>1. PICK a : a = agent[n]  OBVIOUS
<1>2. PICK k : k = [journal[n] EXCEPT !.phase = "Withdrawn"]  OBVIOUS
<1>3. PICK d : d = [a EXCEPT !.up = TRUE, !.view = NoServices, !.lapsed = FALSE, !.lease = 0]
  OBVIOUS
<1>4. Sync(n, d, k) /\ faults' = faults  BY <1>1, <1>2, <1>3 DEF FinishRestart
<1>5. AgentShape(a)  BY <1>1, NodeFacts
<1>6. /\ DOMAIN d = AgentFields /\ d.lease = 0 /\ d.waiting = a.waiting /\ d.sync = a.sync
  BY <1>3, <1>5 DEF AgentShape, AgentFields
<1>7. Lease - d.lease = Lease /\ d.lease \in 0 .. Lease  BY <1>6, WithdrawalAssumption
<1>8. Succeeds(d, agent[n])
  BY <1>1, <1>5, <1>6, <1>7 DEF Succeeds, AgentShape, Claims
<1>9. JournalShape(k)
  <2>1. JournalShape(journal[n])  BY StillFrame
  <2> QED  BY <2>1, <1>2 DEF JournalShape, JournalFields, Phases
<1> QED  BY <1>4, <1>8, <1>9, StillFrame, SameGrows, SyncKeeps

(* Every step of an agent keeps the invariant.                              *)
LEMMA AgentStepKeeps ==
    ASSUME Inv, NEW n \in Nodes, AgentStep(n)
    PROVE  Inv'
BY SyncStepKeeps, RefreshKeeps, FenceLapsedViewKeeps, DeliverReceiptKeeps, CrashKeeps,
   BeginRestartKeeps, FinishRestartKeeps DEF AgentStep

-----------------------------------------------------------------------------
(* Polls.                                                                   *)

(* The answer to a poll registers the node first; the lease it may lead to  *)
(* counts from that poll.                                                   *)
LEMMA AnswerKeeps ==
    ASSUME Inv, NEW n \in Nodes, Answer(n)
    PROVE  Inv'
<1> DEFINE k == RegisterConsumer(council, n)
           owed == {g \in DOMAIN k.pending : n \in k.pending[g].consumers}
           w == [at |-> "waiting", age |-> poll[n].age,
                 generation |-> k.generation, catalog |-> k.catalog,
                 withdrawals |-> [g \in owed |-> k.pending[g].services]]
           s == agent[n].stale \/ (agent[n].waiting # NoRequest
                                      /\ agent[n].waiting.age = LocalRequest)
           d == [agent[n] EXCEPT !.waiting = w, !.stale = s]
<1>1. /\ poll[n].stage = "recorded" /\ council' = k /\ poll' = [poll EXCEPT ![n] = Idle]
      /\ \/ agent' = [agent EXCEPT ![n] = d] /\ faults' = faults
         \/ Count("lost") /\ agent' = agent
      /\ backup' = backup /\ journal' = journal /\ term' = term
      /\ contacts' = contacts /\ scan' = scan /\ late' = late /\ setting' = setting
      /\ execution' = execution
  <2>1. /\ poll[n].stage = "recorded" /\ council' = k /\ poll' = [poll EXCEPT ![n] = Idle]
        /\ backup' = backup /\ journal' = journal /\ term' = term
        /\ contacts' = contacts /\ scan' = scan /\ late' = late /\ setting' = setting
        /\ execution' = execution
    BY DEF Answer, leader, workload
  <2>2. \/ agent' = [agent EXCEPT ![n] = d] /\ faults' = faults
        \/ Count("lost") /\ agent' = agent
    BY Zenon DEF Answer
  <2> QED  BY <2>1, <2>2
<1>2. /\ AgentShape(agent[n]) /\ PollShape(poll[n])
      /\ poll[n] # Idle => n \in setting.consumers
  BY NodeFacts
<1>3. poll[n] # Idle  BY <1>1 DEF Idle
<1>4. n \in setting.consumers /\ poll[n].age \in 0 .. Lease /\ PollAge(poll[n]) = poll[n].age
  BY <1>2, <1>3 DEF PollShape, PollAge
<1>5. CouncilShape(k) /\ k.consumers = council.consumers \cup {n}
  BY <1>4, StillFrame, RegisterShape
<1> HIDE DEF k, owed
<1>6. {"at", "age"} \subseteq DOMAIN w /\ w.at = "waiting" /\ w.age = poll[n].age  OBVIOUS
<1> HIDE DEF w
<1>7. RequestShape(w) /\ Age(w) = PollAge(poll[n])
  <2>1. w # NoRequest  BY <1>6, AgedIsRequest
  <2> QED  BY <2>1, <1>4, <1>6, WithdrawalAssumption DEF RequestShape, Age, LocalRequest
<1> HIDE DEF s
<1>8. /\ DOMAIN d = AgentFields /\ d.waiting = w /\ d.lease = agent[n].lease
      /\ d.sync = agent[n].sync
  BY <1>2 DEF AgentShape, AgentFields
<1> HIDE DEF d
<1>9. AgentShape(d) /\ Claims(d) \subseteq Claims(agent[n]) \cup {PollAge(poll[n])}
  BY <1>2, <1>7, <1>8 DEF AgentShape, Claims
<1>10. DOMAIN agent = Nodes /\ DOMAIN poll = Nodes  BY DEF Inv, Typed
<1>11. /\ DOMAIN agent' = Nodes /\ DOMAIN poll' = Nodes /\ poll'[n] = Idle
       /\ \A m \in Nodes : AgentShape(agent'[m]) /\ poll'[m] \in {poll[m], Idle}
       /\ Claims(agent'[n]) \subseteq Claims(agent[n]) \cup {PollAge(poll[n])}
       /\ \A m \in Nodes \ {n} : agent'[m] = agent[m] /\ poll'[m] = poll[m]
  BY <1>1, <1>9, <1>10, NodeFacts
<1>12. FaultsGrow  BY <1>1, StillFrame, SameGrows, CountGrows DEF Kinds
<1>13. Typed /\ (Steady => LeaseInv)  BY DEF Inv
<1>14. \A m \in Nodes : NodeShape(m)'
  <2> TAKE m \in Nodes
  <2>1. NodeShape(m)  BY <1>13 DEF Typed
  <2>2. AgentShape(agent'[m]) /\ poll'[m] \in {poll[m], Idle}  BY <1>11
  <2>3. PollShape(poll'[m])  BY <2>1, <2>2 DEF NodeShape, PollShape
  <2> QED  BY <2>1, <2>2, <2>3, <1>1 DEF NodeShape, AgentShape, JournalShape, PollShape
<1>15. CouncilShape(council)' /\ CouncilShape(backup)'
  BY <1>1, <1>5, <1>13 DEF Typed, CouncilShape
<1>16. Typed'
  BY <1>1, <1>11, <1>12, <1>13, <1>14, <1>15 DEF Typed, ContactShape, FaultsGrow
<1>17. ASSUME Steady' PROVE LeaseInv'
  <2>1. LeaseInv  BY <1>12, <1>13, <1>17 DEF FaultsGrow
  <2>2. PollAge(poll'[n]) = Lease /\ Lease \in Int
    BY <1>11, WithdrawalAssumption DEF PollAge
  <2>3. \A m \in Nodes : Timely(m)'
    <3> TAKE m \in Nodes
    <3>1. Timely(m)  BY <2>1 DEF LeaseInv
    <3>2. CASE m = n  BY <3>1, <3>2, <2>2, <1>1, <1>11 DEF Timely
    <3>3. CASE m # n  BY <3>1, <3>3, <1>1, <1>11 DEF Timely
    <3> QED  BY <3>2, <3>3
  <2>4. \A m \in Nodes : Silent(m) /\ PollAge(poll[m]) = Lease
                            => Silent(m)' /\ PollAge(poll[m])' = Lease
    BY <2>2, <1>11 DEF Silent
  <2>5. \A m \in Nodes : m # n /\ Silent(m) => Silent(m)'  BY <1>11 DEF Silent
  <2>6. council'.consumers = council.consumers \cup {n}  BY <1>1, <1>5
  <2> QED  BY <2>1, <2>3, <2>4, <2>5, <2>6, <1>1 DEF LeaseInv
<1> QED  BY <1>16, <1>17 DEF Inv
-----------------------------------------------------------------------------
(* The leader's contacts and discharges.                                    *)

(* The contacts as the leader reads them, in its own term.                  *)
LEMMA ObserveFacts ==
    ASSUME Inv
    PROVE  /\ ContactShape(ObserveTerm(contacts)) /\ ObserveTerm(contacts).term = term
           /\ contacts.term = term => ObserveTerm(contacts) = contacts
           /\ contacts.term # term => /\ ObserveTerm(contacts).discharging = {}
                                      /\ ObserveTerm(contacts).since = 0
                                      /\ \A n : Silence(ObserveTerm(contacts), n) = 0
<1> DEFINE fresh == [term |-> term, since |-> 0, served |-> NoServices, discharging |-> {}]
<1>1. ObserveTerm(contacts) = IF contacts.term = term THEN contacts ELSE fresh
  BY DEF ObserveTerm
<1>2. ContactShape(contacts) /\ term \in Nat  BY DEF Inv, Typed
<1>3. /\ DOMAIN fresh = ContactFields /\ fresh.term = term /\ fresh.since = 0
      /\ fresh.served = NoServices /\ fresh.discharging = {}
  BY DEF ContactFields
<1> HIDE DEF fresh
<1>4. DOMAIN NoServices = {}  BY DEF NoServices
<1>5. ContactShape(fresh)
  BY <1>2, <1>3, <1>4, WithdrawalAssumption DEF ContactShape
<1>6. \A n : Silence(fresh, n) = 0  BY <1>3, <1>4 DEF Silence
<1> QED  BY <1>1, <1>2, <1>3, <1>5, <1>6

(* A node's silence is a number of ticks, and no more than the discharge    *)
(* takes. *)
LEMMA SilenceTyped ==
    ASSUME NEW c, ContactShape(c), NEW n
    PROVE  Silence(c, n) \in 0 .. DischargeAfter
BY WithdrawalAssumption DEF ContactShape, Silence, Least

(* A contact that is recorded ends the node's silence and no other's.       *)
LEMMA ServedFacts ==
    ASSUME NEW c, ContactShape(c), NEW n
    PROVE  /\ ContactShape(Served(c, n)) /\ Served(c, n).term = c.term
           /\ Served(c, n).discharging = c.discharging
           /\ Silence(Served(c, n), n) = 0
           /\ \A m : m # n => Silence(Served(c, n), m) = Silence(c, m)
<1> DEFINE s == [m \in DOMAIN c.served \cup {n} |-> IF m = n THEN 0 ELSE c.served[m]]
           d == [c EXCEPT !.served = s]
<1>1. Served(c, n) = d  BY DEF Served
<1>2. /\ DOMAIN s = DOMAIN c.served \cup {n} /\ s[n] = 0
      /\ \A m \in DOMAIN c.served : m # n => s[m] = c.served[m]
  OBVIOUS
<1> HIDE DEF s
<1>3. /\ DOMAIN d = ContactFields /\ d.served = s /\ d.term = c.term /\ d.since = c.since
      /\ d.discharging = c.discharging
  BY DEF ContactShape, ContactFields
<1> HIDE DEF d
<1>4. ContactShape(d)  BY <1>2, <1>3, WithdrawalAssumption DEF ContactShape
<1>5. Silence(d, n) = 0
  BY <1>2, <1>3, WithdrawalAssumption DEF Silence, Least, ContactShape
<1>6. \A m : m # n => Silence(d, m) = Silence(c, m)
  BY <1>2, <1>3 DEF Silence
<1> QED  BY <1>1, <1>3, <1>4, <1>5, <1>6

(* The end of a discharge forgets the node's contacts.  Its silence is then *)
(* as long as the term; no other node's changes.                            *)
LEMMA FinishFacts ==
    ASSUME NEW c, ContactShape(c), NEW f
    PROVE  /\ ContactShape(FinishDischarge(c, f)) /\ FinishDischarge(c, f).term = c.term
           /\ FinishDischarge(c, f).discharging = c.discharging \ f
           /\ \A m : m \notin f => Silence(FinishDischarge(c, f), m) = Silence(c, m)
<1> DEFINE s == [m \in DOMAIN c.served \ f |-> c.served[m]]
           d == [c EXCEPT !.discharging = c.discharging \ f, !.served = s]
<1>1. FinishDischarge(c, f) = d  BY DEF FinishDischarge
<1>2. /\ DOMAIN s = DOMAIN c.served \ f
      /\ \A m \in DOMAIN s : s[m] = c.served[m]
  OBVIOUS
<1> HIDE DEF s
<1>3. /\ DOMAIN d = ContactFields /\ d.served = s /\ d.term = c.term /\ d.since = c.since
      /\ d.discharging = c.discharging \ f
  BY DEF ContactShape, ContactFields
<1> HIDE DEF d
<1>4. ContactShape(d)  BY <1>2, <1>3 DEF ContactShape
<1>5. \A m : m \notin f => Silence(d, m) = Silence(c, m)
  BY <1>2, <1>3 DEF Silence
<1> QED  BY <1>1, <1>3, <1>4, <1>5
(* What a step of the leader, or a poll it serves, may do: it leaves agents *)
(* and journals alone. *)
LeaderFrame ==
    /\ CouncilShape(council') /\ backup' = backup /\ agent' = agent /\ journal' = journal
    /\ execution' = execution /\ setting' = setting /\ FaultsGrow
    /\ term' \in Nat /\ ContactShape(contacts') /\ contacts'.term <= term'
    /\ scan' \subseteq Nodes /\ late' \subseteq Nodes
    /\ DOMAIN poll' = Nodes
    /\ \A m \in Nodes :
          /\ PollShape(poll'[m])
          /\ poll'[m] # Idle => m \in setting.consumers

(* Such a step keeps the types, and it is left to show what it does to the  *)
(* leases. *)
LEMMA LeaderTyped ==
    ASSUME Inv, LeaderFrame, LeaseInv /\ Steady' => LeaseInv'
    PROVE  Inv'
<1>1. Typed /\ (Steady => LeaseInv)  BY DEF Inv
<1>2. \A m \in Nodes : NodeShape(m)'
  <2> TAKE m \in Nodes
  <2>1. NodeShape(m)  BY <1>1 DEF Typed
  <2>2. PollShape(poll'[m]) /\ (poll'[m] # Idle => m \in setting.consumers)
    BY DEF LeaderFrame
  <2> QED  BY <2>1, <2>2 DEF LeaderFrame, NodeShape, AgentShape, JournalShape, PollShape
<1>3. CouncilShape(council)' /\ CouncilShape(backup)'
  BY <1>1 DEF LeaderFrame, Typed, CouncilShape
<1>4. Typed'
  BY <1>1, <1>2, <1>3 DEF LeaderFrame, Typed, ContactShape, FaultsGrow
<1>5. Steady' => LeaseInv'  BY <1>1 DEF LeaderFrame, FaultsGrow
<1> QED  BY <1>4, <1>5 DEF Inv

(* What the invariant says of the leader.                                   *)
LEMMA LeaderFacts ==
    ASSUME Inv
    PROVE  /\ CouncilShape(council) /\ CouncilShape(backup) /\ term \in Nat
           /\ ContactShape(contacts) /\ contacts.term <= term
           /\ scan \subseteq Nodes /\ late \subseteq Nodes
           /\ DOMAIN poll = Nodes /\ faults \in [Kinds -> Nat]
           /\ \A m \in Nodes : /\ PollShape(poll[m])
                               /\ poll[m] # Idle => m \in setting.consumers
BY DEF Inv, Typed, NodeShape

(* A poll is served only while no discharge of its node is under way, and   *)
(* its lease runs from the moment the leader counts from.                   *)
LEMMA PollKeeps ==
    ASSUME Inv, NEW n \in Nodes, Poll(n)
    PROVE  Inv'
<1>1. PICK c : c = ObserveTerm(contacts)  OBVIOUS
<1> DEFINE p == [stage |-> "recorded", age |-> 0]
<1>2. /\ n \in setting.consumers /\ n \notin c.discharging
      /\ Count("lost") \/ faults' = faults
      /\ contacts' = Served(c, n) /\ poll' = [poll EXCEPT ![n] = p]
      /\ council' = council /\ backup' = backup /\ term' = term /\ scan' = scan /\ late' = late
      /\ agent' = agent /\ journal' = journal /\ execution' = execution /\ setting' = setting
  BY <1>1 DEF Poll, workload
<1>3. /\ ContactShape(c) /\ c.term = term
      /\ contacts.term = term => c = contacts
      /\ contacts.term # term => c.discharging = {} /\ \A m : Silence(c, m) = 0
  BY <1>1, ObserveFacts
<1>4. /\ ContactShape(contacts') /\ contacts'.term = term
      /\ contacts'.discharging = c.discharging
      /\ Silence(contacts', n) = 0
      /\ \A m : m # n => Silence(contacts', m) = Silence(c, m)
  BY <1>2, <1>3, ServedFacts
<1>5. FaultsGrow  BY <1>2, LeaderFacts, SameGrows, CountGrows DEF Kinds
<1>6. p # Idle /\ p.age = 0 /\ PollShape(p)
  <2>1. p.stage # Idle.stage /\ DOMAIN p = {"stage", "age"}  BY DEF Idle
  <2> QED  BY <2>1, WithdrawalAssumption DEF PollShape
<1> HIDE DEF p
<1>7. /\ DOMAIN poll' = Nodes /\ poll'[n] = p
      /\ \A m \in Nodes : m # n => poll'[m] = poll[m]
  BY <1>2, LeaderFacts
<1>8. LeaderFrame
  BY <1>2, <1>4, <1>5, <1>6, <1>7, LeaderFacts DEF LeaderFrame
<1>9. ASSUME LeaseInv PROVE LeaseInv'
  <2>1. \A m \in Nodes : Timely(m)'
    <3> TAKE m \in Nodes
    <3>1. \A x \in Claims(agent[m]) : x \in 0 .. Lease  BY NodeFacts, ClaimsTyped
    <3>2. CASE m = n
      <4>1. PollAge(poll'[n]) = 0  BY <1>6, <1>7 DEF PollAge
      <4> QED  BY <3>1, <3>2, <4>1, <1>2, <1>4 DEF Timely
    <3>3. CASE m # n
      <4>1. Timely(m)  BY <1>9 DEF LeaseInv
      <4>2. poll'[m] = poll[m] /\ Silence(contacts', m) = Silence(c, m)
        BY <3>3, <1>4, <1>7
      <4>3. PollAge(poll[m]) \in 0 .. Lease
        BY LeaderFacts, WithdrawalAssumption DEF PollShape, PollAge
      <4>4. CASE contacts.term = term  BY <4>1, <4>2, <4>4, <1>2, <1>3 DEF Timely
      <4>5. CASE contacts.term # term
        BY <4>2, <4>3, <4>5, <3>1, <1>2, <1>3 DEF Timely
      <4> QED  BY <4>4, <4>5
    <3> QED  BY <3>2, <3>3
  <2>2. \A m \in Nodes : Silent(m) => Silent(m)'  BY <1>2 DEF Silent
  <2>3. scan' = scan /\ late' = late /\ contacts'.term = term'  BY <1>2, <1>4
  <2>4. CASE contacts.term = term
    <3>1. contacts'.discharging = contacts.discharging /\ n \notin contacts.discharging
      BY <2>4, <1>2, <1>3, <1>4
    <3>2. \A m \in Nodes : m # n => PollAge(poll[m])' = PollAge(poll[m])  BY <1>7
    <3> QED  BY <2>1, <2>2, <2>3, <2>4, <3>1, <3>2, <1>2, <1>9 DEF LeaseInv
  <2>5. CASE contacts.term # term
    <3>1. scan = {} /\ late = {}  BY <2>5, <1>9 DEF LeaseInv
    <3>2. contacts'.discharging = {}  BY <2>5, <1>3, <1>4
    <3> QED  BY <2>1, <2>2, <2>3, <3>1, <3>2, <1>2, <1>9 DEF LeaseInv
  <2> QED  BY <2>4, <2>5
<1> QED  BY <1>8, <1>9, LeaderTyped

(* A discharge is decided only when the node has been silent longer than a  *)
(* lease runs: no claim of it can still be good.                            *)
LEMMA DecideKeeps ==
    ASSUME Inv, NEW alive, DecideDischarges(alive)
    PROVE  Inv'
<1>1. PICK c : c = ObserveTerm(contacts)  OBVIOUS
<1>2. PICK l : l = Lapsed(c, alive)  OBVIOUS
<1>3. /\ scan = {} /\ c.discharging = {} /\ scan' = l
      /\ contacts' = [c EXCEPT !.discharging = c.discharging \cup l]
      /\ council' = council /\ backup' = backup /\ term' = term /\ late' = late
      /\ agent' = agent /\ journal' = journal /\ execution' = execution /\ setting' = setting
      /\ poll' = poll /\ faults' = faults
  BY <1>1, <1>2 DEF DecideDischarges, Unsettled, nodes, workload
<1>4. /\ ContactShape(c) /\ c.term = term
      /\ contacts.term = term => c = contacts
      /\ contacts.term # term => \A m : Silence(c, m) = 0
  BY <1>1, ObserveFacts
<1>5. \A m \in l : m \in council.consumers /\ Silence(c, m) >= DischargeAfter
  BY <1>2 DEF Lapsed
<1>6. /\ DOMAIN contacts' = ContactFields /\ contacts'.term = term
      /\ contacts'.since = c.since /\ contacts'.served = c.served
      /\ contacts'.discharging = l
  BY <1>3, <1>4 DEF ContactShape, ContactFields
<1>7. ContactShape(contacts')  BY <1>4, <1>6 DEF ContactShape
<1>8. \A m : Silence(contacts', m) = Silence(c, m)  BY <1>6 DEF Silence
<1>9. l \subseteq Nodes
  <2>1. setting \in Settings /\ council.consumers \subseteq setting.consumers
    BY DEF Inv, Typed, CouncilShape
  <2>2. setting.consumers \subseteq Nodes  BY <2>1, WithdrawalAssumption DEF Setting
  <2> QED  BY <2>1, <2>2, <1>5
<1>10. LeaderFrame
  BY <1>3, <1>6, <1>7, <1>9, LeaderFacts, SameGrows DEF LeaderFrame
<1>11. ASSUME LeaseInv PROVE LeaseInv'
  <2>1. \A m \in Nodes : Timely(m)'
    <3> TAKE m \in Nodes
    <3>1. Timely(m)  BY <1>11 DEF LeaseInv
    <3>2. \A x \in Claims(agent[m]) : x \in 0 .. Lease  BY NodeFacts, ClaimsTyped
    <3>3. PollAge(poll[m]) \in 0 .. Lease
      BY LeaderFacts, WithdrawalAssumption DEF PollShape, PollAge
    <3>4. CASE contacts.term = term
      BY <3>1, <3>4, <1>3, <1>4, <1>8 DEF Timely
    <3>5. CASE contacts.term # term
      BY <3>2, <3>3, <3>5, <1>3, <1>4, <1>8 DEF Timely
    <3> QED  BY <3>4, <3>5
  <2>2. late = {}
    BY <1>3, <1>4, <1>11 DEF LeaseInv
  <2>3. \A m \in Nodes \cap l : Silent(m) /\ PollAge(poll[m]) = Lease
    <3> TAKE m \in Nodes \cap l
    <3>1. Silence(c, m) >= DischargeAfter  BY <1>5
    <3>2. contacts.term = term /\ c = contacts  BY <3>1, <1>4, WithdrawalAssumption
    <3>3. Timely(m)  BY <1>11 DEF LeaseInv
    <3>4. Silence(contacts, m) \in Int /\ Silence(contacts, m) > Lease
      BY <3>1, <3>2, <1>4, SilenceTyped, WithdrawalAssumption
    <3>5. \A x \in Claims(agent[m]) : x \in 0 .. Lease  BY NodeFacts, ClaimsTyped
    <3>6. PollAge(poll[m]) \in 0 .. Lease
      BY LeaderFacts, WithdrawalAssumption DEF PollShape, PollAge
    <3>7. \A x \in Claims(agent[m]) \cup {PollAge(poll[m])} : x = Lease
      BY <3>2, <3>3, <3>4, <3>5, <3>6, WithdrawalAssumption DEF Timely
    <3> QED  BY <3>7 DEF Silent
  <2>4. \A m \in Nodes : Silent(m) => Silent(m)'  BY <1>3 DEF Silent
  <2>5. \A m \in Nodes : PollAge(poll[m])' = PollAge(poll[m])  BY <1>3
  <2> QED  BY <2>1, <2>2, <2>3, <2>4, <2>5, <1>3, <1>6, <1>11 DEF LeaseInv
<1> QED  BY <1>10, <1>11, LeaderTyped
(* A node whose claims are all over is timely whatever the contacts say.    *)
LEMMA SilentIsTimely ==
    ASSUME NEW n, agent' = agent, poll' = poll, Silent(n), PollAge(poll[n]) = Lease
    PROVE  Timely(n)'
<1>1. Lease \in Int  BY WithdrawalAssumption
<1> QED  BY <1>1 DEF Silent, Timely

(* A discharge is written while its node is turned away, or times out and   *)
(* leaves it turned away. *)
LEMMA WriteDischargeKeeps ==
    ASSUME Inv, NEW n \in Nodes, WriteDischarge(n)
    PROVE  Inv'
<1>1. /\ n \in scan /\ scan' = scan \ {n}
      /\ \/ /\ council' = DischargeConsumer(council, n)
            /\ contacts' = FinishDischarge(contacts, {n}) /\ late' = late /\ faults' = faults
         \/ /\ Count("lost") /\ late' = late \cup {n}
            /\ council' = council /\ contacts' = contacts
      /\ backup' = backup /\ term' = term /\ agent' = agent /\ journal' = journal
      /\ execution' = execution /\ setting' = setting /\ poll' = poll
  BY DEF WriteDischarge, nodes, workload
<1>2. /\ CouncilShape(council') /\ council.consumers \ {n} \subseteq council'.consumers
  BY <1>1, LeaderFacts, DischargeShape
<1>3. /\ ContactShape(contacts') /\ contacts'.term = contacts.term
      /\ \/ contacts'.discharging = contacts.discharging \ {n} /\ late' = late
         \/ contacts'.discharging = contacts.discharging /\ late' = late \cup {n}
      /\ \A m : m # n => Silence(contacts', m) = Silence(contacts, m)
  <2>1. ContactShape(contacts)  BY LeaderFacts
  <2>2. CASE contacts' = FinishDischarge(contacts, {n}) /\ late' = late
    BY <2>1, <2>2, FinishFacts
  <2>3. CASE contacts' = contacts /\ late' = late \cup {n}
    BY <2>1, <2>3
  <2> QED  BY <1>1, <2>2, <2>3
<1>4. FaultsGrow  BY <1>1, LeaderFacts, SameGrows, CountGrows DEF Kinds
<1>5. LeaderFrame
  BY <1>1, <1>2, <1>3, <1>4, LeaderFacts DEF LeaderFrame
<1>6. ASSUME LeaseInv PROVE LeaseInv'
  <2>1. contacts.term = term /\ n \in contacts.discharging /\ n \notin late
    BY <1>1, <1>6 DEF LeaseInv
  <2>2. Silent(n) /\ PollAge(poll[n]) = Lease  BY <2>1, <1>6 DEF LeaseInv
  <2>3. \A m \in Nodes : Timely(m)'
    <3> TAKE m \in Nodes
    <3>1. Timely(m)  BY <1>6 DEF LeaseInv
    <3>2. CASE m = n  BY <3>2, <2>2, <1>1, SilentIsTimely
    <3>3. CASE m # n  BY <3>1, <3>3, <1>1, <1>3 DEF Timely
    <3> QED  BY <3>2, <3>3
  <2>4. \A m \in Nodes : Silent(m) => Silent(m)'  BY <1>1 DEF Silent
  <2>5. \A m \in Nodes : PollAge(poll[m])' = PollAge(poll[m])  BY <1>1
  <2>6. \A m \in Nodes \ council'.consumers : Silent(m)
    BY <2>2, <1>2, <1>6 DEF LeaseInv
  <2>7. /\ scan' \cup late' \subseteq contacts'.discharging /\ scan' \cap late' = {}
        /\ contacts'.discharging \subseteq contacts.discharging
    BY <2>1, <1>1, <1>3, <1>6 DEF LeaseInv
  <2> QED  BY <2>1, <2>3, <2>4, <2>5, <2>6, <2>7, <1>1, <1>3, <1>6 DEF LeaseInv
<1> QED  BY <1>5, <1>6, LeaderTyped

(* A write that timed out commits late: its node is still turned away.      *)
LEMMA CommitLateKeeps ==
    ASSUME Inv, NEW n \in Nodes, CommitLate(n)
    PROVE  Inv'
<1>1. /\ n \in late /\ late' = late \ {n} /\ council' = DischargeConsumer(council, n)
      /\ contacts' = contacts /\ scan' = scan /\ faults' = faults
      /\ backup' = backup /\ term' = term /\ agent' = agent /\ journal' = journal
      /\ execution' = execution /\ setting' = setting /\ poll' = poll
  BY DEF CommitLate, nodes, workload
<1>2. CouncilShape(council') /\ council'.consumers = council.consumers \ {n}
  BY <1>1, LeaderFacts, DischargeShape
<1>3. LeaderFrame
  BY <1>1, <1>2, LeaderFacts, SameGrows DEF LeaderFrame
<1>4. ASSUME LeaseInv PROVE LeaseInv'
  <2>1. contacts.term = term /\ n \in contacts.discharging
    BY <1>1, <1>4 DEF LeaseInv
  <2>2. Silent(n)  BY <2>1, <1>4 DEF LeaseInv
  <2>3. \A m \in Nodes : Timely(m) => Timely(m)'  BY <1>1 DEF Timely
  <2>4. \A m \in Nodes : Silent(m) => Silent(m)'  BY <1>1 DEF Silent
  <2>5. \A m \in Nodes : PollAge(poll[m])' = PollAge(poll[m])  BY <1>1
  <2> QED  BY <2>1, <2>2, <2>3, <2>4, <2>5, <1>1, <1>2, <1>4 DEF LeaseInv
<1> QED  BY <1>3, <1>4, LeaderTyped

(* The barrier of the next tick ends every discharge at once.               *)
LEMMA SettleKeeps ==
    ASSUME Inv, SettleDischarges
    PROVE  Inv'
<1>1. PICK c : c = ObserveTerm(contacts)  OBVIOUS
<1>2. /\ scan = {} /\ c.discharging # {} /\ late' = {} /\ scan' = scan
      /\ contacts' = FinishDischarge(c, c.discharging)
      /\ council' = council /\ backup' = backup /\ term' = term
      /\ agent' = agent /\ journal' = journal /\ execution' = execution /\ setting' = setting
      /\ poll' = poll /\ faults' = faults
  BY <1>1 DEF SettleDischarges, Unsettled, nodes, workload
<1>3. contacts.term = term /\ c = contacts /\ ContactShape(c)
  BY <1>1, <1>2, ObserveFacts
<1>4. /\ ContactShape(contacts') /\ contacts'.term = term /\ contacts'.discharging = {}
      /\ \A m : m \notin contacts.discharging => Silence(contacts', m) = Silence(contacts, m)
  <2>1. c.discharging \ c.discharging = {}  OBVIOUS
  <2> QED  BY <2>1, <1>2, <1>3, FinishFacts
<1>5. LeaderFrame
  BY <1>2, <1>4, LeaderFacts, SameGrows DEF LeaderFrame
<1>6. ASSUME LeaseInv PROVE LeaseInv'
  <2>1. \A m \in Nodes : Timely(m)'
    <3> TAKE m \in Nodes
    <3>1. Timely(m)  BY <1>6 DEF LeaseInv
    <3>2. CASE m \in contacts.discharging
      <4>1. Silent(m) /\ PollAge(poll[m]) = Lease  BY <3>2, <1>3, <1>6 DEF LeaseInv
      <4> QED  BY <4>1, <1>2, SilentIsTimely
    <3>3. CASE m \notin contacts.discharging
      BY <3>1, <3>3, <1>2, <1>3, <1>4 DEF Timely
    <3> QED  BY <3>2, <3>3
  <2>2. \A m \in Nodes : Silent(m) => Silent(m)'  BY <1>2 DEF Silent
  <2> QED  BY <2>1, <2>2, <1>2, <1>4, <1>6 DEF LeaseInv
<1> QED  BY <1>5, <1>6, LeaderTyped

(* A new leader has contacts of its own term only, so none yet.             *)
LEMMA ElectKeeps ==
    ASSUME Inv, Elect \/ Reelect
    PROVE  Inv'
<1>1. /\ term' = term + 1 /\ late' = {} /\ scan' \subseteq scan
      /\ poll' = [n \in Nodes |-> Idle]
      /\ council' = council /\ backup' = backup /\ contacts' = contacts
      /\ agent' = agent /\ journal' = journal /\ execution' = execution /\ setting' = setting
  BY DEF Elect, Reelect, workload
<1>2. (Count("elections") /\ scan' = {}) \/ Count("reelections")
  BY DEF Elect, Reelect
<1>3. FaultsGrow  BY <1>2, LeaderFacts, CountGrows DEF Kinds
<1>4. contacts'.term < term'  BY <1>1, LeaderFacts DEF ContactShape
<1>5. DOMAIN poll' = Nodes /\ \A m \in Nodes : poll'[m] = Idle  BY <1>1
<1>6. LeaderFrame
  BY <1>1, <1>3, <1>4, <1>5, LeaderFacts DEF LeaderFrame, PollShape, ContactShape
<1>7. ASSUME LeaseInv, Steady' PROVE LeaseInv'
  <2>1. scan' = {}
    BY <1>2, <1>7, LeaderFacts DEF Count, Steady, Kinds
  <2>2. contacts'.term # term'  BY <1>4, <1>1, LeaderFacts DEF ContactShape
  <2>3. \A m \in Nodes : Timely(m)'  BY <2>2 DEF Timely
  <2>4. \A m \in Nodes : Silent(m) => Silent(m)'  BY <1>1 DEF Silent
  <2> QED  BY <2>1, <2>2, <2>3, <2>4, <1>1, <1>7 DEF LeaseInv
<1> QED  BY <1>6, <1>7, LeaderTyped

(* A council restored from a backup may have forgotten consumers, but every *)
(* lease has run out by then.                                               *)
LEMMA RecoverKeeps ==
    ASSUME Inv, Recover
    PROVE  Inv'
<1>1. /\ term' = term + 1 /\ late' = {} /\ scan' = {} /\ Count("recoveries")
      /\ \A n \in Nodes : Outlived(n)
      /\ council' = EnterRecoveryEpoch(backup, council.epoch)
      /\ backup' = backup /\ contacts' = contacts /\ poll' = poll
      /\ agent' = agent /\ journal' = journal /\ execution' = execution /\ setting' = setting
  BY DEF Recover, nodes
<1>2. CouncilShape(council')
  BY <1>1, LeaderFacts, RecoveryShape DEF CouncilShape
<1>3. FaultsGrow  BY <1>1, LeaderFacts, CountGrows DEF Kinds
<1>4. contacts'.term < term'  BY <1>1, LeaderFacts DEF ContactShape
<1>5. LeaderFrame
  BY <1>1, <1>2, <1>3, <1>4, LeaderFacts DEF LeaderFrame, ContactShape
<1>6. ASSUME LeaseInv PROVE LeaseInv'
  <2>1. contacts'.term # term'  BY <1>4, <1>1, LeaderFacts DEF ContactShape
  <2>2. \A m \in Nodes : Timely(m)'  BY <2>1 DEF Timely
  <2>3. \A m \in Nodes : Silent(m)'
    <3> TAKE m \in Nodes
    <3>1. Outlived(m)  BY <1>1
    <3>2. Age(agent[m].waiting) = Lease /\ Age(agent[m].sync) = Lease
      BY <3>1 DEF Outlived, Age
    <3>3. Lease - agent[m].lease = Lease  BY <3>1, WithdrawalAssumption DEF Outlived
    <3> QED  BY <3>2, <3>3, <1>1 DEF Silent, Claims
  <2> QED  BY <2>1, <2>2, <2>3, <1>1 DEF LeaseInv
<1> QED  BY <1>5, <1>6, LeaderTyped

(* Every step of the leader keeps the invariant.                            *)
LEMMA LeaderStepKeeps ==
    ASSUME Inv, LeaderStep
    PROVE  Inv'
BY LeaderQuietKeeps, DecideKeeps, WriteDischargeKeeps, CommitLateKeeps, SettleKeeps, ElectKeeps,
   RecoverKeeps DEF LeaderStep
-----------------------------------------------------------------------------
(* Time.                                                                    *)

(* A request grows a tick older, until its lease has run out.               *)
LEMMA AgedFacts ==
    ASSUME NEW r, RequestShape(r)
    PROVE  RequestShape(Aged(r)) /\ Age(Aged(r)) = Least(Age(r) + 1, Lease)
<1>1. CASE r = NoRequest
  BY <1>1, NoRequestFacts, WithdrawalAssumption DEF Aged, Least
<1>2. CASE r # NoRequest /\ r.age = LocalRequest
  <2>1. Aged(r) = r /\ Age(r) = Lease  BY <1>2 DEF Aged, Age
  <2> QED  BY <2>1, WithdrawalAssumption DEF Least
<1>3. CASE r # NoRequest /\ r.age # LocalRequest
  <2>1. PICK x : x = Least(r.age + 1, Lease)  OBVIOUS
  <2>2. PICK q : q = [r EXCEPT !.age = x]  OBVIOUS
  <2>3. Aged(r) = q  BY <1>3, <2>1, <2>2 DEF Aged
  <2>4. /\ {"at", "age"} \subseteq DOMAIN r /\ r.at # "none"
        /\ r.age \in LocalRequest .. Lease /\ Age(r) = r.age
    BY <1>3, RequestFacts
  <2>5. r.age \in 0 .. Lease  BY <1>3, <2>4, WithdrawalAssumption DEF LocalRequest
  <2>6. x \in 1 .. Lease  BY <2>1, <2>5, WithdrawalAssumption DEF Least
  <2>7. DOMAIN q = DOMAIN r /\ q.age = x /\ q.at = r.at  BY <2>2, <2>4
  <2>8. q # NoRequest  BY <2>4, <2>7, AgedIsRequest
  <2>9. x # LocalRequest /\ x \in LocalRequest .. Lease
    BY <2>6, WithdrawalAssumption DEF LocalRequest
  <2>10. RequestShape(q)  BY <2>4, <2>7, <2>9 DEF RequestShape
  <2>11. Age(q) = x  BY <2>7, <2>8, <2>9 DEF Age
  <2> QED  BY <2>1, <2>3, <2>4, <2>10, <2>11
<1> QED  BY <1>1, <1>2, <1>3

(* One tick ages every claim by one tick, until its lease has run out.      *)
Older(x) == Least(x + 1, Lease)

(* So it is for the lease and the requests of an agent.                     *)
LEMMA OlderAgent ==
    ASSUME NEW a, AgentShape(a), NEW d,
           d = [a EXCEPT !.lease = Greatest(@ - 1, 0),
                         !.waiting = Aged(@), !.sync = Aged(@)]
    PROVE  /\ AgentShape(d)
           /\ \A y \in Claims(d) : \E x \in Claims(a) : y = Older(x)
<1>1. /\ DOMAIN a = AgentFields /\ a.lease \in 0 .. Lease
      /\ RequestShape(a.waiting) /\ RequestShape(a.sync)
  BY DEF AgentShape
<1>2. PICK l : l = Greatest(a.lease - 1, 0)  OBVIOUS
<1>3. PICK w : w = Aged(a.waiting)  OBVIOUS
<1>4. PICK s : s = Aged(a.sync)  OBVIOUS
<1>5. d = [a EXCEPT !.lease = l, !.waiting = w, !.sync = s]  BY <1>2, <1>3, <1>4
<1>6. DOMAIN d = AgentFields /\ d.lease = l /\ d.waiting = w /\ d.sync = s
  BY <1>1, <1>5 DEF AgentFields
<1>7. l \in 0 .. Lease /\ Lease - l = Older(Lease - a.lease)
  BY <1>1, <1>2, WithdrawalAssumption DEF Greatest, Older, Least
<1>8. RequestShape(w) /\ Age(w) = Older(Age(a.waiting))
  BY <1>1, <1>3, AgedFacts DEF Older
<1>9. RequestShape(s) /\ Age(s) = Older(Age(a.sync))
  BY <1>1, <1>4, AgedFacts DEF Older
<1>10. AgentShape(d)  BY <1>6, <1>7, <1>8, <1>9 DEF AgentShape
<1>11. Claims(d) = {Older(Lease - a.lease), Older(Age(a.waiting)), Older(Age(a.sync))}
  BY <1>6, <1>7, <1>8, <1>9 DEF Claims
<1>12. Claims(a) = {Lease - a.lease, Age(a.waiting), Age(a.sync)}  BY DEF Claims
<1> QED  BY <1>10, <1>11, <1>12

(* And for a poll under way.                                                *)
LEMMA OlderPoll ==
    ASSUME NEW p, PollShape(p), NEW q,
           q = IF p = Idle THEN Idle ELSE [p EXCEPT !.age = Least(@ + 1, Lease)]
    PROVE  PollShape(q) /\ PollAge(q) = Older(PollAge(p)) /\ (q # Idle => p # Idle)
<1>1. CASE p = Idle
  BY <1>1, WithdrawalAssumption DEF PollShape, PollAge, Older, Least
<1>2. CASE p # Idle
  <2>1. PICK x : x = Least(p.age + 1, Lease)  OBVIOUS
  <2>2. q = [p EXCEPT !.age = x]  BY <1>2, <2>1
  <2>3. DOMAIN p = {"stage", "age"} /\ p.stage = "recorded" /\ p.age \in 0 .. Lease
    BY <1>2 DEF PollShape
  <2>4. x \in 0 .. Lease  BY <2>1, <2>3, WithdrawalAssumption DEF Least
  <2>5. DOMAIN q = {"stage", "age"} /\ q.stage = "recorded" /\ q.age = x  BY <2>2, <2>3
  <2>6. q # Idle
    <3>1. Idle.stage = "idle"  BY DEF Idle
    <3> QED  BY <3>1, <2>5
  <2> QED  BY <1>2, <2>1, <2>4, <2>5, <2>6 DEF PollShape, PollAge, Older
<1> QED  BY <1>1, <1>2

(* The leader's count of a silence grows by at most one tick.               *)
LEMMA TickContacts ==
    ASSUME NEW c, ContactShape(c), NEW d,
           d = [c EXCEPT !.since = Least(@ + 1, DischargeAfter),
                         !.served = [n \in DOMAIN @ |-> Least(@[n] + 1, DischargeAfter)]]
    PROVE  /\ ContactShape(d) /\ d.term = c.term /\ d.discharging = c.discharging
           /\ \A n : Silence(d, n) <= Silence(c, n) + 1
<1>1. /\ DOMAIN c = ContactFields /\ c.term \in Nat /\ c.since \in 0 .. DischargeAfter
      /\ \A n \in DOMAIN c.served : c.served[n] \in 0 .. DischargeAfter
  BY DEF ContactShape
<1>2. PICK s : s = Least(c.since + 1, DischargeAfter)  OBVIOUS
<1>3. PICK v : v = [n \in DOMAIN c.served |-> Least(c.served[n] + 1, DischargeAfter)]  OBVIOUS
<1>4. d = [c EXCEPT !.since = s, !.served = v]  BY <1>2, <1>3
<1>5. /\ DOMAIN d = ContactFields /\ d.since = s /\ d.served = v /\ d.term = c.term
      /\ d.discharging = c.discharging
  BY <1>1, <1>4 DEF ContactFields
<1>6. s \in 0 .. DischargeAfter /\ s <= c.since + 1
  BY <1>1, <1>2, WithdrawalAssumption DEF Least
<1>7. DOMAIN v = DOMAIN c.served  BY <1>3
<1>8. \A n \in DOMAIN v : v[n] \in 0 .. DischargeAfter /\ v[n] <= c.served[n] + 1
  BY <1>1, <1>3, WithdrawalAssumption DEF Least
<1>9. ContactShape(d)  BY <1>1, <1>5, <1>6, <1>8 DEF ContactShape
<1>10. \A n : Silence(d, n) <= Silence(c, n) + 1
  BY <1>1, <1>5, <1>6, <1>7, <1>8, WithdrawalAssumption DEF Silence, Least
<1> QED  BY <1>5, <1>9, <1>10

(* A tick ages claims and silences alike: a silence never gets ahead of a   *)
(* claim that is still good.                                                *)
LEMMA TickKeeps ==
    ASSUME Inv, Tick
    PROVE  Inv'
<1>1. /\ agent' = [n \in Nodes |->
             [agent[n] EXCEPT !.lease = Greatest(@ - 1, 0),
                              !.waiting = Aged(@), !.sync = Aged(@)]]
      /\ poll' = [n \in Nodes |-> IF poll[n] = Idle THEN Idle
                                  ELSE [poll[n] EXCEPT !.age = Least(@ + 1, Lease)]]
      /\ contacts' = [contacts EXCEPT
             !.since = Least(@ + 1, DischargeAfter),
             !.served = [n \in DOMAIN @ |-> Least(@[n] + 1, DischargeAfter)]]
      /\ council' = council /\ backup' = backup /\ term' = term /\ scan' = scan /\ late' = late
      /\ journal' = journal /\ execution' = execution /\ faults' = faults /\ setting' = setting
  BY DEF Tick, workload
<1>2. Typed /\ (Steady => LeaseInv)  BY DEF Inv
<1>3. \A m \in Nodes : /\ AgentShape(agent'[m])
                       /\ \A y \in Claims(agent'[m]) : \E x \in Claims(agent[m]) : y = Older(x)
  <2> TAKE m \in Nodes
  <2>1. PICK a : a = agent[m]  OBVIOUS
  <2>2. PICK d : d = [a EXCEPT !.lease = Greatest(@ - 1, 0),
                               !.waiting = Aged(@), !.sync = Aged(@)]
    OBVIOUS
  <2>3. agent'[m] = d  BY <1>1, <2>1, <2>2
  <2>4. AgentShape(a)  BY <2>1, NodeFacts
  <2>5. AgentShape(d) /\ \A y \in Claims(d) : \E x \in Claims(a) : y = Older(x)
    BY <2>2, <2>4, OlderAgent
  <2> QED  BY <2>1, <2>3, <2>5
<1>4. \A m \in Nodes : /\ PollShape(poll'[m]) /\ PollAge(poll'[m]) = Older(PollAge(poll[m]))
                       /\ poll'[m] # Idle => poll[m] # Idle
  <2> TAKE m \in Nodes
  <2>1. PICK p : p = poll[m]  OBVIOUS
  <2>2. PICK q : q = IF p = Idle THEN Idle ELSE [p EXCEPT !.age = Least(@ + 1, Lease)]
    OBVIOUS
  <2>3. poll'[m] = q  BY <1>1, <2>1, <2>2
  <2>4. PollShape(p)  BY <2>1, NodeFacts
  <2> QED  BY <2>1, <2>2, <2>3, <2>4, OlderPoll
<1>5. /\ ContactShape(contacts') /\ contacts'.term = contacts.term
      /\ contacts'.discharging = contacts.discharging
      /\ \A n : Silence(contacts', n) <= Silence(contacts, n) + 1
  <2>1. PICK c : c = contacts  OBVIOUS
  <2>2. PICK d : d = contacts'  OBVIOUS
  <2>3. d = [c EXCEPT !.since = Least(@ + 1, DischargeAfter),
                      !.served = [n \in DOMAIN @ |-> Least(@[n] + 1, DischargeAfter)]]
    BY <1>1, <2>1, <2>2
  <2>4. ContactShape(c)  BY <2>1, LeaderFacts
  <2> QED  BY <2>1, <2>2, <2>3, <2>4, TickContacts
<1>6. DOMAIN agent' = Nodes /\ DOMAIN poll' = Nodes  BY <1>1
<1>7. \A m \in Nodes : NodeShape(m)'
  <2> TAKE m \in Nodes
  <2>1. NodeShape(m)  BY <1>2 DEF Typed
  <2>2. AgentShape(agent'[m]) /\ PollShape(poll'[m])  BY <1>3, <1>4
  <2>3. poll'[m] # Idle => m \in setting.consumers  BY <2>1, <1>4 DEF NodeShape
  <2> QED  BY <2>1, <2>2, <2>3, <1>1 DEF NodeShape, AgentShape, JournalShape, PollShape
<1>8. CouncilShape(council)' /\ CouncilShape(backup)'
  BY <1>1, <1>2 DEF Typed, CouncilShape
<1>9. Typed'
  BY <1>1, <1>2, <1>5, <1>6, <1>7, <1>8 DEF Typed, ContactShape
<1>10. ASSUME Steady' PROVE LeaseInv'
  <2>1. LeaseInv  BY <1>1, <1>2, <1>10 DEF Steady
  <2>2. \A m \in Nodes : Timely(m)'
    <3> TAKE m \in Nodes
    <3>1. Timely(m)  BY <2>1 DEF LeaseInv
    <3>2. ASSUME contacts.term = term,
                 NEW y \in Claims(agent'[m]) \cup {PollAge(poll'[m])}, y < Lease
          PROVE  Silence(contacts', m) <= y
      <4>1. PICK x \in Claims(agent[m]) \cup {PollAge(poll[m])} : y = Older(x)
        BY <3>2, <1>3, <1>4
      <4>2. x \in 0 .. Lease
        <5>1. Claims(agent[m]) \subseteq 0 .. Lease  BY NodeFacts, ClaimsTyped
        <5>2. PollAge(poll[m]) \in 0 .. Lease
          BY LeaderFacts, WithdrawalAssumption DEF PollShape, PollAge
        <5> QED  BY <5>1, <5>2
      <4>3. x < Lease /\ y = x + 1
        <5>1. y = IF x + 1 < Lease THEN x + 1 ELSE Lease  BY <4>1 DEF Older, Least
        <5>2. y < Lease  BY <3>2
        <5>3. Lease \in Nat  BY WithdrawalAssumption
        <5>4. CASE x + 1 < Lease  BY <5>1, <5>4, <5>3, <4>2
        <5>5. CASE ~(x + 1 < Lease)  BY <5>1, <5>2, <5>3, <5>5
        <5> QED  BY <5>4, <5>5
      <4>4. Silence(contacts, m) <= x  BY <3>1, <3>2, <4>3 DEF Timely
      <4>5. Silence(contacts', m) \in Int /\ Silence(contacts, m) \in Int
        <5>1. ContactShape(contacts) /\ ContactShape(contacts')  BY <1>5, LeaderFacts
        <5>2. /\ Silence(contacts', m) \in 0 .. DischargeAfter
              /\ Silence(contacts, m) \in 0 .. DischargeAfter
          BY <5>1, SilenceTyped
        <5> QED  BY <5>2, WithdrawalAssumption
      <4>6. Silence(contacts', m) <= Silence(contacts, m) + 1  BY <1>5
      <4> QED  BY <4>2, <4>3, <4>4, <4>5, <4>6
    <3> QED  BY <3>2, <1>1, <1>5 DEF Timely
  <2>3. Older(Lease) = Lease  BY WithdrawalAssumption DEF Older, Least
  <2>4. \A m \in Nodes : Silent(m) => Silent(m)'  BY <2>3, <1>3 DEF Silent
  <2>5. \A m \in Nodes : PollAge(poll[m]) = Lease => PollAge(poll[m])' = Lease
    BY <2>3, <1>4
  <2> QED  BY <2>1, <2>2, <2>4, <2>5, <1>1, <1>5 DEF LeaseInv
<1> QED  BY <1>9, <1>10 DEF Inv
-----------------------------------------------------------------------------
(* Types and leases.                                                        *)

(* The cluster starts with nobody polling, so with no lease to claim.       *)
LEMMA InitInv == Init => Inv
<1> SUFFICES ASSUME Init PROVE Inv  OBVIOUS
<1>1. /\ setting \in Settings /\ backup = council /\ term = 1 /\ scan = {} /\ late = {}
      /\ contacts = [term |-> 1, since |-> 0, served |-> NoServices, discharging |-> {}]
      /\ poll = [n \in Nodes |-> Idle] /\ agent = [n \in Nodes |-> EmptyAgent]
      /\ journal = [n \in Nodes |-> EmptyJournal]
  BY DEF Init
<1>2. PICK c : council = [EmptyCouncil EXCEPT !.generation = 1, !.catalog = c]
  BY DEF Init
<1>3. CouncilShape(council) /\ CouncilShape(backup)
  BY <1>1, <1>2 DEF EmptyCouncil, CouncilShape, CouncilFields
<1>4. DOMAIN NoServices = {}  BY DEF NoServices
<1>5. ContactShape(contacts) /\ contacts.term = term /\ contacts.discharging = {}
  BY <1>1, <1>4, WithdrawalAssumption DEF ContactShape, ContactFields
<1>6. faults \in [Kinds -> Nat]  BY DEF Init, Kinds
<1>7. execution \in [Executions -> Lives]
  <2>1. execution = [e \in Executions |-> IF e = setting.first THEN "running" ELSE "new"]
    BY DEF Init
  <2> QED  BY <2>1 DEF Lives
<1>8. /\ DOMAIN EmptyAgent = AgentFields /\ EmptyAgent.lease = 0
      /\ EmptyAgent.waiting = NoRequest /\ EmptyAgent.sync = NoRequest
  BY DEF EmptyAgent, AgentFields
<1>9. AgentShape(EmptyAgent)
  BY <1>8, NoRequestFacts, WithdrawalAssumption DEF AgentShape
<1>10. Claims(EmptyAgent) = {Lease}
  BY <1>8, NoRequestFacts, WithdrawalAssumption DEF Claims
<1>11. JournalShape(EmptyJournal)
  BY DEF JournalShape, EmptyJournal, JournalFields, Phases
<1>12. \A n \in Nodes : NodeShape(n)
  BY <1>1, <1>9, <1>11 DEF NodeShape, PollShape
<1>13. Typed
  BY <1>1, <1>3, <1>5, <1>6, <1>7, <1>12 DEF Typed
<1>14. \A n \in Nodes : Silent(n)  BY <1>1, <1>10 DEF Silent
<1>15. \A n \in Nodes : Timely(n)
  <2>1. Lease \in Int  BY WithdrawalAssumption
  <2>2. \A n \in Nodes : agent[n] = EmptyAgent /\ PollAge(poll[n]) = Lease
    BY <1>1 DEF PollAge
  <2> QED  BY <2>1, <2>2, <1>10 DEF Timely
<1>16. LeaseInv  BY <1>1, <1>5, <1>14, <1>15 DEF LeaseInv
<1> QED  BY <1>13, <1>16 DEF Inv

(* Every step keeps the invariant.                                          *)
LEMMA NextInv == Inv /\ [Next]_vars => Inv'
<1> SUFFICES ASSUME Inv, [Next]_vars PROVE Inv'  OBVIOUS
<1>1. ASSUME NEW e \in Executions, Start(e) \/ Retire(e) \/ Stop(e) \/ AskRelease(e)
      PROVE  Inv'
  BY <1>1, ExecutionKeeps
<1>2. ASSUME NEW s \in Services, Declare(s) PROVE Inv'
  BY <1>2, LeaderQuietKeeps
<1>3. CASE LeaderStep  BY <1>3, LeaderStepKeeps
<1>4. ASSUME NEW n \in Nodes, Poll(n) \/ Answer(n) \/ AgentStep(n) PROVE Inv'
  BY <1>4, PollKeeps, AnswerKeeps, AgentStepKeeps
<1>5. CASE Tick  BY <1>5, TickKeeps
<1>6. CASE UNCHANGED vars
  <2>1. /\ agent' = agent /\ journal' = journal /\ poll' = poll /\ term' = term
        /\ contacts' = contacts /\ scan' = scan /\ late' = late /\ setting' = setting
        /\ execution' = execution /\ backup' = backup /\ council' = council /\ faults' = faults
    BY <1>6 DEF vars, leader, nodes, workload
  <2>2. Frame
    BY <2>1, AgentsSucceed, StillFrame, SameGrows DEF Frame
  <2> QED  BY <2>2, FrameKeeps
<1> QED  BY <1>1, <1>2, <1>3, <1>4, <1>5, <1>6 DEF Next

(* The variables keep their types: in particular the ledger waits only for  *)
(* nodes that take part, and no lease exceeds CONSUMER_VIEW_LEASE, however  *)
(* polls, answers and local republications interleave.                      *)
THEOREM Typing == Spec => []TypeOK
<1>1. Inv => TypeOK
  BY DEF Inv, Typed, TypeOK, CouncilShape, NodeShape, AgentShape, JournalShape, Phases, Lives
<1> QED  BY <1>1, InitInv, NextInv, PTL DEF Spec

(* A node the ledger does not wait for routes to no other node: the leader  *)
(* discharges a consumer only after every lease it has, or may yet get from *)
(* an answer under way, has run out; for every cluster, lease and discharge *)
(* time longer than it, with crashes, elections, restores from a backup,    *)
(* and polls and writes whose outcome is lost.  A leader that loses its     *)
(* term and wins the next is excluded: see the README.                      *)
THEOREM DischargedHaveNoLease == Spec => [](Steady => UnregisteredHaveNoLease)
<1>1. Inv => (Steady => UnregisteredHaveNoLease)
  <2> SUFFICES ASSUME Inv, Steady, NEW n \in Nodes \ council.consumers
               PROVE  agent[n].lease = 0
    BY DEF UnregisteredHaveNoLease
  <2>1. Silent(n)  BY DEF Inv, LeaseInv
  <2>2. AgentShape(agent[n])  BY NodeFacts
  <2>3. Lease - agent[n].lease = Lease  BY <2>1 DEF Silent, Claims
  <2> QED  BY <2>2, <2>3, WithdrawalAssumption DEF AgentShape
<1> QED  BY <1>1, InitInv, NextInv, PTL DEF Spec
-----------------------------------------------------------------------------
(* Generations: what a node has heard of the catalogue.                     *)

WaitingFields == {"at", "age", "generation", "catalog", "withdrawals"}
UnderwayFields == {"at", "age", "publication", "withdrawals"}

(* A catalogue under its generation that ledger k has published: an earlier *)
(* one, or the one it has now.                                              *)
Current(k, g, c) ==
    g \in Nat /\ (g < k.generation \/ (g = k.generation /\ c = k.catalog))

AgentHears(a, k) ==
    /\ a.waiting # NoRequest => /\ DOMAIN a.waiting = WaitingFields
                                /\ Current(k, a.waiting.generation, a.waiting.catalog)
    /\ a.sync # NoRequest =>
          /\ DOMAIN a.sync = UnderwayFields
          /\ Current(k, a.sync.publication.generation, a.sync.publication.catalog)

JournalHears(j, k) ==
    /\ \E S : j.publications \in Seq(S)
    /\ j.publications # <<>> => Current(k, Latest(j).generation, Latest(j).catalog)
    /\ j.phase = "Active" => j.publications # <<>>

(* A synchronisation past its first write has journalled a publication.     *)
Informed(a, j, k) ==
    /\ AgentHears(a, k) /\ JournalHears(j, k)
    /\ a.sync # NoRequest /\ a.sync.at # "journal" => j.publications # <<>>

WordInv == \A n \in Nodes : Informed(agent[n], journal[n], council)

(* The ledger has not published more in its recovery epoch than the epoch   *)
(* has room for: 2^40 generations in the code.                              *)
InEpoch == council.generation < EpochFloor(council.epoch + 1)
(* A ledger that comes after k: what was current in k still is.             *)
Later(l, k) ==
    /\ l.generation \in Nat
    /\ l.generation > k.generation \/ (l.generation = k.generation /\ l.catalog = k.catalog)

(* Publishing raises the generation whenever the catalogue changes.         *)
LEMMA PlannedLater ==
    ASSUME NEW k, CouncilShape(k), NEW next
    PROVE  Later(Planned(k, next), k)
BY DEF CouncilShape, Planned, Later

(* So does a publication that is committed, and a refused one changes       *)
(* nothing. *)
LEMMA PublishLater ==
    ASSUME NEW k, CouncilShape(k), NEW g, NEW next
    PROVE  Later(PublishEndpoints(k, g, next), k)
BY PlannedLater DEF PublishEndpoints, Later, CouncilShape

(* Fencing an execution publishes the catalogue without it.                 *)
LEMMA RetireLater ==
    ASSUME NEW k, CouncilShape(k), NEW e
    PROVE  Later(RetireExecution(k, e), k)
<1> DEFINE f == k.fenced \cup {e}
           p == Planned(k, Withdrawn(f, k.catalog))
<1>1. CouncilShape(p) /\ Later(p, k)  BY PlannedShape, PlannedLater
<1>2. RetireExecution(k, e) = k \/ RetireExecution(k, e) = [p EXCEPT !.fenced = f]
  BY Zenon DEF RetireExecution
<1> HIDE DEF p, f
<1> QED  BY <1>1, <1>2 DEF CouncilShape, CouncilFields, Later

(* Receipts, registrations and discharges publish nothing.                  *)
LEMMA ConsumersLater ==
    ASSUME NEW k, CouncilShape(k), NEW n, NEW g
    PROVE  /\ Later(AcknowledgeWithdrawal(k, n, g), k)
           /\ Later(RegisterConsumer(k, n), k)
           /\ Later(DischargeConsumer(k, n), k)
<1> DEFINE q == Receipted(k.pending, {g}, n)
           r == Receipted(k.pending, DOMAIN k.pending, n)
<1>1. \/ AcknowledgeWithdrawal(k, n, g) = k
      \/ AcknowledgeWithdrawal(k, n, g) = [k EXCEPT !.pending = q]
  BY DEF AcknowledgeWithdrawal
<1>2. \/ DischargeConsumer(k, n) = k
      \/ DischargeConsumer(k, n) = [k EXCEPT !.consumers = k.consumers \ {n}, !.pending = r]
  BY Zenon DEF DischargeConsumer
<1>3. RegisterConsumer(k, n) = [k EXCEPT !.consumers = k.consumers \cup {n}]
  BY DEF RegisterConsumer
<1> HIDE DEF q, r
<1> QED  BY <1>1, <1>2, <1>3 DEF CouncilShape, CouncilFields, Later

(* A restored council publishes above every generation of the epochs before *)
(* its own. *)
LEMMA RecoveryLater ==
    ASSUME NEW b, CouncilShape(b), NEW k, CouncilShape(k),
           k.generation < EpochFloor(k.epoch + 1)
    PROVE  Later(EnterRecoveryEpoch(b, k.epoch), k)
<1> DEFINE e == (IF b.epoch > k.epoch THEN b.epoch ELSE k.epoch) + 1
           f == EpochFloor(e)
           g == IF b.generation > f THEN b.generation ELSE f
<1>1. /\ b.generation \in Nat /\ b.epoch \in Nat /\ k.generation \in Nat /\ k.epoch \in Nat
      /\ DOMAIN b = CouncilFields
  BY DEF CouncilShape
<1>2. EpochSpan \in Nat  BY EndpointLedgerAssumption
<1>3. e \in Nat /\ e >= k.epoch + 1  BY <1>1
<1>4. f \in Nat /\ f >= EpochFloor(k.epoch + 1)
  <2> HIDE DEF e
  <2>1. PICK d \in Nat : e = (k.epoch + 1) + d
    <3>1. e - (k.epoch + 1) \in Nat  BY <1>1, <1>3
    <3>2. e = (k.epoch + 1) + (e - (k.epoch + 1))  BY <1>1, <1>3
    <3> QED  BY <3>1, <3>2
  <2>2. ((k.epoch + 1) + d) * EpochSpan = (k.epoch + 1) * EpochSpan + d * EpochSpan
    BY <1>1, <1>2, <2>1
  <2>3. d * EpochSpan \in Nat /\ (k.epoch + 1) * EpochSpan \in Nat  BY <1>1, <1>2
  <2> QED  BY <2>1, <2>2, <2>3 DEF EpochFloor
<1>5. EnterRecoveryEpoch(b, k.epoch) = [b EXCEPT !.epoch = e, !.generation = g]
  BY Zenon DEF EnterRecoveryEpoch
<1> HIDE DEF e, f
<1>6. g \in Nat /\ g >= f  BY <1>1, <1>4
<1>7. EpochFloor(k.epoch + 1) \in Nat
  <2>1. (k.epoch + 1) * EpochSpan \in Nat  BY <1>1, <1>2
  <2> QED  BY <2>1 DEF EpochFloor
<1>8. g > k.generation  BY <1>1, <1>4, <1>6, <1>7
<1> HIDE DEF g
<1>9. EnterRecoveryEpoch(b, k.epoch).generation = g
  BY <1>1, <1>5 DEF CouncilFields
<1> QED  BY <1>6, <1>8, <1>9 DEF Later

(* What is current in a ledger is current in a later one.                   *)
LEMMA LaterInformed ==
    ASSUME NEW a, NEW j, NEW k, NEW l, Informed(a, j, k), Later(l, k), k.generation \in Nat
    PROVE  Informed(a, j, l)
<1>1. \A g, c : Current(k, g, c) => Current(l, g, c)  BY DEF Current, Later
<1> QED  BY <1>1 DEF Informed, AgentHears, JournalHears

(* A step that changes one agent and its journal, and perhaps moves the     *)
(* ledger on.                                                               *)
LEMMA WordsKept ==
    ASSUME Inv, WordInv, NEW n \in Nodes, NEW a, NEW j,
           agent' = [agent EXCEPT ![n] = a], journal' = [journal EXCEPT ![n] = j],
           Later(council', council), Informed(a, j, council')
    PROVE  WordInv'
<1>1. DOMAIN agent = Nodes /\ DOMAIN journal = Nodes /\ council.generation \in Nat
  BY DEF Inv, Typed, CouncilShape
<1>2. ASSUME NEW m \in Nodes PROVE Informed(agent'[m], journal'[m], council')
  <2>1. Informed(agent[m], journal[m], council')
    BY <1>1, LaterInformed DEF WordInv
  <2> QED  BY <1>1, <2>1
<1> QED  BY <1>2 DEF WordInv

(* The same for a step of a synchronisation, which leaves the ledger alone. *)
LEMMA SyncWords ==
    ASSUME Inv, WordInv, NEW n \in Nodes, NEW a, NEW j, Sync(n, a, j), Informed(a, j, council)
    PROVE  WordInv'
<1>1. /\ agent' = [agent EXCEPT ![n] = a] /\ journal' = [journal EXCEPT ![n] = j]
      /\ council' = council
  BY DEF Sync
<1>2. Later(council', council)  BY <1>1 DEF Inv, Typed, CouncilShape, Later
<1>3. Informed(a, j, council')  BY <1>1
<1> QED  BY <1>1, <1>2, <1>3, WordsKept

(* The end of a synchronisation leaves nothing under way.                   *)
LEMMA DoneInformed ==
    ASSUME NEW a, NEW j, NEW k, Informed(a, j, k), AgentShape(a), NEW p \in BOOLEAN
    PROVE  Informed(Done(a, p), j, k)
<1>1. Done(a, p).sync = NoRequest /\ Done(a, p).waiting = a.waiting
  BY DEF Done, AgentShape, AgentFields
<1> QED  BY <1>1 DEF Informed, AgentHears

(* The next step of a synchronisation, once its publication is journalled.  *)
LEMMA GotoInformed ==
    ASSUME NEW a, NEW j, NEW k, Informed(a, j, k), AgentShape(a), a.sync # NoRequest,
           NEW step, j.publications # <<>>
    PROVE  Informed(Goto(a, step), j, k)
<1> DEFINE r == a.sync
           q == [r EXCEPT !.at = step]
           d == [a EXCEPT !.sync = q]
<1>1. Goto(a, step) = d  BY DEF Goto
<1>2. DOMAIN a = AgentFields  BY DEF AgentShape
<1>3. DOMAIN r = UnderwayFields /\ Current(k, r.publication.generation, r.publication.catalog)
  BY DEF Informed, AgentHears
<1> HIDE DEF r
<1>4. DOMAIN q = UnderwayFields /\ q.publication = r.publication
  BY <1>3 DEF UnderwayFields
<1> HIDE DEF q
<1>5. d.sync = q /\ d.waiting = a.waiting  BY <1>2 DEF AgentFields
<1> HIDE DEF d
<1> QED  BY <1>1, <1>3, <1>4, <1>5 DEF Informed, AgentHears

(* An agent with the same requests is as well informed.                     *)
LEMMA SameInformed ==
    ASSUME NEW a, NEW b, NEW j, NEW k, Informed(a, j, k),
           b.waiting = a.waiting, b.sync = a.sync
    PROVE  Informed(b, j, k)
BY DEF Informed, AgentHears

(* So is one that has lost its requests.                                    *)
LEMMA LostInformed ==
    ASSUME NEW a, NEW b, NEW j, NEW k, Informed(a, j, k),
           b.waiting = a.waiting \/ b.waiting = NoRequest,
           b.sync = a.sync \/ b.sync = NoRequest
    PROVE  Informed(b, j, k)
BY DEF Informed, AgentHears

(* A journal whose publications stay, and which is not newly active, says   *)
(* what it said. *)
LEMMA JournalInformed ==
    ASSUME NEW a, NEW j, NEW i, NEW k, Informed(a, j, k),
           i.publications = j.publications,
           i.phase = "Active" => i.publications # <<>>
    PROVE  Informed(a, i, k)
BY DEF Informed, JournalHears, Latest

(* One publication alone.                                                   *)
LEMMA OnlyPublication ==
    ASSUME NEW p, NEW j, j.publications = <<p>>
    PROVE  /\ \E S : j.publications \in Seq(S)
           /\ j.publications # <<>> /\ Latest(j) = p
<1>1. j.publications \in Seq({p}) /\ Len(j.publications) = 1 /\ j.publications[1] = p
  OBVIOUS
<1>2. Len(j.publications) # 0  BY <1>1
<1>3. j.publications # <<>>  BY <1>2
<1>4. \E S : j.publications \in Seq(S)  BY <1>1
<1> QED  BY <1>1, <1>3, <1>4 DEF Latest

(* A publication appended to a journal, or already its newest.              *)
LEMMA AppendedPublication ==
    ASSUME NEW j, NEW k, JournalHears(j, k), NEW p, NEW i, i.publications = Appended(j, p)
    PROVE  /\ \E S : i.publications \in Seq(S)
           /\ i.publications # <<>> /\ Latest(i) = p
<1>1. CASE IsLatest(j, p)
  BY <1>1 DEF JournalHears, Appended, IsLatest, Latest
<1>2. CASE ~IsLatest(j, p)
  <2>1. PICK S : j.publications \in Seq(S)  BY DEF JournalHears
  <2>2. PICK T : T = S \cup {p}  OBVIOUS
  <2>3. PICK q : q = j.publications  OBVIOUS
  <2>4. q \in Seq(T) /\ p \in T  BY <2>1, <2>2, <2>3
  <2>5. /\ Append(q, p) \in Seq(T) /\ Len(Append(q, p)) = Len(q) + 1
        /\ Append(q, p)[Len(q) + 1] = p /\ Len(q) \in Nat
    BY <2>4
  <2>6. i.publications = Append(q, p)  BY <1>2, <2>3 DEF Appended
  <2>7. Len(i.publications) # 0  BY <2>5, <2>6
  <2>8. i.publications # <<>>  BY <2>7
  <2> QED  BY <2>5, <2>6, <2>8 DEF Latest
<1> QED  BY <1>1, <1>2
(* Nothing is journalled before StartSync hands a request on.               *)
LEMMA StartSyncWords ==
    ASSUME Inv, WordInv, NEW n \in Nodes, StartSync(n)
    PROVE  WordInv'
<1>1. PICK r : r = agent[n].waiting  OBVIOUS
<1>2. PICK p : p = Publication(n, r.generation, r.catalog)  OBVIOUS
<1>3. PICK s : s = [at |-> "journal", age |-> r.age, publication |-> p,
                    withdrawals |-> r.withdrawals]
  OBVIOUS
<1>4. PICK t : t = [agent[n] EXCEPT !.waiting = NoRequest, !.sync = s]  OBVIOUS
<1>5. PICK j : j = journal[n]  OBVIOUS
<1>6. r # NoRequest /\ (Sync(n, Done(t, FALSE), j) \/ Sync(n, t, j))
  BY <1>1, <1>2, <1>3, <1>4, <1>5, Zenon DEF StartSync
<1>7. AgentShape(agent[n]) /\ Informed(agent[n], j, council)  BY <1>5, NodeFacts DEF WordInv
<1>8. Current(council, r.generation, r.catalog)
  BY <1>1, <1>6, <1>7 DEF Informed, AgentHears
<1>9. p.generation = r.generation /\ p.catalog = r.catalog  BY <1>2 DEF Publication
<1>10. DOMAIN s = UnderwayFields /\ s.publication = p /\ s.at = "journal"
  BY <1>3 DEF UnderwayFields
<1>11. DOMAIN t = AgentFields /\ t.waiting = NoRequest /\ t.sync = s
  BY <1>4, <1>7 DEF AgentShape, AgentFields
<1>12. Informed(t, j, council)
  BY <1>7, <1>8, <1>9, <1>10, <1>11 DEF Informed, AgentHears
<1>13. Informed(Done(t, FALSE), j, council)
  <2>1. Done(t, FALSE).sync = NoRequest /\ Done(t, FALSE).waiting = NoRequest
    BY <1>11 DEF Done, AgentFields
  <2> QED  BY <1>12, <2>1 DEF Informed, AgentHears
<1> QED  BY <1>6, <1>12, <1>13, SyncWords

(* JournalAnswer appends the publication the node is about to install.      *)
LEMMA JournalAnswerWords ==
    ASSUME Inv, WordInv, NEW n \in Nodes, JournalAnswer(n)
    PROVE  WordInv'
<1>1. PICK a : a = agent[n]  OBVIOUS
<1>2. PICK j : j = journal[n]  OBVIOUS
<1>3. PICK p : p = a.sync.publication  OBVIOUS
<1>4. PICK r : r = Noted(j.receipts, a.sync.withdrawals)  OBVIOUS
<1>5. PICK q : q = Appended(j, p)  OBVIOUS
<1>6. PICK shown : shown = IF a.lapsed THEN Installed(a, p) ELSE a  OBVIOUS
<1>7. /\ At(n, "journal")
      /\ \/ Sync(n, Done(a, FALSE), j)
         \/ Sync(n, Goto(a, "withdraw"),
                 [publications |-> q, phase |-> "Withdrawing", receipts |-> r])
         \/ Sync(n, Goto(a, "install"),
                 [publications |-> q, phase |-> "Publishing", receipts |-> r])
         \/ Sync(n, Goto(shown, "compact"), [j EXCEPT !.receipts = r]) /\ IsLatest(j, p)
  BY <1>1, <1>2, <1>3, <1>4, <1>5, <1>6, Zenon DEF JournalAnswer
<1>8. /\ AgentShape(a) /\ JournalShape(j) /\ Informed(a, j, council) /\ a.sync # NoRequest
  BY <1>1, <1>2, <1>7, NodeFacts, AtHasRequest DEF WordInv
<1>9. JournalHears(j, council) /\ Current(council, p.generation, p.catalog)
  BY <1>3, <1>8 DEF Informed, AgentHears
<1>10. CASE Sync(n, Done(a, FALSE), j)
  <2>1. Informed(Done(a, FALSE), j, council)  BY <1>8, DoneInformed
  <2> QED  BY <2>1, <1>10, SyncWords
<1>11. ASSUME NEW step, NEW phase, phase # "Active",
              Sync(n, Goto(a, step), [publications |-> q, phase |-> phase, receipts |-> r])
       PROVE  WordInv'
  <2>1. PICK i : i = [publications |-> q, phase |-> phase, receipts |-> r]  OBVIOUS
  <2>2. i.publications = Appended(j, p) /\ i.phase = phase  BY <2>1, <1>5
  <2>3. (\E S : i.publications \in Seq(S)) /\ i.publications # <<>> /\ Latest(i) = p
    BY <2>2, <1>9, AppendedPublication
  <2>4. JournalHears(i, council)  BY <2>2, <2>3, <1>9, <1>11 DEF JournalHears
  <2>5. Informed(a, i, council)  BY <2>3, <2>4, <1>8 DEF Informed
  <2>6. Informed(Goto(a, step), i, council)  BY <2>3, <2>5, <1>8, GotoInformed
  <2> QED  BY <2>1, <2>6, <1>11, SyncWords
<1>12. CASE Sync(n, Goto(shown, "compact"), [j EXCEPT !.receipts = r]) /\ IsLatest(j, p)
  <2>1. PICK i : i = [j EXCEPT !.receipts = r]  OBVIOUS
  <2>2. i.publications = j.publications /\ i.phase = j.phase
    BY <2>1, <1>8 DEF JournalShape, JournalFields
  <2>3. j.publications # <<>>  BY <1>12 DEF IsLatest
  <2>4. /\ AgentShape(shown) /\ shown.sync = a.sync /\ shown.waiting = a.waiting
    BY <1>6, <1>8, InstalledSucceeds DEF Succeeds, Installed, AgentShape, AgentFields
  <2>5. Informed(a, i, council)  BY <2>2, <2>3, <1>8, JournalInformed
  <2>6. Informed(shown, i, council)  BY <2>4, <2>5, SameInformed
  <2>7. Informed(Goto(shown, "compact"), i, council)
    BY <2>2, <2>3, <2>4, <2>6, <1>8, GotoInformed
  <2>8. PICK d : d = Goto(shown, "compact")  OBVIOUS
  <2> QED  BY <2>1, <2>7, <2>8, <1>12, SyncWords
<1> QED  BY <1>7, <1>10, <1>11, <1>12

(* The later steps of a synchronisation write the publication they carry,   *)
(* or the newest one again.                                                 *)
LEMMA SyncStepWords ==
    ASSUME Inv, WordInv, NEW n \in Nodes, SyncStep(n)
    PROVE  WordInv'
<1>1. PICK a : a = agent[n]  OBVIOUS
<1>2. PICK j : j = journal[n]  OBVIOUS
<1>3. PICK p : p = a.sync.publication  OBVIOUS
<1>4. AgentShape(a) /\ JournalShape(j) /\ Informed(a, j, council)
  BY <1>1, <1>2, NodeFacts DEF WordInv
<1>5. ASSUME NEW step, step \notin {"none", "journal"}, At(n, step)
      PROVE  /\ a.sync # NoRequest /\ j.publications # <<>>
             /\ Current(council, p.generation, p.catalog)
             /\ JournalHears(j, council) /\ Current(council, Latest(j).generation, Latest(j).catalog)
  <2>1. a.sync # NoRequest /\ a.sync.at = step  BY <1>1, <1>5, AtHasRequest DEF At
  <2>2. j.publications # <<>>  BY <1>4, <1>5, <2>1 DEF Informed
  <2> QED  BY <1>3, <1>4, <2>1, <2>2 DEF Informed, AgentHears, JournalHears
<1>6. ASSUME WithdrawView(n) PROVE WordInv'
  <2>1. PICK c : c = [a EXCEPT !.view = NoServices, !.lapsed = FALSE]  OBVIOUS
  <2>2. PICK i : i = [j EXCEPT !.phase = "Withdrawn"]  OBVIOUS
  <2>3. At(n, "withdraw") /\ (Sync(n, Goto(c, "prove"), i) \/ Sync(n, Done(c, FALSE), j))
    BY <1>1, <1>2, <1>6, <2>1, <2>2 DEF WithdrawView
  <2>4. a.sync # NoRequest /\ j.publications # <<>>  BY <1>5, <2>3
  <2>5. DOMAIN c = AgentFields /\ c.sync = a.sync /\ c.waiting = a.waiting /\ AgentShape(c)
    BY <1>4, <2>1 DEF AgentShape, AgentFields
  <2>6. i.publications = j.publications /\ i.phase = "Withdrawn"
    BY <1>4, <2>2 DEF JournalShape, JournalFields
  <2>7. Informed(c, j, council)  BY <1>4, <2>5, SameInformed
  <2>8. Informed(c, i, council)  BY <2>6, <2>7, JournalInformed
  <2>9. Informed(Goto(c, "prove"), i, council)  BY <2>4, <2>5, <2>6, <2>8, GotoInformed
  <2>10. Informed(Done(c, FALSE), j, council)  BY <2>5, <2>7, DoneInformed
  <2> QED  BY <2>3, <2>9, <2>10, SyncWords
<1>7. ASSUME ProveReceipts(n) PROVE WordInv'
  <2>1. PICK r : r = Proven(j.receipts, p)  OBVIOUS
  <2>2. PICK i : i = [j EXCEPT !.receipts = r]  OBVIOUS
  <2>3. At(n, "prove") /\ (Sync(n, Done(a, FALSE), j) \/ Sync(n, Goto(a, "publish"), i))
    BY <1>1, <1>2, <1>3, <1>7, <2>1, <2>2 DEF ProveReceipts
  <2>4. a.sync # NoRequest /\ j.publications # <<>>  BY <1>5, <2>3
  <2>5. i.publications = j.publications  BY <1>4, <2>2 DEF JournalShape, JournalFields
  <2>6. Informed(a, i, council)  BY <1>4, <2>4, <2>5, JournalInformed
  <2>7. Informed(Goto(a, "publish"), i, council)  BY <1>4, <2>4, <2>5, <2>6, GotoInformed
  <2>8. Informed(Done(a, FALSE), j, council)  BY <1>4, DoneInformed
  <2> QED  BY <2>3, <2>7, <2>8, SyncWords
<1>8. ASSUME PublishView(n) PROVE WordInv'
  <2>1. PICK q : q = <<p>>  OBVIOUS
  <2>2. PICK i : i = [j EXCEPT !.publications = q, !.phase = "Publishing"]  OBVIOUS
  <2>3. At(n, "publish") /\ Sync(n, Goto(a, "install"), i)
    BY <1>1, <1>2, <1>3, <1>8, <2>1, <2>2 DEF PublishView
  <2>4. a.sync # NoRequest /\ Current(council, p.generation, p.catalog)  BY <1>5, <2>3
  <2>5. i.publications = <<p>> /\ i.phase = "Publishing"
    BY <1>4, <2>1, <2>2 DEF JournalShape, JournalFields
  <2>6. (\E S : i.publications \in Seq(S)) /\ i.publications # <<>> /\ Latest(i) = p
    BY <2>5, OnlyPublication
  <2>7. Informed(a, i, council)  BY <1>4, <2>4, <2>5, <2>6 DEF Informed, JournalHears
  <2>8. Informed(Goto(a, "install"), i, council)  BY <1>4, <2>4, <2>6, <2>7, GotoInformed
  <2> QED  BY <2>3, <2>8, SyncWords
<1>9. ASSUME InstallView(n) PROVE WordInv'
  <2>1. PICK c : c = Installed(a, p)  OBVIOUS
  <2>2. At(n, "install") /\ Sync(n, Goto(c, "activate"), j)
    BY <1>1, <1>2, <1>3, <1>9, <2>1 DEF InstallView
  <2>3. a.sync # NoRequest /\ j.publications # <<>>  BY <1>5, <2>2
  <2>4. AgentShape(c) /\ c.sync = a.sync /\ c.waiting = a.waiting
    BY <1>4, <2>1, InstalledSucceeds DEF Succeeds, Installed, AgentShape, AgentFields
  <2>5. Informed(c, j, council)  BY <1>4, <2>4, SameInformed
  <2>6. Informed(Goto(c, "activate"), j, council)  BY <2>3, <2>4, <2>5, GotoInformed
  <2> QED  BY <2>2, <2>6, SyncWords
<1>10. ASSUME Activate(n) PROVE WordInv'
  <2>1. PICK i : i = [j EXCEPT !.phase = "Active"]  OBVIOUS
  <2>2. At(n, "activate") /\ Sync(n, Goto(a, "compact"), i)
    BY <1>1, <1>2, <1>10, <2>1 DEF Activate
  <2>3. a.sync # NoRequest /\ j.publications # <<>>  BY <1>5, <2>2
  <2>4. i.publications = j.publications  BY <1>4, <2>1 DEF JournalShape, JournalFields
  <2>5. Informed(a, i, council)  BY <1>4, <2>3, <2>4, JournalInformed
  <2>6. Informed(Goto(a, "compact"), i, council)  BY <1>4, <2>3, <2>4, <2>5, GotoInformed
  <2> QED  BY <2>2, <2>6, SyncWords
<1>11. ASSUME Compact(n) PROVE WordInv'
  <2>1. PICK l : l = Latest(j)  OBVIOUS
  <2>2. PICK q : q = <<l>>  OBVIOUS
  <2>3. PICK r : r = Proven(j.receipts, l)  OBVIOUS
  <2>4. PICK i : i = [j EXCEPT !.publications = q, !.receipts = r]  OBVIOUS
  <2>5. At(n, "compact") /\ (Sync(n, Done(a, TRUE), i) \/ Sync(n, Done(a, TRUE), j))
    BY <1>1, <1>2, <1>11, <2>1, <2>2, <2>3, <2>4 DEF Compact
  <2>6. Current(council, l.generation, l.catalog)  BY <1>5, <2>1, <2>5
  <2>7. i.publications = <<l>>
    BY <1>4, <2>2, <2>4 DEF JournalShape, JournalFields
  <2>8. (\E S : i.publications \in Seq(S)) /\ i.publications # <<>> /\ Latest(i) = l
    BY <2>7, OnlyPublication
  <2>9. Informed(a, i, council)  BY <1>4, <2>6, <2>8 DEF Informed, JournalHears
  <2>10. Informed(Done(a, TRUE), i, council) /\ Informed(Done(a, TRUE), j, council)
    BY <1>4, <2>9, DoneInformed
  <2> QED  BY <2>5, <2>10, SyncWords
<1> QED
  BY <1>6, <1>7, <1>8, <1>9, <1>10, <1>11, StartSyncWords, JournalAnswerWords DEF SyncStep
(* A local refresh sends the newest journalled catalogue round again; the   *)
(* other steps of an agent hear nothing new.                                *)
LEMMA AgentStepWords ==
    ASSUME Inv, WordInv, NEW n \in Nodes, AgentStep(n)
    PROVE  WordInv'
<1>1. PICK a : a = agent[n]  OBVIOUS
<1>2. PICK j : j = journal[n]  OBVIOUS
<1>3. AgentShape(a) /\ JournalShape(j) /\ Informed(a, j, council) /\ CouncilShape(council)
  BY <1>1, <1>2, NodeFacts, LeaderFacts DEF WordInv
<1>4. PICK f : f = Fenced(n)  OBVIOUS
<1>5. DOMAIN f = AgentFields /\ f.sync = a.sync /\ f.waiting = a.waiting
  <2>1. PICK v : v = LocalView(n, Latest(journal[n]).effective)  OBVIOUS
  <2>2. f = [a EXCEPT !.view = v, !.lapsed = TRUE]  BY <1>1, <1>4, <2>1 DEF Fenced
  <2> QED  BY <1>3, <2>2 DEF AgentShape, AgentFields
<1>6. ASSUME Refresh(n) PROVE WordInv'
  <2>1. PICK w : w = [at |-> "waiting", age |-> LocalRequest,
                      generation |-> Latest(j).generation,
                      catalog |-> Latest(j).catalog, withdrawals |-> NoServices]
    OBVIOUS
  <2>2. PICK c : c = [a EXCEPT !.stale = FALSE]  OBVIOUS
  <2>3. PICK b : b = [c EXCEPT !.waiting = w]  OBVIOUS
  <2>4. PICK g : g = [f EXCEPT !.stale = FALSE]  OBVIOUS
  <2>5. Sync(n, c, j) \/ Sync(n, g, j) \/ (Sync(n, b, j) /\ j.phase = "Active")
    BY <1>1, <1>2, <1>4, <1>6, <2>1, <2>2, <2>3, <2>4, Zenon DEF Refresh
  <2>6. DOMAIN c = AgentFields /\ c.waiting = a.waiting /\ c.sync = a.sync
    BY <1>3, <2>2 DEF AgentShape, AgentFields
  <2>7. g.waiting = a.waiting /\ g.sync = a.sync
    BY <1>5, <2>4 DEF AgentFields
  <2>8. b.waiting = w /\ b.sync = a.sync  BY <2>3, <2>6 DEF AgentFields
  <2>9. /\ DOMAIN w = WaitingFields /\ w.generation = Latest(j).generation
        /\ w.catalog = Latest(j).catalog
    BY <2>1 DEF WaitingFields
  <2>10. Informed(c, j, council) /\ Informed(g, j, council)
    BY <1>3, <2>6, <2>7, SameInformed
  <2>11. CASE Sync(n, b, j) /\ j.phase = "Active"
    <3>1. Current(council, Latest(j).generation, Latest(j).catalog)
      BY <1>3, <2>11 DEF Informed, JournalHears
    <3>2. Informed(b, j, council)  BY <1>3, <2>8, <2>9, <3>1 DEF Informed, AgentHears
    <3> QED  BY <2>11, <3>2, SyncWords
  <2> QED  BY <2>5, <2>10, <2>11, SyncWords
<1>7. ASSUME FenceLapsedView(n) PROVE WordInv'
  <2>1. Sync(n, f, j)  BY <1>2, <1>4, <1>7 DEF FenceLapsedView
  <2>2. Informed(f, j, council)  BY <1>3, <1>5, SameInformed
  <2> QED  BY <2>1, <2>2, SyncWords
<1>8. ASSUME NEW g, DeliverReceipt(n, g) PROVE WordInv'
  <2>1. PICK r : r = [h \in DOMAIN j.receipts \ {g} |-> j.receipts[h]]  OBVIOUS
  <2>2. PICK i : i = [j EXCEPT !.receipts = r]  OBVIOUS
  <2>3. /\ council' = AcknowledgeWithdrawal(council, n, g) /\ agent' = agent
        /\ journal' = [journal EXCEPT ![n] = i] \/ journal' = journal
    BY <1>2, <1>8, <2>1, <2>2 DEF DeliverReceipt
  <2>4. Later(council', council)  BY <1>3, <2>3, ConsumersLater
  <2>5. Informed(a, j, council')  BY <1>3, <2>4, LaterInformed DEF CouncilShape
  <2>6. i.publications = j.publications /\ i.phase = j.phase
    BY <1>3, <2>2 DEF JournalShape, JournalFields
  <2>7. j.phase = "Active" => j.publications # <<>>  BY <1>3 DEF Informed, JournalHears
  <2>8. Informed(a, i, council')  BY <2>5, <2>6, <2>7, JournalInformed
  <2>9. DOMAIN agent = Nodes /\ DOMAIN journal = Nodes  BY DEF Inv, Typed
  <2>10. agent'[n] = a /\ (journal'[n] = i \/ journal'[n] = j)
    BY <1>1, <1>2, <2>3, <2>9
  <2>11. ASSUME NEW m \in Nodes PROVE Informed(agent'[m], journal'[m], council')
    <3>1. CASE m = n  BY <2>5, <2>8, <2>10, <3>1
    <3>2. CASE m # n
      <4>1. agent'[m] = agent[m] /\ journal'[m] = journal[m]  BY <2>3, <2>9, <3>2
      <4> QED  BY <1>3, <2>4, <4>1, LaterInformed DEF CouncilShape, WordInv
    <3> QED  BY <3>1, <3>2
  <2> QED  BY <2>11 DEF WordInv
<1>9. ASSUME Crash(n) PROVE WordInv'
  <2>1. PICK d : d = [a EXCEPT !.up = FALSE, !.waiting = NoRequest, !.sync = NoRequest,
                               !.stale = FALSE]
    OBVIOUS
  <2>2. agent' = [agent EXCEPT ![n] = d] /\ journal' = journal /\ council' = council
    BY <1>1, <1>9, <2>1 DEF Crash
  <2>3. d.waiting = NoRequest /\ d.sync = NoRequest
    BY <1>3, <2>1 DEF AgentShape, AgentFields
  <2>4. Informed(d, j, council)  BY <1>3, <2>3, LostInformed
  <2>5. DOMAIN agent = Nodes  BY DEF Inv, Typed
  <2>6. ASSUME NEW m \in Nodes PROVE Informed(agent'[m], journal'[m], council')
    BY <1>2, <2>2, <2>4, <2>5 DEF WordInv
  <2> QED  BY <2>6 DEF WordInv
<1>10. ASSUME BeginRestart(n) PROVE WordInv'
  <2>1. PICK i : i = [j EXCEPT !.phase = "Withdrawing"]  OBVIOUS
  <2>2. Sync(n, a, i)  BY <1>1, <1>2, <1>10, <2>1 DEF BeginRestart
  <2>3. i.publications = j.publications /\ i.phase = "Withdrawing"
    BY <1>3, <2>1 DEF JournalShape, JournalFields
  <2>4. Informed(a, i, council)  BY <1>3, <2>3, JournalInformed
  <2> QED  BY <2>2, <2>4, SyncWords
<1>11. ASSUME FinishRestart(n) PROVE WordInv'
  <2>1. PICK i : i = [j EXCEPT !.phase = "Withdrawn"]  OBVIOUS
  <2>2. PICK d : d = [a EXCEPT !.up = TRUE, !.view = NoServices, !.lapsed = FALSE, !.lease = 0]
    OBVIOUS
  <2>3. Sync(n, d, i)  BY <1>1, <1>2, <1>11, <2>1, <2>2 DEF FinishRestart
  <2>4. i.publications = j.publications /\ i.phase = "Withdrawn"
    BY <1>3, <2>1 DEF JournalShape, JournalFields
  <2>5. d.waiting = a.waiting /\ d.sync = a.sync
    BY <1>3, <2>2 DEF AgentShape, AgentFields
  <2>6. Informed(d, j, council)  BY <1>3, <2>5, SameInformed
  <2>7. Informed(d, i, council)  BY <2>4, <2>6, JournalInformed
  <2> QED  BY <2>3, <2>7, SyncWords
<1> QED
  BY <1>6, <1>7, <1>8, <1>9, <1>10, <1>11, SyncStepWords DEF AgentStep

(* The answer to a poll carries the catalogue of the ledger it was read     *)
(* from. *)
LEMMA AnswerWords ==
    ASSUME Inv, WordInv, NEW n \in Nodes, Answer(n)
    PROVE  WordInv'
<1> DEFINE k == RegisterConsumer(council, n)
           v == [g \in {g \in DOMAIN k.pending : n \in k.pending[g].consumers} |->
                    k.pending[g].services]
           w == [at |-> "waiting", age |-> poll[n].age, generation |-> k.generation,
                 catalog |-> k.catalog, withdrawals |-> v]
           s == agent[n].stale \/ (agent[n].waiting # NoRequest
                                      /\ agent[n].waiting.age = LocalRequest)
           d == [agent[n] EXCEPT !.waiting = w, !.stale = s]
<1>1. /\ council' = k /\ journal' = journal
      /\ agent' = [agent EXCEPT ![n] = d] \/ agent' = agent
  <2>1. council' = k /\ journal' = journal  BY DEF Answer
  <2>2. agent' = [agent EXCEPT ![n] = d] \/ agent' = agent
    BY Zenon DEF Answer
  <2> QED  BY <2>1, <2>2
<1>2. AgentShape(agent[n]) /\ CouncilShape(council) /\ council.generation \in Nat
  BY NodeFacts, LeaderFacts DEF CouncilShape
<1>3. Later(council', council) /\ k.generation \in Nat
  BY <1>1, <1>2, ConsumersLater DEF Later
<1> HIDE DEF k, v, s
<1>4. d.waiting = w /\ d.sync = agent[n].sync
  <2> HIDE DEF w
  <2> QED  BY <1>2 DEF AgentShape, AgentFields
<1>5. DOMAIN w = WaitingFields /\ w.generation = k.generation /\ w.catalog = k.catalog
  BY DEF WaitingFields
<1> HIDE DEF w, d
<1>6. \A m \in Nodes : Informed(agent[m], journal[m], council')
  BY <1>2, <1>3, LaterInformed DEF WordInv
<1>7. Informed(d, journal[n], council')
  <2>1. Current(council', w.generation, w.catalog)  BY <1>1, <1>3, <1>5 DEF Current
  <2> QED  BY <1>4, <1>5, <1>6, <2>1 DEF Informed, AgentHears
<1>8. DOMAIN agent = Nodes  BY DEF Inv, Typed
<1>9. ASSUME NEW m \in Nodes PROVE Informed(agent'[m], journal'[m], council')
  BY <1>1, <1>6, <1>7, <1>8
<1> QED  BY <1>9 DEF WordInv
(* A step that moves the ledger on and leaves requests and journals alone.  *)
LEMMA LedgerWords ==
    ASSUME Inv, WordInv, Later(council', council), journal' = journal,
           \A m \in Nodes : agent'[m].waiting = agent[m].waiting /\ agent'[m].sync = agent[m].sync
    PROVE  WordInv'
<1>1. ASSUME NEW m \in Nodes PROVE Informed(agent'[m], journal'[m], council')
  <2>1. Informed(agent[m], journal[m], council')
    BY LaterInformed DEF Inv, Typed, CouncilShape, WordInv
  <2> QED  BY <2>1, SameInformed
<1> QED  BY <1>1 DEF WordInv

(* A ledger that does not change is not an earlier one.                     *)
LEMMA SameLater ==
    ASSUME Inv, council' = council
    PROVE  Later(council', council)
BY DEF Inv, Typed, CouncilShape, Later

(* The executions of the producer.                                          *)
LEMMA ExecutionWords ==
    ASSUME Inv, WordInv, NEW e \in Executions,
           Start(e) \/ Retire(e) \/ Stop(e) \/ AskRelease(e)
    PROVE  WordInv'
<1>1. PICK s : s = (Producer \in setting.consumers)  OBVIOUS
<1>2. /\ agent' = agent \/ agent' = [agent EXCEPT ![Producer].stale = s]
      /\ journal' = journal
      /\ council' = council \/ council' = RetireExecution(council, e)
  BY <1>1 DEF Start, Retire, Stop, AskRelease, nodes
<1>3. Later(council', council)  BY <1>2, LeaderFacts, RetireLater, SameLater
<1>4. ASSUME NEW m \in Nodes
      PROVE  agent'[m].waiting = agent[m].waiting /\ agent'[m].sync = agent[m].sync
  <2>1. DOMAIN agent = Nodes  BY DEF Inv, Typed
  <2>2. agent'[m] = agent[m] \/ agent'[m] = [agent[m] EXCEPT !.stale = s]  BY <1>2, <2>1
  <2>3. DOMAIN agent[m] = AgentFields  BY NodeFacts DEF AgentShape
  <2> QED  BY <2>2, <2>3 DEF AgentFields
<1> QED  BY <1>2, <1>3, <1>4, LedgerWords

(* The leader, in its epoch: only a restore makes the ledger go back, and   *)
(* then it enters a new epoch.                                              *)
LEMMA LeaderWords ==
    ASSUME Inv, WordInv, InEpoch,
           LeaderStep \/ (\E s \in Services : Declare(s)) \/ (\E n \in Nodes : Poll(n))
    PROVE  WordInv'
<1>1. agent' = agent /\ journal' = journal
  BY DEF LeaderStep, Declare, Poll, Report, BuildCatalog, Publish, DecideDischarges,
         WriteDischarge, CommitLate, SettleDischarges, Elect, Reelect, Backup, Recover, nodes
<1>2. \/ council' = council
      \/ council' = PublishEndpoints(council, plan.generation, plan.catalog)
      \/ \E n \in Nodes : council' = DischargeConsumer(council, n)
      \/ council' = EnterRecoveryEpoch(backup, council.epoch)
  BY DEF LeaderStep, Declare, Poll, Report, BuildCatalog, Publish, DecideDischarges,
         WriteDischarge, CommitLate, SettleDischarges, Elect, Reelect, Backup, Recover
<1>3. Later(council', council)
  BY <1>2, LeaderFacts, SameLater, PublishLater, ConsumersLater, RecoveryLater DEF InEpoch
<1> QED  BY <1>1, <1>3, LedgerWords

(* Time ages requests and leaves what they say.                             *)
LEMMA TickWords ==
    ASSUME Inv, WordInv, Tick
    PROVE  WordInv'
<1>1. /\ agent' = [n \in Nodes |->
             [agent[n] EXCEPT !.lease = Greatest(@ - 1, 0),
                              !.waiting = Aged(@), !.sync = Aged(@)]]
      /\ journal' = journal /\ council' = council
  BY DEF Tick
<1>2. ASSUME NEW m \in Nodes PROVE Informed(agent'[m], journal'[m], council')
  <2>1. PICK a : a = agent[m]  OBVIOUS
  <2>2. AgentShape(a) /\ Informed(a, journal[m], council)  BY <2>1, NodeFacts DEF WordInv
  <2>3. agent'[m].waiting = Aged(a.waiting) /\ agent'[m].sync = Aged(a.sync)
    BY <1>1, <2>1, <2>2 DEF AgentShape, AgentFields
  <2>4. \A r : Aged(r) = r \/ (r # NoRequest /\ \E x : Aged(r) = [r EXCEPT !.age = x])
    BY DEF Aged
  <2>5. /\ a.waiting = NoRequest => agent'[m].waiting = NoRequest
        /\ a.waiting # NoRequest =>
              /\ DOMAIN agent'[m].waiting = WaitingFields
              /\ agent'[m].waiting.generation = a.waiting.generation
              /\ agent'[m].waiting.catalog = a.waiting.catalog
    <3>1. PICK r : r = a.waiting  OBVIOUS
    <3>2. PICK q : q = agent'[m].waiting  OBVIOUS
    <3>3. r # NoRequest => DOMAIN r = WaitingFields
      BY <2>2, <3>1 DEF Informed, AgentHears
    <3>4. q = r \/ (r # NoRequest /\ \E x : q = [r EXCEPT !.age = x])
      BY <2>3, <2>4, <3>1, <3>2
    <3>5. CASE r # NoRequest /\ \E x : q = [r EXCEPT !.age = x]
      <4>1. PICK x : q = [r EXCEPT !.age = x]  BY <3>5
      <4>2. /\ DOMAIN q = WaitingFields /\ q.generation = r.generation
            /\ q.catalog = r.catalog
        BY <3>3, <3>5, <4>1 DEF WaitingFields
      <4> QED  BY <3>1, <3>2, <3>5, <4>2
    <3>6. CASE q = r  BY <3>1, <3>2, <3>3, <3>6
    <3> QED  BY <3>4, <3>5, <3>6
  <2>6. /\ a.sync = NoRequest => agent'[m].sync = NoRequest
        /\ a.sync # NoRequest =>
              /\ DOMAIN agent'[m].sync = UnderwayFields
              /\ agent'[m].sync.publication = a.sync.publication
              /\ agent'[m].sync.at = a.sync.at
    <3>1. PICK r : r = a.sync  OBVIOUS
    <3>2. PICK q : q = agent'[m].sync  OBVIOUS
    <3>3. r # NoRequest => DOMAIN r = UnderwayFields
      BY <2>2, <3>1 DEF Informed, AgentHears
    <3>4. q = r \/ (r # NoRequest /\ \E x : q = [r EXCEPT !.age = x])
      BY <2>3, <2>4, <3>1, <3>2
    <3>5. CASE r # NoRequest /\ \E x : q = [r EXCEPT !.age = x]
      <4>1. PICK x : q = [r EXCEPT !.age = x]  BY <3>5
      <4>2. DOMAIN q = UnderwayFields /\ q.publication = r.publication /\ q.at = r.at
        BY <3>3, <3>5, <4>1 DEF UnderwayFields
      <4> QED  BY <3>1, <3>2, <3>5, <4>2
    <3>6. CASE q = r  BY <3>1, <3>2, <3>3, <3>6
    <3> QED  BY <3>4, <3>5, <3>6
  <2> QED  BY <1>1, <2>2, <2>5, <2>6 DEF Informed, AgentHears
<1> QED  BY <1>2 DEF WordInv

(* Nobody has heard anything at first.                                      *)
LEMMA InitWords == Init => WordInv
<1> SUFFICES ASSUME Init, NEW n \in Nodes PROVE Informed(agent[n], journal[n], council)
  BY DEF WordInv
<1>1. agent[n] = EmptyAgent /\ journal[n] = EmptyJournal  BY DEF Init
<1>2. /\ EmptyAgent.waiting = NoRequest /\ EmptyAgent.sync = NoRequest
      /\ EmptyJournal.publications = <<>> /\ EmptyJournal.phase = "Withdrawn"
  BY DEF EmptyAgent, EmptyJournal
<1>3. <<>> \in Seq({})  OBVIOUS
<1> QED  BY <1>1, <1>2, <1>3 DEF Informed, AgentHears, JournalHears

(* Every step keeps what the nodes have heard current, in its epoch.        *)
LEMMA NextWords == Inv /\ WordInv /\ InEpoch /\ [Next]_vars => WordInv'
<1> SUFFICES ASSUME Inv, WordInv, InEpoch, [Next]_vars PROVE WordInv'
  OBVIOUS
<1>1. ASSUME NEW e \in Executions, Start(e) \/ Retire(e) \/ Stop(e) \/ AskRelease(e)
      PROVE  WordInv'
  BY <1>1, ExecutionWords
<1>2. ASSUME NEW s \in Services, Declare(s) PROVE WordInv'
  BY <1>2, LeaderWords
<1>3. CASE LeaderStep  BY <1>3, LeaderWords
<1>4. ASSUME NEW n \in Nodes, Poll(n) \/ Answer(n) \/ AgentStep(n) PROVE WordInv'
  BY <1>4, LeaderWords, AnswerWords, AgentStepWords
<1>5. CASE Tick  BY <1>5, TickWords
<1>6. CASE UNCHANGED vars
  <2>1. agent' = agent /\ journal' = journal /\ council' = council
    BY <1>6 DEF vars, nodes
  <2> QED  BY <2>1, SameLater, LedgerWords
<1> QED  BY <1>1, <1>2, <1>3, <1>4, <1>5, <1>6 DEF Next

(* A node never refuses its council: the newest view it has journalled is   *)
(* of an earlier generation than the committed one, or is that one, across  *)
(* crashes, elections, lost answers and restores from a backup, however old *)
(* the backup, as long as no recovery epoch publishes more generations than *)
(* RECOVERY_EPOCH_SHIFT gives it. *)
THEOREM NodesNeverRefuse == Spec /\ []InEpoch => []ConsumersFollowCouncil
<1>1. Init => Inv /\ WordInv  BY InitInv, InitWords
<1>2. Inv /\ WordInv /\ InEpoch /\ [Next]_vars => (Inv /\ WordInv)'
  BY NextInv, NextWords
<1>3. WordInv => ConsumersFollowCouncil
  BY DEF WordInv, Informed, JournalHears, Current, ConsumersFollowCouncil
<1> QED  BY <1>1, <1>2, <1>3, PTL DEF Spec
=============================================================================
