-------------------------- MODULE OwnershipProofs --------------------------
(***************************************************************************)
(* Withdrawal implements AddressOwnership for every cluster, lease and      *)
(* setting, as long as no leader is re-elected with discharges in hand and  *)
(* no recovery epoch overflows.                                             *)
(*                                                                         *)
(* The argument: whatever a node routes by, or may yet come to route by     *)
(* under a lease, comes from a catalogue that the council once published.   *)
(* Each route and each backend of that catalogue is still in the committed  *)
(* one, or the node owes a withdrawal of it that it cannot receipt before   *)
(* it routes by something newer.  An address is given away only when it is  *)
(* in neither place.                                                        *)
(***************************************************************************)
EXTENDS WithdrawalProofs

-----------------------------------------------------------------------------
(* What a node's words are worth.                                           *)

(* The executions that hold the producer's address.                         *)
Occupants == {x \in Executions : execution[x] \in {"running", "retiring", "stopped"}}

(* What the worth of a word depends on besides the node.  A backend listed  *)
(* before its execution was known stands for whoever holds the address.     *)
World == [ledger |-> council, confirmed |-> confirmed, standIns |-> Occupants \cup {Unknown}]

Means(w, b) == IF b = Unknown THEN w.standIns ELSE {b}

(* A view that shows part of another.                                       *)
Within(a, b) ==
    \A s \in DOMAIN a :
        s \in DOMAIN b /\ a[s].vip = b[s].vip /\ a[s].backends \subseteq b[s].backends

(* The ledger still routes service s as catalogue c does.                   *)
Kept(k, c, s) == s \in DOMAIN k.catalog /\ k.catalog[s].vip = c[s].vip

(* Node n owes withdrawal h, of something of service s that was published   *)
(* in generation g or later.                                                *)
Owes(k, n, g, h, s) ==
    /\ h \in DOMAIN k.pending /\ h >= g /\ n \in k.pending[h].consumers
    /\ s \in DOMAIN k.pending[h].services

RouteCovered(k, n, g, c, s) ==
    \/ Kept(k, c, s)
    \/ \E h \in DOMAIN k.pending :
          /\ Owes(k, n, g, h, s)
          /\ k.pending[h].services[s].retireVip /\ k.pending[h].services[s].vip = c[s].vip

BackendCovered(k, n, g, c, s, m) ==
    \/ Kept(k, c, s) /\ k.catalog[s].backends \cap m # {}
    \/ \E h \in DOMAIN k.pending :
          Owes(k, n, g, h, s) /\ k.pending[h].services[s].backends \cap m # {}

(* Catalogue c of generation g may be routed by at node n.                  *)
Sound(w, n, g, c) ==
    \A s \in DOMAIN c :
        /\ RouteCovered(w.ledger, n, g, c, s)
        /\ \A b \in c[s].backends : BackendCovered(w.ledger, n, g, c, s, Means(w, b))
        /\ w.confirmed # {} => Unknown \notin c[s].backends

(* A request that came with a poll, and one whose view will be routed by.   *)
Real(r) == r # NoRequest /\ r.age # LocalRequest
Counts(a, r) == r # NoRequest /\ (IF r.age = LocalRequest THEN a.lease > 0 ELSE r.age < Lease)

(* Polls are answered in the order they are sent: the lease counts from the *)
(* oldest, then the synchronisation under way, the answer that waits, and   *)
(* the poll that has none yet.                                              *)
Ordered(a, p) ==
    /\ a.waiting # NoRequest /\ a.waiting.age = LocalRequest => a.sync = NoRequest
    /\ Real(a.waiting) => a.waiting.age <= Lease - a.lease
    /\ Real(a.sync) => a.sync.age <= Lease - a.lease
    /\ Real(a.sync) /\ Real(a.waiting) => a.waiting.age <= a.sync.age
    /\ p # Idle => /\ a.up /\ p.age <= Lease - a.lease
                   /\ Real(a.waiting) => p.age <= a.waiting.age
                   /\ Real(a.sync) => p.age <= a.sync.age
    /\ ~a.up => a.waiting = NoRequest /\ a.sync = NoRequest

Below(S, g) == \A h \in S : h \in Nat /\ h < g

(* Generations arrive in order, and a node learns of a withdrawal only with *)
(* a catalogue that is newer.                                               *)
Heard(a, j) ==
    /\ DOMAIN j.receipts # {} => j.publications # <<>>
    /\ j.publications # <<>> => Below(DOMAIN j.receipts, Latest(j).generation)
    /\ a.sync # NoRequest =>
          /\ j.publications # <<>> => Latest(j).generation <= a.sync.publication.generation
          /\ Below(DOMAIN a.sync.withdrawals, a.sync.publication.generation)
          /\ a.sync.at # "journal" => Latest(j) = a.sync.publication
    /\ a.waiting # NoRequest =>
          /\ j.publications # <<>> => Latest(j).generation <= a.waiting.generation
          /\ a.sync # NoRequest => a.sync.publication.generation <= a.waiting.generation
          /\ Below(DOMAIN a.waiting.withdrawals, a.waiting.generation)

(* What is installed is part of what the journal has announced.             *)
Shows(a, j) ==
    /\ \A i \in DOMAIN j.publications :
          Within(j.publications[i].effective, j.publications[i].catalog)
    /\ a.sync # NoRequest => Within(a.sync.publication.effective, a.sync.publication.catalog)
    /\ a.sync.at \in {"prove", "publish"} => DOMAIN a.view = {} /\ j.phase = "Withdrawn"
    /\ a.sync.at \in {"install", "activate"} => j.phase = "Publishing"
    /\ a.sync.at = "compact" => j.phase = "Active"
    /\ a.sync.at = "activate" \/ j.phase = "Active" => Within(a.view, Latest(j).effective)
    /\ \/ DOMAIN a.view = {}
       \/ /\ j.phase # "Withdrawn"
          /\ \E i \in DOMAIN j.publications : Within(a.view, j.publications[i].effective)

Ready(j) == {g \in DOMAIN j.receipts : j.receipts[g].ready}

(* What a node routes by, or may yet route by, is sound; a receipt it may   *)
(* send is about something older than its view.                             *)
SoundView(w, n, a, j) ==
    a.lease > 0 => \E g \in Nat : /\ g <= w.ledger.generation /\ Sound(w, n, g, a.view)
                                  /\ \A h \in Ready(j) : h < g

SoundNode(w, n, a, j) ==
    /\ SoundView(w, n, a, j)
    /\ a.lease > 0 /\ j.phase = "Active" => Sound(w, n, Latest(j).generation, Latest(j).catalog)
    /\ Counts(a, a.sync) => Sound(w, n, a.sync.publication.generation, a.sync.publication.catalog)
    /\ Counts(a, a.waiting) => Sound(w, n, a.waiting.generation, a.waiting.catalog)

(* The producer routes to its own executions without a lease, and never to  *)
(* one it has released.                                                     *)
OwnView(released, a, j) ==
    /\ Backends(a.view) \cap (released \cup {Unknown}) = {}
    /\ a.sync # NoRequest =>
          Backends(a.sync.publication.effective) \cap (released \cup {Unknown}) = {}
    /\ \A i \in DOMAIN j.publications : Unknown \notin Backends(j.publications[i].effective)

Fine(w, n, a, j, p) ==
    /\ Ordered(a, p) /\ Heard(a, j) /\ Shows(a, j) /\ SoundNode(w, n, a, j)
    /\ n = Producer => OwnView(w.confirmed, a, j)

Alone(S) == Unknown \in S => S = {Unknown}

(* The ledger: no address has two meanings, none is published while it is   *)
(* reserved, and no fenced execution is published.                          *)
LedgerOk(k) ==
    /\ Below(DOMAIN k.pending, k.generation)
    /\ \A s, t \in DOMAIN k.catalog : k.catalog[s].vip = k.catalog[t].vip => s = t
    /\ Vips(k.catalog) \subseteq VIPs
    /\ Vips(k.catalog) \cap ReservedVips(k) = {}
    /\ \A s \in DOMAIN k.catalog :
          /\ Alone(k.catalog[s].backends)
          /\ \A b \in k.catalog[s].backends : ~Blocks(k.fenced, b)

Releases ==
    \A e \in confirmed :
        e \in Executions /\ execution[e] = "released" /\ ReleaseConfirmed(council, e)

OneOccupant ==
    /\ \A x, y \in Occupants : x = y
    /\ Occupants \subseteq setting.executions \/ setting.executions = {}

ReportOk ==
    /\ Alone(report.backends)
    /\ report.backends \subseteq Occupants \cup council.fenced \cup {Unknown}

(* Who takes the place of a backend without an execution holds its address. *)
PlanOk ==
    plan # NoPlan =>
        /\ plan.generation <= council.generation /\ plan.generation \in Nat
        /\ Vips(plan.catalog) \subseteq VIPs
        /\ \A s \in DOMAIN plan.catalog :
              /\ Alone(plan.catalog[s].backends)
              /\ (/\ plan.generation = council.generation
                  /\ s \in DOMAIN council.catalog /\ Unknown \in council.catalog[s].backends
                  /\ plan.catalog[s].backends # {}) =>
                     plan.catalog[s].backends \cap (Occupants \cup council.fenced \cup {Unknown})
                        # {}

CouncilOk ==
    LedgerOk(council) /\ LedgerOk(backup) /\ Releases /\ OneOccupant /\ ReportOk /\ PlanOk

NodesOk == \A n \in Nodes : Fine(World, n, agent[n], journal[n], poll[n])

OwnInv == CouncilOk /\ NodesOk

(* The base: the invariants the earlier theorems rest on, when no leader    *)
(* has been re-elected.                                                     *)
Base == Inv /\ WordInv /\ Steady

-----------------------------------------------------------------------------
(* Words.                                                                   *)

(* Part of a sound catalogue is sound.                                      *)
LEMMA WithinSound ==
    ASSUME NEW w, NEW n, NEW g, NEW c, NEW v, Within(v, c), Sound(w, n, g, c)
    PROVE  Sound(w, n, g, v)
<1> SUFFICES ASSUME NEW s \in DOMAIN v
             PROVE  /\ RouteCovered(w.ledger, n, g, v, s)
                    /\ \A b \in v[s].backends : BackendCovered(w.ledger, n, g, v, s, Means(w, b))
                    /\ w.confirmed # {} => Unknown \notin v[s].backends
  BY DEF Sound
<1>1. s \in DOMAIN c /\ v[s].vip = c[s].vip /\ v[s].backends \subseteq c[s].backends
  BY DEF Within
<1>2. Kept(w.ledger, c, s) => Kept(w.ledger, v, s)  BY <1>1 DEF Kept
<1>3. RouteCovered(w.ledger, n, g, v, s)  BY <1>1, <1>2 DEF Sound, RouteCovered
<1>4. ASSUME NEW b \in v[s].backends PROVE BackendCovered(w.ledger, n, g, v, s, Means(w, b))
  BY <1>1, <1>2 DEF Sound, BackendCovered
<1> QED  BY <1>1, <1>3, <1>4 DEF Sound

(* So is a view without services.                                           *)
LEMMA EmptySound ==
    ASSUME NEW w, NEW n, NEW g, NEW v, DOMAIN v = {}
    PROVE  Sound(w, n, g, v)
BY DEF Sound

(* Within is reflexive and transitive, and a view without services is part  *)
(* of every other.                                                          *)
LEMMA WithinFacts ==
    /\ \A a : Within(a, a)
    /\ \A a, b, c : Within(a, b) /\ Within(b, c) => Within(a, c)
    /\ \A a, b : DOMAIN a = {} => Within(a, b)
BY DEF Within

-----------------------------------------------------------------------------
(* The ledger moves on.                                                     *)

(* What a publication that removes something adds to the ledger, and that   *)
(* it leaves the rest.                                                      *)
LEMMA PlannedPendingFacts ==
    ASSUME NEW k, NEW next, k.generation \in Nat, Below(DOMAIN k.pending, k.generation),
           NEW n \in k.consumers
    PROVE  LET q == PlannedPending(k, next)
               r == RemovedExposures(k.catalog, next)
           IN  /\ \A h \in DOMAIN k.pending : h \in DOMAIN q /\ q[h] = k.pending[h]
               /\ \A s \in DOMAIN r :
                     /\ k.generation \in DOMAIN q /\ q[k.generation].services = r
                     /\ q[k.generation].consumers = k.consumers
<1> DEFINE r == RemovedExposures(k.catalog, next)
           q == PlannedPending(k, next)
           e == [g \in DOMAIN k.pending \cup {k.generation} |->
                    IF g = k.generation THEN [services |-> r, consumers |-> k.consumers]
                                        ELSE k.pending[g]]
<1>1. q = IF k.consumers = {} \/ DOMAIN r = {} THEN k.pending ELSE e
  BY Zenon DEF PlannedPending
<1>2. k.generation \notin DOMAIN k.pending  BY DEF Below
<1>3. CASE DOMAIN r = {}
  <2>1. q = k.pending  BY <1>1, <1>3
  <2> QED  BY <1>3, <2>1
<1>4. CASE DOMAIN r # {}
  <2>1. q = e  BY <1>1, <1>4
  <2>2. /\ \A h \in DOMAIN k.pending : h \in DOMAIN e /\ e[h] = k.pending[h]
        /\ k.generation \in DOMAIN e /\ e[k.generation].services = r
        /\ e[k.generation].consumers = k.consumers
    <3> HIDE DEF r
    <3> QED  BY <1>2
  <2> QED  BY <2>1, <2>2
<1> QED  BY <1>3, <1>4

(* What a publication takes away from a service (removed_exposures).        *)
LEMMA RemovedFacts ==
    ASSUME NEW c, NEW next, NEW s \in DOMAIN c
    PROVE  LET r == RemovedExposures(c, next)
           IN  /\ ~SameRoute(c, next, s) =>
                     s \in DOMAIN r /\ r[s].vip = c[s].vip /\ r[s].retireVip
                     /\ r[s].backends = c[s].backends
               /\ SameRoute(c, next, s) =>
                     \A b \in c[s].backends :
                        \/ b \in next[s].backends
                        \/ b = Unknown /\ next[s].backends # {}
                        \/ s \in DOMAIN r /\ b \in r[s].backends
<1> DEFINE r == RemovedExposures(c, next)
           x == RemovedBackends(c, next, s)
<1>1. /\ s \in DOMAIN r <=> (~SameRoute(c, next, s) \/ x # {})
      /\ s \in DOMAIN r => r[s] = [vip |-> c[s].vip, backends |-> x,
                                   retireVip |-> ~SameRoute(c, next, s)]
  BY Zenon DEF RemovedExposures
<1>2. x = IF SameRoute(c, next, s)
          THEN {b \in c[s].backends : b \notin next[s].backends
                                        /\ ~(b = Unknown /\ next[s].backends # {})}
          ELSE c[s].backends
  BY DEF RemovedBackends
<1> HIDE DEF r, x
<1>3. CASE SameRoute(c, next, s)
  BY <1>1, <1>2, <1>3 DEF r
<1>4. CASE ~SameRoute(c, next, s)
  <2>1. s \in DOMAIN r /\ r[s] = [vip |-> c[s].vip, backends |-> x,
                                   retireVip |-> ~SameRoute(c, next, s)]
    BY <1>1, <1>4
  <2>2. r[s].vip = c[s].vip /\ r[s].backends = x /\ r[s].retireVip = ~SameRoute(c, next, s)
    BY <2>1
  <2>3. r[s].retireVip  BY <2>2, <1>4, Zenon
  <2>4. x = c[s].backends  BY <1>2, <1>4
  <2> QED  BY <1>4, <2>1, <2>2, <2>3, <2>4 DEF r
<1> QED  BY <1>3, <1>4

(* A publication leaves what a registered consumer routes by covered: what  *)
(* it takes away, the consumer owes.                                        *)
LEMMA PlannedCovers ==
    ASSUME NEW k, NEW l, NEW next, k.generation \in Nat, Below(DOMAIN k.pending, k.generation),
           NEW n \in k.consumers, NEW g \in Nat, g <= k.generation,
           l.catalog = next, l.pending = PlannedPending(k, next),
           NEW c, NEW s
    PROVE  /\ RouteCovered(k, n, g, c, s) => RouteCovered(l, n, g, c, s)
           /\ \A m :
                 (\/ Unknown \notin m
                  \/ (/\ s \in DOMAIN k.catalog /\ Unknown \in k.catalog[s].backends
                      /\ SameRoute(k.catalog, next, s) /\ next[s].backends # {}
                      => next[s].backends \cap m # {})) =>
                 (BackendCovered(k, n, g, c, s, m) => BackendCovered(l, n, g, c, s, m))
<1> DEFINE r == RemovedExposures(k.catalog, next)
           q == PlannedPending(k, next)
<1>1. /\ \A h \in DOMAIN k.pending : h \in DOMAIN l.pending /\ l.pending[h] = k.pending[h]
      /\ \A t \in DOMAIN r : /\ k.generation \in DOMAIN l.pending
                             /\ l.pending[k.generation].services = r
                             /\ l.pending[k.generation].consumers = k.consumers
  <2>1. /\ \A h \in DOMAIN k.pending : h \in DOMAIN q /\ q[h] = k.pending[h]
        /\ \A t \in DOMAIN r : /\ k.generation \in DOMAIN q
                               /\ q[k.generation].services = r
                               /\ q[k.generation].consumers = k.consumers
    BY PlannedPendingFacts
  <2> HIDE DEF r, q
  <2>2. l.pending = q  BY DEF q
  <2> QED  BY <2>1, <2>2
<1> HIDE DEF r
<1>2. \A h : Owes(k, n, g, h, s) => h \in DOMAIN l.pending /\ Owes(l, n, g, h, s)
                                   /\ l.pending[h] = k.pending[h]
  BY <1>1 DEF Owes
<1>3. s \in DOMAIN r => Owes(l, n, g, k.generation, s) /\ k.generation \in DOMAIN l.pending
                        /\ l.pending[k.generation].services[s] = r[s]
  BY <1>1 DEF Owes
<1>4. CASE ~Kept(k, c, s)
  BY <1>2, <1>4 DEF RouteCovered, BackendCovered
<1>5. CASE Kept(k, c, s) /\ ~SameRoute(k.catalog, next, s)
  <2>1. s \in DOMAIN r /\ r[s].vip = k.catalog[s].vip /\ r[s].retireVip
        /\ r[s].backends = k.catalog[s].backends
    BY <1>5, RemovedFacts, Zenon DEF r, Kept
  <2>2. r[s].vip = c[s].vip  BY <1>5, <2>1 DEF Kept
  <2> QED  BY <1>2, <1>3, <1>5, <2>1, <2>2 DEF RouteCovered, BackendCovered
<1>6. CASE Kept(k, c, s) /\ SameRoute(k.catalog, next, s)
  <2>1. Kept(l, c, s)  BY <1>6 DEF Kept, SameRoute
  <2>2. \A b \in k.catalog[s].backends :
                        \/ b \in next[s].backends
                        \/ b = Unknown /\ next[s].backends # {}
                        \/ s \in DOMAIN r /\ b \in r[s].backends
    BY <1>6, RemovedFacts, Zenon DEF r, Kept
  <2>3. ASSUME NEW m,
                 \/ Unknown \notin m
                 \/ (/\ s \in DOMAIN k.catalog /\ Unknown \in k.catalog[s].backends
                     /\ SameRoute(k.catalog, next, s) /\ next[s].backends # {}
                     => next[s].backends \cap m # {}),
               BackendCovered(k, n, g, c, s, m)
        PROVE  BackendCovered(l, n, g, c, s, m)
    <3>1. CASE k.catalog[s].backends \cap m = {}
      BY <1>2, <2>3, <3>1 DEF BackendCovered
    <3>2. CASE k.catalog[s].backends \cap m # {}
      <4>1. PICK b \in k.catalog[s].backends \cap m : TRUE  BY <3>2
      <4>2. CASE b \in next[s].backends
        BY <2>1, <4>1, <4>2 DEF BackendCovered
      <4>3. CASE b = Unknown /\ next[s].backends # {}
        <5>1. next[s].backends \cap m # {}  BY <1>6, <2>3, <4>1, <4>3 DEF Kept
        <5> QED  BY <2>1, <5>1 DEF BackendCovered
      <4>4. CASE s \in DOMAIN r /\ b \in r[s].backends
        BY <1>3, <4>1, <4>4 DEF BackendCovered
      <4> QED  BY <2>2, <4>1, <4>2, <4>3, <4>4
    <3> QED  BY <3>1, <3>2
  <2> QED  BY <2>1, <2>3 DEF RouteCovered
<1> QED  BY <1>4, <1>5, <1>6

(* A receipt, or a discharge, of node m leaves what the others owe, and     *)
(* what m owes of other generations.                                        *)
LEMMA ReceiptedFacts ==
    ASSUME NEW q, NEW about, NEW m
    PROVE  LET r == Receipted(q, about, m)
           IN  /\ \A h \in DOMAIN r : /\ h \in DOMAIN q /\ r[h].services = q[h].services
                                      /\ r[h].consumers \subseteq q[h].consumers
               /\ \A n : \A h \in DOMAIN q :
                     n \in q[h].consumers /\ (n # m \/ h \notin about) =>
                        /\ h \in DOMAIN r /\ n \in r[h].consumers
                        /\ r[h].services = q[h].services
<1> DEFINE owed == [g \in DOMAIN q |->
                     [services |-> q[g].services,
                      consumers |-> IF g \in about THEN q[g].consumers \ {m}
                                                   ELSE q[g].consumers]]
           r == Receipted(q, about, m)
<1>1. r = [g \in {g \in DOMAIN q : owed[g].consumers # {}} |-> owed[g]]
  BY Zenon DEF Receipted
<1>2. \A h \in DOMAIN q :
         /\ owed[h].services = q[h].services
         /\ owed[h].consumers = IF h \in about THEN q[h].consumers \ {m} ELSE q[h].consumers
  OBVIOUS
<1> HIDE DEF owed, r
<1>3. DOMAIN r = {g \in DOMAIN q : owed[g].consumers # {}} /\ \A h \in DOMAIN r : r[h] = owed[h]
  BY <1>1
<1>4. \A h \in DOMAIN r : /\ h \in DOMAIN q /\ r[h].services = q[h].services
                          /\ r[h].consumers \subseteq q[h].consumers
  BY <1>2, <1>3
<1>5. ASSUME NEW h \in DOMAIN q, NEW n, n \in q[h].consumers /\ (n # m \/ h \notin about)
      PROVE  h \in DOMAIN r /\ n \in r[h].consumers /\ r[h].services = q[h].services
  BY <1>2, <1>3, <1>5
<1> QED  BY <1>4, <1>5 DEF r

-----------------------------------------------------------------------------
(* What is sound stays sound.                                               *)

(* Every catalogue of generation g that is sound for node n in one world is *)
(* so in the other.                                                         *)
Moves(w, v, n, g) == \A c : Sound(w, n, g, c) => Sound(v, n, g, c)

(* A publication, as long as whoever takes the place of a backend without   *)
(* an execution holds its address.                                          *)
LEMMA PublishMoves ==
    ASSUME NEW w, NEW v, NEW next, NEW k, k = w.ledger,
           k.generation \in Nat, Below(DOMAIN k.pending, k.generation),
           NEW n \in k.consumers, NEW g \in Nat, g <= k.generation,
           v.ledger.catalog = next, v.ledger.pending = PlannedPending(k, next),
           v.confirmed = w.confirmed, v.standIns = w.standIns,
           \A s \in DOMAIN k.catalog :
              Unknown \in k.catalog[s].backends /\ SameRoute(k.catalog, next, s)
                 /\ next[s].backends # {} => next[s].backends \cap w.standIns # {}
    PROVE  Moves(w, v, n, g)
<1> SUFFICES ASSUME NEW c, Sound(w, n, g, c), NEW s \in DOMAIN c
             PROVE  /\ RouteCovered(v.ledger, n, g, c, s)
                    /\ \A b \in c[s].backends : BackendCovered(v.ledger, n, g, c, s, Means(v, b))
                    /\ v.confirmed # {} => Unknown \notin c[s].backends
  BY DEF Sound, Moves
<1>1. /\ RouteCovered(k, n, g, c, s)
      /\ \A b \in c[s].backends : BackendCovered(k, n, g, c, s, Means(w, b))
      /\ w.confirmed # {} => Unknown \notin c[s].backends
  BY DEF Sound
<1>2. PICK l : l = v.ledger  OBVIOUS
<1>3. RouteCovered(l, n, g, c, s)  BY <1>1, <1>2, PlannedCovers
<1>4. ASSUME NEW b \in c[s].backends PROVE BackendCovered(l, n, g, c, s, Means(w, b))
  <2>1. CASE b = Unknown
    <3>1. Means(w, b) = w.standIns  BY <2>1 DEF Means
    <3> QED  BY <1>1, <1>2, <3>1, PlannedCovers
  <2>2. CASE b # Unknown
    <3>1. Unknown \notin Means(w, b)  BY <2>2 DEF Means
    <3> QED  BY <1>1, <1>2, <3>1, PlannedCovers
  <2> QED  BY <2>1, <2>2
<1>5. \A b : Means(v, b) = Means(w, b)  BY DEF Means
<1> QED  BY <1>1, <1>2, <1>3, <1>4, <1>5

(* A receipt or a discharge of node m.                                      *)
LEMMA ReceiptMoves ==
    ASSUME NEW w, NEW v, NEW about, NEW m, NEW n, NEW g \in Nat,
           n # m \/ Below(about, g),
           v.ledger.catalog = w.ledger.catalog,
           v.ledger.pending = Receipted(w.ledger.pending, about, m),
           v.confirmed = w.confirmed, v.standIns = w.standIns
    PROVE  Moves(w, v, n, g)
<1> SUFFICES ASSUME NEW c, Sound(w, n, g, c), NEW s \in DOMAIN c
             PROVE  /\ RouteCovered(v.ledger, n, g, c, s)
                    /\ \A b \in c[s].backends : BackendCovered(v.ledger, n, g, c, s, Means(v, b))
                    /\ v.confirmed # {} => Unknown \notin c[s].backends
  BY DEF Sound, Moves
<1>1. PICK k : k = w.ledger  OBVIOUS
<1>2. PICK l : l = v.ledger  OBVIOUS
<1>3. PICK r : r = Receipted(k.pending, about, m)  OBVIOUS
<1>4. l.catalog = k.catalog /\ l.pending = r  BY <1>1, <1>2, <1>3
<1>5. \A h \in DOMAIN k.pending :
         n \in k.pending[h].consumers /\ (n # m \/ h \notin about) =>
            h \in DOMAIN r /\ n \in r[h].consumers /\ r[h].services = k.pending[h].services
  BY <1>3, ReceiptedFacts
<1>6. ASSUME NEW h, Owes(k, n, g, h, s)
      PROVE  /\ h \in DOMAIN l.pending /\ Owes(l, n, g, h, s)
             /\ l.pending[h].services = k.pending[h].services
  <2>1. n # m \/ h \notin about  BY <1>6 DEF Owes, Below
  <2> QED  BY <1>4, <1>5, <1>6, <2>1 DEF Owes
<1>7. \A b : Means(v, b) = Means(w, b)  BY DEF Means
<1>8. Kept(k, c, s) => Kept(l, c, s)  BY <1>4 DEF Kept
<1>9. RouteCovered(l, n, g, c, s)  BY <1>1, <1>6, <1>8 DEF Sound, RouteCovered
<1>10. ASSUME NEW b \in c[s].backends PROVE BackendCovered(l, n, g, c, s, Means(w, b))
  BY <1>1, <1>4, <1>6, <1>8 DEF Sound, BackendCovered
<1> QED  BY <1>2, <1>7, <1>9, <1>10 DEF Sound

(* A step that changes neither the catalogue nor what is owed; another      *)
(* execution may take the address.                                          *)
LEMMA SameMoves ==
    ASSUME NEW w, NEW v, NEW n, NEW g,
           v.ledger.catalog = w.ledger.catalog, v.ledger.pending = w.ledger.pending,
           v.confirmed = w.confirmed, w.standIns \subseteq v.standIns
    PROVE  Moves(w, v, n, g)
<1> SUFFICES ASSUME NEW c, Sound(w, n, g, c), NEW s \in DOMAIN c
             PROVE  /\ RouteCovered(v.ledger, n, g, c, s)
                    /\ \A b \in c[s].backends : BackendCovered(v.ledger, n, g, c, s, Means(v, b))
                    /\ v.confirmed # {} => Unknown \notin c[s].backends
  BY DEF Sound, Moves
<1>1. PICK k : k = w.ledger  OBVIOUS
<1>2. PICK l : l = v.ledger  OBVIOUS
<1>3. l.catalog = k.catalog /\ l.pending = k.pending  BY <1>1, <1>2
<1>4. \A b : Means(w, b) \subseteq Means(v, b)  BY DEF Means
<1>5. RouteCovered(l, n, g, c, s)  BY <1>1, <1>3 DEF Sound, RouteCovered, Kept, Owes
<1>6. ASSUME NEW b \in c[s].backends PROVE BackendCovered(l, n, g, c, s, Means(v, b))
  <2>1. BackendCovered(k, n, g, c, s, Means(w, b))  BY <1>1 DEF Sound
  <2> QED  BY <1>3, <1>4, <2>1 DEF BackendCovered, Kept, Owes
<1> QED  BY <1>2, <1>5, <1>6 DEF Sound

(* A release: nobody routes by the released execution, nor by one that is   *)
(* unknown and may be it.                                                   *)
LEMMA ReleaseMoves ==
    ASSUME NEW w, NEW v, NEW e, NEW n, NEW g,
           LedgerOk(w.ledger), ReleaseConfirmed(w.ledger, e),
           v.ledger = w.ledger, v.standIns \subseteq w.standIns, w.standIns \subseteq {e, Unknown}
    PROVE  Moves(w, v, n, g)
<1> SUFFICES ASSUME NEW c, Sound(w, n, g, c), NEW s \in DOMAIN c
             PROVE  /\ RouteCovered(v.ledger, n, g, c, s)
                    /\ \A b \in c[s].backends : BackendCovered(v.ledger, n, g, c, s, Means(v, b))
                    /\ Unknown \notin c[s].backends
  BY DEF Sound, Moves
<1>1. PICK k : k = w.ledger  OBVIOUS
<1>2. LedgerOk(k) /\ ReleaseConfirmed(k, e)  BY <1>1
<1>3. \A t \in DOMAIN k.catalog : k.catalog[t].backends \cap {e, Unknown} = {}
  BY <1>2 DEF LedgerOk, ReleaseConfirmed, Blocks
<1>4. \A h \in DOMAIN k.pending : \A t \in DOMAIN k.pending[h].services :
         k.pending[h].services[t].backends \cap {e, Unknown} = {}
  BY <1>2 DEF ReleaseConfirmed
<1>5. ~BackendCovered(k, n, g, c, s, w.standIns)
  BY <1>3, <1>4 DEF BackendCovered, Kept, Owes
<1>6. Unknown \notin c[s].backends
  BY <1>1, <1>5 DEF Sound, Means
<1>7. \A b \in c[s].backends : Means(v, b) = Means(w, b)  BY <1>6 DEF Means
<1> QED  BY <1>6, <1>7 DEF Sound

(* The committed catalogue is sound for whoever hears it.                   *)
LEMMA CatalogSound ==
    ASSUME NEW w, NEW n, LedgerOk(w.ledger), Unknown \in w.standIns,
           w.confirmed # {} => w.ledger.fenced # {}
    PROVE  Sound(w, n, w.ledger.generation, w.ledger.catalog)
<1>1. PICK k : k = w.ledger  OBVIOUS
<1> SUFFICES ASSUME NEW s \in DOMAIN k.catalog
             PROVE  /\ RouteCovered(k, n, k.generation, k.catalog, s)
                    /\ \A b \in k.catalog[s].backends :
                          BackendCovered(k, n, k.generation, k.catalog, s, Means(w, b))
                    /\ w.confirmed # {} => Unknown \notin k.catalog[s].backends
  BY <1>1 DEF Sound
<1>2. Kept(k, k.catalog, s)  BY DEF Kept
<1>3. \A b : b \in Means(w, b)  BY DEF Means
<1>4. LedgerOk(k) /\ (w.confirmed # {} => k.fenced # {})  BY <1>1
<1>5. w.confirmed # {} => Unknown \notin k.catalog[s].backends
  BY <1>4 DEF LedgerOk, Blocks
<1> QED  BY <1>2, <1>3, <1>5 DEF RouteCovered, BackendCovered

-----------------------------------------------------------------------------
(* The requests of the state machine keep the ledger in order.              *)

(* What a publication makes of a ledger.                                    *)
Published(k, l, next) ==
    /\ l.catalog = next /\ l.pending = PlannedPending(k, next)
    /\ l.generation = k.generation + 1 /\ l.consumers = k.consumers

(* A publication is refused, or it is checked and written                   *)
(* (PublishEndpoints).                                                      *)
LEMMA PublishFacts ==
    ASSUME NEW k, CouncilShape(k), NEW g, NEW next, NEW l, l = PublishEndpoints(k, g, next)
    PROVE  \/ l = k
           \/ /\ Published(k, l, next) /\ l.fenced = k.fenced
              /\ g = k.generation /\ next # k.catalog /\ CanPublish(k, next)
              /\ \A b \in Backends(next) : ~Blocks(k.fenced, b)
<1>1. \/ l = k
      \/ /\ l = Planned(k, next) /\ g = k.generation /\ CanPublish(k, next)
         /\ \A b \in Backends(next) : ~Blocks(k.fenced, b)
  BY Zenon DEF PublishEndpoints
<1>2. \/ Planned(k, next) = k
      \/ /\ next # k.catalog
         /\ Planned(k, next) =
              [generation |-> k.generation + 1, catalog |-> next,
               pending |-> PlannedPending(k, next),
               consumers |-> k.consumers, fenced |-> k.fenced, epoch |-> k.epoch]
  BY DEF Planned
<1> QED  BY <1>1, <1>2 DEF Published

(* A fence is refused, or recorded with the publication that withdraws what *)
(* it blocks, if that is anything (RetireExecution).                        *)
LEMMA RetireFacts ==
    ASSUME NEW k, CouncilShape(k), NEW e, NEW l, l = RetireExecution(k, e),
           NEW f, f = k.fenced \cup {e}, NEW next, next = Withdrawn(f, k.catalog)
    PROVE  \/ l = k
           \/ /\ l.fenced = f /\ CanPublish(k, next) /\ next # k.catalog
              /\ Published(k, l, next)
           \/ /\ l.fenced = f /\ next = k.catalog
              /\ l.catalog = k.catalog /\ l.pending = k.pending
              /\ l.generation = k.generation /\ l.consumers = k.consumers
<1> DEFINE p == Planned(k, next)
<1>1. l = k \/ (l = [p EXCEPT !.fenced = f] /\ CanPublish(k, next))
  BY Zenon DEF RetireExecution
<1>2. \/ p = k /\ next = k.catalog
      \/ /\ next # k.catalog
         /\ p = [generation |-> k.generation + 1, catalog |-> next,
                 pending |-> PlannedPending(k, next),
                 consumers |-> k.consumers, fenced |-> k.fenced, epoch |-> k.epoch]
  BY DEF Planned
<1> HIDE DEF p
<1>3. CASE p = k /\ next = k.catalog
  <2>1. DOMAIN k = CouncilFields  BY DEF CouncilShape
  <2>2. l = k \/ (/\ l.fenced = f /\ l.catalog = k.catalog /\ l.pending = k.pending
                  /\ l.generation = k.generation /\ l.consumers = k.consumers)
    BY <1>1, <1>3, <2>1 DEF CouncilFields
  <2> QED  BY <1>3, <2>2
<1>4. CASE /\ next # k.catalog
           /\ p = [generation |-> k.generation + 1, catalog |-> next,
                   pending |-> PlannedPending(k, next),
                   consumers |-> k.consumers, fenced |-> k.fenced, epoch |-> k.epoch]
  <2>1. l = k \/ (CanPublish(k, next) /\ l.fenced = f /\ Published(k, l, next))
    BY <1>1, <1>4 DEF Published
  <2> QED  BY <1>4, <2>1
<1> QED  BY <1>2, <1>3, <1>4

(* What is withdrawn (withdraw_blocked): nothing blocked stays, no virtual  *)
(* address changes.                                                         *)
LEMMA WithdrawnFacts ==
    ASSUME NEW f, NEW c, NEW next, next = Withdrawn(f, c)
    PROVE  /\ DOMAIN next = DOMAIN c
           /\ \A s \in DOMAIN c :
                 /\ next[s].vip = c[s].vip
                 /\ next[s].backends = {b \in c[s].backends : ~Blocks(f, b)}
BY DEF Withdrawn

(* The reserved addresses are those of the withdrawals in the ledger.       *)
LEMMA ReservedShrinks ==
    ASSUME NEW k, NEW l,
           \A h \in DOMAIN l.pending :
              h \in DOMAIN k.pending /\ l.pending[h].services = k.pending[h].services
    PROVE  ReservedVips(l) \subseteq ReservedVips(k)
<1> SUFFICES ASSUME NEW v \in ReservedVips(l) PROVE v \in ReservedVips(k)
  OBVIOUS
<1>1. /\ v \in VIPs
      /\ \E g \in DOMAIN l.pending :
           \E removed \in {l.pending[g].services[s] : s \in DOMAIN l.pending[g].services} :
              removed.retireVip /\ removed.vip = v
  BY DEF ReservedVips
<1>2. PICK g \in DOMAIN l.pending :
         \E removed \in {l.pending[g].services[s] : s \in DOMAIN l.pending[g].services} :
              removed.retireVip /\ removed.vip = v
  BY <1>1
<1>3. g \in DOMAIN k.pending /\ l.pending[g].services = k.pending[g].services  OBVIOUS
<1>4. \E removed \in {k.pending[g].services[s] : s \in DOMAIN k.pending[g].services} :
              removed.retireVip /\ removed.vip = v
  BY <1>2, <1>3
<1> QED  BY <1>1, <1>3, <1>4 DEF ReservedVips

(* A publication that passes its checks keeps the ledger in order           *)
(* (validate_allocations, check_reservations).                              *)
LEMMA PublishedOk ==
    ASSUME NEW k, NEW l, NEW next, LedgerOk(k), CouncilShape(k), CanPublish(k, next),
           next # k.catalog, Published(k, l, next), Vips(next) \subseteq VIPs,
           \A s \in DOMAIN next : /\ Alone(next[s].backends)
                                  /\ \A b \in next[s].backends : ~Blocks(l.fenced, b)
    PROVE  LedgerOk(l)
<1>1. PICK q : q = PlannedPending(k, next)  OBVIOUS
<1>2. k.generation \in Nat /\ Below(DOMAIN k.pending, k.generation)
  BY DEF CouncilShape, LedgerOk
<1>3. DOMAIN q \subseteq DOMAIN k.pending \cup {k.generation}
  BY <1>1 DEF PlannedPending
<1>4. Below(DOMAIN l.pending, l.generation)
  BY <1>1, <1>2, <1>3 DEF Below, Published
<1>5. \A s, t \in DOMAIN next : next[s].vip = next[t].vip => s = t
  BY DEF CanPublish
<1>6. Vips(next) \cap ReservedVips(l) = {}
  <2>1. CheckReservations(Planned(k, next), next)  BY DEF CanPublish
  <2>2. Planned(k, next).pending = q  BY <1>1 DEF Planned
  <2>3. l.pending = q  BY <1>1 DEF Published
  <2>4. PICK p : p = Planned(k, next)  OBVIOUS
  <2>5. ReservedVips(l) \subseteq ReservedVips(p)  BY <2>2, <2>3, <2>4, ReservedShrinks
  <2> QED  BY <2>1, <2>4, <2>5 DEF CheckReservations
<1>7. l.catalog = next  BY DEF Published
<1> QED  BY <1>4, <1>5, <1>6, <1>7 DEF LedgerOk

(* So do a receipt and a discharge.                                         *)
LEMMA ReceiptedOk ==
    ASSUME NEW k, NEW l, NEW about, NEW m, LedgerOk(k),
           l.catalog = k.catalog, l.fenced = k.fenced, l.generation = k.generation,
           l.pending = Receipted(k.pending, about, m)
    PROVE  LedgerOk(l)
<1>1. PICK r : r = Receipted(k.pending, about, m)  OBVIOUS
<1>2. \A h \in DOMAIN r : /\ h \in DOMAIN k.pending /\ r[h].services = k.pending[h].services
                          /\ r[h].consumers \subseteq k.pending[h].consumers
  BY <1>1, ReceiptedFacts
<1>3. l.pending = r  BY <1>1
<1>4. ReservedVips(l) \subseteq ReservedVips(k)  BY <1>2, <1>3, ReservedShrinks
<1>5. Below(DOMAIN l.pending, l.generation)  BY <1>2, <1>3 DEF LedgerOk, Below
<1> QED  BY <1>4, <1>5 DEF LedgerOk

(* So does a step that leaves the catalogue and what is owed, and fences    *)
(* nothing that is published.                                               *)
LEMMA SameOk ==
    ASSUME NEW k, NEW l, LedgerOk(k), k.generation \in Nat, l.generation \in Nat,
           k.generation <= l.generation,
           l.catalog = k.catalog, l.pending = k.pending,
           \A s \in DOMAIN k.catalog : \A b \in k.catalog[s].backends : ~Blocks(l.fenced, b)
    PROVE  LedgerOk(l)
<1>1. ReservedVips(l) \subseteq ReservedVips(k)  BY ReservedShrinks
<1>2. Below(DOMAIN l.pending, l.generation)  BY DEF LedgerOk, Below
<1> QED  BY <1>1, <1>2 DEF LedgerOk

(* Fencing an execution keeps the ledger in order.                          *)
LEMMA RetiredOk ==
    ASSUME NEW k, LedgerOk(k), CouncilShape(k), NEW e, NEW l, l = RetireExecution(k, e)
    PROVE  LedgerOk(l) /\ k.fenced \subseteq l.fenced
<1>1. PICK f : f = k.fenced \cup {e}  OBVIOUS
<1>2. PICK next : next = Withdrawn(f, k.catalog)  OBVIOUS
<1>3. \/ l = k
      \/ /\ l.fenced = f /\ CanPublish(k, next) /\ next # k.catalog /\ Published(k, l, next)
      \/ /\ l.fenced = f /\ next = k.catalog
         /\ l.catalog = k.catalog /\ l.pending = k.pending
         /\ l.generation = k.generation /\ l.consumers = k.consumers
  BY <1>1, <1>2, RetireFacts
<1>4. /\ DOMAIN next = DOMAIN k.catalog
      /\ \A s \in DOMAIN k.catalog :
            /\ next[s].vip = k.catalog[s].vip
            /\ next[s].backends = {b \in k.catalog[s].backends : ~Blocks(f, b)}
  BY <1>2, WithdrawnFacts
<1>5. CASE l = k  BY <1>5
<1>6. CASE /\ l.fenced = f /\ CanPublish(k, next) /\ next # k.catalog /\ Published(k, l, next)
  <2>1. Vips(next) \subseteq VIPs  BY <1>4 DEF LedgerOk, Vips
  <2>2. \A s \in DOMAIN next : /\ Alone(next[s].backends)
                               /\ \A b \in next[s].backends : ~Blocks(l.fenced, b)
    <3> TAKE s \in DOMAIN next
    <3>1. Alone(k.catalog[s].backends)  BY <1>4 DEF LedgerOk
    <3> QED  BY <1>4, <1>6, <3>1 DEF Alone
  <2> QED  BY <1>1, <1>6, <2>1, <2>2, PublishedOk
<1>7. CASE /\ l.fenced = f /\ next = k.catalog
           /\ l.catalog = k.catalog /\ l.pending = k.pending
           /\ l.generation = k.generation /\ l.consumers = k.consumers
  <2>1. \A s \in DOMAIN k.catalog : \A b \in k.catalog[s].backends : ~Blocks(l.fenced, b)
    BY <1>4, <1>7
  <2>2. k.generation \in Nat  BY DEF CouncilShape
  <2>3. k.generation <= l.generation /\ l.generation \in Nat  BY <1>7, <2>2
  <2>4. LedgerOk(l)  BY <1>7, <2>1, <2>2, <2>3, SameOk
  <2> QED  BY <1>1, <1>7, <2>4
<1> QED  BY <1>3, <1>5, <1>6, <1>7

-----------------------------------------------------------------------------
(* Nodes while the rest moves.                                              *)

(* What the journal, the synchronisation and the waiting answer hold is     *)
(* newer than any receipt that is ready.                                    *)
LEMMA ReadyIsOlder ==
    ASSUME NEW a, NEW j, NEW k, Heard(a, j), Informed(a, j, k), k.generation \in Nat
    PROVE  /\ j.publications # <<>> =>
                 /\ Latest(j).generation \in Nat /\ Latest(j).generation <= k.generation
                 /\ \A h \in Ready(j) : h < Latest(j).generation
           /\ a.sync # NoRequest =>
                 /\ a.sync.publication.generation \in Nat
                 /\ a.sync.publication.generation <= k.generation
                 /\ \A h \in Ready(j) : h < a.sync.publication.generation
           /\ a.waiting # NoRequest =>
                 /\ a.waiting.generation \in Nat /\ a.waiting.generation <= k.generation
                 /\ \A h \in Ready(j) : h < a.waiting.generation
<1>1. j.publications # <<>> =>
         /\ Latest(j).generation \in Nat /\ Latest(j).generation <= k.generation
         /\ \A h \in Ready(j) : h \in Nat /\ h < Latest(j).generation
  BY DEF Informed, JournalHears, Current, Heard, Below, Ready
<1>2. Ready(j) # {} => j.publications # <<>>  BY DEF Heard, Ready
<1>3. ASSUME a.sync # NoRequest
      PROVE  /\ a.sync.publication.generation \in Nat
             /\ a.sync.publication.generation <= k.generation
             /\ \A h \in Ready(j) : h < a.sync.publication.generation
  <2>1. /\ a.sync.publication.generation \in Nat
        /\ a.sync.publication.generation <= k.generation
    BY <1>3 DEF Informed, AgentHears, Current
  <2>2. j.publications # <<>> => Latest(j).generation <= a.sync.publication.generation
    BY <1>3 DEF Heard
  <2> QED  BY <1>1, <1>2, <2>1, <2>2
<1>4. ASSUME a.waiting # NoRequest
      PROVE  /\ a.waiting.generation \in Nat /\ a.waiting.generation <= k.generation
             /\ \A h \in Ready(j) : h < a.waiting.generation
  <2>1. a.waiting.generation \in Nat /\ a.waiting.generation <= k.generation
    BY <1>4 DEF Informed, AgentHears, Current
  <2>2. j.publications # <<>> => Latest(j).generation <= a.waiting.generation
    BY <1>4 DEF Heard
  <2> QED  BY <1>1, <1>2, <2>1, <2>2
<1> QED  BY <1>1, <1>3, <1>4

(* A node's words stay sound when every word that is newer than its         *)
(* receipts does.                                                           *)
LEMMA SoundNodeMoves ==
    ASSUME NEW w, NEW v, NEW n, NEW a, NEW j, Heard(a, j), Informed(a, j, w.ledger),
           SoundNode(w, n, a, j), w.ledger.generation \in Nat, v.ledger.generation \in Nat,
           w.ledger.generation <= v.ledger.generation,
           \A g \in Nat : g <= w.ledger.generation /\ (\A h \in Ready(j) : h < g)
                             => Moves(w, v, n, g)
    PROVE  SoundNode(v, n, a, j)
<1>1. PICK k : k = w.ledger  OBVIOUS
<1>2. Informed(a, j, k) /\ k.generation \in Nat  BY <1>1
<1>3. \A c : \A g \in Nat : g <= k.generation /\ (\A h \in Ready(j) : h < g) /\ Sound(w, n, g, c)
                           => Sound(v, n, g, c)
  BY <1>1 DEF Moves
<1>4. SoundView(v, n, a, j)
  <2> SUFFICES ASSUME a.lease > 0
               PROVE  \E g \in Nat : /\ g <= v.ledger.generation /\ Sound(v, n, g, a.view)
                                     /\ \A h \in Ready(j) : h < g
    BY DEF SoundView
  <2>1. PICK g \in Nat : /\ g <= k.generation /\ Sound(w, n, g, a.view)
                         /\ \A h \in Ready(j) : h < g
    BY <1>1 DEF SoundNode, SoundView
  <2>2. g <= v.ledger.generation  BY <1>1, <1>2, <2>1
  <2> QED  BY <1>3, <2>1, <2>2
<1>5. j.phase = "Active" => j.publications # <<>>  BY DEF Informed, JournalHears
<1>6. /\ Counts(a, a.sync) => a.sync # NoRequest
      /\ Counts(a, a.waiting) => a.waiting # NoRequest
  BY DEF Counts
<1> QED  BY <1>2, <1>3, <1>4, <1>5, <1>6, ReadyIsOlder DEF SoundNode

(* A node without a lease, and without a poll that could still give it one, *)
(* has no words that count.                                                 *)
LEMMA QuietSound ==
    ASSUME NEW v, NEW n, NEW a, NEW j, AgentShape(a), \A x \in Claims(a) : x = Lease
    PROVE  SoundNode(v, n, a, j)
<1>1. Lease - a.lease = Lease /\ Age(a.waiting) = Lease /\ Age(a.sync) = Lease
  BY DEF Claims
<1>2. Lease \in Nat /\ a.lease \in 0 .. Lease  BY WithdrawalAssumption DEF AgentShape
<1>3. a.lease = 0  BY <1>1, <1>2
<1>4. ~Counts(a, a.waiting) /\ ~Counts(a, a.sync)  BY <1>1, <1>2, <1>3 DEF Counts, Age
<1> QED  BY <1>2, <1>3, <1>4 DEF SoundNode, SoundView

(* Two agents that differ in their marks only.                              *)
SameAgent(a, b) ==
    /\ a.view = b.view /\ a.lease = b.lease /\ a.up = b.up
    /\ a.waiting = b.waiting /\ a.sync = b.sync

(* Their nodes are as fine as each other, whatever becomes of the poll.     *)
LEMMA SameFine ==
    ASSUME NEW w, NEW n, NEW a, NEW b, NEW j, NEW p, NEW q, SameAgent(b, a), q = p \/ q = Idle,
           Fine(w, n, a, j, p)
    PROVE  Fine(w, n, b, j, q)
<1>1. Ordered(b, q)  BY DEF Fine, SameAgent, Ordered
<1>2. Heard(b, j) /\ Shows(b, j)  BY DEF Fine, SameAgent, Heard, Shows
<1>3. SoundNode(w, n, b, j)  BY DEF Fine, SameAgent, SoundNode, SoundView, Counts
<1>4. n = Producer => OwnView(w.confirmed, b, j)  BY DEF Fine, SameAgent, OwnView
<1> QED  BY <1>1, <1>2, <1>3, <1>4 DEF Fine

(* The rest of the cluster moves and leaves the nodes as they are.          *)
LEMMA NodesMove ==
    ASSUME Base, OwnInv, Inv', Steady', council.generation <= council'.generation,
           journal' = journal,
           \A m \in Nodes : SameAgent(agent'[m], agent[m]) /\ poll'[m] \in {poll[m], Idle},
           \A m \in Nodes \cap council'.consumers : \A g \in Nat :
              g <= council.generation => Moves(World, World', m, g),
           \A m \in Nodes : m = Producer => OwnView(confirmed', agent[m], journal[m])
    PROVE  NodesOk'
<1> SUFFICES ASSUME NEW m \in Nodes
             PROVE  Fine(World', m, agent'[m], journal'[m], poll'[m])
  BY DEF NodesOk
<1>1. PICK w : w = World  OBVIOUS
<1>2. PICK v : v = World'  OBVIOUS
<1>3. PICK a : a = agent[m]  OBVIOUS
<1>4. PICK j : j = journal[m]  OBVIOUS
<1>5. PICK p : p = poll[m]  OBVIOUS
<1>6. w.ledger = council /\ v.ledger = council' /\ v.confirmed = confirmed'
  BY <1>1, <1>2 DEF World
<1>7. Fine(w, m, a, j, p) /\ Informed(a, j, w.ledger)
  BY <1>1, <1>3, <1>4, <1>5, <1>6 DEF OwnInv, NodesOk, Base, WordInv
<1>8. w.ledger.generation \in Nat /\ v.ledger.generation \in Nat
  BY <1>6 DEF Base, Inv, Typed, CouncilShape
<1>9. SoundNode(v, m, a, j)
  <2>1. CASE m \in council'.consumers
    BY <1>1, <1>2, <1>6, <1>7, <1>8, <2>1, SoundNodeMoves DEF Fine
  <2>2. CASE m \notin council'.consumers
    <3>1. Silent(m)' /\ AgentShape(agent'[m])
      BY <2>2 DEF Inv, LeaseInv, Typed, NodeShape
    <3>2. PICK b : b = agent'[m]  OBVIOUS
    <3>3. SoundNode(v, m, b, j)  BY <3>1, <3>2, QuietSound DEF Silent
    <3>4. SameAgent(b, a)  BY <1>3, <3>2
    <3> QED  BY <3>3, <3>4 DEF SameAgent, SoundNode, SoundView, Counts
  <2> QED  BY <2>1, <2>2
<1>10. Fine(v, m, a, j, p)
  BY <1>3, <1>4, <1>6, <1>7, <1>9 DEF Fine
<1>11. PICK b : b = agent'[m]  OBVIOUS
<1>12. PICK q : q = poll'[m]  OBVIOUS
<1>13. SameAgent(b, a) /\ (q = p \/ q = Idle)  BY <1>3, <1>5, <1>11, <1>12
<1>14. Fine(v, m, b, j, q)  BY <1>10, <1>13, SameFine
<1> QED  BY <1>2, <1>4, <1>11, <1>12, <1>14
-----------------------------------------------------------------------------
(* Steps of one agent.                                                      *)

(* All that the invariants say of one node.                                 *)
Held(w, n, a, j, p) ==
    /\ AgentShape(a) /\ JournalShape(j) /\ PollShape(p)
    /\ Informed(a, j, w.ledger) /\ w.ledger.generation \in Nat
    /\ Fine(w, n, a, j, p)

(* An agent that drops its synchronisation, and perhaps the answer that     *)
(* waits, as one does that fails or crashes.                                *)
LEMMA QuitFine ==
    ASSUME NEW w, NEW n, NEW a, NEW b, NEW j, NEW p, NEW q, Fine(w, n, a, j, p),
           q = p \/ q = Idle, b.sync = NoRequest,
           \/ b.waiting = a.waiting /\ b.up = a.up
           \/ b.waiting = NoRequest /\ q = Idle,
           b.view = a.view, b.lease = a.lease
    PROVE  Fine(w, n, b, j, q)
<1>1. NoRequest.at = "none"  BY DEF NoRequest
<1>2. ~Real(NoRequest)  BY DEF Real
<1>3. Ordered(b, q)  BY <1>2 DEF Fine, Ordered
<1>4. Heard(b, j)  BY DEF Fine, Heard
<1>5. Shows(b, j)  BY <1>1 DEF Fine, Shows
<1>6. SoundNode(w, n, b, j)
  BY DEF Fine, SoundNode, SoundView, Counts
<1>7. n = Producer => OwnView(w.confirmed, b, j)  BY DEF Fine, OwnView
<1> QED  BY <1>3, <1>4, <1>5, <1>6, <1>7 DEF Fine

(* The end of a synchronisation (Done), field by field.                     *)
LEMMA DoneFields ==
    ASSUME NEW a, AgentShape(a), NEW published \in BOOLEAN, NEW d, d = Done(a, published)
    PROVE  /\ d.sync = NoRequest /\ d.waiting = a.waiting /\ d.view = a.view /\ d.up = a.up
           /\ d.lease = IF published /\ a.sync.age # LocalRequest
                        THEN Greatest(a.lease, Lease - a.sync.age) ELSE a.lease
<1>1. PICK l : l = IF published /\ a.sync.age # LocalRequest
                   THEN Greatest(a.lease, Lease - a.sync.age) ELSE a.lease
  OBVIOUS
<1>2. PICK s : s = (a.stale \/ (~published /\ a.sync.age = LocalRequest))  OBVIOUS
<1>3. d = [a EXCEPT !.sync = NoRequest, !.lease = l, !.stale = s]  BY <1>1, <1>2 DEF Done
<1> QED  BY <1>1, <1>3 DEF AgentShape, AgentFields

(* A synchronisation that fails leaves the node as fine as it was.          *)
LEMMA FailFine ==
    ASSUME NEW w, NEW n, NEW a, NEW j, NEW p, Fine(w, n, a, j, p), AgentShape(a)
    PROVE  Fine(w, n, Done(a, FALSE), j, p)
<1>1. PICK d : d = Done(a, FALSE)  OBVIOUS
<1>2. /\ d.sync = NoRequest /\ d.waiting = a.waiting /\ d.view = a.view /\ d.up = a.up
      /\ d.lease = a.lease
  BY <1>1, DoneFields
<1>3. Fine(w, n, d, j, p)  BY <1>2, QuitFine
<1> QED  BY <1>1, <1>3

(* A lease in force is no newer than the poll under way: what it brought    *)
(* will be routed by.                                                       *)
LEMMA LeasedCounts ==
    ASSUME NEW a, NEW p, AgentShape(a), Ordered(a, p), a.sync # NoRequest, a.lease > 0
    PROVE  Counts(a, a.sync)
<1>1. a.lease \in 0 .. Lease /\ Lease \in Nat  BY WithdrawalAssumption DEF AgentShape
<1>2. CASE a.sync.age = LocalRequest  BY <1>2 DEF Counts
<1>3. CASE a.sync.age # LocalRequest
  <2>1. a.sync.age \in LocalRequest .. Lease  BY RequestFacts DEF AgentShape
  <2>2. a.sync.age <= Lease - a.lease  BY <1>3 DEF Ordered, Real
  <2>3. a.sync.age < Lease  BY <1>1, <2>1, <2>2 DEF LocalRequest
  <2> QED  BY <1>3, <2>3 DEF Counts
<1> QED  BY <1>2, <1>3

(* One that ends with its view published renews the lease, from the moment  *)
(* its poll was sent.                                                       *)
LEMMA PublishedFine ==
    ASSUME NEW w, NEW n, NEW a, NEW j, NEW p, Held(w, n, a, j, p),
           a.sync # NoRequest, a.sync.at = "compact"
    PROVE  Fine(w, n, Done(a, TRUE), j, p)
<1>1. PICK d : d = Done(a, TRUE)  OBVIOUS
<1>2. /\ d.sync = NoRequest /\ d.waiting = a.waiting /\ d.view = a.view /\ d.up = a.up
      /\ d.lease = IF a.sync.age # LocalRequest
                   THEN Greatest(a.lease, Lease - a.sync.age) ELSE a.lease
  BY <1>1, DoneFields DEF Held
<1>3. CASE a.sync.age = LocalRequest
  <2>1. d.lease = a.lease  BY <1>2, <1>3
  <2>2. Fine(w, n, d, j, p)  BY <1>2, <2>1, QuitFine DEF Held
  <2> QED  BY <1>1, <2>2
<1>4. CASE a.sync.age # LocalRequest
  <2>1. Fine(w, n, a, j, p) /\ AgentShape(a) /\ PollShape(p)  BY DEF Held
  <2>2. /\ Ordered(a, p) /\ Heard(a, j) /\ Shows(a, j) /\ SoundNode(w, n, a, j)
    BY <2>1 DEF Fine
  <2>3. a.sync.age \in 0 .. Lease /\ a.lease \in 0 .. Lease /\ Lease \in Nat
    BY <1>4, <2>1, RequestFacts, WithdrawalAssumption DEF AgentShape, LocalRequest
  <2>4. d.lease = Greatest(a.lease, Lease - a.sync.age)  BY <1>2, <1>4
  <2>5. Lease - d.lease = Lease - a.lease \/ Lease - d.lease = a.sync.age
    BY <2>3, <2>4 DEF Greatest
  <2>6. Real(a.sync) /\ ~Real(NoRequest)  BY <1>4 DEF Real
  <2>7. a.waiting # NoRequest => a.waiting.age # LocalRequest
    BY <2>2 DEF Ordered
  <2>8. Ordered(d, p)
    <3>1. Real(a.waiting) => a.waiting.age <= Lease - d.lease
      BY <2>2, <2>5, <2>6 DEF Ordered
    <3>2. p # Idle => p.age <= Lease - d.lease
      BY <2>2, <2>5, <2>6 DEF Ordered
    <3> QED  BY <1>2, <2>2, <2>6, <3>1, <3>2 DEF Ordered
  <2>9. Heard(d, j)  BY <1>2, <2>2 DEF Heard
  <2>10. NoRequest.at = "none"  BY DEF NoRequest
  <2>11. Shows(d, j)  BY <1>2, <2>2, <2>10 DEF Shows
  <2>12. j.phase = "Active" /\ Latest(j) = a.sync.publication /\ j.publications # <<>>
    BY <2>2 DEF Shows, Heard, Held, Informed
  <2>13. d.lease > 0 => a.lease > 0 \/ Counts(a, a.sync)
    BY <1>4, <2>3, <2>4 DEF Counts, Greatest
  <2>14. d.lease > 0 => Sound(w, n, Latest(j).generation, Latest(j).catalog)
    BY <2>2, <2>12, <2>13 DEF SoundNode
  <2>15. Within(a.view, Latest(j).catalog)
    <3>1. Within(a.view, Latest(j).effective)  BY <2>2, <2>12 DEF Shows
    <3>2. Within(Latest(j).effective, Latest(j).catalog)  BY <2>2, <2>12 DEF Shows
    <3> QED  BY <3>1, <3>2, WithinFacts
  <2>16. SoundView(w, n, d, j)
    <3> SUFFICES ASSUME d.lease > 0
                 PROVE  \E g \in Nat : /\ g <= w.ledger.generation /\ Sound(w, n, g, d.view)
                                       /\ \A h \in Ready(j) : h < g
      BY DEF SoundView
    <3>1. PICK g : g = Latest(j).generation  OBVIOUS
    <3>2. g \in Nat /\ g <= w.ledger.generation /\ \A h \in Ready(j) : h < g
      <4>1. PICK k : k = w.ledger  OBVIOUS
      <4>2. Informed(a, j, k) /\ k.generation \in Nat  BY <4>1 DEF Held
      <4> QED  BY <2>2, <2>12, <3>1, <4>1, <4>2, ReadyIsOlder
    <3>3. PICK c : c = Latest(j).catalog  OBVIOUS
    <3>4. Sound(w, n, g, c) /\ Within(a.view, c)  BY <2>14, <2>15, <3>1, <3>3
    <3>5. Sound(w, n, g, a.view)  BY <3>4, WithinSound
    <3> QED  BY <1>2, <3>2, <3>5
  <2>17. SoundNode(w, n, d, j)
    BY <1>2, <2>2, <2>7, <2>14, <2>16 DEF SoundNode, Counts
  <2>18. n = Producer => OwnView(w.confirmed, d, j)  BY <1>2, <2>1 DEF Fine, OwnView
  <2> QED  BY <1>1, <2>8, <2>9, <2>11, <2>17, <2>18 DEF Fine
<1> QED  BY <1>3, <1>4

(* Two agents at different steps of the same synchronisation.               *)
SameSync(a, b) ==
    /\ a.sync # NoRequest /\ b.sync # NoRequest
    /\ b.sync.age = a.sync.age /\ b.sync.publication = a.sync.publication
    /\ b.sync.withdrawals = a.sync.withdrawals
    /\ b.waiting = a.waiting /\ b.lease = a.lease /\ b.up = a.up

(* Goto changes the step and nothing else.                                  *)
LEMMA GotoFields ==
    ASSUME NEW a, AgentShape(a), a.sync # NoRequest, DOMAIN a.sync = UnderwayFields,
           NEW step, NEW d, d = Goto(a, step)
    PROVE  SameSync(a, d) /\ d.sync.at = step /\ d.view = a.view
<1>1. PICK r : r = a.sync  OBVIOUS
<1>2. PICK q : q = [r EXCEPT !.at = step]  OBVIOUS
<1>3. d = [a EXCEPT !.sync = q]  BY <1>1, <1>2 DEF Goto
<1>4. /\ DOMAIN q = UnderwayFields /\ q.at = step /\ q.age = r.age
      /\ q.publication = r.publication /\ q.withdrawals = r.withdrawals
  BY <1>1, <1>2 DEF UnderwayFields
<1>5. q # NoRequest  BY <1>4, AgedIsRequest DEF UnderwayFields
<1>6. d.sync = q /\ d.waiting = a.waiting /\ d.lease = a.lease /\ d.up = a.up /\ d.view = a.view
  BY <1>3 DEF AgentShape, AgentFields
<1> QED  BY <1>1, <1>4, <1>5, <1>6 DEF SameSync

(* A step of a synchronisation: what is left to show.                       *)
LEMMA AdvanceFine ==
    ASSUME NEW w, NEW n, NEW a, NEW b, NEW j, NEW i, NEW p, Fine(w, n, a, j, p), SameSync(a, b),
           Heard(b, i), Shows(b, i), SoundView(w, n, b, i),
           b.lease > 0 /\ i.phase = "Active" =>
              Sound(w, n, Latest(i).generation, Latest(i).catalog),
           n = Producer =>
              /\ Backends(b.view) \cap (w.confirmed \cup {Unknown}) = {}
              /\ \A x \in DOMAIN i.publications : Unknown \notin Backends(i.publications[x].effective)
    PROVE  Fine(w, n, b, i, p)
<1>1. Ordered(b, p)  BY DEF Fine, SameSync, Ordered, Real
<1>2. SoundNode(w, n, b, i)  BY DEF Fine, SoundNode, SameSync, Counts
<1>3. n = Producer => OwnView(w.confirmed, b, i)  BY DEF Fine, OwnView, SameSync
<1> QED  BY <1>1, <1>2, <1>3 DEF Fine

(* What Held gives every step after the first write.                        *)
LEMMA HeldFacts ==
    ASSUME NEW w, NEW n, NEW a, NEW j, NEW p, Held(w, n, a, j, p), a.sync # NoRequest,
           NEW g, g = a.sync.publication.generation
    PROVE  /\ DOMAIN a.sync = UnderwayFields
           /\ g \in Nat /\ g <= w.ledger.generation
           /\ \A h \in DOMAIN j.receipts : h \in Nat /\ h < g
           /\ a.lease > 0 => Sound(w, n, g, a.sync.publication.catalog)
           /\ a.lease > 0 => Sound(w, n, g, a.sync.publication.effective)
           /\ a.sync.at # "journal" => j.publications # <<>> /\ Latest(j) = a.sync.publication
<1>1. /\ Heard(a, j) /\ Shows(a, j) /\ SoundNode(w, n, a, j) /\ Ordered(a, p)
      /\ Informed(a, j, w.ledger) /\ AgentShape(a)
  BY DEF Held, Fine
<1>2. /\ DOMAIN a.sync = UnderwayFields /\ g \in Nat /\ g <= w.ledger.generation
  <2>1. Current(w.ledger, g, a.sync.publication.catalog) /\ DOMAIN a.sync = UnderwayFields
    BY <1>1 DEF Informed, AgentHears
  <2> QED  BY <2>1 DEF Current, Held
<1>3. \A h \in DOMAIN j.receipts : h \in Nat /\ h < g
  <2>1. j.publications # <<>> =>
           Latest(j).generation \in Nat /\ Latest(j).generation <= g
    BY <1>1 DEF Informed, JournalHears, Current, Heard
  <2> QED  BY <1>1, <1>2, <2>1 DEF Heard, Below
<1>4. a.lease > 0 => Sound(w, n, g, a.sync.publication.catalog)
  BY <1>1, LeasedCounts DEF SoundNode
<1>5. a.lease > 0 => Sound(w, n, g, a.sync.publication.effective)
  <2>1. PICK c : c = a.sync.publication.catalog  OBVIOUS
  <2>2. PICK v : v = a.sync.publication.effective  OBVIOUS
  <2>3. Within(v, c)  BY <1>1, <2>1, <2>2 DEF Shows
  <2> QED  BY <1>4, <2>1, <2>2, <2>3, WithinSound
<1>6. a.sync.at # "journal" => j.publications # <<>> /\ Latest(j) = a.sync.publication
  BY <1>1 DEF Informed, Heard
<1> QED  BY <1>2, <1>3, <1>4, <1>5, <1>6

(* An agent whose view is withdrawn.                                        *)
LEMMA ClearedFine ==
    ASSUME NEW w, NEW n, NEW a, NEW b, NEW j, NEW p, Held(w, n, a, j, p), a.sync.at = "withdraw",
           a.sync # NoRequest, DOMAIN b.view = {}, b.sync = a.sync, b.waiting = a.waiting,
           b.lease = a.lease, b.up = a.up
    PROVE  Fine(w, n, b, j, p)
<1>1. Fine(w, n, a, j, p)  BY DEF Held
<1>2. Heard(b, j)  BY <1>1 DEF Fine, Heard
<1>3. Shows(b, j)
  <2>1. Within(b.view, Latest(j).effective)  BY DEF Within
  <2> QED  BY <1>1, <2>1 DEF Fine, Shows
<1>4. SoundView(w, n, b, j)
  <2>1. PICK g : g = a.sync.publication.generation  OBVIOUS
  <2>2. g \in Nat /\ g <= w.ledger.generation /\ \A h \in DOMAIN j.receipts : h < g
    BY <2>1, HeldFacts
  <2>3. Sound(w, n, g, b.view)  BY EmptySound
  <2> QED  BY <2>2, <2>3 DEF SoundView, Ready
<1>5. b.lease > 0 /\ j.phase = "Active" => Sound(w, n, Latest(j).generation, Latest(j).catalog)
  BY <1>1 DEF Fine, SoundNode
<1>6. n = Producer =>
              /\ Backends(b.view) \cap (w.confirmed \cup {Unknown}) = {}
              /\ \A x \in DOMAIN j.publications : Unknown \notin Backends(j.publications[x].effective)
  BY <1>1 DEF Fine, OwnView, Backends
<1>7. SameSync(a, b)  BY DEF SameSync
<1> QED  BY <1>1, <1>2, <1>3, <1>4, <1>5, <1>6, <1>7, AdvanceFine

(* The same, with the journal saying so.                                    *)
LEMMA WithdrawFine ==
    ASSUME NEW w, NEW n, NEW a, NEW b, NEW i, NEW j, NEW p, Held(w, n, a, j, p),
           a.sync.at = "withdraw", a.sync # NoRequest, DOMAIN b.view = {}, SameSync(a, b),
           b.sync.at = "prove", i.publications = j.publications, i.receipts = j.receipts,
           i.phase = "Withdrawn"
    PROVE  Fine(w, n, b, i, p)
<1>1. Fine(w, n, a, j, p)  BY DEF Held
<1>2. Latest(i) = Latest(j) /\ Ready(i) = Ready(j)  BY DEF Latest, Ready
<1>3. Heard(b, i)  BY <1>1, <1>2 DEF Fine, Heard, SameSync
<1>4. Shows(b, i)  BY <1>1, <1>2 DEF Fine, Shows, SameSync
<1>5. SoundView(w, n, b, i)
  <2>1. PICK g : g = a.sync.publication.generation  OBVIOUS
  <2>2. g \in Nat /\ g <= w.ledger.generation /\ \A h \in DOMAIN j.receipts : h < g
    BY <2>1, HeldFacts
  <2>3. Sound(w, n, g, b.view)  BY EmptySound
  <2> QED  BY <1>2, <2>2, <2>3 DEF SoundView, Ready
<1>6. n = Producer =>
              /\ Backends(b.view) \cap (w.confirmed \cup {Unknown}) = {}
              /\ \A x \in DOMAIN i.publications : Unknown \notin Backends(i.publications[x].effective)
  BY <1>1 DEF Fine, OwnView, Backends
<1> QED  BY <1>1, <1>3, <1>4, <1>5, <1>6, AdvanceFine

(* Proving receipts marks some of them ready and no other.                  *)
LEMMA ProvenFacts ==
    ASSUME NEW r, NEW publication
    PROVE  DOMAIN Proven(r, publication) = DOMAIN r
BY DEF Proven

(* With nothing exposed, receipts may be proven against the new view.       *)
LEMMA ProveFine ==
    ASSUME NEW w, NEW n, NEW a, NEW b, NEW i, NEW j, NEW p, Held(w, n, a, j, p),
           a.sync.at = "prove", a.sync # NoRequest, b.view = a.view, SameSync(a, b),
           b.sync.at = "publish", i.publications = j.publications,
           DOMAIN i.receipts = DOMAIN j.receipts, i.phase = j.phase
    PROVE  Fine(w, n, b, i, p)
<1>1. Fine(w, n, a, j, p)  BY DEF Held
<1>2. Latest(i) = Latest(j)  BY DEF Latest
<1>3. Heard(b, i)  BY <1>1, <1>2 DEF Fine, Heard, SameSync
<1>4. Shows(b, i)  BY <1>1, <1>2 DEF Fine, Shows, SameSync
<1>5. SoundView(w, n, b, i)
  <2>1. PICK g : g = a.sync.publication.generation  OBVIOUS
  <2>2. g \in Nat /\ g <= w.ledger.generation /\ \A h \in DOMAIN j.receipts : h < g
    BY <2>1, HeldFacts
  <2>3. DOMAIN b.view = {}  BY <1>1 DEF Fine, Shows
  <2>4. Sound(w, n, g, b.view)  BY <2>3, EmptySound
  <2> QED  BY <2>2, <2>4 DEF SoundView, Ready
<1>6. n = Producer =>
              /\ Backends(b.view) \cap (w.confirmed \cup {Unknown}) = {}
              /\ \A x \in DOMAIN i.publications : Unknown \notin Backends(i.publications[x].effective)
  BY <1>1 DEF Fine, OwnView
<1>7. b.lease > 0 /\ i.phase = "Active" => Sound(w, n, Latest(i).generation, Latest(i).catalog)
  BY <1>1 DEF Fine, Shows
<1> QED  BY <1>1, <1>3, <1>4, <1>5, <1>6, <1>7, AdvanceFine

(* The one publication of a journal that holds no other.                    *)
LEMMA OnlyFacts ==
    ASSUME NEW p, NEW i, i.publications = <<p>>
    PROVE  /\ i.publications # <<>> /\ Latest(i) = p
           /\ DOMAIN i.publications # {} /\ \A x \in DOMAIN i.publications : i.publications[x] = p
<1>1. i.publications # <<>> /\ Latest(i) = p  BY OnlyPublication
<1>2. DOMAIN i.publications = {1} /\ i.publications[1] = p  OBVIOUS
<1> QED  BY <1>1, <1>2

(* The new view is announced before it is installed.                        *)
LEMMA AnnounceFine ==
    ASSUME NEW w, NEW n, NEW a, NEW b, NEW i, NEW j, NEW p, Held(w, n, a, j, p),
           a.sync.at = "publish", a.sync # NoRequest, b.view = a.view, SameSync(a, b),
           b.sync.at = "install", i.publications = <<a.sync.publication>>,
           i.receipts = j.receipts, i.phase = "Publishing"
    PROVE  Fine(w, n, b, i, p)
<1>1. Fine(w, n, a, j, p)  BY DEF Held
<1>2. PICK u : u = a.sync.publication  OBVIOUS
<1>3. /\ i.publications # <<>> /\ Latest(i) = u
      /\ \A x \in DOMAIN i.publications : i.publications[x] = u
  BY <1>2, OnlyFacts
<1>4. PICK g : g = u.generation  OBVIOUS
<1>5. g \in Nat /\ g <= w.ledger.generation /\ \A h \in DOMAIN j.receipts : h \in Nat /\ h < g
  BY <1>2, <1>4, HeldFacts
<1>6. Heard(b, i)
  BY <1>1, <1>2, <1>3, <1>4, <1>5 DEF Fine, Heard, SameSync, Below
<1>7. DOMAIN b.view = {}  BY <1>1 DEF Fine, Shows
<1>8. Shows(b, i)
  BY <1>1, <1>2, <1>3, <1>7 DEF Fine, Shows, SameSync
<1>9. SoundView(w, n, b, i)
  <2>1. Sound(w, n, g, b.view)  BY <1>7, EmptySound
  <2> QED  BY <1>5, <2>1 DEF SoundView, Ready
<1>10. n = Producer =>
              /\ Backends(b.view) \cap (w.confirmed \cup {Unknown}) = {}
              /\ \A x \in DOMAIN i.publications : Unknown \notin Backends(i.publications[x].effective)
  BY <1>1, <1>2, <1>3 DEF Fine, OwnView
<1> QED  BY <1>1, <1>6, <1>8, <1>9, <1>10, AdvanceFine

(* A view that was announced is installed.                                  *)
LEMMA InstallFine ==
    ASSUME NEW w, NEW n, NEW a, NEW b, NEW j, NEW p, Held(w, n, a, j, p),
           a.sync.at = "install", a.sync # NoRequest, b.view = a.sync.publication.effective,
           SameSync(a, b), b.sync.at = "activate"
    PROVE  Fine(w, n, b, j, p)
<1>1. Fine(w, n, a, j, p)  BY DEF Held
<1>2. PICK u : u = a.sync.publication  OBVIOUS
<1>3. PICK g : g = u.generation  OBVIOUS
<1>4. /\ g \in Nat /\ g <= w.ledger.generation /\ \A h \in DOMAIN j.receipts : h < g
      /\ a.lease > 0 => Sound(w, n, g, u.effective)
      /\ j.publications # <<>> /\ Latest(j) = u
  BY <1>2, <1>3, HeldFacts
<1>5. Heard(b, j)  BY <1>1, <1>4 DEF Fine, Heard, SameSync
<1>6. \E x \in DOMAIN j.publications : j.publications[x] = Latest(j)
  <2>1. PICK S : j.publications \in Seq(S)  BY DEF Held, Informed, JournalHears
  <2>2. PICK q : q = j.publications  OBVIOUS
  <2>3. q \in Seq(S) /\ q # <<>>  BY <1>4, <2>1, <2>2
  <2>4. Len(q) \in DOMAIN q  BY <2>3
  <2> QED  BY <2>2, <2>4 DEF Latest
<1>7. Within(b.view, Latest(j).effective)  BY <1>2, <1>4 DEF Within
<1>8. Shows(b, j)  BY <1>1, <1>6, <1>7 DEF Fine, Shows, SameSync
<1>9. SoundView(w, n, b, j)
  BY <1>2, <1>4 DEF SoundView, SameSync, Ready
<1>10. n = Producer =>
              /\ Backends(b.view) \cap (w.confirmed \cup {Unknown}) = {}
              /\ \A x \in DOMAIN j.publications : Unknown \notin Backends(j.publications[x].effective)
  BY <1>1, <1>2 DEF Fine, OwnView
<1>11. b.lease > 0 /\ j.phase = "Active" => Sound(w, n, Latest(j).generation, Latest(j).catalog)
  BY <1>1 DEF Fine, Shows
<1> QED  BY <1>1, <1>5, <1>8, <1>9, <1>10, <1>11, AdvanceFine

(* The journal says that it is.                                             *)
LEMMA ActivateFine ==
    ASSUME NEW w, NEW n, NEW a, NEW b, NEW i, NEW j, NEW p, Held(w, n, a, j, p),
           a.sync.at = "activate", a.sync # NoRequest, b.view = a.view, SameSync(a, b),
           b.sync.at = "compact", i.publications = j.publications,
           i.receipts = j.receipts, i.phase = "Active"
    PROVE  Fine(w, n, b, i, p)
<1>1. Fine(w, n, a, j, p)  BY DEF Held
<1>2. Latest(i) = Latest(j) /\ Ready(i) = Ready(j)  BY DEF Latest, Ready
<1>3. PICK g : g = a.sync.publication.generation  OBVIOUS
<1>4. /\ a.lease > 0 => Sound(w, n, g, a.sync.publication.catalog)
      /\ Latest(j) = a.sync.publication
  BY <1>3, HeldFacts
<1>5. Heard(b, i)  BY <1>1, <1>2, <1>4 DEF Fine, Heard, SameSync
<1>6. Shows(b, i)  BY <1>1, <1>2 DEF Fine, Shows, SameSync
<1>7. SoundView(w, n, b, i)  BY <1>1, <1>2 DEF Fine, SoundNode, SoundView, SameSync
<1>8. n = Producer =>
              /\ Backends(b.view) \cap (w.confirmed \cup {Unknown}) = {}
              /\ \A x \in DOMAIN i.publications : Unknown \notin Backends(i.publications[x].effective)
  BY <1>1 DEF Fine, OwnView
<1>9. b.lease > 0 /\ i.phase = "Active" => Sound(w, n, Latest(i).generation, Latest(i).catalog)
  BY <1>2, <1>3, <1>4 DEF SameSync
<1> QED  BY <1>1, <1>5, <1>6, <1>7, <1>8, <1>9, AdvanceFine

(* Earlier views are forgotten, and receipts proven against the last.       *)
LEMMA CompactFine ==
    ASSUME NEW w, NEW n, NEW a, NEW i, NEW j, NEW p, Held(w, n, a, j, p),
           a.sync.at = "compact", a.sync # NoRequest, i.publications = <<Latest(j)>>,
           DOMAIN i.receipts = DOMAIN j.receipts, i.phase = j.phase
    PROVE  Fine(w, n, a, i, p)
<1>1. Fine(w, n, a, j, p)  BY DEF Held
<1>2. PICK u : u = a.sync.publication  OBVIOUS
<1>3. PICK g : g = u.generation  OBVIOUS
<1>4. /\ g \in Nat /\ g <= w.ledger.generation
      /\ \A h \in DOMAIN j.receipts : h \in Nat /\ h < g
      /\ a.lease > 0 => Sound(w, n, g, u.catalog)
      /\ j.publications # <<>> /\ Latest(j) = u
  BY <1>2, <1>3, HeldFacts
<1>5. /\ i.publications # <<>> /\ Latest(i) = u /\ DOMAIN i.publications # {}
      /\ \A x \in DOMAIN i.publications : i.publications[x] = u
  <2>1. i.publications = <<u>>  BY <1>4
  <2> QED  BY <2>1, OnlyFacts
<1>6. Heard(a, i)  BY <1>1, <1>2, <1>3, <1>4, <1>5 DEF Fine, Heard, Below
<1>7. Within(a.view, u.effective) /\ Within(u.effective, u.catalog) /\ j.phase = "Active"
  BY <1>1, <1>2, <1>4 DEF Fine, Shows
<1>8. Shows(a, i)
  BY <1>1, <1>2, <1>5, <1>7 DEF Fine, Shows
<1>9. SoundView(w, n, a, i)
  <2>1. Within(a.view, u.catalog)  BY <1>7, WithinFacts
  <2>2. PICK c : c = u.catalog  OBVIOUS
  <2>3. a.lease > 0 => Sound(w, n, g, a.view)  BY <1>4, <2>1, <2>2, WithinSound
  <2> QED  BY <1>4, <2>3 DEF SoundView, Ready
<1>10. n = Producer =>
              /\ Backends(a.view) \cap (w.confirmed \cup {Unknown}) = {}
              /\ \A x \in DOMAIN i.publications : Unknown \notin Backends(i.publications[x].effective)
  BY <1>1, <1>2, <1>5 DEF Fine, OwnView
<1>11. a.lease > 0 /\ i.phase = "Active" => Sound(w, n, Latest(i).generation, Latest(i).catalog)
  BY <1>3, <1>4, <1>5
<1>12. SameSync(a, a)  BY DEF SameSync
<1> QED  BY <1>1, <1>6, <1>8, <1>9, <1>10, <1>11, <1>12, AdvanceFine

(* A journal after a publication is appended to it, if it is not there.     *)
LEMMA AppendedFacts ==
    ASSUME NEW j, NEW k, JournalHears(j, k), NEW u, NEW i, i.publications = Appended(j, u)
    PROVE  /\ i.publications # <<>> /\ Latest(i) = u
           /\ \A x \in DOMAIN j.publications :
                 x \in DOMAIN i.publications /\ i.publications[x] = j.publications[x]
           /\ \A x \in DOMAIN i.publications :
                 \/ i.publications[x] = u
                 \/ x \in DOMAIN j.publications /\ i.publications[x] = j.publications[x]
<1>1. i.publications # <<>> /\ Latest(i) = u  BY AppendedPublication
<1>2. PICK S : j.publications \in Seq(S)  BY DEF JournalHears
<1>3. PICK T : T = S \cup {u}  OBVIOUS
<1>4. PICK q : q = j.publications  OBVIOUS
<1>5. q \in Seq(T) /\ u \in T  BY <1>2, <1>3, <1>4
<1>6. PICK r : r = Append(q, u)  OBVIOUS
<1>7. /\ DOMAIN q = 1 .. Len(q) /\ DOMAIN r = 1 .. (Len(q) + 1) /\ Len(q) \in Nat
      /\ r[Len(q) + 1] = u /\ \A x \in 1 .. Len(q) : r[x] = q[x]
  BY <1>5, <1>6
<1>8. /\ \A x \in DOMAIN q : x \in DOMAIN r /\ r[x] = q[x]
      /\ \A x \in DOMAIN r : r[x] = u \/ (x \in DOMAIN q /\ r[x] = q[x])
  BY <1>7
<1>9. i.publications = q \/ i.publications = r
  BY <1>4, <1>6 DEF Appended
<1> QED  BY <1>1, <1>4, <1>8, <1>9

(* Noting what the node owes makes no receipt ready.                        *)
LEMMA NotedFacts ==
    ASSUME NEW r, NEW v, NEW i, NEW j, i.receipts = Noted(r, v), j.receipts = r
    PROVE  DOMAIN i.receipts = DOMAIN r \cup DOMAIN v /\ Ready(i) = Ready(j)
<1>1. /\ DOMAIN i.receipts = DOMAIN r \cup DOMAIN v
      /\ \A g \in DOMAIN i.receipts :
            i.receipts[g] = IF g \in DOMAIN r THEN r[g] ELSE [removed |-> v[g], ready |-> FALSE]
  BY DEF Noted
<1>2. ASSUME NEW g \in DOMAIN i.receipts, g \notin DOMAIN r PROVE i.receipts[g].ready = FALSE
  <2>1. i.receipts[g] = [removed |-> v[g], ready |-> FALSE]  BY <1>1, <1>2
  <2> QED  BY <2>1
<1> QED  BY <1>1, <1>2 DEF Ready

(* journal_consumer_answer: the view is announced next to those it          *)
(* replaces, whether it is installed in place or all is withdrawn first.    *)
LEMMA NoteFine ==
    ASSUME NEW w, NEW n, NEW a, NEW b, NEW i, NEW j, NEW p, Held(w, n, a, j, p),
           a.sync.at = "journal", a.sync # NoRequest, b.view = a.view, SameSync(a, b),
           i.publications = Appended(j, a.sync.publication),
           i.receipts = Noted(j.receipts, a.sync.withdrawals),
           \/ b.sync.at = "withdraw" /\ i.phase = "Withdrawing"
           \/ b.sync.at = "install" /\ i.phase = "Publishing"
    PROVE  Fine(w, n, b, i, p)
<1>1. Fine(w, n, a, j, p)  BY DEF Held
<1>2. PICK u : u = a.sync.publication  OBVIOUS
<1>3. PICK g : g = u.generation  OBVIOUS
<1>4. g \in Nat /\ g <= w.ledger.generation /\ \A h \in DOMAIN j.receipts : h \in Nat /\ h < g
  BY <1>2, <1>3, HeldFacts
<1>5. /\ i.publications # <<>> /\ Latest(i) = u
      /\ \A x \in DOMAIN j.publications :
                 x \in DOMAIN i.publications /\ i.publications[x] = j.publications[x]
      /\ \A x \in DOMAIN i.publications :
                 \/ i.publications[x] = u
                 \/ x \in DOMAIN j.publications /\ i.publications[x] = j.publications[x]
  <2>1. PICK k : k = w.ledger  OBVIOUS
  <2>2. JournalHears(j, k)  BY <2>1 DEF Held, Informed
  <2> QED  BY <1>2, <2>2, AppendedFacts
<1>6. DOMAIN i.receipts = DOMAIN j.receipts \cup DOMAIN a.sync.withdrawals /\ Ready(i) = Ready(j)
  <2>1. PICK r : r = j.receipts  OBVIOUS
  <2>2. PICK v : v = a.sync.withdrawals  OBVIOUS
  <2>3. i.receipts = Noted(r, v) /\ j.receipts = r  BY <2>1, <2>2
  <2>4. DOMAIN i.receipts = DOMAIN r \cup DOMAIN v /\ Ready(i) = Ready(j)
    BY ONLY <2>3, NotedFacts
  <2> QED  BY <2>1, <2>2, <2>4
<1>7. Heard(b, i)
  <2>1. Below(DOMAIN a.sync.withdrawals, g)  BY <1>1, <1>2, <1>3 DEF Fine, Heard
  <2>2. Below(DOMAIN i.receipts, g)  BY <1>4, <1>6, <2>1 DEF Below
  <2> QED  BY <1>1, <1>2, <1>3, <1>4, <1>5, <2>1, <2>2 DEF Fine, Heard, SameSync
<1>8. Shows(b, i)
  <2>1. \A x \in DOMAIN i.publications :
           Within(i.publications[x].effective, i.publications[x].catalog)
    BY <1>1, <1>2, <1>5 DEF Fine, Shows
  <2>2. \/ DOMAIN b.view = {}
        \/ \E x \in DOMAIN i.publications : Within(b.view, i.publications[x].effective)
    BY <1>1, <1>5 DEF Fine, Shows
  <2> QED  BY <1>1, <2>1, <2>2 DEF Fine, Shows, SameSync
<1>9. SoundView(w, n, b, i)  BY <1>1, <1>6 DEF Fine, SoundNode, SoundView, SameSync
<1>10. n = Producer =>
              /\ Backends(b.view) \cap (w.confirmed \cup {Unknown}) = {}
              /\ \A x \in DOMAIN i.publications : Unknown \notin Backends(i.publications[x].effective)
  BY <1>1, <1>2, <1>5 DEF Fine, OwnView
<1> QED  BY <1>1, <1>7, <1>8, <1>9, <1>10, AdvanceFine

(* The catalogue is the one in force; a view that a lapsed lease had cut    *)
(* down is installed again.                                                 *)
LEMMA RenewFine ==
    ASSUME NEW w, NEW n, NEW a, NEW b, NEW i, NEW j, NEW p, Held(w, n, a, j, p),
           a.sync.at = "journal", a.sync # NoRequest, SameSync(a, b), b.sync.at = "compact",
           b.view = a.view \/ b.view = a.sync.publication.effective,
           IsLatest(j, a.sync.publication), j.phase = "Active",
           i.publications = j.publications, i.phase = j.phase,
           i.receipts = Noted(j.receipts, a.sync.withdrawals)
    PROVE  Fine(w, n, b, i, p)
<1>1. Fine(w, n, a, j, p)  BY DEF Held
<1>2. PICK u : u = a.sync.publication  OBVIOUS
<1>3. PICK g : g = u.generation  OBVIOUS
<1>4. /\ g \in Nat /\ g <= w.ledger.generation
      /\ \A h \in DOMAIN j.receipts : h \in Nat /\ h < g
      /\ a.lease > 0 => Sound(w, n, g, u.catalog)
      /\ a.lease > 0 => Sound(w, n, g, u.effective)
  BY <1>2, <1>3, HeldFacts
<1>5. j.publications # <<>> /\ Latest(j) = u /\ Latest(i) = u  BY <1>2 DEF IsLatest, Latest
<1>6. DOMAIN i.receipts = DOMAIN j.receipts \cup DOMAIN a.sync.withdrawals /\ Ready(i) = Ready(j)
  <2>1. PICK r : r = j.receipts  OBVIOUS
  <2>2. PICK v : v = a.sync.withdrawals  OBVIOUS
  <2>3. i.receipts = Noted(r, v) /\ j.receipts = r  BY <2>1, <2>2
  <2>4. DOMAIN i.receipts = DOMAIN r \cup DOMAIN v /\ Ready(i) = Ready(j)
    BY ONLY <2>3, NotedFacts
  <2> QED  BY <2>1, <2>2, <2>4
<1>7. Heard(b, i)
  <2>1. Below(DOMAIN a.sync.withdrawals, g)  BY <1>1, <1>2, <1>3 DEF Fine, Heard
  <2>2. Below(DOMAIN i.receipts, g)  BY <1>4, <1>6, <2>1 DEF Below
  <2> QED  BY <1>1, <1>2, <1>3, <1>4, <1>5, <2>1, <2>2 DEF Fine, Heard, SameSync
<1>8. Within(b.view, u.effective)
  <2>1. Within(a.view, u.effective)  BY <1>1, <1>5 DEF Fine, Shows
  <2>2. Within(u.effective, u.effective)  BY DEF Within
  <2> QED  BY <1>2, <2>1, <2>2
<1>9. Shows(b, i)
  <2>1. \E x \in DOMAIN j.publications : j.publications[x] = Latest(j)
    <3>1. PICK S : j.publications \in Seq(S)  BY DEF Held, Informed, JournalHears
    <3>2. PICK q : q = j.publications  OBVIOUS
    <3>3. q \in Seq(S) /\ q # <<>>  BY <1>5, <3>1, <3>2
    <3>4. Len(q) \in DOMAIN q  BY <3>3
    <3> QED  BY <3>2, <3>4 DEF Latest
  <2> QED  BY <1>1, <1>5, <1>8, <2>1 DEF Fine, Shows, SameSync
<1>10. SoundView(w, n, b, i)
  <2>1. CASE b.view = a.view
    BY <1>1, <1>6, <2>1 DEF Fine, SoundNode, SoundView, SameSync
  <2>2. CASE b.view = u.effective
    <3>1. \A h \in Ready(i) : h < g  BY <1>4, <1>6 DEF Ready
    <3> QED  BY <1>4, <2>2, <3>1 DEF SoundView, SameSync
  <2> QED  BY <1>2, <2>1, <2>2
<1>11. n = Producer =>
              /\ Backends(b.view) \cap (w.confirmed \cup {Unknown}) = {}
              /\ \A x \in DOMAIN i.publications : Unknown \notin Backends(i.publications[x].effective)
  BY <1>1, <1>2 DEF Fine, OwnView
<1>12. b.lease > 0 /\ i.phase = "Active" => Sound(w, n, Latest(i).generation, Latest(i).catalog)
  BY <1>3, <1>4, <1>5 DEF SameSync
<1> QED  BY <1>1, <1>7, <1>9, <1>10, <1>11, <1>12, AdvanceFine

(* A synchronisation takes up the answer that waits.                        *)
LEMMA TakeFine ==
    ASSUME NEW w, NEW n, NEW a, NEW b, NEW j, NEW p, Held(w, n, a, j, p), a.sync = NoRequest,
           a.waiting # NoRequest, a.up, b.up = a.up, b.view = a.view, b.lease = a.lease,
           b.waiting = NoRequest, b.sync # NoRequest, b.sync.at = "journal",
           b.sync.age = a.waiting.age, b.sync.withdrawals = a.waiting.withdrawals,
           b.sync.publication.generation = a.waiting.generation,
           b.sync.publication.catalog = a.waiting.catalog,
           Within(b.sync.publication.effective, b.sync.publication.catalog),
           n = Producer =>
              Backends(b.sync.publication.effective) \cap (w.confirmed \cup {Unknown}) = {}
    PROVE  Fine(w, n, b, j, p)
<1>1. Fine(w, n, a, j, p)  BY DEF Held
<1>2. Ordered(b, p)  BY <1>1 DEF Fine, Ordered, Real
<1>3. Heard(b, j)  BY <1>1 DEF Fine, Heard
<1>4. Shows(b, j)  BY <1>1 DEF Fine, Shows
<1>5. SoundNode(w, n, b, j)  BY <1>1 DEF Fine, SoundNode, SoundView, Counts
<1>6. n = Producer => OwnView(w.confirmed, b, j)  BY <1>1 DEF Fine, OwnView
<1> QED  BY <1>2, <1>3, <1>4, <1>5, <1>6 DEF Fine

(* A node that is fenced, or that restarts, shows part of its last view or  *)
(* none, without a lease.                                                   *)
LEMMA UnleasedFine ==
    ASSUME NEW w, NEW n, NEW a, NEW b, NEW i, NEW j, NEW p, Held(w, n, a, j, p),
           b.lease = 0, b.waiting = a.waiting, b.sync = a.sync, b.up \/ b.up = a.up,
           i.publications = j.publications, i.receipts = j.receipts,
           \/ i.phase = j.phase /\ j.phase = "Active" /\ Within(b.view, Latest(j).effective)
           \/ a.sync = NoRequest /\ i.phase = "Withdrawn" /\ DOMAIN b.view = {},
           n = Producer => Backends(b.view) \cap (w.confirmed \cup {Unknown}) = {}
    PROVE  Fine(w, n, b, i, p)
<1>1. Fine(w, n, a, j, p)  BY DEF Held
<1>2. Latest(i) = Latest(j)  BY DEF Latest
<1>3. Ordered(b, p)
  <2>1. a.lease \in 0 .. Lease /\ Lease \in Nat  BY WithdrawalAssumption DEF Held, AgentShape
  <2>2. /\ Real(a.waiting) => a.waiting.age \in Int /\ a.waiting.age <= Lease
        /\ Real(a.sync) => a.sync.age \in Int /\ a.sync.age <= Lease
    BY RequestFacts DEF Real, Held, AgentShape, LocalRequest
  <2>3. p # Idle => p.age \in Int /\ p.age <= Lease  BY DEF Held, PollShape
  <2> QED  BY <1>1, <2>1, <2>2, <2>3 DEF Fine, Ordered
<1>4. Heard(b, i)  BY <1>1, <1>2 DEF Fine, Heard
<1>5. Shows(b, i)
  <2>1. CASE i.phase = j.phase /\ j.phase = "Active" /\ Within(b.view, Latest(j).effective)
    <3>1. j.publications # <<>>  BY <2>1 DEF Held, Informed, JournalHears
    <3>2. \E x \in DOMAIN j.publications : j.publications[x] = Latest(j)
      <4>1. PICK S : j.publications \in Seq(S)  BY DEF Held, Informed, JournalHears
      <4>2. PICK q : q = j.publications  OBVIOUS
      <4>3. q \in Seq(S) /\ q # <<>>  BY <3>1, <4>1, <4>2
      <4>4. Len(q) \in DOMAIN q  BY <4>3
      <4> QED  BY <4>2, <4>4 DEF Latest
    <3> QED  BY <1>1, <1>2, <2>1, <3>2 DEF Fine, Shows
  <2>2. CASE a.sync = NoRequest /\ i.phase = "Withdrawn" /\ DOMAIN b.view = {}
    <3>1. a.sync.at = "none"  BY <2>2 DEF NoRequest
    <3> QED  BY <1>1, <2>2, <3>1 DEF Fine, Shows
  <2> QED  BY <2>1, <2>2
<1>6. SoundNode(w, n, b, i)
  <2>1. Counts(b, b.sync) => Counts(a, a.sync)  BY DEF Counts
  <2>2. Counts(b, b.waiting) => Counts(a, a.waiting)  BY DEF Counts
  <2> QED  BY <1>1, <2>1, <2>2 DEF Fine, SoundNode, SoundView
<1>7. n = Producer => OwnView(w.confirmed, b, i)  BY <1>1 DEF Fine, OwnView
<1> QED  BY <1>3, <1>4, <1>5, <1>6, <1>7 DEF Fine

(* A local change sends the last catalogue round again.                     *)
LEMMA RefreshFine ==
    ASSUME NEW w, NEW n, NEW a, NEW b, NEW j, NEW p, Held(w, n, a, j, p),
           a.sync = NoRequest, a.up, b.up = a.up, b.view = a.view, b.lease = a.lease,
           b.sync = a.sync, j.phase = "Active", b.waiting # NoRequest,
           b.waiting.age = LocalRequest, b.waiting.generation = Latest(j).generation,
           b.waiting.catalog = Latest(j).catalog, DOMAIN b.waiting.withdrawals = {}
    PROVE  Fine(w, n, b, j, p)
<1>1. Fine(w, n, a, j, p)  BY DEF Held
<1>2. ~Real(b.waiting) /\ ~Real(a.sync)  BY DEF Real
<1>3. Ordered(b, p)  BY <1>1, <1>2 DEF Fine, Ordered
<1>4. Latest(j).generation \in Nat
  BY DEF Held, Informed, JournalHears, Current
<1>5. Heard(b, j)  BY <1>1, <1>4 DEF Fine, Heard, Below
<1>6. Shows(b, j)  BY <1>1 DEF Fine, Shows
<1>7. SoundNode(w, n, b, j)  BY <1>1 DEF Fine, SoundNode, SoundView, Counts
<1>8. n = Producer => OwnView(w.confirmed, b, j)  BY <1>1 DEF Fine, OwnView
<1> QED  BY <1>3, <1>5, <1>6, <1>7, <1>8 DEF Fine

-----------------------------------------------------------------------------
(* The steps of an agent keep the invariant.                                *)

(* What the invariants say of a node.                                       *)
LEMMA StateHeld ==
    ASSUME Base, OwnInv, NEW n \in Nodes, NEW w, w = World, NEW a, a = agent[n],
           NEW j, j = journal[n], NEW p, p = poll[n]
    PROVE  Held(w, n, a, j, p) /\ w.ledger = council /\ w.confirmed = confirmed
<1>1. w.ledger = council /\ w.confirmed = confirmed  BY DEF World
<1>2. AgentShape(a) /\ JournalShape(j) /\ PollShape(p)  BY NodeFacts DEF Base
<1>3. Informed(a, j, w.ledger)  BY <1>1 DEF Base, WordInv
<1>4. w.ledger.generation \in Nat  BY <1>1 DEF Base, Inv, Typed, CouncilShape
<1>5. Fine(w, n, a, j, p)  BY DEF OwnInv, NodesOk
<1> QED  BY <1>1, <1>2, <1>3, <1>4, <1>5 DEF Held

(* A step that leaves the council, the leader and the workload alone.       *)
LEMMA CouncilStays ==
    ASSUME CouncilOk, council' = council, backup' = backup, UNCHANGED <<leader, workload, setting>>
    PROVE  CouncilOk' /\ World' = World
<1>1. report' = report /\ plan' = plan /\ execution' = execution /\ confirmed' = confirmed
      /\ setting' = setting
  BY DEF leader, workload
<1>2. Occupants' = Occupants  BY <1>1 DEF Occupants
<1>3. World' = World  BY <1>1, <1>2 DEF World
<1>4. Releases'  BY <1>1 DEF CouncilOk, Releases
<1>5. OneOccupant'  BY <1>1, <1>2 DEF CouncilOk, OneOccupant
<1>6. ReportOk'  BY <1>1, <1>2 DEF CouncilOk, ReportOk
<1>7. PlanOk'  BY <1>1, <1>2 DEF CouncilOk, PlanOk
<1>8. LedgerOk(council') /\ LedgerOk(backup')  BY DEF CouncilOk
<1> QED  BY <1>3, <1>4, <1>5, <1>6, <1>7, <1>8 DEF CouncilOk

(* A step that changes one agent and its journal.                           *)
LEMMA SyncOwn ==
    ASSUME Base, OwnInv, NEW n \in Nodes, NEW b, NEW i, Sync(n, b, i),
           NEW w, w = World, NEW p, p = poll[n], Fine(w, n, b, i, p)
    PROVE  OwnInv'
<1>1. /\ agent' = [agent EXCEPT ![n] = b] /\ journal' = [journal EXCEPT ![n] = i]
      /\ council' = council /\ backup' = backup /\ UNCHANGED <<leader, workload, setting>>
      /\ poll' = poll
  BY DEF Sync
<1>2. CouncilOk' /\ World' = World  BY <1>1, CouncilStays DEF OwnInv
<1>3. DOMAIN agent = Nodes /\ DOMAIN journal = Nodes  BY DEF Base, Inv, Typed
<1>4. ASSUME NEW m \in Nodes PROVE Fine(World, m, agent'[m], journal'[m], poll[m])
  <2>1. CASE m = n
    <3>1. agent'[m] = b /\ journal'[m] = i  BY <1>1, <1>3, <2>1
    <3> QED  BY <2>1, <3>1
  <2>2. CASE m # n
    <3>1. agent'[m] = agent[m] /\ journal'[m] = journal[m]  BY <1>1, <1>3, <2>2
    <3> QED  BY <3>1 DEF OwnInv, NodesOk
  <2> QED  BY <2>1, <2>2
<1>5. NodesOk'  BY <1>1, <1>2, <1>4 DEF NodesOk
<1> QED  BY <1>2, <1>5 DEF OwnInv

(* StartSync takes up an answer; what the producer will show of it runs     *)
(* there now.                                                               *)
LEMMA StartSyncOwn ==
    ASSUME Base, OwnInv, NEW n \in Nodes, StartSync(n)
    PROVE  OwnInv'
<1>1. PICK a : a = agent[n]  OBVIOUS
<1>2. PICK j : j = journal[n]  OBVIOUS
<1>3. PICK r : r = a.waiting  OBVIOUS
<1>4. PICK u : u = Publication(n, r.generation, r.catalog)  OBVIOUS
<1>5. PICK s : s = [at |-> "journal", age |-> r.age, publication |-> u,
                    withdrawals |-> r.withdrawals]
  OBVIOUS
<1>6. PICK b : b = [a EXCEPT !.waiting = NoRequest, !.sync = s]  OBVIOUS
<1>7. /\ a.up /\ a.sync = NoRequest /\ r # NoRequest
      /\ Sync(n, Done(b, FALSE), j) \/ Sync(n, b, j)
  BY <1>1, <1>2, <1>3, <1>4, <1>5, <1>6, Zenon DEF StartSync
<1>8. PICK w : w = World  OBVIOUS
<1>9. PICK p : p = poll[n]  OBVIOUS
<1>10. Held(w, n, a, j, p) /\ w.confirmed = confirmed
  BY <1>1, <1>2, <1>8, <1>9, StateHeld
<1>11. /\ s.at = "journal" /\ s.age = r.age /\ s.publication = u
       /\ s.withdrawals = r.withdrawals /\ "age" \in DOMAIN s /\ "at" \in DOMAIN s
  BY <1>5
<1>12. s # NoRequest  BY <1>11, AgedIsRequest
<1>13. /\ DOMAIN b = AgentFields /\ b.waiting = NoRequest /\ b.sync = s /\ b.up = a.up
       /\ b.view = a.view /\ b.lease = a.lease
  BY <1>6, <1>10 DEF Held, AgentShape, AgentFields
<1>14. /\ u.generation = r.generation /\ u.catalog = r.catalog
       /\ DOMAIN u.effective = DOMAIN r.catalog
       /\ \A t \in DOMAIN r.catalog :
             /\ u.effective[t].vip = r.catalog[t].vip
             /\ u.effective[t].backends =
                  IF n = Producer
                  THEN {e \in r.catalog[t].backends : e # Unknown /\ execution[e] = "running"}
                  ELSE r.catalog[t].backends
  BY <1>4 DEF Publication
<1>15. Within(u.effective, u.catalog)  BY <1>14 DEF Within
<1>16. n = Producer => Backends(u.effective) \cap (w.confirmed \cup {Unknown}) = {}
  <2> SUFFICES ASSUME n = Producer, NEW e \in Backends(u.effective)
               PROVE  e \notin w.confirmed \cup {Unknown}
    OBVIOUS
  <2>1. PICK t \in DOMAIN r.catalog : e \in u.effective[t].backends
    BY <1>14 DEF Backends
  <2>2. e # Unknown /\ execution[e] = "running"  BY <1>14, <2>1
  <2>3. e \notin confirmed  BY <2>2 DEF OwnInv, CouncilOk, Releases
  <2> QED  BY <1>10, <2>2, <2>3
<1>17. Fine(w, n, b, j, p)
  BY <1>3, <1>7, <1>10, <1>11, <1>12, <1>13, <1>14, <1>15, <1>16, TakeFine
<1>18. AgentShape(b)
  <2>1. RequestShape(r) /\ a.lease \in 0 .. Lease  BY <1>3, <1>10 DEF Held, AgentShape
  <2>2. RequestShape(s)  BY <1>7, <1>11, <2>1, RequestFacts DEF RequestShape
  <2> QED  BY <1>13, <2>1, <2>2, NoRequestFacts DEF AgentShape
<1>19. Fine(w, n, Done(b, FALSE), j, p)  BY <1>17, <1>18, FailFine
<1>20. PICK d : d = Done(b, FALSE)  OBVIOUS
<1> QED  BY <1>7, <1>8, <1>9, <1>17, <1>19, <1>20, SyncOwn

(* JournalAnswer refuses, or announces what it is about to install.         *)
LEMMA JournalAnswerOwn ==
    ASSUME Base, OwnInv, NEW n \in Nodes, JournalAnswer(n)
    PROVE  OwnInv'
<1>1. PICK a : a = agent[n]  OBVIOUS
<1>2. PICK j : j = journal[n]  OBVIOUS
<1>3. PICK u : u = a.sync.publication  OBVIOUS
<1>4. PICK r : r = Noted(j.receipts, a.sync.withdrawals)  OBVIOUS
<1>5. PICK q : q = Appended(j, u)  OBVIOUS
<1>6. PICK shown : shown = IF a.lapsed THEN Installed(a, u) ELSE a  OBVIOUS
<1>7. /\ At(n, "journal")
      /\ \/ Sync(n, Done(a, FALSE), j)
         \/ Sync(n, Goto(a, "withdraw"),
                 [publications |-> q, phase |-> "Withdrawing", receipts |-> r])
         \/ Sync(n, Goto(a, "install"),
                 [publications |-> q, phase |-> "Publishing", receipts |-> r])
         \/ /\ Sync(n, Goto(shown, "compact"), [j EXCEPT !.receipts = r]) /\ IsLatest(j, u)
            /\ j.phase = "Active"
  BY <1>1, <1>2, <1>3, <1>4, <1>5, <1>6, Zenon DEF JournalAnswer
<1>8. PICK w : w = World  OBVIOUS
<1>9. PICK p : p = poll[n]  OBVIOUS
<1>10. Held(w, n, a, j, p)  BY <1>1, <1>2, <1>8, <1>9, StateHeld
<1>11. a.sync # NoRequest /\ a.sync.at = "journal"  BY <1>1, <1>7, AtHasRequest DEF At
<1>12. AgentShape(a) /\ JournalShape(j) /\ Fine(w, n, a, j, p) /\ DOMAIN a.sync = UnderwayFields
  BY <1>10, <1>11, HeldFacts DEF Held
<1>13. CASE Sync(n, Done(a, FALSE), j)
  <2>1. PICK d : d = Done(a, FALSE)  OBVIOUS
  <2>2. Fine(w, n, d, j, p)  BY <1>12, <2>1, FailFine
  <2> QED  BY <1>8, <1>9, <1>13, <2>1, <2>2, SyncOwn
<1>14. ASSUME NEW step, NEW phase,
              \/ step = "withdraw" /\ phase = "Withdrawing"
              \/ step = "install" /\ phase = "Publishing",
              Sync(n, Goto(a, step), [publications |-> q, phase |-> phase, receipts |-> r])
       PROVE  OwnInv'
  <2>1. PICK i : i = [publications |-> q, phase |-> phase, receipts |-> r]  OBVIOUS
  <2>2. PICK b : b = Goto(a, step)  OBVIOUS
  <2>3. i.publications = q /\ i.phase = phase /\ i.receipts = r  BY <2>1
  <2>4. SameSync(a, b) /\ b.sync.at = step /\ b.view = a.view
    BY <1>11, <1>12, <2>2, GotoFields
  <2>5. Fine(w, n, b, i, p)
    BY <1>3, <1>4, <1>5, <1>10, <1>11, <1>14, <2>3, <2>4, NoteFine
  <2> QED  BY <1>8, <1>9, <1>14, <2>1, <2>2, <2>5, SyncOwn
<1>15. CASE /\ Sync(n, Goto(shown, "compact"), [j EXCEPT !.receipts = r]) /\ IsLatest(j, u)
            /\ j.phase = "Active"
  <2>1. PICK i : i = [j EXCEPT !.receipts = r]  OBVIOUS
  <2>2. PICK b : b = Goto(shown, "compact")  OBVIOUS
  <2>3. i.publications = j.publications /\ i.phase = j.phase /\ i.receipts = r
    BY <1>12, <2>1 DEF JournalShape, JournalFields
  <2>4. /\ DOMAIN shown = AgentFields /\ shown.sync = a.sync /\ shown.waiting = a.waiting
        /\ shown.lease = a.lease /\ shown.up = a.up
        /\ shown.view = a.view \/ shown.view = u.effective
    BY <1>6, <1>12 DEF Installed, AgentShape, AgentFields
  <2>5. AgentShape(shown)  BY <1>12, <2>4 DEF AgentShape
  <2>6. SameSync(shown, b) /\ b.sync.at = "compact" /\ b.view = shown.view
    BY <1>11, <1>12, <2>2, <2>4, <2>5, GotoFields
  <2>7. SameSync(a, b) /\ (b.view = a.view \/ b.view = u.effective)
    BY <2>4, <2>6 DEF SameSync
  <2>8. Fine(w, n, b, i, p)
    BY <1>3, <1>4, <1>10, <1>11, <1>15, <2>3, <2>6, <2>7, RenewFine
  <2> QED  BY <1>8, <1>9, <1>15, <2>1, <2>2, <2>8, SyncOwn
<1> QED  BY <1>7, <1>13, <1>14, <1>15

(* The later steps of a synchronisation.                                    *)
LEMMA SyncStepOwn ==
    ASSUME Base, OwnInv, NEW n \in Nodes, SyncStep(n)
    PROVE  OwnInv'
<1>1. PICK a : a = agent[n]  OBVIOUS
<1>2. PICK j : j = journal[n]  OBVIOUS
<1>3. PICK w : w = World  OBVIOUS
<1>4. PICK p : p = poll[n]  OBVIOUS
<1>5. PICK u : u = a.sync.publication  OBVIOUS
<1>6. Held(w, n, a, j, p)  BY <1>1, <1>2, <1>3, <1>4, StateHeld
<1>7. AgentShape(a) /\ JournalShape(j) /\ Fine(w, n, a, j, p)  BY <1>6 DEF Held
<1>8. \A step : step # "none" /\ At(n, step) =>
         a.sync # NoRequest /\ a.sync.at = step /\ DOMAIN a.sync = UnderwayFields
  <2> TAKE step
  <2> HAVE step # "none" /\ At(n, step)
  <2>1. a.sync # NoRequest /\ a.sync.at = step  BY <1>1, AtHasRequest DEF At
  <2> QED  BY <1>6, <2>1, HeldFacts
<1>9. ASSUME NEW b, NEW i, Sync(n, b, i), Fine(w, n, b, i, p) PROVE OwnInv'
  BY <1>3, <1>4, <1>9, SyncOwn
<1>10. ASSUME WithdrawView(n) PROVE OwnInv'
  <2>1. PICK c : c = [a EXCEPT !.view = NoServices, !.lapsed = FALSE]  OBVIOUS
  <2>2. PICK i : i = [j EXCEPT !.phase = "Withdrawn"]  OBVIOUS
  <2>3. PICK b : b = Goto(c, "prove")  OBVIOUS
  <2>4. PICK d : d = Done(c, FALSE)  OBVIOUS
  <2>5. At(n, "withdraw") /\ (Sync(n, b, i) \/ Sync(n, d, j))
    BY <1>1, <1>2, <1>10, <2>1, <2>2, <2>3, <2>4 DEF WithdrawView
  <2>6. a.sync # NoRequest /\ a.sync.at = "withdraw" /\ DOMAIN a.sync = UnderwayFields
    BY <1>8, <2>5
  <2>7. /\ DOMAIN c = AgentFields /\ c.sync = a.sync /\ c.waiting = a.waiting
        /\ c.lease = a.lease /\ c.up = a.up /\ c.view = NoServices
    BY <1>7, <2>1 DEF AgentShape, AgentFields
  <2>8. DOMAIN c.view = {}  BY <2>7 DEF NoServices
  <2>9. AgentShape(c)  BY <1>7, <2>7 DEF AgentShape
  <2>10. Fine(w, n, c, j, p)  BY <1>6, <2>6, <2>7, <2>8, ClearedFine
  <2>11. Fine(w, n, d, j, p)  BY <2>4, <2>9, <2>10, FailFine
  <2>12. SameSync(c, b) /\ b.sync.at = "prove" /\ b.view = c.view
    BY <2>3, <2>6, <2>7, <2>9, GotoFields
  <2>13. SameSync(a, b)  BY <2>7, <2>12 DEF SameSync
  <2>14. i.publications = j.publications /\ i.receipts = j.receipts /\ i.phase = "Withdrawn"
    BY <1>7, <2>2 DEF JournalShape, JournalFields
  <2>15. Fine(w, n, b, i, p)
    BY <1>6, <2>6, <2>8, <2>12, <2>13, <2>14, WithdrawFine
  <2> QED  BY <1>9, <2>5, <2>11, <2>15
<1>11. ASSUME ProveReceipts(n) PROVE OwnInv'
  <2>1. PICK r : r = Proven(j.receipts, u)  OBVIOUS
  <2>2. PICK i : i = [j EXCEPT !.receipts = r]  OBVIOUS
  <2>3. PICK b : b = Goto(a, "publish")  OBVIOUS
  <2>4. PICK d : d = Done(a, FALSE)  OBVIOUS
  <2>5. At(n, "prove") /\ (Sync(n, d, j) \/ Sync(n, b, i))
    BY <1>1, <1>2, <1>5, <1>11, <2>1, <2>2, <2>3, <2>4 DEF ProveReceipts
  <2>6. a.sync # NoRequest /\ a.sync.at = "prove" /\ DOMAIN a.sync = UnderwayFields
    BY <1>8, <2>5
  <2>7. SameSync(a, b) /\ b.sync.at = "publish" /\ b.view = a.view
    BY <1>7, <2>3, <2>6, GotoFields
  <2>8. i.publications = j.publications /\ i.receipts = r /\ i.phase = j.phase
    BY <1>7, <2>2 DEF JournalShape, JournalFields
  <2>9. DOMAIN i.receipts = DOMAIN j.receipts  BY <2>1, <2>8, ProvenFacts
  <2>10. Fine(w, n, b, i, p)  BY <1>6, <2>6, <2>7, <2>8, <2>9, ProveFine
  <2>11. Fine(w, n, d, j, p)  BY <1>7, <2>4, FailFine
  <2> QED  BY <1>9, <2>5, <2>10, <2>11
<1>12. ASSUME PublishView(n) PROVE OwnInv'
  <2>1. PICK q : q = <<u>>  OBVIOUS
  <2>2. PICK i : i = [j EXCEPT !.publications = q, !.phase = "Publishing"]  OBVIOUS
  <2>3. PICK b : b = Goto(a, "install")  OBVIOUS
  <2>4. At(n, "publish") /\ Sync(n, b, i)
    BY <1>1, <1>2, <1>5, <1>12, <2>1, <2>2, <2>3 DEF PublishView
  <2>5. a.sync # NoRequest /\ a.sync.at = "publish" /\ DOMAIN a.sync = UnderwayFields
    BY <1>8, <2>4
  <2>6. SameSync(a, b) /\ b.sync.at = "install" /\ b.view = a.view
    BY <1>7, <2>3, <2>5, GotoFields
  <2>7. i.publications = q /\ i.receipts = j.receipts /\ i.phase = "Publishing"
    BY <1>7, <2>2 DEF JournalShape, JournalFields
  <2>8. i.publications = <<a.sync.publication>>  BY <1>5, <2>1, <2>7
  <2>9. Fine(w, n, b, i, p)  BY <1>6, <2>5, <2>6, <2>7, <2>8, AnnounceFine
  <2> QED  BY <1>9, <2>4, <2>9
<1>13. ASSUME InstallView(n) PROVE OwnInv'
  <2>1. PICK c : c = Installed(a, u)  OBVIOUS
  <2>2. PICK b : b = Goto(c, "activate")  OBVIOUS
  <2>3. At(n, "install") /\ Sync(n, b, j)
    BY <1>1, <1>2, <1>5, <1>13, <2>1, <2>2 DEF InstallView
  <2>4. a.sync # NoRequest /\ a.sync.at = "install" /\ DOMAIN a.sync = UnderwayFields
    BY <1>8, <2>3
  <2>5. /\ DOMAIN c = AgentFields /\ c.sync = a.sync /\ c.waiting = a.waiting
        /\ c.lease = a.lease /\ c.up = a.up /\ c.view = u.effective
    BY <1>7, <2>1 DEF Installed, AgentShape, AgentFields
  <2>6. AgentShape(c)  BY <1>7, <2>5 DEF AgentShape
  <2>7. SameSync(c, b) /\ b.sync.at = "activate" /\ b.view = c.view
    BY <2>2, <2>4, <2>5, <2>6, GotoFields
  <2>8. SameSync(a, b) /\ b.view = a.sync.publication.effective
    BY <1>5, <2>5, <2>7 DEF SameSync
  <2>9. Fine(w, n, b, j, p)  BY <1>6, <2>4, <2>7, <2>8, InstallFine
  <2> QED  BY <1>9, <2>3, <2>9
<1>14. ASSUME Activate(n) PROVE OwnInv'
  <2>1. PICK i : i = [j EXCEPT !.phase = "Active"]  OBVIOUS
  <2>2. PICK b : b = Goto(a, "compact")  OBVIOUS
  <2>3. At(n, "activate") /\ Sync(n, b, i)
    BY <1>1, <1>2, <1>14, <2>1, <2>2 DEF Activate
  <2>4. a.sync # NoRequest /\ a.sync.at = "activate" /\ DOMAIN a.sync = UnderwayFields
    BY <1>8, <2>3
  <2>5. SameSync(a, b) /\ b.sync.at = "compact" /\ b.view = a.view
    BY <1>7, <2>2, <2>4, GotoFields
  <2>6. i.publications = j.publications /\ i.receipts = j.receipts /\ i.phase = "Active"
    BY <1>7, <2>1 DEF JournalShape, JournalFields
  <2>7. Fine(w, n, b, i, p)  BY <1>6, <2>4, <2>5, <2>6, ActivateFine
  <2> QED  BY <1>9, <2>3, <2>7
<1>15. ASSUME Compact(n) PROVE OwnInv'
  <2>1. PICK l : l = Latest(j)  OBVIOUS
  <2>2. PICK q : q = <<l>>  OBVIOUS
  <2>3. PICK r : r = Proven(j.receipts, l)  OBVIOUS
  <2>4. PICK i : i = [j EXCEPT !.publications = q, !.receipts = r]  OBVIOUS
  <2>5. PICK d : d = Done(a, TRUE)  OBVIOUS
  <2>6. At(n, "compact") /\ (Sync(n, d, i) \/ Sync(n, d, j))
    BY <1>1, <1>2, <1>15, <2>1, <2>2, <2>3, <2>4, <2>5 DEF Compact
  <2>7. a.sync # NoRequest /\ a.sync.at = "compact"  BY <1>8, <2>6
  <2>8. i.publications = q /\ i.receipts = r /\ i.phase = j.phase /\ JournalShape(i)
    BY <1>7, <2>4 DEF JournalShape, JournalFields
  <2>9. i.publications = <<Latest(j)>> /\ DOMAIN i.receipts = DOMAIN j.receipts
    BY <2>1, <2>2, <2>3, <2>8, ProvenFacts
  <2>10. Fine(w, n, a, i, p)  BY <1>6, <2>7, <2>8, <2>9, CompactFine
  <2>11. Informed(a, i, w.ledger)
    <3>1. (\E S : i.publications \in Seq(S)) /\ i.publications # <<>> /\ Latest(i) = l
      BY <2>2, <2>8, OnlyPublication
    <3>2. j.publications # <<>> /\ Informed(a, j, w.ledger)  BY <1>6, <2>7, HeldFacts DEF Held
    <3>3. JournalHears(i, w.ledger)  BY <2>1, <3>1, <3>2 DEF Informed, JournalHears
    <3> QED  BY <3>1, <3>2, <3>3 DEF Informed
  <2>12. Held(w, n, a, i, p)  BY <1>6, <2>8, <2>10, <2>11 DEF Held
  <2>13. Fine(w, n, d, i, p)  BY <2>5, <2>7, <2>12, PublishedFine
  <2>14. Fine(w, n, d, j, p)  BY <1>6, <2>5, <2>7, PublishedFine
  <2> QED  BY <1>9, <2>6, <2>13, <2>14
<1> QED
  BY <1>10, <1>11, <1>12, <1>13, <1>14, <1>15, StartSyncOwn, JournalAnswerOwn DEF SyncStep

(* fence_lapsed_view leaves what runs on the node itself.                   *)
LEMMA FencedView ==
    ASSUME Base, OwnInv, NEW n \in Nodes, NEW j, j = journal[n], j.phase = "Active",
           NEW v, v = LocalView(n, Latest(j).effective)
    PROVE  /\ Within(v, Latest(j).effective)
           /\ n = Producer => Backends(v) \cap (confirmed \cup {Unknown}) = {}
<1>1. PICK c : c = Latest(j).effective  OBVIOUS
<1>2. /\ DOMAIN v = DOMAIN c
      /\ \A s \in DOMAIN c : /\ v[s].vip = c[s].vip
                             /\ v[s].backends = IF n = Producer
                                  THEN {e \in c[s].backends : execution[e] = "running"} ELSE {}
  BY <1>1 DEF LocalView
<1>3. Within(v, c)  BY <1>2 DEF Within
<1>4. ASSUME n = Producer, NEW e \in Backends(v) PROVE e \notin confirmed \cup {Unknown}
  <2>1. PICK s \in DOMAIN c : e \in c[s].backends /\ execution[e] = "running"
    BY <1>2, <1>4 DEF Backends
  <2>2. e \notin confirmed  BY <2>1 DEF OwnInv, CouncilOk, Releases
  <2>3. \E x \in DOMAIN j.publications : j.publications[x] = Latest(j)
    <3>1. Informed(agent[n], j, council)  BY DEF Base, WordInv
    <3>2. PICK S : j.publications \in Seq(S)  BY <3>1 DEF Informed, JournalHears
    <3>3. PICK q : q = j.publications  OBVIOUS
    <3>4. q \in Seq(S) /\ q # <<>>  BY <3>1, <3>2, <3>3 DEF Informed, JournalHears
    <3>5. Len(q) \in DOMAIN q  BY <3>4
    <3> QED  BY <3>3, <3>5 DEF Latest
  <2>4. Unknown \notin Backends(c)
    BY <1>1, <1>4, <2>3 DEF OwnInv, NodesOk, Fine, OwnView
  <2>5. e # Unknown  BY <2>1, <2>4 DEF Backends
  <2> QED  BY <2>2, <2>5
<1> QED  BY <1>1, <1>3, <1>4

(* What a node does besides synchronising, except for its receipts.         *)
LEMMA AgentQuietOwn ==
    ASSUME Base, OwnInv, NEW n \in Nodes,
           Refresh(n) \/ FenceLapsedView(n) \/ Crash(n) \/ BeginRestart(n) \/ FinishRestart(n)
    PROVE  OwnInv'
<1>1. PICK a : a = agent[n]  OBVIOUS
<1>2. PICK j : j = journal[n]  OBVIOUS
<1>3. PICK w : w = World  OBVIOUS
<1>4. PICK p : p = poll[n]  OBVIOUS
<1>5. Held(w, n, a, j, p) /\ w.confirmed = confirmed
  BY <1>1, <1>2, <1>3, <1>4, StateHeld
<1>6. AgentShape(a) /\ JournalShape(j) /\ Fine(w, n, a, j, p)  BY <1>5 DEF Held
<1>7. ASSUME NEW b, NEW i, Sync(n, b, i), Fine(w, n, b, i, p) PROVE OwnInv'
  BY <1>3, <1>4, <1>7, SyncOwn
<1>8. PICK v : v = LocalView(n, Latest(j).effective)  OBVIOUS
<1>9. PICK f : f = [a EXCEPT !.view = v, !.lapsed = TRUE]  OBVIOUS
<1>10. Fenced(n) = f  BY <1>1, <1>2, <1>8, <1>9 DEF Fenced
<1>11. /\ DOMAIN f = AgentFields /\ f.view = v /\ f.lease = a.lease /\ f.waiting = a.waiting
       /\ f.sync = a.sync /\ f.up = a.up
  BY <1>6, <1>9 DEF AgentShape, AgentFields
<1>12. ASSUME a.lease = 0, j.phase = "Active", NEW b, SameAgent(b, f)
       PROVE  Fine(w, n, b, j, p)
  <2>1. /\ Within(v, Latest(j).effective)
        /\ n = Producer => Backends(v) \cap (w.confirmed \cup {Unknown}) = {}
    BY <1>2, <1>5, <1>8, <1>12, FencedView
  <2>2. Fine(w, n, f, j, p)  BY <1>5, <1>11, <1>12, <2>1, UnleasedFine
  <2> QED  BY <1>12, <2>2, SameFine
<1>13. ASSUME Refresh(n) PROVE OwnInv'
  <2>1. PICK r : r = [at |-> "waiting", age |-> LocalRequest,
                      generation |-> Latest(j).generation,
                      catalog |-> Latest(j).catalog, withdrawals |-> NoServices]
    OBVIOUS
  <2>2. PICK c : c = [a EXCEPT !.stale = FALSE]  OBVIOUS
  <2>3. PICK b : b = [c EXCEPT !.waiting = r]  OBVIOUS
  <2>4. PICK g : g = [f EXCEPT !.stale = FALSE]  OBVIOUS
  <2>5. a.up /\ a.sync = NoRequest  BY <1>1, <1>13 DEF Refresh, Busy
  <2>6. \/ Sync(n, c, j)
        \/ Sync(n, g, j) /\ j.phase = "Active" /\ a.lease = 0
        \/ Sync(n, b, j) /\ j.phase = "Active"
    BY <1>1, <1>2, <1>10, <1>13, <2>1, <2>2, <2>3, <2>4, Zenon DEF Refresh
  <2>7. DOMAIN c = AgentFields /\ SameAgent(c, a)
    BY <1>6, <2>2 DEF AgentShape, AgentFields, SameAgent
  <2>8. SameAgent(g, f)  BY <1>11, <2>4 DEF AgentFields, SameAgent
  <2>9. CASE Sync(n, c, j)
    <3>1. Fine(w, n, c, j, p)  BY <1>6, <2>7, SameFine
    <3> QED  BY <1>7, <2>9, <3>1
  <2>10. CASE Sync(n, g, j) /\ j.phase = "Active" /\ a.lease = 0
    BY <1>7, <1>12, <2>8, <2>10
  <2>11. CASE Sync(n, b, j) /\ j.phase = "Active"
    <3>1. /\ b.waiting = r /\ b.sync = a.sync /\ b.lease = a.lease /\ b.up = a.up
          /\ b.view = a.view
      BY <2>3, <2>7 DEF AgentFields, SameAgent
    <3>2. /\ r.age = LocalRequest /\ r.generation = Latest(j).generation
          /\ r.catalog = Latest(j).catalog /\ r.withdrawals = NoServices /\ "age" \in DOMAIN r
      BY <2>1
    <3>3. r # NoRequest /\ DOMAIN r.withdrawals = {}  BY <3>2, AgedIsRequest DEF NoServices
    <3>4. Fine(w, n, b, j, p)  BY <1>5, <2>5, <2>11, <3>1, <3>2, <3>3, RefreshFine
    <3> QED  BY <1>7, <2>11, <3>4
  <2> QED  BY <2>6, <2>9, <2>10, <2>11
<1>14. ASSUME FenceLapsedView(n) PROVE OwnInv'
  <2>1. Sync(n, f, j) /\ a.lease = 0 /\ j.phase = "Active"
    BY <1>1, <1>2, <1>10, <1>14 DEF FenceLapsedView
  <2>2. SameAgent(f, f)  BY DEF SameAgent
  <2> QED  BY <1>7, <1>12, <2>1, <2>2
<1>15. ASSUME BeginRestart(n) PROVE OwnInv'
  <2>1. PICK i : i = [j EXCEPT !.phase = "Withdrawing"]  OBVIOUS
  <2>2. Sync(n, a, i) /\ ~a.up  BY <1>1, <1>2, <1>15, <2>1 DEF BeginRestart
  <2>3. i.publications = j.publications /\ i.phase = "Withdrawing" /\ i.receipts = j.receipts
    BY <1>6, <2>1 DEF JournalShape, JournalFields
  <2>4. a.sync = NoRequest /\ a.waiting = NoRequest  BY <1>6, <2>2 DEF Fine, Ordered
  <2>5. a.sync.at = "none"  BY <2>4 DEF NoRequest
  <2>6. Latest(i) = Latest(j) /\ Ready(i) = Ready(j)  BY <2>3 DEF Latest, Ready
  <2>7. Heard(a, i)  BY <1>6, <2>3, <2>6 DEF Fine, Heard
  <2>8. Shows(a, i)  BY <1>6, <2>3, <2>5, <2>6 DEF Fine, Shows
  <2>9. SoundNode(w, n, a, i)
    BY <1>6, <2>3, <2>4, <2>6 DEF Fine, SoundNode, SoundView, Counts
  <2>10. n = Producer => OwnView(w.confirmed, a, i)  BY <1>6, <2>3 DEF Fine, OwnView
  <2>11. Fine(w, n, a, i, p)  BY <1>6, <2>7, <2>8, <2>9, <2>10 DEF Fine
  <2> QED  BY <1>7, <2>2, <2>11
<1>16. ASSUME FinishRestart(n) PROVE OwnInv'
  <2>1. PICK i : i = [j EXCEPT !.phase = "Withdrawn"]  OBVIOUS
  <2>2. PICK b : b = [a EXCEPT !.up = TRUE, !.view = NoServices, !.lapsed = FALSE, !.lease = 0]
    OBVIOUS
  <2>3. Sync(n, b, i) /\ ~a.up  BY <1>1, <1>2, <1>16, <2>1, <2>2 DEF FinishRestart
  <2>4. i.publications = j.publications /\ i.phase = "Withdrawn" /\ i.receipts = j.receipts
    BY <1>6, <2>1 DEF JournalShape, JournalFields
  <2>5. /\ b.view = NoServices /\ b.lease = 0 /\ b.waiting = a.waiting /\ b.sync = a.sync
        /\ b.up = TRUE
    BY <1>6, <2>2 DEF AgentShape, AgentFields
  <2>6. a.sync = NoRequest  BY <1>6, <2>3 DEF Fine, Ordered
  <2>7. DOMAIN b.view = {} /\ Backends(b.view) = {}  BY <2>5 DEF NoServices, Backends
  <2>8. Fine(w, n, b, i, p)  BY <1>5, <2>4, <2>5, <2>6, <2>7, UnleasedFine
  <2> QED  BY <1>7, <2>3, <2>8
<1>17. ASSUME Crash(n) PROVE OwnInv'
  <2>1. PICK b : b = [a EXCEPT !.up = FALSE, !.waiting = NoRequest, !.sync = NoRequest,
                               !.stale = FALSE]
    OBVIOUS
  <2>2. /\ agent' = [agent EXCEPT ![n] = b] /\ journal' = journal
        /\ poll' = [poll EXCEPT ![n] = Idle]
        /\ council' = council /\ backup' = backup /\ UNCHANGED <<leader, workload, setting>>
    BY <1>1, <1>17, <2>1 DEF Crash
  <2>3. /\ b.waiting = NoRequest /\ b.sync = NoRequest /\ b.view = a.view /\ b.lease = a.lease
    BY <1>6, <2>1 DEF AgentShape, AgentFields
  <2>4. Fine(w, n, b, j, Idle)  BY <1>6, <2>3, QuitFine
  <2>5. CouncilOk' /\ World' = World  BY <2>2, CouncilStays DEF OwnInv
  <2>6. DOMAIN agent = Nodes /\ DOMAIN poll = Nodes  BY DEF Base, Inv, Typed
  <2>7. ASSUME NEW m \in Nodes PROVE Fine(World, m, agent'[m], journal'[m], poll'[m])
    <3>1. CASE m = n
      <4>1. agent'[m] = b /\ poll'[m] = Idle  BY <2>2, <2>6, <3>1
      <4> QED  BY <1>2, <1>3, <2>2, <2>4, <3>1, <4>1
    <3>2. CASE m # n
      <4>1. agent'[m] = agent[m] /\ poll'[m] = poll[m]  BY <2>2, <2>6, <3>2
      <4> QED  BY <2>2, <4>1 DEF OwnInv, NodesOk
    <3> QED  BY <3>1, <3>2
  <2>8. NodesOk'  BY <2>5, <2>7 DEF NodesOk
  <2> QED  BY <2>5, <2>8 DEF OwnInv
<1> QED  BY <1>13, <1>14, <1>15, <1>16, <1>17

-----------------------------------------------------------------------------
(* Receipts, polls and answers.                                             *)

(* A node while the ledger moves on.                                        *)
LEMMA MovedFine ==
    ASSUME NEW w, NEW v, NEW n, NEW a, NEW j, NEW p, Held(w, n, a, j, p),
           v.confirmed = w.confirmed, v.ledger.generation \in Nat,
           w.ledger.generation <= v.ledger.generation,
           \A g \in Nat : g <= w.ledger.generation /\ (\A h \in Ready(j) : h < g)
                             => Moves(w, v, n, g)
    PROVE  Fine(v, n, a, j, p)
<1>1. SoundNode(v, n, a, j)  BY SoundNodeMoves DEF Held, Fine
<1> QED  BY <1>1 DEF Held, Fine

(* A journal that forgets receipts.                                         *)
LEMMA FewerFine ==
    ASSUME NEW w, NEW n, NEW a, NEW i, NEW j, NEW p, Fine(w, n, a, j, p),
           i.publications = j.publications, i.phase = j.phase,
           DOMAIN i.receipts \subseteq DOMAIN j.receipts, Ready(i) \subseteq Ready(j)
    PROVE  Fine(w, n, a, i, p)
<1>1. Latest(i) = Latest(j)  BY DEF Latest
<1>2. Heard(a, i)  BY <1>1 DEF Fine, Heard, Below
<1>3. Shows(a, i)  BY <1>1 DEF Fine, Shows
<1>4. SoundView(w, n, a, i)  BY DEF Fine, SoundNode, SoundView
<1>5. SoundNode(w, n, a, i)  BY <1>1, <1>4 DEF Fine, SoundNode
<1>6. n = Producer => OwnView(w.confirmed, a, i)  BY DEF Fine, OwnView
<1> QED  BY <1>2, <1>3, <1>5, <1>6 DEF Fine

(* A step of the ledger that publishes nothing and fences nothing.          *)
LEMMA LedgerShrinks ==
    ASSUME CouncilOk, LedgerOk(council'), council'.catalog = council.catalog,
           council'.fenced = council.fenced, council'.generation = council.generation,
           \A h \in DOMAIN council'.pending :
              /\ h \in DOMAIN council.pending
              /\ council'.pending[h].services = council.pending[h].services,
           backup' = backup, report' = report, plan' = plan,
           execution' = execution, confirmed' = confirmed, setting' = setting
    PROVE  CouncilOk'
<1>1. Occupants' = Occupants  BY DEF Occupants
<1>2. \A e : ReleaseConfirmed(council, e) => ReleaseConfirmed(council', e)
  BY DEF ReleaseConfirmed
<1>3. Releases'  BY <1>2 DEF CouncilOk, Releases
<1>4. OneOccupant'  BY <1>1 DEF CouncilOk, OneOccupant
<1>5. ReportOk'  BY <1>1 DEF CouncilOk, ReportOk
<1>6. PlanOk'  BY <1>1 DEF CouncilOk, PlanOk
<1> QED  BY <1>3, <1>4, <1>5, <1>6 DEF CouncilOk

(* DeliverReceipt: the ledger stops waiting for something the node routed   *)
(* by before, and whatever it may route by now is newer.                    *)
LEMMA DeliverReceiptOwn ==
    ASSUME Base, OwnInv, NEW n \in Nodes, NEW g, DeliverReceipt(n, g)
    PROVE  OwnInv'
<1>1. PICK j : j = journal[n]  OBVIOUS
<1>2. PICK r : r = [h \in DOMAIN j.receipts \ {g} |-> j.receipts[h]]  OBVIOUS
<1>3. PICK i : i = [j EXCEPT !.receipts = r]  OBVIOUS
<1>4. /\ council' = AcknowledgeWithdrawal(council, n, g) /\ agent' = agent /\ poll' = poll
      /\ journal' = [journal EXCEPT ![n] = i] \/ journal' = journal
      /\ backup' = backup /\ report' = report /\ plan' = plan /\ execution' = execution
      /\ confirmed' = confirmed /\ setting' = setting
      /\ g \in DOMAIN j.receipts /\ j.receipts[g].ready
  BY <1>1, <1>2, <1>3 DEF DeliverReceipt, leader, workload
<1>5. PICK k : k = council  OBVIOUS
<1>6. PICK l : l = council'  OBVIOUS
<1>7. PICK q : q = Receipted(k.pending, {g}, n)  OBVIOUS
<1>8. CouncilShape(k) /\ LedgerOk(k)
  BY <1>5 DEF Base, Inv, Typed, OwnInv, CouncilOk
<1>9. \/ l = k
      \/ /\ l.pending = q /\ l.catalog = k.catalog /\ l.fenced = k.fenced
         /\ l.generation = k.generation
  <2>1. l = k \/ l = [k EXCEPT !.pending = q]
    BY <1>4, <1>5, <1>6, <1>7 DEF AcknowledgeWithdrawal
  <2> QED  BY <1>8, <2>1 DEF CouncilShape, CouncilFields
<1>10. /\ LedgerOk(l) /\ l.catalog = k.catalog /\ l.fenced = k.fenced
       /\ l.generation = k.generation
       /\ \A h \in DOMAIN l.pending : /\ h \in DOMAIN k.pending
                                      /\ l.pending[h].services = k.pending[h].services
  <2>1. CASE l = k  BY <1>8, <2>1
  <2>2. CASE /\ l.pending = q /\ l.catalog = k.catalog /\ l.fenced = k.fenced
             /\ l.generation = k.generation
    <3>1. \A h \in DOMAIN q : h \in DOMAIN k.pending /\ q[h].services = k.pending[h].services
      BY <1>7, ReceiptedFacts
    <3>2. LedgerOk(l)  BY <1>7, <1>8, <2>2, ReceiptedOk
    <3> QED  BY <2>2, <3>1, <3>2
  <2> QED  BY <1>9, <2>1, <2>2
<1>11. CouncilOk'  BY <1>4, <1>5, <1>6, <1>10, LedgerShrinks DEF OwnInv
<1>12. PICK w : w = World  OBVIOUS
<1>13. PICK v : v = World'  OBVIOUS
<1>14. /\ w.ledger = k /\ v.ledger = l /\ v.confirmed = w.confirmed /\ v.standIns = w.standIns
  BY <1>4, <1>5, <1>6, <1>12, <1>13 DEF World, Occupants
<1>15. ASSUME NEW m \in Nodes, NEW x \in Nat, m = n => g < x /\ g \in Nat
       PROVE  Moves(w, v, m, x)
  <2>1. CASE l = k
    BY <1>14, <2>1, SameMoves
  <2>2. CASE /\ l.pending = q /\ l.catalog = k.catalog /\ l.fenced = k.fenced
             /\ l.generation = k.generation
    <3>1. PICK about : about = {g}  OBVIOUS
    <3>2. m # n \/ Below(about, x)  BY <1>15, <3>1 DEF Below
    <3>3. v.ledger.pending = Receipted(w.ledger.pending, about, n)
      BY <1>7, <1>14, <2>2, <3>1
    <3> QED  BY <1>14, <2>2, <3>2, <3>3, ReceiptMoves
  <2> QED  BY <1>9, <2>1, <2>2
<1>16. g \in Nat
  BY <1>1, <1>4 DEF OwnInv, NodesOk, Fine, Heard, Below
<1>17. ASSUME NEW m \in Nodes PROVE Fine(v, m, agent[m], journal[m], poll[m])
  <2>1. PICK a : a = agent[m]  OBVIOUS
  <2>2. PICK c : c = journal[m]  OBVIOUS
  <2>3. PICK p : p = poll[m]  OBVIOUS
  <2>4. Held(w, m, a, c, p)  BY <1>12, <2>1, <2>2, <2>3, StateHeld
  <2>5. m = n => g \in Ready(c)  BY <1>1, <1>4, <2>2 DEF Ready
  <2>6. \A x \in Nat : x <= w.ledger.generation /\ (\A h \in Ready(c) : h < x)
                          => Moves(w, v, m, x)
    BY <1>15, <1>16, <2>5
  <2>7. v.ledger.generation \in Nat /\ w.ledger.generation <= v.ledger.generation
    BY <1>8, <1>10, <1>14 DEF CouncilShape
  <2>8. Fine(v, m, a, c, p)  BY <1>14, <2>4, <2>6, <2>7, MovedFine
  <2> QED  BY <2>1, <2>2, <2>3, <2>8
<1>18. JournalShape(j)  BY <1>1, NodeFacts DEF Base
<1>19. i.publications = j.publications /\ i.phase = j.phase /\ i.receipts = r
  BY <1>3, <1>18 DEF JournalShape, JournalFields
<1>20. DOMAIN i.receipts \subseteq DOMAIN j.receipts /\ Ready(i) \subseteq Ready(j)
  BY <1>2, <1>19 DEF Ready
<1>21. DOMAIN journal = Nodes  BY DEF Base, Inv, Typed
<1>22. ASSUME NEW m \in Nodes PROVE Fine(World', m, agent'[m], journal'[m], poll'[m])
  <2>1. CASE journal'[m] = journal[m]
    BY <1>4, <1>13, <1>17, <2>1
  <2>2. CASE journal'[m] # journal[m]
    <3>1. m = n /\ journal'[m] = i  BY <1>4, <1>21, <2>2
    <3>2. PICK a : a = agent[n]  OBVIOUS
    <3>3. PICK p : p = poll[n]  OBVIOUS
    <3>4. Fine(v, n, a, j, p)  BY <1>1, <1>17, <3>2, <3>3
    <3>5. Fine(v, n, a, i, p)  BY <1>19, <1>20, <3>4, FewerFine
    <3> QED  BY <1>4, <1>13, <3>1, <3>2, <3>3, <3>5
  <2> QED  BY <2>1, <2>2
<1>23. NodesOk'  BY <1>22 DEF NodesOk
<1> QED  BY <1>11, <1>23 DEF OwnInv

(* A poll that has just been sent is the newest word between a node and its *)
(* leader.                                                                  *)
LEMMA PollFine ==
    ASSUME NEW w, NEW n, NEW a, NEW j, NEW p, NEW q, Held(w, n, a, j, p), a.up,
           q.age = 0
    PROVE  Fine(w, n, a, j, q)
<1>1. Fine(w, n, a, j, p) /\ AgentShape(a)  BY DEF Held
<1>2. a.lease \in 0 .. Lease /\ Lease \in Nat  BY <1>1, WithdrawalAssumption DEF AgentShape
<1>3. /\ Real(a.waiting) => a.waiting.age \in 0 .. Lease
      /\ Real(a.sync) => a.sync.age \in 0 .. Lease
  BY <1>1, <1>2, RequestFacts DEF Real, AgentShape, LocalRequest
<1>4. Ordered(a, q)  BY <1>1, <1>2, <1>3 DEF Fine, Ordered
<1> QED  BY <1>1, <1>4 DEF Fine

(* Poll records the contact and leaves everything else.                     *)
LEMMA PollOwn ==
    ASSUME Base, OwnInv, NEW n \in Nodes, Poll(n)
    PROVE  OwnInv'
<1>1. PICK q : q = [stage |-> "recorded", age |-> 0]  OBVIOUS
<1>2. /\ poll' = [poll EXCEPT ![n] = q] /\ agent' = agent /\ journal' = journal
      /\ council' = council /\ backup' = backup /\ report' = report /\ plan' = plan
      /\ execution' = execution /\ confirmed' = confirmed /\ setting' = setting
      /\ agent[n].up
  BY <1>1 DEF Poll, workload
<1>3. q.age = 0  BY <1>1
<1>4. World' = World  BY <1>2 DEF World, Occupants
<1>5. CouncilOk'
  BY <1>2, LedgerShrinks DEF OwnInv, CouncilOk
<1>6. DOMAIN poll = Nodes  BY DEF Base, Inv, Typed
<1>7. PICK w : w = World  OBVIOUS
<1>8. ASSUME NEW m \in Nodes PROVE Fine(World', m, agent'[m], journal'[m], poll'[m])
  <2>1. PICK a : a = agent[m]  OBVIOUS
  <2>2. PICK j : j = journal[m]  OBVIOUS
  <2>3. PICK p : p = poll[m]  OBVIOUS
  <2>4. Held(w, m, a, j, p)  BY <1>7, <2>1, <2>2, <2>3, StateHeld
  <2>5. poll'[m] = p \/ (poll'[m] = q /\ a.up)  BY <1>2, <1>6, <2>1, <2>3
  <2>6. Fine(w, m, a, j, p) /\ (a.up => Fine(w, m, a, j, q))  BY <1>3, <2>4, PollFine DEF Held
  <2> QED  BY <1>2, <1>4, <1>7, <2>1, <2>2, <2>5, <2>6
<1>9. NodesOk'  BY <1>8 DEF NodesOk
<1> QED  BY <1>5, <1>9 DEF OwnInv

(* An answer brings the committed catalogue, under the poll that asked.     *)
LEMMA AnswerFine ==
    ASSUME NEW w, NEW n, NEW a, NEW b, NEW j, NEW p, Held(w, n, a, j, p), p # Idle,
           b.sync = a.sync, b.view = a.view, b.lease = a.lease, b.up = a.up,
           b.waiting # NoRequest, b.waiting.age = p.age,
           b.waiting.generation = w.ledger.generation, b.waiting.catalog = w.ledger.catalog,
           Below(DOMAIN b.waiting.withdrawals, w.ledger.generation),
           Sound(w, n, w.ledger.generation, w.ledger.catalog)
    PROVE  Fine(w, n, b, j, Idle)
<1>1. Fine(w, n, a, j, p) /\ AgentShape(a)  BY DEF Held
<1>2. p.age \in 0 .. Lease  BY DEF Held, PollShape
<1>3. b.waiting.age # LocalRequest  BY <1>2, WithdrawalAssumption DEF LocalRequest
<1>4. Ordered(b, Idle)  BY <1>1, <1>3 DEF Fine, Ordered, Real
<1>5. /\ j.publications # <<>> => Latest(j).generation <= w.ledger.generation
      /\ a.sync # NoRequest => a.sync.publication.generation <= w.ledger.generation
  BY DEF Held, Informed, JournalHears, AgentHears, Current
<1>6. Heard(b, j)  BY <1>1, <1>5 DEF Fine, Heard
<1>7. Shows(b, j)  BY <1>1 DEF Fine, Shows
<1>8. SoundNode(w, n, b, j)  BY <1>1 DEF Fine, SoundNode, SoundView, Counts
<1>9. n = Producer => OwnView(w.confirmed, b, j)  BY <1>1 DEF Fine, OwnView
<1> QED  BY <1>4, <1>6, <1>7, <1>8, <1>9 DEF Fine

(* Answer registers the node and brings it what the ledger has published.   *)
LEMMA AnswerOwn ==
    ASSUME Base, OwnInv, NEW n \in Nodes, Answer(n)
    PROVE  OwnInv'
<1>1. PICK k : k = council  OBVIOUS
<1>2. PICK l : l = RegisterConsumer(council, n)  OBVIOUS
<1>3. PICK o : o = {g \in DOMAIN l.pending : n \in l.pending[g].consumers}  OBVIOUS
<1>4. PICK x : x = [g \in o |-> l.pending[g].services]  OBVIOUS
<1>5. PICK r : r = [at |-> "waiting", age |-> poll[n].age, generation |-> l.generation,
                    catalog |-> l.catalog, withdrawals |-> x]
  OBVIOUS
<1>6. PICK s : s = (agent[n].stale \/ (agent[n].waiting # NoRequest
                                          /\ agent[n].waiting.age = LocalRequest))
  OBVIOUS
<1>7. PICK b : b = [agent[n] EXCEPT !.waiting = r, !.stale = s]  OBVIOUS
<1>8. /\ poll[n].stage = "recorded" /\ council' = l /\ poll' = [poll EXCEPT ![n] = Idle]
      /\ backup' = backup /\ report' = report /\ plan' = plan /\ journal' = journal
      /\ execution' = execution /\ confirmed' = confirmed /\ setting' = setting
  <2>1. /\ poll[n].stage = "recorded" /\ council' = l /\ poll' = [poll EXCEPT ![n] = Idle]
        /\ UNCHANGED <<backup, leader, journal, workload, setting>>
    BY <1>2, Zenon DEF Answer
  <2> QED  BY <2>1 DEF leader, workload
<1>9. agent' = [agent EXCEPT ![n] = b] \/ agent' = agent
  <2> DEFINE K == RegisterConsumer(council, n)
             X == [g \in {g \in DOMAIN K.pending : n \in K.pending[g].consumers} |->
                      K.pending[g].services]
             R == [at |-> "waiting", age |-> poll[n].age, generation |-> K.generation,
                   catalog |-> K.catalog, withdrawals |-> X]
             S == agent[n].stale \/ (agent[n].waiting # NoRequest
                                        /\ agent[n].waiting.age = LocalRequest)
  <2>1. agent' = [agent EXCEPT ![n] = [agent[n] EXCEPT !.waiting = R, !.stale = S]]
           \/ agent' = agent
    BY Zenon DEF Answer
  <2>2. S = s  BY <1>6
  <2>3. X = x  BY <1>2, <1>3, <1>4
  <2> HIDE DEF X, S
  <2>4. R = r  BY <1>2, <1>5, <2>3
  <2> HIDE DEF R
  <2> QED  BY <1>7, <2>1, <2>2, <2>4
<1>10. CouncilShape(k) /\ LedgerOk(k)
  BY <1>1 DEF Base, Inv, Typed, OwnInv, CouncilOk
<1>11. /\ l.catalog = k.catalog /\ l.pending = k.pending /\ l.fenced = k.fenced
       /\ l.generation = k.generation /\ k.generation \in Nat
  BY <1>1, <1>2, <1>10 DEF CouncilShape, CouncilFields, RegisterConsumer
<1>12. LedgerOk(l)
  <2>1. \A t \in DOMAIN k.catalog : \A e \in k.catalog[t].backends : ~Blocks(l.fenced, e)
    BY <1>10, <1>11 DEF LedgerOk
  <2> QED  BY <1>10, <1>11, <2>1, SameOk
<1>13. CouncilOk'
  BY <1>1, <1>8, <1>11, <1>12, LedgerShrinks DEF OwnInv
<1>14. PICK w : w = World  OBVIOUS
<1>15. PICK v : v = World'  OBVIOUS
<1>16. /\ w.ledger = k /\ v.ledger = l /\ v.confirmed = w.confirmed /\ v.standIns = w.standIns
       /\ w.confirmed = confirmed /\ Unknown \in v.standIns
  BY <1>1, <1>8, <1>14, <1>15 DEF World, Occupants
<1>17. ASSUME NEW m \in Nodes PROVE Held(v, m, agent[m], journal[m], poll[m])
  <2>1. PICK a : a = agent[m]  OBVIOUS
  <2>2. PICK j : j = journal[m]  OBVIOUS
  <2>3. PICK p : p = poll[m]  OBVIOUS
  <2>4. Held(w, m, a, j, p)  BY <1>14, <2>1, <2>2, <2>3, StateHeld
  <2>5. \A g \in Nat : Moves(w, v, m, g)  BY <1>11, <1>16, SameMoves
  <2>6. Fine(v, m, a, j, p)  BY <1>11, <1>16, <2>4, <2>5, MovedFine
  <2>7. Informed(a, j, l)
    <3>1. Later(l, k)  BY <1>11 DEF Later
    <3>2. Informed(a, j, k)  BY <1>16, <2>4 DEF Held
    <3> QED  BY <1>11, <3>1, <3>2, LaterInformed
  <2> QED  BY <1>11, <1>16, <2>1, <2>2, <2>3, <2>4, <2>6, <2>7 DEF Held
<1>18. Sound(v, n, l.generation, l.catalog)
  <2>1. v.confirmed # {} => v.ledger.fenced # {}
    BY <1>1, <1>11, <1>16 DEF OwnInv, CouncilOk, Releases, ReleaseConfirmed
  <2> QED  BY <1>12, <1>16, <2>1, CatalogSound
<1>19. PICK a : a = agent[n]  OBVIOUS
<1>20. PICK j : j = journal[n]  OBVIOUS
<1>21. PICK p : p = poll[n]  OBVIOUS
<1>22. Held(v, n, a, j, p)  BY <1>17, <1>19, <1>20, <1>21
<1>23. p # Idle  BY <1>8, <1>21 DEF Idle
<1>24. /\ b.waiting = r /\ b.sync = a.sync /\ b.view = a.view /\ b.lease = a.lease /\ b.up = a.up
  BY <1>7, <1>19, <1>22 DEF Held, AgentShape, AgentFields
<1>25. /\ r.age = p.age /\ r.generation = l.generation /\ r.catalog = l.catalog
       /\ r.withdrawals = x /\ "age" \in DOMAIN r
  BY <1>5, <1>21
<1>26. r # NoRequest  BY <1>25, AgedIsRequest
<1>27. Below(DOMAIN x, l.generation)
  <2>1. DOMAIN x \subseteq DOMAIN l.pending  BY <1>3, <1>4
  <2> QED  BY <1>12, <2>1 DEF LedgerOk, Below
<1>28. Fine(v, n, b, j, Idle)
  BY <1>16, <1>18, <1>22, <1>23, <1>24, <1>25, <1>26, <1>27, AnswerFine
<1>29. Fine(v, n, a, j, Idle)
  <2>1. SameAgent(a, a)  BY DEF SameAgent
  <2> QED  BY <1>22, <2>1, SameFine DEF Held
<1>30. DOMAIN agent = Nodes /\ DOMAIN poll = Nodes  BY DEF Base, Inv, Typed
<1>31. ASSUME NEW m \in Nodes PROVE Fine(World', m, agent'[m], journal'[m], poll'[m])
  <2>1. CASE m = n
    <3>1. (agent'[m] = b \/ agent'[m] = a) /\ poll'[m] = Idle
      BY <1>8, <1>9, <1>19, <1>30, <2>1
    <3> QED  BY <1>8, <1>15, <1>20, <1>28, <1>29, <2>1, <3>1
  <2>2. CASE m # n
    <3>1. agent'[m] = agent[m] /\ poll'[m] = poll[m]  BY <1>8, <1>9, <1>30, <2>2
    <3> QED  BY <1>8, <1>15, <1>17, <3>1 DEF Held
  <2> QED  BY <2>1, <2>2
<1>32. NodesOk'  BY <1>31 DEF NodesOk
<1> QED  BY <1>13, <1>32 DEF OwnInv

-----------------------------------------------------------------------------
(* Time.                                                                    *)

(* Ages grow together, so nobody overtakes anybody.                         *)
LEMMA TickOrder ==
    ASSUME NEW x, NEW y, x \in 0 .. Lease, y \in 0 .. Lease
    PROVE  /\ Least(x + 1, Lease) \in 0 .. Lease
           /\ x <= y => Least(x + 1, Lease) <= Least(y + 1, Lease)
           /\ Least(x + 1, Lease) < Lease => x < Lease
           /\ Greatest(x - 1, 0) \in 0 .. Lease
           /\ Greatest(x - 1, 0) > 0 => x > 0
           /\ y <= Lease - x => Least(y + 1, Lease) <= Lease - Greatest(x - 1, 0)
BY WithdrawalAssumption DEF Least, Greatest

(* A request that ages keeps what it says.                                  *)
LEMMA AgedRequest ==
    ASSUME NEW r, RequestShape(r), NEW q, q = Aged(r)
    PROVE  /\ r = NoRequest => q = NoRequest
           /\ r # NoRequest =>
                 /\ q # NoRequest /\ q.at = r.at
                 /\ r.age = LocalRequest => q = r
                 /\ r.age # LocalRequest =>
                       /\ r.age \in 0 .. Lease
                       /\ q.age = Least(r.age + 1, Lease) /\ q.age # LocalRequest
                 /\ DOMAIN q = DOMAIN r
                 /\ \A f \in DOMAIN r : f # "age" => q[f] = r[f]
<1>1. CASE r = NoRequest  BY <1>1 DEF Aged
<1>2. CASE r # NoRequest /\ r.age = LocalRequest  BY <1>2 DEF Aged
<1>3. CASE r # NoRequest /\ r.age # LocalRequest
  <2>1. {"at", "age"} \subseteq DOMAIN r /\ r.age \in 0 .. Lease
    BY <1>3, RequestFacts, WithdrawalAssumption DEF LocalRequest
  <2>2. PICK x : x = Least(r.age + 1, Lease)  OBVIOUS
  <2>3. q = [r EXCEPT !.age = x]  BY <1>3, <2>2 DEF Aged
  <2>4. x \in 0 .. Lease  BY <2>1, <2>2, TickOrder
  <2>5. x # LocalRequest  BY <2>4, WithdrawalAssumption DEF LocalRequest
  <2>6. DOMAIN q = DOMAIN r /\ q.age = x /\ \A f \in DOMAIN r : f # "age" => q[f] = r[f]
    BY <2>1, <2>3
  <2>7. q # NoRequest  BY <2>1, <2>6, AgedIsRequest
  <2>8. q.at = r.at  BY <2>1, <2>6
  <2> QED  BY <1>3, <2>1, <2>2, <2>5, <2>6, <2>7, <2>8
<1> QED  BY <1>1, <1>2, <1>3

(* A node after a tick.                                                     *)
LEMMA TickFine ==
    ASSUME NEW w, NEW n, NEW a, NEW b, NEW j, NEW p, NEW q, Held(w, n, a, j, p),
           b.view = a.view, b.up = a.up, b.lease = Greatest(a.lease - 1, 0),
           b.waiting = Aged(a.waiting), b.sync = Aged(a.sync),
           p = Idle => q = Idle, p # Idle => q.age = Least(p.age + 1, Lease)
    PROVE  Fine(w, n, b, j, q)
<1>1. Fine(w, n, a, j, p) /\ AgentShape(a) /\ PollShape(p)  BY DEF Held
<1>2. PICK r : r = a.waiting  OBVIOUS
<1>3. PICK s : s = a.sync  OBVIOUS
<1>4. PICK x : x = b.waiting  OBVIOUS
<1>5. PICK y : y = b.sync  OBVIOUS
<1>6. RequestShape(r) /\ RequestShape(s) /\ a.lease \in 0 .. Lease
  BY <1>1, <1>2, <1>3 DEF AgentShape
<1>7. /\ r = NoRequest => x = NoRequest
      /\ r # NoRequest =>
                 /\ x # NoRequest /\ x.at = r.at
                 /\ r.age = LocalRequest => x = r
                 /\ r.age # LocalRequest =>
                       /\ r.age \in 0 .. Lease
                       /\ x.age = Least(r.age + 1, Lease) /\ x.age # LocalRequest
                 /\ DOMAIN x = DOMAIN r
                 /\ \A f \in DOMAIN r : f # "age" => x[f] = r[f]
  BY <1>2, <1>4, <1>6, AgedRequest
<1>8. /\ s = NoRequest => y = NoRequest
      /\ s # NoRequest =>
                 /\ y # NoRequest /\ y.at = s.at
                 /\ s.age = LocalRequest => y = s
                 /\ s.age # LocalRequest =>
                       /\ s.age \in 0 .. Lease
                       /\ y.age = Least(s.age + 1, Lease) /\ y.age # LocalRequest
                 /\ DOMAIN y = DOMAIN s
                 /\ \A f \in DOMAIN s : f # "age" => y[f] = s[f]
  BY <1>3, <1>5, <1>6, AgedRequest
<1>9. r # NoRequest => /\ x.generation = r.generation /\ x.catalog = r.catalog
                       /\ x.withdrawals = r.withdrawals
  <2>1. r # NoRequest => DOMAIN r = WaitingFields
    BY <1>2 DEF Held, Informed, AgentHears
  <2> QED  BY <1>7, <2>1 DEF WaitingFields
<1>10. s # NoRequest => y.publication = s.publication /\ y.withdrawals = s.withdrawals
  <2>1. s # NoRequest => DOMAIN s = UnderwayFields
    BY <1>3 DEF Held, Informed, AgentHears
  <2> QED  BY <1>8, <2>1 DEF UnderwayFields
<1>11. y.at = s.at /\ (y = NoRequest <=> s = NoRequest) /\ (x = NoRequest <=> r = NoRequest)
  BY <1>7, <1>8
<1>12. /\ Real(x) <=> Real(r)
       /\ Real(y) <=> Real(s)
       /\ Real(r) => r.age \in 0 .. Lease /\ x.age = Least(r.age + 1, Lease)
       /\ Real(s) => s.age \in 0 .. Lease /\ y.age = Least(s.age + 1, Lease)
       /\ x # NoRequest /\ x.age = LocalRequest => r.age = LocalRequest
  BY <1>7, <1>8 DEF Real
<1>13. Ordered(b, q)
  <2>1. Ordered(a, p)  BY <1>1 DEF Fine
  <2>2. p # Idle => p.age \in 0 .. Lease  BY <1>1 DEF PollShape
  <2>3. x # NoRequest /\ x.age = LocalRequest => y = NoRequest
    BY <1>2, <1>3, <1>11, <1>12, <2>1 DEF Ordered
  <2>4. Real(x) => x.age <= Lease - b.lease
    BY <1>2, <1>6, <1>12, <2>1, TickOrder DEF Ordered
  <2>5. Real(y) => y.age <= Lease - b.lease
    BY <1>3, <1>6, <1>12, <2>1, TickOrder DEF Ordered
  <2>6. Real(y) /\ Real(x) => x.age <= y.age
    BY <1>2, <1>3, <1>12, <2>1, TickOrder DEF Ordered
  <2>7. q # Idle => b.up /\ q.age <= Lease - b.lease
    BY <1>6, <2>1, <2>2, TickOrder DEF Ordered
  <2>8. q # Idle /\ Real(x) => q.age <= x.age
    BY <1>2, <1>12, <2>1, <2>2, TickOrder DEF Ordered
  <2>9. q # Idle /\ Real(y) => q.age <= y.age
    BY <1>3, <1>12, <2>1, <2>2, TickOrder DEF Ordered
  <2>10. ~b.up => x = NoRequest /\ y = NoRequest
    BY <1>2, <1>3, <1>11, <2>1 DEF Ordered
  <2> QED  BY <1>4, <1>5, <2>3, <2>4, <2>5, <2>6, <2>7, <2>8, <2>9, <2>10 DEF Ordered
<1>14. Heard(b, j)
  BY <1>1, <1>2, <1>3, <1>4, <1>5, <1>9, <1>10, <1>11 DEF Fine, Heard
<1>15. Shows(b, j)  BY <1>1, <1>3, <1>5, <1>10, <1>11 DEF Fine, Shows
<1>16. b.lease > 0 => a.lease > 0  BY <1>6, TickOrder
<1>17. Counts(b, x) => Counts(a, r)
  BY <1>7, <1>11, <1>16, TickOrder DEF Counts
<1>18. Counts(b, y) => Counts(a, s)
  BY <1>8, <1>11, <1>16, TickOrder DEF Counts
<1>19. /\ Counts(b, x) => r # NoRequest
       /\ Counts(b, y) => s # NoRequest
  BY <1>11 DEF Counts
<1>20. SoundNode(w, n, b, j)
  <2>1. SoundNode(w, n, a, j)  BY <1>1 DEF Fine
  <2>2. SoundView(w, n, b, j)  BY <1>16, <2>1 DEF SoundNode, SoundView
  <2>3. Counts(b, b.sync) => Sound(w, n, b.sync.publication.generation, b.sync.publication.catalog)
    BY <1>3, <1>5, <1>10, <1>18, <1>19, <2>1 DEF SoundNode
  <2>4. Counts(b, b.waiting) => Sound(w, n, b.waiting.generation, b.waiting.catalog)
    BY <1>2, <1>4, <1>9, <1>17, <1>19, <2>1 DEF SoundNode
  <2> QED  BY <1>16, <2>1, <2>2, <2>3, <2>4 DEF SoundNode
<1>21. n = Producer => OwnView(w.confirmed, b, j)
  BY <1>1, <1>3, <1>5, <1>10, <1>11 DEF Fine, OwnView
<1> QED  BY <1>13, <1>14, <1>15, <1>20, <1>21 DEF Fine

(* Tick changes no more than ages and leases.                               *)
LEMMA TickOwn ==
    ASSUME Base, OwnInv, Tick
    PROVE  OwnInv'
<1>1. /\ agent' = [n \in Nodes |->
            [agent[n] EXCEPT !.lease = Greatest(@ - 1, 0),
                             !.waiting = Aged(@), !.sync = Aged(@)]]
      /\ poll' = [n \in Nodes |-> IF poll[n] = Idle THEN Idle
                                  ELSE [poll[n] EXCEPT !.age = Least(@ + 1, Lease)]]
      /\ council' = council /\ backup' = backup /\ report' = report /\ plan' = plan
      /\ execution' = execution /\ confirmed' = confirmed /\ setting' = setting
      /\ journal' = journal
  BY DEF Tick, workload
<1>2. World' = World  BY <1>1 DEF World, Occupants
<1>3. CouncilOk'  BY <1>1, LedgerShrinks DEF OwnInv, CouncilOk
<1>4. ASSUME NEW m \in Nodes PROVE Fine(World', m, agent'[m], journal'[m], poll'[m])
  <2>1. PICK a : a = agent[m]  OBVIOUS
  <2>2. PICK j : j = journal[m]  OBVIOUS
  <2>3. PICK p : p = poll[m]  OBVIOUS
  <2>4. PICK w : w = World  OBVIOUS
  <2>5. Held(w, m, a, j, p)  BY <2>1, <2>2, <2>3, <2>4, StateHeld
  <2>6. PICK b : b = agent'[m]  OBVIOUS
  <2>7. PICK q : q = poll'[m]  OBVIOUS
  <2>8. /\ b.view = a.view /\ b.up = a.up /\ b.lease = Greatest(a.lease - 1, 0)
        /\ b.waiting = Aged(a.waiting) /\ b.sync = Aged(a.sync)
    <3>1. PICK l : l = Greatest(a.lease - 1, 0)  OBVIOUS
    <3>2. PICK x : x = Aged(a.waiting)  OBVIOUS
    <3>3. PICK y : y = Aged(a.sync)  OBVIOUS
    <3>4. b = [a EXCEPT !.lease = l, !.waiting = x, !.sync = y]
      BY <1>1, <2>1, <2>6, <3>1, <3>2, <3>3
    <3> QED  BY <2>5, <3>1, <3>2, <3>3, <3>4 DEF Held, AgentShape, AgentFields
  <2>9. (p = Idle => q = Idle) /\ (p # Idle => q.age = Least(p.age + 1, Lease))
    <3>1. PICK l : l = Least(p.age + 1, Lease)  OBVIOUS
    <3>2. q = IF p = Idle THEN Idle ELSE [p EXCEPT !.age = l]  BY <1>1, <2>3, <2>7, <3>1
    <3>3. p # Idle => DOMAIN p = {"stage", "age"}  BY <2>5 DEF Held, PollShape
    <3> QED  BY <3>1, <3>2, <3>3
  <2>10. Fine(w, m, b, j, q)  BY <2>5, <2>8, <2>9, TickFine
  <2> QED  BY <1>1, <1>2, <2>2, <2>4, <2>6, <2>7, <2>10
<1>5. NodesOk'  BY <1>4 DEF NodesOk
<1> QED  BY <1>3, <1>5 DEF OwnInv
-----------------------------------------------------------------------------
(* The leader's steps that write nothing.                                   *)

(* A step that leaves the ledger, the executions and what the nodes hold.   *)
LEMMA QuietOwn ==
    ASSUME OwnInv, council' = council, execution' = execution, confirmed' = confirmed,
           setting' = setting, agent' = agent, journal' = journal,
           \A m \in Nodes : poll'[m] \in {poll[m], Idle},
           LedgerOk(backup'), ReportOk', PlanOk'
    PROVE  OwnInv'
<1>1. Occupants' = Occupants  BY DEF Occupants
<1>2. World' = World  BY <1>1 DEF World
<1>3. Releases'  BY DEF OwnInv, CouncilOk, Releases
<1>4. OneOccupant'  BY <1>1 DEF OwnInv, CouncilOk, OneOccupant
<1>5. LedgerOk(council')  BY DEF OwnInv, CouncilOk
<1>6. CouncilOk'  BY <1>3, <1>4, <1>5 DEF CouncilOk
<1>7. ASSUME NEW m \in Nodes PROVE Fine(World', m, agent'[m], journal'[m], poll'[m])
  <2>1. PICK a : a = agent[m]  OBVIOUS
  <2>2. PICK j : j = journal[m]  OBVIOUS
  <2>3. PICK p : p = poll[m]  OBVIOUS
  <2>4. PICK q : q = poll'[m]  OBVIOUS
  <2>5. PICK w : w = World  OBVIOUS
  <2>6. Fine(w, m, a, j, p)  BY <2>1, <2>2, <2>3, <2>5 DEF OwnInv, NodesOk
  <2>7. q = p \/ q = Idle  BY <2>3, <2>4
  <2>8. SameAgent(a, a)  BY DEF SameAgent
  <2>9. Fine(w, m, a, j, q)  BY <2>6, <2>7, <2>8, SameFine
  <2> QED  BY <1>2, <2>1, <2>2, <2>4, <2>5, <2>9
<1>8. NodesOk'  BY <1>7 DEF NodesOk
<1> QED  BY <1>6, <1>8 DEF OwnInv

(* Report tells of executions that hold the address.                        *)
LEMMA ReportOwn ==
    ASSUME Base, OwnInv, Report
    PROVE  OwnInv'
<1>1. /\ report' = [known |-> TRUE, backends |-> {e \in setting.executions : Live(e)}]
      /\ council' = council /\ backup' = backup /\ plan' = plan /\ poll' = poll
      /\ agent' = agent /\ journal' = journal /\ execution' = execution
      /\ confirmed' = confirmed /\ setting' = setting
  BY DEF Report, nodes, workload
<1>2. Occupants' = Occupants  BY <1>1 DEF Occupants
<1>3. setting.executions \subseteq Executions
  BY WithdrawalAssumption DEF Base, Inv, Typed, Setting
<1>4. report'.backends \subseteq Occupants /\ Unknown \notin report'.backends
  BY <1>1, <1>3, EndpointLedgerAssumption DEF Occupants, Live
<1>5. ReportOk'  BY <1>1, <1>2, <1>4 DEF ReportOk, Alone
<1>6. PlanOk'  BY <1>1, <1>2 DEF OwnInv, CouncilOk, PlanOk
<1>7. LedgerOk(backup')  BY <1>1 DEF OwnInv, CouncilOk
<1> QED  BY <1>1, <1>5, <1>6, <1>7, QuietOwn

(* BuildCatalog gives an address without an execution to its occupant.      *)
LEMMA BuildOwn ==
    ASSUME Base, OwnInv, BuildCatalog
    PROVE  OwnInv'
<1>1. /\ council' = council /\ backup' = backup /\ report' = report /\ poll' = poll
      /\ agent' = agent /\ journal' = journal /\ execution' = execution
      /\ confirmed' = confirmed /\ setting' = setting
  BY DEF BuildCatalog, nodes, workload
<1>2. PICK present \in BOOLEAN, f \in Allocations(council.catalog, ReservedVips(council), declared) :
         plan' = [generation |-> council.generation,
                  catalog |-> [s \in declared |->
                                 [vip |-> f[s], backends |-> ReportedBackends(s, present)]]]
  BY Zenon DEF BuildCatalog
<1>3. PICK next : next = [s \in declared |->
                            [vip |-> f[s], backends |-> ReportedBackends(s, present)]]
  OBVIOUS
<1>4. plan'.generation = council.generation /\ plan'.catalog = next  BY <1>2, <1>3
<1>5. /\ DOMAIN next = declared
      /\ \A s \in declared :
            next[s].vip = f[s] /\ next[s].backends = ReportedBackends(s, present)
  BY <1>3
<1>6. f \in [declared -> VIPs]  BY <1>2 DEF Allocations
<1>7. Vips(next) \subseteq VIPs  BY <1>5, <1>6 DEF Vips
<1>8. ReportOk /\ LedgerOk(council)  BY DEF OwnInv, CouncilOk
<1>9. ASSUME NEW s \in declared
      PROVE  /\ Alone(next[s].backends)
             /\ (/\ s \in DOMAIN council.catalog /\ Unknown \in council.catalog[s].backends
                 /\ next[s].backends # {}) =>
                    next[s].backends \cap (Occupants \cup council.fenced \cup {Unknown}) # {}
  <2>1. \/ next[s].backends \subseteq report.backends
        \/ /\ s \in DOMAIN council.catalog
           /\ next[s].backends \subseteq council.catalog[s].backends
        \/ next[s].backends = {}
    BY <1>5 DEF ReportedBackends
  <2>2. s \in DOMAIN council.catalog => Alone(council.catalog[s].backends)
    BY <1>8 DEF LedgerOk
  <2> QED  BY <1>8, <2>1, <2>2 DEF ReportOk, Alone
<1>10. Occupants' = Occupants  BY <1>1 DEF Occupants
<1>11. council.generation \in Nat  BY DEF Base, Inv, Typed, CouncilShape
<1>12. PlanOk'  BY <1>1, <1>4, <1>5, <1>7, <1>9, <1>10, <1>11 DEF PlanOk
<1>13. ReportOk'  BY <1>1, <1>8, <1>10 DEF ReportOk
<1>14. LedgerOk(backup')  BY <1>1 DEF OwnInv, CouncilOk
<1> QED  BY <1>1, <1>12, <1>13, <1>14, QuietOwn

(* Decisions, elections, backups and declarations change nothing a node     *)
(* depends on.                                                              *)
LEMMA LeaderQuietOwn ==
    ASSUME Base, OwnInv,
           \/ \E s \in Services : Declare(s)
           \/ \E alive \in SUBSET setting.consumers : DecideDischarges(alive)
           \/ SettleDischarges \/ Elect \/ Backup
    PROVE  OwnInv'
<1>1. /\ council' = council /\ agent' = agent /\ journal' = journal
      /\ execution' = execution /\ confirmed' = confirmed /\ setting' = setting
      /\ backup' = backup \/ backup' = council
      /\ \/ report' = report /\ plan' = plan /\ poll' = poll
         \/ report' = NoReport /\ plan' = NoPlan /\ poll' = [n \in Nodes |-> Idle]
  BY DEF Declare, DecideDischarges, SettleDischarges, Elect, Backup, nodes, workload, leader
<1>2. Occupants' = Occupants  BY <1>1 DEF Occupants
<1>3. ReportOk'  BY <1>1, <1>2 DEF OwnInv, CouncilOk, ReportOk, NoReport, Alone
<1>4. PlanOk'
  <2>1. CASE plan' = plan  BY <1>1, <1>2, <2>1 DEF OwnInv, CouncilOk, PlanOk
  <2>2. CASE plan' = NoPlan  BY <2>2 DEF PlanOk
  <2> QED  BY <1>1, <2>1, <2>2
<1>5. LedgerOk(backup')  BY <1>1 DEF OwnInv, CouncilOk
<1>6. \A m \in Nodes : poll'[m] \in {poll[m], Idle}  BY <1>1
<1> QED  BY <1>1, <1>3, <1>4, <1>5, <1>6, QuietOwn
-----------------------------------------------------------------------------
(* The executions.                                                          *)

(* An execution that starts or ends its work; the address keeps its         *)
(* occupants.                                                               *)
LEMMA ExecutionOwn ==
    ASSUME Base, OwnInv, Inv', Steady', Occupants \subseteq Occupants', OneOccupant',
           council' = council, backup' = backup, report' = report, plan' = plan,
           poll' = poll, journal' = journal, confirmed' = confirmed, setting' = setting,
           \A m \in Nodes : SameAgent(agent'[m], agent[m]),
           \A x \in confirmed : execution[x] = "released" => execution'[x] = "released"
    PROVE  OwnInv'
<1>1. Releases'  BY DEF OwnInv, CouncilOk, Releases
<1>2. ReportOk'
  <2>1. ReportOk  BY DEF OwnInv, CouncilOk
  <2> QED  BY <2>1 DEF ReportOk
<1>3. PlanOk'
  <2>1. PlanOk  BY DEF OwnInv, CouncilOk
  <2>2. PICK o : o = Occupants  OBVIOUS
  <2>3. PICK q : q = Occupants'  OBVIOUS
  <2>4. o \subseteq q  BY <2>2, <2>3
  <2> SUFFICES ASSUME plan # NoPlan, NEW s \in DOMAIN plan.catalog,
                      /\ plan.generation = council.generation
                      /\ s \in DOMAIN council.catalog /\ Unknown \in council.catalog[s].backends
                      /\ plan.catalog[s].backends # {}
               PROVE  plan.catalog[s].backends \cap (q \cup council.fenced \cup {Unknown}) # {}
    BY <2>1, <2>3 DEF PlanOk
  <2>5. plan.catalog[s].backends \cap (o \cup council.fenced \cup {Unknown}) # {}
    BY <2>1, <2>2 DEF PlanOk
  <2> QED  BY <2>4, <2>5
<1>4. CouncilOk'  BY <1>1, <1>2, <1>3 DEF OwnInv, CouncilOk
<1>5. PICK w : w = World  OBVIOUS
<1>6. PICK v : v = World'  OBVIOUS
<1>7. v.ledger = w.ledger /\ v.confirmed = w.confirmed /\ w.standIns \subseteq v.standIns
  BY <1>5, <1>6 DEF World
<1>8. \A m \in Nodes, g \in Nat : Moves(w, v, m, g)  BY <1>7, SameMoves
<1>9. \A m \in Nodes : m = Producer => OwnView(confirmed', agent[m], journal[m])
  BY DEF OwnInv, NodesOk, Fine, World
<1>10. council.generation <= council'.generation
  BY DEF Base, Inv, Typed, CouncilShape
<1>11. NodesOk'  BY <1>5, <1>6, <1>8, <1>9, <1>10, NodesMove
<1> QED  BY <1>4, <1>11 DEF OwnInv

(* Marking the producer's view stale changes nothing else of its agent.     *)
LEMMA StaleIsSame ==
    ASSUME Inv, NEW x, agent' = [agent EXCEPT ![Producer].stale = x] \/ agent' = agent
    PROVE  \A m \in Nodes : SameAgent(agent'[m], agent[m])
<1> SUFFICES ASSUME NEW m \in Nodes PROVE SameAgent(agent'[m], agent[m])
  OBVIOUS
<1>1. DOMAIN agent = Nodes /\ DOMAIN agent[m] = AgentFields
  BY DEF Inv, Typed, NodeShape, AgentShape
<1>2. PICK a : a = agent[m]  OBVIOUS
<1>3. PICK b : b = [a EXCEPT !.stale = x]  OBVIOUS
<1>4. agent'[m] = a \/ agent'[m] = b  BY <1>1, <1>2, <1>3
<1>5. DOMAIN a = AgentFields  BY <1>1, <1>2
<1> QED  BY <1>2, <1>3, <1>4, <1>5 DEF SameAgent, AgentFields

(* Start, Retire and Stop.                                                  *)
LEMMA WorkOwn ==
    ASSUME Base, OwnInv, Inv', Steady', NEW e \in Executions, Start(e) \/ Retire(e) \/ Stop(e)
    PROVE  OwnInv'
<1>1. PICK x : x = (Producer \in setting.consumers)  OBVIOUS
<1>2. /\ council' = council /\ backup' = backup /\ report' = report /\ plan' = plan
      /\ poll' = poll /\ journal' = journal /\ confirmed' = confirmed /\ setting' = setting
      /\ agent' = [agent EXCEPT ![Producer].stale = x] \/ agent' = agent
  BY <1>1 DEF Start, Retire, Stop, leader, nodes
<1>3. execution \in [Executions -> Lives]  BY DEF Base, Inv, Typed
<1>4. OneOccupant /\ Releases  BY DEF OwnInv, CouncilOk
<1>5. \A m \in Nodes : SameAgent(agent'[m], agent[m])  BY <1>2, StaleIsSame DEF Base
<1>6. \/ /\ execution[e] = "new" /\ execution' = [execution EXCEPT ![e] = "running"]
         /\ e \in setting.executions
         /\ \A y \in setting.executions : execution[y] \in {"new", "released"}
      \/ /\ execution[e] \in {"running", "retiring"}
         /\ \/ execution' = [execution EXCEPT ![e] = "retiring"]
            \/ execution' = [execution EXCEPT ![e] = "stopped"]
  BY DEF Start, Retire, Stop
<1>7. Occupants \subseteq Occupants' /\ OneOccupant'
  <2>1. CASE /\ execution[e] = "new" /\ execution' = [execution EXCEPT ![e] = "running"]
             /\ e \in setting.executions
             /\ \A y \in setting.executions : execution[y] \in {"new", "released"}
    <3>1. Occupants = {}  BY <1>4, <2>1 DEF OneOccupant, Occupants
    <3>2. Occupants' = {e}  BY <1>3, <2>1, <3>1 DEF Occupants
    <3> QED  BY <1>2, <2>1, <3>1, <3>2 DEF OneOccupant
  <2>2. CASE /\ execution[e] \in {"running", "retiring"}
             /\ \/ execution' = [execution EXCEPT ![e] = "retiring"]
                \/ execution' = [execution EXCEPT ![e] = "stopped"]
    <3>1. Occupants' = Occupants  BY <1>3, <2>2 DEF Occupants
    <3> QED  BY <1>2, <1>4, <3>1 DEF OneOccupant
  <2> QED  BY <1>6, <2>1, <2>2
<1>8. \A y \in confirmed : execution[y] = "released" => execution'[y] = "released"
  BY <1>3, <1>4, <1>6 DEF Releases
<1> QED  BY <1>2, <1>5, <1>7, <1>8, ExecutionOwn
-----------------------------------------------------------------------------
(* The leader's writes.                                                     *)

(* WriteDischarge and CommitLate: the ledger stops waiting for a node that  *)
(* has no lease and cannot get one.                                         *)
LEMMA DischargeOwn ==
    ASSUME Base, OwnInv, Inv', Steady', NEW n \in Nodes, WriteDischarge(n) \/ CommitLate(n)
    PROVE  OwnInv'
<1>1. /\ council' = DischargeConsumer(council, n) \/ council' = council
      /\ backup' = backup /\ report' = report /\ plan' = plan /\ poll' = poll
      /\ agent' = agent /\ journal' = journal /\ execution' = execution
      /\ confirmed' = confirmed /\ setting' = setting
  BY DEF WriteDischarge, CommitLate, nodes, workload
<1>2. PICK k : k = council  OBVIOUS
<1>3. PICK l : l = council'  OBVIOUS
<1>4. PICK about : about = DOMAIN k.pending  OBVIOUS
<1>5. PICK q : q = Receipted(k.pending, about, n)  OBVIOUS
<1>6. CouncilShape(k) /\ LedgerOk(k)
  BY <1>2 DEF Base, Inv, Typed, OwnInv, CouncilOk
<1>7. \/ l = k
      \/ /\ l.pending = q /\ l.catalog = k.catalog /\ l.fenced = k.fenced
         /\ l.generation = k.generation /\ n \notin l.consumers
  <2>1. PICK c : c = k.consumers \ {n}  OBVIOUS
  <2>2. l = k \/ l = [k EXCEPT !.consumers = c, !.pending = q]
    BY <1>1, <1>2, <1>3, <1>4, <1>5, <2>1 DEF DischargeConsumer
  <2> QED  BY <1>6, <2>1, <2>2 DEF CouncilShape, CouncilFields
<1>8. /\ LedgerOk(l) /\ l.catalog = k.catalog /\ l.fenced = k.fenced
      /\ l.generation = k.generation
      /\ \A h \in DOMAIN l.pending : /\ h \in DOMAIN k.pending
                                     /\ l.pending[h].services = k.pending[h].services
  <2>1. CASE l = k  BY <1>6, <2>1
  <2>2. CASE /\ l.pending = q /\ l.catalog = k.catalog /\ l.fenced = k.fenced
             /\ l.generation = k.generation
    <3>1. \A h \in DOMAIN q : h \in DOMAIN k.pending /\ q[h].services = k.pending[h].services
      BY <1>5, ReceiptedFacts
    <3>2. LedgerOk(l)  BY <1>5, <1>6, <2>2, ReceiptedOk
    <3> QED  BY <2>2, <3>1, <3>2
  <2> QED  BY <1>7, <2>1, <2>2
<1>9. CouncilOk'  BY <1>1, <1>2, <1>3, <1>8, LedgerShrinks DEF OwnInv
<1>10. PICK w : w = World  OBVIOUS
<1>11. PICK v : v = World'  OBVIOUS
<1>12. /\ w.ledger = k /\ v.ledger = l /\ v.confirmed = w.confirmed /\ v.standIns = w.standIns
  BY <1>1, <1>2, <1>3, <1>10, <1>11 DEF World, Occupants
<1>13. ASSUME NEW m \in Nodes \cap l.consumers, NEW g \in Nat PROVE Moves(w, v, m, g)
  <2>1. CASE l = k  BY <1>12, <2>1, SameMoves
  <2>2. CASE /\ l.pending = q /\ l.catalog = k.catalog /\ n \notin l.consumers
    <3>1. m # n  BY <2>2
    <3>2. v.ledger.pending = Receipted(w.ledger.pending, about, n)  BY <1>5, <1>12, <2>2
    <3> QED  BY <1>12, <2>2, <3>1, <3>2, ReceiptMoves
  <2> QED  BY <1>7, <2>1, <2>2
<1>14. \A m \in Nodes : m = Producer => OwnView(confirmed', agent[m], journal[m])
  BY <1>1 DEF OwnInv, NodesOk, Fine, World
<1>15. council.generation <= council'.generation
  BY <1>2, <1>3, <1>6, <1>8 DEF CouncilShape
<1>16. \A m \in Nodes : SameAgent(agent'[m], agent[m]) /\ poll'[m] \in {poll[m], Idle}
  BY <1>1 DEF SameAgent
<1>17. NodesOk'  BY <1>1, <1>3, <1>10, <1>11, <1>13, <1>14, <1>15, <1>16, NodesMove
<1> QED  BY <1>9, <1>17 DEF OwnInv

(* A publication never withdraws again what a confirmed release was about:  *)
(* the ledger no longer lists it.                                           *)
LEMMA PublishReleases ==
    ASSUME NEW k, NEW l, NEW e, NEW next, LedgerOk(k), ReleaseConfirmed(k, e),
           l.pending = PlannedPending(k, next), k.fenced \subseteq l.fenced
    PROVE  ReleaseConfirmed(l, e)
<1>1. PICK r : r = RemovedExposures(k.catalog, next)  OBVIOUS
<1>2. PICK q : q = PlannedPending(k, next)  OBVIOUS
<1>3. \A h \in DOMAIN q : \/ h \in DOMAIN k.pending /\ q[h] = k.pending[h]
                          \/ q[h].services = r
  BY <1>1, <1>2 DEF PlannedPending
<1>4. \A s \in DOMAIN k.catalog : k.catalog[s].backends \cap {e, Unknown} = {}
  BY DEF LedgerOk, ReleaseConfirmed, Blocks
<1>5. ASSUME NEW s \in DOMAIN r PROVE r[s].backends \cap {e, Unknown} = {}
  <2>1. s \in DOMAIN k.catalog /\ r[s].backends = RemovedBackends(k.catalog, next, s)
    BY <1>1 DEF RemovedExposures
  <2>2. RemovedBackends(k.catalog, next, s) \subseteq k.catalog[s].backends
    BY DEF RemovedBackends
  <2> QED  BY <1>4, <2>1, <2>2
<1>6. \A h \in DOMAIN q : \A s \in DOMAIN q[h].services :
         q[h].services[s].backends \cap {e, Unknown} = {}
  BY <1>3, <1>5 DEF ReleaseConfirmed
<1> QED  BY <1>2, <1>6 DEF ReleaseConfirmed

(* Publish: who takes the place of a backend without an execution holds its *)
(* address, for the fences let nobody else through.                         *)
LEMMA PublishOwn ==
    ASSUME Base, OwnInv, Inv', Steady', Publish
    PROVE  OwnInv'
<1>1. PICK next : next = plan.catalog  OBVIOUS
<1>2. PICK x : x = plan.generation  OBVIOUS
<1>3. /\ plan # NoPlan /\ council' = PublishEndpoints(council, x, next) /\ plan' = NoPlan
      /\ backup' = backup /\ report' = report /\ poll' = poll
      /\ agent' = agent /\ journal' = journal /\ execution' = execution
      /\ confirmed' = confirmed /\ setting' = setting
  BY <1>1, <1>2 DEF Publish, nodes, workload
<1>4. PICK k : k = council  OBVIOUS
<1>5. PICK l : l = council'  OBVIOUS
<1>6. CouncilShape(k) /\ LedgerOk(k) /\ k.generation \in Nat
  BY <1>4 DEF Base, Inv, Typed, OwnInv, CouncilOk, CouncilShape
<1>7. l = PublishEndpoints(k, x, next)  BY <1>3, <1>4, <1>5
<1>8. \/ l = k
      \/ /\ Published(k, l, next) /\ l.fenced = k.fenced
         /\ x = k.generation /\ next # k.catalog /\ CanPublish(k, next)
         /\ \A b \in Backends(next) : ~Blocks(k.fenced, b)
  BY <1>6, <1>7, PublishFacts
<1>9. Occupants' = Occupants  BY <1>3 DEF Occupants
<1>10. PlanOk'  BY <1>3 DEF PlanOk
<1>11. CASE l = k
  <2>1. ReportOk'  BY <1>3, <1>4, <1>5, <1>9, <1>11 DEF OwnInv, CouncilOk, ReportOk
  <2>2. LedgerOk(backup')  BY <1>3 DEF OwnInv, CouncilOk
  <2> QED  BY <1>3, <1>4, <1>5, <1>10, <1>11, <2>1, <2>2, QuietOwn
<1>12. CASE /\ Published(k, l, next) /\ l.fenced = k.fenced
            /\ x = k.generation /\ next # k.catalog /\ CanPublish(k, next)
            /\ \A b \in Backends(next) : ~Blocks(k.fenced, b)
  <2>1. \A s \in DOMAIN next : \A b \in next[s].backends : ~Blocks(k.fenced, b)
    BY <1>12 DEF Backends
  <2>2. /\ Vips(next) \subseteq VIPs
        /\ \A s \in DOMAIN next :
              /\ Alone(next[s].backends)
              /\ (/\ s \in DOMAIN k.catalog /\ Unknown \in k.catalog[s].backends
                  /\ next[s].backends # {}) =>
                     next[s].backends \cap (Occupants \cup k.fenced \cup {Unknown}) # {}
    BY <1>1, <1>2, <1>3, <1>4, <1>12 DEF OwnInv, CouncilOk, PlanOk
  <2>3. LedgerOk(l)  BY <1>6, <1>12, <2>1, <2>2, PublishedOk
  <2>4. l.pending = PlannedPending(k, next) /\ l.catalog = next /\ k.fenced \subseteq l.fenced
        /\ l.generation = k.generation + 1 /\ l.consumers = k.consumers
    BY <1>12 DEF Published
  <2>5. \A e : ReleaseConfirmed(k, e) => ReleaseConfirmed(l, e)
    BY <1>6, <2>4, PublishReleases
  <2>6. Releases'
    BY <1>3, <1>4, <1>5, <2>5 DEF OwnInv, CouncilOk, Releases
  <2>7. OneOccupant'  BY <1>3, <1>9 DEF OwnInv, CouncilOk, OneOccupant
  <2>8. ReportOk'
    BY <1>3, <1>4, <1>5, <1>9, <1>12 DEF OwnInv, CouncilOk, ReportOk
  <2>9. CouncilOk'
    BY <1>3, <1>5, <1>10, <2>3, <2>6, <2>7, <2>8 DEF OwnInv, CouncilOk
  <2>10. PICK w : w = World  OBVIOUS
  <2>11. PICK v : v = World'  OBVIOUS
  <2>12. /\ w.ledger = k /\ v.ledger = l /\ v.confirmed = w.confirmed /\ v.standIns = w.standIns
         /\ w.standIns = Occupants \cup {Unknown}
    BY <1>3, <1>4, <1>5, <1>9, <2>10, <2>11 DEF World
  <2>13. \A s \in DOMAIN k.catalog :
            Unknown \in k.catalog[s].backends /\ SameRoute(k.catalog, next, s)
               /\ next[s].backends # {} => next[s].backends \cap w.standIns # {}
    BY <2>1, <2>2, <2>12 DEF SameRoute, Blocks
  <2>14. Below(DOMAIN k.pending, k.generation)  BY <1>6 DEF LedgerOk
  <2>15. ASSUME NEW m \in k.consumers, NEW g \in Nat, g <= k.generation
         PROVE  Moves(w, v, m, g)
    BY <1>6, <2>4, <2>12, <2>13, <2>14, <2>15, PublishMoves
  <2>16. \A m \in Nodes \cap council'.consumers : \A g \in Nat :
            g <= council.generation => Moves(World, World', m, g)
    BY <1>4, <1>5, <2>4, <2>10, <2>11, <2>15
  <2>17. \A m \in Nodes : m = Producer => OwnView(confirmed', agent[m], journal[m])
    BY <1>3 DEF OwnInv, NodesOk, Fine, World
  <2>18. council.generation <= council'.generation
    BY <1>4, <1>5, <1>6, <2>4
  <2>19. \A m \in Nodes : SameAgent(agent'[m], agent[m]) /\ poll'[m] \in {poll[m], Idle}
    BY <1>3 DEF SameAgent
  <2>20. NodesOk'  BY <1>3, <2>16, <2>17, <2>18, <2>19, NodesMove
  <2> QED  BY <2>9, <2>20 DEF OwnInv
<1> QED  BY <1>8, <1>11, <1>12
-----------------------------------------------------------------------------
(* The release of an address.                                               *)

(* A fence withdraws a backend without an execution and puts nobody in its  *)
(* place.                                                                   *)
LEMMA RetireMoves ==
    ASSUME NEW w, NEW u, NEW k, NEW l, NEW e, k = w.ledger, l = u.ledger,
           CouncilShape(k), LedgerOk(k), l = k \/ l = RetireExecution(k, e),
           u.confirmed = w.confirmed, u.standIns = w.standIns,
           NEW n \in k.consumers, NEW g \in Nat, g <= k.generation
    PROVE  Moves(w, u, n, g)
<1>1. PICK f : f = k.fenced \cup {e}  OBVIOUS
<1>2. PICK next : next = Withdrawn(f, k.catalog)  OBVIOUS
<1>3. l = RetireExecution(k, e) =>
      \/ l = k
      \/ /\ l.fenced = f /\ CanPublish(k, next) /\ next # k.catalog /\ Published(k, l, next)
      \/ /\ l.fenced = f /\ next = k.catalog
         /\ l.catalog = k.catalog /\ l.pending = k.pending
         /\ l.generation = k.generation /\ l.consumers = k.consumers
  BY <1>1, <1>2, RetireFacts
<1>4. CASE l.catalog = k.catalog /\ l.pending = k.pending
  BY <1>4, SameMoves
<1>5. CASE Published(k, l, next)
  <2>1. ASSUME NEW s \in DOMAIN k.catalog, Unknown \in k.catalog[s].backends
        PROVE  next[s].backends = {}
    <3>1. k.catalog[s].backends = {Unknown}  BY <2>1 DEF LedgerOk, Alone
    <3>2. next[s].backends = {b \in k.catalog[s].backends : ~Blocks(f, b)}
      BY <1>2, WithdrawnFacts
    <3>3. Blocks(f, Unknown)  BY <1>1 DEF Blocks
    <3> QED  BY <3>1, <3>2, <3>3
  <2>2. \A s \in DOMAIN k.catalog :
           Unknown \in k.catalog[s].backends /\ SameRoute(k.catalog, next, s)
              /\ next[s].backends # {} => next[s].backends \cap w.standIns # {}
    BY <2>1
  <2>3. /\ k.generation \in Nat /\ Below(DOMAIN k.pending, k.generation)
        /\ u.ledger.catalog = next /\ u.ledger.pending = PlannedPending(k, next)
    BY <1>5 DEF CouncilShape, LedgerOk, Published
  <2> QED  BY <2>2, <2>3, PublishMoves
<1> QED  BY <1>3, <1>4, <1>5

(* It keeps every release that was confirmed.                               *)
LEMMA RetireReleases ==
    ASSUME NEW k, NEW l, NEW e, CouncilShape(k), LedgerOk(k), l = k \/ l = RetireExecution(k, e)
    PROVE  /\ \A x : ReleaseConfirmed(k, x) => ReleaseConfirmed(l, x)
           /\ l.consumers = k.consumers /\ k.fenced \subseteq l.fenced /\ LedgerOk(l)
           /\ l.generation \in Nat
           /\ \/ l.generation = k.generation + 1
              \/ l.generation = k.generation /\ l.catalog = k.catalog
<1>1. PICK f : f = k.fenced \cup {e}  OBVIOUS
<1>2. PICK next : next = Withdrawn(f, k.catalog)  OBVIOUS
<1>3. l = RetireExecution(k, e) =>
      \/ l = k
      \/ /\ l.fenced = f /\ CanPublish(k, next) /\ next # k.catalog /\ Published(k, l, next)
      \/ /\ l.fenced = f /\ next = k.catalog
         /\ l.catalog = k.catalog /\ l.pending = k.pending
         /\ l.generation = k.generation /\ l.consumers = k.consumers
  BY <1>1, <1>2, RetireFacts
<1>4. k.fenced \subseteq l.fenced /\ LedgerOk(l)  BY RetiredOk
<1>5. CASE /\ l.catalog = k.catalog /\ l.pending = k.pending
           /\ l.generation = k.generation /\ l.consumers = k.consumers
  BY <1>4, <1>5 DEF ReleaseConfirmed, CouncilShape
<1>6. CASE Published(k, l, next)
  <2>1. l.pending = PlannedPending(k, next) /\ l.generation = k.generation + 1
        /\ l.consumers = k.consumers
    BY <1>6 DEF Published
  <2>2. \A x : ReleaseConfirmed(k, x) => ReleaseConfirmed(l, x)
    BY <1>4, <2>1, PublishReleases
  <2> QED  BY <1>4, <2>1, <2>2 DEF CouncilShape
<1> QED  BY <1>3, <1>5, <1>6

(* The newest publication is one of them.                                   *)
LEMMA LatestIsListed ==
    ASSUME NEW j, NEW S, j.publications \in Seq(S), j.publications # <<>>
    PROVE  \E i \in DOMAIN j.publications : j.publications[i] = Latest(j)
<1>1. PICK q : q = j.publications  OBVIOUS
<1>2. q \in Seq(S) /\ q # <<>>  BY <1>1
<1>3. Len(q) # 0  BY <1>2
<1>4. Len(q) \in DOMAIN q  BY <1>2, <1>3
<1> QED  BY <1>1, <1>4 DEF Latest

(* The producer asks for a release only when no view of its own names the   *)
(* execution (own_view_names): neither what is installed nor what a         *)
(* synchronisation is about to install.                                     *)
LEMMA OwnViewReleases ==
    ASSUME Base, OwnInv, Producer \in Nodes, NEW e, ~OwnViewNames(e)
    PROVE  OwnView(confirmed \cup {e}, agent[Producer], journal[Producer])
<1>1. PICK a : a = agent[Producer]  OBVIOUS
<1>2. PICK j : j = journal[Producer]  OBVIOUS
<1>3. PICK p : p = poll[Producer]  OBVIOUS
<1>4. PICK w : w = World  OBVIOUS
<1>5. Held(w, Producer, a, j, p) /\ w.confirmed = confirmed
  BY <1>1, <1>2, <1>3, <1>4, StateHeld
<1>6. Shows(a, j) /\ Heard(a, j) /\ OwnView(confirmed, a, j) /\ Informed(a, j, w.ledger)
      /\ AgentShape(a)
  BY <1>5 DEF Held, Fine
<1>7. j.phase # "Withdrawn" =>
         \A i \in DOMAIN j.publications : e \notin Backends(j.publications[i].effective)
  BY <1>2 DEF OwnViewNames
<1>8. a.sync.at \notin {"none", "activate", "compact"} =>
         e \notin Backends(a.sync.publication.effective)
  BY <1>1 DEF OwnViewNames
<1>9. e \notin Backends(a.view)
  <2>1. CASE DOMAIN a.view = {}  BY <2>1 DEF Backends
  <2>2. CASE DOMAIN a.view # {}
    <3>1. PICK i \in DOMAIN j.publications : Within(a.view, j.publications[i].effective)
      BY <1>6, <2>2 DEF Shows
    <3>2. j.phase # "Withdrawn"  BY <1>6, <2>2 DEF Shows
    <3>3. PICK x : x = j.publications[i].effective  OBVIOUS
    <3>4. PICK y : y = a.view  OBVIOUS
    <3>5. e \notin Backends(x) /\ Within(y, x)  BY <1>7, <3>1, <3>2, <3>3, <3>4
    <3>6. e \notin Backends(y)  BY <3>5 DEF Within, Backends
    <3> QED  BY <3>4, <3>6
  <2> QED  BY <2>1, <2>2
<1>10. a.sync # NoRequest => e \notin Backends(a.sync.publication.effective)
  <2> SUFFICES ASSUME a.sync # NoRequest
               PROVE  e \notin Backends(a.sync.publication.effective)
    OBVIOUS
  <2>1. a.sync.at # "none"  BY <1>6 DEF AgentShape, RequestShape
  <2>2. CASE a.sync.at \in {"activate", "compact"}
    <3>1. j.publications # <<>> /\ Latest(j) = a.sync.publication
      BY <1>6, <2>2 DEF Informed, Heard
    <3>2. j.phase # "Withdrawn"  BY <1>6, <2>2 DEF Shows
    <3>3. PICK S : j.publications \in Seq(S)  BY <1>6 DEF Informed, JournalHears
    <3>4. \E i \in DOMAIN j.publications : j.publications[i] = Latest(j)
      BY <3>1, <3>3, LatestIsListed
    <3> QED  BY <1>7, <3>1, <3>2, <3>4
  <2>3. CASE a.sync.at \notin {"activate", "compact"}
    BY <1>8, <2>1, <2>3
  <2> QED  BY <2>2, <2>3
<1> QED  BY <1>1, <1>2, <1>6, <1>9, <1>10 DEF OwnView

(* AskRelease fences the execution, and frees its address once the ledger   *)
(* owes nothing about it.                                                   *)
LEMMA AskReleaseOwn ==
    ASSUME Base, OwnInv, Inv', Steady', NEW e \in Executions, AskRelease(e)
    PROVE  OwnInv'
<1>1. PICK k : k = council  OBVIOUS
<1>2. PICK l : l = council'  OBVIOUS
<1>3. /\ execution[e] \in {"retiring", "stopped"} /\ ~OwnViewNames(e)
      /\ l = k \/ l = RetireExecution(k, e)
      /\ \/ /\ ReleaseConfirmed(l, e) /\ execution[e] = "stopped"
            /\ execution' = [execution EXCEPT ![e] = "released"]
            /\ confirmed' = confirmed \cup {e}
         \/ execution' = execution /\ confirmed' = confirmed
  BY <1>1, <1>2, Zenon DEF AskRelease
<1>4. /\ backup' = backup /\ report' = report /\ plan' = plan /\ poll' = poll
      /\ agent' = agent /\ journal' = journal /\ setting' = setting
  BY DEF AskRelease, leader, nodes
<1>5. CouncilShape(k) /\ LedgerOk(k) /\ k.generation \in Nat
  BY <1>1 DEF Base, Inv, Typed, OwnInv, CouncilOk, CouncilShape
<1>6. /\ \A x : ReleaseConfirmed(k, x) => ReleaseConfirmed(l, x)
      /\ l.consumers = k.consumers /\ k.fenced \subseteq l.fenced /\ LedgerOk(l)
      /\ l.generation \in Nat
      /\ \/ l.generation = k.generation + 1
         \/ l.generation = k.generation /\ l.catalog = k.catalog
  BY <1>3, <1>5, RetireReleases
<1>7. execution \in [Executions -> Lives] /\ Releases /\ OneOccupant /\ ReportOk /\ PlanOk
  BY DEF Base, Inv, Typed, OwnInv, CouncilOk
<1>8. Occupants' \subseteq Occupants
  BY <1>3, <1>7 DEF Occupants
<1>9. Occupants \subseteq Occupants' \cup l.fenced
  BY <1>3, <1>7 DEF Occupants, ReleaseConfirmed
<1>10. Releases'
  <2>1. \A x \in confirmed : ReleaseConfirmed(l, x) /\ x \in Executions /\ execution[x] = "released"
    BY <1>1, <1>6, <1>7 DEF Releases
  <2>2. \A x \in confirmed' : /\ ReleaseConfirmed(l, x) /\ x \in Executions
                              /\ execution'[x] = "released"
    BY <1>3, <1>7, <2>1
  <2> QED  BY <1>2, <2>2 DEF Releases
<1>11. OneOccupant'  BY <1>4, <1>7, <1>8 DEF OneOccupant
<1>12. ReportOk'
  <2>1. report.backends \subseteq Occupants' \cup l.fenced \cup {Unknown}
    BY <1>1, <1>6, <1>7, <1>9 DEF ReportOk
  <2> QED  BY <1>2, <1>4, <1>7, <2>1 DEF ReportOk
<1>13. PlanOk'
  <2>1. PICK o : o = Occupants  OBVIOUS
  <2>2. PICK q : q = Occupants'  OBVIOUS
  <2>3. o \subseteq q \cup l.fenced /\ k.fenced \subseteq l.fenced  BY <1>6, <1>9, <2>1, <2>2
  <2> SUFFICES ASSUME plan # NoPlan
               PROVE  /\ plan.generation <= l.generation /\ plan.generation \in Nat
                      /\ Vips(plan.catalog) \subseteq VIPs
                      /\ \A s \in DOMAIN plan.catalog :
                           /\ Alone(plan.catalog[s].backends)
                           /\ (/\ plan.generation = l.generation
                               /\ s \in DOMAIN l.catalog /\ Unknown \in l.catalog[s].backends
                               /\ plan.catalog[s].backends # {}) =>
                                  plan.catalog[s].backends \cap (q \cup l.fenced \cup {Unknown}) # {}
    BY <1>2, <1>4, <2>2 DEF PlanOk
  <2>4. /\ plan.generation <= k.generation /\ plan.generation \in Nat
        /\ Vips(plan.catalog) \subseteq VIPs
        /\ \A s \in DOMAIN plan.catalog :
             /\ Alone(plan.catalog[s].backends)
             /\ (/\ plan.generation = k.generation
                 /\ s \in DOMAIN k.catalog /\ Unknown \in k.catalog[s].backends
                 /\ plan.catalog[s].backends # {}) =>
                    plan.catalog[s].backends \cap (o \cup k.fenced \cup {Unknown}) # {}
    BY <1>1, <1>7, <2>1 DEF PlanOk
  <2>5. /\ plan.generation <= l.generation
        /\ plan.generation = l.generation => plan.generation = k.generation /\ l.catalog = k.catalog
    BY <1>5, <1>6, <2>4
  <2> QED  BY <2>3, <2>4, <2>5
<1>14. CouncilOk'
  <2>1. LedgerOk(council') /\ LedgerOk(backup')  BY <1>2, <1>4, <1>6 DEF OwnInv, CouncilOk
  <2> QED  BY <1>10, <1>11, <1>12, <1>13, <2>1 DEF CouncilOk
<1>15. PICK w : w = World  OBVIOUS
<1>16. PICK v : v = World'  OBVIOUS
<1>17. PICK u : u = [ledger |-> l, confirmed |-> confirmed, standIns |-> Occupants \cup {Unknown}]
  OBVIOUS
<1>18. /\ w.ledger = k /\ w.confirmed = confirmed /\ w.standIns = Occupants \cup {Unknown}
       /\ v.ledger = l /\ v.confirmed = confirmed' /\ v.standIns = Occupants' \cup {Unknown}
       /\ u.ledger = l /\ u.confirmed = confirmed /\ u.standIns = Occupants \cup {Unknown}
  BY <1>1, <1>2, <1>15, <1>16, <1>17 DEF World
<1>19. ASSUME NEW m \in k.consumers, NEW g \in Nat, g <= k.generation
       PROVE  Moves(w, u, m, g)
  BY <1>3, <1>5, <1>18, <1>19, RetireMoves
<1>20. ASSUME NEW m, NEW g PROVE Moves(u, v, m, g)
  <2>1. CASE /\ ReleaseConfirmed(l, e) /\ execution[e] = "stopped"
             /\ execution' = [execution EXCEPT ![e] = "released"]
             /\ confirmed' = confirmed \cup {e}
    <3>1. e \in Occupants  BY <2>1 DEF Occupants
    <3>2. u.standIns \subseteq {e, Unknown}  BY <1>7, <1>18, <3>1 DEF OneOccupant
    <3>3. v.standIns \subseteq u.standIns  BY <1>8, <1>18
    <3>4. LedgerOk(u.ledger) /\ ReleaseConfirmed(u.ledger, e)  BY <1>6, <1>18, <2>1
    <3> QED  BY <1>18, <3>2, <3>3, <3>4, ReleaseMoves
  <2>2. CASE execution' = execution /\ confirmed' = confirmed
    <3>1. Occupants' = Occupants  BY <2>2 DEF Occupants
    <3> QED  BY <1>18, <2>2, <3>1, SameMoves
  <2> QED  BY <1>3, <2>1, <2>2
<1>21. \A m \in Nodes \cap council'.consumers : \A g \in Nat :
          g <= council.generation => Moves(World, World', m, g)
  BY <1>1, <1>2, <1>6, <1>15, <1>16, <1>19, <1>20 DEF Moves
<1>22. \A m \in Nodes : m = Producer => OwnView(confirmed', agent[m], journal[m])
  <2>1. CASE confirmed' = confirmed \cup {e}
    BY <1>3, <2>1, OwnViewReleases
  <2>2. CASE confirmed' = confirmed
    BY <2>2 DEF OwnInv, NodesOk, Fine, World
  <2> QED  BY <1>3, <2>1, <2>2
<1>23. council.generation <= council'.generation  BY <1>1, <1>2, <1>5, <1>6
<1>24. \A m \in Nodes : SameAgent(agent'[m], agent[m]) /\ poll'[m] \in {poll[m], Idle}
  BY <1>4 DEF SameAgent
<1>25. NodesOk'  BY <1>4, <1>21, <1>22, <1>23, <1>24, NodesMove
<1> QED  BY <1>14, <1>25 DEF OwnInv
-----------------------------------------------------------------------------
(* The invariant.                                                           *)

(* Recover: every lease has ended, so a node depends on nothing the         *)
(* restored ledger has forgotten.                                           *)
LEMMA RecoverOwn ==
    ASSUME Base, OwnInv, Inv', Steady', Recover
    PROVE  OwnInv'
<1>1. /\ council' = EnterRecoveryEpoch(backup, council.epoch) /\ report' = NoReport
      /\ plan' = NoPlan /\ confirmed' = {} /\ backup' = backup /\ execution' = execution
      /\ setting' = setting /\ \A n \in Nodes : Outlived(n)
      /\ poll' = poll /\ agent' = agent /\ journal' = journal
  BY DEF Recover, nodes
<1>2. PICK k : k = backup  OBVIOUS
<1>3. PICK l : l = council'  OBVIOUS
<1>4. CouncilShape(k) /\ LedgerOk(k) /\ k.generation \in Nat
  BY <1>2 DEF Base, Inv, Typed, OwnInv, CouncilOk, CouncilShape
<1>5. l.generation \in Nat  BY <1>3 DEF Inv, Typed, CouncilShape
<1>6. /\ l.catalog = k.catalog /\ l.pending = k.pending /\ l.fenced = k.fenced
      /\ k.generation <= l.generation
  <2> DEFINE x == (IF k.epoch > council.epoch THEN k.epoch ELSE council.epoch) + 1
             y == EpochFloor(x)
             g == IF k.generation > y THEN k.generation ELSE y
  <2>1. l = [k EXCEPT !.epoch = x, !.generation = g]
    BY <1>1, <1>2, <1>3, Zenon DEF EnterRecoveryEpoch
  <2> HIDE DEF x
  <2>2. l.generation = g  BY <1>4, <2>1 DEF CouncilShape, CouncilFields
  <2>3. k.generation <= g
    <3> HIDE DEF y
    <3>1. CASE k.generation > y  BY <1>4, <3>1
    <3>2. CASE ~(k.generation > y)
      <4>1. y \in Nat  BY <1>5, <2>2, <3>2
      <4> QED  BY <1>4, <3>2, <4>1
    <3> QED  BY <3>1, <3>2
  <2> HIDE DEF g
  <2> QED  BY <1>4, <2>1, <2>2, <2>3 DEF CouncilShape, CouncilFields
<1>7. LedgerOk(l)
  <2>1. \A s \in DOMAIN k.catalog : \A b \in k.catalog[s].backends : ~Blocks(l.fenced, b)
    BY <1>4, <1>6 DEF LedgerOk
  <2> QED  BY <1>4, <1>5, <1>6, <2>1, SameOk
<1>8. Occupants' = Occupants  BY <1>1 DEF Occupants
<1>9. CouncilOk'
  <2>1. Releases'  BY <1>1 DEF Releases
  <2>2. OneOccupant'  BY <1>1, <1>8 DEF OwnInv, CouncilOk, OneOccupant
  <2>3. ReportOk' /\ PlanOk'  BY <1>1 DEF ReportOk, PlanOk, NoReport, Alone
  <2>4. LedgerOk(council') /\ LedgerOk(backup')  BY <1>1, <1>2, <1>3, <1>4, <1>7
  <2> QED  BY <2>1, <2>2, <2>3, <2>4 DEF CouncilOk
<1>10. ASSUME NEW m \in Nodes PROVE Fine(World', m, agent'[m], journal'[m], poll'[m])
  <2>1. PICK a : a = agent[m]  OBVIOUS
  <2>2. PICK j : j = journal[m]  OBVIOUS
  <2>3. PICK p : p = poll[m]  OBVIOUS
  <2>4. PICK w : w = World  OBVIOUS
  <2>5. PICK v : v = World'  OBVIOUS
  <2>6. Held(w, m, a, j, p)  BY <2>1, <2>2, <2>3, <2>4, StateHeld
  <2>7. Fine(w, m, a, j, p) /\ AgentShape(a)  BY <2>6 DEF Held
  <2>8. \A x \in Claims(a) : x = Lease
    <3>1. Outlived(m)  BY <1>1
    <3>2. Age(a.waiting) = Lease /\ Age(a.sync) = Lease  BY <2>1, <3>1 DEF Outlived, Age
    <3>3. Lease - a.lease = Lease  BY <2>1, <3>1, WithdrawalAssumption DEF Outlived
    <3> QED  BY <3>2, <3>3 DEF Claims
  <2>9. SoundNode(v, m, a, j)  BY <2>7, <2>8, QuietSound
  <2>10. v.confirmed = {}  BY <1>1, <2>5 DEF World
  <2>11. m = Producer => OwnView(v.confirmed, a, j)  BY <2>7, <2>10 DEF Fine, OwnView
  <2>12. Fine(v, m, a, j, p)  BY <2>7, <2>9, <2>11 DEF Fine
  <2> QED  BY <1>1, <2>1, <2>2, <2>3, <2>5, <2>12
<1>11. NodesOk'  BY <1>10 DEF NodesOk
<1> QED  BY <1>9, <1>11 DEF OwnInv

(* At first one execution holds the address and nobody routes.              *)
LEMMA InitOwn == Init => OwnInv
<1> SUFFICES ASSUME Init PROVE OwnInv  OBVIOUS
<1>1. /\ setting \in Settings /\ backup = council /\ plan = NoPlan /\ confirmed = {}
      /\ report = [known |-> TRUE, backends |-> setting.listed]
      /\ poll = [n \in Nodes |-> Idle] /\ agent = [n \in Nodes |-> EmptyAgent]
      /\ journal = [n \in Nodes |-> EmptyJournal]
  BY DEF Init
<1>2. /\ setting.first \in Executions
      /\ setting.listed \in {{}, {setting.first}, {Unknown}}
      /\ setting.first \in setting.executions \/ setting.executions = {}
  BY <1>1, WithdrawalAssumption DEF Setting
<1>3. Occupants = {setting.first}
  <2>1. execution = [e \in Executions |-> IF e = setting.first THEN "running" ELSE "new"]
    BY DEF Init
  <2> QED  BY <1>2, <2>1 DEF Occupants
<1>4. Alone(setting.listed)  BY <1>2 DEF Alone
<1>5. DOMAIN NoServices = {}  BY DEF NoServices
<1>6. LedgerOk(council)
  <2>1. PICK f \in Allocations(NoServices, {}, setting.declared) :
           council = [EmptyCouncil EXCEPT !.generation = 1,
                       !.catalog = [s \in setting.declared |->
                                       [vip |-> f[s], backends |-> setting.listed]]]
    BY DEF Init
  <2>2. PICK c : c = [s \in setting.declared |-> [vip |-> f[s], backends |-> setting.listed]]
    OBVIOUS
  <2>3. PICK k : k = council  OBVIOUS
  <2>4. k.generation = 1 /\ k.catalog = c /\ k.pending = NoServices /\ k.fenced = {}
    BY <2>1, <2>2, <2>3 DEF EmptyCouncil
  <2>5. /\ f \in [setting.declared -> VIPs]
        /\ \A s, t \in setting.declared : s # t => f[s] # f[t]
    BY <2>1 DEF Allocations
  <2>6. /\ DOMAIN c = setting.declared
        /\ \A s \in setting.declared : c[s].vip = f[s] /\ c[s].backends = setting.listed
    BY <2>2
  <2>7. DOMAIN k.pending = {}  BY <1>5, <2>4
  <2>8. Below(DOMAIN k.pending, k.generation) /\ ReservedVips(k) = {}
    BY <2>7 DEF Below, ReservedVips
  <2>9. Vips(k.catalog) \subseteq VIPs  BY <2>4, <2>5, <2>6 DEF Vips
  <2>10. \A s \in DOMAIN k.catalog : /\ Alone(k.catalog[s].backends)
                                     /\ \A b \in k.catalog[s].backends : ~Blocks(k.fenced, b)
    BY <1>4, <2>4, <2>6 DEF Blocks
  <2>11. \A s, t \in DOMAIN k.catalog : k.catalog[s].vip = k.catalog[t].vip => s = t
    BY <2>4, <2>5, <2>6
  <2>12. LedgerOk(k)  BY <2>8, <2>9, <2>10, <2>11 DEF LedgerOk
  <2> QED  BY <2>3, <2>12
<1>7. ReportOk  BY <1>1, <1>2, <1>3, <1>4 DEF ReportOk
<1>8. CouncilOk
  BY <1>1, <1>2, <1>3, <1>6, <1>7 DEF CouncilOk, Releases, OneOccupant, PlanOk
<1>9. ASSUME NEW n \in Nodes, NEW w PROVE Fine(w, n, EmptyAgent, EmptyJournal, Idle)
  <2>1. PICK a : a = EmptyAgent  OBVIOUS
  <2>2. PICK j : j = EmptyJournal  OBVIOUS
  <2>3. /\ a.up /\ a.lease = 0 /\ a.waiting = NoRequest /\ a.sync = NoRequest
        /\ a.view = NoServices /\ j.publications = <<>> /\ j.phase = "Withdrawn"
        /\ j.receipts = NoServices
    BY <2>1, <2>2 DEF EmptyAgent, EmptyJournal
  <2>4. DOMAIN a.view = {} /\ DOMAIN j.receipts = {} /\ DOMAIN j.publications = {}
        /\ a.sync.at = "none"
    BY <1>5, <2>3 DEF NoRequest
  <2>5. Ordered(a, Idle)  BY <2>3 DEF Ordered, Real
  <2>6. Heard(a, j)  BY <2>3, <2>4 DEF Heard
  <2>7. Shows(a, j)  BY <2>3, <2>4 DEF Shows
  <2>8. SoundNode(w, n, a, j)  BY <2>3 DEF SoundNode, SoundView, Counts
  <2>9. OwnView(w.confirmed, a, j)  BY <2>3, <2>4 DEF OwnView, Backends
  <2> QED  BY <2>1, <2>2, <2>5, <2>6, <2>7, <2>8, <2>9 DEF Fine
<1>10. NodesOk  BY <1>1, <1>9 DEF NodesOk
<1> QED  BY <1>8, <1>10 DEF OwnInv

(* Every step keeps the invariant, a re-election excepted.                  *)
LEMMA NextOwn ==
    ASSUME Base, OwnInv, Inv', Steady', [Next]_vars
    PROVE  OwnInv'
<1>1. ASSUME NEW e \in Executions, Start(e) \/ Retire(e) \/ Stop(e) \/ AskRelease(e)
      PROVE  OwnInv'
  BY <1>1, WorkOwn, AskReleaseOwn
<1>2. ASSUME NEW s \in Services, Declare(s) PROVE OwnInv'
  BY <1>2, LeaderQuietOwn
<1>3. CASE LeaderStep
  <2>1. ~Reelect
    <3>1. faults \in [Kinds -> Nat] /\ faults' \in [Kinds -> Nat]
      BY DEF Base, Inv, Typed
    <3>2. Count("reelections") => faults'["reelections"] = faults["reelections"] + 1
      BY <3>1 DEF Count, Kinds
    <3> QED  BY <3>1, <3>2 DEF Reelect, Steady, Base, Kinds
  <2> QED
    BY <1>3, <2>1, ReportOwn, BuildOwn, PublishOwn, LeaderQuietOwn, DischargeOwn, RecoverOwn
    DEF LeaderStep
<1>4. ASSUME NEW n \in Nodes, Poll(n) \/ Answer(n) \/ AgentStep(n) PROVE OwnInv'
  BY <1>4, PollOwn, AnswerOwn, SyncStepOwn, AgentQuietOwn, DeliverReceiptOwn DEF AgentStep
<1>5. CASE Tick  BY <1>5, TickOwn
<1>6. CASE UNCHANGED vars
  <2>1. /\ council' = council /\ execution' = execution /\ confirmed' = confirmed
        /\ setting' = setting /\ agent' = agent /\ journal' = journal /\ poll' = poll
        /\ backup' = backup /\ report' = report /\ plan' = plan
    BY <1>6 DEF vars, leader, nodes, workload
  <2>2. Occupants' = Occupants  BY <2>1 DEF Occupants
  <2>3. LedgerOk(backup') /\ ReportOk' /\ PlanOk'
    BY <2>1, <2>2 DEF OwnInv, CouncilOk, ReportOk, PlanOk
  <2> QED  BY <2>1, <2>3, QuietOwn
<1> QED  BY <1>1, <1>2, <1>3, <1>4, <1>5, <1>6 DEF Next
-----------------------------------------------------------------------------
(* The refinement.                                                          *)

(* No node routes by a claim that has ended: what the ledger gives away is  *)
(* neither in the committed catalogue nor owed by anybody.                  *)
Safe == \A n \in Nodes : Uses(n) \cap Ended = {}

(* What a node routes by.                                                   *)
Routes(n, view, lease) ==
    {<<"backend", b>> : b \in IF n = Producer \/ lease > 0 THEN Backends(view) ELSE {}}
        \cup {<<"name", view[s].vip, s>> : s \in IF lease > 0 THEN DOMAIN view ELSE {}}

(* Its backends under a lease, or at the producer, and its names under one. *)
LEMMA RoutesFacts ==
    ASSUME NEW n, NEW view, NEW lease, NEW x
    PROVE  x \in Routes(n, view, lease) <=>
             \/ \E b \in Backends(view) : x = <<"backend", b>> /\ (n = Producer \/ lease > 0)
             \/ \E s \in DOMAIN view : x = <<"name", view[s].vip, s>> /\ lease > 0
BY DEF Routes

(* What has ended.                                                          *)
Over(released, catalog) ==
    {<<"backend", b>> : b \in released \cup {u \in {Unknown} : released # {}}}
        \cup {<<"name", catalog[st[2]].vip, st[1]>> :
                 st \in {p \in Services \X DOMAIN catalog : p[1] # p[2]}}

(* The released executions, whoever may be one, and the names whose address *)
(* belongs to another service.                                              *)
LEMMA OverFacts ==
    ASSUME NEW released, NEW catalog, NEW x
    PROVE  x \in Over(released, catalog) <=>
             \/ \E b : x = <<"backend", b>> /\ (b \in released \/ (b = Unknown /\ released # {}))
             \/ \E s \in Services, t \in DOMAIN catalog :
                   s # t /\ x = <<"name", catalog[t].vip, s>>
<1>1. x \in Over(released, catalog) <=>
         \/ x \in {<<"backend", b>> : b \in released \cup {u \in {Unknown} : released # {}}}
         \/ x \in {<<"name", catalog[st[2]].vip, st[1]>> :
                      st \in {p \in Services \X DOMAIN catalog : p[1] # p[2]}}
  BY DEF Over
<1>2. x \in {<<"backend", b>> : b \in released \cup {u \in {Unknown} : released # {}}} <=>
         \E b : x = <<"backend", b>> /\ (b \in released \/ (b = Unknown /\ released # {}))
  OBVIOUS
<1>3. x \in {<<"name", catalog[st[2]].vip, st[1]>> :
                st \in {p \in Services \X DOMAIN catalog : p[1] # p[2]}} <=>
         \E s \in Services, t \in DOMAIN catalog : s # t /\ x = <<"name", catalog[t].vip, s>>
  <2>1. ASSUME NEW s \in Services, NEW t \in DOMAIN catalog, s # t,
               x = <<"name", catalog[t].vip, s>>
        PROVE  \E st \in {p \in Services \X DOMAIN catalog : p[1] # p[2]} :
                  x = <<"name", catalog[st[2]].vip, st[1]>>
    <3>1. PICK p : p = <<s, t>>  OBVIOUS
    <3>2. p \in Services \X DOMAIN catalog /\ p[1] = s /\ p[2] = t  BY <3>1
    <3> QED  BY <2>1, <3>2
  <2>2. ASSUME NEW p \in Services \X DOMAIN catalog, p[1] # p[2],
               x = <<"name", catalog[p[2]].vip, p[1]>>
        PROVE  \E s \in Services, t \in DOMAIN catalog :
                  s # t /\ x = <<"name", catalog[t].vip, s>>
    <3>1. p[1] \in Services /\ p[2] \in DOMAIN catalog  OBVIOUS
    <3> QED  BY <2>2, <3>1
  <2> QED  BY <2>1, <2>2
<1> QED  BY <1>1, <1>2, <1>3

(* The two in the state of the cluster.                                     *)
LEMMA RoutesAndOver ==
    /\ \A n \in Nodes : Uses(n) = Routes(n, agent[n].view, agent[n].lease)
    /\ \A n \in Nodes : Uses(n)' = Routes(n, agent'[n].view, agent'[n].lease)
    /\ Ended = Over(confirmed, council.catalog)
    /\ Ended' = Over(confirmed', council'.catalog)
<1>1. \A n \in Nodes : Uses(n) = Routes(n, agent[n].view, agent[n].lease)
  BY DEF Uses, Routes
<1>2. \A n \in Nodes : Uses(n)' = Routes(n, agent'[n].view, agent'[n].lease)
  BY DEF Uses, Routes
<1>3. Ended = Over(confirmed, council.catalog) /\ Ended' = Over(confirmed', council'.catalog)
  BY DEF Ended, Over
<1> QED  BY <1>1, <1>2, <1>3

(* The invariant keeps every node away from what has ended.                 *)
LEMMA OwnedIsSafe ==
    ASSUME Base, OwnInv
    PROVE  Safe
<1> SUFFICES ASSUME NEW n \in Nodes, NEW x, x \in Uses(n), x \in Ended PROVE FALSE
  BY DEF Safe
<1>1. PICK a : a = agent[n]  OBVIOUS
<1>2. PICK j : j = journal[n]  OBVIOUS
<1>3. PICK w : w = World  OBVIOUS
<1>4. PICK k : k = council  OBVIOUS
<1>5. w.ledger = k /\ w.confirmed = confirmed  BY <1>3, <1>4 DEF World
<1>6. SoundNode(w, n, a, j) /\ (n = Producer => OwnView(confirmed, a, j))
  BY <1>1, <1>2, <1>3, <1>5 DEF OwnInv, NodesOk, Fine
<1>7. LedgerOk(k) /\ \A e \in confirmed : e \in Executions /\ ReleaseConfirmed(k, e)
  BY <1>4 DEF OwnInv, CouncilOk, Releases
<1>8. a.lease > 0 => \E g \in Nat : Sound(w, n, g, a.view)
  BY <1>6 DEF SoundNode, SoundView
<1>9. ASSUME NEW b \in Backends(a.view), n = Producer \/ a.lease > 0,
             b \in confirmed \/ (b = Unknown /\ confirmed # {})
      PROVE  FALSE
  <2>1. CASE n = Producer  BY <1>6, <1>9, <2>1 DEF OwnView
  <2>2. CASE a.lease > 0
    <3>1. PICK g \in Nat : Sound(w, n, g, a.view)  BY <1>8, <2>2
    <3>2. PICK s \in DOMAIN a.view : b \in a.view[s].backends  BY <1>9 DEF Backends
    <3>3. b # Unknown  BY <1>5, <1>9, <3>1, <3>2 DEF Sound
    <3>4. ReleaseConfirmed(k, b)  BY <1>7, <1>9, <3>3
    <3>5. BackendCovered(k, n, g, a.view, s, {b})
      BY <1>5, <3>1, <3>2, <3>3 DEF Sound, Means
    <3>6. \A t \in DOMAIN k.catalog : b \notin k.catalog[t].backends
      BY <1>7, <3>4 DEF LedgerOk, ReleaseConfirmed, Blocks
    <3> QED  BY <3>4, <3>5, <3>6 DEF BackendCovered, Kept, Owes, ReleaseConfirmed
  <2> QED  BY <1>9, <2>1, <2>2
<1>10. ASSUME NEW s \in DOMAIN a.view, a.lease > 0, NEW t \in DOMAIN k.catalog, s # t,
              k.catalog[t].vip = a.view[s].vip
       PROVE  FALSE
  <2>1. PICK g \in Nat : Sound(w, n, g, a.view)  BY <1>8, <1>10
  <2>2. RouteCovered(k, n, g, a.view, s)  BY <1>5, <2>1 DEF Sound
  <2>3. ~Kept(k, a.view, s)  BY <1>7, <1>10 DEF Kept, LedgerOk
  <2>4. PICK h \in DOMAIN k.pending :
           /\ s \in DOMAIN k.pending[h].services
           /\ k.pending[h].services[s].retireVip
           /\ k.pending[h].services[s].vip = a.view[s].vip
    BY <2>2, <2>3 DEF RouteCovered, Owes
  <2>5. k.catalog[t].vip \in Vips(k.catalog)  BY DEF Vips
  <2>6. k.catalog[t].vip \in ReservedVips(k)
    <3>1. k.catalog[t].vip \in VIPs  BY <1>7, <2>5 DEF LedgerOk
    <3>2. \E removed \in {k.pending[h].services[r] : r \in DOMAIN k.pending[h].services} :
             removed.retireVip /\ removed.vip = k.catalog[t].vip
      BY <1>10, <2>4
    <3> QED  BY <3>1, <3>2 DEF ReservedVips
  <2> QED  BY <1>7, <2>5, <2>6 DEF LedgerOk
<1>11. \/ \E b \in Backends(a.view) : x = <<"backend", b>> /\ (n = Producer \/ a.lease > 0)
       \/ \E s \in DOMAIN a.view : x = <<"name", a.view[s].vip, s>> /\ a.lease > 0
  BY <1>1, RoutesAndOver, RoutesFacts
<1>12. \/ \E b : x = <<"backend", b>> /\ (b \in confirmed \/ (b = Unknown /\ confirmed # {}))
       \/ \E s \in Services, t \in DOMAIN k.catalog :
             s # t /\ x = <<"name", k.catalog[t].vip, s>>
  BY <1>4, RoutesAndOver, OverFacts
<1>13. CASE \E b \in Backends(a.view) : x = <<"backend", b>> /\ (n = Producer \/ a.lease > 0)
  <2>1. PICK b \in Backends(a.view) : x = <<"backend", b>> /\ (n = Producer \/ a.lease > 0)
    BY <1>13
  <2>2. b \in confirmed \/ (b = Unknown /\ confirmed # {})  BY <1>12, <2>1
  <2> QED  BY <1>9, <2>1, <2>2
<1>14. CASE \E s \in DOMAIN a.view : x = <<"name", a.view[s].vip, s>> /\ a.lease > 0
  <2>1. PICK s \in DOMAIN a.view : x = <<"name", a.view[s].vip, s>> /\ a.lease > 0
    BY <1>14
  <2>2. PICK t \in DOMAIN k.catalog : s # t /\ k.catalog[t].vip = a.view[s].vip
    BY <1>12, <2>1
  <2> QED  BY <1>10, <2>1, <2>2
<1> QED  BY <1>11, <1>13, <1>14
(* Node m routes as before.                                                 *)
SameRoutes(m) == agent'[m].view = agent[m].view /\ agent'[m].lease = agent[m].lease

(* A node's own steps change its own routes only, and publish and release   *)
(* nothing.                                                                 *)
LEMMA NodeRoutes ==
    ASSUME Inv, NEW n \in Nodes, Poll(n) \/ Answer(n) \/ AgentStep(n)
    PROVE  /\ council'.catalog = council.catalog /\ confirmed' = confirmed
           /\ \A m \in Nodes \ {n} : SameRoutes(m)
<1>1. DOMAIN agent = Nodes /\ CouncilShape(council)  BY DEF Inv, Typed
<1>2. ASSUME NEW b, agent' = [agent EXCEPT ![n] = b] \/ agent' = agent
      PROVE  \A m \in Nodes \ {n} : SameRoutes(m)
  BY <1>1, <1>2 DEF SameRoutes
<1>3. ASSUME NEW b, NEW i, Sync(n, b, i)
      PROVE  /\ council'.catalog = council.catalog /\ confirmed' = confirmed
             /\ \A m \in Nodes \ {n} : SameRoutes(m)
  BY <1>2, <1>3 DEF Sync, workload
<1>4. CASE SyncStep(n)
  <2>1. StartSync(n) => \E b, i : Sync(n, b, i)  BY Zenon DEF StartSync
  <2>2. JournalAnswer(n) => \E b, i : Sync(n, b, i)  BY DEF JournalAnswer
  <2>3. WithdrawView(n) => \E b, i : Sync(n, b, i)  BY Zenon DEF WithdrawView
  <2>4. ProveReceipts(n) => \E b, i : Sync(n, b, i)  BY Zenon DEF ProveReceipts
  <2>5. PublishView(n) => \E b, i : Sync(n, b, i)  BY Zenon DEF PublishView
  <2>6. InstallView(n) => \E b, i : Sync(n, b, i)  BY Zenon DEF InstallView
  <2>7. Activate(n) => \E b, i : Sync(n, b, i)  BY Zenon DEF Activate
  <2>8. Compact(n) => \E b, i : Sync(n, b, i)  BY Zenon DEF Compact
  <2> QED  BY <1>3, <1>4, <2>1, <2>2, <2>3, <2>4, <2>5, <2>6, <2>7, <2>8 DEF SyncStep
<1>5. CASE Refresh(n) \/ FenceLapsedView(n) \/ BeginRestart(n) \/ FinishRestart(n)
  <2>1. Refresh(n) => \E b, i : Sync(n, b, i)  BY Zenon DEF Refresh
  <2>2. FenceLapsedView(n) => \E b, i : Sync(n, b, i)  BY Zenon DEF FenceLapsedView
  <2>3. BeginRestart(n) => \E b, i : Sync(n, b, i)  BY Zenon DEF BeginRestart
  <2>4. FinishRestart(n) => \E b, i : Sync(n, b, i)  BY Zenon DEF FinishRestart
  <2> QED  BY <1>3, <1>5, <2>1, <2>2, <2>3, <2>4
<1>6. CASE Crash(n)
  <2>1. council' = council /\ confirmed' = confirmed  BY <1>6 DEF Crash, workload
  <2>2. \E b : agent' = [agent EXCEPT ![n] = b]  BY <1>1, <1>6 DEF Crash
  <2> QED  BY <1>2, <2>1, <2>2
<1>7. ASSUME NEW g, DeliverReceipt(n, g)
      PROVE  /\ council'.catalog = council.catalog /\ confirmed' = confirmed
             /\ \A m \in Nodes \ {n} : SameRoutes(m)
  <2>1. /\ council' = AcknowledgeWithdrawal(council, n, g) /\ agent' = agent
        /\ confirmed' = confirmed
    BY <1>7 DEF DeliverReceipt, workload
  <2>2. PICK q : q = Receipted(council.pending, {g}, n)  OBVIOUS
  <2>3. council' = council \/ council' = [council EXCEPT !.pending = q]
    BY <2>1, <2>2 DEF AcknowledgeWithdrawal
  <2>4. council'.catalog = council.catalog
    BY <1>1, <2>3 DEF CouncilShape, CouncilFields
  <2> QED  BY <1>2, <2>1, <2>4
<1>8. CASE Poll(n)
  BY <1>2, <1>8 DEF Poll, workload
<1>9. CASE Answer(n)
  <2>1. council' = RegisterConsumer(council, n) /\ confirmed' = confirmed
    BY <1>9, Zenon DEF Answer, workload
  <2>2. council'.catalog = council.catalog
    BY <1>1, <2>1 DEF RegisterConsumer, CouncilShape, CouncilFields
  <2>3. \E b : agent' = [agent EXCEPT ![n] = b] \/ agent' = agent
    BY <1>9, Zenon DEF Answer
  <2> QED  BY <1>2, <2>1, <2>2, <2>3
<1> QED  BY <1>4, <1>5, <1>6, <1>7, <1>8, <1>9 DEF AgentStep

(* The steps of the workload and of the leader change no route; only a      *)
(* restore forgets a release.                                               *)
LEMMA LeaderRoutes ==
    ASSUME Inv,
           \/ \E e \in Executions : Start(e) \/ Retire(e) \/ Stop(e) \/ AskRelease(e)
           \/ \E s \in Services : Declare(s)
           \/ LeaderStep \/ UNCHANGED vars
    PROVE  /\ \A m \in Nodes : SameRoutes(m)
           /\ confirmed \subseteq confirmed' \/ confirmed' = {}
<1>1. PICK x : x = (Producer \in setting.consumers)  OBVIOUS
<1>2. CASE \E e \in Executions : Start(e) \/ Retire(e) \/ Stop(e) \/ AskRelease(e)
  <2>1. agent' = [agent EXCEPT ![Producer].stale = x] \/ agent' = agent
    BY <1>1, <1>2 DEF Start, Retire, Stop, AskRelease, nodes
  <2>2. \A m \in Nodes : SameAgent(agent'[m], agent[m])  BY <2>1, StaleIsSame
  <2>3. confirmed \subseteq confirmed'
    BY <1>2 DEF Start, Retire, Stop, AskRelease
  <2> QED  BY <2>2, <2>3 DEF SameRoutes, SameAgent
<1>3. CASE (\E s \in Services : Declare(s)) \/ LeaderStep \/ UNCHANGED vars
  <2>1. agent' = agent /\ (confirmed' = confirmed \/ confirmed' = {})
    BY <1>3 DEF LeaderStep, Declare, Report, BuildCatalog, Publish, DecideDischarges,
         WriteDischarge, CommitLate, SettleDischarges, Elect, Reelect, Backup, Recover, nodes,
         workload, vars
  <2> QED  BY <2>1 DEF SameRoutes
<1> QED  BY <1>2, <1>3

(* At first nobody routes and nothing has been released.                    *)
LEMMA InitOwnership == Init => Ownership!Init
<1> SUFFICES ASSUME Init PROVE Ownership!Init  OBVIOUS
<1>1. agent = [n \in Nodes |-> EmptyAgent] /\ confirmed = {}  BY DEF Init
<1>2. EmptyAgent.view = NoServices /\ EmptyAgent.lease = 0 /\ DOMAIN NoServices = {}
  BY DEF EmptyAgent, NoServices
<1>3. ASSUME NEW n \in Nodes PROVE Uses(n) = {}
  <2>1. agent[n].view = NoServices /\ agent[n].lease = 0  BY <1>1, <1>2
  <2>2. Backends(NoServices) = {}  BY <1>2 DEF Backends
  <2>3. \A x : x \notin Routes(n, NoServices, 0)  BY <1>2, <2>2, RoutesFacts
  <2>4. Uses(n) = Routes(n, NoServices, 0)  BY <2>1, RoutesAndOver
  <2> QED  BY <2>3, <2>4
<1>4. Ended \cap {<<"backend", b>> : b \in Backend} = {}
  BY <1>1, RoutesAndOver, OverFacts
<1>5. [n \in Nodes |-> Uses(n)] = [n \in Nodes |-> {}]  BY <1>3
<1> QED  BY <1>4, <1>5 DEF Ownership!Init

(* Every step of the cluster is a step of AddressOwnership: a node's own    *)
(* step is Use, time is Lapse, a restore is Recover, and every other step   *)
(* of the leader and the workload is Reassign.                              *)
LEMMA NextOwnership ==
    ASSUME Inv, Safe', [Next]_vars
    PROVE  [Ownership!Next]_(Ownership!vars)
<1>1. \A n \in Nodes : Uses(n)' \cap Ended' = {}  BY DEF Safe
<1>2. \A m \in Nodes : SameRoutes(m) => Uses(m)' = Uses(m)
  BY RoutesAndOver DEF SameRoutes
<1>3. council'.catalog = council.catalog /\ confirmed' = confirmed => Ended' = Ended
  BY RoutesAndOver
<1>4. ASSUME NEW n \in Nodes, Poll(n) \/ Answer(n) \/ AgentStep(n)
      PROVE  Ownership!Use(n)
  <2>1. Ended' = Ended /\ \A m \in Nodes \ {n} : Uses(m)' = Uses(m)
    BY <1>2, <1>3, <1>4, NodeRoutes
  <2>2. [m \in Nodes |-> Uses(m)'] = [[m \in Nodes |-> Uses(m)] EXCEPT ![n] = Uses(n)']
    BY <2>1
  <2> QED  BY <1>1, <2>1, <2>2 DEF Ownership!Use
<1>5. CASE Tick
  <2>1. council' = council /\ confirmed' = confirmed  BY <1>5 DEF Tick, workload
  <2>2. ASSUME NEW m \in Nodes
        PROVE  agent'[m].view = agent[m].view /\ (agent'[m].lease > 0 => agent[m].lease > 0)
    <3>1. PICK a : a = agent[m]  OBVIOUS
    <3>2. PICK l : l = Greatest(a.lease - 1, 0)  OBVIOUS
    <3>3. PICK x : x = Aged(a.waiting)  OBVIOUS
    <3>4. PICK y : y = Aged(a.sync)  OBVIOUS
    <3>5. agent'[m] = [a EXCEPT !.lease = l, !.waiting = x, !.sync = y]
      BY <1>5, <3>1, <3>2, <3>3, <3>4 DEF Tick
    <3>6. AgentShape(a)  BY <3>1 DEF Inv, Typed, NodeShape
    <3>7. agent'[m].view = a.view /\ agent'[m].lease = l
      BY <3>5, <3>6 DEF AgentShape, AgentFields
    <3>8. a.lease \in Int  BY <3>6, WithdrawalAssumption DEF AgentShape
    <3>9. l > 0 => a.lease > 0  BY <3>2, <3>8 DEF Greatest
    <3> QED  BY <3>1, <3>7, <3>9
  <2>3. ASSUME NEW m \in Nodes PROVE Uses(m)' \subseteq Uses(m)
    <3>1. PICK v : v = agent[m].view  OBVIOUS
    <3>2. PICK l : l = agent[m].lease  OBVIOUS
    <3>3. PICK h : h = agent'[m].lease  OBVIOUS
    <3>4. Uses(m) = Routes(m, v, l) /\ Uses(m)' = Routes(m, v, h) /\ (h > 0 => l > 0)
      BY <2>2, <3>1, <3>2, <3>3, RoutesAndOver
    <3>5. Routes(m, v, h) \subseteq Routes(m, v, l)  BY <3>4 DEF Routes
    <3> QED  BY <3>4, <3>5
  <2>4. Ownership!Lapse
    BY <1>3, <2>1, <2>3 DEF Ownership!Lapse
  <2> QED  BY <2>4 DEF Ownership!Next
<1>6. CASE \/ \E e \in Executions : Start(e) \/ Retire(e) \/ Stop(e) \/ AskRelease(e)
           \/ \E s \in Services : Declare(s)
           \/ LeaderStep \/ UNCHANGED vars
  <2>1. /\ \A m \in Nodes : SameRoutes(m)
        /\ confirmed \subseteq confirmed' \/ confirmed' = {}
    BY <1>6, LeaderRoutes
  <2>2. \A m \in Nodes : Uses(m)' = Uses(m)  BY <1>2, <2>1
  <2>3. [m \in Nodes |-> Uses(m)'] = [m \in Nodes |-> Uses(m)]  BY <2>2
  <2>4. \A m \in Nodes : Uses(m) \cap Ended' = {}  BY <1>1, <2>2
  <2>5. CASE confirmed \subseteq confirmed'
    <3>1. Ended \cap {<<"backend", b>> : b \in Backend} \subseteq Ended'
      BY <2>5, RoutesAndOver, OverFacts
    <3>2. Ownership!Reassign  BY <2>3, <2>4, <3>1 DEF Ownership!Reassign
    <3> QED  BY <3>2 DEF Ownership!Next
  <2>6. CASE confirmed' = {}
    <3>1. Ended' \cap {<<"backend", b>> : b \in Backend} = {}
      BY <2>6, RoutesAndOver, OverFacts
    <3>2. Ownership!Recover  BY <2>3, <2>4, <3>1 DEF Ownership!Recover
    <3> QED  BY <3>2 DEF Ownership!Next
  <2> QED  BY <2>1, <2>5, <2>6
<1>7. CASE \E n \in Nodes : Poll(n) \/ Answer(n) \/ AgentStep(n)
  BY <1>4, <1>7 DEF Ownership!Next
<1> QED  BY <1>5, <1>6, <1>7 DEF Next

(* The endpoint withdrawal protocol implements AddressOwnership: no host    *)
(* address and no virtual address is handed on while a node still routes by *)
(* its old meaning; for every cluster, lease and discharge time longer than *)
(* it, any number of executions and services, crashes, elections, restores  *)
(* from a backup, lost polls, answers, receipts and writes.  Two things are *)
(* excluded: a leader that is re-elected with discharges in hand, and a     *)
(* recovery epoch that publishes more generations than it has room for.     *)
THEOREM WithdrawalIsSafe == Spec /\ []InEpoch /\ []Steady => AddressesAreOwned
<1> DEFINE All == Inv /\ WordInv /\ OwnInv
<1>1. Init => All  BY InitInv, InitWords, InitOwn
<1>2. All /\ InEpoch /\ Steady /\ Steady' /\ [Next]_vars => All'
  BY NextInv, NextWords, NextOwn DEF Base
<1>3. All /\ Steady => Safe  BY OwnedIsSafe DEF Base
<1>4. All /\ Safe' /\ [Next]_vars => [Ownership!Next]_(Ownership!vars)
  BY NextOwnership
<1> HIDE DEF All
<1> QED  BY <1>1, <1>2, <1>3, <1>4, InitOwnership, PTL DEF Spec, AddressesAreOwned, Ownership!Spec

=============================================================================
