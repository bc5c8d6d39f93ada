------------------------ MODULE RecoveryFenceProofs ------------------------
(***************************************************************************)
(* Proofs about RecoveryFence for every cluster, founding council and      *)
(* bound.                                                                  *)
(***************************************************************************)
EXTENDS RecoveryFence, TLAPS

(* What a running fence may turn into: it knows no less, keeps a council   *)
(* it has claimed, and never leaves a fence.                               *)
Later(f, g) ==
    /\ Newest(g) >= Newest(f)
    /\ f.state # "unclaimed" => ClaimOf(g) = ClaimOf(f)
    /\ IsFenced(f) => IsFenced(g)

(* The fence's operators keep fences fences.                               *)
LEMMA FenceTypes ==
    ASSUME NEW f \in Fence, NEW c \in Claim, NEW e \in Nat
    PROVE  /\ NoRecord \in Fence /\ NoRecovery \in Claim /\ Silent \in Advert
           /\ ClaimOf(f) \in Claim
           /\ RefusalClaim(f) \in Claim
           /\ AdvertOf(f) \in Advert
           /\ \A s \in FenceStates : MkFence(s, c) \in Fence
           /\ FenceIfNewer(f, e) \in Fence
           /\ SplitIfConflicting(f, c) \in Fence
           /\ Finish(f) \in Fence
           /\ RecordOf(f) \in Fence
           /\ \A s \in FenceStates : Resumed(f, s) \in Fence
           /\ Newest(f) \in Nat
BY DEF Fence, FenceStates, Claim, Advert, NoRecord, NoRecovery, Silent, ClaimOf,
       RefusalClaim, Newest, AdvertOf, MkFence, FenceIfNewer, SplitIfConflicting,
       Finish, RecordOf, Resumed, ConflictsWith, IsFenced

LEMMA CombinedTypes ==
    ASSUME NEW f \in Fence, NEW c \in Claim
    PROVE  /\ Confronted(f, c) \in Fence
           /\ ObservePeer(f, c) \in Fence
           /\ \A held \in BOOLEAN : Load(f, c, held) \in Fence
<1>1. c.epoch \in Nat
  BY DEF Claim
<1>2. {"probing", "serving", "unclaimed"} \subseteq FenceStates
  BY DEF FenceStates
<1>3. FenceIfNewer(f, c.epoch) \in Fence
  BY <1>1, FenceTypes
<1>4. Confronted(f, c) \in Fence
  BY <1>3, FenceTypes DEF Confronted
<1>5. ObservePeer(f, c) \in Fence
  BY <1>1, <1>3, FenceTypes DEF ObservePeer
<1>6. ASSUME NEW held \in BOOLEAN PROVE Load(f, c, held) \in Fence
  BY <1>1, <1>2, FenceTypes DEF Load
<1> QED
  BY <1>4, <1>5, <1>6

(* What one pass over the directory makes of a fence comes from one of the *)
(* claims in it.                                                           *)
LEMMA ObservedFrom ==
    ASSUME NEW f, NEW adverts, NEW g \in Observed(f, adverts)
    PROVE  \/ g = f
           \/ \E a \in adverts :
                 /\ a.said = "claim"
                 /\ g = FenceIfNewer(f, a.epoch) \/ g = SplitIfConflicting(f, ClaimOf(a))
BY DEF Observed

LEMMA ObservedTypes ==
    ASSUME NEW f \in Fence, NEW adverts \in SUBSET Advert,
           NEW g \in Observed(f, adverts)
    PROVE  g \in Fence /\ Finish(g) \in Fence
<1>1. ASSUME g = f PROVE g \in Fence
  BY <1>1
<1>2. ASSUME NEW a \in adverts,
             g = FenceIfNewer(f, a.epoch) \/ g = SplitIfConflicting(f, ClaimOf(a))
      PROVE  g \in Fence
  <2>1. a.epoch \in Nat /\ ClaimOf(a) \in Claim
    BY DEF Advert, ClaimOf, Claim
  <2> QED
    BY <1>2, <2>1, FenceTypes
<1>3. g \in Fence
  BY <1>1, <1>2, ObservedFrom
<1>4. NoRecovery \in Claim /\ 0 \in Nat
  BY DEF NoRecovery, Claim
<1> QED
  BY <1>3, <1>4, FenceTypes

(* What Raft makes of a store when it handles an RPC, and what an emptied  *)
(* directory holds, has the right type.                                    *)
LEMMA ServedTypes ==
    ASSUME TypeOK, NEW m \in Rpc, Served(m)
    PROVE  /\ log' \in [Node -> {"none", "fresh", "held"}]
           /\ acted' \in [Node -> SUBSET Claim]
           /\ snap' \in [Node -> Claim]
           /\ members' \in [Node -> SUBSET Node]
<1>1. m.to \in Node /\ m.claim \in Claim /\ m.snap \in Claim /\ m.members \in SUBSET Node
  BY DEF Rpc
<1> QED
  BY <1>1 DEF Served, TypeOK

LEMMA EmptiedTypes ==
    ASSUME TypeOK, NEW n \in Node, Emptied(n)
    PROVE  /\ rec' \in [Node -> Fence]
           /\ log' \in [Node -> {"none", "fresh", "held"}]
           /\ acted' \in [Node -> SUBSET Claim]
           /\ snap' \in [Node -> Claim]
           /\ members' \in [Node -> SUBSET Node]
<1>1. NoRecord \in Fence /\ NoRecovery \in Claim
  BY DEF NoRecord, MkFence, NoRecovery, Fence, FenceStates, Claim
<1> QED
  BY <1>1 DEF Emptied, TypeOK

LEMMA ProcessTypes ==
    ASSUME TypeOK, NEW n \in Node, Start(n) \/ Stop(n) \/ Bootstrap(n)
    PROVE  TypeOK'
<1>1. /\ rec[n] \in Fence /\ snap[n] \in Claim /\ NoRecord \in Fence
      /\ [p \in Node |-> Silent] \in [Node -> Advert]
  <2>1. NoRecord \in Fence /\ Silent \in Advert
    BY DEF NoRecord, MkFence, NoRecovery, Fence, FenceStates, Claim, Silent, Advert
  <2> QED
    BY <2>1 DEF TypeOK
<1>2. Load(rec[n], snap[n], log[n] = "held") \in Fence
  BY <1>1, CombinedTypes
<1>3. CASE Start(n)
  BY <1>1, <1>2, <1>3 DEF Start, TypeOK, install, wire
<1>4. CASE Stop(n)
  BY <1>1, <1>4, FenceAssumption DEF Stop, TypeOK, disk, install
<1>5. CASE Bootstrap(n)
  BY <1>5 DEF Bootstrap, TypeOK, install, wire, gossip
<1> QED
  BY <1>3, <1>4, <1>5

LEMMA SupervisorTypes ==
    ASSUME TypeOK, NEW n \in Node, NEW p \in Node,
           Hear(n, p) \/ Sync(n) \/ Supervise(n) \/ Record(n) \/ Invite(n, p) \/ SaveBackup(n)
    PROVE  TypeOK'
<1>1. /\ fence[n] \in Fence /\ fence[p] \in Fence /\ snap[n] \in Claim
      /\ members[n] \in SUBSET Node /\ 0 \in Nat /\ NoRecovery \in Claim
  BY DEF TypeOK, NoRecovery, Claim
<1>2. AdvertOf(fence[p]) \in Advert /\ RecordOf(fence[n]) \in Fence
  BY <1>1, FenceTypes
<1>3. CASE Hear(n, p)
  BY <1>2, <1>3 DEF Hear, TypeOK, disk, install, wire
<1>4. CASE Sync(n)
  BY <1>4 DEF Sync, TypeOK, disk, install, wire
<1>5. CASE Supervise(n)
  <2>1. {heard[n][q] : q \in Node} \in SUBSET Advert
    BY DEF TypeOK
  <2>2. PICK f \in Observed(fence[n], {heard[n][q] : q \in Node}) :
           \/ fence' = [fence EXCEPT ![n] = f]
           \/ fence' = [fence EXCEPT ![n] = Finish(f)]
    BY <1>5 DEF Supervise
  <2>3. f \in Fence /\ Finish(f) \in Fence
    BY <1>1, <2>1, ObservedTypes
  <2>4. fence' \in [Node -> Fence]
    BY <2>2, <2>3 DEF TypeOK
  <2> QED
    BY <1>5, <2>4 DEF Supervise, TypeOK, disk, install, wire, gossip
<1>6. CASE Record(n)
  BY <1>2, <1>6 DEF Record, TypeOK, install, wire, gossip
<1>7. CASE Invite(n, p)
  BY <1>1, <1>7 DEF Invite, TypeOK, install, wire, gossip
<1>8. CASE SaveBackup(n)
  BY <1>1, <1>8 DEF SaveBackup, TypeOK, Backup, disk, wire, gossip
<1> QED
  BY <1>3, <1>4, <1>5, <1>6, <1>7, <1>8

LEMMA SendTypes ==
    ASSUME TypeOK, NEW n \in Node, NEW p \in Node, NEW kind \in Kinds, Send(n, p, kind)
    PROVE  TypeOK'
<1>1. /\ fence[n] \in Fence /\ snap[n] \in Claim /\ members[n] \in SUBSET Node
      /\ NoRecovery \in Claim /\ 0 \in Nat
  BY DEF TypeOK, NoRecovery, Claim
<1>2. ClaimOf(fence[n]) \in Claim
  BY <1>1, FenceTypes
<1>3. [kind |-> kind, from |-> n, to |-> p, claim |-> ClaimOf(fence[n]),
       snap |-> snap[n], members |-> members[n]] \in Rpc
  BY <1>1, <1>2, FenceAssumption DEF Rpc
<1> QED
  BY <1>3 DEF Send, TypeOK, disk, install, gossip

LEMMA RpcTypes ==
    ASSUME TypeOK, NEW m \in rpcs,
           Serve(m) \/ Adopt(m) \/ Refuse(m) \/ Refused(m) \/ Lose(m)
    PROVE  TypeOK'
<1>1. m \in Rpc /\ m.to \in Node /\ m.from \in Node /\ m.claim \in Claim
  BY DEF TypeOK, Rpc
<1>2. /\ fence[m.to] \in Fence /\ NoRecovery \in Claim /\ 0 \in Nat
      /\ "serving" \in FenceStates
  BY <1>1 DEF TypeOK, NoRecovery, Claim, FenceStates
<1>3. CASE Serve(m)
  <2>1. Served(m)
    BY <1>3 DEF Serve
  <2> QED
    BY <1>1, <1>3, <2>1, ServedTypes DEF Serve, TypeOK, install, gossip
<1>4. CASE Adopt(m)
  <2>1. MkFence("serving", m.claim) \in Fence
    BY <1>1, <1>2, FenceTypes
  <2> QED
    BY <1>1, <1>4, <2>1 DEF Adopt, TypeOK, disk, install, gossip
<1>5. CASE Refuse(m)
  <2> DEFINE g == IF fence[m.to].state = "unclaimed" THEN fence[m.to]
                  ELSE Confronted(fence[m.to], m.claim)
  <2>1. g \in Fence
    BY <1>1, <1>2, CombinedTypes
  <2>2. /\ fence' = [fence EXCEPT ![m.to] = g]
        /\ rpcs' \subseteq rpcs \cup {Refusal(m, g)}
    BY <1>5 DEF Refuse
  <2> HIDE DEF g
  <2>3. RefusalClaim(g) \in Claim
    BY <1>2, <2>1, FenceTypes
  <2>4. Refusal(m, g) \in Rpc
    BY <1>1, <1>2, <2>3 DEF Refusal, Rpc
  <2> QED
    BY <1>1, <1>5, <2>1, <2>2, <2>4 DEF Refuse, TypeOK, disk, install, gossip
<1>6. CASE Refused(m)
  <2>1. ObservePeer(fence[m.to], m.claim) \in Fence
    BY <1>1, <1>2, CombinedTypes
  <2> QED
    BY <1>1, <1>6, <2>1 DEF Refused, TypeOK, disk, install, gossip
<1>7. CASE Lose(m)
  BY <1>7 DEF Lose, TypeOK, disk, install, gossip
<1> QED
  BY <1>3, <1>4, <1>5, <1>6, <1>7

LEMMA AdoptionTypes ==
    ASSUME TypeOK, NEW m \in adopting, AdoptionWritten(m) \/ AdoptionFailed(m)
    PROVE  TypeOK'
<1>1. m \in Rpc /\ m.to \in Node /\ NoRecovery \in Claim /\ 0 \in Nat
  BY DEF TypeOK, Rpc, NoRecovery, Claim
<1>2. RecordOf(fence[m.to]) \in Fence
  <2>1. fence[m.to] \in Fence
    BY <1>1 DEF TypeOK
  <2> QED
    BY <1>1, <2>1, FenceTypes
<1>3. CASE AdoptionWritten(m)
  <2>1. Served(m)
    BY <1>3 DEF AdoptionWritten
  <2> QED
    BY <1>1, <1>2, <1>3, <2>1, ServedTypes DEF AdoptionWritten, TypeOK, install, gossip
<1>4. CASE AdoptionFailed(m)
  BY <1>4 DEF AdoptionFailed, TypeOK, disk, install, gossip
<1> QED
  BY <1>3, <1>4

LEMMA CommandTypes ==
    ASSUME TypeOK, NEW n \in Node, NEW state \in Backup, NEW force \in BOOLEAN,
           \/ Recover(n, state, force)
           \/ MoveAside(n) \/ InstallReplacement(n) \/ DropJournal(n)
           \/ Reenrol(n, force)
    PROVE  TypeOK'
<1>1. /\ NoRecord \in Fence /\ NoRecovery \in Claim /\ NoJournal \in Journal
      /\ rec[n] \in Fence /\ journal[n] \in Journal /\ journal[n].claim \in Claim
  BY DEF TypeOK, NoRecord, MkFence, NoRecovery, Fence, FenceStates, Claim, NoJournal, Journal
<1>2. CASE Recover(n, state, force)
  <2> DEFINE epoch == 1 + (IF state.claim.epoch > Floor(n) THEN state.claim.epoch ELSE Floor(n))
  <2> DEFINE claim == [epoch |-> epoch, id |-> drawn + 1]
  <2>1. Newest(rec[n]) \in Nat
    BY <1>1 DEF Fence, Newest
  <2>2. epoch \in Nat
    BY <2>1 DEF Floor, Backup, Claim
  <2>3. drawn + 1 \in Nat
    BY DEF TypeOK
  <2> HIDE DEF epoch
  <2>4. claim \in Claim /\ [stage |-> "staged", claim |-> claim] \in Journal
    BY <2>2, <2>3 DEF Claim, Journal
  <2>5. /\ drawn' = drawn + 1
        /\ minted' = minted \cup {claim}
        /\ journal' = [journal EXCEPT ![n] = [stage |-> "staged", claim |-> claim]]
        /\ aside' = [aside EXCEPT ![n] = NoRecord]
        /\ \E owed \in BOOLEAN :
             /\ rec' = [rec EXCEPT ![n] = IF owed THEN NoRecord ELSE @]
             /\ log' = [log EXCEPT ![n] = IF owed \/ @ = "none" THEN "fresh" ELSE @]
             /\ snap' = [snap EXCEPT ![n] = IF owed THEN journal[n].claim ELSE @]
             /\ members' = [members EXCEPT ![n] = IF owed THEN {} ELSE @]
             /\ acted' = [acted EXCEPT ![n] = IF owed THEN {} ELSE @]
        /\ UNCHANGED <<up, fence, backups, wire, gossip, stops>>
    BY <1>2 DEF Recover, epoch
  <2> HIDE DEF claim
  <2> QED
    BY <1>1, <2>3, <2>4, <2>5 DEF TypeOK, wire, gossip
<1>3. CASE MoveAside(n)
  <2>1. Emptied(n) /\ [stage |-> "moved", claim |-> journal[n].claim] \in Journal
    BY <1>1, <1>3 DEF MoveAside, Journal
  <2> QED
    BY <1>1, <1>3, <2>1, EmptiedTypes DEF MoveAside, TypeOK, wire, gossip
<1>4. CASE InstallReplacement(n)
  <2>1. [stage |-> "installed", claim |-> journal[n].claim] \in Journal
    BY <1>1 DEF Journal
  <2> QED
    BY <1>1, <1>4, <2>1 DEF InstallReplacement, TypeOK, wire, gossip
<1>5. CASE DropJournal(n)
  BY <1>1, <1>5 DEF DropJournal, TypeOK, disk, wire, gossip
<1>6. CASE Reenrol(n, force)
  <2>1. Emptied(n)
    BY <1>6 DEF Reenrol
  <2> QED
    BY <1>1, <1>6, <2>1, EmptiedTypes DEF Reenrol, TypeOK, wire, gossip
<1> QED
  BY <1>2, <1>3, <1>4, <1>5, <1>6

LEMMA OwnState ==
    ASSUME TypeOK, NEW n \in Node
    PROVE  [claim |-> snap[n], members |-> members[n]] \in Backup
BY DEF TypeOK, Backup

LEMMA TypeStep == TypeOK /\ [Next]_vars => TypeOK'
<1> SUFFICES ASSUME TypeOK, [Next]_vars PROVE TypeOK'
  OBVIOUS
<1>1. CASE UNCHANGED vars
  BY <1>1 DEF TypeOK, vars, disk, install, wire, gossip
<1>2. CASE Next
  <2>1. backups \subseteq Backup
    BY DEF TypeOK
  <2>2. CASE \E n \in Node : RecoverOwn(n, TRUE) \/ RecoverOwn(n, FALSE)
    BY <2>2, OwnState, CommandTypes DEF RecoverOwn
  <2>3. CASE \E n \in Node, force \in BOOLEAN :
               \/ \E b \in backups : Recover(n, b, force)
               \/ MoveAside(n) \/ InstallReplacement(n) \/ DropJournal(n)
               \/ Reenrol(n, force)
    BY <2>1, <2>3, OwnState, CommandTypes
  <2>4. CASE \E n \in Node : Start(n) \/ Stop(n) \/ Bootstrap(n)
    BY <2>4, ProcessTypes
  <2>5. CASE \E n, p \in Node : \/ Hear(n, p) \/ Sync(n) \/ Supervise(n) \/ Record(n)
                               \/ Invite(n, p) \/ SaveBackup(n)
    BY <2>5, SupervisorTypes
  <2>6. CASE \E n, p \in Node, kind \in Kinds : Send(n, p, kind)
    BY <2>6, SendTypes
  <2>7. CASE \E m \in rpcs : Serve(m) \/ Adopt(m) \/ Refuse(m) \/ Refused(m) \/ Lose(m)
    BY <2>7, RpcTypes
  <2>8. CASE \E m \in adopting : AdoptionWritten(m) \/ AdoptionFailed(m)
    BY <2>8, AdoptionTypes
  <2> QED
    BY <1>2, <2>2, <2>3, <2>4, <2>5, <2>6, <2>7, <2>8 DEF Next
<1> QED
  BY <1>1, <1>2

(* Every fence, record, advert, RPC, backup and journal keeps its shape,   *)
(* for every cluster and whatever the operator runs.                       *)
THEOREM TypeCorrect == Spec => []TypeOK
<1>1. Init => TypeOK
  <2>1. /\ NoRecord \in Fence /\ NoRecovery \in Claim /\ Silent \in Advert
        /\ NoJournal \in Journal /\ MkFence("serving", NoRecovery) \in Fence
    BY DEF NoRecord, MkFence, NoRecovery, Fence, FenceStates, Claim, NoJournal, Journal,
           Silent, Advert
  <2>2. [claim |-> NoRecovery, members |-> Founders] \in Backup
    BY <2>1, FenceAssumption DEF Backup
  <2> QED
    BY <2>1, <2>2, FenceAssumption DEF Init, TypeOK
<1> QED
  BY <1>1, TypeStep, PTL DEF Spec

(* Every operator on a running fence moves it forward only.                *)
LEMMA ForwardOnly ==
    ASSUME NEW f \in Fence, NEW c \in Claim
    PROVE  /\ Later(f, f)
           /\ Later(f, FenceIfNewer(f, c.epoch))
           /\ Later(f, SplitIfConflicting(f, c))
           /\ Later(f, Finish(f))
BY DEF Fence, FenceStates, Claim, ClaimOf, Newest, FenceIfNewer, SplitIfConflicting,
       Finish, ConflictsWith, IsFenced, Later

LEMMA LaterTransitive ==
    ASSUME NEW f \in Fence, NEW g \in Fence, NEW h \in Fence, Later(f, g), Later(g, h),
           f.state # "unclaimed" => g.state # "unclaimed"
    PROVE  Later(f, h)
<1>1. Newest(f) \in Nat /\ Newest(g) \in Nat /\ Newest(h) \in Nat
  BY DEF Fence, Newest
<1> QED
  BY <1>1 DEF Later

(* No operator makes a node that claims a council unclaimed again.         *)
LEMMA StaysClaimed ==
    ASSUME NEW f \in Fence, NEW c \in Claim, f.state # "unclaimed"
    PROVE  /\ FenceIfNewer(f, c.epoch).state # "unclaimed"
           /\ SplitIfConflicting(f, c).state # "unclaimed"
BY DEF FenceIfNewer, SplitIfConflicting

LEMMA ConfrontedForward ==
    ASSUME NEW f \in Fence, NEW c \in Claim
    PROVE  Later(f, Confronted(f, c)) /\ Later(f, ObservePeer(f, c))
<1> DEFINE g == FenceIfNewer(f, c.epoch)
<1>1. g \in Fence /\ c.epoch \in Nat
  BY FenceTypes DEF Claim
<1>2. Later(f, g) /\ (f.state # "unclaimed" => g.state # "unclaimed")
  BY ForwardOnly, StaysClaimed
<1> HIDE DEF g
<1>3. SplitIfConflicting(g, c) \in Fence /\ Later(g, SplitIfConflicting(g, c))
  BY <1>1, ForwardOnly, FenceTypes
<1>4. Later(f, SplitIfConflicting(g, c))
  BY <1>1, <1>2, <1>3, LaterTransitive
<1>5. Later(f, SplitIfConflicting(f, c))
  BY ForwardOnly
<1> QED
  BY <1>2, <1>4, <1>5 DEF Confronted, ObservePeer, g

LEMMA ObservedForward ==
    ASSUME NEW f \in Fence, NEW adverts \in SUBSET Advert, NEW g \in Observed(f, adverts)
    PROVE  Later(f, g) /\ Later(f, Finish(g))
<1>1. g \in Fence /\ Finish(g) \in Fence
  BY ObservedTypes
<1>2. NoRecovery \in Claim
  BY DEF NoRecovery, Claim
<1>3. Later(f, g) /\ (f.state # "unclaimed" => g.state # "unclaimed")
  <2>1. CASE g = f
    BY <1>2, <2>1, ForwardOnly
  <2>2. ASSUME NEW a \in adverts,
               g = FenceIfNewer(f, a.epoch) \/ g = SplitIfConflicting(f, ClaimOf(a))
        PROVE  Later(f, g) /\ (f.state # "unclaimed" => g.state # "unclaimed")
    <3>1. ClaimOf(a) \in Claim /\ ClaimOf(a).epoch = a.epoch
      BY DEF Advert, ClaimOf, Claim
    <3> QED
      BY <2>2, <3>1, ForwardOnly, StaysClaimed
  <2> QED
    BY <2>1, <2>2, ObservedFrom
<1>4. Later(g, Finish(g))
  BY <1>1, <1>2, ForwardOnly
<1> QED
  BY <1>1, <1>3, <1>4, LaterTransitive

(* Whatever step is taken, the fence of a node that keeps running moves    *)
(* forward only.                                                           *)
LEMMA FencesForward ==
    ASSUME TypeOK, [Next]_vars, NEW n \in up \cap up'
    PROVE  Later(fence[n], fence'[n])
<1>1. n \in Node /\ fence[n] \in Fence /\ NoRecovery \in Claim
  BY DEF TypeOK, NoRecovery, Claim
<1>2. Later(fence[n], fence[n])
  BY <1>1, ForwardOnly
<1>3. ASSUME fence' = fence PROVE Later(fence[n], fence'[n])
  BY <1>2, <1>3
<1>4. ASSUME NEW k \in Node, Start(k) \/ Stop(k)
      PROVE  Later(fence[n], fence'[n])
  <2>1. k # n
    BY <1>4 DEF Start, Stop
  <2>2. fence'[n] = fence[n]
    BY <1>1, <1>4, <2>1 DEF Start, Stop, TypeOK
  <2> QED
    BY <1>2, <2>2
<1>5. ASSUME NEW k \in Node, Supervise(k)
      PROVE  Later(fence[n], fence'[n])
  <2>1. fence[k] \in Fence /\ {heard[k][q] : q \in Node} \in SUBSET Advert
    BY DEF TypeOK
  <2>2. PICK f \in Observed(fence[k], {heard[k][q] : q \in Node}) :
           \/ fence' = [fence EXCEPT ![k] = f]
           \/ fence' = [fence EXCEPT ![k] = Finish(f)]
    BY <1>5 DEF Supervise
  <2>3. Later(fence[k], f) /\ Later(fence[k], Finish(f))
    BY <2>1, ObservedForward
  <2>4. fence'[n] = fence[n] \/ (k = n /\ fence'[n] \in {f, Finish(f)})
    BY <1>1, <2>2 DEF TypeOK
  <2> QED
    BY <1>2, <2>3, <2>4
<1>6. ASSUME NEW m \in rpcs, Adopt(m)
      PROVE  Later(fence[n], fence'[n])
  <2>1. m.to \in Node /\ m.claim \in Claim /\ fence[m.to] \in Fence
    BY DEF TypeOK, Rpc
  <2>2. Later(fence[m.to], MkFence("serving", m.claim))
    BY <1>6, <2>1 DEF Adopt, Later, MkFence, Newest, IsFenced, Claim, Fence
  <2>3. fence'[n] = fence[n] \/ (m.to = n /\ fence'[n] = MkFence("serving", m.claim))
    BY <1>1, <1>6, <2>1 DEF Adopt, TypeOK
  <2> QED
    BY <1>2, <2>2, <2>3
<1>7. ASSUME NEW m \in rpcs, Refuse(m) \/ Refused(m)
      PROVE  Later(fence[n], fence'[n])
  <2>1. m.to \in Node /\ m.claim \in Claim /\ fence[m.to] \in Fence
    BY DEF TypeOK, Rpc
  <2>2. /\ Later(fence[m.to], Confronted(fence[m.to], m.claim))
        /\ Later(fence[m.to], ObservePeer(fence[m.to], m.claim))
    BY <2>1, ConfrontedForward
  <2>3. \/ fence' = [fence EXCEPT ![m.to] = fence[m.to]]
        \/ fence' = [fence EXCEPT ![m.to] = Confronted(fence[m.to], m.claim)]
        \/ fence' = [fence EXCEPT ![m.to] = ObservePeer(fence[m.to], m.claim)]
    BY <1>7 DEF Refuse, Refused
  <2>4. \/ fence'[n] = fence[n]
        \/ m.to = n /\ fence'[n] \in {Confronted(fence[n], m.claim), ObservePeer(fence[n], m.claim)}
    BY <1>1, <2>1, <2>3 DEF TypeOK
  <2> QED
    BY <1>2, <2>2, <2>4
<1>8. \/ fence' = fence
      \/ \E k \in Node : Start(k) \/ Stop(k) \/ Supervise(k)
      \/ \E m \in rpcs : Adopt(m) \/ Refuse(m) \/ Refused(m)
  BY DEF Next, vars, Bootstrap, Hear, Sync, Record, Invite, Send, Serve, Lose,
         AdoptionWritten, AdoptionFailed, SaveBackup, Recover, RecoverOwn, MoveAside,
         InstallReplacement, DropJournal, Reenrol
<1> QED
  BY <1>3, <1>4, <1>5, <1>6, <1>7, <1>8

(* The newest epoch a running node knows, the council it claims and the    *)
(* fence it is behind only ever move forward, for every cluster.           *)
THEOREM KnowledgeGrows == Spec => KnowledgeOnlyGrows
<1>1. TypeOK /\ [Next]_vars =>
        [\A n \in up \cap up' :
            /\ Newest(fence'[n]) >= Newest(fence[n])
            /\ fence[n].state # "unclaimed" => ClaimOf(fence'[n]) = ClaimOf(fence[n])
            /\ IsFenced(fence[n]) => IsFenced(fence'[n])]_vars
  BY FencesForward DEF Later
<1> QED
  BY <1>1, TypeCorrect, PTL DEF Spec, KnowledgeOnlyGrows

(* The record of a running node is only ever written from its fence.       *)
LEMMA RecordWritten ==
    ASSUME TypeOK, [Next]_vars, NEW n \in up \cap up'
    PROVE  rec'[n] = rec[n] \/ (rec'[n] = RecordOf(fence[n]) /\ fence' = fence)
<1>1. n \in Node
  BY DEF TypeOK
<1>2. ASSUME NEW k \in Node, Record(k)
      PROVE  rec'[n] = rec[n] \/ (rec'[n] = RecordOf(fence[n]) /\ fence' = fence)
  BY <1>1, <1>2 DEF Record, TypeOK
<1>3. ASSUME NEW m \in adopting, AdoptionWritten(m)
      PROVE  rec'[n] = rec[n] \/ (rec'[n] = RecordOf(fence[n]) /\ fence' = fence)
  BY <1>1, <1>3 DEF AdoptionWritten, TypeOK, Rpc
<1>4. ASSUME NEW k \in Node, NEW state, NEW force,
             Recover(k, state, force) \/ MoveAside(k) \/ Reenrol(k, force)
      PROVE  rec'[n] = rec[n]
  <2>1. k # n
    BY <1>4 DEF Recover, MoveAside, Reenrol
  <2> QED
    BY <1>1, <1>4, <2>1 DEF Recover, MoveAside, Reenrol, Emptied, TypeOK
<1>5. \/ rec' = rec
      \/ \E k \in Node : Record(k) \/ MoveAside(k)
      \/ \E m \in adopting : AdoptionWritten(m)
      \/ \E k \in Node, b \in backups, force \in BOOLEAN : Recover(k, b, force)
      \/ \E k \in Node, force \in BOOLEAN :
            \/ Recover(k, [claim |-> snap[k], members |-> members[k]], force)
            \/ Reenrol(k, force)
  BY DEF Next, vars, disk, Start, Stop, Bootstrap, Hear, Sync, Supervise, Invite, Send,
         Serve, Adopt, Refuse, Refused, Lose, AdoptionFailed, SaveBackup, RecoverOwn,
         InstallReplacement, DropJournal
<1> QED
  BY <1>2, <1>3, <1>4, <1>5

(* A node that starts with a fenced record starts fenced.                  *)
LEMMA FencedLoads ==
    ASSUME TypeOK, [Next]_vars, NEW n \in up', n \notin up
    PROVE  rec'[n] = rec[n] /\ (IsFenced(rec[n]) => IsFenced(fence'[n]))
<1>1. \E k \in Node : Start(k) /\ k = n
  BY DEF Next, vars, Start, Stop, Bootstrap, Hear, Sync, Supervise, Record, Invite, Send,
         Serve, Adopt, Refuse, Refused, Lose, AdoptionWritten, AdoptionFailed, SaveBackup,
         Recover, RecoverOwn, MoveAside, InstallReplacement, DropJournal, Reenrol
<1>2. fence'[n] = Load(rec[n], snap[n], log[n] = "held") /\ rec' = rec
  BY <1>1 DEF Start, TypeOK
<1> QED
  BY <1>2 DEF Load, Resumed, IsFenced

(* A recorded fence binds the running process, through restarts, for every *)
(* cluster and whatever the operator runs.                                 *)
THEOREM FencesSurvive == Spec => []RecordedFenceBinds
<1>1. Init => RecordedFenceBinds
  BY DEF Init, RecordedFenceBinds
<1>2. TypeOK /\ RecordedFenceBinds /\ [Next]_vars => RecordedFenceBinds'
  <2> SUFFICES ASSUME TypeOK, RecordedFenceBinds, [Next]_vars, NEW n \in up', IsFenced(rec'[n])
               PROVE  IsFenced(fence'[n])
    BY DEF RecordedFenceBinds
  <2>1. CASE n \in up
    <3>1. Later(fence[n], fence'[n])
      BY <2>1, FencesForward
    <3>2. IsFenced(rec[n]) \/ (IsFenced(RecordOf(fence[n])) /\ fence' = fence)
      BY <2>1, RecordWritten
    <3>3. IsFenced(RecordOf(fence[n])) => IsFenced(fence[n])
      BY DEF RecordOf, IsFenced
    <3> QED
      BY <2>1, <3>1, <3>2, <3>3 DEF RecordedFenceBinds, Later
  <2>2. CASE n \notin up
    BY <2>2, FencedLoads
  <2> QED
    BY <2>1, <2>2
<1> QED
  BY <1>1, <1>2, TypeCorrect, PTL DEF Spec

-----------------------------------------------------------------------------
(* The strengthening behind FencedByRealCouncil: every claim in circulation,
   on disk, on the wire or in a directory, names a council that some recovery
   started.  A node repeats what it was told, so a false claim anywhere would
   sooner or later fence somebody.  S is the set of claims minted so far.    *)
KnownIn(S, claim) ==
    \E m \in S : m.epoch = claim.epoch /\ (claim.id = 0 \/ claim.id = m.id)

RealFence(S, f) ==
    /\ KnownIn(S, ClaimOf(f))
    /\ f.state = "unclaimed" => f.id = 0
    /\ f.state = "fenced" => f.by > f.epoch /\ KnownIn(S, [epoch |-> f.by, id |-> 0])
    /\ f.state = "split" => f.other # f.id /\ [epoch |-> f.epoch, id |-> f.other] \in S

RealMinted ==
    /\ NoRecovery \in minted
    /\ \A m \in minted : m.epoch = 0 => m.id = 0
RealFences == \A n \in Node : RealFence(minted, fence[n]) /\ RealFence(minted, rec[n])
RealStores == \A n \in Node : KnownIn(minted, snap[n]) /\ KnownIn(minted, journal[n].claim)
RealAdverts ==
    \A n, p \in Node :
        heard[n][p].said = "claim" => KnownIn(minted, ClaimOf(heard[n][p]))
RealMessages == \A m \in rpcs \cup adopting : KnownIn(minted, m.claim) /\ KnownIn(minted, m.snap)
RealBackups == \A b \in backups : KnownIn(minted, b.claim)
RealClaims ==
    RealMinted /\ RealFences /\ RealStores /\ RealAdverts /\ RealMessages /\ RealBackups

(* The fence's operators invent nothing.                                   *)
LEMMA RealOperators ==
    ASSUME NEW S \in SUBSET Claim, NEW f \in Fence, RealFence(S, f),
           NEW c \in Claim, KnownIn(S, c)
    PROVE  /\ RealFence(S, FenceIfNewer(f, c.epoch))
           /\ RealFence(S, SplitIfConflicting(f, c))
           /\ RealFence(S, Finish(f))
           /\ RealFence(S, RecordOf(f))
           /\ \A s \in {"probing", "serving"} : RealFence(S, Resumed(f, s))
           /\ KnownIn(S, RefusalClaim(f))
           /\ \A s \in {"probing", "serving"} : RealFence(S, MkFence(s, c))
           /\ c.id = 0 => RealFence(S, MkFence("unclaimed", c))
<1>1. /\ f.epoch \in Nat /\ f.id \in Nat /\ f.by \in Nat /\ f.other \in Nat
      /\ c.epoch \in Nat /\ c.id \in Nat
  BY DEF Fence, Claim
<1>2. KnownIn(S, [epoch |-> c.epoch, id |-> 0])
  BY DEF KnownIn
<1>3. RealFence(S, FenceIfNewer(f, c.epoch))
  BY <1>1, <1>2 DEF RealFence, FenceIfNewer, Newest, ClaimOf
<1>4. RealFence(S, SplitIfConflicting(f, c))
  <2>1. ASSUME ConflictsWith(ClaimOf(f), c)
        PROVE  [epoch |-> f.epoch, id |-> c.id] \in S /\ c.id # f.id
    <3>1. PICK m \in S : m.epoch = c.epoch /\ m.id = c.id
      BY <2>1 DEF ConflictsWith, KnownIn
    <3>2. m = [epoch |-> f.epoch, id |-> c.id]
      BY <2>1, <3>1 DEF Claim, ConflictsWith, ClaimOf
    <3> QED
      BY <2>1, <3>1, <3>2 DEF ConflictsWith, ClaimOf
  <2> QED
    BY <1>1, <2>1 DEF RealFence, SplitIfConflicting, ClaimOf
<1>5. RealFence(S, Finish(f))
  BY <1>1 DEF RealFence, Finish, ClaimOf
<1>6. RealFence(S, RecordOf(f))
  BY <1>1 DEF RealFence, RecordOf, ClaimOf, IsFenced
<1>7. ASSUME NEW s \in {"probing", "serving"}
      PROVE  RealFence(S, Resumed(f, s))
  BY <1>1, <1>7 DEF RealFence, Resumed, ClaimOf, IsFenced
<1>8. KnownIn(S, RefusalClaim(f))
  BY <1>1 DEF RealFence, RefusalClaim, Newest, KnownIn, ClaimOf
<1>9. ASSUME NEW s \in {"probing", "serving"}
      PROVE  RealFence(S, MkFence(s, c))
  BY <1>1 DEF RealFence, MkFence, ClaimOf, KnownIn
<1>10. ASSUME c.id = 0 PROVE RealFence(S, MkFence("unclaimed", c))
  BY <1>1, <1>10 DEF RealFence, MkFence, ClaimOf, KnownIn
<1> QED
  BY <1>3, <1>4, <1>5, <1>6, <1>7, <1>8, <1>9, <1>10

LEMMA RealConfronted ==
    ASSUME NEW S \in SUBSET Claim, NEW f \in Fence, RealFence(S, f),
           NEW c \in Claim, KnownIn(S, c)
    PROVE  RealFence(S, Confronted(f, c)) /\ RealFence(S, ObservePeer(f, c))
<1>1. c.epoch \in Nat
  BY DEF Claim
<1>2. FenceIfNewer(f, c.epoch) \in Fence /\ RealFence(S, FenceIfNewer(f, c.epoch))
  BY <1>1, FenceTypes, RealOperators
<1>3. RealFence(S, SplitIfConflicting(FenceIfNewer(f, c.epoch), c))
  BY <1>2, RealOperators
<1>4. RealFence(S, SplitIfConflicting(f, c))
  BY RealOperators
<1> QED
  BY <1>2, <1>3, <1>4 DEF Confronted, ObservePeer

LEMMA RealObserved ==
    ASSUME NEW S \in SUBSET Claim, NEW f \in Fence, RealFence(S, f),
           NEW adverts \in SUBSET Advert,
           \A a \in adverts : a.said = "claim" => KnownIn(S, ClaimOf(a)),
           NEW g \in Observed(f, adverts)
    PROVE  RealFence(S, g) /\ RealFence(S, Finish(g))
<1>1. g \in Fence
  BY ObservedTypes
<1>2. RealFence(S, g)
  <2>1. ASSUME NEW a \in adverts, a.said = "claim",
               g = FenceIfNewer(f, a.epoch) \/ g = SplitIfConflicting(f, ClaimOf(a))
        PROVE  RealFence(S, g)
    <3>1. ClaimOf(a) \in Claim /\ ClaimOf(a).epoch = a.epoch /\ KnownIn(S, ClaimOf(a))
      BY <2>1 DEF Advert, ClaimOf, Claim
    <3> QED
      BY <2>1, <3>1, RealOperators
  <2> QED
    BY <2>1, ObservedFrom
<1>3. ClaimOf(g) \in Claim /\ KnownIn(S, ClaimOf(g))
  BY <1>1, <1>2 DEF RealFence, Fence, Claim, ClaimOf
<1> QED
  BY <1>1, <1>2, <1>3, RealOperators

(* A claim of epoch 0 names no recovery.                                   *)
LEMMA RealLoad ==
    ASSUME NEW S \in SUBSET Claim, \A m \in S : m.epoch = 0 => m.id = 0,
           NEW r \in Fence, RealFence(S, r), NEW c \in Claim, KnownIn(S, c),
           NEW held \in BOOLEAN
    PROVE  RealFence(S, Load(r, c, held))
<1>1. c.epoch \in Nat /\ (c.epoch = 0 => c.id = 0)
  BY DEF KnownIn, Claim
<1>2. ~ (c.epoch > 0) => c.id = 0
  BY <1>1
<1> QED
  BY <1>2, RealOperators DEF Load

(* More councils make no claim false.                                      *)
LEMMA RealMonotone ==
    ASSUME NEW S, NEW T, S \subseteq T, NEW f, NEW c
    PROVE  /\ KnownIn(S, c) => KnownIn(T, c)
           /\ RealFence(S, f) => RealFence(T, f)
<1>1. ASSUME NEW d, KnownIn(S, d) PROVE KnownIn(T, d)
  BY <1>1 DEF KnownIn
<1> QED
  BY <1>1 DEF RealFence

LEMMA RealBasics ==
    ASSUME NoRecovery \in minted
    PROVE  KnownIn(minted, NoRecovery) /\ RealFence(minted, NoRecord)
BY DEF KnownIn, NoRecovery, RealFence, NoRecord, MkFence, ClaimOf

LEMMA RealProcess ==
    ASSUME TypeOK, RealClaims, NEW n \in Node, Start(n) \/ Stop(n) \/ Bootstrap(n)
    PROVE  RealClaims'
<1>1. /\ rec[n] \in Fence /\ snap[n] \in Claim /\ minted \in SUBSET Claim
      /\ RealFence(minted, rec[n]) /\ KnownIn(minted, snap[n])
      /\ RealFence(minted, NoRecord)
  BY RealBasics DEF TypeOK, RealClaims, RealMinted, RealFences, RealStores
<1>2. RealFence(minted, Load(rec[n], snap[n], log[n] = "held"))
  BY <1>1, RealLoad DEF RealClaims, RealMinted
<1>3. minted' = minted /\ RealMinted'
  BY DEF Start, Stop, Bootstrap, install, RealClaims, RealMinted
<1>4. RealFences'
  BY <1>1, <1>2, <1>3 DEF Start, Stop, Bootstrap, disk, RealClaims, RealFences, TypeOK
<1>5. RealStores'
  BY <1>3 DEF Start, Stop, Bootstrap, install, disk, RealClaims, RealStores, TypeOK
<1>6. RealAdverts'
  <2>1. Silent.said # "claim"
    BY DEF Silent
  <2> QED
    BY <1>3, <2>1 DEF Start, Stop, Bootstrap, gossip, RealClaims, RealAdverts, TypeOK
<1>7. RealMessages' /\ RealBackups'
  BY <1>3 DEF Start, Stop, Bootstrap, wire, install, RealClaims, RealMessages, RealBackups
<1> QED
  BY <1>3, <1>4, <1>5, <1>6, <1>7 DEF RealClaims

LEMMA RealSupervisor ==
    ASSUME TypeOK, RealClaims, NEW n \in Node, NEW p \in Node,
           Hear(n, p) \/ Sync(n) \/ Supervise(n) \/ Record(n) \/ Invite(n, p) \/ SaveBackup(n)
    PROVE  RealClaims'
<1>1. /\ fence[n] \in Fence /\ minted \in SUBSET Claim
      /\ RealFence(minted, fence[n]) /\ KnownIn(minted, ClaimOf(fence[p]))
      /\ KnownIn(minted, snap[n])
      /\ NoRecovery \in Claim /\ KnownIn(minted, NoRecovery)
  BY RealBasics DEF TypeOK, RealClaims, RealMinted, RealFences, RealFence, RealStores,
                    NoRecovery, Claim
<1>2. minted' = minted /\ RealMinted'
  BY DEF Hear, Sync, Supervise, Record, Invite, SaveBackup, install, RealClaims, RealMinted
<1>3. RealFences'
  <2>1. CASE Supervise(n)
    <3> DEFINE adverts == {heard[n][q] : q \in Node}
    <3>1. /\ adverts \in SUBSET Advert
          /\ \A a \in adverts : a.said = "claim" => KnownIn(minted, ClaimOf(a))
      BY DEF TypeOK, RealClaims, RealAdverts
    <3>2. PICK f \in Observed(fence[n], adverts) :
             \/ fence' = [fence EXCEPT ![n] = f]
             \/ fence' = [fence EXCEPT ![n] = Finish(f)]
      BY <2>1 DEF Supervise
    <3> HIDE DEF adverts
    <3>3. RealFence(minted, f) /\ RealFence(minted, Finish(f))
      BY <1>1, <3>1, RealObserved
    <3> QED
      BY <1>2, <2>1, <3>2, <3>3 DEF Supervise, disk, RealClaims, RealFences, TypeOK
  <2>2. CASE Record(n)
    <3>1. RealFence(minted, RecordOf(fence[n]))
      BY <1>1, RealOperators
    <3> QED
      BY <1>2, <2>2, <3>1 DEF Record, RealClaims, RealFences, TypeOK
  <2>3. CASE Hear(n, p) \/ Sync(n) \/ Invite(n, p) \/ SaveBackup(n)
    BY <1>2, <2>3 DEF Hear, Sync, Invite, SaveBackup, disk, RealClaims, RealFences
  <2> QED
    BY <2>1, <2>2, <2>3
<1>4. RealStores'
  BY <1>2 DEF Hear, Sync, Supervise, Record, Invite, SaveBackup, disk, install,
              RealClaims, RealStores
<1>5. RealAdverts'
  <2>1. CASE Hear(n, p)
    <3>1. AdvertOf(fence[p]).said = "claim" => ClaimOf(AdvertOf(fence[p])) = ClaimOf(fence[p])
      BY DEF AdvertOf, ClaimOf
    <3>2. heard' = [heard EXCEPT ![n][p] = AdvertOf(fence[p])]
      BY <2>1 DEF Hear
    <3>3. ASSUME NEW k \in Node, NEW q \in Node, heard'[k][q].said = "claim"
          PROVE  KnownIn(minted, ClaimOf(heard'[k][q]))
      <4>1. heard'[k][q] = heard[k][q] \/ heard'[k][q] = AdvertOf(fence[p])
        BY <3>2 DEF TypeOK
      <4> QED
        BY <1>1, <3>1, <3>3, <4>1 DEF RealClaims, RealAdverts
    <3> QED
      BY <1>2, <3>3 DEF RealAdverts
  <2>2. CASE Sync(n) \/ Supervise(n) \/ Record(n) \/ Invite(n, p) \/ SaveBackup(n)
    BY <1>2, <2>2 DEF Sync, Supervise, Record, Invite, SaveBackup, gossip, RealClaims,
                      RealAdverts
  <2> QED
    BY <2>1, <2>2
<1>6. RealMessages'
  BY <1>2 DEF Hear, Sync, Supervise, Record, Invite, SaveBackup, wire, RealClaims, RealMessages
<1>7. RealBackups'
  <2>1. \A b \in backups' : b \in backups \/ b.claim = snap[n]
    BY DEF Hear, Sync, Supervise, Record, Invite, SaveBackup, install
  <2> QED
    BY <1>1, <1>2, <2>1 DEF RealClaims, RealBackups
<1> QED
  BY <1>2, <1>3, <1>4, <1>5, <1>6, <1>7 DEF RealClaims

LEMMA RealSend ==
    ASSUME TypeOK, RealClaims, NEW n \in Node, NEW p \in Node, NEW kind \in Kinds,
           Send(n, p, kind)
    PROVE  RealClaims'
<1>1. KnownIn(minted, ClaimOf(fence[n])) /\ KnownIn(minted, snap[n])
  BY DEF RealClaims, RealFences, RealFence, RealStores
<1>2. /\ \A m \in rpcs' : m \in rpcs \/ (m.claim = ClaimOf(fence[n]) /\ m.snap = snap[n])
      /\ minted' = minted /\ adopting' = adopting
  BY DEF Send, install
<1>3. RealMessages'
  BY <1>1, <1>2 DEF RealClaims, RealMessages
<1> QED
  BY <1>3 DEF Send, disk, install, gossip, RealClaims, RealMinted, RealFences, RealStores,
              RealAdverts, RealBackups

LEMMA RealRpc ==
    ASSUME TypeOK, RealClaims, NEW m \in rpcs,
           Serve(m) \/ Adopt(m) \/ Refuse(m) \/ Refused(m) \/ Lose(m)
    PROVE  RealClaims'
<1>1. /\ m.to \in Node /\ m.from \in Node /\ m.claim \in Claim /\ minted \in SUBSET Claim
      /\ KnownIn(minted, m.claim) /\ KnownIn(minted, m.snap)
  BY DEF TypeOK, Rpc, RealClaims, RealMessages
<1>2. fence[m.to] \in Fence /\ RealFence(minted, fence[m.to]) /\ KnownIn(minted, NoRecovery)
  BY <1>1, RealBasics DEF TypeOK, RealClaims, RealMinted, RealFences
<1>3. minted' = minted /\ RealMinted' /\ RealAdverts' /\ RealBackups'
  BY DEF Serve, Adopt, Refuse, Refused, Lose, install, gossip, RealClaims, RealMinted,
         RealAdverts, RealBackups
<1>4. RealStores'
  <2>1. /\ journal' = journal
        /\ snap' = snap \/ Served(m)
    BY DEF Serve, Adopt, Refuse, Refused, Lose, install, disk
  <2>2. \A n \in Node : snap'[n] = snap[n] \/ snap'[n] = m.snap
    BY <2>1 DEF Served, TypeOK
  <2> QED
    BY <1>1, <1>3, <2>1, <2>2 DEF RealClaims, RealStores
<1>5. CASE Refuse(m)
  <2> DEFINE g == IF fence[m.to].state = "unclaimed" THEN fence[m.to]
                  ELSE Confronted(fence[m.to], m.claim)
  <2>1. g \in Fence /\ RealFence(minted, g)
    BY <1>1, <1>2, CombinedTypes, RealConfronted
  <2>2. /\ fence' = [fence EXCEPT ![m.to] = g]
        /\ rpcs' \subseteq rpcs \cup {Refusal(m, g)}
        /\ rec' = rec /\ adopting' = adopting
    BY <1>5 DEF Refuse, disk
  <2> HIDE DEF g
  <2>3. RealFences'
    BY <1>1, <1>3, <2>1, <2>2 DEF RealClaims, RealFences, TypeOK
  <2>4. KnownIn(minted, RefusalClaim(g))
    BY <1>1, <2>1, RealOperators
  <2>5. RealMessages'
    BY <1>2, <1>3, <2>2, <2>4 DEF Refusal, RealClaims, RealMessages
  <2> QED
    BY <1>3, <1>4, <2>3, <2>5 DEF RealClaims
<1>6. CASE Serve(m) \/ Adopt(m) \/ Refused(m) \/ Lose(m)
  <2>1. /\ RealFence(minted, MkFence("serving", m.claim))
        /\ RealFence(minted, ObservePeer(fence[m.to], m.claim))
    BY <1>1, <1>2, RealOperators, RealConfronted
  <2>2. /\ rec' = rec
        /\ \/ fence' = fence
           \/ fence' = [fence EXCEPT ![m.to] = MkFence("serving", m.claim)]
           \/ fence' = [fence EXCEPT ![m.to] = ObservePeer(fence[m.to], m.claim)]
        /\ rpcs' \cup adopting' \subseteq rpcs \cup adopting
    BY <1>6 DEF Serve, Adopt, Refused, Lose, disk
  <2>3. RealFences'
    BY <1>1, <1>3, <2>1, <2>2 DEF RealClaims, RealFences, TypeOK
  <2>4. RealMessages'
    BY <1>3, <2>2 DEF RealClaims, RealMessages
  <2> QED
    BY <1>3, <1>4, <2>3, <2>4 DEF RealClaims
<1> QED
  BY <1>5, <1>6

LEMMA RealAdoption ==
    ASSUME TypeOK, RealClaims, NEW m \in adopting, AdoptionWritten(m) \/ AdoptionFailed(m)
    PROVE  RealClaims'
<1>1. /\ m.to \in Node /\ m.claim \in Claim /\ minted \in SUBSET Claim
      /\ KnownIn(minted, m.claim) /\ KnownIn(minted, m.snap)
      /\ fence[m.to] \in Fence
  BY DEF TypeOK, Rpc, RealClaims, RealMessages
<1>2. RealFence(minted, RecordOf(fence[m.to]))
  BY <1>1, RealOperators DEF RealClaims, RealFences
<1>3. /\ minted' = minted /\ journal' = journal /\ rpcs' = rpcs /\ adopting' \subseteq adopting
      /\ fence' = fence
      /\ rec' = rec \/ rec' = [rec EXCEPT ![m.to] = RecordOf(fence[m.to])]
      /\ snap' = snap \/ Served(m)
      /\ RealMinted' /\ RealAdverts' /\ RealBackups'
  BY DEF AdoptionWritten, AdoptionFailed, install, gossip, disk, RealClaims, RealMinted,
         RealAdverts, RealBackups
<1>4. RealFences'
  BY <1>1, <1>2, <1>3 DEF RealClaims, RealFences, TypeOK
<1>5. RealStores'
  <2>1. \A n \in Node : snap'[n] = snap[n] \/ snap'[n] = m.snap
    BY <1>3 DEF Served, TypeOK
  <2> QED
    BY <1>1, <1>3, <2>1 DEF RealClaims, RealStores
<1>6. RealMessages'
  BY <1>3 DEF RealClaims, RealMessages
<1> QED
  BY <1>3, <1>4, <1>5, <1>6 DEF RealClaims

(* `relish council recover` is the one step that starts a council.         *)
LEMMA RealRecover ==
    ASSUME TypeOK, RealClaims, NEW n \in Node, NEW state \in Backup, NEW force \in BOOLEAN,
           Recover(n, state, force)
    PROVE  RealClaims'
<1> DEFINE epoch == 1 + (IF state.claim.epoch > Floor(n) THEN state.claim.epoch ELSE Floor(n))
<1> DEFINE claim == [epoch |-> epoch, id |-> drawn + 1]
<1>1. epoch \in Nat \ {0}
  <2>1. rec[n] \in Fence
    BY DEF TypeOK
  <2>2. Newest(rec[n]) \in Nat
    BY <2>1 DEF Fence, Newest
  <2> QED
    BY <2>2 DEF Floor, Backup, Claim
<1> HIDE DEF epoch
<1>2. /\ minted' = minted \cup {claim}
      /\ journal' = [journal EXCEPT ![n] = [stage |-> "staged", claim |-> claim]]
      /\ \/ rec' = rec
         \/ rec' = [rec EXCEPT ![n] = NoRecord]
      /\ \/ snap' = snap
         \/ snap' = [snap EXCEPT ![n] = journal[n].claim]
      /\ fence' = fence /\ backups' = backups /\ heard' = heard
      /\ rpcs' = rpcs /\ adopting' = adopting
  <2>1. rec = [rec EXCEPT ![n] = rec[n]] /\ snap = [snap EXCEPT ![n] = snap[n]]
    BY DEF TypeOK
  <2> QED
    BY <2>1 DEF Recover, epoch, wire, gossip
<1>3. RealMinted' /\ KnownIn(minted', claim)
  <2>1. RealMinted'
    BY <1>1, <1>2 DEF RealClaims, RealMinted
  <2>2. claim \in minted'
    BY <1>2
  <2> QED
    BY <2>1, <2>2 DEF KnownIn
<1> HIDE DEF claim
<1>4. minted \subseteq minted' /\ RealFence(minted', NoRecord)
  BY <1>2, RealBasics, RealMonotone DEF RealClaims, RealMinted
<1>5. RealFences'
  BY <1>2, <1>4, RealMonotone DEF RealClaims, RealFences, TypeOK
<1>6. RealStores'
  <2>1. \A k \in Node : snap'[k] = snap[k] \/ snap'[k] = journal[n].claim
    BY <1>2 DEF TypeOK
  <2>2. \A k \in Node : journal'[k] = journal[k] \/ journal'[k].claim = claim
    BY <1>2 DEF TypeOK
  <2> QED
    BY <1>3, <1>4, <2>1, <2>2, RealMonotone DEF RealClaims, RealStores
<1>7. RealAdverts' /\ RealMessages' /\ RealBackups'
  BY <1>2, <1>4, RealMonotone DEF RealClaims, RealAdverts, RealMessages, RealBackups
<1> QED
  BY <1>3, <1>5, <1>6, <1>7 DEF RealClaims

LEMMA RealInstall ==
    ASSUME TypeOK, RealClaims, NEW n \in Node, NEW force \in BOOLEAN,
           MoveAside(n) \/ InstallReplacement(n) \/ DropJournal(n) \/ Reenrol(n, force)
    PROVE  RealClaims'
<1>1. RealFence(minted, NoRecord) /\ KnownIn(minted, NoRecovery)
  BY RealBasics DEF RealClaims, RealMinted
<1>2. /\ minted' = minted
      /\ fence' = fence /\ rpcs' = rpcs /\ adopting' = adopting
      /\ rec' = rec \/ rec' = [rec EXCEPT ![n] = NoRecord]
      /\ \/ snap' = snap
         \/ snap' = [snap EXCEPT ![n] = NoRecovery]
         \/ snap' = [snap EXCEPT ![n] = journal[n].claim]
      /\ \E stage \in {"moved", "installed", "none"} :
            \/ journal' = [journal EXCEPT ![n] = [stage |-> stage, claim |-> journal[n].claim]]
            \/ journal' = [journal EXCEPT ![n] = [stage |-> stage, claim |-> NoRecovery]]
      /\ RealMinted' /\ RealAdverts' /\ RealBackups'
  BY DEF MoveAside, InstallReplacement, DropJournal, Reenrol, Emptied, NoJournal, disk, wire,
         gossip, RealClaims, RealMinted, RealAdverts, RealBackups
<1>3. RealFences'
  BY <1>1, <1>2 DEF RealClaims, RealFences, TypeOK
<1>4. RealStores'
  BY <1>1, <1>2 DEF RealClaims, RealStores, TypeOK
<1>5. RealMessages'
  BY <1>2 DEF RealClaims, RealMessages
<1> QED
  BY <1>2, <1>3, <1>4, <1>5 DEF RealClaims

LEMMA RealStep == TypeOK /\ RealClaims /\ [Next]_vars => RealClaims'
<1> SUFFICES ASSUME TypeOK, RealClaims, [Next]_vars PROVE RealClaims'
  OBVIOUS
<1>1. CASE UNCHANGED vars
  BY <1>1 DEF vars, disk, install, wire, gossip, RealClaims, RealMinted, RealFences,
              RealStores, RealAdverts, RealMessages, RealBackups
<1>2. CASE Next
  <2>1. backups \subseteq Backup
    BY DEF TypeOK
  <2>2. CASE \E n \in Node, force \in BOOLEAN : RecoverOwn(n, force)
    BY <2>2, OwnState, RealRecover DEF RecoverOwn
  <2>3. CASE \E n \in Node, b \in backups, force \in BOOLEAN : Recover(n, b, force)
    BY <2>1, <2>3, RealRecover
  <2>4. CASE \E n \in Node, force \in BOOLEAN :
               MoveAside(n) \/ InstallReplacement(n) \/ DropJournal(n) \/ Reenrol(n, force)
    BY <2>4, RealInstall
  <2>5. CASE \E n \in Node : Start(n) \/ Stop(n) \/ Bootstrap(n)
    BY <2>5, RealProcess
  <2>6. CASE \E n, p \in Node : \/ Hear(n, p) \/ Sync(n) \/ Supervise(n) \/ Record(n)
                               \/ Invite(n, p) \/ SaveBackup(n)
    BY <2>6, RealSupervisor
  <2>7. CASE \E n, p \in Node, kind \in Kinds : Send(n, p, kind)
    BY <2>7, RealSend
  <2>8. CASE \E m \in rpcs : Serve(m) \/ Adopt(m) \/ Refuse(m) \/ Refused(m) \/ Lose(m)
    BY <2>8, RealRpc
  <2>9. CASE \E m \in adopting : AdoptionWritten(m) \/ AdoptionFailed(m)
    BY <2>9, RealAdoption
  <2> QED
    BY <1>2, <2>2, <2>3, <2>4, <2>5, <2>6, <2>7, <2>8, <2>9 DEF Next
<1> QED
  BY <1>1, <1>2

(* No node is ever fenced by a council that nobody started, whatever is    *)
(* lost, delayed, restarted or recovered, for every cluster.               *)
THEOREM RealCouncils == Spec => []FencedByRealCouncil
<1>1. Init => RealClaims
  <2> SUFFICES ASSUME Init PROVE RealClaims
    OBVIOUS
  <2>1. RealMinted /\ KnownIn(minted, NoRecovery) /\ RealFence(minted, NoRecord)
    BY RealBasics DEF Init, RealMinted, NoRecovery
  <2>2. RealFence(minted, MkFence("serving", NoRecovery))
    BY <2>1 DEF RealFence, MkFence, ClaimOf, NoRecovery
  <2>3. RealFences
    BY <2>1, <2>2 DEF Init, RealFences
  <2>4. RealStores
    BY <2>1 DEF Init, RealStores, NoJournal
  <2>5. RealAdverts
    BY DEF Init, RealAdverts, Silent
  <2>6. RealMessages /\ RealBackups
    BY <2>1 DEF Init, RealMessages, RealBackups
  <2> QED
    BY <2>1, <2>3, <2>4, <2>5, <2>6 DEF RealClaims
<1>2. RealClaims => FencedByRealCouncil
  <2>1. ASSUME NEW c PROVE Known(c) <=> KnownIn(minted, c)
    BY DEF Known, KnownIn
  <2> QED
    BY <2>1 DEF RealClaims, RealFences, RealFence, FencedByRealCouncil
<1> QED
  BY <1>1, <1>2, RealStep, TypeCorrect, PTL DEF Spec

=============================================================================
