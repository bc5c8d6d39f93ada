--------------------------- MODULE RecoveryFence ---------------------------
(***************************************************************************)
(* The recovery-epoch fence of the council: src/council/fence.rs, its       *)
(* supervisor src/cluster/recovery_fence.rs, the Raft transport that        *)
(* consults it (src/council/network.rs) and the two offline commands that   *)
(* move a node to another council, `relish council recover` and             *)
(* `relish council re-enrol` (src/council/recovery.rs and                   *)
(* src/council/recovery_storage.rs).                                        *)
(*                                                                         *)
(* `recover` re-bootstraps one survivor as a new council at a higher epoch  *)
(* with a random recovery id.  The voters it replaced still hold the old    *)
(* membership on disk.  A node that learns of a newer epoch, or of its own  *)
(* epoch from another recovery, fences itself for good.                     *)
(*                                                                         *)
(* Raft itself (openraft) is external: any serving member may send an RPC   *)
(* to any other member, and serving an RPC makes the receiver's Raft store  *)
(* non-fresh.  Every node has join seeds in its configuration.              *)
(***************************************************************************)
EXTENDS Integers, FiniteSets

CONSTANTS
    Node,            \* the nodes of the cluster
    Founders,        \* the voters of the council at epoch 0
    Links,           \* <<n, p>>: the datagrams of p reach n (gossip may be cut)
    MaxRecoveries,   \* bound: `relish council recover` runs
    MaxEpoch,        \* bound: the highest recovery epoch
    MaxStops,        \* bound: process stops and crashes
    MaxInFlight,     \* bound: Raft RPCs and refusals on the wire
    MaxBackups,      \* bound: distinct sealed backups
    Kinds            \* bound: the kinds of Raft RPC exchanged

ASSUME FenceAssumption ==
    /\ Founders \subseteq Node
    /\ Links \subseteq Node \X Node
    /\ MaxRecoveries \in Nat
    /\ MaxEpoch \in Nat
    /\ MaxStops \in Nat
    /\ MaxInFlight \in Nat
    /\ MaxBackups \in Nat
    /\ Kinds \subseteq {"append", "snapshot"}

VARIABLES
    up,        \* the running nodes
    fence,     \* the in-memory FenceSnapshot of each node
    rec,       \* the fence record in the node's Raft directory
    log,       \* the Raft directory: "none", "fresh" (no vote, no log), "held"
    snap,      \* the recovery claim in the directory's Raft snapshot
    members,   \* the council membership the directory holds
    acted,     \* the claims of the councils whose RPCs this Raft store acted on
    journal,   \* the recovery journal beside the Raft directory
    aside,     \* the fence record an unfinished recovery has moved aside
    heard,     \* recovery_claims of the node's gossip directory
    synced,    \* the nodes whose gossip has completed a table exchange
    rpcs,      \* Raft requests and refusals on the wire
    adopting,  \* RPCs whose handler awaits the write of an adopted epoch
    backups,   \* what the sealed backups hold: a claim and a membership
    drawn,     \* recovery ids drawn so far
    minted,    \* the claims some council has started from
    stops      \* process stops so far

disk == <<rec, log, snap, members, acted>>
install == <<journal, aside, backups, drawn, minted>>
wire == <<rpcs, adopting>>
gossip == <<heard, synced>>
vars == <<up, fence, disk, install, wire, gossip, stops>>

-----------------------------------------------------------------------------
(* Claims and fences.  Recovery id 0 stands for None.                       *)

Claim == [epoch: Nat, id: Nat]
NoRecovery == [epoch |-> 0, id |-> 0]

FenceStates == {"none", "unclaimed", "probing", "serving", "fenced", "split"}
Fence == [state: FenceStates, epoch: Nat, id: Nat, by: Nat, other: Nat]

MkFence(state, claim) ==
    [state |-> state, epoch |-> claim.epoch, id |-> claim.id, by |-> 0, other |-> 0]
NoRecord == MkFence("none", NoRecovery)

ClaimOf(f) == [epoch |-> f.epoch, id |-> f.id]
IsFenced(f) == f.state \in {"fenced", "split"}
Newest(f) == IF f.state = "fenced" /\ f.by > f.epoch THEN f.by ELSE f.epoch

ConflictsWith(own, peer) ==
    /\ own.epoch = peer.epoch
    /\ own.id # 0
    /\ peer.id # 0
    /\ own.id # peer.id

\* Mutant: names the last epoch it would still refuse, one below the newest.
RefusalClaimBelow(f) == [epoch |-> Newest(f) - 1, id |-> 0]

\* Mutant: names the node's own recovery id whatever the newest epoch is.
RefusalClaimOwnId(f) == [epoch |-> Newest(f), id |-> f.id]

\* The newest epoch the node knows, with its own id only when it is its own.
RefusalClaim(f) ==
    [epoch |-> Newest(f),
     id    |-> IF Newest(f) = f.epoch /\ f.state # "unclaimed" THEN f.id ELSE 0]

\* Mutant: takes the newer epoch for its own instead of fencing.
FenceIfNewerFollows(f, epoch) ==
    IF epoch <= Newest(f) THEN f
    ELSE [state |-> f.state, epoch |-> epoch, id |-> f.id,
          by |-> f.by, other |-> f.other]

FenceIfNewer(f, epoch) ==
    IF epoch <= Newest(f) THEN f
    ELSE IF f.state = "unclaimed"
         THEN [state |-> f.state, epoch |-> epoch, id |-> f.id,
               by |-> f.by, other |-> f.other]
         ELSE [state |-> "fenced", epoch |-> f.epoch, id |-> f.id,
               by |-> epoch, other |-> 0]

\* Mutant: a serving node no longer looks for a rival recovery of its epoch.
SplitIfProbing(f, peer) ==
    IF f.state = "probing" /\ ConflictsWith(ClaimOf(f), peer)
    THEN [state |-> "split", epoch |-> f.epoch, id |-> f.id,
          by |-> 0, other |-> peer.id]
    ELSE f

SplitIfConflicting(f, peer) ==
    IF f.state \in {"serving", "probing"} /\ ConflictsWith(ClaimOf(f), peer)
    THEN [state |-> "split", epoch |-> f.epoch, id |-> f.id,
          by |-> 0, other |-> peer.id]
    ELSE f

\* One sender's claim, as admit applies it to a node that will not serve it.
Confronted(f, peer) == SplitIfConflicting(FenceIfNewer(f, peer.epoch), peer)

\* observe_peer: a claim that moved the epoch fence is not looked at again.
ObservePeer(f, peer) ==
    IF FenceIfNewer(f, peer.epoch) # f
    THEN FenceIfNewer(f, peer.epoch)
    ELSE SplitIfConflicting(f, peer)

Finish(f) ==
    IF f.state = "probing"
    THEN [state |-> "serving", epoch |-> f.epoch, id |-> f.id,
          by |-> f.by, other |-> f.other]
    ELSE f

\* What write_record leaves on disk; an unfenced record reads as "serving".
RecordOf(f) ==
    [state |-> IF IsFenced(f) THEN f.state ELSE "serving",
     epoch |-> f.epoch, id |-> f.id, by |-> f.by, other |-> f.other]

\* Mutant: forgets a split when it reads the record back.
ResumedUnsplit(r, unfenced) ==
    [state |-> IF r.state = "fenced" THEN r.state ELSE unfenced,
     epoch |-> r.epoch, id |-> r.id, by |-> r.by, other |-> r.other]

\* FenceRecord::snapshot for an unfenced record, else the record's own fence.
Resumed(r, unfenced) ==
    [state |-> IF IsFenced(r) THEN r.state ELSE unfenced,
     epoch |-> r.epoch, id |-> r.id, by |-> r.by, other |-> r.other]

\* RecoveryFence::load.  Only a recovered snapshot bootstraps (all nodes have
\* join seeds), so bootstrapping is a fresh store whose snapshot has an epoch.
Load(r, claim, held) ==
    IF r.state # "none"
    THEN Resumed(r, IF held THEN "probing" ELSE "serving")
    ELSE MkFence(IF held THEN "probing"
                 ELSE IF claim.epoch > 0 THEN "serving" ELSE "unclaimed", claim)

-----------------------------------------------------------------------------
(* Gossip adverts, RPCs, backups and the recovery journal.                  *)

Advert == [said: {"nothing", "unclaimed", "claim"}, epoch: Nat, id: Nat]
Silent == [said |-> "nothing", epoch |-> 0, id |-> 0]
AdvertOf(f) ==
    IF f.state = "unclaimed"
    THEN [said |-> "unclaimed", epoch |-> 0, id |-> 0]
    ELSE [said |-> "claim", epoch |-> f.epoch, id |-> f.id]

Rpc == [kind: {"append", "snapshot", "refused"}, from: Node, to: Node,
        claim: Claim, snap: Claim, members: SUBSET Node]

Backup == [claim: Claim, members: SUBSET Node]

Journal == [stage: {"none", "staged", "moved", "installed"}, claim: Claim]
NoJournal == [stage |-> "none", claim |-> NoRecovery]

TypeOK ==
    /\ up \subseteq Node
    /\ fence \in [Node -> Fence]
    /\ rec \in [Node -> Fence]
    /\ log \in [Node -> {"none", "fresh", "held"}]
    /\ snap \in [Node -> Claim]
    /\ members \in [Node -> SUBSET Node]
    /\ acted \in [Node -> SUBSET Claim]
    /\ journal \in [Node -> Journal]
    /\ aside \in [Node -> Fence]
    /\ heard \in [Node -> [Node -> Advert]]
    /\ synced \subseteq Node
    /\ rpcs \subseteq Rpc
    /\ adopting \subseteq Rpc
    /\ backups \subseteq Backup
    /\ drawn \in Nat
    /\ minted \subseteq Claim
    /\ stops \in Nat

\* The founders are stopped voters of the epoch-0 council with their fence
\* recorded; every other node has an empty data directory.
Init ==
    /\ up = {}
    /\ fence = [n \in Node |-> NoRecord]
    /\ rec = [n \in Node |->
                IF n \in Founders THEN MkFence("serving", NoRecovery) ELSE NoRecord]
    /\ log = [n \in Node |-> IF n \in Founders THEN "held" ELSE "none"]
    /\ snap = [n \in Node |-> NoRecovery]
    /\ members = [n \in Node |-> IF n \in Founders THEN Founders ELSE {}]
    /\ acted = [n \in Node |-> IF n \in Founders THEN {NoRecovery} ELSE {}]
    /\ journal = [n \in Node |-> NoJournal]
    /\ aside = [n \in Node |-> NoRecord]
    /\ heard = [n \in Node |-> [p \in Node |-> Silent]]
    /\ synced = {}
    /\ rpcs = {}
    /\ adopting = {}
    /\ backups = {[claim |-> NoRecovery, members |-> Founders]}
    /\ drawn = 0
    /\ minted = {NoRecovery}
    /\ stops = 0

-----------------------------------------------------------------------------
(* A process starts and stops.                                              *)

\* open_raft_storage first finishes a pending recovery (the Finish steps
\* below), then load reads the fence.
Start(n) ==
    /\ n \notin up
    /\ journal[n].stage = "none"
    /\ up' = up \cup {n}
    /\ log' = [log EXCEPT ![n] = IF @ = "none" THEN "fresh" ELSE @]
    /\ fence' = [fence EXCEPT ![n] = Load(rec[n], snap[n], log[n] = "held")]
    /\ heard' = [heard EXCEPT ![n] = [p \in Node |-> Silent]]
    /\ UNCHANGED <<rec, snap, members, acted, install, wire, synced, stops>>

\* Memory goes, with the RPCs this process was to answer or be answered.
Stop(n) ==
    /\ n \in up
    /\ stops < MaxStops
    /\ stops' = stops + 1
    /\ up' = up \ {n}
    /\ fence' = [fence EXCEPT ![n] = NoRecord]
    /\ heard' = [heard EXCEPT ![n] = [p \in Node |-> Silent]]
    /\ synced' = synced \ {n}
    /\ rpcs' = {m \in rpcs : m.to # n}
    /\ adopting' = {m \in adopting : m.to # n}
    /\ UNCHANGED <<disk, install>>

\* A survivor `relish council recover` stamped forms its one-voter council.
Bootstrap(n) ==
    /\ n \in up
    /\ log[n] = "fresh"
    /\ snap[n].epoch > 0
    /\ log' = [log EXCEPT ![n] = "held"]
    /\ members' = [members EXCEPT ![n] = {n}]
    /\ UNCHANGED <<up, fence, rec, snap, acted, install, wire, gossip, stops>>

-----------------------------------------------------------------------------
(* The fence supervisor and gossip.                                         *)

\* A peer's datagram brings its advertised claim into the directory.
Hear(n, p) ==
    /\ n \in up
    /\ p \in up \ {n}
    /\ <<n, p>> \in Links
    /\ heard[n][p] # AdvertOf(fence[p])
    /\ heard' = [heard EXCEPT ![n][p] = AdvertOf(fence[p])]
    /\ UNCHANGED <<up, fence, disk, install, wire, synced, stops>>

\* A push-pull exchange with a peer opens the probe window.
Sync(n) ==
    /\ n \in up \ synced
    /\ \E p \in up \ {n} : <<n, p>> \in Links
    /\ synced' = synced \cup {n}
    /\ UNCHANGED <<up, fence, disk, install, wire, heard, stops>>

\* Every claim in the directory, observed in any order: the newest epoch
\* decides, and a rival recovery of the node's own epoch only without one.
Observed(f, adverts) ==
    LET said  == {a \in adverts : a.said = "claim"}
        newer == {FenceIfNewer(f, a.epoch) : a \in said}
        top   == {g \in newer : \A h \in newer : Newest(h) <= Newest(g)}
        moved == {g \in top : g # f}
        split == {SplitIfConflicting(f, ClaimOf(a)) : a \in said} \ {f}
    IN IF moved # {} THEN moved ELSE IF split # {} THEN split ELSE {f}

Peers(n) == members[n] \ {n}
EveryPeerHeard(n) ==
    IF Peers(n) = {} THEN n \in synced
    ELSE \A p \in Peers(n) : heard[n][p].said # "nothing"

\* One pass of the supervisor: observe the directory, then end the probe when
\* every persisted peer has advertised or the window has run out.  A probe may
\* also go on: the window is still open, or openraft is loading its membership.
Supervise(n) ==
    /\ n \in up
    /\ \E f \in Observed(fence[n], {heard[n][p] : p \in Node}) :
         \/ fence' = [fence EXCEPT ![n] = f]
         \/ /\ EveryPeerHeard(n) \/ n \in synced
            /\ fence' = [fence EXCEPT ![n] = Finish(f)]
    /\ fence' # fence
    /\ UNCHANGED <<up, disk, install, wire, gossip, stops>>

\* The supervisor's write lands.  It runs whenever the fence has changed and is
\* retried until it succeeds; a stop before it loses the change.
Record(n) ==
    /\ n \in up
    /\ fence[n].state # "unclaimed"
    /\ rec[n] # RecordOf(fence[n])
    /\ rec' = [rec EXCEPT ![n] = RecordOf(fence[n])]
    /\ UNCHANGED <<up, fence, log, snap, members, acted, install, wire, gossip, stops>>

-----------------------------------------------------------------------------
(* The Raft transport.                                                      *)

\* The reconciler invites a live member, never one on an older epoch.
Invite(n, p) ==
    /\ n \in up
    /\ p \in up
    /\ fence[n].state = "serving"
    /\ n \in members[n]
    /\ p \notin members[n]
    /\ ~ (heard[n][p].said = "claim" /\ heard[n][p].epoch < fence[n].epoch)
    /\ members' = [members EXCEPT ![n] = @ \cup {p}]
    /\ UNCHANGED <<up, fence, rec, log, snap, acted, install, wire, gossip, stops>>

\* Only a serving node has an outbound claim.
Send(n, p, kind) ==
    /\ n \in up
    /\ fence[n].state = "serving"
    /\ n \in members[n]
    /\ p \in Peers(n)
    /\ Cardinality(rpcs) < MaxInFlight
    /\ rpcs' = rpcs \cup {[kind |-> kind, from |-> n, to |-> p,
                           claim |-> ClaimOf(fence[n]), snap |-> snap[n],
                           members |-> members[n]]}
    /\ UNCHANGED <<up, fence, disk, install, adopting, gossip, stops>>

\* openraft handles the RPC: its vote or log makes the store non-fresh, a
\* snapshot brings the council's state, and entries reach a store that holds it.
Served(m) ==
    /\ log' = [log EXCEPT ![m.to] = "held"]
    /\ acted' = [acted EXCEPT ![m.to] = @ \cup {m.claim}]
    /\ snap' = [snap EXCEPT ![m.to] = IF m.kind = "snapshot" THEN m.snap ELSE @]
    /\ members' = [members EXCEPT ![m.to] =
                     IF m.kind = "snapshot" \/ m.snap = snap[m.to] THEN m.members ELSE @]

Refusal(m, f) ==
    [kind |-> "refused", from |-> m.to, to |-> m.from, claim |-> RefusalClaim(f),
     snap |-> NoRecovery, members |-> {}]

\* Mutant: a serving node hands any RPC to Raft.
ServeAny(m) ==
    /\ m.to \in up
    /\ m.kind # "refused"
    /\ fence[m.to].state = "serving"
    /\ Served(m)
    /\ rpcs' = rpcs \ {m}
    /\ UNCHANGED <<up, fence, rec, install, adopting, gossip, stops>>

\* Admission::Serve: the sender is on this node's epoch and recovery.
Serve(m) ==
    /\ m.to \in up
    /\ m.kind # "refused"
    /\ fence[m.to].state = "serving"
    /\ fence[m.to].epoch = m.claim.epoch
    /\ ~ ConflictsWith(ClaimOf(fence[m.to]), m.claim)
    /\ Served(m)
    /\ rpcs' = rpcs \ {m}
    /\ UNCHANGED <<up, fence, rec, install, adopting, gossip, stops>>

\* Admission::Adopted: the claim is taken at once, the RPC waits for the disk.
Adopt(m) ==
    /\ m.to \in up
    /\ m.kind # "refused"
    /\ fence[m.to].state = "unclaimed"
    /\ m.claim.epoch >= fence[m.to].epoch
    /\ fence' = [fence EXCEPT ![m.to] = MkFence("serving", m.claim)]
    /\ rpcs' = rpcs \ {m}
    /\ adopting' = adopting \cup {m}
    /\ UNCHANGED <<up, disk, install, gossip, stops>>

\* The adopted epoch is durable: the handler hands the RPC to Raft.
AdoptionWritten(m) ==
    /\ rec' = [rec EXCEPT ![m.to] = RecordOf(fence[m.to])]
    /\ Served(m)
    /\ adopting' = adopting \ {m}
    /\ UNCHANGED <<up, fence, install, rpcs, gossip, stops>>

\* The write failed: the RPC is dropped, the claim stays in memory.
AdoptionFailed(m) ==
    /\ adopting' = adopting \ {m}
    /\ UNCHANGED <<up, fence, disk, install, rpcs, gossip, stops>>

\* Admission::Refuse: the sender reveals something new, or is told of it.
Refuse(m) ==
    LET f == fence[m.to]
        g == IF f.state = "unclaimed" THEN f ELSE Confronted(f, m.claim)
    IN /\ m.to \in up
       /\ m.kind # "refused"
       /\ IF f.state = "unclaimed" THEN m.claim.epoch < f.epoch
          ELSE \/ f.state # "serving"
               \/ f.epoch # m.claim.epoch
               \/ ConflictsWith(ClaimOf(f), m.claim)
       /\ fence' = [fence EXCEPT ![m.to] = g]
       /\ rpcs' = (rpcs \ {m}) \cup (IF m.from \in up THEN {Refusal(m, g)} ELSE {})
       /\ UNCHANGED <<up, disk, install, adopting, gossip, stops>>

\* The sender reads a refusal.
Refused(m) ==
    /\ m.kind = "refused"
    /\ fence' = [fence EXCEPT ![m.to] = ObservePeer(fence[m.to], m.claim)]
    /\ rpcs' = rpcs \ {m}
    /\ UNCHANGED <<up, disk, install, adopting, gossip, stops>>

\* A connection breaks or an RPC times out.
Lose(m) ==
    /\ rpcs' = rpcs \ {m}
    /\ UNCHANGED <<up, fence, disk, install, adopting, gossip, stops>>

-----------------------------------------------------------------------------
(* The offline commands, run on a stopped node.                             *)

\* A leader's sealed backup of its state.
SaveBackup(n) ==
    /\ n \in up
    /\ fence[n].state = "serving"
    /\ log[n] = "held"
    /\ n \in members[n]
    /\ [claim |-> snap[n], members |-> members[n]] \notin backups
    /\ Cardinality(backups) < MaxBackups
    /\ backups' = backups \cup {[claim |-> snap[n], members |-> members[n]]}
    /\ UNCHANGED <<up, fence, disk, journal, aside, drawn, minted, wire, gossip, stops>>

\* The newest epoch the directory's fence record knows, 0 without a record.
Floor(n) == IF rec[n].state = "none" THEN 0 ELSE Newest(rec[n])

\* `relish council recover`: the restored state (a backup, or the directory's
\* own) enters an epoch above itself and above the record, and the replacement
\* directory is journalled.  A recovery already journalled is installed first,
\* after the record has been read.  A voter that does not answer counts as
\* gone, so the live-voter guard only refuses a state that names no voters.
Recover(n, state, force) ==
    LET epoch == 1 + (IF state.claim.epoch > Floor(n) THEN state.claim.epoch ELSE Floor(n))
        claim == [epoch |-> epoch, id |-> drawn + 1]
        owed  == journal[n].stage \in {"staged", "moved"}
    IN /\ n \notin up
       /\ drawn < MaxRecoveries
       /\ epoch <= MaxEpoch
       /\ force \/ (state.members # {} /\ ~ IsFenced(rec[n]))
       /\ drawn' = drawn + 1
       /\ minted' = minted \cup {claim}
       /\ journal' = [journal EXCEPT ![n] = [stage |-> "staged", claim |-> claim]]
       /\ aside' = [aside EXCEPT ![n] = NoRecord]
       /\ rec' = [rec EXCEPT ![n] = IF owed THEN NoRecord ELSE @]
       /\ log' = [log EXCEPT ![n] = IF owed \/ @ = "none" THEN "fresh" ELSE @]
       /\ snap' = [snap EXCEPT ![n] = IF owed THEN journal[n].claim ELSE @]
       /\ members' = [members EXCEPT ![n] = IF owed THEN {} ELSE @]
       /\ acted' = [acted EXCEPT ![n] = IF owed THEN {} ELSE @]
       /\ UNCHANGED <<up, fence, backups, wire, gossip, stops>>

\* Without --from, the state is the directory's own: opening it finishes a
\* pending recovery first, and an empty one is refused.
RecoverOwn(n, force) ==
    /\ journal[n].stage = "none"
    /\ log[n] = "held" \/ snap[n].epoch > 0
    /\ Recover(n, [claim |-> snap[n], members |-> members[n]], force)

Emptied(n) ==
    /\ rec' = [rec EXCEPT ![n] = NoRecord]
    /\ log' = [log EXCEPT ![n] = "none"]
    /\ snap' = [snap EXCEPT ![n] = NoRecovery]
    /\ members' = [members EXCEPT ![n] = {}]
    /\ acted' = [acted EXCEPT ![n] = {}]

\* finish_pending, one durable step at a time: `recover` runs it, and the next
\* start or command resumes it after a crash.
MoveAside(n) ==
    /\ n \notin up
    /\ journal[n].stage = "staged"
    /\ journal' = [journal EXCEPT ![n] = [stage |-> "moved", claim |-> journal[n].claim]]
    /\ aside' = [aside EXCEPT ![n] = rec[n]]
    /\ Emptied(n)
    /\ UNCHANGED <<up, fence, backups, drawn, minted, wire, gossip, stops>>

InstallReplacement(n) ==
    /\ n \notin up
    /\ journal[n].stage = "moved"
    /\ journal' = [journal EXCEPT ![n] = [stage |-> "installed", claim |-> journal[n].claim]]
    /\ log' = [log EXCEPT ![n] = "fresh"]
    /\ snap' = [snap EXCEPT ![n] = journal[n].claim]
    /\ UNCHANGED <<up, fence, rec, members, acted, aside, backups, drawn, minted,
                   wire, gossip, stops>>

DropJournal(n) ==
    /\ n \notin up
    /\ journal[n].stage = "installed"
    /\ journal' = [journal EXCEPT ![n] = NoJournal]
    /\ aside' = [aside EXCEPT ![n] = NoRecord]
    /\ UNCHANGED <<up, fence, disk, backups, drawn, minted, wire, gossip, stops>>

\* `relish council re-enrol`: drop the directory of a fenced node (of any node
\* with --force), finishing a pending recovery so that it cannot come back.
Reenrol(n, force) ==
    /\ n \notin up
    /\ log[n] # "none" \/ journal[n].stage # "none"
    /\ force \/ IsFenced(rec[n])
    /\ journal' = [journal EXCEPT ![n] = NoJournal]
    /\ aside' = [aside EXCEPT ![n] = NoRecord]
    /\ Emptied(n)
    /\ UNCHANGED <<up, fence, backups, drawn, minted, wire, gossip, stops>>

-----------------------------------------------------------------------------
Next ==
    \/ \E n \in Node : Start(n)
    \/ \E n \in Node : Stop(n)
    \/ \E n \in Node : Bootstrap(n)
    \/ \E n, p \in Node : Hear(n, p)
    \/ \E n \in Node : Sync(n)
    \/ \E n \in Node : Supervise(n)
    \/ \E n \in Node : Record(n)
    \/ \E n, p \in Node : Invite(n, p)
    \/ \E n, p \in Node, kind \in Kinds : Send(n, p, kind)
    \/ \E m \in rpcs : Serve(m)
    \/ \E m \in rpcs : Adopt(m)
    \/ \E m \in rpcs : Refuse(m)
    \/ \E m \in rpcs : Refused(m)
    \/ \E m \in rpcs : Lose(m)
    \/ \E m \in adopting : AdoptionWritten(m)
    \/ \E m \in adopting : AdoptionFailed(m)
    \/ \E n \in Node : SaveBackup(n)
    \/ \E n \in Node, b \in backups, force \in BOOLEAN : Recover(n, b, force)
    \/ \E n \in Node, force \in BOOLEAN : RecoverOwn(n, force)
    \/ \E n \in Node : MoveAside(n)
    \/ \E n \in Node : InstallReplacement(n)
    \/ \E n \in Node : DropJournal(n)
    \/ \E n \in Node, force \in BOOLEAN : Reenrol(n, force)

Spec == Init /\ [][Next]_vars

\* Gossip keeps arriving and the supervisor keeps running; the operator's
\* commands, process starts and Raft traffic are not owed to anyone.
Fairness ==
    /\ \A n, p \in Node : WF_vars(Hear(n, p))
    /\ \A n \in Node : WF_vars(Supervise(n))
    /\ \A n \in Node : WF_vars(Record(n))

LiveSpec == Spec /\ Fairness

-----------------------------------------------------------------------------
(* Properties.                                                              *)

\* A fence that reached the disk binds the running process: whoever wrote the
\* record last (supervisor or adopting RPC handler), and however often the
\* node restarted since, load never brings a recorded fence back unfenced.
RecordedFenceBinds ==
    \A n \in up : IsFenced(rec[n]) => IsFenced(fence[n])

\* A claim names a council that some recovery really started (or epoch 0); an
\* unknown id matches any.
Known(claim) ==
    \E m \in minted : m.epoch = claim.epoch /\ (claim.id = 0 \/ claim.id = m.id)

\* A node is only ever fenced by a council that exists: fenced names an epoch
\* above its own that a recovery reached, split names another recovery of its
\* own epoch.  Refusals, adverts and records only ever repeat such claims.
FencedByRealCouncil ==
    \A n \in Node : \A f \in {fence[n], rec[n]} :
        /\ f.state = "fenced" =>
              f.by > f.epoch /\ Known([epoch |-> f.by, id |-> 0])
        /\ f.state = "split" =>
              f.other # f.id /\ [epoch |-> f.epoch, id |-> f.other] \in minted

\* The newest epoch a process knows never sinks, whichever of gossip, an RPC
\* or a refusal tells it and in whatever order, and a node that claims a
\* council keeps that claim for as long as it runs.
KnowledgeOnlyGrows ==
    [][\A n \in up \cap up' :
          /\ Newest(fence'[n]) >= Newest(fence[n])
          /\ fence[n].state # "unclaimed" => ClaimOf(fence'[n]) = ClaimOf(fence[n])
          /\ IsFenced(fence[n]) => IsFenced(fence'[n])]_vars

\* A Raft store only ever acts on the RPCs of one council: a node never mixes
\* the logs of two epochs or of two recoveries of one epoch.  (An adopted epoch
\* is served before it is written, so a store that adopts one and stops before
\* the write may act for a second council; the runs that check this have one
\* process stop, which re-enrolling a voter already takes.)
OneCouncilPerStore ==
    \A n \in Node : \A c, d \in acted[n] : c = d

\* Rival councils: two nodes serve Raft, on different epochs or recoveries.
Rivals(pair) ==
    /\ pair \subseteq {n \in up : fence[n].state = "serving"}
    /\ \E n, p \in pair : ClaimOf(fence[n]) # ClaimOf(fence[p])

\* Once gossip connects two running nodes for good, they do not serve Raft as
\* rivals for ever, and what fenced either of them reaches its disk.
RivalsEnd ==
    \A pair \in {s \in SUBSET Node : Cardinality(s) = 2} :
        <>[](pair \subseteq up) =>
            <>[](~ Rivals(pair) /\ \A n \in pair : IsFenced(fence[n]) => IsFenced(rec[n]))

=============================================================================
