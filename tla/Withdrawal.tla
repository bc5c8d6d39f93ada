----------------------------- MODULE Withdrawal -----------------------------
(***************************************************************************)
(* How a cluster takes a workload's address out of use:                     *)
(*   src/onion/lease.rs               view leases and the leader's contacts  *)
(*   src/cluster/consumer.rs          discharging silent consumers, receipts *)
(*   src/cluster/orchestrate.rs       building the catalogue, polling        *)
(*   src/bun/api/internal.rs          the leader's handlers                  *)
(*   src/bun/agent/consumer.rs        a node's journalled view               *)
(*   src/bun/agent/producer_release.rs  the producer's release               *)
(*                                                                         *)
(* The leader publishes a catalogue of who listens where.  Every node polls  *)
(* it, journals the view it is about to install, installs it and then        *)
(* routes by it while its lease runs.  When an execution stops, its producer *)
(* fences it at the council and frees its address only after every consumer  *)
(* has confirmed that it stopped routing there, or has been silent so long   *)
(* that its lease must have ended.                                           *)
(*                                                                         *)
(* Time is counted in ticks.  The lease starts when a poll is sent, the      *)
(* leader's count when it is served.  Raft (openraft) is external: a read    *)
(* after confirm_leadership sees every earlier commit, and an entry whose    *)
(* write timed out commits later or never.                                   *)
(***************************************************************************)
EXTENDS EndpointLedger, Sequences

CONSTANTS
    Nodes,          \* the nodes of the cluster
    Producer,       \* the node that runs the executions
    Lease,          \* CONSUMER_VIEW_LEASE, in ticks
    DischargeAfter, \* CONSUMER_DISCHARGE_AFTER, in ticks
    Settings        \* the settings a behaviour may have: see Setting

(* What is fixed for a behaviour, and its bounds. *)
Setting ==
    [consumers: SUBSET Nodes,   \* the nodes whose agents take part
     declared: SUBSET Services, \* the services declared at first
     first: Executions,         \* the execution that runs at first
     listed: SUBSET Backend,    \* how the first catalogue lists it
     executions: SUBSET Executions,
     crashes: Nat,              \* bound: agents that crash
     elections: Nat,            \* bound: another voter takes over
     reelections: Nat,          \* bound: the same voter leads again in a new term
     recoveries: Nat,           \* bound: councils restored from a backup
     lost: Nat,                 \* bound: polls, answers and writes whose outcome is lost
     drains: Nat,               \* bound: times open requests hold back a withdrawal
     flaps: Nat,                \* bound: times the producer's backends drop out
     changes: Nat]              \* bound: services declared or removed

(* One address: a first catalogue that lists it lists one backend there, the *)
(* execution that runs at first or an unknown one.                           *)
ASSUME WithdrawalAssumption ==
    /\ Lease \in Nat \ {0} /\ DischargeAfter \in Nat /\ DischargeAfter > Lease
    /\ Settings \subseteq Setting
    /\ \A s \in Settings : /\ s.listed \in {{}, {s.first}, {Unknown}}
                           /\ s.first \in s.executions \/ s.executions = {}

VARIABLES
    council,    \* the committed discovery state
    backup,     \* the newest backup of it
    term,       \* the leader's term
    contacts,   \* ConsumerContacts: whom this leader has served, and when
    scan,       \* the discharges the leader's tick has decided and not yet written
    late,       \* discharges whose write timed out and may still commit
    report,     \* the producer's newest report under this leader, if any
    plan,       \* a catalogue the leader has built and not yet written
    declared,   \* the services of the desired state
    poll,       \* each node's placement poll
    agent,      \* each node's agent: what it holds in memory and in the kernel
    journal,    \* each node's ConsumerOwnership on disk
    execution,  \* where each execution is in its life
    confirmed,  \* the executions this council's answers have released
    faults,     \* the bounded events so far
    setting     \* the setting of this behaviour, which never changes

leader == <<term, contacts, scan, late, report, plan>>
nodes == <<poll, agent, journal>>
workload == <<declared, execution, confirmed>>
vars == <<council, backup, leader, nodes, workload, faults, setting>>

Bounded(kind) == faults[kind] < setting[kind]
Count(kind) == faults' = [faults EXCEPT ![kind] = @ + 1]

Least(a, b) == IF a < b THEN a ELSE b
Greatest(a, b) == IF a > b THEN a ELSE b

-----------------------------------------------------------------------------
(* Data.                                                                    *)

Idle == [stage |-> "idle"]
NoPlan == [generation |-> -1]
NoReport == [known |-> FALSE, backends |-> {}]

NoRequest == [at |-> "none"]
LocalRequest == -1      \* the age of a request that no poll is waiting for

EmptyAgent ==
    [up |-> TRUE, view |-> NoServices, lapsed |-> FALSE, lease |-> 0, stale |-> FALSE,
     waiting |-> NoRequest, sync |-> NoRequest]

EmptyJournal == [publications |-> <<>>, phase |-> "Withdrawn", receipts |-> NoServices]

Publication(n, generation, catalog) ==
    [generation |-> generation, catalog |-> catalog,
     effective |-> [s \in DOMAIN catalog |->
        [vip |-> catalog[s].vip,
         backends |-> IF n = Producer
                      THEN {e \in catalog[s].backends : e # Unknown /\ execution[e] = "running"}
                      ELSE catalog[s].backends]]]

(* ConsumerPublication::intersects: whether a view exposes something that    *)
(* the withdrawal of `generation` removes.  A later catalogue that lists a   *)
(* backend again means it.                                                   *)
Intersects(publication, generation, removed) ==
    \E s \in DOMAIN removed :
        \/ removed[s].retireVip /\ removed[s].vip \in Vips(publication.effective)
        \/ /\ publication.generation <= generation
           /\ \E b \in removed[s].backends :
                 IF b = Unknown THEN Backends(publication.catalog) # {}
                                ELSE b \in Backends(publication.catalog)

-----------------------------------------------------------------------------
(* The producer's executions.                                               *)

Live(e) == execution[e] \in {"running", "retiring"}

(* The next execution takes the address its predecessors have freed. *)
Start(e) ==
    /\ e \in setting.executions /\ execution[e] = "new"
    /\ \A x \in setting.executions : execution[x] \in {"new", "released"}
    /\ execution' = [execution EXCEPT ![e] = "running"]
    /\ agent' = [agent EXCEPT ![Producer].stale = Producer \in setting.consumers]
    /\ UNCHANGED <<council, backup, leader, poll, journal, declared, confirmed, faults, setting>>

(* A retirement first withdraws the backend from the node's own map. *)
Retire(e) ==
    /\ execution[e] = "running"
    /\ execution' = [execution EXCEPT ![e] = "retiring"]
    /\ agent' = [agent EXCEPT ![Producer].stale = Producer \in setting.consumers]
    /\ UNCHANGED <<council, backup, leader, poll, journal, declared, confirmed, faults, setting>>

Stop(e) ==
    /\ execution[e] = "retiring"
    /\ execution' = [execution EXCEPT ![e] = "stopped"]
    /\ UNCHANGED <<council, backup, leader, nodes, declared, confirmed, faults, setting>>

(* Mutant of OwnViewNames: the view a synchronisation is about to publish    *)
(* does not count. *)
OwnViewNamesPublished(e) ==
    LET j == journal[Producer]
    IN  /\ j.phase # "Withdrawn"
        /\ \E i \in DOMAIN j.publications : e \in Backends(j.publications[i].effective)

(* own_view_names: a view this node published, or is about to publish, still *)
(* routes to the execution. *)
OwnViewNames(e) ==
    LET j == journal[Producer]
        sync == agent[Producer].sync
        names(p) == e \in Backends(p.effective)
    IN  \/ /\ j.phase # "Withdrawn"
           /\ \E i \in DOMAIN j.publications : names(j.publications[i])
        \/ sync.at \notin {"none", "activate", "compact"} /\ names(sync.publication)

(* confirm_producer_release and producer_retirement_handler.  The leader     *)
(* answers from committed state once the fence is there, and otherwise       *)
(* commits it.  The answer may be lost; a stopped execution whose            *)
(* withdrawal is confirmed gives up its address.                             *)
AskRelease(e) ==
    /\ execution[e] \in {"retiring", "stopped"}
    /\ agent[Producer].up
    /\ ~OwnViewNames(e)
    /\ LET k == IF e \in council.fenced /\ Withdrawn(council.fenced, council.catalog) = council.catalog
                THEN council ELSE RetireExecution(council, e)
       IN  /\ council' = k
           /\ \/ /\ ReleaseConfirmed(k, e) /\ execution[e] = "stopped"
                 /\ execution' = [execution EXCEPT ![e] = "released"]
                 /\ confirmed' = confirmed \cup {e}
              \/ /\ k # council
                 /\ UNCHANGED <<execution, confirmed>>
    /\ UNCHANGED <<backup, leader, nodes, declared, faults, setting>>

Declare(s) ==
    /\ Bounded("changes") /\ Count("changes")
    /\ declared' = IF s \in declared THEN declared \ {s} ELSE declared \cup {s}
    /\ UNCHANGED <<council, backup, leader, nodes, execution, confirmed, setting>>

-----------------------------------------------------------------------------
(* The leader's tick: reports, the catalogue, discharges.                   *)

(* The producer reports what it runs. *)
Report ==
    /\ agent[Producer].up
    /\ report' = [known |-> TRUE, backends |-> {e \in setting.executions : Live(e)}]
    /\ UNCHANGED <<council, backup, term, contacts, scan, late, plan, nodes, workload, faults,
                   setting>>

(* build_endpoint_catalog.  A producer that has not reported to this leader  *)
(* keeps the backends the committed catalogue gave it; one whose report has  *)
(* gone stale, or that gossip has lost, has none.  Executions belong to the  *)
(* services in turn: each serves every declared service here.                *)
ReportedBackends(s, present) ==
    IF ~present THEN {}
    ELSE {b \in IF report.known THEN report.backends
                ELSE IF s \in DOMAIN council.catalog THEN council.catalog[s].backends ELSE {} :
            ~Blocks(council.fenced, b)}

(* reconcile_reserving: a listed service keeps its virtual address, a new    *)
(* one takes an address that nothing listed or withdrawn still holds.        *)
Allocations(catalog, reserved, services) ==
    LET kept == services \cap DOMAIN catalog
        free == VIPs \ (Vips(catalog) \cup reserved)
    IN  {a \in [services -> VIPs] :
            /\ \A s \in kept : a[s] = catalog[s].vip
            /\ \A s \in services \ kept : a[s] \in free
            /\ \A s, t \in services : s # t => a[s] # a[t]}

BuildCatalog ==
    /\ plan = NoPlan
    /\ \E present \in BOOLEAN, a \in Allocations(council.catalog, ReservedVips(council), declared) :
        LET next == [s \in declared |->
                        [vip |-> a[s], backends |-> ReportedBackends(s, present)]]
        IN  /\ IF present THEN UNCHANGED faults ELSE Bounded("flaps") /\ Count("flaps")
            /\ next # council.catalog
            /\ ~OverCapacity(Planned(council, next))
            /\ plan' = [generation |-> council.generation, catalog |-> next]
    /\ UNCHANGED <<council, backup, term, contacts, scan, late, report, nodes, workload, setting>>

Publish ==
    /\ plan # NoPlan
    /\ council' = PublishEndpoints(council, plan.generation, plan.catalog)
    /\ plan' = NoPlan
    /\ UNCHANGED <<backup, term, contacts, scan, late, report, nodes, workload, faults, setting>>

(* ConsumerContacts.  Contacts of another term prove nothing: start afresh. *)
ObserveTerm(c) ==
    IF c.term = term THEN c
    ELSE [term |-> term, since |-> 0, served |-> NoServices, discharging |-> {}]

Silence(c, n) ==
    IF n \in DOMAIN c.served THEN Least(c.served[n], c.since) ELSE c.since

Served(c, n) ==
    [c EXCEPT !.served = [m \in DOMAIN c.served \cup {n} |->
                             IF m = n THEN 0 ELSE c.served[m]]]

FinishDischarge(c, finished) ==
    [c EXCEPT !.discharging = @ \ finished,
              !.served = [m \in DOMAIN c.served \ finished |-> c.served[m]]]

Lapsed(c, alive) ==
    {n \in council.consumers \ (alive \cup c.discharging) :
        Silence(c, n) >= DischargeAfter}

Unsettled == ObserveTerm(contacts).discharging

(* discharge_lapsed_consumers, first half: decide under the contacts' lock.  *)
(* Gossip lists `alive`. *)
DecideDischarges(alive) ==
    LET c == ObserveTerm(contacts)
        lapsed == Lapsed(c, alive)
    IN  /\ scan = {} /\ Unsettled = {}
        /\ lapsed # {}
        /\ contacts' = [c EXCEPT !.discharging = @ \cup lapsed]
        /\ scan' = lapsed
        /\ UNCHANGED <<council, backup, term, late, report, plan, nodes, workload, faults, setting>>

(* Second half: one write at a time.  A write that times out leaves its      *)
(* consumer unserved, and may still commit.                                  *)
WriteDischarge(n) ==
    /\ n \in scan
    /\ scan' = scan \ {n}
    /\ \/ /\ council' = DischargeConsumer(council, n)
          /\ contacts' = FinishDischarge(contacts, {n})
          /\ UNCHANGED <<late, faults>>
       \/ /\ Bounded("lost") /\ Count("lost")
          /\ late' = late \cup {n}
          /\ UNCHANGED <<council, contacts>>
    /\ UNCHANGED <<backup, term, report, plan, nodes, workload, setting>>

CommitLate(n) ==
    /\ n \in late
    /\ council' = DischargeConsumer(council, n)
    /\ late' = late \ {n}
    /\ UNCHANGED <<backup, term, contacts, scan, report, plan, nodes, workload, faults, setting>>

(* The next tick: a barrier write settles every unknown outcome, for an      *)
(* entry that has not committed before it never will.                        *)
SettleDischarges ==
    /\ scan = {} /\ Unsettled # {}
    /\ contacts' = FinishDischarge(ObserveTerm(contacts), Unsettled)
    /\ late' = {}
    /\ UNCHANGED <<council, backup, term, scan, report, plan, nodes, workload, faults, setting>>

(* Another voter leads: its contacts and reports start empty, and the writes *)
(* its predecessor still means to make are refused. *)
Elect ==
    /\ Bounded("elections") /\ Count("elections")
    /\ term' = term + 1
    /\ report' = NoReport
    /\ scan' = {} /\ late' = {} /\ plan' = NoPlan
    /\ poll' = [n \in Nodes |-> Idle]
    /\ UNCHANGED <<council, backup, contacts, agent, journal, workload, setting>>

(* The leader loses its term and wins the next one: the discharges it has    *)
(* decided and not yet written are still to be written.                      *)
Reelect ==
    /\ Bounded("reelections") /\ Count("reelections")
    /\ term' = term + 1
    /\ report' = NoReport
    /\ late' = {}
    /\ poll' = [n \in Nodes |-> Idle]
    /\ UNCHANGED <<council, backup, contacts, scan, plan, agent, journal, workload, setting>>

(* A backup is taken; the council is lost and restored from it.  Restoring   *)
(* takes an operator longer than a lease runs: every lease has ended.        *)
Backup ==
    /\ Bounded("recoveries")
    /\ backup' = council
    /\ UNCHANGED <<council, leader, nodes, workload, faults, setting>>

Outlived(n) ==
    /\ agent[n].lease = 0 /\ poll[n] = Idle
    /\ \A r \in {agent[n].waiting, agent[n].sync} \ {NoRequest} : r.age \in {LocalRequest, Lease}

Recover ==
    /\ Bounded("recoveries") /\ Count("recoveries")
    /\ \A n \in Nodes : Outlived(n)
    /\ council' = EnterRecoveryEpoch(backup, council.epoch)
    /\ term' = term + 1
    /\ report' = NoReport
    /\ scan' = {} /\ late' = {} /\ plan' = NoPlan
    /\ confirmed' = {}
    /\ UNCHANGED <<backup, contacts, nodes, declared, execution, setting>>

-----------------------------------------------------------------------------
(* A poll.  The lease counts from before the request leaves the node, the    *)
(* leader from when it records the contact; no time passes between the two   *)
(* here, which gives the node the longest lease against the leader's count.  *)
(* An answer that is slow to arrive is like one that waits in the agent.     *)

Busy(n) == agent[n].waiting # NoRequest \/ agent[n].sync # NoRequest

(* poll_consumer, which waits for the agent's reply or gives up on it, and   *)
(* the leader that proves it leads and records the contact.  It turns the    *)
(* poll away while a discharge of this consumer is under way.                *)
Poll(n) ==
    LET c == ObserveTerm(contacts)
    IN  /\ n \in setting.consumers
        /\ agent[n].up /\ poll[n] = Idle
        /\ n \notin c.discharging
        /\ IF Busy(n) THEN Bounded("lost") /\ Count("lost") ELSE UNCHANGED faults
        /\ contacts' = Served(c, n)
        /\ poll' = [poll EXCEPT ![n] = [stage |-> "recorded", age |-> 0]]
        /\ UNCHANGED <<council, backup, term, scan, late, report, plan, agent, journal, workload,
                       setting>>

(* The state is read after the contact is recorded, and a consumer that is   *)
(* not registered is registered before it sees a catalogue.  The agent keeps *)
(* the answer for when a synchronisation under way has ended, in place of    *)
(* one already waiting (request_consumer_sync); or the answer is lost.       *)
Answer(n) ==
    LET k == RegisterConsumer(council, n)
        owed == {g \in DOMAIN k.pending : n \in k.pending[g].consumers}
        request == [at |-> "waiting", age |-> poll[n].age,
                    generation |-> k.generation, catalog |-> k.catalog,
                    withdrawals |-> [g \in owed |-> k.pending[g].services]]
        superseded == agent[n].waiting # NoRequest /\ agent[n].waiting.age = LocalRequest
        answered == [agent[n] EXCEPT !.waiting = request, !.stale = @ \/ superseded]
    IN  /\ poll[n].stage = "recorded"
        /\ council' = k
        /\ poll' = [poll EXCEPT ![n] = Idle]
        /\ \/ agent' = [agent EXCEPT ![n] = answered] /\ UNCHANGED faults
           \/ Bounded("lost") /\ Count("lost") /\ UNCHANGED agent
        /\ UNCHANGED <<backup, leader, journal, workload, setting>>

-----------------------------------------------------------------------------
(* The agent's synchronisation, one journal write a step.  Each step reads   *)
(* the journal afresh; between two of them the agent may crash.              *)

Latest(j) == j.publications[Len(j.publications)]
IsLatest(j, publication) == j.publications # <<>> /\ Latest(j) = publication

(* Mutant of Done: a local republication renews the lease as well. *)
DoneRenewingAlways(a, published) ==
    [a EXCEPT !.sync = NoRequest,
              !.lease = IF published THEN Greatest(@, Lease - a.sync.age) ELSE @]

(* Mutant of Done: the lease runs from when the view is published. *)
DoneFromNow(a, published) ==
    [a EXCEPT !.sync = NoRequest,
              !.lease = IF published /\ a.sync.age # LocalRequest THEN Lease ELSE @,
              !.stale = @ \/ (~published /\ a.sync.age = LocalRequest)]

(* answer_consumer_sync: the lease runs from the moment the poll was sent,   *)
(* and only once its view is published.  A local republication that fails    *)
(* leaves the view stale.                                                    *)
Done(a, published) ==
    [a EXCEPT !.sync = NoRequest,
              !.lease = IF published /\ a.sync.age # LocalRequest
                        THEN Greatest(@, Lease - a.sync.age) ELSE @,
              !.stale = @ \/ (~published /\ a.sync.age = LocalRequest)]

At(n, step) == agent[n].up /\ agent[n].sync.at = step
Goto(a, step) == [a EXCEPT !.sync.at = step]
Sync(n, a, j) ==
    /\ agent' = [agent EXCEPT ![n] = a]
    /\ journal' = [journal EXCEPT ![n] = j]
    /\ UNCHANGED <<council, backup, leader, poll, workload, setting>>

(* Mutant of Regressed: the generation already journalled is a regression. *)
RegressedOrSame(j, request) ==
    j.publications # <<>> /\ request.generation <= Latest(j).generation

(* consumer_candidate: a generation that regressed or changed is refused. *)
Regressed(j, request) ==
    /\ j.publications # <<>>
    /\ \/ request.generation < Latest(j).generation
       \/ request.generation = Latest(j).generation /\ request.catalog # Latest(j).catalog

StartSync(n) ==
    LET request == agent[n].waiting
        taken == [agent[n] EXCEPT !.waiting = NoRequest,
                    !.sync = [at |-> "journal", age |-> request.age,
                              publication |-> Publication(n, request.generation, request.catalog),
                              withdrawals |-> request.withdrawals]]
    IN  /\ agent[n].up /\ agent[n].sync = NoRequest /\ request # NoRequest
        /\ Sync(n, IF Regressed(journal[n], request) THEN Done(taken, FALSE) ELSE taken, journal[n])
        /\ UNCHANGED faults

(* journal_consumer_answer: note the withdrawals this node owes, then        *)
(* replace the view in place when one is active, or withdraw everything      *)
(* first when it is not certain what is exposed.                             *)
Noted(receipts, withdrawals) ==
    [g \in DOMAIN receipts \cup DOMAIN withdrawals |->
        IF g \in DOMAIN receipts THEN receipts[g]
        ELSE [removed |-> withdrawals[g], ready |-> FALSE]]

Resurrects(receipts, publication) ==
    \E g \in DOMAIN receipts :
        receipts[g].ready /\ Intersects(publication, g, receipts[g].removed)

InstructionChanged(receipts, withdrawals) ==
    \E g \in DOMAIN receipts \cap DOMAIN withdrawals : receipts[g].removed # withdrawals[g]

Appended(j, publication) ==
    IF IsLatest(j, publication) THEN j.publications ELSE Append(j.publications, publication)

Installed(a, publication) ==
    [a EXCEPT !.view = publication.effective, !.lapsed = FALSE]

JournalAnswer(n) ==
    LET a == agent[n]
        j == journal[n]
        publication == a.sync.publication
        receipts == Noted(j.receipts, a.sync.withdrawals)
    IN  /\ At(n, "journal")
        /\ CASE InstructionChanged(j.receipts, a.sync.withdrawals)
                    \/ Resurrects(receipts, publication) ->
                    Sync(n, Done(a, FALSE), j)
             [] OTHER ->
                    IF j.phase # "Active"
                    THEN Sync(n, Goto(a, "withdraw"),
                              [publications |-> Appended(j, publication),
                               phase |-> "Withdrawing", receipts |-> receipts])
                    ELSE IF ~IsLatest(j, publication)
                    THEN Sync(n, Goto(a, "install"),
                              [publications |-> Appended(j, publication),
                               phase |-> "Publishing", receipts |-> receipts])
                    ELSE Sync(n, Goto(IF a.lapsed THEN Installed(a, publication) ELSE a, "compact"),
                              [j EXCEPT !.receipts = receipts])
        /\ UNCHANGED faults

(* withdraw_consumer_view_within: nothing stays exposed; the journal says so *)
(* once the requests that captured a backend have ended.                     *)
WithdrawView(n) ==
    LET cleared == [agent[n] EXCEPT !.view = NoServices, !.lapsed = FALSE]
    IN  /\ At(n, "withdraw")
        /\ \/ /\ Sync(n, Goto(cleared, "prove"), [journal[n] EXCEPT !.phase = "Withdrawn"])
              /\ UNCHANGED faults
           \/ /\ Bounded("drains") /\ Count("drains")
              /\ Sync(n, Done(cleared, FALSE), journal[n])

Proven(receipts, publication) ==
    [g \in DOMAIN receipts |->
        [removed |-> receipts[g].removed,
         ready |-> receipts[g].ready \/ ~Intersects(publication, g, receipts[g].removed)]]

ProveReceipts(n) ==
    LET j == journal[n]
        publication == agent[n].sync.publication
    IN  /\ At(n, "prove")
        /\ IF Resurrects(j.receipts, publication)
           THEN Sync(n, Done(agent[n], FALSE), j)
           ELSE Sync(n, Goto(agent[n], "publish"),
                     [j EXCEPT !.receipts = Proven(@, publication)])
        /\ UNCHANGED faults

PublishView(n) ==
    /\ At(n, "publish")
    /\ Sync(n, Goto(agent[n], "install"),
            [journal[n] EXCEPT !.publications = <<agent[n].sync.publication>>,
                               !.phase = "Publishing"])
    /\ UNCHANGED faults

(* apply_consumer_publication, once the write that announced it has landed. *)
InstallView(n) ==
    /\ At(n, "install")
    /\ Sync(n, Goto(Installed(agent[n], agent[n].sync.publication), "activate"), journal[n])
    /\ UNCHANGED faults

Activate(n) ==
    /\ At(n, "activate")
    /\ Sync(n, Goto(agent[n], "compact"), [journal[n] EXCEPT !.phase = "Active"])
    /\ UNCHANGED faults

(* compact_consumer_publications: earlier views are forgotten, and receipts  *)
(* proven, once no open request can hold one of their backends.              *)
Compact(n) ==
    LET j == journal[n]
    IN  /\ At(n, "compact")
        /\ \/ /\ Sync(n, Done(agent[n], TRUE),
                      [j EXCEPT !.publications = <<Latest(j)>>,
                                !.receipts = Proven(@, Latest(j))])
              /\ UNCHANGED faults
           \/ /\ Len(j.publications) > 1
              /\ Bounded("drains") /\ Count("drains")
              /\ Sync(n, Done(agent[n], TRUE), j)

(* local_view: the part of the published view that runs on this node now. *)
LocalView(n, published) ==
    [s \in DOMAIN published |->
        [vip |-> published[s].vip,
         backends |-> IF n = Producer
                      THEN {e \in published[s].backends : execution[e] = "running"} ELSE {}]]

Fenced(n) ==
    [agent[n] EXCEPT !.view = LocalView(n, Latest(journal[n]).effective), !.lapsed = TRUE]

(* start_consumer_refresh: a local change republishes the last catalogue, or *)
(* the local part of it once the lease has lapsed.                           *)
Refresh(n) ==
    LET a == agent[n]
        j == journal[n]
        current(b) == [b EXCEPT !.stale = FALSE]
    IN  /\ a.up /\ a.stale /\ ~Busy(n)
        /\ Sync(n, IF j.phase # "Active" THEN current(a)
                   ELSE IF a.lease = 0 THEN current(Fenced(n))
                   ELSE [current(a) EXCEPT
                           !.waiting = [at |-> "waiting", age |-> LocalRequest,
                                        generation |-> Latest(j).generation,
                                        catalog |-> Latest(j).catalog,
                                        withdrawals |-> NoServices]],
                j)
        /\ UNCHANGED faults

(* fence_lapsed_view: only this node's own backends stay installed. *)
FenceLapsedView(n) ==
    /\ agent[n].up /\ agent[n].lease = 0
    /\ journal[n].phase = "Active"
    /\ agent[n] # Fenced(n)
    /\ Sync(n, Fenced(n), journal[n])
    /\ UNCHANGED faults

(* A proven receipt is delivered until the leader acknowledges it and the    *)
(* journal forgets it.  A receipt that arrives late is like one sent later:  *)
(* its generation never comes back.                                          *)
DeliverReceipt(n, g) ==
    /\ agent[n].up /\ g \in DOMAIN journal[n].receipts
    /\ journal[n].receipts[g].ready
    /\ n \in council.consumers /\ g < council.generation
    /\ council' = AcknowledgeWithdrawal(council, n, g)
    /\ \/ /\ journal' = [journal EXCEPT ![n].receipts =
                            [h \in DOMAIN @ \ {g} |-> @[h]]]
          /\ UNCHANGED faults
       \/ Bounded("lost") /\ Count("lost") /\ UNCHANGED journal
    /\ UNCHANGED <<backup, leader, poll, agent, workload, setting>>

(* Bun dies: the kernel keeps the installed view and its lease. *)
Crash(n) ==
    /\ n \in setting.consumers /\ agent[n].up
    /\ Bounded("crashes") /\ Count("crashes")
    /\ agent' = [agent EXCEPT ![n] = [@ EXCEPT !.up = FALSE, !.waiting = NoRequest,
                                               !.sync = NoRequest, !.stale = FALSE]]
    /\ poll' = [poll EXCEPT ![n] = Idle]
    /\ UNCHANGED <<council, backup, leader, journal, workload, setting>>

(* recover_consumer_ownership, in two steps: the journal says Withdrawing,   *)
(* then the view is withdrawn and the lease starts expired.                  *)
BeginRestart(n) ==
    /\ ~agent[n].up /\ journal[n].phase # "Withdrawing"
    /\ Sync(n, agent[n], [journal[n] EXCEPT !.phase = "Withdrawing"])
    /\ UNCHANGED faults

FinishRestart(n) ==
    /\ ~agent[n].up /\ journal[n].phase = "Withdrawing"
    /\ Sync(n, [agent[n] EXCEPT !.up = TRUE, !.view = NoServices, !.lapsed = FALSE, !.lease = 0],
            [journal[n] EXCEPT !.phase = "Withdrawn"])
    /\ UNCHANGED faults

-----------------------------------------------------------------------------
(* Time.                                                                    *)

Aged(request) ==
    IF request = NoRequest \/ request.age = LocalRequest THEN request
    ELSE [request EXCEPT !.age = Least(@ + 1, Lease)]

Tick ==
    /\ agent' = [n \in Nodes |->
          [agent[n] EXCEPT !.lease = Greatest(@ - 1, 0),
                           !.waiting = Aged(@), !.sync = Aged(@)]]
    /\ poll' = [n \in Nodes |-> IF poll[n] = Idle THEN Idle
                                ELSE [poll[n] EXCEPT !.age = Least(@ + 1, Lease)]]
    /\ contacts' = [contacts EXCEPT
          !.since = Least(@ + 1, DischargeAfter),
          !.served = [n \in DOMAIN @ |-> Least(@[n] + 1, DischargeAfter)]]
    /\ UNCHANGED <<council, backup, term, scan, late, report, plan, journal, workload,
                   faults, setting>>

-----------------------------------------------------------------------------
(* The cluster starts with one catalogue published and nobody polling yet. *)
Init ==
    /\ setting \in Settings
    /\ \E a \in Allocations(NoServices, {}, setting.declared) :
        council = [EmptyCouncil EXCEPT !.generation = 1,
                     !.catalog = [s \in setting.declared |->
                                     [vip |-> a[s], backends |-> setting.listed]]]
    /\ backup = council
    /\ term = 1
    /\ contacts = [term |-> 1, since |-> 0, served |-> NoServices, discharging |-> {}]
    /\ scan = {} /\ late = {}
    /\ report = [known |-> TRUE, backends |-> setting.listed]
    /\ plan = NoPlan
    /\ declared = setting.declared
    /\ poll = [n \in Nodes |-> Idle]
    /\ agent = [n \in Nodes |-> EmptyAgent]
    /\ journal = [n \in Nodes |-> EmptyJournal]
    /\ execution = [e \in Executions |-> IF e = setting.first THEN "running" ELSE "new"]
    /\ confirmed = {}
    /\ faults = [kind \in {"crashes", "elections", "reelections", "recoveries", "lost",
                           "drains", "flaps", "changes"} |-> 0]

LeaderStep ==
    \/ Report \/ BuildCatalog \/ Publish
    \/ \E alive \in SUBSET setting.consumers : DecideDischarges(alive)
    \/ \E n \in Nodes : WriteDischarge(n) \/ CommitLate(n)
    \/ SettleDischarges
    \/ Elect \/ Reelect \/ Backup \/ Recover

SyncStep(n) ==
    \/ StartSync(n) \/ JournalAnswer(n) \/ WithdrawView(n) \/ ProveReceipts(n)
    \/ PublishView(n) \/ InstallView(n) \/ Activate(n) \/ Compact(n)

AgentStep(n) ==
    \/ SyncStep(n)
    \/ Refresh(n) \/ FenceLapsedView(n)
    \/ \E g \in DOMAIN journal[n].receipts : DeliverReceipt(n, g)
    \/ Crash(n) \/ BeginRestart(n) \/ FinishRestart(n)

Next ==
    \/ \E e \in Executions : Start(e) \/ Retire(e) \/ Stop(e) \/ AskRelease(e)
    \/ \E s \in Services : Declare(s)
    \/ LeaderStep
    \/ \E n \in Nodes : Poll(n) \/ Answer(n) \/ AgentStep(n)
    \/ Tick

Spec == Init /\ [][Next]_vars

(* What the code keeps doing: agents poll and finish what they started, the  *)
(* leader's tick runs, the producer asks again, and time passes.  Nobody is  *)
(* bound to crash, to restart or to elect.                                   *)
Working == {n \in setting.consumers : agent[n].up}

Fairness ==
    /\ WF_vars(Tick) /\ WF_vars(Report) /\ WF_vars(BuildCatalog) /\ WF_vars(Publish)
    /\ WF_vars(DecideDischarges(Working)) /\ WF_vars(SettleDischarges)
    /\ \A n \in Nodes :
        /\ WF_vars(WriteDischarge(n))
        /\ WF_vars(Poll(n)) /\ WF_vars(Answer(n))
        /\ WF_vars(SyncStep(n)) /\ WF_vars(Refresh(n))
        /\ WF_vars(\E g \in DOMAIN journal[n].receipts : DeliverReceipt(n, g))
    /\ \A e \in Executions : WF_vars(Stop(e)) /\ WF_vars(AskRelease(e))

LiveSpec == Spec /\ Fairness

-----------------------------------------------------------------------------
(* Properties.                                                              *)

TypeOK ==
    /\ setting \in Settings
    /\ term \in Nat /\ council.generation \in Nat
    /\ council.consumers \subseteq setting.consumers
    /\ scan \subseteq Nodes /\ late \subseteq Nodes
    /\ \A n \in Nodes :
        /\ agent[n].lease \in 0 .. Lease
        /\ journal[n].phase \in {"Publishing", "Active", "Withdrawing", "Withdrawn"}
    /\ \A e \in Executions :
        execution[e] \in {"new", "running", "retiring", "stopped", "released"}

(* What a node routes by: remote backends and names only while its lease     *)
(* runs, its own backends whenever they are installed.                       *)
Uses(n) ==
    LET view == agent[n].view
    IN  {<<"backend", b>> : b \in IF n = Producer \/ agent[n].lease > 0 THEN Backends(view)
                                                                        ELSE {}}
        \cup {<<"name", view[s].vip, s>> : s \in IF agent[n].lease > 0 THEN DOMAIN view ELSE {}}

(* An execution is over once its producer may give its address away; the     *)
(* unknown backend stands for every execution at that address.  A service's  *)
(* name is over while its virtual address belongs to another service.        *)
Ended ==
    {<<"backend", b>> : b \in confirmed \cup {u \in {Unknown} : confirmed # {}}}
        \cup {<<"name", council.catalog[st[2]].vip, st[1]>> :
                 st \in {p \in Services \X DOMAIN council.catalog : p[1] # p[2]}}

Ownership ==
    INSTANCE AddressOwnership WITH
        Node <- Nodes,
        Permanent <- {<<"backend", b>> : b \in Backend},
        uses <- [n \in Nodes |-> Uses(n)],
        ended <- Ended

(* No address is reused while a node still routes by its old meaning: the    *)
(* whole protocol implements AddressOwnership.                               *)
AddressesAreOwned == Ownership!Spec

(* A node that the ledger does not wait for may not route to other nodes:    *)
(* the leader discharges a consumer only after its lease has run out, and    *)
(* nobody is served without being registered.                                *)
UnregisteredHaveNoLease ==
    \A n \in Nodes \ council.consumers : agent[n].lease = 0

(* A node never refuses the council it belongs to: whatever the leader       *)
(* answers next is newer than the newest view the node has journalled, also  *)
(* after the council was restored from a backup.                             *)
ConsumersFollowCouncil ==
    \A n \in Nodes : journal[n].publications # <<>> =>
        LET latest == Latest(journal[n])
        IN  \/ latest.generation < council.generation
            \/ latest.generation = council.generation /\ latest.catalog = council.catalog

(* A retiring execution's address is freed in the end, whichever consumers   *)
(* crash, as long as its own node runs.                                      *)
AddressFreed ==
    \A e \in Executions :
        execution[e] = "retiring" ~> (execution[e] = "released" \/ ~agent[Producer].up)

(* A running node publishes the committed catalogue again and again: nothing *)
(* it has journalled makes it refuse for good.                               *)
InStep(n) ==
    /\ journal[n].phase = "Active" /\ agent[n].sync = NoRequest
    /\ Latest(journal[n]).generation = council.generation

NodesCatchUp == \A n \in Nodes : []<>(n \in Working => InStep(n))
=============================================================================
