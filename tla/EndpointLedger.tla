--------------------------- MODULE EndpointLedger ---------------------------
(* The replicated half of discovery: the endpoint catalogue, the withdrawals *)
(* its consumers still owe and the executions its producers have fenced      *)
(*   src/onion/withdrawal.rs, src/onion/producer.rs, src/onion/catalog.rs,   *)
(*   and their requests in src/council/state_machine.rs.                     *)
(*                                                                         *)
(* One producer is modelled, and its executions follow each other at one     *)
(* host address.  A backend is the execution the catalogue names there, or   *)
(* Unknown when the report that listed it came before the node knew the      *)
(* execution (execution: None).  A catalogue maps each service to its        *)
(* virtual address and its backends; service ports never change here.        *)
EXTENDS Integers, FiniteSets

CONSTANTS
    Services,       \* the services an operator may declare
    VIPs,           \* the virtual address space
    Executions,     \* the executions of the producer, one after the other
    EpochSpan,      \* 2^RECOVERY_EPOCH_SHIFT: the generations of one recovery epoch
    Capacity        \* MAX_WITHDRAWAL_GENERATIONS

Unknown == "unknown"

ASSUME EndpointLedgerAssumption ==
    EpochSpan \in Nat \ {0} /\ Capacity \in Nat /\ Unknown \notin Executions

Backend == Executions \cup {Unknown}

NoServices == [s \in {} |-> {}]

(* The discovery part of DesiredState. *)
EmptyCouncil ==
    [generation |-> 0, catalog |-> NoServices, pending |-> NoServices,
     consumers |-> {}, fenced |-> {}, epoch |-> 0]

Backends(catalog) == UNION {catalog[s].backends : s \in DOMAIN catalog}
Vips(catalog) == {catalog[s].vip : s \in DOMAIN catalog}

-----------------------------------------------------------------------------
(* ProducerRetirements.  A producer with any fence can no longer publish a   *)
(* backend without an execution.                                             *)
Blocks(fenced, b) == fenced # {} /\ (b = Unknown \/ b \in fenced)

(* The catalogue without the backends the fences block. *)
Withdrawn(fenced, catalog) ==
    [s \in DOMAIN catalog |->
        [vip |-> catalog[s].vip,
         backends |-> {b \in catalog[s].backends : ~Blocks(fenced, b)}]]

(* release_confirmed: the execution is fenced and no consumer still owes a   *)
(* withdrawal that may be about it.                                          *)
ReleaseConfirmed(k, e) ==
    /\ e \in k.fenced
    /\ \A g \in DOMAIN k.pending : \A s \in DOMAIN k.pending[g].services :
           k.pending[g].services[s].backends \cap {e, Unknown} = {}

-----------------------------------------------------------------------------
(* EndpointWithdrawals.                                                     *)

(* The virtual addresses that some consumer may still route by. *)
ReservedVips(k) ==
    {v \in VIPs : \E g \in DOMAIN k.pending :
        \E removed \in {k.pending[g].services[s] : s \in DOMAIN k.pending[g].services} :
            removed.retireVip /\ removed.vip = v}

(* removed_exposures for one service.  A backend that was published before   *)
(* its execution was known, and is listed again with it, is not withdrawn.   *)
SameRoute(previous, next, s) ==
    s \in DOMAIN next /\ next[s].vip = previous[s].vip

RemovedBackends(previous, next, s) ==
    IF SameRoute(previous, next, s)
    THEN {b \in previous[s].backends :
             b \notin next[s].backends /\ ~(b = Unknown /\ next[s].backends # {})}
    ELSE previous[s].backends

RemovedExposures(previous, next) ==
    [s \in {s \in DOMAIN previous :
              ~SameRoute(previous, next, s) \/ RemovedBackends(previous, next, s) # {}} |->
        [vip |-> previous[s].vip,
         backends |-> RemovedBackends(previous, next, s),
         retireVip |-> ~SameRoute(previous, next, s)]]

(* The ledger once `next` is published: every registered consumer owes the   *)
(* withdrawal of what the previous generation exposed and this one does not. *)
PlannedPending(k, next) ==
    LET removed == RemovedExposures(k.catalog, next)
    IN  IF k.consumers = {} \/ DOMAIN removed = {}
        THEN k.pending
        ELSE [g \in DOMAIN k.pending \cup {k.generation} |->
                 IF g = k.generation
                 THEN [services |-> removed, consumers |-> k.consumers]
                 ELSE k.pending[g]]

Planned(k, next) ==
    IF next = k.catalog THEN k
    ELSE [generation |-> k.generation + 1, catalog |-> next,
          pending |-> PlannedPending(k, next),
          consumers |-> k.consumers, fenced |-> k.fenced, epoch |-> k.epoch]

(* check_reservations, before and after the withdrawals of this very         *)
(* publication join the ledger; validate_allocations; check_capacity.        *)
CheckReservations(k, next) == Vips(next) \cap ReservedVips(k) = {}

OverCapacity(k) == Cardinality(DOMAIN k.pending) > Capacity

CanPublish(k, next) ==
    /\ \A s, t \in DOMAIN next : s # t => next[s].vip # next[t].vip
    /\ CheckReservations(k, next)
    /\ \A g \in DOMAIN k.pending : g < k.generation
    /\ next # k.catalog =>
           /\ ~OverCapacity(Planned(k, next))
           /\ CheckReservations(Planned(k, next), next)

(* The receipts of consumer n leave the withdrawals `about`; one nobody owes *)
(* any more is forgotten. *)
Receipted(pending, about, n) ==
    LET owed == [g \in DOMAIN pending |->
                    [services |-> pending[g].services,
                     consumers |-> IF g \in about THEN pending[g].consumers \ {n}
                                                  ELSE pending[g].consumers]]
    IN  [g \in {g \in DOMAIN pending : owed[g].consumers # {}} |-> owed[g]]

-----------------------------------------------------------------------------
(* The requests of the state machine; a refused one changes nothing.        *)

RegisterConsumer(k, n) == [k EXCEPT !.consumers = @ \cup {n}]

AcknowledgeWithdrawal(k, n, g) ==
    IF n \in k.consumers /\ g # 0 /\ g < k.generation
    THEN [k EXCEPT !.pending = Receipted(@, {g}, n)]
    ELSE k

(* Mutant of DischargeConsumer: the withdrawals the consumer owes stay. *)
DischargeConsumerOnly(k, n) == [k EXCEPT !.consumers = @ \ {n}]

(* retire_consumer: the ledger stops waiting for n altogether. *)
DischargeConsumer(k, n) ==
    IF n \in k.consumers
    THEN [k EXCEPT !.consumers = @ \ {n},
                   !.pending = Receipted(@, DOMAIN @, n)]
    ELSE k

RetireExecution(k, e) ==
    LET fenced == k.fenced \cup {e}
        next == Withdrawn(fenced, k.catalog)
    IN  IF CanPublish(k, next)
        THEN [Planned(k, next) EXCEPT !.fenced = fenced]
        ELSE k

(* The publication was built from generation `expected`; it is refused when  *)
(* another was committed since, or when it names a fenced execution.         *)
PublishEndpoints(k, expected, next) ==
    IF /\ expected = k.generation
       /\ \A b \in Backends(next) : ~Blocks(k.fenced, b)
       /\ CanPublish(k, next)
    THEN Planned(k, next)
    ELSE k

(* Mutant of EnterRecoveryEpoch: the restored council counts on from its     *)
(* backup. *)
EnterRecoveryEpochUnlifted(k, floor) ==
    [k EXCEPT !.epoch = (IF @ > floor THEN @ ELSE floor) + 1]

(* enter_recovery_epoch: a council restored from a backup publishes above    *)
(* everything its predecessor may have published.                            *)
EpochFloor(epoch) == epoch * EpochSpan

EnterRecoveryEpoch(k, floor) ==
    LET epoch == (IF k.epoch > floor THEN k.epoch ELSE floor) + 1
    IN  [k EXCEPT !.epoch = epoch,
                  !.generation = IF @ > EpochFloor(epoch) THEN @ ELSE EpochFloor(epoch)]
=============================================================================
