--------------------------- MODULE FleetUpgrade ---------------------------
(***************************************************************************)
(* The rolling upgrade of a cluster: upgrade/orchestrator.rs (step,        *)
(* poll_and_drive_group, resume, abort, supersede, run_orchestrator), the  *)
(* council's UpgradeUpdate and UpgradeClear, and the operator's handlers   *)
(* in bun/api/upgrade.rs, over the nodes of NodeUpgrade.                   *)
(*                                                                         *)
(* The run lives in the council.  A leader's tick reads it, then awaits    *)
(* one probe or one directive at a time, then writes it back: between any  *)
(* two of those a node may stop, swap, commit or revert, the leader may be *)
(* deposed, and an answer may be lost.  Time is left out: a timeout may    *)
(* pass whenever the code compares a clock, within a bound.                *)
(***************************************************************************)
EXTENDS NodeUpgrade, Sequences

CONSTANTS
    Order,      \* the nodes in the order of the plan
    Target,     \* the release an upgrade installs
    Settings    \* the clusters to look at, see SettingType

(* failures  processes that die at a step, binaries that fail their trial  *)
(* losses    probes, directives or answers that do not arrive              *)
(* timeouts  clocks that run out (NODE_TIMEOUT, DIRECTIVE_RETRY_WINDOW)    *)
(* depositions  a serving leader loses its leadership                      *)
(* faults    writes or execs that fail                                     *)
(* waits     ticks that find a node's next attempt not yet due             *)
(* runs      upgrades, retries and rollbacks the operator asks for         *)
Bounds == {"failures", "losses", "timeouts", "depositions", "faults", "waits", "runs"}
SettingType ==
    [role: [Nodes -> {"worker", "council", "leader", "absent"}],
     parallel: Nat \ {0}, left: [Bounds -> Nat]]

ASSUME FleetConstants ==
    /\ IsFiniteSet(Nodes)
    /\ Order \in Seq(Nodes)
    /\ \A n \in Nodes : \E i \in DOMAIN Order : Order[i] = n
    /\ \A i, j \in DOMAIN Order : Order[i] = Order[j] => i = j
    /\ Target \in Versions /\ Target > Base
    /\ Settings \subseteq SettingType
    /\ \A s \in Settings :
           /\ Cardinality({n \in Nodes : s.role[n] \in {"council", "leader"}}) # 2
           /\ s.left["runs"] <= Cardinality(Ids)
    /\ IsFiniteSet(Ids) /\ Ids = 1 .. Cardinality(Ids)

VARIABLES
    run,        \* DesiredState.active_upgrade
    leader,     \* the council's leader, or NoLeader
    tick,       \* each voter's orchestrator tick
    scene       \* roles, batch size and what is left of the bounds

fleetVars == <<run, leader, tick>>
vars == <<nodeVars, fleetVars, scene>>

Role(n) == scene.role[n]

Members == {n \in Nodes : scene.role[n] # "absent"}
Voters == {n \in Nodes : scene.role[n] \in {"council", "leader"}}

Position == [n \in Nodes |-> CHOOSE i \in DOMAIN Order : Order[i] = n]

TargetOf(r) == IF r.direction = "upgrade" THEN Target ELSE Base

(* What a node is told: a rollback's directive carries no run id.          *)
DirectiveId(r) == IF r.direction = "upgrade" THEN r.id ELSE RollbackId(Base)

NoLeader == "nobody"
NoRun == [id |-> 0, direction |-> "none", phase |-> "none",
          rec |-> [n \in Nodes |-> "pending"], retry |-> [n \in Nodes |-> FALSE]]
NoTick == [st |-> NoRun, at |-> "none", todo |-> {}, answer |-> "none",
           alive |-> {}, sent |-> {}, dirty |-> FALSE]

Phases == {"preparing", "workers", "council", "transferring", "leading",
           "completed", "paused", "aborted", "superseded"}
Records == {"pending", "directed", "verifying", "healthy", "failed"}

Spend(what) ==
    /\ scene.left[what] > 0
    /\ scene' = [scene EXCEPT !.left[what] = @ - 1]

Up == {n \in Members : Serving(n)}

Init ==
    /\ NodeInit
    /\ run = NoRun
    /\ tick = [v \in Nodes |-> NoTick]
    /\ scene \in Settings
    /\ leader \in {v \in Nodes : scene.role[v] = "leader"}

(***************************************************************************)
(* The council.                                                            *)
(***************************************************************************)
Quorum == 2 * Cardinality(Voters \intersect Up) > Cardinality(Voters)

Elect(v) ==
    /\ leader = NoLeader
    /\ Serving(v)
    /\ Quorum
    /\ leader' = v
    /\ UNCHANGED <<nodeVars, run, tick, scene>>

Depose ==
    /\ leader # NoLeader
    /\ Cardinality(Voters) > 1
    /\ Spend("depositions")
    /\ leader' = NoLeader
    /\ UNCHANGED <<nodeVars, run, tick>>

(* apply_request: another run's update is dropped while a run that is not  *)
(* paused is active; with no active run any update is taken.               *)
UpgradeUpdate(r) ==
    IF run # NoRun /\ run.id # r.id /\ run.phase # "paused" THEN run ELSE r

(* Mutant of UpgradeClear: the run keeps its slot and only loses its phase. *)
UpgradeClearPhase(id) == IF run.id = id THEN [run EXCEPT !.phase = "none"] ELSE run

UpgradeClear(id) == IF run.id = id THEN NoRun ELSE run

(***************************************************************************)
(* Nodes in the fleet.  A process that ends takes its tick and its         *)
(* leadership along, and whoever waits for its answer sees the connection  *)
(* drop.  A pass of a tick takes its nodes in the order of the plan.       *)
(***************************************************************************)
Turn(t, n) == n \in t.todo /\ \A m \in t.todo : Position[n] <= Position[m]

Answered(n, answer) ==
    [v \in Nodes |->
        IF tick[v].at = "await" /\ Turn(tick[v], n) /\ tick[v].answer = "none"
        THEN [tick[v] EXCEPT !.answer = answer] ELSE tick[v]]

ProcessEnds(n) ==
    /\ leader' = IF leader = n THEN NoLeader ELSE leader
    /\ tick' = [v \in Nodes |-> IF v = n THEN NoTick ELSE Answered(n, "transient")[v]]
    /\ UNCHANGED run

NodeWorks(n) == Works(n) /\ UNCHANGED <<fleetVars, scene>>

NodeStarts(n) == StartUp(n) /\ UNCHANGED <<fleetVars, scene>>

NodeStages(n) ==
    /\ StageMarker(n)
    /\ tick' = Answered(n, "ok")
    /\ UNCHANGED <<run, leader, scene>>

(* A source that is unavailable past the retry budget is a 503, anything   *)
(* else the node has against the binary is a 409.                          *)
NodeRefuses(n) ==
    /\ PreparationFails(n)
    /\ Spend("faults")
    /\ \E answer \in {"transient", "refused"} : tick' = Answered(n, answer)
    /\ UNCHANGED <<run, leader>>

NodeExecs(n) == Replaces(n) /\ ProcessEnds(n) /\ UNCHANGED scene

NodeExits(n) == RejoinFails(n) /\ Spend("failures") /\ ProcessEnds(n)

NodeCrashes(n) == Crash(n) /\ Spend("failures") /\ ProcessEnds(n)

NodeFailsToWrite(n) == FailsToWrite(n) /\ Spend("faults") /\ UNCHANGED fleetVars

(***************************************************************************)
(* One tick of run_orchestrator.                                           *)
(***************************************************************************)
RoleOf(phase) == CASE phase = "workers" -> "worker"
                   [] phase = "council" -> "council"
                   [] phase = "leading" -> "leader"

Group(st) == {n \in Nodes : Role(n) = RoleOf(st.phase)}
In(st, recs) == {n \in Group(st) : st.rec[n] \in recs}

LiveQuorumHeadroomOk(v, alive) ==
    LET live == {w \in Voters : w = v \/ w \in alive}
    IN  \/ Cardinality(Voters) = 1
        \/ Cardinality(live) - 1 >= (Cardinality(Voters) \div 2) + 1

Budget(st) == IF st.phase = "workers" THEN scene.parallel ELSE 1

MayDirect(v, st, alive) == st.phase = "workers" \/ LiveQuorumHeadroomOk(v, alive)

FirstOf(s, k) ==
    {n \in s : Cardinality({m \in s : Position[m] < Position[n]}) < k}

(* Mutant of ToDirect: a node that waits for its next attempt does not     *)
(* hold its place.                                                         *)
ToDirectSkipping(v, t) ==
    IF MayDirect(v, t.st, t.alive) /\ In(t.st, {"failed"}) = {}
    THEN FirstOf({n \in In(t.st, {"pending"}) : ~t.st.retry[n]},
                 Budget(t.st) - Cardinality(In(t.st, {"directed", "verifying"})))
    ELSE {}

(* Mutant of ToDirect: a failed node does not keep the tick that finds it  *)
(* from directing the next.                                                *)
ToDirectPastFailure(v, t) ==
    IF MayDirect(v, t.st, t.alive)
    THEN FirstOf(In(t.st, {"pending"}),
                 Budget(t.st) - Cardinality(In(t.st, {"directed", "verifying"})))
    ELSE {}

(* Pass 2 fills the budget with pending nodes, in order, unless a node of  *)
(* the group has failed; a node waiting out a transient failure holds its  *)
(* slot.                                                                   *)
ToDirect(v, t) ==
    IF MayDirect(v, t.st, t.alive) /\ In(t.st, {"failed"}) = {}
    THEN FirstOf(In(t.st, {"pending"}),
                 Budget(t.st) - Cardinality(In(t.st, {"directed", "verifying"})))
    ELSE {}

(* Pass 3 sends again what earlier ticks sent and nobody seems to have     *)
(* got.  Rollbacks are not sent again.                                     *)
ToResend(t) ==
    IF t.st.direction = "upgrade"
    THEN In(t.st, {"directed"}) \ t.sent
    ELSE {}

(* Mutant of Settled: a failed node does not pause the run.                *)
SettledIgnoringFailures(st) ==
    LET done == \A n \in Members : Role(n) = RoleOf(st.phase) => st.rec[n] = "healthy"
    IN  [st EXCEPT !.phase =
            IF ~done THEN @
            ELSE CASE @ = "workers" -> "council"
                   [] @ = "council" -> IF \E n \in Members : Role(n) = "leader"
                                       THEN "transferring" ELSE "completed"
                   [] @ = "leading" -> "completed"]

(* What step decides once the group has been driven.                       *)
Settled(st) ==
    LET done == \A n \in Members : Role(n) = RoleOf(st.phase) => st.rec[n] = "healthy"
    IN  [st EXCEPT !.phase =
            IF \E n \in Nodes : st.rec[n] = "failed" THEN "paused"
            ELSE IF ~done THEN @
            ELSE CASE @ = "workers" -> "council"
                   [] @ = "council" -> IF \E n \in Members : Role(n) = "leader"
                                       THEN "transferring" ELSE "completed"
                   [] @ = "leading" -> "completed"]

(* A pass with nothing left to do gives way to the next.                   *)
AfterResend(t) ==
    IF t.todo # {} THEN t
    ELSE [t EXCEPT !.at = "write", !.st = Settled(@),
                   !.dirty = @ \/ Settled(t.st) # t.st]

AfterDirect(t) ==
    IF t.todo = {} /\ ToResend(t) # {}
    THEN [t EXCEPT !.at = "resend", !.todo = ToResend(t)]
    ELSE AfterResend(t)

AfterPoll(v, t) ==
    IF t.todo = {} /\ ToDirect(v, t) # {}
    THEN [t EXCEPT !.at = "direct", !.todo = ToDirect(v, t)]
    ELSE AfterDirect(t)

(* Gossip may be behind: it sees the nodes that are up, or still all.      *)
BeginTick(v) ==
    /\ leader = v
    /\ tick[v] = NoTick
    /\ run.phase \in {"preparing", "workers", "council", "transferring", "leading"}
    /\ IF run.phase \in {"preparing", "transferring"}
       THEN tick' = [tick EXCEPT ![v] =
                [NoTick EXCEPT !.at = "write", !.dirty = TRUE,
                     !.st = [run EXCEPT !.phase =
                         IF @ = "preparing" THEN "workers" ELSE "leading"]]]
       ELSE \E alive \in {Up, Members} :
                tick' = [tick EXCEPT ![v] = AfterPoll(v,
                    [NoTick EXCEPT !.at = "poll", !.st = run, !.alive = alive,
                         !.todo = In(run, Records \ {"failed"})])]
    /\ UNCHANGED <<nodeVars, run, leader, scene>>

(* Mutant of Polled: a node at the target is called healthy while its own  *)
(* verification is still in flight.                                        *)
PolledEarly(st, alive, n) ==
    LET rec == st.rec[n]
        at  == version[n] = TargetOf(st)
    IN  CASE st.id \in reverted[n] /\ rec \in {"directed", "verifying", "healthy"} -> "failed"
          [] at -> IF n \in alive THEN "healthy"
                   ELSE IF rec = "directed" THEN "verifying" ELSE "check"
          [] ~at /\ rec = "directed" /\ InFlight(n) -> "verifying"
          [] ~at /\ rec \in {"verifying", "healthy"} /\ ~InFlight(n) -> "failed"
          [] OTHER -> "check"

(* Pass 1, for one node: what the record becomes, or "check" when only the *)
(* timeout is looked at.                                                   *)
Polled(st, alive, n) ==
    LET rec     == st.rec[n]
        failed  == st.id \in reverted[n] /\ rec \in {"directed", "verifying", "healthy"}
        at      == version[n] = TargetOf(st)
    IN  CASE failed -> "failed"
          [] ~failed /\ at /\ ~InFlight(n) ->
                 IF n \in alive THEN "healthy"
                 ELSE IF rec = "directed" THEN "verifying" ELSE "check"
          [] ~failed /\ rec = "directed" /\ InFlight(n) -> "verifying"
          [] ~failed /\ ~at /\ ~InFlight(n) /\ rec \in {"verifying", "healthy"} -> "failed"
          [] OTHER -> "check"

Poll(v) ==
    /\ tick[v].at = "poll"
    /\ \E n \in Nodes, next \in Records :
           LET t   == tick[v]
               rec == t.st.rec[n]
               p   == Polled(t.st, t.alive \union {v}, n)
           IN  /\ Turn(t, n)
               /\ \/ /\ next = IF Serving(n) /\ p # "check" THEN p ELSE rec
                     /\ UNCHANGED scene
                  \/ next = rec /\ Serving(n) /\ Spend("losses")
                  \/ /\ next = "failed" /\ rec \in {"directed", "verifying"}
                     /\ Spend("timeouts")
               /\ tick' = [tick EXCEPT ![v] = AfterPoll(v,
                      [t EXCEPT !.todo = @ \ {n}, !.st.rec[n] = next,
                           !.st.retry[n] = @ /\ next = "pending",
                           !.dirty = @ \/ next # rec \/ next = "healthy"])]
    /\ UNCHANGED <<nodeVars, run, leader>>

(* What becomes of the record, by the answer to its directive.  Nothing    *)
(* else of the group starts after a refusal.                               *)
Told(v, n, answer) ==
    LET t == tick[v]
        becomes(rec, retry, rest) == tick' = [tick EXCEPT ![v] = AfterDirect(
            [t EXCEPT !.at = "direct", !.answer = "none", !.todo = rest, !.dirty = TRUE,
                 !.st.rec[n] = rec, !.st.retry[n] = retry,
                 !.sent = IF rec = "directed" THEN @ \union {n} ELSE @])]
    IN  CASE answer = "ok" -> becomes("directed", FALSE, t.todo \ {n}) /\ UNCHANGED scene
          [] answer = "refused" -> becomes("failed", FALSE, {}) /\ UNCHANGED scene
          [] OTHER ->
                 \/ becomes("pending", TRUE, t.todo \ {n}) /\ UNCHANGED scene
                 \/ /\ t.st.retry[n]
                    /\ Spend("timeouts")
                    /\ becomes("failed", FALSE, t.todo \ {n})

(* Pass 2, for one node: the directive is sent and its answer awaited.  A  *)
(* node whose next attempt is not due keeps its slot and is passed over.   *)
Direct(v) ==
    /\ tick[v].at = "direct"
    /\ \E n \in Nodes :
           LET t   == tick[v]
               id  == DirectiveId(t.st)
               met == Met(n, id, TargetOf(t.st))
           IN  /\ Turn(t, n)
               /\ \/ ~Hears(n) /\ Told(v, n, "transient") /\ UNCHANGED nodeVars
                  \/ /\ Hears(n) /\ met # "begin"
                     /\ Told(v, n, met)
                     /\ UNCHANGED nodeVars
                  \/ /\ BeginPreparing(n, id, TargetOf(t.st))
                     /\ tick' = [tick EXCEPT ![v] = [t EXCEPT !.at = "await"]]
                     /\ UNCHANGED scene
                  \/ /\ Hears(n)
                     /\ Spend("losses")
                     /\ tick' = [tick EXCEPT ![v] =
                            [t EXCEPT !.at = "await", !.answer = "transient"]]
                     /\ UNCHANGED nodeVars
                  \/ /\ t.st.retry[n]
                     /\ Spend("waits")
                     /\ tick' = [tick EXCEPT ![v] = AfterDirect([t EXCEPT !.todo = @ \ {n}])]
                     /\ UNCHANGED nodeVars
    /\ UNCHANGED <<run, leader>>

(* The answer comes, or the connection breaks before it does.              *)
Await(v) ==
    /\ tick[v].at = "await"
    /\ \/ /\ tick[v].answer # "none"
          /\ \E n \in Nodes : Turn(tick[v], n) /\ Told(v, n, tick[v].answer)
       \/ /\ tick[v].answer = "none"
          /\ Spend("losses")
          /\ tick' = [tick EXCEPT ![v] = [tick[v] EXCEPT !.answer = "transient"]]
    /\ UNCHANGED <<nodeVars, run, leader>>

(* Pass 3, for one node: the answer is not looked at.                      *)
Resend(v) ==
    /\ tick[v].at = "resend"
    /\ \E n \in Nodes :
           LET t == tick[v]
           IN  /\ Turn(t, n)
               /\ tick' = [tick EXCEPT ![v] = AfterResend([t EXCEPT !.todo = @ \ {n}])]
               /\ IF Hears(n) /\ Met(n, t.st.id, TargetOf(t.st)) = "begin"
                  THEN BeginPreparing(n, t.st.id, TargetOf(t.st))
                  ELSE UNCHANGED nodeVars
    /\ UNCHANGED <<run, leader, scene>>

(* The write reaches the council only from its leader, and waits for a     *)
(* quorum there.  A completed run is recorded as such before it is cleared.*)
WriteRun(v) ==
    /\ tick[v].at = "write"
    /\ leader = v => Quorum
    /\ run' = IF tick[v].dirty /\ leader = v THEN UpgradeUpdate(tick[v].st) ELSE run
    /\ tick' = [tick EXCEPT ![v] = NoTick]
    /\ UNCHANGED <<nodeVars, leader, scene>>

(* The leader's next tick archives a run that has ended, and so does       *)
(* whoever ended it.                                                       *)
ClearEnded ==
    /\ leader # NoLeader
    /\ Quorum
    /\ run.phase \in {"completed", "aborted", "superseded"}
    /\ run' = UpgradeClear(run.id)
    /\ UNCHANGED <<nodeVars, leader, tick, scene>>

(***************************************************************************)
(* The operator, through the leader's API.                                 *)
(***************************************************************************)
Planned(id, direction) ==
    [id |-> id, direction |-> direction, phase |-> "preparing",
     rec |-> [n \in Nodes |-> "pending"], retry |-> [n \in Nodes |-> FALSE]]

(* Ids carry a timestamp and a retry renames its run: none is used twice.  *)
FreshId == Cardinality(Ids) + 1 - scene.left["runs"]

(* An operator acts after the tick of a deposed leader has run into its    *)
(* own timeouts, also when that leader is the leader again.  A leader does *)
(* not tick while there is no run or it is paused.                         *)
Attended ==
    /\ leader # NoLeader /\ Quorum
    /\ \A v \in Nodes : tick[v] = NoTick

Asked == Attended /\ Spend("runs")

StartUpgrade ==
    /\ run = NoRun
    /\ ~(Up # {} /\ \A n \in Up : version[n] = Target)
    /\ Asked
    /\ run' = UpgradeUpdate(Planned(FreshId, "upgrade"))
    /\ UNCHANGED <<nodeVars, leader, tick>>

StartRollback ==
    /\ run = NoRun
    /\ \A n \in Up : version[n] # Base => Base \in installed[n]
    /\ Asked
    /\ run' = UpgradeUpdate(Planned(FreshId, "rollback"))
    /\ UNCHANGED <<nodeVars, leader, tick>>

Resumed(r, id) ==
    LET rec  == [n \in Nodes |-> IF r.rec[n] = "failed" THEN "pending" ELSE r.rec[n]]
        done(r0) == \A n \in Members : Role(n) = r0 => rec[n] = "healthy"
    IN  [id |-> id, direction |-> r.direction, rec |-> rec,
         phase |-> IF ~done("worker") THEN "workers"
                   ELSE IF ~done("council") THEN "council" ELSE "transferring",
         retry |-> [n \in Nodes |-> FALSE]]

Resume ==
    /\ run.phase = "paused"
    /\ Asked
    /\ run' = UpgradeUpdate(Resumed(run, FreshId))
    /\ UNCHANGED <<nodeVars, leader, tick>>

Abort ==
    /\ run.phase = "paused"
    /\ Attended
    /\ \A n \in Nodes : run.rec[n] \notin {"healthy", "directed", "verifying"}
    /\ run' = [run EXCEPT !.phase = "aborted"]
    /\ UNCHANGED <<nodeVars, leader, tick, scene>>

(* A rollback replaces a paused run; it is planned once the run is gone.   *)
Supersede ==
    /\ run.phase = "paused"
    /\ scene.left["runs"] > 0
    /\ Attended
    /\ run' = [run EXCEPT !.phase = "superseded"]
    /\ UNCHANGED <<nodeVars, leader, tick, scene>>

NodeNext(n) ==
    \/ NodeWorks(n) \/ NodeStarts(n) \/ NodeStages(n) \/ NodeRefuses(n)
    \/ NodeExecs(n) \/ NodeExits(n) \/ NodeCrashes(n) \/ NodeFailsToWrite(n)

TickNext(v) ==
    BeginTick(v) \/ Poll(v) \/ Direct(v) \/ Await(v) \/ Resend(v) \/ WriteRun(v)

Next ==
    \/ \E n \in Members : NodeNext(n)
    \/ \E v \in Voters : TickNext(v) \/ Elect(v)
    \/ Depose \/ ClearEnded
    \/ StartUpgrade \/ StartRollback \/ Resume \/ Abort \/ Supersede

Spec == Init /\ [][Next]_vars

(* The supervisor restarts a process, a process goes on with what it       *)
(* does, the council elects and the leader's loop ticks.                   *)
NodeGoesOn(n) == NodeWorks(n) \/ NodeStarts(n) \/ NodeStages(n) \/ NodeExecs(n)

Fairness ==
    /\ \A n \in Nodes : WF_vars(n \in Members /\ NodeGoesOn(n))
    /\ \A v \in Nodes : WF_vars(v \in Voters /\ TickNext(v))
    /\ WF_vars((\E v \in Voters : Elect(v)))
    /\ WF_vars(ClearEnded)

LiveSpec == Spec /\ Fairness

-----------------------------------------------------------------------------
(***************************************************************************)
(* Properties of a cluster upgrade.                                        *)
(***************************************************************************)

(* The types; a tick that waits for a node has a node to wait for, and the *)
(* council holds a whole run or none (UpgradeUpdate, UpgradeClear).        *)
TypeOK ==
    /\ NodeTypeOK
    /\ run \in [id: Ids, direction: {"upgrade", "rollback"}, phase: Phases,
                rec: [Nodes -> Records], retry: [Nodes -> BOOLEAN]] \union {NoRun}
    /\ leader \in Voters \union {NoLeader}
    /\ \A v \in Voters :
           /\ tick[v].at \in {"none", "poll", "direct", "await", "resend", "write"}
           /\ tick[v].at \in {"poll", "direct", "await", "resend"} =>
                  tick[v].todo # {} /\ tick[v].todo \subseteq Members
           /\ tick[v].st.rec \in [Nodes -> Records]
    /\ scene \in SettingType

(* A node the council's run calls healthy runs the target, has recorded    *)
(* its commit and has no marker left, although the leader's answer may be  *)
(* old, from a deposed leader's tick or from before a restart: no run      *)
(* moves on past a node that can still revert (poll_and_drive_group).      *)
HealthyIsSettled ==
    run.direction = "upgrade" =>
        \A n \in Nodes : run.rec[n] = "healthy" =>
            link[n] = Target /\ Target \in verified[n] /\ ~InFlight(n)

(* A release that does not come up costs one batch: however answers are    *)
(* lost, directives repeated and leaders replaced, no more nodes revert    *)
(* one run than the batch holds (poll_and_drive_group's slots and the      *)
(* refusal to direct past a failure).                                      *)
OneBatchReverts ==
    \A id \in Ids : Cardinality({n \in Nodes : id \in reverted[n]}) <= scene.parallel

OnTrial(n) == marker[n].phase \in {"executed", "verifying", "revert"}

(* No two voters are ever between the Executed marker and their verdict in *)
(* an upgrade, whatever the leader that directed the first one knew when   *)
(* it was deposed: the council keeps its quorum through a swap             *)
(* (poll_and_drive_group with a group budget of one).                      *)
OneVoterSwaps == Cardinality({v \in Voters : OnTrial(v) /\ marker[v].id > 0}) <= 1

(* A write that failed has left a node serving with its marker; its next   *)
(* start takes the marker up.                                              *)
Stuck(n) == task[n] = "idle" /\ InFlight(n)

Running == run.phase \in {"preparing", "workers", "council", "transferring", "leading"}

(* An upgrade ends, completed or paused, although its own leader restarts  *)
(* in the middle of it and answers are lost: no node is waited for forever *)
(* (run_orchestrator, poll_and_drive_group's resend and retry).            *)
RunEnds ==
    (Running /\ run.direction = "upgrade") ~> (~Running \/ \E n \in Nodes : Stuck(n))

(* Again and again no node is in the middle of a swap: every trial comes   *)
(* to a commit or a revert and its marker goes, however often the node     *)
(* stops (startup_action, commit).                                         *)
SwapsResolve == []<>(\A n \in Nodes : InFlight(n) => Stuck(n))
=============================================================================
