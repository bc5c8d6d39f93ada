-------------------------- MODULE MCFleetUpgrade --------------------------
(***************************************************************************)
(* Three nodes, two releases.  Each setting is a cluster and the troubles  *)
(* it may meet, so that a few of them meet in one run and not all at once. *)
(***************************************************************************)
EXTENDS FleetUpgrade

Setting(roles, batch, failures, losses, timeouts, depositions, faults, waits, runs) ==
    [role |-> roles, parallel |-> batch,
     left |-> [failures |-> failures, losses |-> losses, timeouts |-> timeouts,
               depositions |-> depositions, faults |-> faults, waits |-> waits,
               runs |-> runs]]

Council == [a |-> "council", b |-> "council", c |-> "leader"]
Workers == [a |-> "worker", b |-> "worker", c |-> "leader"]
Pair    == [a |-> "worker", b |-> "absent", c |-> "leader"]

MCOrder == <<"a", "b", "c">>

MCSettings ==
    {Setting(Council, 1, 0, 0, 0, 1, 0, 0, 1),   \* a leader is deposed
     Setting(Council, 1, 1, 0, 0, 0, 0, 0, 1),   \* a voter fails
     Setting(Workers, 1, 2, 0, 0, 0, 0, 0, 1),   \* a bad release
     Setting(Workers, 2, 0, 1, 0, 0, 0, 1, 1),   \* a batch of two, a lost answer
     Setting(Pair, 1, 0, 1, 1, 0, 0, 0, 2),      \* a late node, then a second run
     Setting(Pair, 1, 0, 0, 1, 0, 1, 0, 2),      \* a full disk, then a second run
     Setting(Pair, 1, 1, 0, 0, 0, 2, 0, 1)}      \* faults during recovery
=============================================================================
