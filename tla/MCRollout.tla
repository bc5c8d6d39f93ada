----------------------------- MODULE MCRollout -----------------------------
(* Small instances of Rollout for TLC: each setting meets a few troubles. *)
EXTENDS Rollout

Calm ==
    [applies |-> 1, failures |-> 0, crashes |-> 0, lost |-> 0, elections |-> 0, moves |-> 0,
     faults |-> 0, ails |-> 0, surge |-> 1, offers |-> {"v2"}]

(* Both nodes run the first version, which rolled out everywhere. *)
Rolled(nodes, budget) ==
    [members |-> nodes, released |-> <<First>>, placed |-> nodes, running |-> nodes,
     left |-> budget]
Pair(budget) == Rolled({1, 2}, budget)

Failing   == Pair([Calm EXCEPT !.failures = 2, !.lost = 1])
Crashing  == Pair([Calm EXCEPT !.crashes = 1, !.failures = 1])
Stopping  == Pair([Calm EXCEPT !.surge = 0, !.crashes = 1, !.ails = 1])
Electing  == Pair([Calm EXCEPT !.elections = 1, !.lost = 1, !.failures = 1])
Saving    == Pair([Calm EXCEPT !.faults = 1, !.crashes = 1])
Changing  == Pair([Calm EXCEPT !.applies = 3, !.offers = Versions])
Moving    == [Pair(Calm) EXCEPT !.placed = {1}, !.running = {1},
              !.left = [Calm EXCEPT !.moves = 2]]
Retried   == Pair([Calm EXCEPT !.failures = 1, !.moves = 1])
Starting  == [Pair([Calm EXCEPT !.failures = 1]) EXCEPT !.released = <<>>, !.running = {}]
Trio      == Rolled({1, 2, 3}, [Calm EXCEPT !.failures = 1])

RolloutSettings ==
    {Failing, Crashing, Stopping, Electing, Saving, Changing, Moving, Retried, Starting, Trio}

(* A rollout that fails, and a host that goes down. *)
HeldSettings == {Crashing}
=============================================================================
