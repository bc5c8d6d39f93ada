------------------------------- MODULE MCSwim -------------------------------
(* Bounded instances of Swim: two nodes for depth, three for relays. *)
EXTENDS Swim

CONSTANTS n1, n2, n3

OneSeed == [i \in Node |-> {n1} \ {i}]

\* n1 sends three datagrams, n2 up to most.
Two(most, max) ==
    [nodes |-> {n1, n2}, inc |-> 3, inFlight |-> 2, stops |-> max,
     seq |-> [i \in Node |-> CASE i = n1 -> 3 [] i = n2 -> most [] OTHER -> 0]]

\* n1 asks n3 to ping n2, and n3 passes the answer on.
WithRelay ==
    [nodes |-> {n1, n2, n3}, inc |-> 2, inFlight |-> 1, stops |-> 0,
     seq |-> [i \in Node |-> IF i = n2 THEN 1 ELSE 2]]

PairAndRelay == {Two(3, 1), WithRelay}
PairTwoStops == {Two(3, 2)}
=============================================================================
