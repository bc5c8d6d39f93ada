---------------------------- MODULE MCWithdrawal ----------------------------
(* Small instances of Withdrawal for TLC. *)
EXTENDS Withdrawal

CONSTANTS producer, consumer

Quiet ==
    [consumers |-> {consumer}, declared |-> {"s"}, first |-> "e1", listed |-> {"e1"},
     executions |-> {"e1"},
     crashes |-> 0, elections |-> 0, reelections |-> 0, recoveries |-> 0, lost |-> 0,
     drains |-> 0, flaps |-> 0, changes |-> 0]

(* A consumer that dies and may come back. *)
Crashed == [Quiet EXCEPT !.crashes = 1]
(* Requests that outlive the view they captured a backend from. *)
Drained == [Quiet EXCEPT !.drains = 1]
(* Another leader, with no contacts and no reports. *)
Elected == [Quiet EXCEPT !.elections = 1]
(* A lost answer, receipt or discharge. *)
Lossy == [Quiet EXCEPT !.lost = 1]
(* A backend listed before its execution was known. *)
Early == [Quiet EXCEPT !.listed = {Unknown}]
(* A backend that drops out of the catalogue and comes back. *)
Flapped == [Quiet EXCEPT !.flaps = 1]
(* The next execution takes the freed address. *)
Reused == [Quiet EXCEPT !.executions = {"e1", "e2"}]
(* The producer routes to itself. *)
Own == [Quiet EXCEPT !.consumers = {producer}]
(* The council is lost and restored from a backup. *)
Recovered == [Quiet EXCEPT !.recoveries = 1]
(* Services come and go, and their virtual addresses with them. *)
Renamed == [Quiet EXCEPT !.executions = {}, !.listed = {}, !.changes = 2]

FaultSettings ==
    {Crashed, Drained, Elected, Lossy, Early, Flapped, Reused, Own, Recovered, Renamed}

LiveSettings ==
    {Crashed, [Renamed EXCEPT !.changes = 1], [Renamed EXCEPT !.changes = 0, !.reelections = 1]}
=============================================================================
