---------------------------- MODULE MCTaskArrays ----------------------------
(* Small instances of TaskArrays for TLC.  A run explores several settings,  *)
(* each a few faults deep.                                                   *)
EXTENDS TaskArrays

CONSTANTS n1, n2

(* One node, no fault, one chunk at a time. *)
Quiet ==
    [members |-> {n1}, unable |-> {}, replayable |-> TRUE, depth |-> 1, attempts |-> 1,
     log |-> 1, terms |-> 1, epochs |-> 0, crashes |-> 0, errors |-> 0, timeouts |-> 0,
     silences |-> 0, lost |-> 0, cancels |-> 0]

Once == [Quiet EXCEPT !.replayable = FALSE]
Pair == [Quiet EXCEPT !.members = {n1, n2}]

(* A crash around an election with two entries in flight. *)
Elected == [Once EXCEPT !.depth = 2, !.terms = 2, !.log = 2, !.crashes = 1]
(* A forced recovery, a crash and a dropped call. *)
Recovered == [Quiet EXCEPT !.epochs = 1, !.attempts = 2, !.crashes = 1, !.timeouts = 1]
(* A silent holder, a crash and a failing disk. *)
TornWrites == [Quiet EXCEPT !.attempts = 2, !.crashes = 1, !.errors = 1, !.silences = 1]
(* A chunk taken from a silent node and acknowledged to the other. *)
HandedOver == [Once EXCEPT !.members = {n1, n2}, !.attempts = 2, !.silences = 1]
(* A request that arrives after its chunk was taken back, and a crash. *)
Overtaken == [Quiet EXCEPT !.attempts = 2, !.crashes = 1, !.timeouts = 1, !.silences = 1]
(* Two entries planned from one state. *)
Pipelined == [Once EXCEPT !.members = {n1, n2}, !.log = 2]

FaultSettings == {Elected, Recovered, TornWrites, HandedOver, Overtaken, Pipelined}

(* Chunks of several tasks: owners come and go, a run is cancelled or        *)
(* nobody can run it, or work is lost in a crash and replayed.               *)
Withdrawn == [Pair EXCEPT !.unable = {n2}, !.cancels = 1]
LostWork == [Once EXCEPT !.attempts = 2, !.crashes = 1, !.timeouts = 1, !.lost = 1]

CountSettings == {Pair, Withdrawn, LostWork}

LiveSettings ==
    {[Quiet EXCEPT !.attempts = 2, !.timeouts = 1, !.silences = 1],
     [Quiet EXCEPT !.crashes = 1]}

(* A failing disk and a dropped call. *)
DurableSettings == {[Quiet EXCEPT !.errors = 1, !.timeouts = 1]}
=============================================================================
