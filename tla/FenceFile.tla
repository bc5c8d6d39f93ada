----------------------------- MODULE FenceFile -----------------------------
(***************************************************************************)
(* The two-slot file a task-array node rewrites in place, durably, with one *)
(* flush: src/bun/fence_file.rs, with the payload src/bun/grant_fence.rs    *)
(* keeps in it (the highest attempt accepted for each chunk).               *)
(*                                                                         *)
(* Each slot holds a generation and a payload under a checksum; a write     *)
(* overwrites the slot that does not hold the generation the writer last    *)
(* saw.  What the checksum is for is modelled by its effect: a slot whose   *)
(* write a crash tore reads as Torn.  A payload is a function from chunks   *)
(* to attempts, where 0 stands for a chunk without an entry; its length is  *)
(* its number of entries, and so is the room of a slot.                     *)
(***************************************************************************)
EXTENDS Naturals, FiniteSets

CONSTANT MinStride   \* the entries that fit in a slot of the smallest file

ASSUME StrideAssumption == MinStride \in Nat \ {0}

NoPosition == [generation |-> 0, slot |-> 0, stride |-> 0]
Torn == [generation |-> 0, payload |-> <<>>]
NoFile == [stride |-> 0, slots |-> <<Torn, Torn>>]

Length(payload) == Cardinality({c \in DOMAIN payload : payload[c] > 0})

(* create: room for a payload twice as long, at least MinStride. *)
StrideFor(payload) ==
    IF 2 * Length(payload) > MinStride THEN 2 * Length(payload) ELSE MinStride

-----------------------------------------------------------------------------
(* read: the newest of the valid slots.  A file neither of whose slots is   *)
(* valid is an error, never an absent fence.                                *)

Readable(file) == \E s \in 1 .. 2 : file.slots[s] # Torn

NewestSlot(file) ==
    IF /\ file.slots[2] # Torn
       /\ \/ file.slots[1] = Torn
          \/ file.slots[2].generation > file.slots[1].generation
    THEN 2 ELSE 1

PositionOf(file) ==
    [generation |-> file.slots[NewestSlot(file)].generation,
     slot |-> NewestSlot(file),
     stride |-> file.stride]

PayloadOf(file) == file.slots[NewestSlot(file)].payload

-----------------------------------------------------------------------------
(* write: in place when the payload fits at the position the writer last    *)
(* saw, otherwise a whole new file.  A file whose length is not the one     *)
(* that position names changed underneath the writer and is refused.        *)

InPlace(at, payload) == at # NoPosition /\ Length(payload) <= at.stride

Refused(file, at, payload) == InPlace(at, payload) /\ file.stride # at.stride

NextSlot(at, payload) == [generation |-> at.generation + 1, payload |-> payload]

(* Mutant of Overwritten: the slot with the newest payload is rewritten. *)
OverwrittenNewest(at) == at.slot

Overwritten(at) == 3 - at.slot

RewriteSlot(file, at, slot) ==
    [file EXCEPT !.slots[Overwritten(at)] = slot]

Create(at, payload) ==
    [stride |-> StrideFor(payload),
     slots |-> <<NextSlot(at, payload), NextSlot(at, payload)>>]

Written(file, at, payload) ==
    IF InPlace(at, payload)
    THEN RewriteSlot(file, at, NextSlot(at, payload))
    ELSE Create(at, payload)

(* Mutant of WrittenPosition: a new file is remembered by its payload's size. *)
WrittenPositionBare(at, payload) ==
    IF InPlace(at, payload)
    THEN [generation |-> at.generation + 1, slot |-> Overwritten(at), stride |-> at.stride]
    ELSE [generation |-> at.generation + 1, slot |-> 1, stride |-> Length(payload)]

WrittenPosition(at, payload) ==
    IF InPlace(at, payload)
    THEN [generation |-> at.generation + 1, slot |-> Overwritten(at), stride |-> at.stride]
    ELSE [generation |-> at.generation + 1, slot |-> 1, stride |-> StrideFor(payload)]

(* What a write that a crash or an I/O error cut short can leave on disk.   *)
(* A new file appears whole or not at all: it is renamed into place.        *)
LeftBy(file, at, payload) ==
    IF Refused(file, at, payload) THEN {file}
    ELSE {file, Written(file, at, payload)}
         \cup (IF InPlace(at, payload) THEN {RewriteSlot(file, at, Torn)} ELSE {})

=============================================================================
