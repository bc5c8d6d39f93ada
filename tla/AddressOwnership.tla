-------------------------- MODULE AddressOwnership --------------------------
(* What the endpoint withdrawal protocol promises: an address or a name is   *)
(* never handed on while a node still routes by its old meaning.             *)
(*                                                                           *)
(* A claim is one meaning of one resource: the execution behind a host       *)
(* address, or the service behind a virtual address.  A claim that has ended *)
(* is one whose resource may now mean something else.                        *)
EXTENDS FiniteSets

CONSTANTS
    Node,       \* the nodes that route
    Permanent   \* the claims that never come back once they have ended

VARIABLES
    uses,       \* per node, the claims it routes by
    ended       \* the claims that are over

vars == <<uses, ended>>

Init ==
    /\ uses = [n \in Node |-> {}]
    /\ ended \cap Permanent = {}

(* A node routes by another set of claims, none of them over. *)
Use(n) ==
    /\ uses' = [uses EXCEPT ![n] = uses'[n]]
    /\ uses'[n] \cap ended = {}
    /\ UNCHANGED ended

(* Time passes: any node may lose what it was allowed to route by. *)
Lapse ==
    /\ DOMAIN uses' = Node
    /\ \A n \in Node : uses'[n] \subseteq uses[n]
    /\ UNCHANGED ended

(* Claims end, and ones that are not permanent may begin again. *)
Reassign ==
    /\ \A n \in Node : uses[n] \cap ended' = {}
    /\ ended \cap Permanent \subseteq ended'
    /\ UNCHANGED uses

(* A council restored from a backup knows nothing of the releases its        *)
(* predecessor confirmed after that backup.                                  *)
Recover ==
    /\ \A n \in Node : uses[n] \cap ended' = {}
    /\ ended' \cap Permanent = {}
    /\ UNCHANGED uses

Next ==
    \/ \E n \in Node : Use(n)
    \/ Lapse
    \/ Reassign
    \/ Recover

Spec == Init /\ [][Next]_vars
=============================================================================
