-------------------------- MODULE MCRecoveryFence --------------------------
(* Small instances of the recovery fence.                                   *)
EXTENDS RecoveryFence

CONSTANTS a, b

\* Gossip reaches everyone.
Connected == Node \X Node

=============================================================================
