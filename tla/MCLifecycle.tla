---------------------------- MODULE MCLifecycle ----------------------------
(* Instance of Lifecycle for TLC. *)
EXTENDS Lifecycle

Match(p, v, d) == [proto |-> p, version |-> v, device |-> d]

MCCompatible == {Match(TRUE, TRUE, TRUE)}

(* A controller of the service, one with another protocol version, and one   *)
(* with another device id.                                                   *)
MCControllers == MCCompatible \cup {Match(FALSE, FALSE, TRUE), Match(TRUE, FALSE, FALSE)}
=============================================================================
