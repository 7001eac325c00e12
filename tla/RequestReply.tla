---------------------------- MODULE RequestReply ----------------------------
(***************************************************************************)
(* What the commander promises: a request that is answered is answered by  *)
(* the controller's reply to this very request, and at most once.  Every   *)
(* request may instead end without an answer.                              *)
(***************************************************************************)

CONSTANTS
    Clients,
    Numbers     \* the requests are numbered, not with 0

VARIABLES
    request,    \* the number of the request each client awaits, 0 for none
    reply       \* the number of the request whose reply it was given, or 0

vars == <<request, reply>>

Init ==
    /\ request = [c \in Clients |-> 0]
    /\ reply = [c \in Clients |-> 0]

(* Requests are numbered anew: no two clients await the same one. *)
Ask(c, n) ==
    /\ request[c] = 0
    /\ \A d \in Clients : request[d] # n
    /\ request' = [request EXCEPT ![c] = n]
    /\ UNCHANGED reply

Answer(c) ==
    /\ request[c] # 0
    /\ reply[c] = 0
    /\ reply' = [reply EXCEPT ![c] = request[c]]
    /\ UNCHANGED request

End(c) ==
    /\ request[c] # 0
    /\ request' = [request EXCEPT ![c] = 0]
    /\ reply' = [reply EXCEPT ![c] = 0]

Next ==
    \E c \in Clients :
        \/ \E n \in Numbers : Ask(c, n)
        \/ Answer(c)
        \/ End(c)

Spec == Init /\ [][Next]_vars
=============================================================================
