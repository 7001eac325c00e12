------------------------------ MODULE Commander ------------------------------
(***************************************************************************)
(* CboxCommander (command.py): commands of several tasks at once, matched  *)
(* with the responses of the controller by a message id that wraps around. *)
(*                                                                         *)
(* The network and the controller are external: they lose, repeat, reorder *)
(* and delay requests and responses, also beyond the timeout of the        *)
(* command.  serial numbers the commands without wrapping, for the         *)
(* properties: the content of a response is the serial of the command it   *)
(* answers.  Lifecycle.tla sees a command only as a value of cmd.          *)
(***************************************************************************)
EXTENDS Naturals, Functions

CONSTANTS
    Clients,        \* tasks that execute commands
    Waiters,        \* tasks in wait_empty()
    Modulus,        \* the ids are 0 .. Modulus - 1; 0xFFFF in the code
    MaxCommands     \* bound: commands in one life of the service

ASSUME CommanderAssumption ==
    /\ Modulus \in Nat \ {0}
    /\ MaxCommands \in Nat

VARIABLES
    msgid,      \* _msgid
    active,     \* _active_messages: the client whose future has the id
    emptyEv,    \* _empty_ev is set
    client,     \* each client's _execute(), and its future
    waiter,     \* each wait_empty(), and the commands it began with
    requests,   \* requests the controller may still answer
    responses,  \* responses on their way
    issued      \* the commands so far

vars == <<msgid, active, emptyEv, client, waiter, requests, responses, issued>>

Ids == 0..(Modulus - 1)
Serials == 1..MaxCommands
Messages == [id: Ids, serial: Serials]

(* In _execute(), from its send_request() to its finally clause.  "waiting": *)
(* the future is pending; "answered": it has a result; "cancelled": it was   *)
(* cancelled, at the timeout or with the task.                               *)
Executing(c) == client[c].at # "idle"
Idle == [at |-> "idle", id |-> 0, serial |-> 0, reply |-> 0]
ClientStates == [at: {"idle", "waiting", "answered", "cancelled"}, id: Ids,
                 serial: Serials \cup {0}, reply: Serials \cup {0}]

(* The serials of the commands that are executing. *)
Pending == {client[c].serial : c \in {d \in Clients : Executing(d)}}

TypeOK ==
    /\ msgid \in Ids
    /\ DOMAIN active \subseteq Ids
    /\ active \in [DOMAIN active -> Clients]
    /\ emptyEv \in BOOLEAN
    /\ client \in [Clients -> ClientStates]
    /\ waiter \in [Waiters -> [at: {"idle", "waiting", "woken"}, before: SUBSET Serials]]
    /\ requests \subseteq Messages
    /\ responses \subseteq Messages
    /\ issued \in 0..MaxCommands

Init ==
    /\ msgid = 0
    /\ active = [i \in {} |-> CHOOSE c \in Clients : TRUE]
    /\ emptyEv = TRUE
    /\ client = [c \in Clients |-> Idle]
    /\ waiter = [w \in Waiters |-> [at |-> "idle", before |-> {}]]
    /\ requests = {}
    /\ responses = {}
    /\ issued = 0

-----------------------------------------------------------------------------
MutantIdsDoNotAdvance(id) == id
MutantIdsDoNotWrap(id) == id + 1

(* _next_id() *)
NextId(id) == (id + 1) % Modulus

(* An environment assumption: fewer than Modulus commands are begun while a  *)
(* command is executing (at most command_timeout, 20 seconds) or while one   *)
(* of its messages is still on its way.                                      *)
Window ==
    \A s \in Pending \cup {m.serial : m \in requests \cup responses} :
        (issued + 1) - s < Modulus

(* What the first lines of _execute() do with the id, whatever follows. *)
TakesId ==
    /\ issued < MaxCommands
    /\ Window
    /\ msgid' = NextId(msgid)
    /\ issued' = issued + 1

Assigned(f, i, c) == [j \in DOMAIN f \cup {i} |-> IF j = i THEN c ELSE f[j]]

(* The request was sent, and may reach the controller. *)
Execute(c) ==
    /\ ~Executing(c)
    /\ TakesId
    /\ active' = Assigned(active, msgid', c)
    /\ emptyEv' = FALSE
    /\ client' = [client EXCEPT ![c] =
          [at |-> "waiting", id |-> msgid', serial |-> issued', reply |-> 0]]
    /\ requests' = requests \cup {[id |-> msgid', serial |-> issued']}
    /\ UNCHANGED <<waiter, responses>>

(* encode_request() raised: the id is used up. *)
ExecuteNotEncoded(c) ==
    /\ ~Executing(c)
    /\ TakesId
    /\ UNCHANGED <<active, emptyEv, client, waiter, requests, responses>>

(* The finally clause of _execute(): the event, and the tasks in             *)
(* wait_empty(), which are woken when it is set and run later.               *)
MutantDeletedIsEmpty(event) ==
    /\ emptyEv' = TRUE
    /\ waiter' = [w \in Waiters |->
          IF waiter[w].at = "waiting" THEN [waiter[w] EXCEPT !.at = "woken"]
                                      ELSE waiter[w]]

MutantTestsBeforeDelete(event) ==
    IF DOMAIN active = {}
    THEN MutantDeletedIsEmpty(event)
    ELSE emptyEv' = event /\ UNCHANGED waiter

DeletedMessage(event) ==
    IF DOMAIN active' = {}
    THEN /\ emptyEv' = TRUE
         /\ waiter' = [w \in Waiters |->
              IF waiter[w].at = "waiting" THEN [waiter[w] EXCEPT !.at = "woken"]
                                          ELSE waiter[w]]
    ELSE emptyEv' = event /\ UNCHANGED waiter

(* send_request() raised NotConnected: between the two the message was       *)
(* active and the event cleared.                                             *)
ExecuteNotConnected(c) ==
    /\ ~Executing(c)
    /\ TakesId
    /\ active' = Restrict(active, DOMAIN active \ {msgid'})
    /\ DeletedMessage(FALSE)
    /\ UNCHANGED <<client, requests, responses>>

(* _on_response(): a response nobody waits for is logged and dropped, as is  *)
(* one whose future is done (set_result() raises InvalidStateError).  The    *)
(* same response may arrive again.                                           *)
MutantAnswersOldest(m) ==
    /\ client' = [c \in Clients |->
          IF /\ client[c].at = "waiting"
             /\ \A s \in Pending : client[c].serial <= s
          THEN [client[c] EXCEPT !.at = "answered", !.reply = m.serial]
          ELSE client[c]]
    /\ UNCHANGED <<msgid, active, emptyEv, waiter, requests, responses, issued>>

OnResponse(m) ==
    /\ client' = IF m.id \in DOMAIN active /\ client[active[m.id]].at = "waiting"
                 THEN [client EXCEPT ![active[m.id]].at = "answered",
                                     ![active[m.id]].reply = m.serial]
                 ELSE client
    /\ UNCHANGED <<msgid, active, emptyEv, waiter, requests, responses, issued>>

(* command_timeout passed, or the task was cancelled, with no response yet:  *)
(* wait_for() cancels the future, and runs again in the next iteration.      *)
CancelsFuture(c) ==
    /\ client[c].at = "waiting"
    /\ client' = [client EXCEPT ![c].at = "cancelled"]
    /\ UNCHANGED <<msgid, active, emptyEv, waiter, requests, responses, issued>>

MutantMessageKept(c) ==
    /\ client[c].at \in {"answered", "cancelled"}
    /\ client' = [client EXCEPT ![c] = Idle]
    /\ UNCHANGED <<msgid, active, emptyEv, waiter, requests, responses, issued>>

(* wait_for() returned or raised: the finally clause. *)
Returns(c) ==
    /\ client[c].at \in {"answered", "cancelled"}
    /\ active' = Restrict(active, DOMAIN active \ {client[c].id})
    /\ client' = [client EXCEPT ![c] = Idle]
    /\ DeletedMessage(emptyEv)
    /\ UNCHANGED <<msgid, requests, responses, issued>>

(* wait_empty(): the event is set, or the task waits for it. *)
WaitEmpty(w) ==
    /\ waiter[w].at = "idle"
    /\ waiter' = [waiter EXCEPT ![w] =
          [at |-> IF emptyEv THEN "woken" ELSE "waiting", before |-> Pending]]
    /\ UNCHANGED <<msgid, active, emptyEv, client, requests, responses, issued>>

(* wait_empty() returned, or its caller stopped waiting. *)
WaitEnds(w) ==
    /\ waiter[w].at # "idle"
    /\ waiter' = [waiter EXCEPT ![w] = [at |-> "idle", before |-> {}]]
    /\ UNCHANGED <<msgid, active, emptyEv, client, requests, responses, issued>>

(* The controller answers a request, maybe again. *)
Answers(m) ==
    /\ responses' = responses \cup {m}
    /\ UNCHANGED <<msgid, active, emptyEv, client, waiter, requests, issued>>

(* A request or a response, and every copy of it, is gone. *)
RequestGone(m) ==
    /\ requests' = requests \ {m}
    /\ UNCHANGED <<msgid, active, emptyEv, client, waiter, responses, issued>>

ResponseGone(m) ==
    /\ responses' = responses \ {m}
    /\ UNCHANGED <<msgid, active, emptyEv, client, waiter, requests, issued>>

Client(c) ==
    \/ Execute(c)
    \/ ExecuteNotEncoded(c)
    \/ ExecuteNotConnected(c)
    \/ CancelsFuture(c)
    \/ Returns(c)

Network ==
    \/ \E m \in responses : OnResponse(m) \/ ResponseGone(m)
    \/ \E m \in requests : Answers(m) \/ RequestGone(m)

Next ==
    \/ \E c \in Clients : Client(c)
    \/ Network
    \/ \E w \in Waiters : WaitEmpty(w) \/ WaitEnds(w)

Spec == Init /\ [][Next]_vars

(* The timeout of a pending command fires, and the loop resumes a task whose *)
(* future is done.                                                           *)
FairSpec ==
    /\ Spec
    /\ \A c \in Clients : WF_vars(CancelsFuture(c)) /\ WF_vars(Returns(c))

-----------------------------------------------------------------------------
(* _active_messages holds exactly the commands that are executing, each     *)
(* under its own id, and the event tells whether there are any: no id is    *)
(* taken from a command by a later one, and "del" always finds its own.     *)
ActiveExact ==
    /\ DOMAIN active = {client[c].id : c \in {d \in Clients : Executing(d)}}
    /\ \A c \in Clients : Executing(c) => active[client[c].id] = c
    /\ emptyEv <=> DOMAIN active = {}

(* "Requests are matched with responses here": a command is completed by    *)
(* the response to itself, however late, repeated or reordered responses    *)
(* are and however often the ids wrapped.                                   *)
OwnResponse ==
    \A c \in Clients : client[c].at = "answered" => client[c].reply = client[c].serial

(* When wait_empty() is over, every command that was executing when it      *)
(* began has ended (though another may have begun: UpdateCommandIsAlone).   *)
WaitEmptyDrains ==
    \A w \in Waiters : waiter[w].at = "woken" => waiter[w].before \cap Pending = {}

(* Matching by id implements request and reply. *)
Abstract == INSTANCE RequestReply WITH
    Numbers <- Serials,
    request <- [c \in Clients |-> client[c].serial],
    reply <- [c \in Clients |-> client[c].reply]

ImplementsRequestReply == Abstract!Spec

(* Once no more commands are begun, a task in wait_empty() is woken: every  *)
(* command ends, and the last one to end sets the event, also one that      *)
(* raised NotConnected while others were executing.                         *)
WaitersWoken ==
    \A w \in Waiters : waiter[w].at = "waiting" ~> waiter[w].at # "waiting"
=============================================================================
