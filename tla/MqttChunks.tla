----------------------------- MODULE MqttChunks -----------------------------
(***************************************************************************)
(* MqttConnection._resp_cb(): a response arrives in numbered chunks on one *)
(* MQTT topic, and is handed on when the chunk with the newline is there.  *)
(*                                                                         *)
(* The controller and the broker are external.  Messages are numbered; the *)
(* id of a message is its number modulo the modulus of the message ids     *)
(* (Commander.tla), and the content of a chunk is its place in its         *)
(* message.  Chunks arrive in the order they were published, but for the   *)
(* faults: each is charged to damage with what it may cost.                *)
(***************************************************************************)
EXTENDS Naturals, Sequences, FiniteSets

CONSTANTS
    Modulus,        \* as in Commander.tla
    MaxMessages,    \* bound: messages published
    MaxChunks,      \* bound: chunks of one message
    MaxDamage       \* bound: faults, by what they may cost

ASSUME ChunksAssumption ==
    /\ Modulus \in Nat \ {0, 1}
    /\ MaxMessages \in Nat
    /\ MaxChunks \in Nat \ {0}
    /\ MaxDamage \in Nat

VARIABLES
    recvId,     \* _recv_msg_id
    recvChunks, \* _recv_chunks
    unset,      \* _recv_chunks has no value: __init__() only annotates it
    net,        \* the chunks on their way
    sent,       \* the number of chunks of each message published
    delivered,  \* the messages handed to on_response()
    damage      \* what the faults so far may have cost

bufferVars == <<recvId, recvChunks, unset>>
vars == <<bufferVars, net, sent, delivered, damage>>

Chunks == [message: 1..MaxMessages, idx: 0..(MaxChunks - 1)]
IdOf(s) == s % Modulus
Published == 1..Len(sent)
Part(s, n) == [i \in 1..n |-> [message |-> s, idx |-> i - 1]]
Message(s) == Part(s, sent[s])
IsLast(chunk) == chunk.idx = sent[chunk.message] - 1

TypeOK ==
    /\ recvId \in 0..(Modulus - 1)
    /\ recvChunks \in Seq(Chunks) /\ Len(recvChunks) < MaxChunks
    /\ unset \in BOOLEAN
    /\ net \in Seq(Chunks)
    /\ sent \in Seq(1..MaxChunks) /\ Len(sent) <= MaxMessages
    /\ delivered \subseteq Seq(Chunks)
    /\ damage \in 0..MaxDamage

(* __init__() *)
NewConnection ==
    /\ recvId' = 0
    /\ recvChunks' = <<>>
    /\ unset' = TRUE

Init ==
    /\ recvId = 0
    /\ recvChunks = <<>>
    /\ unset = TRUE
    /\ net = <<>>
    /\ sent = <<>>
    /\ delivered = {}
    /\ damage = 0

-----------------------------------------------------------------------------
(* _reset_recv_buffer(0) *)
ResetRecvBuffer ==
    /\ recvId' = 0
    /\ recvChunks' = <<>>
    /\ unset' = FALSE

(* The chunks that the next one is compared with: none when it has another   *)
(* message id, _reset_recv_buffer(msg_id).                                   *)
MutantAnyMessage(chunk) == recvChunks
Kept(chunk) == IF IdOf(chunk.message) # recvId THEN <<>> ELSE recvChunks

(* len() of a list that has no value: the callback raises AttributeError.    *)
CallbackRaises(chunk) ==
    /\ unset
    /\ IdOf(chunk.message) = recvId
    /\ UNCHANGED <<bufferVars, delivered>>

HasList(chunk) == ~(unset /\ IdOf(chunk.message) = recvId)

OutOfPlace(chunk) ==
    /\ HasList(chunk)
    /\ Len(Kept(chunk)) # chunk.idx
    /\ ResetRecvBuffer
    /\ UNCHANGED delivered

InPlace(chunk) ==
    /\ HasList(chunk)
    /\ Len(Kept(chunk)) = chunk.idx
    /\ ~IsLast(chunk)
    /\ recvId' = IdOf(chunk.message)
    /\ recvChunks' = Append(Kept(chunk), chunk)
    /\ unset' = FALSE
    /\ UNCHANGED delivered

MutantBufferKept(chunk) ==
    /\ HasList(chunk)
    /\ Len(Kept(chunk)) = chunk.idx
    /\ IsLast(chunk)
    /\ recvId' = IdOf(chunk.message)
    /\ recvChunks' = Append(Kept(chunk), chunk)
    /\ unset' = FALSE
    /\ delivered' = delivered \cup {Append(Kept(chunk), chunk)}

Completes(chunk) ==
    /\ HasList(chunk)
    /\ Len(Kept(chunk)) = chunk.idx
    /\ IsLast(chunk)
    /\ ResetRecvBuffer
    /\ delivered' = delivered \cup {Append(Kept(chunk), chunk)}

(* _resp_cb() *)
Receive ==
    /\ net # <<>>
    /\ net' = Tail(net)
    /\ LET chunk == Head(net)
       IN  CallbackRaises(chunk) \/ OutOfPlace(chunk) \/ InPlace(chunk) \/ Completes(chunk)
    /\ UNCHANGED <<sent, damage>>

-----------------------------------------------------------------------------
(* An environment assumption: the ids of the messages of which a chunk is    *)
(* under way or in the buffer are different (Commander.tla, Window).         *)
Window ==
    \A i \in 1..Len(net) \cup 1..Len(recvChunks) :
        /\ i \in 1..Len(net) => (Len(sent) + 1) - net[i].message < Modulus
        /\ i \in 1..Len(recvChunks) => (Len(sent) + 1) - recvChunks[i].message < Modulus

(* The controller publishes a response of n chunks. *)
Publish(n) ==
    /\ Len(sent) < MaxMessages
    /\ Window
    /\ sent' = Append(sent, n)
    /\ net' = net \o Part(Len(sent) + 1, n)
    /\ UNCHANGED <<bufferVars, delivered, damage>>

Fault(cost) ==
    /\ damage + cost <= MaxDamage
    /\ damage' = damage + cost
    /\ UNCHANGED sent

(* While the list has no value, the chunk may also be the one that would     *)
(* have given it one before the message with id 0.                           *)
Lost ==
    /\ net # <<>>
    /\ net' = Tail(net)
    /\ Fault(IF unset THEN 2 ELSE 1)
    /\ UNCHANGED <<bufferVars, delivered>>

Repeated ==
    /\ net # <<>>
    /\ net' = <<Head(net)>> \o net
    /\ Fault(1)
    /\ UNCHANGED <<bufferVars, delivered>>

(* The second chunk overtakes the first: they may be of two messages. *)
Overtaken ==
    /\ Len(net) >= 2
    /\ net' = [net EXCEPT ![1] = net[2], ![2] = net[1]]
    /\ Fault(2)
    /\ UNCHANGED <<bufferVars, delivered>>

(* A payload that is no chunk, in between or in the place of one. *)
Garbled ==
    /\ net' = net \/ (net # <<>> /\ net' = Tail(net))
    /\ ResetRecvBuffer
    /\ Fault(1)
    /\ UNCHANGED delivered

(* The connection is lost and made again: another MqttConnection, without    *)
(* the chunks that were in the buffer, and without a value for the list when *)
(* a message with id 0 is the first.                                         *)
Reconnect ==
    /\ NewConnection
    /\ Fault(2)
    /\ UNCHANGED <<net, delivered>>

Next ==
    \/ Receive
    \/ \E n \in 1..MaxChunks : Publish(n)
    \/ Lost
    \/ Repeated
    \/ Overtaken
    \/ Garbled
    \/ Reconnect

Spec == Init /\ [][Next]_vars

-----------------------------------------------------------------------------
(* What is handed on is a message that was sent, whole, and with no chunk    *)
(* of another, whatever was lost, repeated or overtaken: the sentinel id 0,  *)
(* also the id of messages, never joins the chunks of two of them.           *)
DeliveredWhole ==
    \A p \in delivered : \E s \in Published : p = Message(s)

(* Messages of which nothing is under way any more, and that never arrived.  *)
Missing ==
    {s \in Published : Message(s) \notin delivered
                       /\ \A i \in 1..Len(net) : net[i].message # s}

(* A fault costs the messages it is charged with and no later one: the       *)
(* buffer finds its way back to the next message, whatever state a fault     *)
(* left it in.  Without any fault no message is missing, for the list has a  *)
(* value before the first message with id 0: the ids begin with 1.           *)
LossesBounded == Cardinality(Missing) <= damage
=============================================================================
