------------------------------- MODULE Ymodem -------------------------------
(***************************************************************************)
(* ymodem.py: connect() and OtaClient.send(), which upload a firmware file *)
(* to a Photon controller.                                                 *)
(*                                                                         *)
(* The controller is external, and does what the module's docstring says   *)
(* of it: it answers every newline with a handshake, F with a ready event, *)
(* every blank and every packet with ACK, and prompts with C.  It refuses  *)
(* (NAK) a packet that has not the next index, or a few for a reason of    *)
(* its own.  The network keeps the order but not the boundaries of what is *)
(* written: a read may return several replies.                             *)
(***************************************************************************)
EXTENDS Naturals, Sequences

CONSTANTS
    Packets,            \* the packets of the file
    IndexModulus,       \* packet indices: 256
    ConnectAttempts,    \* CONNECT_ATTEMPTS
    HandshakeTries,     \* 20
    ReadyReads,         \* 10
    MaxPrompts,         \* bound: unasked C prompts
    MaxRefusals,        \* bound: packets the controller refuses
    MaxMerged           \* bound: reads that return more than one reply

ASSUME YmodemAssumption ==
    /\ {Packets, MaxPrompts, MaxRefusals, MaxMerged} \subseteq Nat
    /\ {ConnectAttempts, HandshakeTries, ReadyReads} \subseteq Nat \ {0}
    /\ IndexModulus \in Nat /\ IndexModulus > MaxPrompts + 1

VARIABLES
    step,           \* where connect() and send() are
    tries,          \* iterations of the loop in connect(), or for the handshake
    reads,          \* iterations of the loop for the ready event
    acks,           \* the variable ack of _trigger_ymodem()
    packet,         \* the packet that _transfer() sends, 0 for a header
    retry,          \* of _send_data(): none yet, in the delay before it, made
    outbound,       \* written and on its way to the controller
    inbound,        \* replies on their way to the service
    queue,          \* _queue: the reads of data_received()
    controller,     \* what the controller waits for
    stored,         \* the packets it stored
    spare,          \* blanks that _trigger_ymodem() wrote more than it counted
    prompts, refusals, merged

clientVars == <<step, tries, reads, acks, packet, retry, spare>>
faultVars == <<prompts, refusals, merged>>
ymodemVars == <<clientVars, outbound, inbound, queue, controller, stored, faultVars>>

Packet(n) == [kind |-> "packet", index |-> n % IndexModulus, content |-> n]
Command(c) == [kind |-> c, index |-> 0, content |-> 0]
Replies == {"controlbox", "updater", "ready", "ACK", "NAK", "C"}
Transfer == {"header", "data", "EOT", "closing"}
Running == {"handshake", "ready", "activate"} \cup Transfer

YmodemTypeOK ==
    /\ step \in {"connecting", "done", "failed"} \cup Running
    /\ tries \in 0..(ConnectAttempts + HandshakeTries) /\ reads \in 0..ReadyReads
    /\ acks \in 0..2 /\ packet \in 0..Packets /\ spare \in 0..MaxPrompts
    /\ retry \in {"none", "delay", "made"}
    /\ outbound \in Seq({Command(c) : c \in {"newline", "F", "blank", "EOT"}} \cup {Packet(n) : n \in 0..Packets})
    /\ inbound \in Seq(Replies) /\ queue \in Seq(Seq(Replies) \ {<<>>})
    /\ controller \in {"controlbox", "updater", "header", "data", "closing", "restart", "gone"}
    /\ stored \in Seq(1..Packets)
    /\ prompts \in 0..MaxPrompts /\ refusals \in 0..MaxRefusals /\ merged \in 0..MaxMerged

YmodemInit ==
    /\ step = "connecting"
    /\ tries = 0 /\ reads = 0 /\ acks = 0 /\ packet = 0 /\ retry = "none" /\ spare = 0
    /\ outbound = <<>> /\ inbound = <<>> /\ queue = <<>>
    /\ controller \in {"controlbox", "updater"} /\ stored = <<>>
    /\ prompts = 0 /\ refusals = 0 /\ merged = 0

-----------------------------------------------------------------------------
Write(m) == outbound' = Append(outbound, m)

(* conn.protocol.message: the next read, which must be in the queue. *)
Reads(s) ==
    /\ step = s
    /\ retry # "delay"
    /\ queue # <<>>

Fails ==
    /\ step' = "failed"
    /\ UNCHANGED <<packet, retry, outbound>>

(* connect() *)
ConnectionRefused ==
    /\ step = "connecting"
    /\ tries' = tries + 1
    /\ step' = IF tries' = ConnectAttempts THEN "failed" ELSE step
    /\ UNCHANGED <<reads, acks, packet, retry, spare, outbound, inbound, queue, controller, stored, faultVars>>

(* connect() succeeds, and _trigger_ymodem() begins. *)
ConnectionMade ==
    /\ step = "connecting"
    /\ step' = "handshake"
    /\ tries' = 0
    /\ Write(Command("newline"))
    /\ UNCHANGED <<reads, acks, packet, retry, spare, inbound, queue, controller, stored, faultVars>>

(* One more iteration of the loop for the handshake, the last one of which   *)
(* ends it.                                                                  *)
NextTry ==
    /\ tries' = tries + 1
    /\ step' = IF tries' = HandshakeTries THEN "failed" ELSE step

HandshakeTimeout ==
    /\ step = "handshake"
    /\ queue = <<>>
    /\ NextTry
    /\ Write(Command("newline"))
    /\ UNCHANGED <<reads, acks, packet, retry, spare, inbound, queue, controller, stored, faultVars>>

ReadHas(text) == \E i \in DOMAIN Head(queue) : Head(queue)[i] = text

HandshakeRead ==
    /\ Reads("handshake")
    /\ queue' = Tail(queue)
    /\ \/ ReadHas("controlbox") /\ Fails
       \/ ~ReadHas("controlbox") /\ step' = "ready" /\ Write(Command("F"))
    /\ UNCHANGED <<tries, reads, acks, packet, retry, spare, inbound, controller, stored, faultVars>>

ReadyRead ==
    /\ Reads("ready")
    /\ queue' = Tail(queue)
    /\ reads' = reads + 1
    /\ \/ ReadHas("ready") /\ step' = "activate" /\ Write(Command("blank"))
       \/ ~ReadHas("ready") /\ reads' < ReadyReads /\ UNCHANGED <<step, outbound>>
       \/ ~ReadHas("ready") /\ reads' = ReadyReads /\ Fails
    /\ UNCHANGED <<tries, acks, packet, retry, spare, inbound, controller, stored, faultVars>>

(* _send_packet() until it waits: what is in the queue is dropped, what is   *)
(* on its way is not.                                                        *)
SendPacket(s, n, m) ==
    /\ step' = s /\ packet' = n
    /\ Write(m)
    /\ queue' = <<>>

(* Of a read only the first byte counts. *)
First == Head(queue)[1]

ActivateRead ==
    /\ Reads("activate")
    /\ \/ /\ First = "ACK" /\ acks = 1
          /\ acks' = 2
          /\ SendPacket("header", 0, Packet(0))
          /\ UNCHANGED spare
       \/ /\ First = "ACK" /\ acks = 0
          /\ acks' = 1
          /\ Write(Command("blank"))
          /\ queue' = Tail(queue)
          /\ UNCHANGED <<step, packet, spare>>
       \/ /\ First # "ACK"
          /\ spare' = spare + 1
          /\ Write(Command("blank"))
          /\ queue' = Tail(queue)
          /\ UNCHANGED <<step, packet, acks>>
    /\ UNCHANGED <<tries, reads, retry, inbound, controller, stored, faultVars>>

(* What _transfer() sends when the packet n was acknowledged. *)
SendNext(n) ==
    IF n < Packets THEN SendPacket("data", n + 1, Packet(n + 1))
    ELSE SendPacket("EOT", n, Command("EOT"))

Acknowledged ==
    /\ First = "ACK"
    /\ retry' = "none"
    /\ \/ step = "header" /\ SendNext(0)
       \/ step = "data" /\ SendNext(packet)
       \/ step = "EOT" /\ SendPacket("closing", 0, Packet(0))
       \/ step = "closing" /\ step' = "done" /\ queue' = Tail(queue) /\ UNCHANGED <<packet, outbound>>

(* A first refusal of a packet is retried; EOT is no packet. *)
MutantNoRetry ==
    /\ First = "NAK"
    /\ step # "EOT" /\ retry = "none"
    /\ step' = "failed"
    /\ UNCHANGED <<queue, packet, retry, outbound>>
RefusedOnce ==
    /\ First = "NAK"
    /\ step # "EOT" /\ retry = "none"
    /\ retry' = "delay"
    /\ queue' = Tail(queue)
    /\ UNCHANGED <<step, packet, outbound>>

(* _transfer() gives up, but for the closing header: its answer is ignored. *)
MutantRefusalIgnored ==
    /\ First = "NAK"
    /\ step = "EOT" \/ retry = "made"
    /\ retry' = "none"
    /\ step = "data" /\ SendNext(packet)
Refused ==
    /\ First = "NAK"
    /\ step = "EOT" \/ retry = "made"
    /\ step' = IF step = "closing" THEN "done" ELSE "failed"
    /\ queue' = Tail(queue)
    /\ UNCHANGED <<packet, retry, outbound>>

Prompted ==
    /\ First = "C"
    /\ queue' = Tail(queue)
    /\ UNCHANGED <<step, packet, retry, outbound>>

TransferRead ==
    /\ \E s \in Transfer : Reads(s)
    /\ Acknowledged \/ RefusedOnce \/ Refused \/ Prompted
    /\ UNCHANGED <<tries, reads, acks, spare, inbound, controller, stored, faultVars>>

(* After NAK_RETRY_DELAY the same packet is sent again. *)
MutantReadsOn ==
    /\ retry = "delay"
    /\ step # "failed"
    /\ retry' = "made"
    /\ SendPacket(step, packet, [Packet(packet) EXCEPT !.content = IF packet < Packets THEN packet + 1 ELSE @])
    /\ UNCHANGED <<tries, reads, acks, spare, inbound, controller, stored, faultVars>>
RetryPacket ==
    /\ retry = "delay"
    /\ step # "failed"
    /\ retry' = "made"
    /\ SendPacket(step, packet, Packet(packet))
    /\ UNCHANGED <<tries, reads, acks, spare, inbound, controller, stored, faultVars>>

(* flash_ymodem_timeout: it is taken to be long enough for a transfer that   *)
(* does not stall.                                                           *)
UploadTimeout ==
    /\ step \in Running \ {"handshake"}
    /\ retry # "delay"
    /\ outbound = <<>> /\ inbound = <<>> /\ queue = <<>>
    /\ step' = "failed"
    /\ UNCHANGED <<tries, reads, acks, packet, retry, spare, outbound, inbound, queue, controller, stored, faultVars>>

-----------------------------------------------------------------------------
(* data_received() with the first n of the replies *)
DataArrives(n) ==
    /\ step \in Running
    /\ n <= Len(inbound)
    /\ merged + (n - 1) <= MaxMerged
    /\ merged' = merged + (n - 1)
    /\ queue' = Append(queue, SubSeq(inbound, 1, n))
    /\ inbound' = SubSeq(inbound, n + 1, Len(inbound))
    /\ UNCHANGED <<clientVars, outbound, controller, stored, prompts, refusals>>

(* The controller takes the next of what was written, waits for w and has s  *)
(* stored after it, and answers.                                             *)
Takes(m) == step \in Running /\ outbound # <<>> /\ m = Head(outbound)

Answers(w, s, replies) ==
    /\ outbound' = Tail(outbound)
    /\ inbound' = inbound \o replies
    /\ controller' = w
    /\ stored' = s
    /\ UNCHANGED <<clientVars, queue, prompts, merged>>

TakesCommand ==
    /\ UNCHANGED refusals
    /\ \/ /\ Takes(Command("newline")) /\ controller \in {"controlbox", "updater"}
          /\ Answers(controller, stored, <<controller>>)
       \/ Takes(Command("newline")) /\ controller = "header" /\ Answers(controller, stored, <<>>)
       \/ Takes(Command("F")) /\ Answers("header", stored, <<"ready">>)
       \/ Takes(Command("blank")) /\ Answers(controller, stored, <<"ACK">>)
       \/ Takes(Command("EOT")) /\ controller = "data" /\ Answers("closing", stored, <<"ACK">>)
       \/ Takes(Command("EOT")) /\ controller # "data" /\ Answers(controller, stored, <<"NAK">>)

Fits(p) ==
    \/ controller = "header" /\ p.index = 0
    \/ controller = "data" /\ p.index = (Len(stored) + 1) % IndexModulus
    \/ controller = "closing" /\ p.index = 0

TakesAnyPacket == step \in Running /\ outbound # <<>> /\ Head(outbound).kind = "packet"

TakesPacket ==
    /\ TakesAnyPacket
    /\ UNCHANGED refusals
    /\ LET p == Head(outbound)
       IN  \/ Fits(p) /\ controller = "header" /\ Answers("data", stored, <<"ACK", "C">>)
           \/ Fits(p) /\ controller = "data" /\ Answers("data", Append(stored, p.content), <<"ACK">>)
           \/ Fits(p) /\ controller = "closing" /\ Answers("restart", stored, <<"ACK">>)
           \/ ~Fits(p) /\ Answers(controller, stored, <<"NAK">>)

RefusesPacket ==
    /\ TakesAnyPacket /\ Fits(Head(outbound))
    /\ refusals < MaxRefusals
    /\ refusals' = refusals + 1
    /\ Answers(controller, stored, <<"NAK">>)

(* A prompt nobody asked for, until the file header is there. *)
Prompts ==
    /\ step \in Running
    /\ controller = "header"
    /\ prompts < MaxPrompts
    /\ prompts' = prompts + 1
    /\ inbound' = Append(inbound, "C")
    /\ UNCHANGED <<clientVars, outbound, queue, controller, stored, refusals, merged>>

(* connection_lost() only logs: nothing is answered any more. *)
ControllerGone ==
    /\ step \in Running
    /\ controller # "gone"
    /\ controller' = "gone"
    /\ outbound' = <<>> /\ inbound' = <<>>
    /\ UNCHANGED <<clientVars, queue, stored, faultVars>>
NothingTaken ==
    /\ controller = "gone"
    /\ outbound # <<>>
    /\ outbound' = <<>>
    /\ UNCHANGED <<clientVars, inbound, queue, controller, stored, faultVars>>

Client ==
    \/ ConnectionMade
    \/ HandshakeRead \/ HandshakeTimeout \/ ReadyRead \/ ActivateRead
    \/ TransferRead \/ RetryPacket \/ UploadTimeout
Controller == controller # "gone" /\ (TakesCommand \/ TakesPacket)

YmodemNext ==
    \/ Client \/ ConnectionRefused
    \/ Controller \/ RefusesPacket \/ Prompts \/ ControllerGone \/ NothingTaken
    \/ \E n \in 1..2 : DataArrives(n)

YmodemSpec == YmodemInit /\ [][YmodemNext]_ymodemVars

-----------------------------------------------------------------------------
(* The packets the controller stores are those of the file, in their order   *)
(* and each once, also when one is sent again or the client runs ahead.      *)
StoredInOrder == \A i \in DOMAIN stored : stored[i] = i

(* A blank that _trigger_ymodem() writes for a read that is no ACK has an    *)
(* ACK of its own, which is read as that of a later packet.  So far and no   *)
(* further does the client run ahead of the controller: the upload is over   *)
(* when the file is stored, but for the packets whose refusal came after     *)
(* EOT was acknowledged.                                                     *)
DoneMeansStored == step = "done" => Len(stored) + spare >= Packets

(* What was uploaded is the file, also when refused packets are sent again.  *)
UploadIsFile == StoredInOrder /\ DoneMeansStored

(* Nothing goes wrong that one retry does not put right. *)
Undisturbed ==
    /\ controller \notin {"controlbox", "gone"}
    /\ tries = 0
    /\ merged = 0
    /\ refusals = 0 \/ (refusals = 1 /\ spare = 0)

(* An upload ends; it succeeds when every reply is read on its own and no    *)
(* packet is refused twice: prompts do not confuse it, and a refusal is      *)
(* harmless unless the client has run ahead.                                 *)
UploadSucceeds == <>(step \in {"done", "failed"}) /\ ([]Undisturbed => <>(step = "done"))
=============================================================================
