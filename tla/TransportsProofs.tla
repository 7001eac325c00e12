-------------------------- MODULE TransportsProofs --------------------------
(***************************************************************************)
(* What carries text and files, for every value of the constants.          *)
(* mqtt_connection.py: what MqttConnection hands on was sent as such, what *)
(* faults can cost is bounded, and connections are told of a device that   *)
(* is gone.  cbox_parser.py: a text in pieces is parsed as if it came      *)
(* whole.  The proofs about ymodem.py are in YmodemProofs.                 *)
(***************************************************************************)
EXTENDS MCTransports, YmodemProofs, WellFoundedInduction

(* Chunks of messages that were published lately (Window).                   *)
Recent(s) == s \in Published /\ Len(sent) - s < Modulus
Genuine == {c \in Chunks : Recent(c.message) /\ c.idx < sent[c.message]}

(* The buffer is empty, or a proper prefix of one such message.              *)
BufferPartial ==
    recvChunks # <<>> =>
        \E s \in Published :
            /\ Recent(s)
            /\ recvId = IdOf(s)
            /\ Len(recvChunks) < sent[s]
            /\ recvChunks = Part(s, Len(recvChunks))

ChunksInv ==
    /\ TypeOK
    /\ net \in Seq(Genuine)
    /\ BufferPartial
    /\ DeliveredWhole

(* Parts of a message are sequences of its chunks.                           *)
LEMMA PartType ==
    ASSUME NEW S, NEW s, NEW n \in Nat,
           \A i \in 1..n : [message |-> s, idx |-> i - 1] \in S
    PROVE  /\ Part(s, n) \in Seq(S)
           /\ Len(Part(s, n)) = n
           /\ \A i \in 1..n : Part(s, n)[i] = [message |-> s, idx |-> i - 1]
<1>1. Part(s, n) \in [1..n -> S]
  BY DEF Part
<1>2. Part(s, n) \in Seq(S)
  BY <1>1
<1> QED BY <1>1, <1>2 DEF Part

(* What is at which place of a concatenation. *)
LEMMA Concatenated ==
    ASSUME NEW S, NEW p \in Seq(S), NEW q \in Seq(S)
    PROVE  /\ Len(p \o q) = Len(p) + Len(q)
           /\ \A j \in 1..Len(p) : (p \o q)[j] = p[j]
           /\ \A j \in (Len(p) + 1)..(Len(p) + Len(q)) : (p \o q)[j] = q[j - Len(p)]
<1>1. PICK m \in Nat : m = Len(p)
  OBVIOUS
<1>2. PICK n \in Nat : n = Len(q)
  OBVIOUS
<1>3. /\ Len(p \o q) = m + n
      /\ \A j \in 1..(m + n) : (p \o q)[j] = IF j <= m THEN p[j] ELSE q[j - m]
  BY <1>1, <1>2, ConcatProperties
<1>4. \A j \in 1..m : j \in 1..(m + n) /\ j <= m
  OBVIOUS
<1>5. \A j \in (m + 1)..(m + n) : j \in 1..(m + n) /\ ~(j <= m)
  OBVIOUS
<1> QED BY <1>1, <1>2, <1>3, <1>4, <1>5

LEMMA PartChunks ==
    ASSUME NEW s \in 1..MaxMessages, NEW n \in Nat, n <= MaxChunks
    PROVE  /\ Part(s, n) \in Seq(Chunks)
           /\ Len(Part(s, n)) = n
           /\ \A i \in 1..n : Part(s, n)[i] = [message |-> s, idx |-> i - 1]
<1>1. \A i \in 1..n : [message |-> s, idx |-> i - 1] \in Chunks
  BY ChunksAssumption DEF Chunks
<1>2. Part(s, n) \in [1..n -> Chunks]
  BY <1>1 DEF Part
<1>3. Part(s, n) \in Seq(Chunks)
  BY <1>2
<1> QED BY <1>2, <1>3 DEF Part

LEMMA AppendPart ==
    ASSUME NEW s \in 1..MaxMessages, NEW n \in Nat, n < MaxChunks
    PROVE  Append(Part(s, n), [message |-> s, idx |-> n]) = Part(s, n + 1)
<1> USE ChunksAssumption
<1>2. /\ Part(s, n) \in Seq(Chunks) /\ Len(Part(s, n)) = n
      /\ \A i \in 1..n : Part(s, n)[i] = [message |-> s, idx |-> i - 1]
  BY PartChunks
<1>3. /\ Part(s, n + 1) \in Seq(Chunks) /\ Len(Part(s, n + 1)) = n + 1
      /\ \A i \in 1..(n + 1) : Part(s, n + 1)[i] = [message |-> s, idx |-> i - 1]
  BY n + 1 \in Nat, n + 1 <= MaxChunks, PartChunks
<1> DEFINE chunk == [message |-> s, idx |-> n]
           t == Append(Part(s, n), chunk)
<1>4. chunk \in Chunks
  BY DEF Chunks
<1> HIDE DEF chunk
<1>5. t \in Seq(Chunks) /\ Len(t) = n + 1
  BY <1>2, <1>4
<1>6. ASSUME NEW i \in 1..Len(t) PROVE t[i] = Part(s, n + 1)[i]
  <2>1. CASE i <= n
    BY <1>2, <1>3, <1>4, <1>5, <2>1
  <2>2. CASE i = n + 1
    BY <1>2, <1>3, <1>4, <1>5, <2>2 DEF chunk
  <2> QED BY <1>5, <2>1, <2>2
<1> HIDE DEF t
<1>7. t = Part(s, n + 1)
  BY <1>3, <1>5, <1>6, SeqEqual
<1> QED BY <1>7 DEF t, chunk

(* What is compared with a chunk, and continued by it when it is in place:   *)
(* the earlier chunks of its own message, and no others.                     *)
LEMMA InPlaceContinues ==
    ASSUME ChunksInv, NEW chunk \in Genuine, Len(Kept(chunk)) = chunk.idx
    PROVE  /\ Append(Kept(chunk), chunk) = Part(chunk.message, chunk.idx + 1)
           /\ Append(Kept(chunk), chunk) \in Seq(Chunks)
           /\ Len(Append(Kept(chunk), chunk)) = chunk.idx + 1
<1> USE ChunksAssumption
<1> DEFINE s == chunk.message
           n == chunk.idx
<1>1. /\ chunk \in Chunks /\ s \in 1..MaxMessages /\ n \in Nat /\ n < MaxChunks
      /\ chunk = [message |-> s, idx |-> n]
      /\ Recent(s)
  BY DEF Genuine, Chunks
<1>2. Kept(chunk) = Part(s, n)
  <2>1. CASE Kept(chunk) = <<>>
    <3>1. n = 0
      BY <2>1
    <3>2. Part(s, 0) = <<>>
      BY DEF Part
    <3> QED BY <2>1, <3>1, <3>2
  <2>2. CASE Kept(chunk) # <<>>
    <3>1. Kept(chunk) = recvChunks /\ recvId = IdOf(s) /\ recvChunks # <<>>
      BY <2>2 DEF Kept
    <3>2. PICK m \in Published :
             /\ Recent(m)
             /\ recvId = IdOf(m)
             /\ recvChunks = Part(m, Len(recvChunks))
      BY <3>1 DEF ChunksInv, BufferPartial
    <3> HIDE DEF s
    <3>3. m \in Nat /\ s \in Nat /\ m % Modulus = s % Modulus
          /\ Len(sent) \in Nat /\ m <= Len(sent) /\ s <= Len(sent)
          /\ Len(sent) - m < Modulus /\ Len(sent) - s < Modulus
      BY <1>1, <3>1, <3>2 DEF IdOf, Recent, Published, ChunksInv, TypeOK
    <3>4. m = s
      <4>1. CASE m <= s
        <5>1. s - m < Modulus
          BY <3>3, <4>1
        <5> QED BY <3>3, <4>1, <5>1, SameRemainder
      <4>2. CASE s <= m
        <5>1. m - s < Modulus
          BY <3>3, <4>2
        <5> QED BY <3>3, <4>2, <5>1, SameRemainder
      <4> QED BY <3>3, <4>1, <4>2
    <3> QED BY <3>1, <3>2, <3>4
  <2> QED BY <2>1, <2>2
<1>3. Append(Part(s, n), chunk) = Part(s, n + 1)
  BY <1>1, AppendPart
<1>4. Part(s, n + 1) \in Seq(Chunks) /\ Len(Part(s, n + 1)) = n + 1
  BY <1>1, n + 1 \in Nat, n + 1 <= MaxChunks, PartChunks
<1> QED BY <1>2, <1>3, <1>4

-----------------------------------------------------------------------------
(* What is under way shrinks or changes its order: only genuine chunks.      *)
LEMMA NetOperations ==
    ASSUME NEW S, NEW q \in Seq(S), q # <<>>
    PROVE  /\ Head(q) \in S
           /\ Tail(q) \in Seq(S)
           /\ <<Head(q)>> \o q \in Seq(S)
           /\ Len(q) >= 2 => [q EXCEPT ![1] = q[2], ![2] = q[1]] \in Seq(S)
<1>1. Head(q) \in S /\ Tail(q) \in Seq(S)
  BY HeadTailProperties
<1>2. <<Head(q)>> \in Seq(S)
  BY <1>1
<1>3. <<Head(q)>> \o q \in Seq(S)
  BY <1>2, ConcatProperties
<1>4. ASSUME Len(q) >= 2 PROVE [q EXCEPT ![1] = q[2], ![2] = q[1]] \in Seq(S)
  <2>1. Len(q) \in Nat /\ 1 \in 1..Len(q) /\ 2 \in 1..Len(q)
    BY <1>4, LenProperties
  <2>2. q[1] \in S /\ q[2] \in S
    BY <2>1, ElementOfSeq
  <2> DEFINE r == [q EXCEPT ![1] = q[2]]
  <2>3. r \in Seq(S) /\ Len(r) = Len(q)
    BY <2>1, <2>2, ExceptSeq
  <2>4. [r EXCEPT ![2] = q[1]] \in Seq(S)
    <3> HIDE DEF r
    <3> QED BY <2>1, <2>2, <2>3, ExceptSeq
  <2> QED BY <2>4
<1> QED BY <1>1, <1>3, <1>4

LEMMA InitChunksInv == Init => ChunksInv
<1> SUFFICES ASSUME Init PROVE ChunksInv
  OBVIOUS
<1> USE ChunksAssumption DEF Init
<1>1. \A S : <<>> \in Seq(S) /\ Len(<<>>) = 0
  BY EmptySeq
<1>2. TypeOK
  BY <1>1 DEF TypeOK
<1>3. net \in Seq(Genuine) /\ BufferPartial /\ DeliveredWhole
  BY <1>1 DEF BufferPartial, DeliveredWhole
<1> QED BY <1>2, <1>3 DEF ChunksInv

(* Steps that publish nothing and leave the buffer alone or empty it.        *)
LEMMA BufferEmptied ==
    ASSUME ChunksInv, net' \in Seq(Genuine), net' \in Seq(Chunks), sent' = sent,
           delivered' = delivered, damage' \in 0..MaxDamage,
           \/ UNCHANGED bufferVars
           \/ ResetRecvBuffer \/ NewConnection
    PROVE  ChunksInv'
<1> USE ChunksAssumption
<1>1. Genuine' = Genuine
  BY DEF Genuine, Recent, Published
<1>2. CASE UNCHANGED bufferVars
  <2>1. TypeOK'
    BY <1>2 DEF ChunksInv, TypeOK, bufferVars
  <2>2. BufferPartial'
    BY <1>2 DEF ChunksInv, BufferPartial, bufferVars, Published, Recent
  <2>3. DeliveredWhole'
    BY DEF ChunksInv, DeliveredWhole, Published, Message
  <2> QED BY <1>1, <2>1, <2>2, <2>3 DEF ChunksInv
<1>3. CASE ResetRecvBuffer \/ NewConnection
  <2>1. recvId' = 0 /\ recvChunks' = <<>> /\ unset' \in BOOLEAN
    BY <1>3 DEF ResetRecvBuffer, NewConnection
  <2>2. recvChunks' \in Seq(Chunks) /\ Len(recvChunks') = 0
    BY <2>1, EmptySeq
  <2>3. TypeOK'
    BY <2>1, <2>2 DEF ChunksInv, TypeOK
  <2>4. BufferPartial'
    BY <2>1 DEF BufferPartial
  <2>5. DeliveredWhole'
    BY DEF ChunksInv, DeliveredWhole, Published, Message
  <2> QED BY <1>1, <2>3, <2>4, <2>5 DEF ChunksInv
<1> QED BY <1>2, <1>3

(* _resp_cb() keeps the invariant ...                                        *)
LEMMA ReceiveInv ==
    ASSUME ChunksInv, Receive
    PROVE  ChunksInv'
<1> USE ChunksAssumption
<1>0. Head(net) \in Genuine /\ Tail(net) \in Seq(Genuine) /\ Tail(net) \in Seq(Chunks)
  BY NetOperations DEF ChunksInv, TypeOK, Receive
<1>1. PICK chunk \in Genuine :
         /\ net' = Tail(net) /\ sent' = sent /\ damage' = damage
         /\ CallbackRaises(chunk) \/ OutOfPlace(chunk) \/ InPlace(chunk) \/ Completes(chunk)
  BY <1>0 DEF Receive
<1>2. chunk \in Genuine /\ net' \in Seq(Genuine) /\ net' \in Seq(Chunks)
  BY <1>0, <1>1
<1>3. Genuine' = Genuine
  BY <1>1 DEF Genuine, Recent, Published
<1> DEFINE s == chunk.message
           n == chunk.idx
<1>4. /\ chunk \in Chunks /\ Recent(s) /\ s \in Published
      /\ s \in Nat /\ n \in Nat /\ n < sent[s]
      /\ sent[s] \in 1..MaxChunks
  <2>1. chunk \in Chunks /\ Recent(s) /\ s \in Published /\ n < sent[s]
    BY <1>2 DEF Genuine, Recent
  <2>2. s \in Nat /\ n \in Nat
    BY <2>1 DEF Chunks
  <2>3. sent \in Seq(1..MaxChunks) /\ s \in 1..Len(sent)
    BY <2>1 DEF ChunksInv, TypeOK, Published
  <2>4. sent[s] \in 1..MaxChunks
    BY <2>3, ElementOfSeq
  <2> QED BY <2>1, <2>2, <2>4
<1>5. CASE CallbackRaises(chunk)
  BY <1>1, <1>2, <1>5, BufferEmptied DEF CallbackRaises, ChunksInv, TypeOK
<1>6. CASE OutOfPlace(chunk)
  BY <1>1, <1>2, <1>6, BufferEmptied DEF OutOfPlace, ChunksInv, TypeOK
<1>7. CASE InPlace(chunk)
  <2>1. /\ recvChunks' = Part(s, n + 1)
        /\ recvChunks' \in Seq(Chunks) /\ Len(recvChunks') = n + 1
    BY <1>2, <1>7, InPlaceContinues DEF InPlace
  <2>2. n + 1 < sent[s] /\ recvId' = IdOf(s) /\ unset' = FALSE /\ delivered' = delivered
    BY <1>4, <1>7 DEF InPlace, IsLast
  <2>3. IdOf(s) \in 0..(Modulus - 1)
    BY <1>4 DEF IdOf
  <2>4. TypeOK'
    <3>1. Len(recvChunks') < MaxChunks
      BY <1>4, <2>1, <2>2
    <3>2. recvId' \in 0..(Modulus - 1) /\ unset' \in BOOLEAN
      BY <2>2, <2>3
    <3> QED BY <1>1, <1>2, <2>1, <2>2, <3>1, <3>2 DEF ChunksInv, TypeOK
  <2>5. BufferPartial'
    <3>1. Published' = Published /\ Recent(s)' /\ IdOf(s)' = IdOf(s) /\ sent'[s] = sent[s]
      BY <1>1, <1>4 DEF Published, Recent, IdOf
    <3>2. recvChunks' = Part(s, Len(recvChunks'))
      BY <2>1
    <3>3. Len(recvChunks') < sent'[s]
      BY <2>1, <2>2, <3>1
    <3> HIDE DEF s
    <3> QED BY <1>4, <2>2, <3>1, <3>2, <3>3 DEF BufferPartial, Part
  <2>6. DeliveredWhole'
    BY <1>1, <2>2 DEF ChunksInv, DeliveredWhole, Published, Message
  <2> QED BY <1>2, <1>3, <2>4, <2>5, <2>6 DEF ChunksInv
<1>8. CASE Completes(chunk)
  <2> DEFINE p == Append(Kept(chunk), chunk)
  <2>1. p = Part(s, n + 1) /\ p \in Seq(Chunks)
    BY <1>2, <1>8, InPlaceContinues DEF Completes
  <2>2. n + 1 = sent[s]
    BY <1>4, <1>8 DEF Completes, IsLast
  <2>3. delivered' = delivered \cup {p} /\ ResetRecvBuffer
    BY <1>8 DEF Completes
  <2>4. recvId' = 0 /\ recvChunks' = <<>> /\ unset' = FALSE
    BY <2>3 DEF ResetRecvBuffer
  <2>5. recvChunks' \in Seq(Chunks) /\ Len(recvChunks') = 0
    BY <2>4, EmptySeq
  <2>6. TypeOK'
    <3>1. delivered' \subseteq Seq(Chunks)
      BY <2>1, <2>3 DEF ChunksInv, TypeOK
    <3> HIDE DEF p
    <3>2. 0 \in 0..(Modulus - 1)
      OBVIOUS
    <3>3. recvId' \in 0..(Modulus - 1)
      BY ONLY <2>4, <3>2
    <3>4. unset' \in BOOLEAN
      BY ONLY <2>4
    <3> QED BY <1>1, <1>2, <2>5, <3>1, <3>3, <3>4 DEF ChunksInv, TypeOK
  <2>7. BufferPartial'
    BY <2>4 DEF BufferPartial
  <2>8. DeliveredWhole'
    <3>1. p = Message(s)
      BY <2>1, <2>2 DEF Message
    <3> HIDE DEF s, p
    <3> QED BY <1>1, <1>4, <2>3, <3>1 DEF ChunksInv, DeliveredWhole, Published, Message
  <2> QED BY <1>2, <1>3, <2>6, <2>7, <2>8 DEF ChunksInv
<1> QED BY <1>1, <1>5, <1>6, <1>7, <1>8

(* ... and so does a new message, which Window keeps apart from the others.  *)
LEMMA PublishInv ==
    ASSUME ChunksInv, NEW k \in 1..MaxChunks, Publish(k)
    PROVE  ChunksInv'
<1> USE ChunksAssumption
<1>0. Len(sent) \in Nat
  BY LenProperties DEF ChunksInv, TypeOK
<1>n. PICK new \in Nat : new = Len(sent) + 1
  BY <1>0
<1>1. /\ sent \in Seq(1..MaxChunks) /\ Len(sent) \in Nat /\ Len(sent) < MaxMessages
      /\ sent' = Append(sent, k) /\ net' = net \o Part(new, k)
      /\ UNCHANGED <<recvId, recvChunks, unset, delivered, damage>>
      /\ Window
  BY <1>0, <1>n DEF Publish, ChunksInv, TypeOK, bufferVars
<1>2. /\ sent' \in Seq(1..MaxChunks) /\ Len(sent') = new
      /\ sent'[new] = k
      /\ \A s \in Published : sent'[s] = sent[s]
  BY <1>1, <1>n DEF Published
<1>3. Published \subseteq Published' /\ new \in Published' /\ new \in 1..MaxMessages
  BY <1>1, <1>2, <1>n DEF Published
<1>4. net \in Seq(Chunks) /\ net \in Seq(Genuine)
  BY DEF ChunksInv, TypeOK
<1>5. net \in Seq(Genuine')
  <2>1. ASSUME NEW i \in 1..Len(net) PROVE net[i] \in Genuine'
    <3>1. net[i] \in Genuine
      BY <1>4, ElementOfSeq
    <3>2. new - net[i].message < Modulus
      BY <1>1, <1>n DEF Window
    <3> QED BY <1>2, <1>3, <3>1, <3>2 DEF Genuine, Recent
  <2>2. net \in [1..Len(net) -> Genuine'] /\ Len(net) \in Nat
    BY <1>4, <2>1, LenProperties
  <2> QED BY <2>2
<1>6. ASSUME NEW i \in 1..k
      PROVE  /\ [message |-> new, idx |-> i - 1] \in Genuine'
             /\ [message |-> new, idx |-> i - 1] \in Chunks
  <2>1. [message |-> new, idx |-> i - 1] \in Chunks /\ i - 1 < k
    BY <1>3 DEF Chunks
  <2>2. Recent(new)'
    BY <1>2, <1>3, <1>1 DEF Recent
  <2> QED BY <1>2, <2>1, <2>2 DEF Genuine
<1>7. Part(new, k) \in Seq(Genuine') /\ Part(new, k) \in Seq(Chunks)
  <2>1. k \in Nat
    OBVIOUS
  <2> QED BY <1>6, <2>1, PartType
<1>8. net' \in Seq(Genuine') /\ net' \in Seq(Chunks)
  BY <1>1, <1>4, <1>5, <1>7, ConcatProperties
<1>9. TypeOK'
  BY <1>1, <1>2, <1>8 DEF ChunksInv, TypeOK
<1>10. BufferPartial'
  <2> SUFFICES ASSUME recvChunks # <<>> PROVE BufferPartial'
    BY <1>1 DEF BufferPartial
  <2>1. PICK m \in Published :
           /\ recvId = IdOf(m)
           /\ Len(recvChunks) < sent[m]
           /\ recvChunks = Part(m, Len(recvChunks))
    BY DEF ChunksInv, BufferPartial
  <2>2. Len(recvChunks) \in Nat /\ 1 \in 1..Len(recvChunks)
    BY EmptySeq, LenProperties DEF ChunksInv, TypeOK
  <2>3. recvChunks[1].message = m
    BY <2>1, <2>2 DEF Part
  <2>4. new - m < Modulus
    BY <1>1, <1>n, <2>2, <2>3 DEF Window
  <2>5. Recent(m)'
    BY <1>2, <1>3, <2>4 DEF Recent
  <2>6. recvId' = IdOf(m) /\ Len(recvChunks') < sent'[m]
        /\ recvChunks' = Part(m, Len(recvChunks')) /\ m \in Published'
    BY <1>1, <1>2, <1>3, <2>1
  <2> QED BY <2>5, <2>6 DEF BufferPartial, IdOf, Part
<1>11. DeliveredWhole'
  <2>1. \A s \in Published : Message(s)' = Message(s)
    BY <1>2 DEF Message, Part
  <2> QED BY <1>1, <1>3, <2>1 DEF ChunksInv, DeliveredWhole
<1> QED BY <1>8, <1>9, <1>10, <1>11 DEF ChunksInv

(* The buffer holds a proper prefix of one recent message in every state of  *)
(* the connection (mqtt_connection.py), whatever the faults.                 *)
THEOREM ChunksInvariant == Spec => []ChunksInv
<1>1. ChunksInv /\ [Next]_vars => ChunksInv'
  <2> SUFFICES ASSUME ChunksInv, [Next]_vars PROVE ChunksInv'
    OBVIOUS
  <2>0. /\ net \in Seq(Chunks) /\ net \in Seq(Genuine)
        /\ damage \in 0..MaxDamage
    BY DEF ChunksInv, TypeOK
  <2>1. ASSUME NEW cost \in Nat, Fault(cost)
        PROVE  damage' \in 0..MaxDamage /\ sent' = sent
    BY <2>0, <2>1, ChunksAssumption DEF Fault
  <2>2. CASE Receive
    BY <2>2, ReceiveInv
  <2>3. ASSUME NEW n \in 1..MaxChunks, Publish(n) PROVE ChunksInv'
    BY <2>3, PublishInv
  <2>4. CASE Lost
    <3>1. net' \in Seq(Genuine) /\ net' \in Seq(Chunks)
      BY <2>0, <2>4, NetOperations DEF Lost
    <3> QED BY <2>1, <2>4, <3>1, BufferEmptied DEF Lost
  <2>5. CASE Repeated
    <3>1. net' \in Seq(Genuine) /\ net' \in Seq(Chunks)
      BY <2>0, <2>5, NetOperations DEF Repeated
    <3> QED BY <2>1, <2>5, <3>1, BufferEmptied DEF Repeated
  <2>6. CASE Overtaken
    <3>0. net # <<>>
      BY <2>6, EmptySeq DEF Overtaken
    <3>1. net' \in Seq(Genuine) /\ net' \in Seq(Chunks)
      BY <2>0, <2>6, <3>0, NetOperations DEF Overtaken
    <3> QED BY <2>1, <2>6, <3>1, BufferEmptied DEF Overtaken
  <2>7. CASE Garbled
    <3>1. net' \in Seq(Genuine) /\ net' \in Seq(Chunks)
      BY <2>0, <2>7, NetOperations DEF Garbled
    <3> QED BY <2>1, <2>7, <3>1, BufferEmptied DEF Garbled
  <2>8. CASE Reconnect
    <3>1. net' = net
      BY <2>8 DEF Reconnect
    <3> QED BY <2>0, <2>1, <2>8, <3>1, BufferEmptied DEF Reconnect
  <2>9. CASE UNCHANGED vars
    <3>1. UNCHANGED <<bufferVars, net, sent, delivered, damage>>
      BY <2>9 DEF vars
    <3> QED BY <2>0, <3>1, BufferEmptied
  <2> QED BY <2>2, <2>3, <2>4, <2>5, <2>6, <2>7, <2>8, <2>9 DEF Next
<1> QED BY <1>1, InitChunksInv, PTL DEF Spec

(* MqttConnection._resp_cb() hands on only whole messages of the controller. *)
THEOREM DeliveredAreWhole == Spec => []DeliveredWhole
<1>1. ChunksInv => DeliveredWhole
  BY DEF ChunksInv
<1> QED BY <1>1, ChunksInvariant, PTL

(* The receive buffer never holds as many chunks as the longest message.     *)
THEOREM ChunksTypes == Spec => []TypeOK
<1>1. ChunksInv => TypeOK
  BY DEF ChunksInv
<1> QED BY <1>1, ChunksInvariant, PTL

-----------------------------------------------------------------------------
(* Losses.  A message is assured when it is delivered, or will be if nothing *)
(* else happens to it: the buffer and what is under way continue each other, *)
(* or it is whole behind other chunks, which leave no chunk with its id in   *)
(* the buffer, and give the list its value if it has none and needs one.     *)
Continued(s) ==
    \E k \in 1..(sent[s] - 1) :
        /\ recvId = IdOf(s) /\ recvChunks = Part(s, k)
        /\ sent[s] - k <= Len(net)
        /\ \A j \in 1..(sent[s] - k) : net[j] = [message |-> s, idx |-> k + j - 1]

WholeAfter(s, i) ==
    /\ i + sent[s] <= Len(net)
    /\ \A j \in (i + 1)..(i + sent[s]) : net[j] = [message |-> s, idx |-> j - i - 1]
    /\ \A j \in 1..i : net[j].message # s
    /\ recvChunks = <<>> \/ recvId # IdOf(s)
    /\ unset /\ IdOf(s) = 0 => \E j \in 1..i : IdOf(net[j].message) # 0

Assured(s) ==
    \/ Message(s) \in delivered
    \/ Continued(s)
    \/ \E i \in 0..Len(net) : WholeAfter(s, i)
AtRisk == {s \in Published : ~Assured(s)}

(* What the list without a value can still cost: a message with id 0 that is *)
(* ahead of one published before it, or the next one published.              *)
Inverted ==
    \E i, j \in 1..Len(net) :
        /\ i < j
        /\ net[i].message > net[j].message
        /\ IdOf(net[i].message) # 0
        /\ IdOf(net[j].message) = 0
NextExposed ==
    /\ IdOf(Len(sent) + 1) = 0
    /\ \A i \in 1..Len(net) : IdOf(net[i].message) = 0

UnsetIsIdle == unset => recvId = 0 /\ recvChunks = <<>>
RiskCharged == Cardinality(AtRisk) <= damage
UnsetChargedAhead == unset /\ (Inverted \/ NextExposed) => Cardinality(AtRisk) < damage

LossInv == ChunksInv /\ UnsetIsIdle /\ RiskCharged /\ UnsetChargedAhead

(* Sets that grow by an element or two. *)
LEMMA OneMore ==
    ASSUME NEW S, NEW T, NEW a, IsFiniteSet(S), T \subseteq S \cup {a}
    PROVE  /\ Cardinality(T) \in Nat /\ Cardinality(S) \in Nat
           /\ Cardinality(T) <= Cardinality(S) + 1
<1>1. /\ IsFiniteSet(S \cup {a}) /\ Cardinality(S) \in Nat
      /\ Cardinality(S \cup {a}) <= Cardinality(S) + 1
  BY FS_AddElement, FS_CardinalityType
<1>2. /\ Cardinality(T) \in Nat /\ Cardinality(S \cup {a}) \in Nat
      /\ Cardinality(T) <= Cardinality(S \cup {a})
  BY <1>1, FS_Subset, FS_CardinalityType
<1> QED BY <1>1, <1>2

LEMMA TwoMore ==
    ASSUME NEW S, NEW T, NEW a, NEW b, IsFiniteSet(S), T \subseteq S \cup {a, b}
    PROVE  /\ Cardinality(T) \in Nat /\ Cardinality(S) \in Nat
           /\ Cardinality(T) <= Cardinality(S) + 2
<1>1. /\ IsFiniteSet(S \cup {a}) /\ Cardinality(S) \in Nat
      /\ Cardinality(S \cup {a}) \in Nat
      /\ Cardinality(S \cup {a}) <= Cardinality(S) + 1
  <2>1. IsFiniteSet(S \cup {a}) /\ (Cardinality(S \cup {a}) = Cardinality(S) \/ Cardinality(S \cup {a}) = Cardinality(S) + 1)
    BY FS_AddElement
  <2>2. Cardinality(S) \in Nat /\ Cardinality(S \cup {a}) \in Nat
    BY <2>1, FS_CardinalityType
  <2> QED BY <2>1, <2>2
<1>2. T \subseteq (S \cup {a}) \cup {b}
  OBVIOUS
<1>3. Cardinality(T) \in Nat /\ Cardinality(T) <= Cardinality(S \cup {a}) + 1
  <2> DEFINE U == S \cup {a}
  <2> HIDE DEF U
  <2> QED BY <1>1, <1>2, OneMore DEF U
<1> QED BY <1>1, <1>3

(* The messages of a state, and the chunks under way. *)
LEMMA ChunkFacts ==
    ASSUME ChunksInv
    PROVE  /\ Len(sent) \in Nat /\ Len(net) \in Nat /\ damage \in Nat
           /\ net \in Seq(Genuine)
           /\ \A s \in Published : s \in 1..MaxMessages /\ sent[s] \in 1..MaxChunks
           /\ \A i \in 1..Len(net) : /\ net[i] \in Genuine /\ Recent(net[i].message)
                                     /\ net[i].message \in Published
           /\ IsFiniteSet(AtRisk)
           /\ AtRisk \subseteq Published
<1> USE ChunksAssumption
<1>1. /\ Len(sent) \in Nat /\ Len(net) \in Nat /\ damage \in Nat /\ Len(sent) <= MaxMessages
      /\ sent \in Seq(1..MaxChunks) /\ net \in Seq(Genuine)
  BY LenProperties DEF ChunksInv, TypeOK
<1>2. \A s \in Published : s \in 1..MaxMessages /\ sent[s] \in 1..MaxChunks
  BY <1>1, ElementOfSeq DEF Published
<1>3. \A i \in 1..Len(net) : net[i] \in Genuine
  BY <1>1, ElementOfSeq
<1>4. IsFiniteSet(Published)
  BY <1>1, FS_Interval DEF Published
<1>5. IsFiniteSet(AtRisk) /\ AtRisk \subseteq Published
  <2>1. AtRisk \subseteq Published
    BY DEF AtRisk
  <2> QED BY <1>4, <2>1, FS_Subset
<1> QED BY <1>1, <1>2, <1>3, <1>5 DEF Genuine, Recent

(* Recent messages have different ids. *)
LEMMA RecentIds ==
    ASSUME ChunksInv, NEW s, NEW t, Recent(s), Recent(t), IdOf(s) = IdOf(t)
    PROVE  s = t
<1> USE ChunksAssumption
<1>1. /\ s \in Nat /\ t \in Nat /\ Len(sent) \in Nat /\ s <= Len(sent) /\ t <= Len(sent)
      /\ Len(sent) - s < Modulus /\ Len(sent) - t < Modulus
  BY ChunkFacts DEF Recent, Published
<1>2. CASE s <= t
  <2>1. t - s < Modulus
    BY <1>1, <1>2
  <2> QED BY <1>1, <1>2, <2>1, SameRemainder DEF IdOf
<1>3. CASE t <= s
  <2>1. s - t < Modulus
    BY <1>1, <1>3
  <2> QED BY <1>1, <1>3, <2>1, SameRemainder DEF IdOf
<1> QED BY <1>1, <1>2, <1>3

(* The messages in flight with the id 0 are at most one.                     *)
LEMMA ZeroOnce ==
    ASSUME ChunksInv
    PROVE  \E z : \A s \in Published : Recent(s) /\ IdOf(s) = 0 => s = z
<1>1. CASE \E z \in Published : Recent(z) /\ IdOf(z) = 0
  <2>1. PICK z \in Published : Recent(z) /\ IdOf(z) = 0
    BY <1>1
  <2>2. \A s \in Published : Recent(s) /\ IdOf(s) = 0 => s = z
    BY <2>1, RecentIds
  <2> QED BY <2>2
<1> QED BY <1>1

(* What is whole, or continued, is in flight. *)
LEMMA WholeIsRecent ==
    ASSUME ChunksInv, NEW s \in Published, NEW i \in Nat, WholeAfter(s, i)
    PROVE  Recent(s) /\ i < Len(net) /\ net[i + 1] = [message |-> s, idx |-> 0]
<1>1. /\ sent[s] \in Nat /\ sent[s] >= 1 /\ Len(net) \in Nat
  BY ChunkFacts
<1>2. i + 1 \in (i + 1)..(i + sent[s]) /\ i + 1 \in 1..Len(net)
  BY <1>1 DEF WholeAfter
<1>3. net[i + 1] = [message |-> s, idx |-> (i + 1) - i - 1]
  BY <1>2 DEF WholeAfter
<1>4. (i + 1) - i - 1 = 0
  OBVIOUS
<1>5. net[i + 1] = [message |-> s, idx |-> 0]
  BY <1>3, <1>4
<1> QED BY <1>2, <1>5, ChunkFacts

LEMMA ContinuedIsFirst ==
    ASSUME ChunksInv, NEW s \in Published, Continued(s)
    PROVE  /\ net # <<>> /\ Len(net) >= 1 /\ net[1].message = s
           /\ Recent(s)
           /\ recvChunks # <<>> /\ recvId = IdOf(s)
<1>1. PICK k \in 1..(sent[s] - 1) :
         /\ recvId = IdOf(s) /\ recvChunks = Part(s, k)
         /\ sent[s] - k <= Len(net)
         /\ \A j \in 1..(sent[s] - k) : net[j] = [message |-> s, idx |-> k + j - 1]
  BY DEF Continued
<1>2. sent[s] \in Nat /\ sent[s] >= 1 /\ Len(net) \in Nat /\ net \in Seq(Genuine)
  BY ChunkFacts
<1>3. 1 \in 1..(sent[s] - k) /\ 1 \in 1..Len(net)
  BY <1>1, <1>2
<1>4. net[1].message = s /\ net # <<>>
  <2>1. net[1] = [message |-> s, idx |-> k + 1 - 1]
    BY <1>1, <1>3
  <2>2. net # <<>>
    BY <1>3, EmptySeq
  <2> QED BY <2>1, <2>2
<1>5. recvChunks # <<>>
  <2>1. k \in Nat /\ k >= 1 /\ k <= MaxChunks /\ s \in 1..MaxMessages
    BY ChunkFacts, <1>2, ChunksAssumption
  <2>2. Len(recvChunks) = k
    BY <1>1, <2>1, PartChunks
  <2> QED BY <2>1, <2>2, EmptySeq
<1> QED BY <1>1, <1>3, <1>4, <1>5, ChunkFacts

-----------------------------------------------------------------------------
(* A chunk that arrives leaves every message assured that was: the next one  *)
(* of a message continues it, ...                                            *)
LEMMA NextChunkAssures ==
    ASSUME ChunksInv, UnsetIsIdle, Receive, NEW s \in Published, Continued(s)
    PROVE  Assured(s)'
<1>1. PICK k \in 1..(sent[s] - 1) :
         /\ recvId = IdOf(s) /\ recvChunks = Part(s, k)
         /\ sent[s] - k <= Len(net)
         /\ \A j \in 1..(sent[s] - k) : net[j] = [message |-> s, idx |-> k + j - 1]
  BY DEF Continued
<1>2. /\ sent[s] \in Nat /\ sent[s] >= 1 /\ sent[s] <= MaxChunks
      /\ Len(net) \in Nat /\ net \in Seq(Genuine)
      /\ s \in 1..MaxMessages /\ k \in Nat /\ k >= 1 /\ k < MaxChunks
  BY ChunkFacts, ChunksAssumption
<1> DEFINE chunk == [message |-> s, idx |-> k]
<1>3. Head(net) = chunk
  <2>1. 1 \in 1..(sent[s] - k) /\ 1 \in 1..Len(net)
    BY <1>1, <1>2
  <2>2. net[1] = [message |-> s, idx |-> k + 1 - 1]
    BY <1>1, <2>1
  <2>3. k + 1 - 1 = k
    BY <1>2
  <2>4. net[1] = chunk
    BY <2>2, <2>3
  <2>5. Head(net) = net[1]
    BY <1>2, <2>1
  <2> QED BY <2>4, <2>5
<1>4. recvChunks # <<>> /\ ~unset
  BY ContinuedIsFirst DEF UnsetIsIdle
<1>5. Kept(chunk) = recvChunks /\ Len(Kept(chunk)) = k /\ chunk.idx = k /\ chunk.message = s
  <2>0. k <= MaxChunks
    BY <1>2, ChunksAssumption
  <2>1. Len(recvChunks) = k
    BY <1>1, <1>2, <2>0, PartChunks
  <2> QED BY <1>1, <2>1 DEF Kept
<1>6. Append(Kept(chunk), chunk) = Part(s, k + 1)
  BY <1>1, <1>2, <1>5, AppendPart
<1>7. sent' = sent /\ net' = Tail(net) /\ (InPlace(chunk) \/ Completes(chunk))
  <2> HIDE DEF chunk
  <2> QED BY <1>3, <1>4, <1>5 DEF Receive, CallbackRaises, OutOfPlace
<1>8. CASE InPlace(chunk)
  <2>1. /\ recvId' = IdOf(s) /\ recvChunks' = Part(s, k + 1)
        /\ k # sent[s] - 1
    BY <1>5, <1>6, <1>8 DEF InPlace, IsLast
  <2>2. k + 1 \in 1..(sent'[s] - 1) /\ sent'[s] = sent[s]
    BY <1>1, <1>2, <1>7, <2>1
  <2>3. Len(net') = Len(net) - 1 /\ \A j \in 1..Len(net') : net'[j] = net[j + 1]
    BY <1>1, <1>2, <1>7, HeadTailProperties
  <2>4. sent'[s] - (k + 1) <= Len(net')
    BY <1>1, <1>2, <2>2, <2>3
  <2>5. ASSUME NEW j \in 1..(sent'[s] - (k + 1))
        PROVE  net'[j] = [message |-> s, idx |-> (k + 1) + j - 1]
    <3>1. j \in 1..Len(net') /\ j + 1 \in 1..(sent[s] - k)
      BY <1>1, <1>2, <2>2, <2>3, <2>4
    <3>2. net[j + 1] = [message |-> s, idx |-> k + (j + 1) - 1]
      BY <1>1, <3>1
    <3>3. k + (j + 1) - 1 = (k + 1) + j - 1
      BY <1>2, <3>1
    <3> QED BY <2>3, <3>1, <3>2, <3>3
  <2>6. Continued(s)'
    <3> DEFINE m == k + 1
    <3>1. /\ m \in 1..(sent'[s] - 1) /\ recvId' = IdOf(s) /\ recvChunks' = Part(s, m)
          /\ sent'[s] - m <= Len(net')
          /\ \A j \in 1..(sent'[s] - m) : net'[j] = [message |-> s, idx |-> m + j - 1]
      BY <2>1, <2>2, <2>4, <2>5
    <3> HIDE DEF m
    <3> QED BY <3>1 DEF Continued, IdOf, Part
  <2> QED BY <2>6 DEF Assured
<1>9. CASE Completes(chunk)
  <2>1. sent[s] = k + 1
    BY <1>2, <1>5, <1>9 DEF Completes, IsLast
  <2>2. Part(s, k + 1) \in delivered'
    BY <1>6, <1>9 DEF Completes
  <2>3. Message(s)' \in delivered'
    BY <1>7, <2>1, <2>2 DEF Message, Part
  <2> QED BY <2>3 DEF Assured
<1> QED BY <1>7, <1>8, <1>9

(* ... the first one of a message that is next begins it, ...                *)
LEMMA FirstChunkAssures ==
    ASSUME ChunksInv, UnsetIsIdle, Receive, NEW s \in Published, WholeAfter(s, 0)
    PROVE  Assured(s)'
<1>1. /\ sent[s] \in Nat /\ sent[s] >= 1 /\ sent[s] <= MaxChunks
      /\ Len(net) \in Nat /\ net \in Seq(Genuine)
      /\ s \in 1..MaxMessages
  BY ChunkFacts, ChunksAssumption
<1>2. /\ sent[s] <= Len(net)
      /\ \A j \in 1..sent[s] : net[j] = [message |-> s, idx |-> j - 1]
      /\ recvChunks = <<>> \/ recvId # IdOf(s)
      /\ ~(unset /\ IdOf(s) = 0)
  BY <1>1 DEF WholeAfter
<1> DEFINE chunk == [message |-> s, idx |-> 0]
<1>3. Head(net) = chunk
  <2>1. 1 \in 1..sent[s] /\ 1 \in 1..Len(net) /\ 1 - 1 = 0
    BY <1>1, <1>2
  <2>2. net[1] = chunk
    BY <1>2, <2>1
  <2>3. Head(net) = net[1]
    BY <1>1, <2>1
  <2> QED BY <2>2, <2>3
<1>4. Kept(chunk) = <<>> /\ HasList(chunk) /\ chunk.idx = 0 /\ chunk.message = s
  BY <1>2 DEF Kept, HasList, UnsetIsIdle
<1>5. Append(Kept(chunk), chunk) = Part(s, 1)
  <2>1. Part(s, 0) = <<>>
    BY DEF Part
  <2>0. 0 \in Nat /\ 0 < MaxChunks
    BY ChunksAssumption
  <2>2. Append(Part(s, 0), chunk) = Part(s, 0 + 1)
    BY <1>1, <2>0, AppendPart
  <2>3. Part(s, 0 + 1) = Part(s, 1)
    BY 0 + 1 = 1
  <2> HIDE DEF chunk
  <2> QED BY <1>4, <2>1, <2>2, <2>3
<1>6. Len(Kept(chunk)) = 0
  BY <1>4, EmptySeq
<1>7. sent' = sent /\ net' = Tail(net) /\ (InPlace(chunk) \/ Completes(chunk))
  <2> HIDE DEF chunk
  <2> QED BY <1>3, <1>4, <1>6 DEF Receive, CallbackRaises, OutOfPlace, HasList
<1>8. CASE InPlace(chunk)
  <2>1. recvId' = IdOf(s) /\ recvChunks' = Part(s, 1) /\ 0 # sent[s] - 1
    BY <1>4, <1>5, <1>8 DEF InPlace, IsLast
  <2>2. 1 \in 1..(sent'[s] - 1) /\ sent'[s] = sent[s]
    BY <1>1, <1>7, <2>1
  <2>3. Len(net') = Len(net) - 1 /\ \A j \in 1..Len(net') : net'[j] = net[j + 1]
    BY <1>1, <1>2, <1>7, HeadTailProperties
  <2>4. sent'[s] - 1 <= Len(net')
    BY <1>1, <1>2, <2>2, <2>3
  <2>5. ASSUME NEW j \in 1..(sent'[s] - 1)
        PROVE  net'[j] = [message |-> s, idx |-> 1 + j - 1]
    <3>1. j \in 1..Len(net') /\ j + 1 \in 1..sent[s] /\ (j + 1) - 1 = 1 + j - 1
      BY <1>1, <2>2, <2>3, <2>4
    <3> QED BY <1>2, <2>3, <3>1
  <2>6. Continued(s)'
    BY <2>1, <2>2, <2>4, <2>5 DEF Continued, IdOf, Part
  <2> QED BY <2>6 DEF Assured
<1>9. CASE Completes(chunk)
  <2>1. sent[s] = 1
    BY <1>1, <1>4, <1>9 DEF Completes, IsLast
  <2>2. Part(s, 1) \in delivered'
    BY <1>5, <1>9 DEF Completes
  <2>3. Message(s)' \in delivered'
    BY <1>7, <2>1, <2>2 DEF Message, Part
  <2> QED BY <2>3 DEF Assured
<1> QED BY <1>7, <1>8, <1>9

(* ... and one of another message leaves what is whole behind it so: it has  *)
(* another id, or the buffer ends up empty.                                  *)
LEMMA OtherChunkKeepsWhole ==
    ASSUME ChunksInv, UnsetIsIdle, Receive, NEW s \in Published,
           NEW i \in 1..Len(net), WholeAfter(s, i)
    PROVE  Assured(s)'
<1>1. /\ sent[s] \in Nat /\ sent[s] >= 1 /\ Len(net) \in Nat /\ net \in Seq(Genuine)
      /\ i \in Nat /\ i >= 1
  BY ChunkFacts
<1>2. Recent(s) /\ i < Len(net)
  BY <1>1, WholeIsRecent
<1> DEFINE chunk == net[1]
           t == chunk.message
<1>3. Head(net) = chunk /\ chunk \in Genuine /\ Recent(t) /\ t # s
  <2>1. 1 \in 1..Len(net) /\ 1 \in 1..i
    BY <1>1
  <2>2. t # s
    BY <2>1 DEF WholeAfter
  <2>3. Head(net) = net[1]
    BY <1>1, <2>1
  <2> QED BY <2>1, <2>2, <2>3, ChunkFacts
<1>4. IdOf(t) # IdOf(s)
  BY <1>2, <1>3, RecentIds
<1>5. /\ sent' = sent /\ net' = Tail(net)
      /\ CallbackRaises(chunk) \/ OutOfPlace(chunk) \/ InPlace(chunk) \/ Completes(chunk)
  BY <1>3 DEF Receive
<1>6. /\ recvChunks' = <<>> \/ recvId' # IdOf(s)
      /\ unset' => unset /\ IdOf(t) = 0
  <2>1. CASE CallbackRaises(chunk)
    BY <2>1 DEF CallbackRaises, bufferVars, UnsetIsIdle
  <2>2. CASE OutOfPlace(chunk) \/ Completes(chunk)
    BY <2>2 DEF OutOfPlace, Completes, ResetRecvBuffer
  <2>3. CASE InPlace(chunk)
    BY <1>4, <2>3 DEF InPlace
  <2> QED BY <1>5, <2>1, <2>2, <2>3
<1>7. Len(net') = Len(net) - 1 /\ \A j \in 1..Len(net') : net'[j] = net[j + 1]
  BY <1>1, <1>2, <1>5, HeadTailProperties
<1> DEFINE h == i - 1
<1>8. h \in 0..Len(net') /\ h + sent'[s] <= Len(net') /\ sent'[s] = sent[s] /\ h \in Nat
  BY <1>1, <1>2, <1>5, <1>7 DEF WholeAfter
<1>9. ASSUME NEW j \in (h + 1)..(h + sent'[s]) PROVE net'[j] = [message |-> s, idx |-> j - h - 1]
  <2>1. j + 1 \in (i + 1)..(i + sent[s]) /\ (j + 1) - i - 1 = j - h - 1 /\ j \in 1..Len(net')
    BY <1>1, <1>8
  <2> HIDE DEF h
  <2>2. net[j + 1] = [message |-> s, idx |-> (j + 1) - i - 1]
    BY <2>1 DEF WholeAfter
  <2> QED BY <1>7, <2>1, <2>2
<1>10. \A j \in 1..h : net'[j].message # s
  <2> SUFFICES ASSUME NEW j \in 1..h PROVE net'[j].message # s
    OBVIOUS
  <2>1. j + 1 \in 1..i /\ j \in 1..Len(net')
    BY <1>1, <1>8
  <2> QED BY <1>7, <2>1 DEF WholeAfter
<1>11. unset' /\ IdOf(s) = 0 => \E j \in 1..h : IdOf(net'[j].message) # 0
  <2> SUFFICES ASSUME unset', IdOf(s) = 0 PROVE \E j \in 1..h : IdOf(net'[j].message) # 0
    OBVIOUS
  <2>1. PICK j \in 1..i : IdOf(net[j].message) # 0
    BY <1>6 DEF WholeAfter
  <2>2. j # 1
    BY <1>6, <2>1
  <2>3. j - 1 \in 1..h /\ j - 1 \in 1..Len(net') /\ (j - 1) + 1 = j
    BY <1>1, <1>8, <2>2
  <2> HIDE DEF h
  <2>4. net'[j - 1] = net[j]
    BY <1>7, <2>3
  <2> QED BY <2>1, <2>3, <2>4
<1>12. WholeAfter(s, h)'
  <2> HIDE DEF h
  <2> QED BY <1>6, <1>8, <1>9, <1>10, <1>11 DEF WholeAfter, IdOf
<1> QED BY <1>8, <1>12 DEF Assured

LEMMA ReceiveAssures ==
    ASSUME ChunksInv, UnsetIsIdle, Receive, NEW s \in Published, Assured(s)
    PROVE  Assured(s)'
<1>1. CASE Message(s) \in delivered
  <2>1. delivered \subseteq delivered' /\ sent' = sent
    BY DEF Receive, CallbackRaises, OutOfPlace, InPlace, Completes
  <2> QED BY <1>1, <2>1 DEF Assured, Message, Part
<1>2. CASE Continued(s)
  BY <1>2, NextChunkAssures
<1>3. ASSUME NEW i \in 0..Len(net), WholeAfter(s, i) PROVE Assured(s)'
  <2>1. CASE i = 0
    BY <1>3, <2>1, FirstChunkAssures
  <2>2. CASE i # 0
    <3>1. i \in 1..Len(net)
      BY <2>2, ChunkFacts
    <3> QED BY <1>3, <3>1, OtherChunkKeepsWhole
  <2> QED BY <2>1, <2>2
<1> QED BY <1>1, <1>2, <1>3 DEF Assured

-----------------------------------------------------------------------------
(* What a fault does to the chunks of a message that is whole moves them.    *)
LEMMA MovedIsAssured ==
    ASSUME ChunksInv, NEW s \in Published, NEW i \in Nat, WholeAfter(s, i),
           NEW h \in Nat, sent' = sent, Len(net') \in Nat, h + sent[s] <= Len(net'),
           \A j \in (i + 1)..(i + sent[s]) : net'[j + h - i] = net[j],
           \A j \in 1..h : net'[j].message # s,
           recvChunks' = <<>> \/ (recvChunks' = recvChunks /\ recvId' = recvId),
           unset' /\ IdOf(s) = 0 => \E j \in 1..h : IdOf(net'[j].message) # 0
    PROVE  Assured(s)'
<1>1. sent[s] \in Nat /\ sent'[s] = sent[s] /\ h \in 0..Len(net')
  BY ChunkFacts
<1>2. ASSUME NEW j \in (h + 1)..(h + sent'[s]) PROVE net'[j] = [message |-> s, idx |-> j - h - 1]
  <2> DEFINE m == j - h + i
  <2>1. m \in (i + 1)..(i + sent[s]) /\ m + h - i = j /\ m - i - 1 = j - h - 1
    BY <1>1
  <2> HIDE DEF m
  <2>2. net[m] = [message |-> s, idx |-> m - i - 1]
    BY <2>1 DEF WholeAfter
  <2> QED BY <2>1, <2>2
<1>3. recvChunks' = <<>> \/ recvId' # IdOf(s)
  BY DEF WholeAfter
<1>4. WholeAfter(s, h)'
  BY <1>1, <1>2, <1>3 DEF WholeAfter, IdOf
<1> QED BY <1>1, <1>4 DEF Assured

(* No chunk moves, but the buffer may be emptied.                            *)
LEMMA StillWhole ==
    ASSUME ChunksInv, NEW s \in Published, NEW i \in Nat, WholeAfter(s, i),
           sent' = sent, net' = net, recvChunks' = <<>>,
           unset' /\ IdOf(s) = 0 => \E j \in 1..i : IdOf(net[j].message) # 0
    PROVE  Assured(s)'
<1>1. /\ Len(net') \in Nat /\ i + sent[s] <= Len(net')
      /\ \A j \in 1..i : net'[j].message # s
  BY ChunkFacts DEF WholeAfter
<1>2. \A j \in (i + 1)..(i + sent[s]) : net'[j + i - i] = net[j]
  <2>1. \A j \in Int : j + i - i = j
    OBVIOUS
  <2> QED BY <2>1, ChunkFacts
<1> QED BY <1>1, <1>2, MovedIsAssured

(* The first chunk under way is gone.                                        *)
LEMMA WithoutFirst ==
    ASSUME ChunksInv, NEW s \in Published, Assured(s), net # <<>>, s # net[1].message,
           sent' = sent, delivered' = delivered, net' = Tail(net),
           recvChunks' = <<>> \/ (recvChunks' = recvChunks /\ recvId' = recvId),
           unset' /\ Recent(s) => unset /\ (IdOf(s) = 0 =>
               \E i \in Nat : WholeAfter(s, i) /\ \E j \in 2..i : IdOf(net[j].message) # 0)
    PROVE  Assured(s)'
<1>1. CASE Message(s) \in delivered
  BY <1>1 DEF Assured, Message, Part
<1>2. CASE Continued(s)
  BY <1>2, ContinuedIsFirst
<1>3. ASSUME NEW n \in Nat, WholeAfter(s, n)
      PROVE  Assured(s)'
  <2>1. /\ sent[s] \in Nat /\ sent[s] >= 1 /\ Len(net) \in Nat /\ net \in Seq(Genuine)
        /\ Recent(s)
    <3>1. Recent(s)
      BY <1>3, WholeIsRecent
    <3> QED BY <3>1, ChunkFacts
  <2>2. PICK i \in Nat :
           /\ WholeAfter(s, i)
           /\ unset' /\ IdOf(s) = 0 => \E j \in 2..i : IdOf(net[j].message) # 0
    BY <1>3, <2>1
  <2>3. i < Len(net) /\ net[i + 1] = [message |-> s, idx |-> 0]
    BY <2>2, WholeIsRecent
  <2>4. i # 0
    BY <2>3
  <2>5. Len(net') = Len(net) - 1 /\ \A j \in 1..Len(net') : net'[j] = net[j + 1]
    BY HeadTailProperties, <2>1
  <2> DEFINE h == i - 1
  <2>6. /\ h \in Nat /\ Len(net') \in Nat
        /\ h + sent[s] <= Len(net')
    BY <2>1, <2>2, <2>3, <2>4, <2>5 DEF WholeAfter
  <2>7. ASSUME NEW j \in (i + 1)..(i + sent[s]) PROVE net'[j + h - i] = net[j]
    <3>1. j + h - i = j - 1 /\ j - 1 \in 1..Len(net') /\ (j - 1) + 1 = j
      BY <2>1, <2>4, <2>6
    <3> HIDE DEF h
    <3> QED BY <2>5, <3>1
  <2>8. ASSUME NEW j \in 1..h PROVE net'[j].message # s
    <3>1. j + 1 \in 1..i /\ j \in 1..Len(net')
      BY <2>1, <2>3, <2>5
    <3> QED BY <2>2, <2>5, <3>1 DEF WholeAfter
  <2>9. ASSUME unset', IdOf(s) = 0 PROVE \E j \in 1..h : IdOf(net'[j].message) # 0
    <3>1. PICK j \in 2..i : IdOf(net[j].message) # 0
      BY <2>2, <2>9
    <3>2. j - 1 \in 1..h /\ j - 1 \in 1..Len(net') /\ (j - 1) + 1 = j
      BY <2>1, <2>3, <2>5
    <3> HIDE DEF h
    <3> QED BY <2>5, <3>1, <3>2
  <2> HIDE DEF h
  <2> QED BY <2>2, <2>6, <2>7, <2>8, <2>9, MovedIsAssured
<1> QED BY <1>1, <1>2, <1>3 DEF Assured

(* The first chunk under way comes twice.                                    *)
LEMMA TwiceFirst ==
    ASSUME ChunksInv, NEW s \in Published, Assured(s), net # <<>>, s # net[1].message,
           sent' = sent, delivered' = delivered, net' = <<Head(net)>> \o net,
           UNCHANGED bufferVars
    PROVE  Assured(s)'
<1>1. CASE Message(s) \in delivered
  BY <1>1 DEF Assured, Message, Part
<1>2. CASE Continued(s)
  BY <1>2, ContinuedIsFirst
<1>3. ASSUME NEW i \in Nat, WholeAfter(s, i) PROVE Assured(s)'
  <2>1. /\ sent[s] \in Nat /\ Len(net) \in Nat /\ net \in Seq(Genuine)
    BY ChunkFacts
  <2>2. Len(net') = Len(net) + 1 /\ net'[1] = net[1] /\ \A j \in 1..Len(net) : net'[j + 1] = net[j]
    <3>1. Head(net) = net[1] /\ Head(net) \in Genuine
      BY <2>1, HeadTailProperties
    <3>2. <<Head(net)>> \in Seq(Genuine) /\ Len(<<Head(net)>>) = 1
      BY <3>1
    <3> QED BY <2>1, <3>1, <3>2, ConcatProperties
  <2> DEFINE h == i + 1
  <2>3. h \in Nat /\ Len(net') \in Nat /\ h + sent[s] <= Len(net')
    BY <1>3, <2>1, <2>2 DEF WholeAfter
  <2>4. ASSUME NEW j \in (i + 1)..(i + sent[s]) PROVE net'[j + h - i] = net[j]
    <3>1. j + h - i = j + 1 /\ j \in 1..Len(net)
      BY <1>3, <2>1 DEF WholeAfter
    <3> HIDE DEF h
    <3> QED BY <2>2, <3>1
  <2>5. ASSUME NEW j \in 1..h PROVE net'[j].message # s
    <3>1. CASE j = 1
      BY <2>2, <3>1
    <3>2. CASE j # 1
      <4>1. j - 1 \in 1..i /\ j - 1 \in 1..Len(net) /\ (j - 1) + 1 = j
        BY <2>1, <2>2, <2>3, <3>2
      <4>2. net'[j] = net[j - 1]
        BY <2>2, <4>1
      <4> QED BY <1>3, <4>1, <4>2 DEF WholeAfter
    <3> QED BY <3>1, <3>2
  <2>6. ASSUME unset', IdOf(s) = 0 PROVE \E j \in 1..h : IdOf(net'[j].message) # 0
    <3>1. PICK j \in 1..i : IdOf(net[j].message) # 0
      BY <1>3, <2>6 DEF WholeAfter, bufferVars
    <3>2. j + 1 \in 1..h /\ j \in 1..Len(net)
      BY <1>3, <2>1 DEF WholeAfter
    <3> HIDE DEF h
    <3> QED BY <2>2, <3>1, <3>2
  <2>7. recvChunks' = recvChunks /\ recvId' = recvId
    BY DEF bufferVars
  <2> HIDE DEF h
  <2> QED BY <1>3, <2>3, <2>4, <2>5, <2>6, <2>7, MovedIsAssured
<1> QED BY <1>1, <1>2, <1>3, ChunkFacts DEF Assured

(* The second chunk under way overtakes the first.                           *)
LEMMA SwappedFirst ==
    ASSUME ChunksInv, NEW s \in Published, Assured(s),
           s # net[1].message, s # net[2].message, Overtaken
    PROVE  Assured(s)'
<1>0. /\ sent' = sent /\ delivered' = delivered /\ Len(net) >= 2
      /\ net' = [net EXCEPT ![1] = net[2], ![2] = net[1]] /\ UNCHANGED bufferVars
  BY DEF Overtaken, Fault
<1>1. CASE Message(s) \in delivered
  BY <1>0, <1>1 DEF Assured, Message, Part
<1>2. CASE Continued(s)
  BY <1>2, ContinuedIsFirst
<1>3. ASSUME NEW i \in Nat, WholeAfter(s, i) PROVE Assured(s)'
  <2>1. /\ sent[s] \in Nat /\ Len(net) \in Nat /\ net \in Seq(Genuine)
        /\ net[i + 1] = [message |-> s, idx |-> 0]
    BY <1>3, ChunkFacts, WholeIsRecent
  <2>2. i >= 2
    <3>1. i # 0 /\ i # 1
      BY <2>1
    <3> QED BY <3>1
  <2>3. /\ Len(net') = Len(net) /\ net'[1] = net[2] /\ net'[2] = net[1]
        /\ \A j \in 1..Len(net) : j # 1 /\ j # 2 => net'[j] = net[j]
    BY <1>0, <2>1
  <2>4. Len(net') \in Nat /\ i + sent[s] <= Len(net')
    BY <1>3, <2>1, <2>3 DEF WholeAfter
  <2>5. ASSUME NEW j \in (i + 1)..(i + sent[s]) PROVE net'[j + i - i] = net[j]
    <3>1. j + i - i = j /\ j \in 1..Len(net) /\ j # 1 /\ j # 2
      BY <2>1, <2>2, <2>3, <2>4
    <3> QED BY <2>3, <3>1
  <2>6. ASSUME NEW j \in 1..i PROVE net'[j].message # s
    <3>1. j \in 1..Len(net)
      BY <2>1, <2>3, <2>4
    <3> QED BY <1>3, <2>3, <3>1 DEF WholeAfter
  <2>7. ASSUME unset', IdOf(s) = 0 PROVE \E j \in 1..i : IdOf(net'[j].message) # 0
    <3>1. PICK j \in 1..i : IdOf(net[j].message) # 0
      BY <1>0, <1>3, <2>7 DEF WholeAfter, bufferVars
    <3>2. j \in 1..Len(net) /\ 1 \in 1..i /\ 2 \in 1..i
      BY <2>1, <2>2, <2>3, <2>4
    <3> QED BY <2>3, <3>1, <3>2
  <2>8. recvChunks' = recvChunks /\ recvId' = recvId
    BY <1>0 DEF bufferVars
  <2> QED BY <1>0, <1>3, <2>4, <2>5, <2>6, <2>7, <2>8, MovedIsAssured
<1> QED BY <1>1, <1>2, <1>3, ChunkFacts DEF Assured

-----------------------------------------------------------------------------
(* A new message leaves the others alone, and is assured itself, but for a   *)
(* first one with the id 0.                                                  *)
LEMMA PublishAssures ==
    ASSUME ChunksInv, NEW k \in 1..MaxChunks, Publish(k), NEW s \in Published, Assured(s)
    PROVE  Assured(s)'
<1>1. /\ Len(sent) \in Nat /\ Len(net) \in Nat /\ net \in Seq(Chunks)
      /\ sent \in Seq(1..MaxChunks) /\ sent[s] \in 1..MaxChunks /\ s \in 1..Len(sent)
  BY ChunkFacts DEF ChunksInv, TypeOK, Published
<1>2. /\ sent' = Append(sent, k) /\ net' = net \o Part(Len(sent) + 1, k)
      /\ UNCHANGED <<recvId, recvChunks, unset, delivered>>
      /\ Len(sent) + 1 \in 1..MaxMessages
  BY <1>1, ChunksAssumption DEF Publish, bufferVars
<1>3. sent'[s] = sent[s]
  BY <1>1, <1>2
<1>4. /\ Part(Len(sent) + 1, k) \in Seq(Chunks)
      /\ Len(Part(Len(sent) + 1, k)) = k
  BY <1>2, ChunksAssumption, PartChunks
<1>5. Len(net') = Len(net) + k /\ \A j \in 1..Len(net) : net'[j] = net[j]
  <2> DEFINE part == Part(Len(sent) + 1, k)
  <2>1. part \in Seq(Chunks) /\ Len(part) = k /\ net' = net \o part
    BY <1>2, <1>4
  <2> HIDE DEF part
  <2>2. /\ Len(net \o part) = Len(net) + Len(part)
        /\ \A j \in 1..(Len(net) + Len(part)) :
               (net \o part)[j] = IF j <= Len(net) THEN net[j] ELSE part[j - Len(net)]
    BY <1>1, <2>1, ConcatProperties
  <2>3. ASSUME NEW j \in 1..Len(net) PROVE net'[j] = net[j]
    <3>1. j \in 1..(Len(net) + Len(part)) /\ j <= Len(net)
      BY <1>1, <2>1
    <3> QED BY <2>1, <2>2, <3>1
  <2> QED BY <2>1, <2>2, <2>3
<1>6. CASE Message(s) \in delivered
  BY <1>2, <1>3, <1>6 DEF Assured, Message, Part
<1>7. CASE Continued(s)
  <2>1. PICK n \in 1..(sent[s] - 1) :
           /\ recvId = IdOf(s) /\ recvChunks = Part(s, n)
           /\ sent[s] - n <= Len(net)
           /\ \A j \in 1..(sent[s] - n) : net[j] = [message |-> s, idx |-> n + j - 1]
    BY <1>7 DEF Continued
  <2>2. \A j \in 1..(sent[s] - n) : net'[j] = [message |-> s, idx |-> n + j - 1]
    <3>1. \A j \in 1..(sent[s] - n) : j \in 1..Len(net)
      BY <1>1, <2>1
    <3> QED BY <1>5, <2>1, <3>1
  <2>3. sent'[s] - n <= Len(net') /\ n \in 1..(sent'[s] - 1)
    BY <1>1, <1>3, <1>5, <2>1
  <2>4. Continued(s)'
    BY <1>2, <1>3, <2>1, <2>2, <2>3 DEF Continued, IdOf, Part
  <2> QED BY <2>4 DEF Assured
<1>8. ASSUME NEW i \in 0..Len(net), WholeAfter(s, i) PROVE Assured(s)'
  <2>1. i + sent'[s] <= Len(net') /\ i \in 0..Len(net')
    BY <1>1, <1>3, <1>5, <1>8 DEF WholeAfter
  <2>2. \A j \in 1..(i + sent[s]) : j \in 1..Len(net)
    BY <1>1, <1>8 DEF WholeAfter
  <2>3. ASSUME NEW j \in (i + 1)..(i + sent'[s]) PROVE net'[j] = [message |-> s, idx |-> j - i - 1]
    <3>1. j \in 1..(i + sent[s]) /\ j \in (i + 1)..(i + sent[s])
      BY <1>1, <1>3
    <3> QED BY <1>5, <1>8, <2>2, <3>1 DEF WholeAfter
  <2>4. \A j \in 1..i : net'[j] = net[j]
    <3>1. \A j \in 1..i : j \in 1..(i + sent[s])
      BY <1>1
    <3> QED BY <1>5, <2>2, <3>1
  <2>5. WholeAfter(s, i)'
    BY <1>2, <1>3, <1>8, <2>1, <2>3, <2>4 DEF WholeAfter, IdOf
  <2> QED BY <2>1, <2>5 DEF Assured
<1> QED BY <1>6, <1>7, <1>8 DEF Assured

LEMMA NewIsAssured ==
    ASSUME ChunksInv, NEW k \in 1..MaxChunks, Publish(k), ~(unset /\ NextExposed),
           NEW new \in Nat, new = Len(sent) + 1
    PROVE  Assured(new)'
<1>0. Len(sent) \in Nat
  BY ChunkFacts
<1>i. PICK i \in Nat : i = Len(net)
  BY ChunkFacts
<1>1. /\ Len(net) \in Nat /\ net \in Seq(Chunks) /\ sent \in Seq(1..MaxChunks)
  BY ChunkFacts DEF ChunksInv, TypeOK
<1>2. /\ sent' = Append(sent, k) /\ net' = net \o Part(new, k)
      /\ UNCHANGED <<recvId, recvChunks, unset, delivered>>
      /\ new \in 1..MaxMessages /\ Window
  BY <1>0, <1>1, ChunksAssumption DEF Publish, bufferVars
<1>3. sent'[new] = k
  BY <1>0, <1>1, <1>2
<1>4. /\ Part(new, k) \in Seq(Chunks) /\ Len(Part(new, k)) = k
      /\ \A p \in 1..k : Part(new, k)[p] = [message |-> new, idx |-> p - 1]
  <2>1. k \in Nat /\ k <= MaxChunks
    BY ChunksAssumption
  <2> QED BY ONLY <1>2, <2>1, PartChunks
<1>5. /\ Len(net') = Len(net) + k /\ \A j \in 1..Len(net) : net'[j] = net[j]
      /\ \A j \in (Len(net) + 1)..(Len(net) + k) : net'[j] = Part(new, k)[j - Len(net)]
  <2> DEFINE part == Part(new, k)
  <2>1. net \in Seq(Chunks) /\ part \in Seq(Chunks) /\ Len(part) = k /\ net' = net \o part
    BY <1>1, <1>2, <1>4
  <2> HIDE DEF part
  <2>2. /\ Len(net \o part) = Len(net) + Len(part)
        /\ \A j \in 1..Len(net) : (net \o part)[j] = net[j]
        /\ \A j \in (Len(net) + 1)..(Len(net) + Len(part)) : (net \o part)[j] = part[j - Len(net)]
    BY ONLY <2>1, Concatenated
  <2> QED BY <2>1, <2>2 DEF part
<1>6. ASSUME NEW j \in (i + 1)..(i + k) PROVE net'[j] = [message |-> new, idx |-> j - i - 1]
  <2>1. j - i \in 1..k
    BY <1>1, <1>i
  <2> QED BY <1>4, <1>5, <1>i, <2>1
<1>7. \A j \in 1..i : net'[j].message # new
  <2>1. \A j \in 1..i : net[j].message \in Published
    BY <1>i, ChunkFacts
  <2>2. \A j \in 1..i : net[j].message # new
    BY <1>0, <2>1 DEF Published
  <2> QED BY <1>5, <1>i, <2>2
<1>8. recvChunks' = <<>> \/ recvId' # IdOf(new)
  <2> SUFFICES ASSUME recvChunks # <<>>, recvId = IdOf(new) PROVE FALSE
    BY <1>2
  <2>1. PICK m \in Published : recvId = IdOf(m) /\ recvChunks = Part(m, Len(recvChunks))
    BY DEF ChunksInv, BufferPartial
  <2>2. Len(recvChunks) \in Nat /\ 1 \in 1..Len(recvChunks)
    BY EmptySeq, LenProperties DEF ChunksInv, TypeOK
  <2>3. recvChunks[1].message = m
    BY <2>1, <2>2 DEF Part
  <2>4. new - m < Modulus
    BY <1>2, <2>2, <2>3 DEF Window
  <2>5. m \in Nat /\ m < new /\ m % Modulus = new % Modulus
    BY <1>0, <2>1 DEF Published, IdOf
  <2>6. m = new
    BY <2>4, <2>5, SameRemainder, ChunksAssumption
  <2> QED BY <2>5, <2>6
<1>9. unset' /\ IdOf(new) = 0 => \E j \in 1..i : IdOf(net'[j].message) # 0
  <2>1. unset /\ IdOf(new) = 0 => \E j \in 1..i : IdOf(net[j].message) # 0
    BY <1>i DEF NextExposed
  <2> QED BY <1>2, <1>5, <1>i, <2>1
<1>10. Assured(new)'
  <2>1. i + sent'[new] <= Len(net')
    BY <1>1, <1>3, <1>5, <1>i
  <2>2. \A j \in (i + 1)..(i + sent'[new]) : net'[j] = [message |-> new, idx |-> j - i - 1]
    BY <1>3, <1>6
  <2>3. WholeAfter(new, i)'
    BY <1>7, <1>8, <1>9, <2>1, <2>2 DEF WholeAfter, IdOf
  <2>4. i \in 0..Len(net')
    BY <1>1, <1>5, <1>i
  <2> QED BY <2>3, <2>4 DEF Assured
<1> QED BY <1>10

-----------------------------------------------------------------------------
(* How the messages at risk grow when the faults leave all but two assured.  *)
LEMMA AtRiskGrows ==
    ASSUME ChunksInv, sent' = sent, NEW a, NEW b,
           \A s \in Published : Assured(s) /\ s # a /\ s # b => Assured(s)'
    PROVE  /\ Cardinality(AtRisk) \in Nat /\ Cardinality(AtRisk') \in Nat
           /\ Cardinality(AtRisk') <= Cardinality(AtRisk) + 2
           /\ a = b => Cardinality(AtRisk') <= Cardinality(AtRisk) + 1
<1>1. IsFiniteSet(AtRisk)
  BY ChunkFacts
<1>2. AtRisk' \subseteq AtRisk \cup {a, b}
  BY DEF AtRisk, Published
<1>3. a = b => AtRisk' \subseteq AtRisk \cup {a}
  BY <1>2
<1> DEFINE S == AtRisk
           T == AtRisk'
<1> HIDE DEF S, T
<1>4. IsFiniteSet(S) /\ T \subseteq S \cup {a, b} /\ (a = b => T \subseteq S \cup {a})
  BY <1>1, <1>2, <1>3 DEF S, T
<1>5. Cardinality(T) \in Nat /\ Cardinality(S) \in Nat /\ Cardinality(T) <= Cardinality(S) + 2
  BY <1>4, TwoMore
<1>6. a = b => Cardinality(T) <= Cardinality(S) + 1
  BY <1>4, OneMore
<1> QED BY <1>5, <1>6 DEF S, T

LEMMA AtRiskKept ==
    ASSUME ChunksInv, AtRisk' \subseteq AtRisk
    PROVE  /\ Cardinality(AtRisk) \in Nat /\ Cardinality(AtRisk') \in Nat
           /\ Cardinality(AtRisk') <= Cardinality(AtRisk)
<1> DEFINE S == AtRisk
           T == AtRisk'
<1>1. IsFiniteSet(S) /\ T \subseteq S
  BY ChunkFacts
<1> HIDE DEF S, T
<1>2. Cardinality(T) \in Nat /\ Cardinality(S) \in Nat /\ Cardinality(T) <= Cardinality(S)
  BY <1>1, FS_Subset, FS_CardinalityType
<1> QED BY <1>2 DEF S, T

(* Without its first chunk, what is under way is no worse ordered.           *)
LEMMA TailOrder ==
    ASSUME ChunksInv, net # <<>>, net' = Tail(net), sent' = sent
    PROVE  /\ Inverted' => Inverted
           /\ NextExposed' /\ IdOf(net[1].message) = 0 => NextExposed
<1>1. Len(net) \in Nat /\ net \in Seq(Genuine)
  BY ChunkFacts
<1>2. Len(net) >= 1 /\ Len(net') = Len(net) - 1 /\ \A j \in 1..Len(net') : net'[j] = net[j + 1]
  BY <1>1, HeadTailProperties, EmptySeq
<1>3. ASSUME Inverted' PROVE Inverted
  <2>1. PICK i \in 1..Len(net'), j \in 1..Len(net') :
           /\ i < j
           /\ net'[i].message > net'[j].message
           /\ IdOf(net'[i].message) # 0 /\ IdOf(net'[j].message) = 0
    BY <1>3 DEF Inverted, IdOf
  <2>2. i + 1 \in 1..Len(net) /\ j + 1 \in 1..Len(net) /\ i + 1 < j + 1
    BY <1>1, <1>2, <2>1
  <2>3. net'[i] = net[i + 1] /\ net'[j] = net[j + 1]
    BY <1>2
  <2> QED BY <2>1, <2>2, <2>3 DEF Inverted
<1>4. ASSUME NextExposed', IdOf(net[1].message) = 0 PROVE NextExposed
  <2>1. ASSUME NEW i \in 1..Len(net) PROVE IdOf(net[i].message) = 0
    <3>1. CASE i = 1
      BY <1>4, <3>1
    <3>2. CASE i # 1
      <4>1. i - 1 \in 1..Len(net') /\ (i - 1) + 1 = i
        BY <1>1, <1>2, <3>2
      <4>2. net'[i - 1] = net[i]
        BY <1>2, <4>1
      <4> QED BY <1>4, <4>1, <4>2 DEF NextExposed, IdOf
    <3> QED BY <3>1, <3>2
  <2> QED BY <1>4, <2>1 DEF NextExposed, IdOf
<1> QED BY <1>3, <1>4

(* _resp_cb() costs nothing. *)
LEMMA ReceiveLosses ==
    ASSUME LossInv, Receive
    PROVE  UnsetIsIdle' /\ RiskCharged' /\ UnsetChargedAhead'
<1>1. ChunksInv /\ UnsetIsIdle /\ sent' = sent /\ damage' = damage /\ damage \in Nat
  BY ChunkFacts DEF LossInv, Receive
<1>2. AtRisk' \subseteq AtRisk
  BY <1>1, ReceiveAssures DEF AtRisk, Published
<1>3. /\ Cardinality(AtRisk) \in Nat /\ Cardinality(AtRisk') \in Nat
      /\ Cardinality(AtRisk') <= Cardinality(AtRisk)
  BY <1>1, <1>2, AtRiskKept
<1>4. unset' => unset /\ CallbackRaises(Head(net))
  BY DEF Receive, OutOfPlace, InPlace, Completes, ResetRecvBuffer, CallbackRaises, bufferVars
<1>5. UnsetIsIdle'
  BY <1>1, <1>4 DEF UnsetIsIdle, CallbackRaises, bufferVars
<1>6. RiskCharged'
  BY <1>1, <1>3 DEF LossInv, RiskCharged
<1>7. ASSUME unset', Inverted' \/ NextExposed' PROVE Cardinality(AtRisk') < damage'
  <2>1. net # <<>> /\ net' = Tail(net) /\ Head(net) = net[1]
    BY DEF Receive, LossInv, ChunksInv, TypeOK
  <2>2. IdOf(net[1].message) = 0 /\ unset
    BY <1>1, <1>4, <1>7, <2>1 DEF CallbackRaises, UnsetIsIdle
  <2>3. Inverted \/ NextExposed
    BY <1>1, <1>7, <2>1, <2>2, TailOrder
  <2>4. Cardinality(AtRisk) < damage
    BY <2>2, <2>3 DEF LossInv, UnsetChargedAhead
  <2> QED BY <1>1, <1>3, <2>4
<1>8. UnsetChargedAhead'
  BY <1>7 DEF UnsetChargedAhead
<1> QED BY <1>5, <1>6, <1>8

(* Publishing costs nothing that was not charged before. *)
LEMMA PublishLosses ==
    ASSUME LossInv, NEW k \in 1..MaxChunks, Publish(k)
    PROVE  UnsetIsIdle' /\ RiskCharged' /\ UnsetChargedAhead'
<1> USE ChunksAssumption
<1>0. ChunksInv /\ Len(sent) \in Nat
  BY ChunkFacts DEF LossInv
<1>n. PICK new \in Nat : new = Len(sent) + 1
  BY <1>0
<1>1. /\ sent \in Seq(1..MaxChunks) /\ net \in Seq(Chunks) /\ Len(net) \in Nat
      /\ damage \in Nat /\ IsFiniteSet(AtRisk)
  BY <1>0, ChunkFacts DEF ChunksInv, TypeOK
<1>2. /\ sent' = Append(sent, k) /\ net' = net \o Part(new, k)
      /\ UNCHANGED <<recvId, recvChunks, unset, delivered, damage>>
      /\ new \in 1..MaxMessages
  BY <1>0, <1>n, <1>1 DEF Publish, bufferVars
<1>3. Len(sent') = new /\ Published' = Published \cup {new}
  BY <1>0, <1>n, <1>1, <1>2 DEF Published
<1>4. /\ Part(new, k) \in Seq(Chunks) /\ Len(Part(new, k)) = k
      /\ \A i \in 1..k : Part(new, k)[i] = [message |-> new, idx |-> i - 1]
  BY <1>2, PartChunks
<1>5. /\ Len(net') = Len(net) + k /\ \A j \in 1..Len(net) : net'[j] = net[j]
      /\ \A j \in (Len(net) + 1)..(Len(net) + k) : net'[j].message = new
  <2>1. /\ Len(net') = Len(net) + k
        /\ \A j \in 1..(Len(net) + k) :
               net'[j] = IF j <= Len(net) THEN net[j] ELSE Part(new, k)[j - Len(net)]
    <3> DEFINE part == Part(new, k)
    <3>1. part \in Seq(Chunks) /\ Len(part) = k /\ net' = net \o part
      BY <1>2, <1>4
    <3> HIDE DEF part
    <3>2. /\ Len(net \o part) = Len(net) + Len(part)
          /\ \A j \in 1..(Len(net) + Len(part)) :
                 (net \o part)[j] = IF j <= Len(net) THEN net[j] ELSE part[j - Len(net)]
      BY <1>1, <3>1, ConcatProperties
    <3> QED BY <3>1, <3>2 DEF part
  <2>2. \A j \in (Len(net) + 1)..(Len(net) + k) : j - Len(net) \in 1..k /\ ~(j <= Len(net)) /\ j \in 1..(Len(net) + k)
    BY <1>1
  <2>3. \A j \in 1..Len(net) : j <= Len(net) /\ j \in 1..(Len(net) + k)
    BY <1>1
  <2> QED BY <1>4, <2>1, <2>2, <2>3
<1>6. AtRisk' \subseteq AtRisk \cup {new}
  BY <1>0, <1>3, PublishAssures DEF AtRisk
<1>7. ~(unset /\ NextExposed) => AtRisk' \subseteq AtRisk
  <2>1. ~(unset /\ NextExposed) => Assured(new)'
    BY <1>0, <1>n, NewIsAssured
  <2>2. new \in AtRisk' => ~Assured(new)'
    BY DEF AtRisk
  <2>3. new \notin AtRisk' => AtRisk' \subseteq AtRisk
    BY <1>6
  <2> QED BY <2>1, <2>2, <2>3
<1>8. UnsetIsIdle'
  BY <1>2 DEF LossInv, UnsetIsIdle
<1>9. Inverted' => Inverted
  <2> SUFFICES ASSUME Inverted' PROVE Inverted
    OBVIOUS
  <2>1. PICK i \in 1..Len(net'), j \in 1..Len(net') :
           /\ i < j
           /\ net'[i].message > net'[j].message
           /\ IdOf(net'[i].message) # 0 /\ IdOf(net'[j].message) = 0
    BY DEF Inverted, IdOf
  <2>2. \A h \in 1..Len(net) : net[h].message \in Nat /\ net[h].message < new
    BY <1>0, <1>n, ChunkFacts DEF Published
  <2>3. j \in 1..Len(net)
    <3> SUFFICES ASSUME j \notin 1..Len(net) PROVE FALSE
      OBVIOUS
    <3>0. j \in (Len(net) + 1)..(Len(net) + k)
      <4>1. Len(net) \in Nat /\ Len(net') = Len(net) + k /\ k \in Nat
        BY <1>1, <1>5
      <4> QED BY ONLY <2>1, <4>1, j \notin 1..Len(net)
    <3>1. net'[j].message = new
      BY <1>5, <3>0
    <3>2. CASE i \in 1..Len(net)
      BY <1>5, <2>1, <2>2, <3>1, <3>2
    <3>3. CASE i \notin 1..Len(net)
      <4>1. net'[i].message = new
        BY <1>1, <1>5, <3>3
      <4> QED BY <2>1, <3>1, <4>1
    <3> QED BY <3>2, <3>3
  <2>4. i \in 1..Len(net)
    BY <1>1, <2>1, <2>3
  <2> QED BY <1>5, <2>1, <2>3, <2>4 DEF Inverted
<1>10. ~NextExposed'
  <2> SUFFICES ASSUME NextExposed' PROVE FALSE
    OBVIOUS
  <2>1. Len(net) + 1 \in (Len(net) + 1)..(Len(net) + k) /\ Len(net) + 1 \in 1..Len(net')
    BY <1>1, <1>5
  <2>2. IdOf(new) = 0
    BY <1>5, <2>1 DEF NextExposed, IdOf
  <2>3. IdOf(new + 1) = 0
    BY <1>3 DEF NextExposed, IdOf
  <2>4. new % Modulus = (new + 1) % Modulus /\ new <= new + 1 /\ (new + 1) - new < Modulus
    BY <2>2, <2>3 DEF IdOf
  <2>5. new = new + 1
    BY <2>4, new + 1 \in Nat, SameRemainder
  <2> QED BY <2>5
<1>11. CASE ~(unset /\ NextExposed)
  <2>1. /\ Cardinality(AtRisk) \in Nat /\ Cardinality(AtRisk') \in Nat
        /\ Cardinality(AtRisk') <= Cardinality(AtRisk)
    BY <1>0, <1>7, <1>11, AtRiskKept
  <2>2. RiskCharged'
    BY <1>1, <1>2, <2>1 DEF LossInv, RiskCharged
  <2>3. unset' /\ Inverted' => Cardinality(AtRisk') < damage'
    BY <1>1, <1>2, <1>9, <2>1 DEF LossInv, UnsetChargedAhead
  <2> QED BY <1>8, <1>10, <2>2, <2>3 DEF UnsetChargedAhead
<1>12. CASE unset /\ NextExposed
  <2>1. /\ Cardinality(AtRisk) \in Nat /\ Cardinality(AtRisk') \in Nat
        /\ Cardinality(AtRisk') <= Cardinality(AtRisk) + 1
    <3> DEFINE S == AtRisk
               T == AtRisk'
    <3>1. IsFiniteSet(S) /\ T \subseteq S \cup {new}
      BY <1>1, <1>6
    <3> HIDE DEF S, T
    <3>2. Cardinality(S) \in Nat /\ Cardinality(T) \in Nat /\ Cardinality(T) <= Cardinality(S) + 1
      BY <3>1, OneMore
    <3> QED BY <3>2 DEF S, T
  <2>2. Cardinality(AtRisk) < damage
    BY <1>12 DEF LossInv, UnsetChargedAhead
  <2>3. RiskCharged'
    BY <1>1, <1>2, <2>1, <2>2 DEF RiskCharged
  <2>4. ~Inverted'
    <3> SUFFICES ASSUME Inverted PROVE FALSE
      BY <1>9
    <3> QED BY <1>12 DEF Inverted, NextExposed
  <2> QED BY <1>8, <1>10, <2>3, <2>4 DEF UnsetChargedAhead
<1> QED BY <1>11, <1>12

(* A chunk that is lost is charged with its message, and while the list has  *)
(* no value with the message of id 0 it would have given one to.             *)
LEMMA LostLosses ==
    ASSUME LossInv, Lost
    PROVE  UnsetIsIdle' /\ RiskCharged' /\ UnsetChargedAhead'
<1> USE ChunksAssumption
<1>1. /\ ChunksInv /\ net # <<>> /\ net' = Tail(net) /\ sent' = sent /\ delivered' = delivered
      /\ UNCHANGED <<recvId, recvChunks, unset>> /\ damage \in Nat
      /\ damage' = damage + (IF unset THEN 2 ELSE 1)
  BY ChunkFacts DEF LossInv, Lost, Fault, bufferVars
<1>2. UnsetIsIdle'
  BY <1>1 DEF LossInv, UnsetIsIdle
<1> DEFINE c == net[1].message
<1>c. c \in Published /\ Recent(c) /\ Len(net) \in Nat /\ Len(net) >= 1 /\ Len(sent) \in Nat
  <2>1. 1 \in 1..Len(net)
    BY <1>1, ChunkFacts, EmptySeq
  <2> QED BY <1>1, <2>1, ChunkFacts
<1>3. PICK z : \A s \in Published : Recent(s) /\ IdOf(s) = 0 => s = z
  BY <1>1, ZeroOnce
<1>4. PICK first \in Published : first = c
  BY <1>c
<1> HIDE DEF c
<1>5. ASSUME NEW s \in Published, Assured(s), s # first, ~unset \/ ~Recent(s) \/ IdOf(s) # 0
      PROVE  Assured(s)'
  BY <1>1, <1>4, <1>5, WithoutFirst DEF c
<1>6. CASE ~unset
  <2>1. \A s \in Published : Assured(s) /\ s # first /\ s # first => Assured(s)'
    BY <1>5, <1>6
  <2>2. /\ Cardinality(AtRisk) \in Nat /\ Cardinality(AtRisk') \in Nat
        /\ Cardinality(AtRisk') <= Cardinality(AtRisk) + 1
    BY <1>1, <2>1, AtRiskGrows
  <2>3. RiskCharged'
    BY <1>1, <1>6, <2>2 DEF LossInv, RiskCharged
  <2> QED BY <1>1, <1>2, <1>6, <2>3 DEF UnsetChargedAhead
<1>7. CASE unset
  <2>1. \A s \in Published : Assured(s) /\ s # first /\ s # z => Assured(s)'
    BY <1>3, <1>5
  <2>2. /\ Cardinality(AtRisk) \in Nat /\ Cardinality(AtRisk') \in Nat
        /\ Cardinality(AtRisk') <= Cardinality(AtRisk) + 2
    BY <1>1, <2>1, AtRiskGrows
  <2>3. RiskCharged'
    BY <1>1, <1>7, <2>2 DEF LossInv, RiskCharged
  <2>4. CASE Inverted \/ NextExposed
    <3>1. Cardinality(AtRisk) < damage
      BY <1>7, <2>4 DEF LossInv, UnsetChargedAhead
    <3>2. Cardinality(AtRisk') < damage'
      BY <1>1, <1>7, <2>2, <3>1
    <3> QED BY <1>2, <2>3, <3>2 DEF UnsetChargedAhead
  <2>5. CASE ~Inverted /\ ~NextExposed /\ NextExposed'
    <3>1. \A s \in Published : Assured(s) /\ s # first /\ s # first => Assured(s)'
      <4> SUFFICES ASSUME NEW s \in Published, Assured(s), s # first, ~Assured(s)' PROVE FALSE
        OBVIOUS
      <4>1. Recent(s) /\ IdOf(s) = 0
        BY <1>5
      <4>2. IdOf(first) # 0
        BY <1>1, <1>4, <2>5, TailOrder DEF c
      <4>3. PICK i \in Nat : WholeAfter(s, i)
        <5>1. Message(s) \notin delivered
          BY <1>1 DEF Assured, Message, Part
        <5>2. ~Continued(s)
          BY <1>1, <1>4, ContinuedIsFirst DEF c
        <5> QED BY <1>c, <5>1, <5>2 DEF Assured
      <4>4. i < Len(net) /\ net[i + 1] = [message |-> s, idx |-> 0]
        BY <1>1, <4>3, WholeIsRecent
      <4>5. i # 0
        BY <1>4, <4>4 DEF c
      <4>6. 1 \in 1..Len(net) /\ i + 1 \in 1..Len(net) /\ 1 < i + 1
        BY <1>c, <4>4, <4>5
      <4>7. ~(first > s)
        BY <1>4, <2>5, <4>1, <4>2, <4>4, <4>6 DEF Inverted, c
      <4>8. s \in Nat /\ first \in Nat /\ s <= Len(sent) /\ first < s
        BY <1>c, <4>7 DEF Published
      <4>9. (Len(sent) + 1) % Modulus = s % Modulus
        BY <1>1, <2>5, <4>1 DEF NextExposed, IdOf
      <4>10. (Len(sent) + 1) - s >= Modulus
        <5> SUFFICES ASSUME (Len(sent) + 1) - s < Modulus PROVE FALSE
          BY <1>c, <4>8
        <5>1. Len(sent) + 1 \in Nat /\ s <= Len(sent) + 1
          BY <1>c, <4>8
        <5>2. s = Len(sent) + 1
          BY <4>8, <4>9, <5>1, SameRemainder
        <5> QED BY <1>c, <4>8, <5>2
      <4>11. Len(sent) - first < Modulus
        BY <1>c, <1>4 DEF Recent
      <4> QED BY <1>c, <4>8, <4>10, <4>11
    <3>2. Cardinality(AtRisk') <= Cardinality(AtRisk) + 1
      BY <1>1, <3>1, AtRiskGrows
    <3>3. Cardinality(AtRisk') < damage'
      BY <1>1, <1>7, <2>2, <3>2 DEF LossInv, RiskCharged
    <3> QED BY <1>2, <2>3, <3>3 DEF UnsetChargedAhead
  <2>6. CASE ~Inverted /\ ~NextExposed /\ ~NextExposed'
    <3>1. ~Inverted'
      BY <1>1, <2>6, TailOrder
    <3> QED BY <1>2, <2>3, <2>6, <3>1 DEF UnsetChargedAhead
  <2> QED BY <2>4, <2>5, <2>6
<1> QED BY <1>6, <1>7

(* A chunk that comes twice is charged with its message. *)
LEMMA RepeatedLosses ==
    ASSUME LossInv, Repeated
    PROVE  UnsetIsIdle' /\ RiskCharged' /\ UnsetChargedAhead'
<1>1. /\ ChunksInv /\ net # <<>> /\ net' = <<Head(net)>> \o net
      /\ sent' = sent /\ delivered' = delivered
      /\ UNCHANGED bufferVars /\ UNCHANGED <<recvId, recvChunks, unset>> /\ damage \in Nat
      /\ damage' = damage + 1 /\ Len(net) \in Nat /\ net \in Seq(Genuine)
  BY ChunkFacts DEF LossInv, Repeated, Fault, bufferVars
<1>2. UnsetIsIdle'
  BY <1>1 DEF LossInv, UnsetIsIdle
<1>3. PICK first : first = net[1].message
  OBVIOUS
<1>4. \A s \in Published : Assured(s) /\ s # first /\ s # first => Assured(s)'
  BY <1>1, <1>3, TwiceFirst
<1>5. /\ Cardinality(AtRisk) \in Nat /\ Cardinality(AtRisk') \in Nat
      /\ Cardinality(AtRisk') <= Cardinality(AtRisk) + 1
  BY <1>1, <1>4, AtRiskGrows
<1>6. RiskCharged'
  BY <1>1, <1>5 DEF LossInv, RiskCharged
<1>7. Len(net') = Len(net) + 1 /\ net'[1] = net[1] /\ \A j \in 1..Len(net) : net'[j + 1] = net[j]
  <2>1. Head(net) = net[1] /\ Head(net) \in Genuine
    BY <1>1, HeadTailProperties
  <2>2. <<Head(net)>> \in Seq(Genuine) /\ Len(<<Head(net)>>) = 1
    BY <2>1
  <2> QED BY <1>1, <2>1, <2>2, ConcatProperties
<1>8. 1 \in 1..Len(net)
  BY <1>1, EmptySeq
<1>9. \A j \in 1..Len(net') : \E h \in 1..Len(net) :
          net'[j] = net[h] /\ (j = 1 => h = 1) /\ (j # 1 => h = j - 1)
  <2> SUFFICES ASSUME NEW j \in 1..Len(net')
               PROVE  \E h \in 1..Len(net) :
                          net'[j] = net[h] /\ (j = 1 => h = 1) /\ (j # 1 => h = j - 1)
    OBVIOUS
  <2>1. CASE j = 1
    BY <1>7, <1>8, <2>1
  <2>2. CASE j # 1
    <3>1. j - 1 \in 1..Len(net) /\ (j - 1) + 1 = j
      BY <1>1, <1>7, <2>2
    <3>2. net'[j] = net[j - 1]
      BY <1>7, <3>1
    <3> QED BY <2>2, <3>1, <3>2
  <2> QED BY <2>1, <2>2
<1>10. Inverted' => Inverted
  <2> SUFFICES ASSUME Inverted' PROVE Inverted
    OBVIOUS
  <2>1. PICK i \in 1..Len(net'), j \in 1..Len(net') :
           /\ i < j
           /\ net'[i].message > net'[j].message
           /\ IdOf(net'[i].message) # 0 /\ IdOf(net'[j].message) = 0
    BY DEF Inverted, IdOf
  <2>2. PICK g \in 1..Len(net) : net'[i] = net[g] /\ (i = 1 => g = 1) /\ (i # 1 => g = i - 1)
    BY <1>9
  <2>3. PICK h \in 1..Len(net) : net'[j] = net[h] /\ (j = 1 => h = 1) /\ (j # 1 => h = j - 1)
    BY <1>9
  <2>4. g # h
    BY <2>1, <2>2, <2>3
  <2>5. g < h
    BY <1>1, <1>7, <2>1, <2>2, <2>3, <2>4
  <2> QED BY <2>1, <2>2, <2>3, <2>5 DEF Inverted
<1>11. NextExposed' => NextExposed
  <2> SUFFICES ASSUME NextExposed', NEW i \in 1..Len(net) PROVE IdOf(net[i].message) = 0
    BY <1>1 DEF NextExposed, IdOf
  <2>1. i + 1 \in 1..Len(net') /\ net'[i + 1] = net[i]
    BY <1>1, <1>7
  <2> QED BY <2>1 DEF NextExposed, IdOf
<1>12. UnsetChargedAhead'
  <2> SUFFICES ASSUME unset', Inverted' \/ NextExposed' PROVE Cardinality(AtRisk') < damage'
    BY DEF UnsetChargedAhead
  <2>1. Cardinality(AtRisk) < damage
    BY <1>1, <1>10, <1>11 DEF LossInv, UnsetChargedAhead
  <2> QED BY <1>1, <1>5, <2>1
<1> QED BY <1>2, <1>6, <1>12

(* A chunk that overtakes another is charged with both messages: when it     *)
(* gives the list its value late, the one it overtook was lost before.       *)
LEMMA OvertakenLosses ==
    ASSUME LossInv, Overtaken
    PROVE  UnsetIsIdle' /\ RiskCharged' /\ UnsetChargedAhead'
<1>1. /\ ChunksInv /\ Len(net) >= 2 /\ sent' = sent /\ delivered' = delivered
      /\ net' = [net EXCEPT ![1] = net[2], ![2] = net[1]]
      /\ UNCHANGED <<recvId, recvChunks, unset>> /\ damage \in Nat
      /\ damage' = damage + 2 /\ Len(net) \in Nat /\ net \in Seq(Genuine)
  BY ChunkFacts DEF LossInv, Overtaken, Fault, bufferVars
<1>2. UnsetIsIdle'
  BY <1>1 DEF LossInv, UnsetIsIdle
<1>3. PICK a : a = net[1].message
  OBVIOUS
<1>4. PICK b : b = net[2].message
  OBVIOUS
<1>5. \A s \in Published : Assured(s) /\ s # a /\ s # b => Assured(s)'
  BY <1>1, <1>3, <1>4, SwappedFirst
<1>6. /\ Cardinality(AtRisk) \in Nat /\ Cardinality(AtRisk') \in Nat
      /\ Cardinality(AtRisk') <= Cardinality(AtRisk) + 2
  BY <1>1, <1>5, AtRiskGrows
<1>7. RiskCharged'
  BY <1>1, <1>6 DEF LossInv, RiskCharged
<1>8. /\ Len(net') = Len(net) /\ net'[1] = net[2] /\ net'[2] = net[1]
      /\ \A j \in 1..Len(net) : j # 1 /\ j # 2 => net'[j] = net[j]
      /\ 1 \in 1..Len(net) /\ 2 \in 1..Len(net)
  BY <1>1
<1>9. NextExposed' => NextExposed
  <2> SUFFICES ASSUME NextExposed', NEW i \in 1..Len(net) PROVE IdOf(net[i].message) = 0
    BY <1>1 DEF NextExposed, IdOf
  <2>1. \E j \in 1..Len(net') : net'[j] = net[i]
    BY <1>8
  <2> QED BY <2>1 DEF NextExposed, IdOf
<1>10. CASE Inverted \/ NextExposed
  <2> SUFFICES ASSUME unset PROVE Cardinality(AtRisk') < damage'
    BY <1>1, <1>2, <1>7 DEF UnsetChargedAhead
  <2>1. Cardinality(AtRisk) < damage
    BY <1>10 DEF LossInv, UnsetChargedAhead
  <2> QED BY <1>1, <1>6, <2>1
<1>11. CASE ~Inverted /\ ~NextExposed
  <2> SUFFICES ASSUME unset, Inverted' PROVE Cardinality(AtRisk') < damage'
    BY <1>1, <1>2, <1>7, <1>9, <1>11 DEF UnsetChargedAhead
  <2>1. PICK i \in 1..Len(net'), j \in 1..Len(net') :
           /\ i < j
           /\ net'[i].message > net'[j].message
           /\ IdOf(net'[i].message) # 0 /\ IdOf(net'[j].message) = 0
    BY DEF Inverted, IdOf
  <2>2. i = 1 /\ j = 2
    <3> SUFFICES ASSUME ~(i = 1 /\ j = 2) PROVE FALSE
      OBVIOUS
    <3>1. PICK g \in 1..Len(net) :
             net'[i] = net[g] /\ (i = 1 => g = 2) /\ (i = 2 => g = 1) /\ (i # 1 /\ i # 2 => g = i)
      BY <1>8
    <3>2. PICK h \in 1..Len(net) :
             net'[j] = net[h] /\ (j = 1 => h = 2) /\ (j = 2 => h = 1) /\ (j # 1 /\ j # 2 => h = j)
      BY <1>8
    <3>3. g < h
      BY <1>1, <1>8, <2>1, <3>1, <3>2
    <3> QED BY <1>11, <2>1, <3>1, <3>2, <3>3 DEF Inverted
  <2>3. IdOf(a) = 0
    BY <1>3, <1>8, <2>1, <2>2
  <2>4. \A s \in Published : Assured(s) /\ s # b /\ s # b => Assured(s)'
    <3> SUFFICES ASSUME NEW s \in Published, Assured(s), s # b PROVE Assured(s)'
      OBVIOUS
    <3>1. CASE s # a
      BY <1>5, <3>1
    <3>2. CASE s = a
      <4>1. ~Continued(s)
        BY <1>1, ContinuedIsFirst DEF LossInv, UnsetIsIdle
      <4>2. ASSUME NEW n \in 0..Len(net), WholeAfter(s, n) PROVE FALSE
        <5>1. n = 0
          <6> SUFFICES ASSUME n # 0 PROVE FALSE
            OBVIOUS
          <6>1. 1 \in 1..n
            BY <1>1
          <6> QED BY <1>3, <3>2, <4>2, <6>1 DEF WholeAfter
        <5>2. \E m \in 1..0 : IdOf(net[m].message) # 0
          BY <2>3, <3>2, <4>2, <5>1 DEF WholeAfter
        <5> QED BY <5>2
      <4>3. Message(s) \in delivered
        BY <4>1, <4>2 DEF Assured
      <4> QED BY <1>1, <4>3 DEF Assured, Message, Part
    <3> QED BY <3>1, <3>2
  <2>5. Cardinality(AtRisk') <= Cardinality(AtRisk) + 1
    BY <1>1, <2>4, AtRiskGrows
  <2> QED BY <1>1, <1>6, <2>5 DEF LossInv, RiskCharged
<1> QED BY <1>10, <1>11

(* A payload that is no chunk is charged with the message it interrupts.     *)
LEMMA GarbledLosses ==
    ASSUME LossInv, Garbled
    PROVE  UnsetIsIdle' /\ RiskCharged' /\ UnsetChargedAhead'
<1>1. /\ ChunksInv /\ sent' = sent /\ delivered' = delivered
      /\ net' = net \/ (net # <<>> /\ net' = Tail(net))
      /\ recvId' = 0 /\ recvChunks' = <<>> /\ unset' = FALSE /\ damage \in Nat
      /\ damage' = damage + 1 /\ Len(net) \in Nat
  BY ChunkFacts DEF LossInv, Garbled, Fault, ResetRecvBuffer
<1>2. PICK first : first = net[1].message
  OBVIOUS
<1>3. \A s \in Published : Assured(s) /\ s # first /\ s # first => Assured(s)'
  <2> SUFFICES ASSUME NEW s \in Published, Assured(s), s # first PROVE Assured(s)'
    OBVIOUS
  <2>1. CASE net # <<>> /\ net' = Tail(net)
    BY <1>1, <1>2, <2>1, WithoutFirst
  <2>2. CASE net' = net
    <3>1. CASE Message(s) \in delivered
      BY <1>1, <3>1 DEF Assured, Message, Part
    <3>2. CASE Continued(s)
      BY <1>1, <1>2, <3>2, ContinuedIsFirst
    <3>3. ASSUME NEW i \in 0..Len(net), WholeAfter(s, i) PROVE Assured(s)'
      <4>1. i \in Nat
        BY <1>1
      <4> QED BY <1>1, <2>2, <3>3, <4>1, StillWhole
    <3> QED BY <3>1, <3>2, <3>3 DEF Assured
  <2> QED BY <1>1, <2>1, <2>2
<1>4. /\ Cardinality(AtRisk) \in Nat /\ Cardinality(AtRisk') \in Nat
      /\ Cardinality(AtRisk') <= Cardinality(AtRisk) + 1
  BY <1>1, <1>3, AtRiskGrows
<1>5. RiskCharged'
  BY <1>1, <1>4 DEF LossInv, RiskCharged
<1> QED BY <1>1, <1>5 DEF UnsetIsIdle, UnsetChargedAhead

(* Another connection is charged with the message in the buffer and the      *)
(* first one with the id 0.                                                  *)
LEMMA ReconnectLosses ==
    ASSUME LossInv, Reconnect
    PROVE  UnsetIsIdle' /\ RiskCharged' /\ UnsetChargedAhead'
<1>1. /\ ChunksInv /\ sent' = sent /\ delivered' = delivered /\ net' = net
      /\ recvId' = 0 /\ recvChunks' = <<>> /\ unset' = TRUE /\ damage \in Nat
      /\ damage' = damage + 2 /\ Len(net) \in Nat
  BY ChunkFacts DEF LossInv, Reconnect, Fault, NewConnection
<1>2. PICK z : \A s \in Published : Recent(s) /\ IdOf(s) = 0 => s = z
  BY <1>1, ZeroOnce
<1>3. ASSUME NEW s \in Published, Assured(s), ~Continued(s),
             NEW x \in Published \cup {z}, s # x,
             x # z => Continued(x)
      PROVE  Assured(s)'
  <2>1. CASE Message(s) \in delivered
    BY <1>1, <2>1 DEF Assured, Message, Part
  <2>2. ASSUME NEW i \in 0..Len(net), WholeAfter(s, i) PROVE Assured(s)'
    <3>1. i \in Nat
      BY <1>1
    <3>2. Recent(s) /\ net[i + 1] = [message |-> s, idx |-> 0]
      BY <1>1, <2>2, <3>1, WholeIsRecent
    <3>3. CASE IdOf(s) # 0
      BY <1>1, <2>2, <3>1, <3>3, StillWhole
    <3>4. CASE IdOf(s) = 0
      <4>1. x # z /\ x \in Published /\ Continued(x)
        BY <1>2, <1>3, <3>2, <3>4
      <4>2. net[1].message = x /\ Recent(x)
        BY <1>1, <4>1, ContinuedIsFirst
      <4>3. IdOf(x) # 0
        BY <1>1, <1>3, <3>2, <3>4, <4>2, RecentIds
      <4>4. i # 0
        BY <1>3, <3>2, <4>2
      <4>5. 1 \in 1..i
        BY <3>1, <4>4
      <4>6. \E j \in 1..i : IdOf(net[j].message) # 0
        BY <4>2, <4>3, <4>5
      <4> QED BY <1>1, <2>2, <3>1, <4>6, StillWhole
    <3> QED BY <3>3, <3>4
  <2> QED BY <1>3, <2>1, <2>2 DEF Assured
<1>4. \E x : \A s \in Published : Assured(s) /\ s # x /\ s # x => Assured(s)'
  <2>1. CASE \E x \in Published : Continued(x) /\ x # z
    <3>1. PICK x \in Published : Continued(x) /\ x # z
      BY <2>1
    <3>2. ASSUME NEW s \in Published, Assured(s), s # x PROVE Assured(s)'
      <4>1. ~Continued(s)
        BY <1>1, <3>1, <3>2, ContinuedIsFirst
      <4> QED BY <1>3, <3>1, <3>2, <4>1
    <3> QED BY <3>2
  <2>2. CASE ~\E x \in Published : Continued(x) /\ x # z
    <3>1. ASSUME NEW s \in Published, Assured(s), s # z PROVE Assured(s)'
      <4>1. ~Continued(s)
        BY <2>2, <3>1
      <4>2. z \in Published \cup {z}
        OBVIOUS
      <4> QED BY <1>3, <3>1, <4>1, <4>2
    <3> QED BY <3>1
  <2> QED BY <2>1, <2>2
<1>5. /\ Cardinality(AtRisk) \in Nat /\ Cardinality(AtRisk') \in Nat
      /\ Cardinality(AtRisk') <= Cardinality(AtRisk) + 1
  <2>1. PICK x : \A s \in Published : Assured(s) /\ s # x /\ s # x => Assured(s)'
    BY <1>4
  <2> QED BY <1>1, <2>1, AtRiskGrows
<1>6. Cardinality(AtRisk') < damage'
  BY <1>1, <1>5 DEF LossInv, RiskCharged
<1>7. RiskCharged'
  BY <1>1, <1>5, <1>6 DEF RiskCharged
<1> QED BY <1>1, <1>6, <1>7 DEF UnsetIsIdle, UnsetChargedAhead

LEMMA InitLosses == Init => LossInv
<1> SUFFICES ASSUME Init PROVE LossInv
  OBVIOUS
<1>1. ChunksInv
  BY InitChunksInv
<1>2. Len(sent) = 0 /\ Len(net) = 0 /\ damage = 0 /\ recvId = 0 /\ recvChunks = <<>>
  BY EmptySeq DEF Init
<1>3. Cardinality(AtRisk) = 0
  <2>1. AtRisk = {}
    BY <1>2 DEF AtRisk, Published
  <2> QED BY <2>1, FS_EmptySet
<1>4. ~Inverted
  BY <1>2 DEF Inverted
<1>5. ~NextExposed
  <2>1. 1 % Modulus = 1
    BY ChunksAssumption
  <2> QED BY <1>2, <2>1 DEF NextExposed, IdOf
<1> QED BY <1>1, <1>2, <1>3, <1>4, <1>5 DEF LossInv, UnsetIsIdle, RiskCharged, UnsetChargedAhead

(* Whatever the faults, each message published is delivered, assured, or     *)
(* charged to one of them; and when the list of the buffer has no value, the *)
(* message that is lost for that is charged before it is.                    *)
THEOREM LossesInvariant == Spec => []LossInv
<1>1. LossInv /\ ChunksInv' /\ [Next]_vars => LossInv'
  <2> SUFFICES ASSUME LossInv, [Next]_vars
               PROVE  UnsetIsIdle' /\ RiskCharged' /\ UnsetChargedAhead'
    BY DEF LossInv
  <2>1. CASE Receive
    BY <2>1, ReceiveLosses
  <2>2. ASSUME NEW n \in 1..MaxChunks, Publish(n)
        PROVE  UnsetIsIdle' /\ RiskCharged' /\ UnsetChargedAhead'
    BY <2>2, PublishLosses
  <2>3. CASE Lost
    BY <2>3, LostLosses
  <2>4. CASE Repeated
    BY <2>4, RepeatedLosses
  <2>5. CASE Overtaken
    BY <2>5, OvertakenLosses
  <2>6. CASE Garbled
    BY <2>6, GarbledLosses
  <2>7. CASE Reconnect
    BY <2>7, ReconnectLosses
  <2>8. CASE UNCHANGED vars
    <3>1. UNCHANGED <<recvId, recvChunks, unset, net, sent, delivered, damage>>
      BY <2>8 DEF vars, bufferVars
    <3>2. \A s : Assured(s)' <=> Assured(s)
      BY <3>1 DEF Assured, Message, Part, Continued, WholeAfter, IdOf
    <3>3. AtRisk' = AtRisk
      BY <3>1, <3>2 DEF AtRisk, Published
    <3>4. (Inverted' <=> Inverted) /\ (NextExposed' <=> NextExposed)
      BY <3>1 DEF Inverted, NextExposed, IdOf
    <3> QED BY <3>1, <3>3, <3>4 DEF LossInv, UnsetIsIdle, RiskCharged, UnsetChargedAhead
  <2> QED BY <2>1, <2>2, <2>3, <2>4, <2>5, <2>6, <2>7, <2>8 DEF Next
<1> QED BY <1>1, InitLosses, ChunksInvariant, PTL DEF Spec

(* A fault of the network or the connection costs no message but those it    *)
(* is charged with: MqttConnection._resp_cb() finds its way back.            *)
THEOREM LossesAreBounded == Spec => []LossesBounded
<1>1. LossInv => LossesBounded
  <2> SUFFICES ASSUME LossInv PROVE LossesBounded
    OBVIOUS
  <2>1. ChunksInv /\ damage \in Nat
    BY ChunkFacts DEF LossInv
  <2>2. Missing \subseteq AtRisk
    <3> SUFFICES ASSUME NEW s \in Missing, Assured(s) PROVE FALSE
      BY DEF Missing, AtRisk
    <3>1. s \in Published /\ Message(s) \notin delivered /\ \A i \in 1..Len(net) : net[i].message # s
      BY DEF Missing
    <3>2. CASE Continued(s)
      <4>1. 1 \in 1..Len(net) /\ net[1].message = s
        BY <2>1, <3>1, <3>2, ContinuedIsFirst, ChunkFacts
      <4> QED BY <3>1, <4>1
    <3>3. ASSUME NEW i \in 0..Len(net), WholeAfter(s, i) PROVE FALSE
      <4>1. i \in Nat
        BY <2>1, ChunkFacts
      <4>2. i < Len(net) /\ net[i + 1] = [message |-> s, idx |-> 0]
        BY <2>1, <3>1, <3>3, <4>1, WholeIsRecent
      <4>3. i + 1 \in 1..Len(net)
        BY <2>1, <4>1, <4>2, ChunkFacts
      <4> QED BY <3>1, <4>2, <4>3
    <3> QED BY <3>1, <3>2, <3>3 DEF Assured
  <2>3. IsFiniteSet(AtRisk)
    BY <2>1, ChunkFacts
  <2>4. /\ Cardinality(Missing) \in Nat /\ Cardinality(AtRisk) \in Nat
        /\ Cardinality(Missing) <= Cardinality(AtRisk)
    BY <2>2, <2>3, FS_Subset, FS_CardinalityType
  <2> QED BY <2>1, <2>4 DEF LossInv, RiskCharged, LossesBounded
<1> QED BY <1>1, LossesInvariant, PTL

-----------------------------------------------------------------------------
(* Discovery.  What is on its way ends with what is retained, and is nothing *)
(* without a broker; the event of a device that is gone is clear, but for a  *)
(* removal that is on its way or was overlooked.  Only the handshake that is *)
(* sent to a new subscriber makes use of the last place.                     *)
OnItsWay ==
    /\ ~online => handshakes = <<>>
    /\ handshakes # <<>> => handshakes[Len(handshakes)] = device
EventFollows == evt /\ ~device => overlooked \/ handshakes # <<>>
ConnectionFollows ==
    task = "connected" /\ ~device => overlooked \/ raced \/ handshakes # <<>>
LastPlace == Len(handshakes) = MaxHandshakes => task = "connected" /\ device
DiscoveryInv == DiscoveryTypeOK /\ LastPlace /\ OnItsWay /\ EventFollows /\ ConnectionFollows

(* One handshake more, or less. *)
LEMMA HandshakeFacts ==
    ASSUME NEW q \in Seq(BOOLEAN)
    PROVE  /\ Len(q) \in Nat /\ (q # <<>> => Len(q) >= 1)
           /\ \A x \in BOOLEAN : /\ Append(q, x) \in Seq(BOOLEAN)
                                 /\ Len(Append(q, x)) = Len(q) + 1
                                 /\ Append(q, x)[Len(q) + 1] = x
                                 /\ Append(q, x) # <<>>
           /\ q # <<>> => /\ Tail(q) \in Seq(BOOLEAN) /\ Len(Tail(q)) = Len(q) - 1
                          /\ Head(q) \in BOOLEAN /\ Head(q) = q[1]
                          /\ Tail(q) # <<>> => Tail(q)[Len(Tail(q))] = q[Len(q)]
                          /\ Tail(q) = <<>> => Len(q) = 1
<1>1. Len(q) \in Nat /\ (q # <<>> => Len(q) >= 1)
  BY LenProperties, EmptySeq
<1>2. ASSUME NEW x \in BOOLEAN
      PROVE  /\ Append(q, x) \in Seq(BOOLEAN) /\ Len(Append(q, x)) = Len(q) + 1
             /\ Append(q, x)[Len(q) + 1] = x /\ Append(q, x) # <<>>
  BY AppendProperties
<1>3. ASSUME q # <<>>
      PROVE  /\ Tail(q) \in Seq(BOOLEAN) /\ Len(Tail(q)) = Len(q) - 1
             /\ Head(q) \in BOOLEAN /\ Head(q) = q[1]
             /\ Tail(q) # <<>> => Tail(q)[Len(Tail(q))] = q[Len(q)]
             /\ Tail(q) = <<>> => Len(q) = 1
  <2>1. /\ Tail(q) \in Seq(BOOLEAN) /\ Len(Tail(q)) = Len(q) - 1
        /\ Head(q) \in BOOLEAN /\ Head(q) = q[1]
        /\ \A i \in 1..Len(Tail(q)) : Tail(q)[i] = q[i + 1]
    BY <1>1, <1>3, HeadTailProperties
  <2>2. ASSUME Tail(q) # <<>> PROVE Tail(q)[Len(Tail(q))] = q[Len(q)]
    <3>1. Len(Tail(q)) \in 1..Len(Tail(q)) /\ Len(Tail(q)) + 1 = Len(q)
      BY <1>1, <1>3, <2>1, <2>2, LenProperties, EmptySeq
    <3> QED BY <2>1, <3>1
  <2>3. Tail(q) = <<>> => Len(q) = 1
    BY <1>1, <2>1, EmptySeq
  <2> QED BY <2>1, <2>2, <2>3
<1> QED BY <1>1, <1>2, <1>3

LEMMA DiscoveryInit_Inv == DiscoveryInit => DiscoveryInv
<1> SUFFICES ASSUME DiscoveryInit PROVE DiscoveryInv
  OBVIOUS
<1>1. /\ device \in BOOLEAN /\ online = FALSE /\ handshakes = <<>> /\ evt = FALSE
      /\ task = "discover" /\ overlooked = FALSE /\ raced = FALSE
  BY DEF DiscoveryInit
<1>2. <<>> \in Seq(BOOLEAN) /\ Len(<<>>) = 0
  BY EmptySeq
<1>3. DiscoveryTypeOK
  <2>1. {device, online, evt, overlooked, raced} \subseteq BOOLEAN
    BY <1>1
  <2>2. handshakes \in Seq(BOOLEAN) /\ Len(handshakes) <= MaxHandshakes
    BY <1>1, <1>2, DiscoveryAssumption
  <2> QED BY <1>1, <2>1, <2>2 DEF DiscoveryTypeOK
<1>4. LastPlace
  BY <1>1, <1>2, DiscoveryAssumption DEF LastPlace
<1> QED BY <1>1, <1>3, <1>4 DEF DiscoveryInv, OnItsWay, EventFollows, ConnectionFollows, LastPlace

LEMMA DiscoveryStep == DiscoveryInv /\ [DiscoveryNext]_discoveryVars => DiscoveryInv'
<1> SUFFICES ASSUME DiscoveryInv, [DiscoveryNext]_discoveryVars PROVE DiscoveryInv'
  OBVIOUS
<1> USE DEF DiscoveryInv, OnItsWay, EventFollows, ConnectionFollows, LastPlace
<1>1. /\ device \in BOOLEAN /\ online \in BOOLEAN /\ evt \in BOOLEAN
      /\ overlooked \in BOOLEAN /\ raced \in BOOLEAN
      /\ handshakes \in Seq(BOOLEAN) /\ Len(handshakes) <= MaxHandshakes
      /\ task \in {"discover", "wait", "woken", "connected", "closed"}
      /\ Len(handshakes) \in Nat /\ MaxHandshakes \in Nat /\ MaxHandshakes >= 2
  BY HandshakeFacts, DiscoveryAssumption DEF DiscoveryTypeOK
<1>2. /\ <<>> \in Seq(BOOLEAN) /\ Len(<<>>) = 0
      /\ <<TRUE>> \in Seq(BOOLEAN) /\ Len(<<TRUE>>) = 1 /\ <<TRUE>>[1] = TRUE
  BY EmptySeq
<1>3. CASE WaitsForDevice \/ DiscoveryTimeout \/ ResetOnTimeout \/ RunsAgain
  <2>1. /\ UNCHANGED <<device, online, handshakes, evt, overlooked>>
        /\ task' = "connected" => task = "connected" /\ raced' = raced
        /\ task' \in {"discover", "wait", "woken", "connected", "closed"}
        /\ raced' \in BOOLEAN
        /\ task = "connected" => ~device
    BY <1>1, <1>3 DEF WaitsForDevice, DiscoveryTimeout, ResetOnTimeout, RunsAgain
  <2>2. DiscoveryTypeOK'
    BY <1>1, <2>1 DEF DiscoveryTypeOK
  <2>3. OnItsWay' /\ EventFollows' /\ ConnectionFollows' /\ LastPlace'
    BY <2>1
  <2> QED BY <2>2, <2>3
<1>4. CASE OnHandshake
  <2>1. /\ handshakes # <<>> /\ handshakes' = Tail(handshakes) /\ evt' = Head(handshakes)
        /\ HandshakeCb(Head(handshakes))
        /\ UNCHANGED <<device, online, overlooked, raced>>
    BY <1>4 DEF OnHandshake
  <2>2. /\ handshakes' \in Seq(BOOLEAN) /\ Len(handshakes') = Len(handshakes) - 1
        /\ Head(handshakes) \in BOOLEAN
        /\ handshakes' # <<>> => handshakes'[Len(handshakes')] = handshakes[Len(handshakes)]
        /\ handshakes' = <<>> => Head(handshakes) = handshakes[Len(handshakes)]
    BY <1>1, <2>1, HandshakeFacts
  <2>3. task' \in {"discover", "wait", "woken", "connected", "closed"}
    BY <1>1, <2>1 DEF HandshakeCb
  <2>4. task' = "connected" => task = "connected" /\ Head(handshakes)
    BY <1>1, <2>1, <2>2 DEF HandshakeCb
  <2>5. DiscoveryTypeOK'
    <3>1. {device', online', evt', overlooked', raced'} \subseteq BOOLEAN
      BY <1>1, <2>1, <2>2
    <3>2. Len(handshakes') <= MaxHandshakes
      BY <1>1, <2>2
    <3> QED BY <2>2, <2>3, <3>1, <3>2 DEF DiscoveryTypeOK
  <2>6. OnItsWay'
    BY <1>1, <2>1, <2>2
  <2>7. EventFollows'
    BY <1>1, <2>1, <2>2
  <2>8. ConnectionFollows'
    BY <1>1, <2>1, <2>2, <2>4
  <2>9. LastPlace'
    BY <1>1, <2>2
  <2> QED BY <2>5, <2>6, <2>7, <2>8, <2>9
<1>5. CASE ConnectsMqtt
  <2>1. /\ task = "woken" /\ task' = "connected" /\ raced' = ~evt
        /\ UNCHANGED <<device, online, evt, overlooked>>
        /\ handshakes' = IF online /\ device THEN Append(handshakes, TRUE) ELSE handshakes
    BY <1>5 DEF ConnectsMqtt
  <2>2. Len(handshakes) < MaxHandshakes
    BY <1>1, <2>1
  <2>3. raced' \in BOOLEAN
    BY <1>1, <2>1
  <2>4. CASE online /\ device
    <3>1. /\ handshakes' \in Seq(BOOLEAN) /\ Len(handshakes') = Len(handshakes) + 1
          /\ handshakes'[Len(handshakes')] = TRUE
      BY <1>1, <2>1, <2>4, HandshakeFacts
    <3>2. DiscoveryTypeOK'
      <4>1. Len(handshakes') <= MaxHandshakes
        BY <1>1, <2>2, <3>1
      <4> QED BY <1>1, <2>1, <2>3, <3>1, <4>1 DEF DiscoveryTypeOK
    <3>3. OnItsWay' /\ EventFollows' /\ ConnectionFollows' /\ LastPlace'
      BY <2>1, <2>4, <3>1
    <3> QED BY <3>2, <3>3
  <2>5. CASE ~(online /\ device)
    <3>1. DiscoveryTypeOK'
      BY <1>1, <2>1, <2>3, <2>5 DEF DiscoveryTypeOK
    <3>2. OnItsWay' /\ EventFollows' /\ ConnectionFollows'
      BY <1>1, <2>1, <2>5
    <3>3. LastPlace'
      BY <1>1, <2>1, <2>2, <2>5
    <3> QED BY <3>1, <3>2, <3>3
  <2> QED BY <2>4, <2>5
<1>6. CASE DeviceChanges
  <2>1. /\ Len(handshakes) < MaxHandshakes - 1 /\ device' = ~device
        /\ handshakes' = IF online THEN Append(handshakes, device') ELSE handshakes
        /\ overlooked' = (device /\ (overlooked \/ ~online))
        /\ UNCHANGED <<online, evt, task, raced>>
    BY <1>6 DEF DeviceChanges
  <2>2. CASE online
    <3>1. /\ handshakes' \in Seq(BOOLEAN) /\ Len(handshakes') = Len(handshakes) + 1
          /\ handshakes'[Len(handshakes')] = device' /\ handshakes' # <<>>
      BY <1>1, <2>1, <2>2, HandshakeFacts
    <3>2. Len(handshakes') <= MaxHandshakes
      BY <1>1, <2>1, <3>1
    <3>3. DiscoveryTypeOK'
      BY <1>1, <2>1, <3>1, <3>2 DEF DiscoveryTypeOK
    <3>4. OnItsWay' /\ EventFollows' /\ ConnectionFollows'
      BY <2>1, <2>2, <3>1
    <3>5. LastPlace'
      BY <1>1, <2>1, <3>1
    <3> QED BY <3>3, <3>4, <3>5
  <2>3. CASE ~online
    <3>1. DiscoveryTypeOK'
      BY <1>1, <2>1, <2>3 DEF DiscoveryTypeOK
    <3>2. OnItsWay' /\ EventFollows' /\ ConnectionFollows'
      BY <1>1, <2>1, <2>3
    <3>3. LastPlace'
      BY <1>1, <2>1, <2>3
    <3> QED BY <3>1, <3>2, <3>3
  <2> QED BY <2>2, <2>3
<1>7. CASE BrokerLost
  <2>1. /\ online' = FALSE /\ handshakes' = <<>> /\ UNCHANGED <<device, evt, task, raced>>
        /\ overlooked' = (overlooked \/ (~device /\ handshakes # <<>>))
    BY <1>7 DEF BrokerLost
  <2>2. DiscoveryTypeOK'
    <3>1. handshakes' \in Seq(BOOLEAN) /\ Len(handshakes') <= MaxHandshakes
      BY <1>1, <1>2, <2>1
    <3>2. {device', online', evt', overlooked', raced'} \subseteq BOOLEAN
      BY <1>1, <2>1
    <3> QED BY <1>1, <2>1, <3>1, <3>2 DEF DiscoveryTypeOK
  <2>3. OnItsWay' /\ EventFollows' /\ ConnectionFollows'
    BY <2>1
  <2>4. LastPlace'
    BY <1>1, <1>2, <2>1
  <2> QED BY <2>2, <2>3, <2>4
<1>8. CASE BrokerBack
  <2>1. /\ online' = TRUE /\ ~online /\ UNCHANGED <<device, evt, task, overlooked, raced>>
        /\ handshakes' = IF device THEN <<TRUE>> ELSE <<>>
    BY <1>8 DEF BrokerBack
  <2>2. /\ handshakes' \in Seq(BOOLEAN) /\ Len(handshakes') \in {0, 1}
        /\ handshakes' # <<>> => handshakes'[Len(handshakes')] = device'
    <3>1. CASE device
      BY <1>1, <1>2, <2>1, <3>1
    <3>2. CASE ~device
      BY <1>1, <1>2, <2>1, <3>2
    <3> QED BY <3>1, <3>2
  <2>3. DiscoveryTypeOK'
    <3>1. handshakes' \in Seq(BOOLEAN) /\ Len(handshakes') <= MaxHandshakes
      BY <1>1, <2>2
    <3>2. {device', online', evt', overlooked', raced'} \subseteq BOOLEAN
      BY <1>1, <2>1
    <3> QED BY <1>1, <2>1, <3>1, <3>2 DEF DiscoveryTypeOK
  <2>4. OnItsWay' /\ LastPlace'
    <3>1. OnItsWay'
      BY <2>2, <2>1
    <3>2. LastPlace'
      BY <1>1, <2>2
    <3> QED BY <3>1, <3>2
  <2>5. EventFollows' /\ ConnectionFollows'
    <3>1. handshakes = <<>>
      BY <2>1
    <3> QED BY <2>1, <3>1
  <2> QED BY <2>3, <2>4, <2>5
<1>9. CASE UNCHANGED discoveryVars
  BY <1>9 DEF discoveryVars, DiscoveryTypeOK
<1> QED BY <1>3, <1>4, <1>5, <1>6, <1>7, <1>8, <1>9 DEF DiscoveryNext, DiscoveryTask

(* A retained handshake is the last of those on their way: discover_mqtt()   *)
(* and _handshake_cb() get to what the broker retains.                       *)
THEOREM DiscoveryInvariant == DiscoverySpec => []DiscoveryInv
  BY DiscoveryInit_Inv, DiscoveryStep, PTL DEF DiscoverySpec

(* Every MqttConnection to a device that is gone has the removal on its way, *)
(* but for the two that are known to miss it.                                *)
THEOREM RemovalsAreTold == DiscoverySpec => []RemovalIsTold
<1>1. DiscoveryInv => RemovalIsTold
  <2> SUFFICES ASSUME DiscoveryInv, task = "connected", ~device, ~overlooked, ~raced
               PROVE  FALSE \in {handshakes[i] : i \in DOMAIN handshakes}
    BY DEF RemovalIsTold
  <2>1. handshakes # <<>> /\ handshakes \in Seq(BOOLEAN)
    BY DEF DiscoveryInv, ConnectionFollows, DiscoveryTypeOK
  <2>2. /\ handshakes[Len(handshakes)] = device /\ device \in BOOLEAN
        /\ Len(handshakes) \in 1..Len(handshakes) /\ DOMAIN handshakes = 1..Len(handshakes)
    BY <2>1, HandshakeFacts DEF DiscoveryInv, OnItsWay, DiscoveryTypeOK
  <2> QED BY <2>2
<1> QED BY <1>1, DiscoveryInvariant, PTL

-----------------------------------------------------------------------------
(* CboxParser: what is in the buffer, and what was handed over.              *)

(* A set of numbers has a least element, and what holds for 0 and for the    *)
(* next number holds for all.                                                *)
LEMMA Least ==
    ASSUME NEW S, S \subseteq Nat, S # {}
    PROVE  \E x \in S : \A y \in S : x <= y
<1> DEFINE R == OpToRel(<, Nat)
<1>1. IsWellFoundedOn(R, Nat)
  BY NatLessThanWellFounded
<1>2. \A x, y \in Nat : <<x, y>> \in R <=> x < y
  BY DEF OpToRel
<1> HIDE DEF R
<1>3. PICK x \in S : \A y \in S : <<y, x>> \notin R
  BY <1>1, WFMin
<1>4. ASSUME NEW y \in S PROVE x <= y
  <2>1. x \in Nat /\ y \in Nat /\ ~(y < x)
    BY <1>2, <1>3
  <2> QED BY <2>1
<1> QED BY <1>4

LEMMA Greatest ==
    ASSUME NEW n \in Nat, NEW S, S \subseteq 0..n, S # {}
    PROVE  \E x \in S : \A y \in S : y <= x
<1> DEFINE B == {k \in Nat : \A y \in S : y <= k}
<1>1. n \in B
  OBVIOUS
<1>2. PICK k \in B : \A m \in B : k <= m
  <2>1. B \subseteq Nat /\ B # {}
    BY <1>1
  <2> QED BY ONLY <2>1, Least
<1>3. CASE k \in S
  BY <1>3
<1>4. CASE k \notin S
  <2>1. \A y \in S : y \in 0..n /\ y <= k /\ y # k
    BY <1>4
  <2>2. k # 0
    <3>1. PICK y \in S : y \in 0..n /\ y <= k /\ y # k
      BY <2>1
    <3> QED BY <3>1
  <2>3. k - 1 \in B
    BY <2>1, <2>2
  <2> QED BY <1>2, <2>3
<1> QED BY <1>3, <1>4

LEMMA Induction ==
    ASSUME NEW S, 0 \in S, \A n \in Nat : n \in S => n + 1 \in S
    PROVE  Nat \subseteq S
<1> SUFFICES ASSUME Nat \ S # {} PROVE FALSE
  OBVIOUS
<1>1. PICK x \in Nat \ S : \A y \in Nat \ S : x <= y
  BY Least
<1>2. x # 0 /\ x - 1 \in Nat
  OBVIOUS
<1>3. x - 1 \notin Nat \ S
  BY <1>1, <1>2
<1> QED BY <1>2, <1>3

-----------------------------------------------------------------------------
(* e goes through K from the least to the greatest. *)
Enumerates(e, K) ==
    /\ e \in Seq(Nat)
    /\ \A i, j \in 1..Len(e) : i < j => e[i] < e[j]
    /\ \A i \in 1..Len(e) : e[i] \in K
    /\ \A k \in K : \E i \in 1..Len(e) : k = e[i]

(* There is one way to do that. *)
LEMMA EnumeratesWithin ==
    ASSUME NEW K, NEW e, NEW f, Enumerates(e, K), Enumerates(f, K)
    PROVE  \A i \in 1..Len(e) : i <= Len(f) /\ e[i] = f[i]
<1>1. PICK m \in Nat : m = Len(e)
  BY DEF Enumerates
<1>2. PICK n \in Nat : n = Len(f)
  BY DEF Enumerates
<1>3. /\ \A i \in 1..m : e[i] \in Nat /\ \E j \in 1..n : e[i] = f[j]
      /\ \A i, j \in 1..m : i < j => e[i] < e[j]
  BY <1>1, <1>2 DEF Enumerates
<1>4. /\ \A i \in 1..n : f[i] \in Nat /\ \E j \in 1..m : f[i] = e[j]
      /\ \A i, j \in 1..n : i < j => f[i] < f[j]
  BY <1>1, <1>2 DEF Enumerates
<1> DEFINE D == {i \in 1..m : ~(i <= n /\ e[i] = f[i])}
<1> SUFFICES ASSUME D # {} PROVE FALSE
  BY <1>1, <1>2
<1>5. PICK i \in D : \A h \in D : i <= h
  <2>1. D \subseteq Nat /\ D # {}
    OBVIOUS
  <2> QED BY ONLY <2>1, Least
<1>6. \A h \in 1..m : h < i => h <= n /\ e[h] = f[h]
  BY <1>5
<1>7. PICK j \in 1..n : e[i] = f[j]
  BY <1>3
<1>8. j >= i
  <2> SUFFICES ASSUME j < i PROVE FALSE
    OBVIOUS
  <2>1. j \in 1..m /\ e[j] = f[j] /\ e[j] < e[i]
    BY <1>3, <1>6
  <2> QED BY <1>3, <1>7, <2>1
<1>9. i \in 1..n /\ f[i] <= e[i]
  <2>1. i \in 1..n
    BY <1>8
  <2> QED BY <1>3, <1>4, <1>7, <1>8, <2>1
<1>10. PICK l \in 1..m : f[i] = e[l]
  BY <1>4, <1>9
<1>11. l >= i
  <2> SUFFICES ASSUME l < i PROVE FALSE
    OBVIOUS
  <2>1. l \in 1..n /\ e[l] = f[l]
    BY <1>6
  <2>2. f[l] < f[i]
    BY <1>4, <1>9, <2>1
  <2> QED BY <1>4, <1>9, <1>10, <2>1, <2>2
<1>12. e[i] <= f[i]
  BY <1>3, <1>10, <1>11
<1>13. e[i] \in Nat /\ f[i] \in Nat
  BY <1>3, <1>4, <1>9
<1> QED BY <1>9, <1>12, <1>13

LEMMA EnumeratesOnce ==
    ASSUME NEW K, NEW e, NEW f, Enumerates(e, K), Enumerates(f, K)
    PROVE  e = f
<1>1. /\ \A i \in 1..Len(e) : i <= Len(f) /\ e[i] = f[i]
      /\ \A i \in 1..Len(f) : i <= Len(e) /\ f[i] = e[i]
  BY EnumeratesWithin
<1>2. e \in Seq(Nat) /\ f \in Seq(Nat) /\ Len(e) \in Nat /\ Len(f) \in Nat
  BY DEF Enumerates
<1>3. Len(e) = Len(f)
  <2>1. PICK m \in Nat : m = Len(e)
    BY <1>2
  <2>2. PICK n \in Nat : n = Len(f)
    BY <1>2
  <2>3. (\A i \in 1..m : i <= n) /\ (\A i \in 1..n : i <= m)
    BY <1>1, <2>1, <2>2
  <2>4. ~(m > n)
    BY <2>3
  <2>5. ~(n > m)
    BY <2>3
  <2> QED BY <2>1, <2>2, <2>4, <2>5
<1> QED BY <1>1, <1>2, <1>3, SeqEqual

(* A part of it goes through a part of the set ...                           *)
Entries(e, p, q) == {e[i] : i \in p..q}

LEMMA EnumeratesPart ==
    ASSUME NEW K, NEW e, Enumerates(e, K), NEW p \in Nat \ {0}, NEW q \in Int, q <= Len(e)
    PROVE  /\ Enumerates(SubSeq(e, p, q), Entries(e, p, q))
           /\ Len(SubSeq(e, p, q)) = IF p <= q THEN q - p + 1 ELSE 0
           /\ \A i \in 1..Len(SubSeq(e, p, q)) : SubSeq(e, p, q)[i] = e[p + i - 1]
<1> DEFINE d == SubSeq(e, p, q)
<1>1. PICK n \in Nat : n = Len(e)
  BY DEF Enumerates
<1>2. PICK l \in Nat : l = IF p <= q THEN q - p + 1 ELSE 0
  <2>1. (IF p <= q THEN q - p + 1 ELSE 0) \in Nat
    OBVIOUS
  <2> QED BY <2>1
<1>3. /\ e \in Seq(Nat) /\ \A i \in 1..n : e[i] \in Nat
      /\ \A i, j \in 1..n : i < j => e[i] < e[j]
  BY <1>1 DEF Enumerates
<1>4. d \in Seq(Nat) /\ Len(d) = l /\ \A i \in 1..l : d[i] = e[p + i - 1]
  <2>1. CASE p <= q
    <3>1. p \in 1..(Len(e) + 1) /\ q \in (p - 1)..Len(e)
      BY <1>1, <2>1
    <3>2. /\ d \in Seq(Nat)
          /\ Len(d) = IF p <= q THEN q - p + 1 ELSE 0
          /\ \A i \in 1..(q - p + 1) : d[i] = e[p + i - 1]
      BY ONLY <1>3, <3>1, SubSeqProperties
    <3> QED BY <1>2, <2>1, <3>2
  <2>2. CASE p > q
    <3>1. d = <<>>
      BY <1>3, <2>2, SubSeqEmpty
    <3> QED BY <1>2, <2>2, <3>1
  <2> QED BY <2>1, <2>2
<1> HIDE DEF d
<1>5. \A i \in 1..l : p + i - 1 \in p..q /\ p + i - 1 \in 1..n
  BY <1>1, <1>2
<1>6. ASSUME NEW i \in 1..l, NEW j \in 1..l, i < j PROVE d[i] < d[j]
  <2>1. p + i - 1 \in 1..n /\ p + j - 1 \in 1..n /\ p + i - 1 < p + j - 1
    BY <1>5, <1>6
  <2>2. e[p + i - 1] < e[p + j - 1]
    BY <1>3, <2>1
  <2> QED BY <1>4, <2>2
<1>7. \A i \in 1..l : d[i] \in {e[h] : h \in p..q}
  BY <1>4, <1>5
<1>8. ASSUME NEW h \in p..q PROVE \E i \in 1..l : e[h] = d[i]
  <2>1. h - p + 1 \in 1..l /\ p + (h - p + 1) - 1 = h
    BY <1>2
  <2> QED BY <1>4, <2>1
<1>9. Enumerates(d, {e[i] : i \in p..q})
  <2>1. \A k \in {e[i] : i \in p..q} : \E i \in 1..l : k = d[i]
    BY <1>8
  <2> QED BY ONLY <1>4, <1>6, <1>7, <2>1 DEF Enumerates
<1> QED BY <1>2, <1>4, <1>9 DEF d, Entries

(* ... and one after the other through both sets.                            *)
LEMMA EnumeratesBoth ==
    ASSUME NEW K, NEW e, Enumerates(e, K), NEW M, NEW f, Enumerates(f, M),
           \A k \in K : \A m \in M : k < m,
           NEW g, g = e \o f
    PROVE  /\ Enumerates(g, K \cup M)
           /\ Len(g) = Len(e) + Len(f)
           /\ \A i \in 1..Len(e) : g[i] = e[i]
           /\ \A i \in 1..Len(f) : g[Len(e) + i] = f[i]
<1>1. PICK n \in Nat : n = Len(e)
  BY DEF Enumerates
<1>2. PICK l \in Nat : l = Len(f)
  BY DEF Enumerates
<1>3. e \in Seq(Nat) /\ f \in Seq(Nat)
  BY DEF Enumerates
<1>4. /\ g \in Seq(Nat) /\ Len(g) = n + l
      /\ \A i \in 1..(n + l) : g[i] = IF i <= n THEN e[i] ELSE f[i - n]
  BY <1>1, <1>2, <1>3, ConcatProperties
<1>5. (\A i \in 1..n : g[i] = e[i]) /\ (\A i \in 1..l : g[n + i] = f[i])
  <2>1. \A i \in 1..n : i \in 1..(n + l) /\ i <= n
    OBVIOUS
  <2>2. \A i \in 1..l : n + i \in 1..(n + l) /\ ~(n + i <= n) /\ (n + i) - n = i
    OBVIOUS
  <2> QED BY <1>4, <2>1, <2>2
<1>6. \A i \in 1..(n + l) : i \in 1..n \/ (i - n \in 1..l /\ i = n + (i - n))
  OBVIOUS
<1>7. (\A i \in 1..n : e[i] \in K) /\ (\A i \in 1..l : f[i] \in M)
  BY <1>1, <1>2 DEF Enumerates
<1>8. ASSUME NEW i \in 1..(n + l), NEW j \in 1..(n + l), i < j PROVE g[i] < g[j]
  <2>1. CASE j \in 1..n
    <3>1. i \in 1..n
      BY <1>8, <2>1
    <3> QED BY <1>1, <1>5, <1>8, <2>1, <3>1 DEF Enumerates
  <2>2. CASE i \in 1..n /\ j \notin 1..n
    <3>1. j - n \in 1..l /\ g[j] = f[j - n] /\ g[i] = e[i]
      BY <1>4, <1>5, <1>6, <2>2
    <3> QED BY <1>7, <2>2, <3>1
  <2>3. CASE i \notin 1..n
    <3>1. PICK x \in 1..l : i = n + x
      BY <1>6, <2>3
    <3>2. PICK y \in 1..l : j = n + y
      BY <1>6, <1>8, <2>3
    <3>3. g[i] = f[x] /\ g[j] = f[y]
      BY <1>5, <3>1, <3>2
    <3>4. x < y
      BY <1>8, <3>1, <3>2
    <3> QED BY <1>2, <3>3, <3>4 DEF Enumerates
  <2> QED BY <2>1, <2>2, <2>3
<1>9. ASSUME NEW i \in 1..(n + l) PROVE g[i] \in K \cup M
  <2>1. CASE i \in 1..n
    BY <1>5, <1>7, <2>1
  <2>2. CASE i - n \in 1..l /\ i = n + (i - n)
    <3>1. g[n + (i - n)] = f[i - n]
      BY <1>5, <2>2
    <3> QED BY <1>7, <2>2, <3>1
  <2> QED BY <1>6, <2>1, <2>2
<1>10. ASSUME NEW k \in K \cup M PROVE \E i \in 1..(n + l) : k = g[i]
  <2>1. CASE k \in K
    <3>1. PICK i \in 1..n : k = e[i]
      BY <1>1, <2>1 DEF Enumerates
    <3> QED BY <1>5, <3>1, i \in 1..(n + l)
  <2>2. CASE k \in M
    <3>1. PICK i \in 1..l : k = f[i]
      BY <1>2, <2>2 DEF Enumerates
    <3> QED BY <1>5, <3>1, n + i \in 1..(n + l)
  <2> QED BY <2>1, <2>2
<1>11. Enumerates(g, K \cup M)
  BY <1>4, <1>8, <1>9, <1>10 DEF Enumerates
<1> QED BY <1>1, <1>2, <1>4, <1>5, <1>11

-----------------------------------------------------------------------------
(* InOrder() exists, and goes through the set. *)
LEMMA InOrderIs ==
    ASSUME NEW n \in Nat, NEW P, P \subseteq 1..n
    PROVE  Enumerates(InOrder(P, n), P)
<1> DEFINE Orders(f, m) ==
               f = [k \in 0..m |-> IF k = 0 THEN <<>>
                                   ELSE IF k \in P THEN Append(f[k - 1], k) ELSE f[k - 1]]
           S == {m \in Nat : \E order : Orders(order, m)}
<1>1. 0 \in S
  <2>1. Orders([k \in 0..0 |-> <<>>], 0)
    OBVIOUS
  <2> QED BY <2>1
<1>2. ASSUME NEW m \in Nat, m \in S PROVE m + 1 \in S
  <2>1. PICK order : Orders(order, m)
    BY <1>2
  <2> DEFINE last == IF m + 1 \in P THEN Append(order[m], m + 1) ELSE order[m]
             next == [k \in 0..(m + 1) |-> IF k = m + 1 THEN last ELSE order[k]]
  <2>2. \A k \in 0..(m + 1) : next[k] = IF k = m + 1 THEN last ELSE order[k]
    OBVIOUS
  <2>3. \A k \in 0..m : order[k] = IF k = 0 THEN <<>>
                                   ELSE IF k \in P THEN Append(order[k - 1], k) ELSE order[k - 1]
    BY <2>1
  <2>4. ASSUME NEW k \in 0..(m + 1)
        PROVE  next[k] = IF k = 0 THEN <<>>
                         ELSE IF k \in P THEN Append(next[k - 1], k) ELSE next[k - 1]
    <3>1. CASE k = m + 1
      <4>1. k # 0 /\ k - 1 = m /\ next[k - 1] = order[m]
        BY <2>2, <3>1
      <4> QED BY <2>2, <3>1, <4>1
    <3>2. CASE k = 0
      BY <2>2, <2>3, <3>2
    <3>3. CASE k # m + 1 /\ k # 0
      <4>1. k \in 0..m /\ k - 1 \in 0..(m + 1) /\ k - 1 # m + 1
        BY <3>3
      <4>2. next[k] = order[k] /\ next[k - 1] = order[k - 1]
        BY <2>2, <3>3, <4>1
      <4> QED BY <2>3, <3>3, <4>1, <4>2
    <3> QED BY <3>1, <3>2, <3>3
  <2>5. Orders(next, m + 1)
    <3>1. next = [k \in 0..(m + 1) |-> next[k]]
      OBVIOUS
    <3> HIDE DEF next
    <3> QED BY <2>4, <3>1
  <2>6. \E o : Orders(o, m + 1)
    <3> HIDE DEF next, Orders
    <3> QED BY <2>5
  <2> HIDE DEF Orders
  <2> QED BY <2>6
<1>3. n \in S
  <2> HIDE DEF S
  <2>1. Nat \subseteq S
    BY <1>1, <1>2, Induction
  <2> QED BY <2>1
<1> DEFINE o == CHOOSE order : Orders(order, n)
<1>4. Orders(o, n)
  BY <1>3
<1>5. InOrder(P, n) = o[n]
  BY DEF InOrder
<1> HIDE DEF o
<1>6. /\ o[0] = <<>>
      /\ \A k \in 1..n : o[k] = IF k \in P THEN Append(o[k - 1], k) ELSE o[k - 1]
  <2>1. \A k \in 0..n : o[k] = IF k = 0 THEN <<>>
                               ELSE IF k \in P THEN Append(o[k - 1], k) ELSE o[k - 1]
    BY <1>4
  <2>2. 0 \in 0..n /\ \A k \in 1..n : k \in 0..n /\ k # 0
    OBVIOUS
  <2> QED BY <2>1, <2>2
<1>0. \A k \in P : k \in 1..n
  OBVIOUS
<1> HIDE DEF Orders, S
<1> DEFINE T == {m \in Nat : m <= n => Enumerates(o[m], {k \in P : k <= m})}
<1>7. 0 \in T
  <2>1. {k \in P : k <= 0} = {}
    BY ONLY <1>0
  <2>2. Enumerates(<<>>, {})
    BY DEF Enumerates
  <2> QED BY <1>6, <2>1, <2>2
<1>8. ASSUME NEW m \in Nat, m \in T PROVE m + 1 \in T
  <2> SUFFICES ASSUME m + 1 <= n PROVE Enumerates(o[m + 1], {k \in P : k <= m + 1})
    OBVIOUS
  <2> DEFINE K == {k \in P : k <= m}
  <2>1. Enumerates(o[m], K)
    BY <1>8
  <2>2. m + 1 \in 1..n /\ (m + 1) - 1 = m
    OBVIOUS
  <2>3. o[m + 1] = IF m + 1 \in P THEN Append(o[m], m + 1) ELSE o[m]
    BY <1>6, <2>2
  <2>4. CASE m + 1 \in P
    <3>1. Enumerates(<<m + 1>>, {m + 1})
      BY DEF Enumerates
    <3>2. \A k \in K : \A l \in {m + 1} : k < l
      OBVIOUS
    <3>3. Enumerates(o[m] \o <<m + 1>>, K \cup {m + 1})
      BY ONLY <2>1, <3>1, <3>2, EnumeratesBoth
    <3>4. o[m] \in Seq(Nat)
      BY <2>1 DEF Enumerates
    <3>5. o[m + 1] = o[m] \o <<m + 1>>
      <4>1. m + 1 \in Nat
        OBVIOUS
      <4>2. Append(o[m], m + 1) = o[m] \o <<m + 1>>
        BY ONLY <3>4, <4>1, AppendIsConcat
      <4> QED BY <2>3, <2>4, <4>2
    <3>6. K \cup {m + 1} = {k \in P : k <= m + 1}
      BY ONLY <1>0, <2>4, m \in Nat
    <3> QED BY <3>3, <3>5, <3>6
  <2>5. CASE m + 1 \notin P
    <3>1. K = {k \in P : k <= m + 1}
      BY ONLY <1>0, <2>5, m \in Nat
    <3> QED BY <2>1, <2>3, <2>5, <3>1
  <2> QED BY <2>4, <2>5
<1>9. n \in T
  <2> HIDE DEF T
  <2>1. Nat \subseteq T
    BY <1>7, <1>8, Induction
  <2> QED BY <2>1
<1>10. {k \in P : k <= n} = P
  BY ONLY <1>0
<1> QED BY <1>5, <1>9, <1>10

(* What e spells of s *)
Spelled(s, e) == [i \in 1..Len(e) |-> s[e[i]]]

LEMMA TextAtIs ==
    ASSUME NEW s \in Seq(Characters), NEW P, P \subseteq 1..Len(s), NEW e, Enumerates(e, P)
    PROVE  TextAt(s, P) = Rstrip(Spelled(s, e))
<1>1. Enumerates(InOrder(P, Len(s)), P)
  BY InOrderIs, Len(s) \in Nat
<1>2. InOrder(P, Len(s)) = e
  BY <1>1, EnumeratesOnce
<1>3. DOMAIN e = 1..Len(e)
  BY DEF Enumerates
<1> QED BY <1>2, <1>3 DEF TextAt, Spelled

LEMMA SpelledIs ==
    ASSUME NEW s \in Seq(Characters), NEW e, NEW K, Enumerates(e, K), K \subseteq 1..Len(s)
    PROVE  /\ Spelled(s, e) \in Seq(Characters)
           /\ Len(Spelled(s, e)) = Len(e)
           /\ \A i \in 1..Len(e) : Spelled(s, e)[i] = s[e[i]]
<1>1. PICK n \in Nat : n = Len(e)
  BY DEF Enumerates
<1>2. \A i \in 1..n : e[i] \in 1..Len(s) /\ s[e[i]] \in Characters
  BY <1>1 DEF Enumerates
<1>3. Spelled(s, e) \in [1..n -> Characters]
  BY <1>1, <1>2 DEF Spelled
<1>4. Spelled(s, e) \in Seq(Characters) /\ Len(Spelled(s, e)) = n
  BY <1>3, IsASeq, LenProperties
<1> QED BY <1>1, <1>4 DEF Spelled

LEMMA SpelledPart ==
    ASSUME NEW s \in Seq(Characters), NEW e, NEW K, Enumerates(e, K), K \subseteq 1..Len(s),
           NEW p \in Nat \ {0}, NEW q \in Int, q <= Len(e)
    PROVE  SubSeq(Spelled(s, e), p, q) = Spelled(s, SubSeq(e, p, q))
<1> DEFINE d == SubSeq(e, p, q)
           t == Spelled(s, e)
<1>1. PICK n \in Nat : n = Len(e)
  BY DEF Enumerates
<1>2. /\ Enumerates(d, Entries(e, p, q)) /\ Len(d) = IF p <= q THEN q - p + 1 ELSE 0
      /\ \A i \in 1..Len(d) : d[i] = e[p + i - 1]
  BY EnumeratesPart
<1>3. \A i \in 1..n : e[i] \in K
  BY <1>1 DEF Enumerates
<1>4. Entries(e, p, q) \subseteq K
  BY <1>1, <1>3 DEF Entries
<1>5. /\ t \in Seq(Characters) /\ Len(t) = n /\ \A i \in 1..n : t[i] = s[e[i]]
  BY <1>1, SpelledIs
<1>6. /\ Spelled(s, d) \in Seq(Characters) /\ Len(Spelled(s, d)) = Len(d)
      /\ \A i \in 1..Len(d) : Spelled(s, d)[i] = s[d[i]]
  BY <1>2, <1>4, SpelledIs
<1> HIDE DEF d, t
<1>7. CASE p <= q
  <2>1. p \in 1..(Len(t) + 1) /\ q \in (p - 1)..Len(t)
    BY <1>1, <1>5, <1>7
  <2>2. /\ SubSeq(t, p, q) \in Seq(Characters)
        /\ Len(SubSeq(t, p, q)) = IF p <= q THEN q - p + 1 ELSE 0
        /\ \A i \in 1..(q - p + 1) : SubSeq(t, p, q)[i] = t[p + i - 1]
    BY ONLY <1>5, <2>1, SubSeqProperties
  <2>3. PICK l \in Nat : l = q - p + 1
    BY <1>7
  <2>4. Len(d) = l /\ Len(SubSeq(t, p, q)) = l
    BY <1>2, <1>7, <2>2, <2>3
  <2>5. \A i \in 1..l : SubSeq(t, p, q)[i] = s[e[p + i - 1]]
    <3>1. \A i \in 1..l : p + i - 1 \in 1..n
      BY <1>1, <1>7, <2>3
    <3> QED BY <1>5, <2>2, <2>3, <3>1
  <2>6. \A i \in 1..l : Spelled(s, d)[i] = s[e[p + i - 1]]
    BY <1>2, <1>6, <2>4
  <2>7. /\ SubSeq(t, p, q) \in Seq(Characters) /\ Spelled(s, d) \in Seq(Characters)
        /\ Len(SubSeq(t, p, q)) = Len(Spelled(s, d))
        /\ \A i \in 1..Len(SubSeq(t, p, q)) : SubSeq(t, p, q)[i] = Spelled(s, d)[i]
    BY <1>6, <2>2, <2>4, <2>5, <2>6
  <2> QED BY ONLY <2>7, SeqEqual DEF d, t
<1>8. CASE p > q
  <2>1. SubSeq(t, p, q) = <<>>
    BY <1>5, <1>8, SubSeqEmpty
  <2>2. Spelled(s, d) \in Seq(Characters) /\ Len(Spelled(s, d)) = 0
    <3>1. ~(p <= q)
      BY <1>8
    <3> QED BY <1>2, <1>6, <3>1
  <2>3. Spelled(s, d) = <<>>
    BY ONLY <2>2, EmptySeq
  <2> QED BY <2>1, <2>3 DEF d, t
<1> QED BY <1>7, <1>8 DEF d, t

LEMMA SpelledBoth ==
    ASSUME NEW s, NEW e, NEW K, NEW f, NEW M, NEW g, NEW v,
           g = e \o f, v = Spelled(s, e) \o Spelled(s, f),
           s \in Seq(Characters), Enumerates(e, K), Enumerates(f, M),
           K \subseteq 1..Len(s), M \subseteq 1..Len(s),
           \A k \in K : \A m \in M : k < m
    PROVE  v = Spelled(s, g)
<1> DEFINE t == Spelled(s, e)
           u == Spelled(s, f)
<1>1. PICK a \in Nat : a = Len(e)
  BY DEF Enumerates
<1>2. PICK b \in Nat : b = Len(f)
  BY DEF Enumerates
<1>3. /\ Enumerates(g, K \cup M) /\ Len(g) = a + b
      /\ \A i \in 1..a : g[i] = e[i]
      /\ \A i \in 1..b : g[a + i] = f[i]
  <2>1. Enumerates(g, K \cup M)
    BY EnumeratesBoth
  <2>2. Len(g) = Len(e) + Len(f)
    BY EnumeratesBoth
  <2>3. \A i \in 1..Len(e) : g[i] = e[i]
    BY EnumeratesBoth
  <2>4. \A i \in 1..Len(f) : g[Len(e) + i] = f[i]
    BY EnumeratesBoth
  <2> QED BY <1>1, <1>2, <2>1, <2>2, <2>3, <2>4
<1>0. K \cup M \subseteq 1..Len(s)
  OBVIOUS
<1>4. t \in Seq(Characters) /\ Len(t) = a /\ \A i \in 1..a : t[i] = s[e[i]]
  BY <1>1, SpelledIs
<1>5. u \in Seq(Characters) /\ Len(u) = b /\ \A i \in 1..b : u[i] = s[f[i]]
  BY <1>2, SpelledIs
<1>6. /\ Spelled(s, g) \in Seq(Characters) /\ Len(Spelled(s, g)) = a + b
      /\ \A i \in 1..(a + b) : Spelled(s, g)[i] = s[g[i]]
  <2>1. Spelled(s, g) \in Seq(Characters)
    BY <1>0, <1>3, SpelledIs
  <2>2. Len(Spelled(s, g)) = Len(g)
    BY <1>0, <1>3, SpelledIs
  <2>3. \A i \in 1..Len(g) : Spelled(s, g)[i] = s[g[i]]
    <3>1. Enumerates(g, K \cup M)
      BY <1>3
    <3> QED BY <1>0, <3>1, SpelledIs
  <2> QED BY <1>3, <2>1, <2>2, <2>3
<1> HIDE DEF t, u
<1>7. /\ t \o u \in Seq(Characters) /\ Len(t \o u) = a + b
      /\ \A i \in 1..(a + b) : (t \o u)[i] = IF i <= a THEN t[i] ELSE u[i - a]
  BY <1>4, <1>5, ConcatProperties
<1>8. ASSUME NEW i \in 1..(a + b) PROVE (t \o u)[i] = Spelled(s, g)[i]
  <2>1. CASE i \in 1..a
    <3>1. (t \o u)[i] = t[i] /\ t[i] = s[e[i]]
      BY <1>4, <1>7, <2>1
    <3>2. Spelled(s, g)[i] = s[g[i]] /\ g[i] = e[i]
      BY <1>3, <1>6, <2>1
    <3> QED BY <3>1, <3>2
  <2>2. CASE i \notin 1..a
    <3>1. PICK x \in 1..b : i = a + x
      <4>1. i - a \in 1..b /\ i = a + (i - a)
        BY <2>2
      <4> QED BY <4>1
    <3>2. (t \o u)[i] = u[x] /\ u[x] = s[f[x]]
      <4>1. i - a = x /\ ~(i <= a)
        BY <3>1
      <4> QED BY <1>5, <1>7, <4>1
    <3>3. Spelled(s, g)[i] = s[g[i]] /\ g[i] = f[x]
      BY <1>3, <1>6, <3>1
    <3> QED BY <3>2, <3>3
  <2> QED BY <2>1, <2>2
<1> QED BY <1>6, <1>7, <1>8, SeqEqual DEF t, u

(* A piece of a text, and where it is in it *)
LEMMA EnumeratesPiece ==
    ASSUME NEW s \in Seq(Characters), NEW a \in Nat, NEW n \in Nat, a + n <= Len(s)
    PROVE  \E e : Enumerates(e, (a + 1)..(a + n)) /\ SubSeq(s, a + 1, a + n) = Spelled(s, e)
<1> DEFINE e == [i \in 1..n |-> a + i]
<1>1. e \in Seq(Nat) /\ Len(e) = n /\ \A i \in 1..n : e[i] = a + i
  <2>1. e \in [1..n -> Nat]
    OBVIOUS
  <2> QED BY <2>1, IsASeq, LenProperties
<1> HIDE DEF e
<1>2. \A k \in (a + 1)..(a + n) : k - a \in 1..n /\ k = a + (k - a)
  OBVIOUS
<1>3. Enumerates(e, (a + 1)..(a + n))
  <2>1. \A i, j \in 1..n : i < j => e[i] < e[j]
    BY <1>1
  <2>2. \A i \in 1..n : e[i] \in (a + 1)..(a + n)
    BY <1>1
  <2>3. \A k \in (a + 1)..(a + n) : \E i \in 1..n : k = e[i]
    BY <1>1, <1>2
  <2> QED BY ONLY <1>1, <2>1, <2>2, <2>3 DEF Enumerates
<1>4. PICK l \in Nat : l = Len(s)
  OBVIOUS
<1>5. (a + 1)..(a + n) \subseteq 1..Len(s)
  BY <1>4
<1>6. /\ Spelled(s, e) \in Seq(Characters) /\ Len(Spelled(s, e)) = n
      /\ \A i \in 1..n : Spelled(s, e)[i] = s[a + i]
  <2>1. /\ Spelled(s, e) \in Seq(Characters)
        /\ Len(Spelled(s, e)) = Len(e)
        /\ \A i \in 1..Len(e) : Spelled(s, e)[i] = s[e[i]]
    BY <1>3, <1>5, SpelledIs
  <2> QED BY <1>1, <2>1
<1>7. /\ SubSeq(s, a + 1, a + n) \in Seq(Characters)
      /\ Len(SubSeq(s, a + 1, a + n)) = n
      /\ \A i \in 1..n : SubSeq(s, a + 1, a + n)[i] = s[a + i]
  <2>1. a + 1 \in 1..(Len(s) + 1) /\ a + n \in ((a + 1) - 1)..Len(s)
    BY <1>4
  <2>2. /\ SubSeq(s, a + 1, a + n) \in Seq(Characters)
        /\ Len(SubSeq(s, a + 1, a + n)) = IF a + 1 <= a + n THEN (a + n) - (a + 1) + 1 ELSE 0
        /\ \A i \in 1..((a + n) - (a + 1) + 1) : SubSeq(s, a + 1, a + n)[i] = s[(a + 1) + i - 1]
    BY ONLY s \in Seq(Characters), <2>1, SubSeqProperties
  <2>3. (a + n) - (a + 1) + 1 = n /\ (a + 1 <= a + n <=> n # 0) /\ \A i \in 1..n : (a + 1) + i - 1 = a + i
    OBVIOUS
  <2> QED BY <2>2, <2>3
<1>8. SubSeq(s, a + 1, a + n) = Spelled(s, e)
  BY <1>6, <1>7, SeqEqual
<1> QED BY <1>3, <1>8

-----------------------------------------------------------------------------
(* How the depth changes from one character to the next. *)
CountOf(s, c, n) == Cardinality({k \in 1..n : s[k] = c})

LEMMA CountStep ==
    ASSUME NEW s, NEW c, NEW n \in Nat
    PROVE  /\ CountOf(s, c, n) \in Nat
           /\ CountOf(s, c, n + 1) = CountOf(s, c, n) + IF s[n + 1] = c THEN 1 ELSE 0
<1> DEFINE A == {k \in 1..n : s[k] = c}
           B == {k \in 1..(n + 1) : s[k] = c}
<1>1. IsFiniteSet(A) /\ Cardinality(A) \in Nat
  <2>1. IsFiniteSet(1..n)
    BY FS_Interval
  <2>2. IsFiniteSet(A)
    BY <2>1, FS_Subset
  <2> QED BY <2>2, FS_CardinalityType
<1>2. n + 1 \notin A
  OBVIOUS
<1>3. CountOf(s, c, n) = Cardinality(A) /\ CountOf(s, c, n + 1) = Cardinality(B)
  BY DEF CountOf
<1>4. CASE s[n + 1] = c
  <2>1. B = A \cup {n + 1}
    BY <1>4
  <2> HIDE DEF A, B
  <2>2. Cardinality(B) = Cardinality(A) + 1
    BY <1>1, <1>2, <2>1, FS_AddElement
  <2> QED BY <1>1, <1>3, <1>4, <2>2
<1>5. CASE s[n + 1] # c
  <2>1. B = A
    BY <1>5
  <2> HIDE DEF A, B
  <2> QED BY <1>1, <1>3, <1>5, <2>1
<1> QED BY <1>4, <1>5

LEMMA DepthStep ==
    ASSUME NEW s \in Seq(Characters)
    PROVE  /\ Depth(s, 0) = 0
           /\ \A i \in Nat : Depth(s, i) \in Int
           /\ \A i \in Nat :
                  Depth(s, i + 1) = Depth(s, i) + (IF s[i + 1] = Start THEN 1 ELSE 0)
                                                - (IF i >= 1 /\ s[i] = End THEN 1 ELSE 0)
<1> DEFINE Starts(i) == CountOf(s, Start, i)
           Ends(i) == CountOf(s, End, i)
<1>1. Starts(0) = 0 /\ Ends(0) = 0 /\ Ends(-1) = 0
  <2>1. {k \in 1..0 : s[k] = Start} = {} /\ {k \in 1..0 : s[k] = End} = {} /\ {k \in 1..(-1) : s[k] = End} = {}
    OBVIOUS
  <2> QED BY <2>1, FS_EmptySet DEF CountOf
<1>2. \A i \in Nat : /\ Starts(i) \in Nat /\ Ends(i) \in Nat
                     /\ Starts(i + 1) = Starts(i) + IF s[i + 1] = Start THEN 1 ELSE 0
                     /\ Ends(i + 1) = Ends(i) + IF s[i + 1] = End THEN 1 ELSE 0
  <2> TAKE i \in Nat
  <2>1. Starts(i) \in Nat /\ Starts(i + 1) = Starts(i) + IF s[i + 1] = Start THEN 1 ELSE 0
    BY CountStep
  <2>2. Ends(i) \in Nat /\ Ends(i + 1) = Ends(i) + IF s[i + 1] = End THEN 1 ELSE 0
    BY CountStep
  <2> HIDE DEF Starts, Ends
  <2> QED BY <2>1, <2>2
<1>3. \A i \in Nat : Depth(s, i) = Starts(i) - Ends(i - 1)
  BY DEF Depth, CountOf
<1> HIDE DEF Starts, Ends
<1>4. \A i \in Nat : Ends(i - 1) \in Nat
  <2> TAKE i \in Nat
  <2>1. CASE i = 0
    BY <1>1, <2>1
  <2>2. CASE i # 0
    <3>1. i - 1 \in Nat
      BY <2>2
    <3> QED BY <1>2, <3>1
  <2> QED BY <2>1, <2>2
<1>5. ASSUME NEW i \in Nat
      PROVE  Ends((i + 1) - 1) = Ends(i - 1) + IF i >= 1 /\ s[i] = End THEN 1 ELSE 0
  <2>0. (i + 1) - 1 = i
    OBVIOUS
  <2>1. CASE i = 0
    BY <1>1, <2>0, <2>1
  <2>2. CASE i # 0
    <3>1. i - 1 \in Nat /\ (i - 1) + 1 = i /\ i >= 1
      BY <2>2
    <3> QED BY <1>2, <2>0, <3>1
  <2> QED BY <2>1, <2>2
<1>6. Depth(s, 0) = 0
  <2>1. 0 - 1 = -1 /\ 0 \in Nat
    OBVIOUS
  <2> QED BY <1>1, <1>3, <2>1
<1>7. ASSUME NEW i \in Nat PROVE Depth(s, i) \in Int
  <2>1. Depth(s, i) = Starts(i) - Ends(i - 1) /\ Starts(i) \in Nat /\ Ends(i - 1) \in Nat
    BY <1>2, <1>3, <1>4
  <2> QED BY <2>1
<1>8. ASSUME NEW i \in Nat
      PROVE  Depth(s, i + 1) = Depth(s, i) + (IF s[i + 1] = Start THEN 1 ELSE 0)
                                           - (IF i >= 1 /\ s[i] = End THEN 1 ELSE 0)
  <2>1. Depth(s, i + 1) = Starts(i + 1) - Ends((i + 1) - 1) /\ Depth(s, i) = Starts(i) - Ends(i - 1)
    BY <1>3, i + 1 \in Nat
  <2>2. /\ Starts(i + 1) = Starts(i) + IF s[i + 1] = Start THEN 1 ELSE 0
        /\ Starts(i) \in Nat /\ Ends(i - 1) \in Nat
    BY <1>2, <1>4
  <2>3. Ends((i + 1) - 1) = Ends(i - 1) + IF i >= 1 /\ s[i] = End THEN 1 ELSE 0
    BY <1>5
  <2> QED BY ONLY <2>1, <2>2, <2>3
<1> QED BY <1>6, <1>7, <1>8

(* Where the depth gets below d an annotation of depth d ends, and where it  *)
(* gets to d one starts.                                                     *)
LEMMA Falls ==
    ASSUME NEW s \in Seq(Characters), NEW d \in Int, NEW i \in Nat, NEW j \in Nat, 1 <= i, i <= j,
           Depth(s, i) >= d, Depth(s, j) < d
    PROVE  \E k \in i..(j - 1) : s[k] = End /\ Depth(s, k) = d
<1> DEFINE S == {k \in 0..j : i <= k /\ Depth(s, k) >= d}
<1>1. S \subseteq 0..j /\ S # {}
  OBVIOUS
<1>2. PICK k \in S : \A m \in S : m <= k
  <2> HIDE DEF S
  <2> QED BY <1>1, Greatest
<1>3. Depth(s, k) \in Int /\ Depth(s, k + 1) \in Int /\ Depth(s, j) \in Int
  BY DepthStep, k \in Nat, k + 1 \in Nat
<1>4. k # j
  BY <1>3
<1>5. k + 1 \in 0..j /\ k + 1 \notin S
  BY <1>2, <1>4
<1>6. Depth(s, k + 1) < d
  BY <1>3, <1>5
<1>7. Depth(s, k + 1) = Depth(s, k) + (IF s[k + 1] = Start THEN 1 ELSE 0) - (IF k >= 1 /\ s[k] = End THEN 1 ELSE 0)
  BY DepthStep, k \in Nat
<1>8. s[k] = End /\ Depth(s, k) = d
  BY <1>3, <1>6, <1>7
<1> QED BY <1>4, <1>8

LEMMA Rises ==
    ASSUME NEW s \in Seq(Characters), NEW d \in Int, NEW i \in Nat, NEW j \in Nat, i <= j,
           Depth(s, i) < d, Depth(s, j) >= d
    PROVE  \E k \in (i + 1)..j : s[k] = Start /\ Depth(s, k) = d
<1> DEFINE S == {k \in Nat : i <= k /\ Depth(s, k) >= d}
<1>1. S \subseteq Nat /\ S # {}
  OBVIOUS
<1>2. PICK k \in S : \A m \in S : k <= m
  <2> HIDE DEF S
  <2> QED BY <1>1, Least
<1>3. k # i /\ k <= j
  <2>1. Depth(s, i) \in Int /\ j \in S
    BY DepthStep
  <2> QED BY <1>2, <2>1
<1>4. PICK h \in Nat : k = h + 1
  <2>1. k - 1 \in Nat /\ k = (k - 1) + 1
    BY <1>3
  <2> QED BY <2>1
<1>5. h \notin S
  BY <1>2, <1>4
<1>6. Depth(s, h) \in Int /\ Depth(s, h) < d
  <2>1. Depth(s, h) \in Int
    BY DepthStep
  <2> QED BY <1>3, <1>4, <1>5, <2>1
<1>7. Depth(s, h + 1) = Depth(s, h) + (IF s[h + 1] = Start THEN 1 ELSE 0) - (IF h >= 1 /\ s[h] = End THEN 1 ELSE 0)
  BY DepthStep
<1>8. Depth(s, k) \in Int /\ Depth(s, k) >= d
  BY DepthStep
<1>9. s[k] = Start /\ Depth(s, k) = d
  BY <1>4, <1>6, <1>7, <1>8
<1> QED BY <1>3, <1>9

LEMMA MaxIs ==
    ASSUME NEW n \in Nat, NEW S, S \subseteq 0..n, S # {}
    PROVE  Max(S) \in S /\ \A y \in S : y <= Max(S)
<1>1. PICK x \in S : \A y \in S : y <= x
  BY Greatest
<1>2. \A y \in S : x >= y
  BY <1>1
<1>3. Max(S) \in S /\ \A y \in S : Max(S) >= y
  BY <1>2 DEF Max
<1> QED BY <1>3

(* An annotation from its start to its end: what is in between is in it, and *)
(* brackets are deeper.                                                      *)
LEMMA OpenedIs ==
    ASSUME NEW s \in Seq(Characters), NEW j \in 1..Len(s), s[j] = End, Depth(s, j) > 0
    PROVE  /\ Opened(s, j) \in 1..(j - 1)
           /\ s[Opened(s, j)] = Start
           /\ Depth(s, Opened(s, j)) = Depth(s, j)
           /\ \A k \in Opened(s, j)..j : Depth(s, k) >= Depth(s, j)
           /\ \A k \in (Opened(s, j) + 1)..(j - 1) :
                  s[k] \in {Start, End} => Depth(s, k) > Depth(s, j)
<1> DEFINE d == Depth(s, j)
           S == {i \in 1..j : s[i] = Start /\ Depth(s, i) = Depth(s, j)}
           o == Opened(s, j)
<1>1. j \in Nat /\ d \in Int /\ Depth(s, 0) = 0 /\ \A i \in Nat : Depth(s, i) \in Int
  BY DepthStep
<1>2. S # {}
  <2>1. Depth(s, 0) < d /\ Depth(s, j) >= d /\ 0 \in Nat /\ 0 <= j
    BY <1>1
  <2>2. \E k \in (0 + 1)..j : s[k] = Start /\ Depth(s, k) = d
    BY ONLY <1>1, <2>1, s \in Seq(Characters), Rises
  <2> QED BY <2>2
<1>3. o \in S /\ \A y \in S : y <= o
  <2>1. S \subseteq 0..j
    OBVIOUS
  <2>2. o = Max(S)
    BY DEF Opened
  <2> HIDE DEF S, o
  <2> QED BY <1>1, <1>2, <2>1, <2>2, MaxIs
<1>4. Start # End
  BY DEF Start, End
<1>5. o \in 1..j /\ s[o] = Start /\ Depth(s, o) = d /\ o # j
  <2> HIDE DEF o
  <2> QED BY <1>3, <1>4
<1> HIDE DEF o
<1>6. \A k \in (o + 1)..j : ~(s[k] = Start /\ Depth(s, k) = d)
  <2> TAKE k \in (o + 1)..j
  <2>1. k \in 1..j /\ ~(k <= o)
    BY <1>5
  <2> QED BY <1>3, <2>1
<1>7. ASSUME NEW k \in o..j PROVE Depth(s, k) >= d
  <2> SUFFICES ASSUME Depth(s, k) < d PROVE FALSE
    BY <1>1, <1>5
  <2>1. k \in Nat /\ k <= j /\ Depth(s, j) >= d
    BY <1>1, <1>5
  <2>2. PICK m \in (k + 1)..j : s[m] = Start /\ Depth(s, m) = d
    BY <1>1, <2>1, Rises
  <2>3. m \in (o + 1)..j
    BY <1>5
  <2> QED BY <1>6, <2>2, <2>3
<1>8. ASSUME NEW k \in (o + 1)..(j - 1), s[k] \in {Start, End} PROVE Depth(s, k) > d
  <2>1. k \in Nat /\ k \in o..j /\ k + 1 \in (o + 1)..j /\ k + 1 \in o..j /\ k \in (o + 1)..j /\ k >= 1
    BY <1>5
  <2>2. Depth(s, k) \in Int /\ Depth(s, k) >= d /\ Depth(s, k + 1) \in Int /\ Depth(s, k + 1) >= d
    BY <1>1, <1>7, <2>1, k + 1 \in Nat
  <2>3. CASE s[k] = Start
    BY <1>1, <1>6, <2>1, <2>2, <2>3
  <2>4. CASE s[k] = End
    <3>1. Depth(s, k + 1) = Depth(s, k) + (IF s[k + 1] = Start THEN 1 ELSE 0) - 1
      BY <2>1, <2>2, <2>4, DepthStep
    <3> QED BY <1>1, <1>6, <2>1, <2>2, <3>1
  <2> QED BY <1>8, <2>3, <2>4
<1> QED BY <1>5, <1>7, <1>8 DEF o

(* What is as deep as a start that comes later is in an annotation that ends *)
(* before it.                                                                *)
LEMMA BeforeStart ==
    ASSUME NEW s \in Seq(Characters), NEW i \in Nat, NEW o \in Nat, 1 <= i, i < o,
           s[o] = Start, Depth(s, i) >= Depth(s, o)
    PROVE  \E k \in i..(o - 1) : s[k] = End /\ Depth(s, k) <= Depth(s, i)
<1>1. PICK h \in Nat : o = h + 1
  <2>1. o - 1 \in Nat /\ o = (o - 1) + 1
    OBVIOUS
  <2> QED BY <2>1
<1>2. /\ Depth(s, i) \in Int /\ Depth(s, h) \in Int /\ Depth(s, o) \in Int
      /\ Depth(s, o) = Depth(s, h) + 1 - (IF h >= 1 /\ s[h] = End THEN 1 ELSE 0)
  BY <1>1, DepthStep
<1>3. CASE s[h] = End
  <2>1. h \in i..(o - 1) /\ h >= 1
    BY <1>1
  <2>2. Depth(s, h) <= Depth(s, i)
    BY <1>2, <1>3, <2>1
  <2> QED BY <1>3, <2>1, <2>2
<1>4. CASE s[h] # End
  <2>1. i <= h /\ Depth(s, h) < Depth(s, i) /\ Depth(s, i) >= Depth(s, i)
    BY <1>1, <1>2, <1>4
  <2>2. PICK k \in i..(h - 1) : s[k] = End /\ Depth(s, k) = Depth(s, i)
    BY <1>2, <2>1, Falls
  <2>3. k \in i..(o - 1) /\ Depth(s, k) <= Depth(s, i)
    BY <1>1, <1>2, <2>2
  <2> QED BY <2>2, <2>3
<1> QED BY <1>3, <1>4

-----------------------------------------------------------------------------
(* What is in the buffer of the first t characters, when lines were taken to *)
(* b and annotations to j: whatever is in none of these.                     *)
Remaining(s, b, j, t) ==
    {i \in (b + 1)..t : \A k \in i..j : s[k] = End => Depth(s, k) > Depth(s, i)}

LEMMA RemainingIs ==
    ASSUME NEW s, NEW b \in Nat, NEW j \in Nat, NEW t \in Nat
    PROVE  /\ Remaining(s, b, j, t) \subseteq (b + 1)..t
           /\ \A i \in Remaining(s, b, j, t) : \A k \in i..j : s[k] = End => Depth(s, k) > Depth(s, i)
           /\ \A i \in (b + 1)..t :
                  (\A k \in i..j : s[k] = End => Depth(s, k) > Depth(s, i)) => i \in Remaining(s, b, j, t)
BY DEF Remaining

(* The annotation that ends next is in the buffer but for what was taken out *)
(* of it, and when it is taken out what is left is as it was.                *)
LEMMA RemainingNext ==
    ASSUME NEW s \in Seq(Characters), Sendable(s),
           NEW t \in Nat, t <= Len(s), NEW j \in Nat, NEW b \in Nat, b <= j, b = 0 \/ s[b] = NewLine,
           NEW e \in (j + 1)..t, s[e] = End, \A k \in (j + 1)..(e - 1) : s[k] # End,
           NEW K, K = Remaining(s, b, j, t), NEW o, o = Opened(s, e)
    PROVE  /\ o \in K /\ e \in K /\ o < e /\ s[o] = Start
           /\ \A k \in K : o < k /\ k < e => s[k] \notin {Start, End}
           /\ {k \in K : o < k /\ k < e}
                = {k \in o..e : Depth(s, k) = Depth(s, e) /\ s[k] \notin {Start, End}}
           /\ Remaining(s, b, e, t) = {k \in K : k < o \/ k > e}
<1> DEFINE d == Depth(s, e)
<1>1. /\ e \in Nat /\ e \in 1..Len(s) /\ j < e /\ e <= t /\ b < e
      /\ \A i \in Nat : Depth(s, i) \in Int
  <2>1. \A i \in Nat : Depth(s, i) \in Int
    BY DepthStep
  <2>2. PICK n \in Nat : n = Len(s)
    OBVIOUS
  <2> QED BY <2>1, <2>2
<1>2. d > 0
  BY <1>1 DEF Sendable
<1>3. /\ o \in 1..(e - 1) /\ s[o] = Start /\ Depth(s, o) = d
      /\ \A k \in o..e : Depth(s, k) >= d
      /\ \A k \in (o + 1)..(e - 1) : s[k] \in {Start, End} => Depth(s, k) > d
  BY <1>1, <1>2, OpenedIs
<1>4. /\ K \subseteq (b + 1)..t
      /\ \A i \in K : \A k \in i..j : s[k] = End => Depth(s, k) > Depth(s, i)
      /\ \A i \in (b + 1)..t : (\A k \in i..j : s[k] = End => Depth(s, k) > Depth(s, i)) => i \in K
  BY RemainingIs
<1>5. b < o
  <2> SUFFICES ASSUME o <= b PROVE FALSE
    BY <1>3
  <2>1. b \in o..e /\ b # 0
    BY <1>1, <1>3
  <2>2. Depth(s, b) >= d /\ Depth(s, b) \in Int /\ d \in Int
    BY <1>1, <1>3, <2>1
  <2>3. b \in 1..Len(s) /\ s[b] = NewLine
    BY <1>1, <2>1
  <2>4. Depth(s, b) = 0
    BY <2>3 DEF Sendable
  <2> QED BY <1>2, <2>2, <2>4
<1>6. Start # End
  BY DEF Start, End
<1>7. o \in K
  <2>1. o \in (b + 1)..t
    BY <1>1, <1>3, <1>5
  <2>2. ASSUME NEW k \in o..j, s[k] = End PROVE Depth(s, k) > Depth(s, o)
    <3>1. k # o
      BY <1>3, <1>6, <2>2
    <3>2. k \in (o + 1)..(e - 1)
      BY <1>1, <1>3, <3>1
    <3> QED BY <1>3, <2>2, <3>2
  <2> QED BY <1>4, <2>1, <2>2
<1>8. e \in K
  <2>1. e \in (b + 1)..t /\ \A k \in e..j : FALSE
    BY <1>1
  <2> QED BY <1>4, <2>1
(* What is deeper than the annotation was taken out. *)
<1>9. ASSUME NEW k \in K, k < e PROVE Depth(s, k) <= d
  <2> SUFFICES ASSUME Depth(s, k) > d PROVE FALSE
    BY <1>1, <1>4
  <2>1. k \in Nat /\ 1 <= k /\ k <= e /\ Depth(s, k) \in Int /\ Depth(s, k) >= Depth(s, k) /\ Depth(s, e) < Depth(s, k)
    BY <1>1, <1>4, <1>9
  <2>2. PICK h \in k..(e - 1) : s[h] = End /\ Depth(s, h) = Depth(s, k)
    BY <1>1, <2>1, Falls
  <2>3. h \notin (j + 1)..(e - 1)
    BY <2>2
  <2>4. h \in k..j
    BY <1>1, <2>1, <2>3
  <2>5. Depth(s, h) > Depth(s, k)
    BY <1>4, <2>2, <2>4
  <2> QED BY <2>1, <2>2, <2>5
<1>10. ASSUME NEW k \in K, o < k, k < e PROVE s[k] \notin {Start, End} /\ Depth(s, k) = d
  <2>1. k \in (o + 1)..(e - 1) /\ k \in o..e /\ k \in Nat
    BY <1>1, <1>3, <1>4, <1>10
  <2>2. Depth(s, k) <= d /\ Depth(s, k) >= d /\ Depth(s, k) \in Int /\ d \in Int
    BY <1>1, <1>3, <1>9, <1>10, <2>1
  <2> QED BY <1>3, <2>1, <2>2
<1>11. ASSUME NEW k \in o..e, Depth(s, k) = d, s[k] \notin {Start, End}
       PROVE  k \in K /\ o < k /\ k < e
  <2>1. k \in (o + 1)..(e - 1) /\ k \in (b + 1)..t
    BY <1>1, <1>3, <1>5, <1>11
  <2>2. ASSUME NEW h \in k..j, s[h] = End PROVE Depth(s, h) > Depth(s, k)
    <3>1. h \in (o + 1)..(e - 1)
      BY <1>1, <1>3, <2>1
    <3> QED BY <1>3, <1>11, <2>2, <3>1
  <2> QED BY <1>1, <1>3, <1>4, <2>1, <2>2
<1>12. {k \in K : o < k /\ k < e}
         = {k \in o..e : Depth(s, k) = Depth(s, e) /\ s[k] \notin {Start, End}}
  <2>1. \A k \in K : o < k /\ k < e => k \in o..e
    BY <1>1, <1>3, <1>4
  <2> QED BY <1>10, <1>11, <2>1
<1>13. /\ Remaining(s, b, e, t) \subseteq (b + 1)..t
       /\ \A i \in Remaining(s, b, e, t) : \A k \in i..e : s[k] = End => Depth(s, k) > Depth(s, i)
       /\ \A i \in (b + 1)..t : (\A k \in i..e : s[k] = End => Depth(s, k) > Depth(s, i)) => i \in Remaining(s, b, e, t)
  BY <1>1, RemainingIs
<1>14. ASSUME NEW i \in Remaining(s, b, e, t) PROVE i \in K /\ (i < o \/ i > e)
  <2>1. i \in (b + 1)..t
    BY <1>13
  <2>2. \A k \in i..j : k \in i..e
    BY <1>1
  <2>3. i \in K
    BY <1>4, <1>13, <2>1, <2>2
  <2>4. ASSUME i \in o..e PROVE FALSE
    <3>1. Depth(s, i) >= d /\ Depth(s, i) \in Int /\ d \in Int /\ e \in i..e
      BY <1>1, <1>3, <2>4
    <3>2. d > Depth(s, i)
      BY <1>13, <3>1
    <3> QED BY <3>1, <3>2
  <2> QED BY <1>1, <1>3, <2>1, <2>3, <2>4
<1>15. ASSUME NEW i \in K, i < o \/ i > e PROVE i \in Remaining(s, b, e, t)
  <2>1. i \in (b + 1)..t /\ i \in Nat /\ Depth(s, i) \in Int
    BY <1>1, <1>4
  <2>2. CASE i > e
    <3>1. \A k \in i..e : FALSE
      BY <1>1, <2>1, <2>2
    <3> QED BY <1>13, <2>1, <3>1
  <2>3. CASE i < o
    <3>1. Depth(s, i) < d
      <4> SUFFICES ASSUME Depth(s, i) >= d PROVE FALSE
        BY <1>1, <2>1
      <4>1. PICK k \in i..(o - 1) : s[k] = End /\ Depth(s, k) <= Depth(s, i)
        BY <1>3, <2>1, <2>3, BeforeStart
      <4>2. k \notin (j + 1)..(e - 1)
        BY <4>1
      <4>3. k \in i..j /\ Depth(s, k) \in Int
        BY <1>1, <1>3, <2>1, <4>2
      <4>4. Depth(s, k) > Depth(s, i)
        BY <1>4, <4>1, <4>3
      <4> QED BY <2>1, <4>1, <4>3, <4>4
    <3>2. ASSUME NEW k \in i..e, s[k] = End PROVE Depth(s, k) > Depth(s, i)
      <4>1. CASE k \in i..j
        BY <1>4, <3>2, <4>1
      <4>2. CASE k \in (j + 1)..(e - 1)
        BY <3>2, <4>2
      <4>3. CASE k = e
        BY <3>1, <4>3
      <4> QED BY <1>1, <2>1, <4>1, <4>2, <4>3
    <3> QED BY <1>13, <2>1, <3>2
  <2> QED BY <1>15, <2>2, <2>3
<1>16. Remaining(s, b, e, t) = {k \in K : k < o \/ k > e}
  BY <1>14, <1>15
<1>17. o < e /\ \A k \in K : o < k /\ k < e => s[k] \notin {Start, End}
  BY <1>1, <1>3, <1>10
<1> QED BY <1>3, <1>7, <1>8, <1>12, <1>16, <1>17

(* No annotation ends in the buffer but those to come. *)
LEMMA RemainingNoEnds ==
    ASSUME NEW s \in Seq(Characters), NEW t \in Nat, NEW j \in Nat, NEW b \in Nat,
           NEW i \in Remaining(s, b, j, t), s[i] = End
    PROVE  i > j
<1> SUFFICES ASSUME i <= j PROVE FALSE
  BY RemainingIs
<1>1. i \in Nat /\ i \in i..j
  BY RemainingIs
<1>2. Depth(s, i) > Depth(s, i) /\ Depth(s, i) \in Int
  BY <1>1, RemainingIs, DepthStep
<1> QED BY <1>2

LEMMA RemainingOn ==
    ASSUME NEW s \in Seq(Characters), NEW t \in Nat, NEW j \in Nat, NEW b \in Nat,
           NEW h \in Nat, j <= h, \A k \in (j + 1)..h : s[k] # End
    PROVE  Remaining(s, b, h, t) = Remaining(s, b, j, t)
<1>1. ASSUME NEW i \in Remaining(s, b, h, t) PROVE i \in Remaining(s, b, j, t)
  <2>1. \A k \in i..j : k \in i..h
    BY RemainingIs
  <2> QED BY <2>1, RemainingIs
<1>2. ASSUME NEW i \in Remaining(s, b, j, t) PROVE i \in Remaining(s, b, h, t)
  <2>1. i \in Nat
    BY RemainingIs
  <2>2. \A k \in i..h : k \in i..j \/ k \in (j + 1)..h
    BY <2>1
  <2> QED BY <2>2, RemainingIs
<1> QED BY <1>1, <1>2

(* What arrives comes after it. *)
LEMMA RemainingMore ==
    ASSUME NEW s, NEW t, NEW b, NEW z, NEW K, NEW L,
           t \in Nat, b \in Nat, b <= t, z \in Nat, t <= z, K = Remaining(s, b, t, t), L = Remaining(s, b, t, z)
    PROVE  L = K \cup (t + 1)..z
<1>0. L \subseteq (b + 1)..z /\ K \subseteq (b + 1)..t
  BY RemainingIs
<1>1. ASSUME NEW i \in L, i \notin (t + 1)..z PROVE i \in K
  <2>1. i \in (b + 1)..z /\ i \in (b + 1)..t
    BY <1>0, <1>1
  <2> QED BY <1>1, <2>1, RemainingIs
<1>2. ASSUME NEW i \in K PROVE i \in L
  <2>1. i \in (b + 1)..z
    BY <1>0
  <2> QED BY <2>1, RemainingIs
<1>3. ASSUME NEW i \in (t + 1)..z PROVE i \in L
  <2>1. i \in (b + 1)..z /\ \A k \in i..t : FALSE
    OBVIOUS
  <2> QED BY <2>1, RemainingIs
<1> QED BY <1>1, <1>2, <1>3

(* The line that ends next is what is in no annotation. *)
LEMMA RemainingLine ==
    ASSUME NEW s \in Seq(Characters), Sendable(s),
           NEW t \in Nat, t <= Len(s), NEW b \in Nat,
           NEW m \in (b + 1)..t, s[m] = NewLine,
           NEW K, K = Remaining(s, b, t, t)
    PROVE  /\ m \in K
           /\ {k \in K : k <= m} = {k \in (b + 1)..m : Depth(s, k) = 0}
           /\ Remaining(s, m, t, t) = {k \in K : k > m}
<1>1. m \in Nat /\ m \in 1..Len(s) /\ Depth(s, m) = 0
  <2>1. PICK n \in Nat : n = Len(s)
    OBVIOUS
  <2>2. m \in Nat /\ m \in 1..Len(s)
    BY <2>1
  <2> QED BY <2>2 DEF Sendable
<1>2. \A i \in Nat : Depth(s, i) \in Int
  BY DepthStep
<1>3. ASSUME NEW k \in 1..t, s[k] = End PROVE Depth(s, k) > 0
  <2>1. k \in 1..Len(s)
    OBVIOUS
  <2> QED BY <1>3, <2>1 DEF Sendable
<1>4. ASSUME NEW i \in (b + 1)..t, Depth(s, i) = 0 PROVE i \in K
  <2>1. \A k \in i..t : k \in 1..t
    OBVIOUS
  <2>2. \A k \in i..t : s[k] = End => Depth(s, k) > Depth(s, i)
    BY <1>3, <1>4, <2>1
  <2> QED BY <2>2, RemainingIs
<1>5. ASSUME NEW i \in K, i <= m PROVE i \in (b + 1)..m /\ Depth(s, i) = 0
  <2>1. i \in (b + 1)..m /\ i \in Nat /\ 1 <= i /\ Depth(s, i) \in Int
    BY <1>2, <1>5, RemainingIs
  <2>2. ASSUME Depth(s, i) > 0 PROVE FALSE
    <3>1. Depth(s, i) >= Depth(s, i) /\ Depth(s, m) < Depth(s, i)
      BY <1>1, <2>1, <2>2
    <3>2. PICK k \in i..(m - 1) : s[k] = End /\ Depth(s, k) = Depth(s, i)
      BY <1>1, <1>5, <2>1, <3>1, Falls
    <3>3. k \in i..t
      BY <1>1, <2>1
    <3>4. Depth(s, k) > Depth(s, i)
      BY <3>2, <3>3, RemainingIs
    <3> QED BY <2>1, <3>2, <3>4
  <2>3. ASSUME Depth(s, i) < 0 PROVE FALSE
    <3>1. PICK k \in (i + 1)..m : s[k] = Start /\ Depth(s, k) = 0
      BY <1>1, <1>5, <2>1, <2>3, Rises
    <3>2. Depth(s, 0) = 0 /\ Depth(s, 0) \in Int
      BY <1>2, DepthStep
    <3>3. PICK h \in 1..i : s[h] = End /\ Depth(s, h) <= 0
      <4>1. CASE Depth(s, 1) < 0
        <5>1. Depth(s, 0 + 1) = Depth(s, 0) + (IF s[0 + 1] = Start THEN 1 ELSE 0) - (IF 0 >= 1 /\ s[0] = End THEN 1 ELSE 0)
          BY DepthStep
        <5> QED BY <3>2, <4>1, <5>1
      <4>2. CASE Depth(s, 1) >= 0
        <5>1. \E h \in 1..(i - 1) : s[h] = End /\ Depth(s, h) = 0
          BY <2>1, <2>3, <4>2, Falls
        <5> QED BY <2>1, <5>1
      <4> QED BY <1>2, <4>1, <4>2
    <3>4. h \in 1..t /\ Depth(s, h) \in Int
      BY <1>2, <2>1
    <3> QED BY <1>3, <3>3, <3>4
  <2> QED BY <2>1, <2>2, <2>3
<1>6. {k \in K : k <= m} = {k \in (b + 1)..m : Depth(s, k) = 0}
  <2>1. \A k \in (b + 1)..m : k \in (b + 1)..t /\ k <= m
    OBVIOUS
  <2> QED BY <1>4, <1>5, <2>1
<1>7. Remaining(s, m, t, t) = {k \in K : k > m}
  <2>1. \A k \in (m + 1)..t : k \in (b + 1)..t /\ k > m
    OBVIOUS
  <2>2. ASSUME NEW i \in Remaining(s, m, t, t) PROVE i \in K /\ i > m
    BY <2>1, RemainingIs, <1>1
  <2>3. ASSUME NEW i \in K, i > m PROVE i \in Remaining(s, m, t, t)
    <3>1. i \in (m + 1)..t
      BY <2>3, RemainingIs
    <3> QED BY <1>1, <3>1, RemainingIs
  <2> QED BY <2>2, <2>3
<1>8. m \in K
  BY <1>1, <1>4
<1> QED BY <1>6, <1>7, <1>8

-----------------------------------------------------------------------------
(* t has the characters of s at K. *)
Spells(s, t, K) == \E f : Enumerates(f, K) /\ t = Spelled(s, f)

Below(K, lo) == {k \in K : k < lo}
Above(K, hi) == {k \in K : k > hi}
Between(K, lo, hi) == {k \in K : lo < k /\ k < hi}
Outside(K, lo, hi) == {k \in K : k < lo \/ k > hi}

(* Taking a part out of what is read: x and y are where lo and hi are.       *)
LEMMA CutIndices ==
    ASSUME NEW K, NEW f, NEW x, NEW y, NEW lo, NEW hi,
           Enumerates(f, K), K \subseteq Nat \ {0}, y \in 1..Len(f), x \in 0..Len(f), x < y,
           x = 0 => lo = 0, x # 0 => lo = f[x], hi = f[y]
    PROVE  /\ lo < hi /\ lo \in Nat /\ hi \in K
           /\ Entries(f, 1, x - 1) = Below(K, lo)
           /\ Entries(f, x + 1, y - 1) = Between(K, lo, hi)
           /\ Entries(f, y + 1, Len(f)) = Above(K, hi)
<1>1. PICK n \in Nat : n = Len(f)
  BY DEF Enumerates
<1>2. /\ \A i \in 1..n : f[i] \in K /\ f[i] \in Nat /\ f[i] > 0
      /\ \A i, j \in 1..n : i < j => f[i] < f[j]
      /\ \A k \in K : \E i \in 1..n : k = f[i]
  BY <1>1 DEF Enumerates
<1>3. x \in 0..n /\ y \in 1..n /\ hi \in Nat /\ lo \in Nat /\ lo < hi /\ hi \in K
  <2>1. x \in 0..n /\ y \in 1..n
    BY <1>1
  <2>2. CASE x = 0
    BY <1>2, <2>1, <2>2
  <2>3. CASE x # 0
    <3>1. x \in 1..n
      BY <2>1, <2>3
    <3> QED BY <1>2, <2>1, <2>3, <3>1
  <2> QED BY <2>2, <2>3
<1>4. \A i \in 1..n : (i < x <=> f[i] < lo) /\ (x < i <=> lo < f[i])
  <2> TAKE i \in 1..n
  <2>1. CASE x = 0
    BY <1>2, <2>1
  <2>2. CASE x # 0
    <3>1. x \in 1..n /\ lo = f[x]
      BY <1>3, <2>2
    <3>2. (i < x => f[i] < lo) /\ (x < i => lo < f[i]) /\ (x = i => lo = f[i]) /\ f[i] \in Nat
      BY <1>2, <3>1
    <3> QED BY <1>3, <3>2
  <2> QED BY <2>1, <2>2
<1>5. \A i \in 1..n : (i < y <=> f[i] < hi) /\ (y < i <=> hi < f[i])
  <2> TAKE i \in 1..n
  <2>1. (i < y => f[i] < hi) /\ (y < i => hi < f[i]) /\ (y = i => hi = f[i]) /\ f[i] \in Nat
    BY <1>2, <1>3
  <2> QED BY <1>3, <2>1
<1>6. Entries(f, 1, x - 1) = Below(K, lo)
  <2>1. \A i \in 1..(x - 1) : i \in 1..n /\ i < x
    BY <1>3
  <2>2. \A i \in 1..n : i < x => i \in 1..(x - 1)
    BY <1>3
  <2>3. \A i \in 1..(x - 1) : f[i] \in Below(K, lo)
    BY <1>2, <1>4, <2>1 DEF Below
  <2>4. \A k \in Below(K, lo) : \E i \in 1..(x - 1) : k = f[i]
    BY <1>2, <1>4, <2>2 DEF Below
  <2> QED BY <2>3, <2>4 DEF Entries, Below
<1>7. Entries(f, x + 1, y - 1) = Between(K, lo, hi)
  <2>1. \A i \in (x + 1)..(y - 1) : i \in 1..n /\ x < i /\ i < y
    BY <1>3
  <2>2. \A i \in 1..n : x < i /\ i < y => i \in (x + 1)..(y - 1)
    BY <1>3
  <2>3. \A i \in (x + 1)..(y - 1) : f[i] \in Between(K, lo, hi)
    BY <1>2, <1>4, <1>5, <2>1 DEF Between
  <2>4. \A k \in Between(K, lo, hi) : \E i \in (x + 1)..(y - 1) : k = f[i]
    BY <1>2, <1>4, <1>5, <2>2 DEF Between
  <2> QED BY <2>3, <2>4 DEF Entries, Between
<1>8. Entries(f, y + 1, n) = Above(K, hi)
  <2>1. \A i \in (y + 1)..n : i \in 1..n /\ y < i
    BY <1>3
  <2>2. \A i \in 1..n : y < i => i \in (y + 1)..n
    BY <1>3
  <2>3. \A i \in (y + 1)..n : f[i] \in Above(K, hi)
    BY <1>2, <1>3, <1>5, <2>1 DEF Above
  <2>4. \A k \in Above(K, hi) : \E i \in (y + 1)..n : k = f[i]
    BY <1>2, <1>3, <1>5, <2>2 DEF Above
  <2> QED BY <2>3, <2>4 DEF Entries, Above
<1> QED BY <1>1, <1>3, <1>6, <1>7, <1>8

LEMMA SpellsCut ==
    ASSUME NEW s \in Seq(Characters), NEW K, NEW f, Enumerates(f, K), K \subseteq 1..Len(s),
           NEW y \in 1..Len(f), NEW x \in 0..Len(f), x < y,
           NEW lo, x = 0 => lo = 0, x # 0 => lo = f[x], NEW hi, hi = f[y],
           NEW t, t = Spelled(s, f)
    PROVE  /\ Spells(s, SubSeq(t, x + 1, y - 1), Between(K, lo, hi))
           /\ Spells(s, SubSeq(t, 1, x - 1) \o SubSeq(t, y + 1, Len(t)), Outside(K, lo, hi))
           /\ Len(SubSeq(t, 1, x - 1) \o SubSeq(t, y + 1, Len(t))) < Len(t)
<1>1. PICK n \in Nat : n = Len(f)
  BY DEF Enumerates
<1>2. \A k \in K : k \in Nat
  OBVIOUS
<1>21. K \subseteq Nat \ {0}
  OBVIOUS
<1>22. y \in 1..Len(f) /\ x \in 0..Len(f) /\ x < y
  OBVIOUS
<1>23. Enumerates(f, K) /\ (x = 0 => lo = 0) /\ (x # 0 => lo = f[x]) /\ hi = f[y]
  OBVIOUS
<1>30. /\ lo < hi /\ lo \in Nat /\ hi \in K
       /\ Entries(f, 1, x - 1) = Below(K, lo)
       /\ Entries(f, x + 1, y - 1) = Between(K, lo, hi)
       /\ Entries(f, y + 1, Len(f)) = Above(K, hi)
  BY ONLY <1>21, <1>22, <1>23, CutIndices
<1>3. lo < hi /\ lo \in Nat /\ hi \in K /\ hi \in Nat
  BY <1>30, <1>2
<1>31. Entries(f, 1, x - 1) = Below(K, lo)
  BY <1>30
<1>32. Entries(f, x + 1, y - 1) = Between(K, lo, hi)
  BY <1>30
<1>33. Entries(f, y + 1, Len(f)) = Above(K, hi)
  BY <1>30
<1>4. t \in Seq(Characters) /\ Len(t) = n
  BY <1>1, SpelledIs
<1>5. /\ x + 1 \in Nat \ {0} /\ y + 1 \in Nat \ {0} /\ 1 \in Nat \ {0}
      /\ x - 1 \in Int /\ y - 1 \in Int /\ x - 1 <= Len(f) /\ y - 1 <= Len(f) /\ Len(f) \in Int /\ Len(f) <= Len(f)
      /\ x \in Nat /\ y \in Nat /\ x < y /\ y <= n
  BY <1>1
<1>6. PICK h : h = SubSeq(f, x + 1, y - 1)
  OBVIOUS
<1>7. Enumerates(h, Between(K, lo, hi))
  BY <1>32, <1>5, <1>6, EnumeratesPart
<1>71. SubSeq(t, x + 1, y - 1) = Spelled(s, h)
  BY <1>5, <1>6, SpelledPart
<1>8. PICK c : c = SubSeq(f, 1, x - 1)
  OBVIOUS
<1>9. Enumerates(c, Below(K, lo))
  BY <1>31, <1>5, <1>8, EnumeratesPart
<1>91. SubSeq(t, 1, x - 1) = Spelled(s, c)
  BY <1>5, <1>8, SpelledPart
<1>10. Len(c) = IF 1 <= x - 1 THEN (x - 1) - 1 + 1 ELSE 0
  BY <1>5, <1>8, EnumeratesPart
<1>11. PICK g : g = SubSeq(f, y + 1, Len(f))
  OBVIOUS
<1>12. Enumerates(g, Above(K, hi))
  BY <1>33, <1>5, <1>11, EnumeratesPart
<1>121. SubSeq(t, y + 1, Len(t)) = Spelled(s, g)
  <2>1. SubSeq(t, y + 1, Len(f)) = Spelled(s, g)
    BY <1>5, <1>11, SpelledPart
  <2> QED BY <2>1, <1>1, <1>4
<1>13. Len(g) = IF y + 1 <= Len(f) THEN Len(f) - (y + 1) + 1 ELSE 0
  BY <1>5, <1>11, EnumeratesPart
<1> DEFINE below == Below(K, lo)
           above == Above(K, hi)
<1>14. \A k \in below : \A l \in above : k < l
  <2> TAKE k \in below
  <2> TAKE l \in above
  <2>1. k \in Nat /\ l \in Nat /\ k < lo /\ hi < l
    BY <1>2, <1>3 DEF Below, Above
  <2> QED BY <2>1, <1>3
<1>141. below \subseteq 1..Len(s) /\ above \subseteq 1..Len(s)
  BY DEF Below, Above
<1>142. below \cup above = Outside(K, lo, hi)
  BY DEF Below, Above, Outside
<1> HIDE DEF below, above
<1>15. PICK r : r = c \o g
  OBVIOUS
<1>16. Enumerates(c, below) /\ Enumerates(g, above)
  BY <1>9, <1>12 DEF below, above
<1>17. Enumerates(r, below \cup above)
  BY <1>14, <1>15, <1>16, EnumeratesBoth
<1>18. Len(r) = Len(c) + Len(g)
  BY <1>14, <1>15, <1>16, EnumeratesBoth
<1>19. Spelled(s, c) \o Spelled(s, g) = Spelled(s, r)
  <2>1. below \subseteq 1..Len(s)
    BY <1>141
  <2>2. above \subseteq 1..Len(s)
    BY <1>141
  <2>3. Enumerates(c, below)
    BY <1>16
  <2>4. Enumerates(g, above)
    BY <1>16
  <2>5. s \in Seq(Characters)
    OBVIOUS
  <2>6. PICK v : v = Spelled(s, c) \o Spelled(s, g)
    OBVIOUS
  <2>7. v = Spelled(s, r)
    BY ONLY <1>14, <1>15, <2>1, <2>2, <2>3, <2>4, <2>5, <2>6, SpelledBoth
  <2> QED BY <2>6, <2>7
<1>20. Len(Spelled(s, r)) = Len(r)
  <2>1. below \cup above \subseteq 1..Len(s)
    BY <1>141
  <2> QED BY <1>17, <2>1, SpelledIs
<1>27. Len(r) < n
  <2>1. PICK lc, lg : lc = Len(c) /\ lg = Len(g)
    OBVIOUS
  <2>2. lc = (IF 1 <= x - 1 THEN (x - 1) - 1 + 1 ELSE 0) /\ lg = (IF y + 1 <= n THEN n - (y + 1) + 1 ELSE 0)
    BY <1>1, <1>10, <1>13, <2>1
  <2>3. lc + lg < n
    BY <2>2, <1>5
  <2> QED BY <2>1, <2>3, <1>18
<1>28. Spells(s, SubSeq(t, x + 1, y - 1), Between(K, lo, hi))
  BY <1>7, <1>71 DEF Spells
<1>26. SubSeq(t, 1, x - 1) \o SubSeq(t, y + 1, Len(t)) = Spelled(s, r)
  BY <1>91, <1>121, <1>19
<1>24. Spells(s, SubSeq(t, 1, x - 1) \o SubSeq(t, y + 1, Len(t)), Outside(K, lo, hi))
  BY <1>142, <1>17, <1>26 DEF Spells
<1>25. Len(SubSeq(t, 1, x - 1) \o SubSeq(t, y + 1, Len(t))) < Len(t)
  BY <1>4, <1>20, <1>27, <1>26
<1> QED BY <1>28, <1>24, <1>25

(* Blanks and newlines at the end make no difference to what is left         *)
(* without them.                                                             *)
Solid(u, n) == {0} \cup {i \in 1..n : u[i] \notin {Blank, NewLine}}

LEMMA RstripCut ==
    ASSUME NEW u \in Seq(Characters), NEW n \in Nat, n <= Len(u)
    PROVE  /\ Rstrip(SubSeq(u, 1, n)) = SubSeq(u, 1, Max(Solid(u, n)))
           /\ Rstrip(SubSeq(u, 1, n)) \in Seq(Characters)
<1> DEFINE v == SubSeq(u, 1, n)
           S == {0} \cup {i \in DOMAIN v : v[i] \notin {Blank, NewLine}}
<1>1. v \in Seq(Characters) /\ Len(v) = n /\ \A i \in 1..n : v[i] = u[i]
  <2>1. \A i \in 1..n : u[i] \in Characters
    <3>1. PICK l \in Nat : l = Len(u)
      OBVIOUS
    <3> QED BY <3>1
  <2>2. /\ v \in Seq(Characters) /\ Len(v) = (IF 1 <= n THEN n - 1 + 1 ELSE 0)
        /\ \A i \in 1..(n - 1 + 1) : v[i] = u[1 + i - 1]
    BY <2>1, SubSeqProperties
  <2> HIDE DEF v
  <2>3. Len(v) = n
    BY <2>2
  <2>4. \A i \in 1..n : v[i] = u[i]
    <3> TAKE i \in 1..n
    <3>1. i \in 1..(n - 1 + 1) /\ 1 + i - 1 = i
      OBVIOUS
    <3> QED BY <2>2, <3>1
  <2> QED BY <2>2, <2>3, <2>4
<1>2. Rstrip(v) = SubSeq(v, 1, Max(S))
  BY DEF Rstrip
<1> HIDE DEF v
<1>3. DOMAIN v = 1..n
  BY <1>1
<1>4. S = Solid(u, n)
  BY <1>1, <1>3 DEF Solid
<1> HIDE DEF S
<1>5. PICK k : k = Max(Solid(u, n))
  OBVIOUS
<1>6. k \in 0..n
  <2>1. Solid(u, n) \subseteq 0..n /\ Solid(u, n) # {}
    BY DEF Solid
  <2> QED BY <1>5, <2>1, MaxIs
<1>7. SubSeq(v, 1, k) = SubSeq(u, 1, k) /\ SubSeq(v, 1, k) \in Seq(Characters)
  <2>1. \A i \in 1..k : v[i] \in Characters /\ u[i] \in Characters /\ v[i] = u[i]
    BY <1>1, <1>6
  <2>2. /\ SubSeq(v, 1, k) \in Seq(Characters)
        /\ Len(SubSeq(v, 1, k)) = (IF 1 <= k THEN k - 1 + 1 ELSE 0)
        /\ \A i \in 1..(k - 1 + 1) : SubSeq(v, 1, k)[i] = v[1 + i - 1]
    BY <1>6, <2>1, SubSeqProperties
  <2>3. /\ SubSeq(u, 1, k) \in Seq(Characters)
        /\ Len(SubSeq(u, 1, k)) = (IF 1 <= k THEN k - 1 + 1 ELSE 0)
        /\ \A i \in 1..(k - 1 + 1) : SubSeq(u, 1, k)[i] = u[1 + i - 1]
    BY <1>6, <2>1, SubSeqProperties
  <2>4. PICK a, b : a = SubSeq(v, 1, k) /\ b = SubSeq(u, 1, k)
    OBVIOUS
  <2>5. Len(a) = k /\ Len(b) = k
    BY <1>6, <2>2, <2>3, <2>4
  <2>6. \A i \in 1..k : a[i] = b[i]
    <3> TAKE i \in 1..k
    <3>1. i \in 1..(k - 1 + 1) /\ 1 + i - 1 = i
      BY <1>6
    <3>2. a[i] = v[1 + i - 1] /\ b[i] = u[1 + i - 1]
      BY <2>2, <2>3, <2>4, <3>1
    <3> QED BY <2>1, <3>1, <3>2
  <2>7. a \in Seq(Characters) /\ b \in Seq(Characters)
    BY <2>2, <2>3, <2>4
  <2>8. a = b
    BY ONLY <2>5, <2>6, <2>7, SeqEqual
  <2> QED BY <2>4, <2>7, <2>8
<1>8. Rstrip(v) = SubSeq(u, 1, k) /\ Rstrip(v) \in Seq(Characters)
  BY <1>2, <1>4, <1>5, <1>7
<1> QED BY <1>5, <1>8 DEF v

LEMMA RstripIs ==
    ASSUME NEW u \in Seq(Characters)
    PROVE  Rstrip(u) \in Seq(Characters)
<1>1. SubSeq(u, 1, Len(u)) = u
  BY SubSeqFull
<1>2. PICK l \in Nat : l = Len(u)
  OBVIOUS
<1>3. Rstrip(SubSeq(u, 1, l)) \in Seq(Characters)
  BY <1>2, RstripCut
<1> QED BY <1>1, <1>2, <1>3

LEMMA RstripSame ==
    ASSUME NEW u \in Seq(Characters), NEW n \in 1..Len(u), u[n] \in {Blank, NewLine}
    PROVE  Rstrip(SubSeq(u, 1, n - 1)) = Rstrip(SubSeq(u, 1, n))
<1>1. PICK l \in Nat : l = Len(u)
  OBVIOUS
<1>2. n \in Nat /\ n - 1 \in Nat /\ n <= Len(u) /\ n - 1 <= Len(u)
  BY <1>1
<1>3. Solid(u, n - 1) = Solid(u, n)
  <2>1. \A i \in 1..n : i \in 1..(n - 1) \/ i = n
    BY <1>2
  <2>2. \A i \in 1..(n - 1) : i \in 1..n
    BY <1>2
  <2> QED BY <2>1, <2>2 DEF Solid
<1>4. Rstrip(SubSeq(u, 1, n)) = SubSeq(u, 1, Max(Solid(u, n)))
  BY <1>2, RstripCut
<1>5. Rstrip(SubSeq(u, 1, n - 1)) = SubSeq(u, 1, Max(Solid(u, n - 1)))
  BY <1>2, RstripCut
<1> QED BY <1>3, <1>4, <1>5

(* The first match of the patterns, in what is read of the text              *)
FirstAnnotation(u, f, o, e, x, y) ==
    /\ x \in 1..Len(f) /\ y \in 1..Len(f)
    /\ f[x] = o /\ f[y] = e /\ x < y
    /\ <<x, y>> \in Annotations(u)
    /\ \A m \in Annotations(u) : x <= m[1] /\ (m[1] = x => m = <<x, y>>)

LEMMA EventFound ==
    ASSUME NEW s, NEW t, NEW j, NEW b, NEW e, NEW K, NEW o, NEW f, NEW u,
           s \in Seq(Characters), Sendable(s),
           t \in Nat, t <= Len(s), j \in Nat, b \in Nat, b <= j, b = 0 \/ s[b] = NewLine,
           e \in (j + 1)..t, s[e] = End, \A k \in (j + 1)..(e - 1) : s[k] # End,
           K = Remaining(s, b, j, t), o = Opened(s, e), Enumerates(f, K), u = Spelled(s, f)
    PROVE  \E x, y : FirstAnnotation(u, f, o, e, x, y)
<1>1. PICK n \in Nat : n = Len(f)
  BY DEF Enumerates
<1>2. /\ \A i \in 1..n : f[i] \in K /\ f[i] \in Nat
      /\ \A h, i \in 1..n : h < i => f[h] < f[i]
      /\ \A k \in K : \E i \in 1..n : k = f[i]
  BY <1>1 DEF Enumerates
<1>3. /\ o \in K /\ e \in K /\ o < e /\ s[o] = Start
      /\ \A k \in K : o < k /\ k < e => s[k] \notin {Start, End}
  BY RemainingNext
<1>4. K \subseteq 1..Len(s) /\ \A k \in K : k \in Nat /\ k <= t
  <2>1. K \subseteq (b + 1)..t
    BY RemainingIs
  <2>2. PICK l \in Nat : l = Len(s)
    OBVIOUS
  <2> QED BY <2>1, <2>2
<1>5. u \in Seq(Characters) /\ Len(u) = n /\ \A i \in 1..n : u[i] = s[f[i]]
  BY <1>1, <1>4, SpelledIs
<1>6. PICK x \in 1..n : o = f[x]
  BY <1>2, <1>3
<1>7. PICK y \in 1..n : e = f[y]
  BY <1>2, <1>3
<1>8. x < y
  <2>1. x = y \/ y < x \/ x < y
    OBVIOUS
  <2>2. f[x] \in Nat /\ f[y] \in Nat /\ (y < x => f[y] < f[x])
    BY <1>2
  <2> QED BY <1>3, <1>6, <1>7, <2>1, <2>2
<1>9. DOMAIN u = 1..n
  BY <1>5
<1>10. u[x] = Start /\ u[y] = End
  BY <1>3, <1>5, <1>6, <1>7
<1>11. \A k \in (x + 1)..(y - 1) : u[k] \notin {Start, End}
  <2> TAKE k \in (x + 1)..(y - 1)
  <2>1. k \in 1..n /\ x < k /\ k < y
    OBVIOUS
  <2>2. f[k] \in K /\ o < f[k] /\ f[k] < e
    BY <1>2, <1>6, <1>7, <2>1
  <2> QED BY <1>3, <1>5, <2>1, <2>2
<1>12. <<x, y>> \in Annotations(u)
  BY <1>8, <1>9, <1>10, <1>11 DEF Annotations
<1>13. ASSUME NEW m \in Annotations(u) PROVE x <= m[1] /\ (m[1] = x => m = <<x, y>>)
  <2>1. PICK m1 \in 1..n, m2 \in 1..n : m = <<m1, m2>>
    BY <1>9 DEF Annotations
  <2>2. /\ m1 < m2 /\ u[m1] = Start /\ u[m2] = End
        /\ \A k \in (m1 + 1)..(m2 - 1) : u[k] \notin {Start, End}
    BY <2>1 DEF Annotations
  <2>3. f[m2] \in K /\ f[m2] \in Nat /\ s[f[m2]] = End
    BY <1>2, <1>5, <2>2
  <2>4. f[m2] > j
    BY <2>3, RemainingNoEnds
  <2>5. f[m2] >= e
    <3>1. f[m2] \notin (j + 1)..(e - 1)
      BY <2>3
    <3> QED BY <2>3, <2>4, <3>1
  <2>6. m2 >= y
    <3>1. m2 < y => f[m2] < e
      BY <1>2, <1>7
    <3> QED BY <2>3, <2>5, <3>1
  <2>7. m1 >= x
    <3>1. ASSUME m1 < x PROVE FALSE
      <4>1. x \in (m1 + 1)..(m2 - 1)
        BY <1>8, <2>6, <3>1
      <4> QED BY <1>10, <2>2, <4>1
    <3> QED BY <3>1
  <2>8. ASSUME m1 = x PROVE m2 = y
    <3>1. ASSUME m2 > y PROVE FALSE
      <4>1. y \in (m1 + 1)..(m2 - 1)
        BY <1>8, <2>8, <3>1
      <4> QED BY <1>10, <2>2, <4>1
    <3> QED BY <2>6, <3>1
  <2> QED BY <2>1, <2>7, <2>8
<1> QED BY <1>1, <1>6, <1>7, <1>8, <1>12, <1>13 DEF FirstAnnotation

LEMMA NoEventFound ==
    ASSUME NEW s \in Seq(Characters),
           NEW t \in Nat, t <= Len(s), NEW j \in Nat, NEW b \in Nat,
           \A k \in (j + 1)..t : s[k] # End,
           NEW K, K = Remaining(s, b, j, t),
           NEW f, Enumerates(f, K), NEW u, u = Spelled(s, f)
    PROVE  Annotations(u) = {}
<1>1. PICK n \in Nat : n = Len(f)
  BY DEF Enumerates
<1>2. \A i \in 1..n : f[i] \in K
  BY <1>1 DEF Enumerates
<1>3. K \subseteq (b + 1)..t
  BY RemainingIs
<1>4. K \subseteq 1..Len(s)
  <2>2. PICK l \in Nat : l = Len(s)
    OBVIOUS
  <2> QED BY <1>3, <2>2
<1>5. u \in Seq(Characters) /\ Len(u) = n /\ \A i \in 1..n : u[i] = s[f[i]]
  BY <1>1, <1>4, SpelledIs
<1>6. \A i \in 1..n : u[i] # End
  <2> TAKE i \in 1..n
  <2>1. f[i] \in K /\ u[i] = s[f[i]] /\ f[i] \in (b + 1)..t
    BY <1>2, <1>3, <1>5
  <2>2. ASSUME s[f[i]] = End PROVE FALSE
    <3>1. f[i] > j
      BY <2>1, <2>2, RemainingNoEnds
    <3>2. f[i] \in (j + 1)..t
      BY <2>1, <3>1
    <3> QED BY <2>2, <3>2
  <2> QED BY <2>1, <2>2
<1>7. DOMAIN u = 1..n
  BY <1>5
<1> QED BY <1>6, <1>7 DEF Annotations

LineIsFirst(u, f, m, y) ==
    y \in 1..Len(f) /\ f[y] = m /\ u[y] = NewLine /\ FirstLine(u) = {<<0, y>>}

LEMMA LineFound ==
    ASSUME NEW s, NEW t, NEW b, NEW m, NEW K, NEW f, NEW u,
           s \in Seq(Characters), t \in Nat, t <= Len(s), b \in Nat,
           m \in (b + 1)..t, s[m] = NewLine, \A k \in (b + 1)..(m - 1) : s[k] # NewLine,
           K \subseteq (b + 1)..t, m \in K, Enumerates(f, K), u = Spelled(s, f)
    PROVE  \E y : LineIsFirst(u, f, m, y)
<1>1. PICK n \in Nat : n = Len(f)
  BY DEF Enumerates
<1>2. /\ \A i \in 1..n : f[i] \in K /\ f[i] \in Nat
      /\ \A h, i \in 1..n : h < i => f[h] < f[i]
      /\ \A k \in K : \E i \in 1..n : k = f[i]
  BY <1>1 DEF Enumerates
<1>4. K \subseteq 1..Len(s)
  <2>2. PICK l \in Nat : l = Len(s)
    OBVIOUS
  <2> QED BY <2>2
<1>5. u \in Seq(Characters) /\ Len(u) = n /\ \A i \in 1..n : u[i] = s[f[i]]
  BY <1>1, <1>4, SpelledIs
<1>6. PICK y \in 1..n : m = f[y]
  BY <1>2
<1>7. DOMAIN u = 1..n
  BY <1>5
<1>8. u[y] = NewLine
  BY <1>5, <1>6
<1>9. \A k \in 1..(y - 1) : u[k] # NewLine
  <2> TAKE k \in 1..(y - 1)
  <2>1. k \in 1..n /\ k < y
    OBVIOUS
  <2>2. f[k] < m /\ f[k] \in (b + 1)..t
    BY <1>2, <1>6, <2>1
  <2>3. f[k] \in (b + 1)..(m - 1)
    BY <2>2
  <2> QED BY <1>5, <2>1, <2>3
<1>10. \A k \in 1..n : u[k] = NewLine /\ (\A i \in 1..(k - 1) : u[i] # NewLine) => k = y
  <2> SUFFICES ASSUME NEW k \in 1..n, u[k] = NewLine, \A i \in 1..(k - 1) : u[i] # NewLine
               PROVE  k = y
    OBVIOUS
  <2>1. ~(y < k)
    <3>1. ASSUME y < k PROVE FALSE
      <4>1. y \in 1..(k - 1)
        BY <3>1
      <4> QED BY <1>8, <4>1
    <3> QED BY <3>1
  <2>2. ~(k < y)
    <3>1. ASSUME k < y PROVE FALSE
      <4>1. k \in 1..(y - 1)
        BY <3>1
      <4> QED BY <1>9, <4>1
    <3> QED BY <3>1
  <2> QED BY <2>1, <2>2
<1>11. {i \in DOMAIN u : u[i] = NewLine /\ \A k \in 1..(i - 1) : u[k] # NewLine} = {y}
  BY <1>7, <1>8, <1>9, <1>10
<1>12. FirstLine(u) = {<<0, y>>}
  BY <1>11 DEF FirstLine
<1> QED BY <1>1, <1>6, <1>8, <1>12 DEF LineIsFirst

LEMMA NoLineFound ==
    ASSUME NEW s \in Seq(Characters), NEW t \in Nat, t <= Len(s), NEW b \in Nat,
           \A k \in (b + 1)..t : s[k] # NewLine,
           NEW K, K \subseteq (b + 1)..t,
           NEW f, Enumerates(f, K), NEW u, u = Spelled(s, f)
    PROVE  FirstLine(u) = {}
<1>1. PICK n \in Nat : n = Len(f)
  BY DEF Enumerates
<1>2. \A i \in 1..n : f[i] \in K
  BY <1>1 DEF Enumerates
<1>4. K \subseteq 1..Len(s)
  <2>2. PICK l \in Nat : l = Len(s)
    OBVIOUS
  <2> QED BY <2>2
<1>5. u \in Seq(Characters) /\ Len(u) = n /\ \A i \in 1..n : u[i] = s[f[i]]
  BY <1>1, <1>4, SpelledIs
<1>6. DOMAIN u = 1..n
  BY <1>5
<1>7. \A i \in 1..n : u[i] # NewLine
  BY <1>2, <1>5
<1>8. {i \in DOMAIN u : u[i] = NewLine /\ \A k \in 1..(i - 1) : u[k] # NewLine} = {}
  BY <1>6, <1>7
<1> QED BY <1>8 DEF FirstLine

(* Taking out the annotation that ends next hands over its text.             *)
LEMMA EventTaken ==
    ASSUME NEW s \in Seq(Characters), Sendable(s),
           NEW t \in Nat, t <= Len(s), NEW j \in Nat, NEW b \in Nat, b <= j, b = 0 \/ s[b] = NewLine,
           NEW e \in (j + 1)..t, s[e] = End, \A k \in (j + 1)..(e - 1) : s[k] # End,
           NEW u, Spells(s, u, Remaining(s, b, j, t)), NEW messages
    PROVE  \E r : /\ ExtractMessage("event", Parsed(u, messages))
                       = Parsed(r, Append(messages, AnnotationAt(s, e)))
                  /\ Spells(s, r, Remaining(s, b, e, t))
                  /\ Len(r) < Len(u)
<1>1. PICK K : K = Remaining(s, b, j, t)
  OBVIOUS
<1>2. PICK f : Enumerates(f, K) /\ u = Spelled(s, f)
  BY <1>1 DEF Spells
<1>3. PICK o : o = Opened(s, e)
  OBVIOUS
<1>40. PICK x, y : FirstAnnotation(u, f, o, e, x, y)
  BY <1>1, <1>2, <1>3, EventFound
<1>4. /\ x \in 1..Len(f) /\ y \in 1..Len(f)
      /\ f[x] = o /\ f[y] = e /\ x < y
      /\ <<x, y>> \in Annotations(u)
      /\ \A m \in Annotations(u) : x <= m[1] /\ (m[1] = x => m = <<x, y>>)
  BY <1>40 DEF FirstAnnotation
<1>5. PICK n \in Nat : n = Len(f)
  BY <1>2 DEF Enumerates
<1>6. x \in Nat /\ y \in Nat /\ x # 0 /\ x \in 0..Len(f)
  BY <1>4, <1>5
<1>7. K \subseteq 1..Len(s)
  <2>1. K \subseteq (b + 1)..t
    BY <1>1, RemainingIs
  <2>2. PICK l \in Nat : l = Len(s)
    OBVIOUS
  <2> QED BY <2>1, <2>2
<1> DEFINE text1 == SubSeq(u, x + 1, y - 1)
           rest1 == SubSeq(u, 1, x - 1) \o SubSeq(u, y + 1, Len(u))
<1>8. ExtractMessage("event", Parsed(u, messages)) = Parsed(rest1, Append(messages, Rstrip(text1)))
  <2> DEFINE m == CHOOSE m \in Annotations(u) : \A i \in Annotations(u) : m[1] <= i[1]
  <2>1. <<x, y>>[1] = x
    OBVIOUS
  <2>2. m \in Annotations(u) /\ \A i \in Annotations(u) : m[1] <= i[1]
    <3>1. \E c \in Annotations(u) : \A i \in Annotations(u) : c[1] <= i[1]
      BY <1>4, <2>1
    <3> QED BY <3>1
  <2> HIDE DEF m
  <2>3. m[1] <= x /\ x <= m[1] /\ m[1] \in Nat
    <3>1. m[1] <= <<x, y>>[1]
      BY <1>4, <2>2
    <3>2. x <= m[1]
      BY <1>4, <2>2
    <3>3. m[1] \in DOMAIN u
      BY <2>2 DEF Annotations
    <3>4. DOMAIN u = 1..Len(f)
      BY <1>2 DEF Spelled
    <3> QED BY <1>5, <2>1, <3>1, <3>2, <3>3, <3>4
  <2>4. m = <<x, y>>
    <3>1. m[1] = x
      BY <1>6, <2>3
    <3> QED BY <1>4, <2>2, <3>1
  <2>5. m[1] = x /\ m[2] = y
    BY <2>4
  <2>6. Matches("event", u) = Annotations(u) /\ Annotations(u) # {}
    BY <1>4 DEF Matches
  <2>7. Parsed(u, messages).rest = u /\ Parsed(u, messages).messages = messages
    BY DEF Parsed
  <2>8. ExtractMessage("event", Parsed(u, messages))
          = Parsed(SubSeq(u, 1, m[1] - 1) \o SubSeq(u, m[2] + 1, Len(u)),
                   Append(messages, Rstrip(SubSeq(u, m[1] + 1, m[2] - 1))))
    BY <2>6, <2>7 DEF ExtractMessage, m
  <2> QED BY <2>5, <2>8
<1>9. /\ o \in K /\ e \in K /\ o < e /\ s[o] = Start
      /\ Between(K, o, e) = {k \in o..e : Depth(s, k) = Depth(s, e) /\ s[k] \notin {Start, End}}
      /\ Remaining(s, b, e, t) = Outside(K, o, e)
  BY <1>1, <1>3, RemainingNext DEF Between, Outside
<1>10. /\ Spells(s, text1, Between(K, o, e))
       /\ Spells(s, rest1, Outside(K, o, e))
       /\ Len(rest1) < Len(u)
  <2>1. (x = 0 => o = 0) /\ (x # 0 => o = f[x]) /\ e = f[y]
    BY <1>4, <1>6
  <2> QED BY ONLY <1>2, <1>4, <1>6, <1>7, <2>1, s \in Seq(Characters), SpellsCut
<1>11. AnnotationAt(s, e) = Rstrip(text1)
  <2>1. PICK h : Enumerates(h, Between(K, o, e)) /\ text1 = Spelled(s, h)
    BY <1>10 DEF Spells
  <2>2. Between(K, o, e) \subseteq 1..Len(s)
    BY <1>7 DEF Between
  <2>3. TextAt(s, Between(K, o, e)) = Rstrip(Spelled(s, h))
    BY <2>1, <2>2, TextAtIs
  <2>4. AnnotationAt(s, e) = TextAt(s, Between(K, o, e))
    BY <1>3, <1>9 DEF AnnotationAt
  <2> QED BY <2>1, <2>3, <2>4
<1> HIDE DEF text1, rest1
<1> QED BY <1>8, <1>9, <1>10, <1>11

(* Taking out the first line hands over its text.                            *)
LEMMA LineTaken ==
    ASSUME NEW s \in Seq(Characters), Sendable(s),
           NEW t \in Nat, t <= Len(s), NEW b \in Nat, b = 0 \/ s[b] = NewLine,
           NEW m \in (b + 1)..t, s[m] = NewLine, \A k \in (b + 1)..(m - 1) : s[k] # NewLine,
           NEW u, Spells(s, u, Remaining(s, b, t, t)), NEW messages
    PROVE  \E r : /\ ExtractMessage("data", Parsed(u, messages))
                       = Parsed(r, Append(messages, LineAt(s, m)))
                  /\ Spells(s, r, Remaining(s, m, t, t))
                  /\ Len(r) < Len(u)
<1>1. PICK K : K = Remaining(s, b, t, t)
  OBVIOUS
<1>2. PICK f : Enumerates(f, K) /\ u = Spelled(s, f)
  BY <1>1 DEF Spells
<1>3. /\ m \in K
      /\ {k \in K : k <= m} = {k \in (b + 1)..m : Depth(s, k) = 0}
      /\ Remaining(s, m, t, t) = {k \in K : k > m}
  BY <1>1, RemainingLine
<1>4. K \subseteq (b + 1)..t
  BY <1>1, RemainingIs
<1>5. PICK y \in 1..Len(f) : f[y] = m /\ u[y] = NewLine /\ FirstLine(u) = {<<0, y>>}
  <2>1. PICK y : LineIsFirst(u, f, m, y)
    BY <1>2, <1>3, <1>4, LineFound
  <2> QED BY <2>1 DEF LineIsFirst
<1>6. PICK n \in Nat : n = Len(f)
  BY <1>2 DEF Enumerates
<1>7. PICK l \in Nat : l = Len(s)
  OBVIOUS
<1>8. K \subseteq 1..Len(s)
  BY <1>4, <1>7
<1>9. u \in Seq(Characters) /\ Len(u) = n
  BY <1>2, <1>6, <1>8, SpelledIs
<1> DEFINE line == SubSeq(u, 1, y - 1)
           rest1 == SubSeq(u, 1, 0 - 1) \o SubSeq(u, y + 1, Len(u))
<1>10. ExtractMessage("data", Parsed(u, messages)) = Parsed(rest1, Append(messages, Rstrip(line)))
  <2> DEFINE c == CHOOSE c \in FirstLine(u) : \A i \in FirstLine(u) : c[1] <= i[1]
  <2>1. <<0, y>>[1] = 0 /\ <<0, y>>[2] = y
    OBVIOUS
  <2>2. c = <<0, y>>
    <3>1. \E d \in FirstLine(u) : \A i \in FirstLine(u) : d[1] <= i[1]
      BY <1>5, <2>1
    <3> QED BY <1>5, <3>1
  <2> HIDE DEF c
  <2>3. c[1] = 0 /\ c[2] = y
    BY <2>1, <2>2
  <2>4. Matches("data", u) = FirstLine(u) /\ FirstLine(u) # {}
    BY <1>5 DEF Matches
  <2>5. Parsed(u, messages).rest = u /\ Parsed(u, messages).messages = messages
    BY DEF Parsed
  <2>6. ExtractMessage("data", Parsed(u, messages))
          = Parsed(SubSeq(u, 1, c[1] - 1) \o SubSeq(u, c[2] + 1, Len(u)),
                   Append(messages, Rstrip(SubSeq(u, c[1] + 1, c[2] - 1))))
    BY <2>4, <2>5 DEF ExtractMessage, c
  <2>7. ExtractMessage("data", Parsed(u, messages))
          = Parsed(rest1, Append(messages, Rstrip(SubSeq(u, 0 + 1, y - 1))))
    BY <2>3, <2>6
  <2>8. 0 + 1 = 1
    OBVIOUS
  <2> QED BY <2>7, <2>8
<1>11. Spells(s, rest1, Remaining(s, m, t, t)) /\ Len(rest1) < Len(u)
  <2>1. (0 = 0 => 0 = 0) /\ (0 # 0 => 0 = f[0]) /\ m = f[y] /\ y \in 1..Len(f) /\ 0 \in 0..Len(f) /\ 0 < y
    BY <1>5, <1>6
  <2>2. Spells(s, rest1, Outside(K, 0, m)) /\ Len(rest1) < Len(u)
    BY ONLY <1>2, <1>8, <2>1, s \in Seq(Characters), SpellsCut
  <2>3. Outside(K, 0, m) = {k \in K : k > m}
    <3>1. \A k \in K : ~(k < 0)
      BY <1>4
    <3> QED BY <3>1 DEF Outside
  <2> QED BY <1>3, <2>2, <2>3
<1>12. LineAt(s, m) = Rstrip(line)
  <2> DEFINE before == Max({0} \cup {i \in 1..(m - 1) : s[i] = NewLine})
  <2>1. before = b
    <3> DEFINE S == {0} \cup {i \in 1..(m - 1) : s[i] = NewLine}
    <3>1. S \subseteq 0..(m - 1) /\ S # {} /\ m - 1 \in Nat
      OBVIOUS
    <3>2. b \in S /\ \A i \in S : i <= b
      <4>1. b \in S
        BY <1>7
      <4>2. ASSUME NEW i \in S PROVE i <= b
        <5>1. i \notin (b + 1)..(m - 1) \/ i = 0
          OBVIOUS
        <5> QED BY <3>1, <5>1
      <4> QED BY <4>1, <4>2
    <3>3. \A i \in S : i \in Nat
      BY <3>1
    <3> HIDE DEF S
    <3>4. Max(S) \in S /\ \A i \in S : i <= Max(S)
      BY <3>1, MaxIs
    <3>5. Max(S) = b
      <4>1. PICK z : z = Max(S)
        OBVIOUS
      <4>2. z \in Nat /\ z <= b /\ b <= z
        BY <3>2, <3>3, <3>4, <4>1
      <4> QED BY <4>1, <4>2
    <3> QED BY <3>5 DEF S
  <2>2. LineAt(s, m) = TextAt(s, {k \in (b + 1)..m : Depth(s, k) = 0})
    BY <2>1 DEF LineAt
  <2>3. y \in Nat /\ 1 \in Nat \ {0} /\ y \in Int /\ y <= Len(f)
    BY <1>6
  <2>4. PICK g : g = SubSeq(f, 1, y)
    OBVIOUS
  <2>5. Enumerates(g, Entries(f, 1, y)) /\ SubSeq(u, 1, y) = Spelled(s, g)
    <3>1. Enumerates(g, Entries(f, 1, y))
      BY <1>2, <2>3, <2>4, EnumeratesPart
    <3>2. SubSeq(Spelled(s, f), 1, y) = Spelled(s, SubSeq(f, 1, y))
      BY <1>2, <1>8, <2>3, SpelledPart
    <3> QED BY <1>2, <2>4, <3>1, <3>2
  <2>6. Entries(f, 1, y) = {k \in K : k <= m}
    <3>1. /\ \A i \in 1..n : f[i] \in K /\ f[i] \in Nat
          /\ \A h, i \in 1..n : h < i => f[h] < f[i]
          /\ \A k \in K : \E i \in 1..n : k = f[i]
      BY <1>2, <1>6 DEF Enumerates
    <3>2. ASSUME NEW i \in 1..y PROVE f[i] \in K /\ f[i] <= m
      <4>1. i \in 1..n /\ y \in 1..n /\ (i < y \/ i = y)
        BY <1>6
      <4>2. f[i] \in Nat /\ f[y] \in Nat /\ (i < y => f[i] < f[y])
        BY <3>1, <4>1
      <4> QED BY <1>5, <3>1, <4>1, <4>2
    <3>3. ASSUME NEW k \in K, k <= m PROVE \E i \in 1..y : k = f[i]
      <4>1. PICK i \in 1..n : k = f[i]
        BY <3>1
      <4>2. ~(y < i)
        <5>1. y \in 1..n /\ (y < i => f[y] < f[i]) /\ f[i] \in Nat /\ f[y] \in Nat
          BY <1>6, <3>1
        <5> QED BY <1>5, <3>3, <4>1, <5>1
      <4>3. i \in 1..y
        BY <2>3, <4>2
      <4> QED BY <4>1, <4>3
    <3> QED BY <3>2, <3>3 DEF Entries
  <2>7. {k \in K : k <= m} \subseteq 1..Len(s)
    BY <1>8
  <2>8. TextAt(s, {k \in K : k <= m}) = Rstrip(Spelled(s, g))
    <3>1. Enumerates(g, {k \in K : k <= m})
      BY <2>5, <2>6
    <3> QED BY <2>7, <3>1, TextAtIs
  <2>9. Rstrip(SubSeq(u, 1, y - 1)) = Rstrip(SubSeq(u, 1, y))
    <3>1. y \in 1..Len(u) /\ u[y] \in {Blank, NewLine}
      BY <1>5, <1>6, <1>9
    <3> QED BY <1>9, <3>1, RstripSame
  <2> QED BY <1>3, <2>2, <2>5, <2>8, <2>9
<1> HIDE DEF line, rest1
<1> QED BY <1>10, <1>11, <1>12

(* The rounds of a parser, each of what the last one left                    *)
Rounds(pattern, u, n, g) ==
    g = [i \in 0..n |-> IF i = 0 THEN Parsed(u, <<>>) ELSE ExtractMessage(pattern, g[i - 1])]

LEMMA RoundsAre ==
    ASSUME NEW pattern, NEW u \in Seq(Characters)
    PROVE  \E g : /\ g[0] = Parsed(u, <<>>)
                  /\ \A i \in 1..Len(u) : g[i] = ExtractMessage(pattern, g[i - 1])
                  /\ CoerceMessages(pattern, u) = g[Len(u)]
<1> DEFINE S == {m \in Nat : \E g : Rounds(pattern, u, m, g)}
<1>1. 0 \in S
  <2>1. Rounds(pattern, u, 0, [k \in 0..0 |-> Parsed(u, <<>>)])
    BY DEF Rounds
  <2> QED BY <2>1
<1>2. ASSUME NEW m \in Nat, m \in S PROVE m + 1 \in S
  <2>1. PICK g : Rounds(pattern, u, m, g)
    BY <1>2
  <2> DEFINE last == ExtractMessage(pattern, g[m])
             next == [k \in 0..(m + 1) |-> IF k = m + 1 THEN last ELSE g[k]]
  <2>2. \A k \in 0..(m + 1) : next[k] = IF k = m + 1 THEN last ELSE g[k]
    OBVIOUS
  <2>3. \A k \in 0..m : g[k] = IF k = 0 THEN Parsed(u, <<>>) ELSE ExtractMessage(pattern, g[k - 1])
    BY <2>1 DEF Rounds
  <2>4. ASSUME NEW k \in 0..(m + 1)
        PROVE  next[k] = IF k = 0 THEN Parsed(u, <<>>) ELSE ExtractMessage(pattern, next[k - 1])
    <3>1. CASE k = m + 1
      <4>1. k # 0 /\ k - 1 = m /\ next[k - 1] = g[m]
        BY <2>2, <3>1
      <4> QED BY <2>2, <3>1, <4>1
    <3>2. CASE k = 0
      BY <2>2, <2>3, <3>2
    <3>3. CASE k # m + 1 /\ k # 0
      <4>1. k \in 0..m /\ k - 1 \in 0..(m + 1) /\ k - 1 # m + 1
        BY <3>3
      <4>2. next[k] = g[k] /\ next[k - 1] = g[k - 1]
        BY <2>2, <3>3, <4>1
      <4> QED BY <2>3, <3>3, <4>1, <4>2
    <3> QED BY <3>1, <3>2, <3>3
  <2>5. Rounds(pattern, u, m + 1, next)
    <3>1. next = [k \in 0..(m + 1) |-> next[k]]
      OBVIOUS
    <3> HIDE DEF next
    <3> QED BY <2>4, <3>1 DEF Rounds
  <2> QED BY <2>5
<1>3. PICK l \in Nat : l = Len(u)
  OBVIOUS
<1>4. l \in S
  <2> HIDE DEF S
  <2>1. Nat \subseteq S
    BY <1>1, <1>2, Induction
  <2> QED BY <2>1
<1> DEFINE o == CHOOSE g : Rounds(pattern, u, l, g)
<1>5. Rounds(pattern, u, l, o)
  BY <1>4
<1>6. CoerceMessages(pattern, u) = o[Len(u)]
  BY <1>3 DEF CoerceMessages, Rounds
<1> HIDE DEF o
<1>7. \A k \in 0..l : o[k] = IF k = 0 THEN Parsed(u, <<>>) ELSE ExtractMessage(pattern, o[k - 1])
  BY <1>5 DEF Rounds
<1>8. 0 \in 0..l /\ \A k \in 1..l : k \in 0..l /\ k # 0
  OBVIOUS
<1>9. o[0] = Parsed(u, <<>>)
  BY <1>7, <1>8
<1>10. \A k \in 1..l : o[k] = ExtractMessage(pattern, o[k - 1])
  BY <1>7, <1>8
<1> QED BY <1>3, <1>6, <1>9, <1>10

(* The messages are those that end from a + 1 to z, in that order.           *)
Marks(s, c, a, z) == {i \in (a + 1)..z : s[i] = c}
MessageAt(s, c, k) == IF c = End THEN AnnotationAt(s, k) ELSE LineAt(s, k)
Told(s, c, h) == [i \in 1..Len(h) |-> MessageAt(s, c, h[i])]
Tells(s, c, messages, a, z) == \E h : Enumerates(h, Marks(s, c, a, z)) /\ messages = Told(s, c, h)

LEMMA ToldIs ==
    ASSUME NEW s, NEW c, NEW h, NEW K, Enumerates(h, K)
    PROVE  /\ Told(s, c, h) \in Seq({MessageAt(s, c, k) : k \in Nat})
           /\ Len(Told(s, c, h)) = Len(h)
           /\ \A i \in 1..Len(h) : Told(s, c, h)[i] = MessageAt(s, c, h[i])
<1> DEFINE S == {MessageAt(s, c, k) : k \in Nat}
<1>1. PICK n \in Nat : n = Len(h)
  BY DEF Enumerates
<1>2. \A i \in 1..n : h[i] \in Nat
  BY <1>1 DEF Enumerates
<1>3. \A i \in 1..n : MessageAt(s, c, h[i]) \in S
  BY <1>2
<1>4. Told(s, c, h) = [i \in 1..n |-> MessageAt(s, c, h[i])]
  BY <1>1 DEF Told
<1> HIDE DEF S
<1>5. Told(s, c, h) \in [1..n -> S] /\ \A i \in 1..n : Told(s, c, h)[i] = MessageAt(s, c, h[i])
  BY <1>3, <1>4
<1>6. Told(s, c, h) \in Seq(S) /\ Len(Told(s, c, h)) = n
  BY <1>1, <1>5, SeqDef, LenProperties
<1> QED BY <1>1, <1>5, <1>6 DEF S

LEMMA TellsNone ==
    ASSUME NEW s, NEW c, NEW a, NEW z, Marks(s, c, a, z) = {}
    PROVE  Tells(s, c, <<>>, a, z)
<1>1. Enumerates(<<>>, Marks(s, c, a, z))
  BY DEF Enumerates
<1>2. <<>> = Told(s, c, <<>>)
  <2>1. Told(s, c, <<>>) \in Seq({MessageAt(s, c, k) : k \in Nat}) /\ Len(Told(s, c, <<>>)) = Len(<<>>)
    BY <1>1, ToldIs
  <2>2. PICK v : v = Told(s, c, <<>>)
    OBVIOUS
  <2>3. Len(v) = 0
    BY <2>1, <2>2, EmptySeq
  <2> QED BY <2>1, <2>2, <2>3, EmptySeq
<1> QED BY <1>1, <1>2 DEF Tells

LEMMA MarksBoth ==
    ASSUME NEW s, NEW c, NEW a \in Nat, NEW y \in Nat, NEW z \in Nat, a <= y, y <= z
    PROVE  /\ Marks(s, c, a, z) = Marks(s, c, a, y) \cup Marks(s, c, y, z)
           /\ \A k \in Marks(s, c, a, y) : \A m \in Marks(s, c, y, z) : k < m
<1>1. \A k \in (a + 1)..z : k \in (a + 1)..y \/ k \in (y + 1)..z
  OBVIOUS
<1>2. \A k \in (a + 1)..y : k \in (a + 1)..z
  OBVIOUS
<1>3. \A k \in (y + 1)..z : k \in (a + 1)..z
  OBVIOUS
<1>4. \A k \in (a + 1)..y : \A m \in (y + 1)..z : k < m
  OBVIOUS
<1> QED BY <1>1, <1>2, <1>3, <1>4 DEF Marks

LEMMA TellsBoth ==
    ASSUME NEW s, NEW c, NEW a \in Nat, NEW y \in Nat, NEW z \in Nat, a <= y, y <= z,
           NEW first, Tells(s, c, first, a, y), NEW second, Tells(s, c, second, y, z)
    PROVE  Tells(s, c, first \o second, a, z)
<1>1. PICK e : Enumerates(e, Marks(s, c, a, y)) /\ first = Told(s, c, e)
  BY DEF Tells
<1>2. PICK f : Enumerates(f, Marks(s, c, y, z)) /\ second = Told(s, c, f)
  BY DEF Tells
<1>3. PICK g : g = e \o f
  OBVIOUS
<1>4. PICK n \in Nat : n = Len(e)
  BY <1>1 DEF Enumerates
<1>5. PICK l \in Nat : l = Len(f)
  BY <1>2 DEF Enumerates
<1>0. \A k \in Marks(s, c, a, y) : \A m \in Marks(s, c, y, z) : k < m
  BY MarksBoth
<1>6. Enumerates(g, Marks(s, c, a, z))
  <2>1. Enumerates(g, Marks(s, c, a, y) \cup Marks(s, c, y, z))
    BY <1>0, <1>1, <1>2, <1>3, EnumeratesBoth
  <2>2. Marks(s, c, a, z) = Marks(s, c, a, y) \cup Marks(s, c, y, z)
    BY MarksBoth
  <2> QED BY <2>1, <2>2
<1>7. Len(g) = Len(e) + Len(f)
  BY <1>0, <1>1, <1>2, <1>3, EnumeratesBoth
<1>8. \A i \in 1..Len(e) : g[i] = e[i]
  BY <1>0, <1>1, <1>2, <1>3, EnumeratesBoth
<1>9. \A i \in 1..Len(f) : g[Len(e) + i] = f[i]
  BY <1>0, <1>1, <1>2, <1>3, EnumeratesBoth
<1> DEFINE S == {MessageAt(s, c, k) : k \in Nat}
<1>10. first \in Seq(S) /\ Len(first) = n /\ \A i \in 1..n : first[i] = MessageAt(s, c, e[i])
  BY <1>1, <1>4, ToldIs
<1>11. second \in Seq(S) /\ Len(second) = l /\ \A i \in 1..l : second[i] = MessageAt(s, c, f[i])
  BY <1>2, <1>5, ToldIs
<1>12. PICK t : t = Told(s, c, g)
  OBVIOUS
<1>13. t \in Seq(S) /\ Len(t) = n + l /\ \A i \in 1..(n + l) : t[i] = MessageAt(s, c, g[i])
  <2>1. Len(g) = n + l
    BY <1>4, <1>5, <1>7
  <2>2. t \in Seq(S)
    BY <1>6, <1>12, ToldIs
  <2>3. Len(t) = Len(g)
    BY <1>6, <1>12, ToldIs
  <2>4. \A i \in 1..Len(g) : t[i] = MessageAt(s, c, g[i])
    BY <1>6, <1>12, ToldIs
  <2> QED BY <2>1, <2>2, <2>3, <2>4
<1> HIDE DEF S
<1>14. PICK v : v = first \o second
  OBVIOUS
<1>15. /\ v \in Seq(S) /\ Len(v) = n + l
       /\ \A i \in 1..(n + l) : v[i] = IF i <= n THEN first[i] ELSE second[i - n]
  BY <1>10, <1>11, <1>14, ConcatProperties
<1>16. ASSUME NEW i \in 1..(n + l) PROVE v[i] = t[i]
  <2>1. CASE i <= n
    <3>1. i \in 1..n
      BY <2>1
    <3>2. g[i] = e[i]
      BY <1>4, <1>8, <3>1
    <3> QED BY <1>10, <1>13, <1>15, <2>1, <3>1, <3>2
  <2>2. CASE ~(i <= n)
    <3>1. i - n \in 1..l /\ n + (i - n) = i
      BY <2>2
    <3>2. g[n + (i - n)] = f[i - n]
      BY <1>4, <1>5, <1>9, <3>1
    <3>3. v[i] = second[i - n] /\ second[i - n] = MessageAt(s, c, f[i - n])
      BY <1>11, <1>15, <2>2, <3>1
    <3> QED BY <1>13, <3>1, <3>2, <3>3
  <2> QED BY <2>1, <2>2
<1>17. v = t
  BY ONLY <1>13, <1>15, <1>16, SeqEqual
<1> QED BY <1>6, <1>12, <1>14, <1>17 DEF Tells

LEMMA TellsOne ==
    ASSUME NEW s, NEW c, NEW j \in Nat, NEW e \in Nat, e > j, s[e] = c,
           \A k \in (j + 1)..(e - 1) : s[k] # c
    PROVE  Tells(s, c, <<MessageAt(s, c, e)>>, j, e)
<1>1. Marks(s, c, j, e) = {e}
  <2>1. \A k \in (j + 1)..e : k = e \/ k \in (j + 1)..(e - 1)
    OBVIOUS
  <2>2. e \in (j + 1)..e
    OBVIOUS
  <2> QED BY <2>1, <2>2 DEF Marks
<1>2. Enumerates(<<e>>, {e})
  BY DEF Enumerates
<1>3. Told(s, c, <<e>>) = <<MessageAt(s, c, e)>>
  BY DEF Told
<1> QED BY <1>1, <1>2, <1>3 DEF Tells

LEMMA TellsNext ==
    ASSUME NEW s, NEW c, NEW a \in Nat, NEW j \in Nat, a <= j, NEW e \in Nat, e > j, s[e] = c,
           \A k \in (j + 1)..(e - 1) : s[k] # c,
           NEW messages, Tells(s, c, messages, a, j)
    PROVE  Tells(s, c, Append(messages, MessageAt(s, c, e)), a, e)
<1>1. PICK h : Enumerates(h, Marks(s, c, a, j)) /\ messages = Told(s, c, h)
  BY DEF Tells
<1> DEFINE S == {MessageAt(s, c, k) : k \in Nat}
<1>2. messages \in Seq(S)
  BY <1>1, ToldIs
<1>3. MessageAt(s, c, e) \in S
  OBVIOUS
<1> HIDE DEF S
<1>4. Append(messages, MessageAt(s, c, e)) = messages \o <<MessageAt(s, c, e)>>
  BY <1>2, <1>3, AppendIsConcat
<1>5. Tells(s, c, <<MessageAt(s, c, e)>>, j, e)
  BY TellsOne
<1>6. Tells(s, c, messages \o <<MessageAt(s, c, e)>>, a, e)
  BY <1>5, TellsBoth
<1> QED BY <1>4, <1>6

LEMMA SpellsIs ==
    ASSUME NEW s \in Seq(Characters), NEW u, NEW K, K \subseteq 1..Len(s), Spells(s, u, K)
    PROVE  u \in Seq(Characters) /\ Len(u) \in Nat
<1>1. PICK f : Enumerates(f, K) /\ u = Spelled(s, f)
  BY DEF Spells
<1>2. u \in Seq(Characters)
  BY <1>1, SpelledIs
<1> QED BY <1>2

LEMMA RemainingWithin ==
    ASSUME NEW s \in Seq(Characters), NEW b \in Nat, NEW j \in Nat, NEW t \in Nat, t <= Len(s)
    PROVE  Remaining(s, b, j, t) \subseteq 1..Len(s)
<1>1. Remaining(s, b, j, t) \subseteq (b + 1)..t
  BY RemainingIs
<1>2. PICK l \in Nat : l = Len(s)
  OBVIOUS
<1> QED BY <1>1, <1>2

(* After n rounds the events that end up to j are handed over, and there are *)
(* no more, or n characters at least are gone.                               *)
EventsLeft(s, b, a, t, l, n, q) ==
    \E j, r, messages :
        /\ j \in a..t /\ q = Parsed(r, messages)
        /\ Spells(s, r, Remaining(s, b, j, t)) /\ Tells(s, End, messages, a, j)
        /\ Marks(s, End, j, t) = {} \/ Len(r) + n <= l

LEMMA FirstMark ==
    ASSUME NEW s, NEW c, NEW j, NEW t, j \in Nat, t \in Nat, Marks(s, c, j, t) # {}
    PROVE  \E e : e \in (j + 1)..t /\ s[e] = c /\ \A k \in (j + 1)..(e - 1) : s[k] # c
<1>1. Marks(s, c, j, t) \subseteq Nat
  BY DEF Marks
<1>2. PICK e \in Marks(s, c, j, t) : \A y \in Marks(s, c, j, t) : e <= y
  BY <1>1, Least
<1>3. e \in (j + 1)..t /\ s[e] = c
  BY <1>2 DEF Marks
<1>4. ASSUME NEW k \in (j + 1)..(e - 1), s[k] = c PROVE FALSE
  <2>1. k \in (j + 1)..t /\ k < e
    BY <1>3
  <2>2. k \in Marks(s, c, j, t)
    BY <1>4, <2>1 DEF Marks
  <2> QED BY <1>2, <1>3, <2>1, <2>2
<1> QED BY <1>3, <1>4

LEMMA EventRound ==
    ASSUME NEW s, NEW b, NEW a, NEW t, NEW l, NEW n, NEW q,
           s \in Seq(Characters), Sendable(s), a \in Nat, t \in Nat, a <= t, t <= Len(s),
           b \in Nat, b <= a, b = 0 \/ s[b] = NewLine, l \in Nat, n \in Nat,
           EventsLeft(s, b, a, t, l, n, q)
    PROVE  EventsLeft(s, b, a, t, l, n + 1, ExtractMessage("event", q))
<1>1. PICK j, r, messages :
        /\ j \in a..t /\ q = Parsed(r, messages)
        /\ Spells(s, r, Remaining(s, b, j, t)) /\ Tells(s, End, messages, a, j)
        /\ Marks(s, End, j, t) = {} \/ Len(r) + n <= l
  BY DEF EventsLeft
<1>2. j \in Nat /\ b <= j /\ a <= j /\ j <= t
  BY <1>1
<1>3. Remaining(s, b, j, t) \subseteq 1..Len(s)
  BY <1>2, RemainingWithin
<1>4. CASE Marks(s, End, j, t) = {}
  <2>1. \A k \in (j + 1)..t : s[k] # End
    BY <1>4 DEF Marks
  <2>2. PICK f : Enumerates(f, Remaining(s, b, j, t)) /\ r = Spelled(s, f)
    BY <1>1 DEF Spells
  <2>3. Annotations(r) = {}
    BY <1>2, <2>1, <2>2, NoEventFound
  <2>4. Matches("event", q.rest) = {}
    BY <1>1, <2>3 DEF Matches, Parsed
  <2>5. ExtractMessage("event", q) = q
    BY <2>4 DEF ExtractMessage
  <2> QED BY <1>1, <1>4, <2>5 DEF EventsLeft
<1>5. CASE Marks(s, End, j, t) # {}
  <2>1. PICK e : e \in (j + 1)..t /\ s[e] = End /\ \A k \in (j + 1)..(e - 1) : s[k] # End
    BY <1>2, <1>5, FirstMark
  <2>2. PICK v : /\ ExtractMessage("event", Parsed(r, messages))
                       = Parsed(v, Append(messages, AnnotationAt(s, e)))
                 /\ Spells(s, v, Remaining(s, b, e, t))
                 /\ Len(v) < Len(r)
    BY <1>1, <1>2, <2>1, EventTaken
  <2>3. e \in Nat /\ e > j /\ e \in a..t
    BY <1>2, <2>1
  <2>4. Tells(s, End, Append(messages, MessageAt(s, End, e)), a, e)
    BY <1>1, <1>2, <2>1, <2>3, TellsNext
  <2>5. MessageAt(s, End, e) = AnnotationAt(s, e)
    BY DEF MessageAt
  <2>6. Len(v) + (n + 1) <= l
    <3>1. Len(v) \in Nat
      <4>1. Remaining(s, b, e, t) \subseteq 1..Len(s)
        BY <2>3, RemainingWithin
      <4> QED BY <2>2, <4>1, SpellsIs
    <3>2. Len(r) \in Nat
      BY <1>1, <1>3, SpellsIs
    <3>3. PICK x \in Nat, y \in Nat : x = Len(v) /\ y = Len(r)
      BY <3>1, <3>2
    <3>4. x < y /\ y + n <= l
      BY <1>1, <1>5, <2>2, <3>3
    <3> QED BY <3>3, <3>4
  <2> QED BY <1>1, <2>2, <2>3, <2>4, <2>5, <2>6 DEF EventsLeft
<1> QED BY <1>4, <1>5

LEMMA EventsCoerced ==
    ASSUME NEW s, NEW b, NEW a, NEW t, NEW u,
           s \in Seq(Characters), Sendable(s), a \in Nat, t \in Nat, a <= t, t <= Len(s),
           b \in Nat, b <= a, b = 0 \/ s[b] = NewLine, Spells(s, u, Remaining(s, b, a, t))
    PROVE  \E r, messages :
              /\ CoerceMessages("event", u) = Parsed(r, messages)
              /\ Spells(s, r, Remaining(s, b, t, t)) /\ Tells(s, End, messages, a, t)
<1>1. u \in Seq(Characters) /\ Len(u) \in Nat
  <2>1. Remaining(s, b, a, t) \subseteq 1..Len(s)
    BY RemainingWithin
  <2> QED BY <2>1, SpellsIs
<1>2. PICK l \in Nat : l = Len(u)
  BY <1>1
<1>3. PICK g : /\ g[0] = Parsed(u, <<>>)
               /\ \A i \in 1..l : g[i] = ExtractMessage("event", g[i - 1])
               /\ CoerceMessages("event", u) = g[l]
  BY <1>1, <1>2, RoundsAre
<1> DEFINE T == {n \in Nat : n <= l => EventsLeft(s, b, a, t, l, n, g[n])}
<1>4. 0 \in T
  <2>1. Marks(s, End, a, a) = {}
    BY DEF Marks
  <2>2. Tells(s, End, <<>>, a, a)
    BY <2>1, TellsNone
  <2>3. Len(u) + 0 <= l /\ a \in a..t
    BY <1>2
  <2>4. EventsLeft(s, b, a, t, l, 0, g[0])
    BY <1>3, <2>2, <2>3 DEF EventsLeft
  <2> QED BY <2>4
<1>5. ASSUME NEW n \in Nat, n \in T PROVE n + 1 \in T
  <2> SUFFICES ASSUME n + 1 <= l PROVE EventsLeft(s, b, a, t, l, n + 1, g[n + 1])
    OBVIOUS
  <2>1. n + 1 \in 1..l /\ (n + 1) - 1 = n /\ n <= l
    OBVIOUS
  <2>2. g[n + 1] = ExtractMessage("event", g[n])
    BY <1>3, <2>1
  <2>3. EventsLeft(s, b, a, t, l, n, g[n])
    BY <1>5, <2>1
  <2>4. EventsLeft(s, b, a, t, l, n + 1, ExtractMessage("event", g[n]))
    BY <2>3, EventRound
  <2> QED BY <2>2, <2>4
<1>6. EventsLeft(s, b, a, t, l, l, g[l])
  <2>1. l \in T
    <3> HIDE DEF T
    <3>1. Nat \subseteq T
      BY <1>4, <1>5, Induction
    <3> QED BY <3>1
  <2> QED BY <2>1
<1>7. PICK j, r, messages :
        /\ j \in a..t /\ g[l] = Parsed(r, messages)
        /\ Spells(s, r, Remaining(s, b, j, t)) /\ Tells(s, End, messages, a, j)
        /\ Marks(s, End, j, t) = {} \/ Len(r) + l <= l
  BY <1>6 DEF EventsLeft
<1>8. j \in Nat /\ b <= j /\ a <= j /\ j <= t
  BY <1>7
<1>9. Marks(s, End, j, t) = {}
  <2> SUFFICES ASSUME Marks(s, End, j, t) # {} PROVE FALSE
    OBVIOUS
  <2>1. PICK e : e \in (j + 1)..t /\ s[e] = End /\ \A k \in (j + 1)..(e - 1) : s[k] # End
    BY <1>8, FirstMark
  <2>2. PICK v : Spells(s, v, Remaining(s, b, e, t)) /\ Len(v) < Len(r)
    BY <1>7, <1>8, <2>1, EventTaken
  <2>3. Len(v) \in Nat
    <3>1. e \in Nat
      BY <1>8, <2>1
    <3>2. Remaining(s, b, e, t) \subseteq 1..Len(s)
      BY <3>1, RemainingWithin
    <3> QED BY <2>2, <3>2, SpellsIs
  <2>4. Len(r) \in Nat
    <3>1. Remaining(s, b, j, t) \subseteq 1..Len(s)
      BY <1>8, RemainingWithin
    <3> QED BY <1>7, <3>1, SpellsIs
  <2> QED BY <1>7, <2>2, <2>3, <2>4
<1>10. \A k \in (j + 1)..t : s[k] # End
  BY <1>9 DEF Marks
<1>11. Remaining(s, b, t, t) = Remaining(s, b, j, t)
  BY <1>8, <1>10, RemainingOn
<1>12. Tells(s, End, messages, a, t)
  <2>1. Marks(s, End, a, t) = Marks(s, End, a, j)
    <3>1. Marks(s, End, a, t) = Marks(s, End, a, j) \cup Marks(s, End, j, t)
      BY <1>8, MarksBoth
    <3> QED BY <1>9, <3>1
  <2> QED BY <1>7, <2>1 DEF Tells
<1> QED BY <1>2, <1>3, <1>7, <1>11, <1>12

(* The same for lines: those up to d are handed over.                        *)
LinesLeft(s, b, t, l, n, q) ==
    \E d, r, messages :
        /\ d \in b..t /\ (d = 0 \/ s[d] = NewLine) /\ q = Parsed(r, messages)
        /\ Spells(s, r, Remaining(s, d, t, t)) /\ Tells(s, NewLine, messages, b, d)
        /\ Marks(s, NewLine, d, t) = {} \/ Len(r) + n <= l

LEMMA LineRound ==
    ASSUME NEW s, NEW b, NEW t, NEW l, NEW n, NEW q,
           s \in Seq(Characters), Sendable(s), t \in Nat, t <= Len(s),
           b \in Nat, b <= t, l \in Nat, n \in Nat,
           LinesLeft(s, b, t, l, n, q)
    PROVE  LinesLeft(s, b, t, l, n + 1, ExtractMessage("data", q))
<1>1. PICK d, r, messages :
        /\ d \in b..t /\ (d = 0 \/ s[d] = NewLine) /\ q = Parsed(r, messages)
        /\ Spells(s, r, Remaining(s, d, t, t)) /\ Tells(s, NewLine, messages, b, d)
        /\ Marks(s, NewLine, d, t) = {} \/ Len(r) + n <= l
  BY DEF LinesLeft
<1>2. d \in Nat /\ b <= d /\ d <= t
  BY <1>1
<1>3. Remaining(s, d, t, t) \subseteq 1..Len(s)
  BY <1>2, RemainingWithin
<1>4. CASE Marks(s, NewLine, d, t) = {}
  <2>1. \A k \in (d + 1)..t : s[k] # NewLine
    BY <1>4 DEF Marks
  <2>2. PICK f : Enumerates(f, Remaining(s, d, t, t)) /\ r = Spelled(s, f)
    BY <1>1 DEF Spells
  <2>3. FirstLine(r) = {}
    <3>1. Remaining(s, d, t, t) \subseteq (d + 1)..t
      BY <1>2, RemainingIs
    <3> QED BY <1>2, <2>1, <2>2, <3>1, NoLineFound
  <2>4. Matches("data", q.rest) = {}
    BY <1>1, <2>3 DEF Matches, Parsed
  <2>5. ExtractMessage("data", q) = q
    BY <2>4 DEF ExtractMessage
  <2> QED BY <1>1, <1>4, <2>5 DEF LinesLeft
<1>5. CASE Marks(s, NewLine, d, t) # {}
  <2>1. PICK m : m \in (d + 1)..t /\ s[m] = NewLine /\ \A k \in (d + 1)..(m - 1) : s[k] # NewLine
    BY <1>2, <1>5, FirstMark
  <2>2. PICK v : /\ ExtractMessage("data", Parsed(r, messages))
                       = Parsed(v, Append(messages, LineAt(s, m)))
                 /\ Spells(s, v, Remaining(s, m, t, t))
                 /\ Len(v) < Len(r)
    BY <1>1, <1>2, <2>1, LineTaken
  <2>3. m \in Nat /\ m > d /\ m \in b..t
    BY <1>2, <2>1
  <2>4. Tells(s, NewLine, Append(messages, MessageAt(s, NewLine, m)), b, m)
    BY <1>1, <1>2, <2>1, <2>3, TellsNext
  <2>5. MessageAt(s, NewLine, m) = LineAt(s, m)
    BY DEF MessageAt, NewLine, End
  <2>6. Len(v) + (n + 1) <= l
    <3>1. Len(v) \in Nat
      <4>1. Remaining(s, m, t, t) \subseteq 1..Len(s)
        BY <2>3, RemainingWithin
      <4> QED BY <2>2, <4>1, SpellsIs
    <3>2. Len(r) \in Nat
      BY <1>1, <1>3, SpellsIs
    <3>3. PICK x \in Nat, y \in Nat : x = Len(v) /\ y = Len(r)
      BY <3>1, <3>2
    <3>4. x < y /\ y + n <= l
      BY <1>1, <1>5, <2>2, <3>3
    <3> QED BY <3>3, <3>4
  <2> QED BY <2>1, <1>1, <2>2, <2>3, <2>4, <2>5, <2>6 DEF LinesLeft
<1> QED BY <1>4, <1>5

LEMMA LinesCoerced ==
    ASSUME NEW s, NEW b, NEW t, NEW u,
           s \in Seq(Characters), Sendable(s), t \in Nat, t <= Len(s),
           b \in Nat, b <= t, b = 0 \/ s[b] = NewLine, Spells(s, u, Remaining(s, b, t, t))
    PROVE  \E d, r, messages :
              /\ d \in b..t /\ (d = 0 \/ s[d] = NewLine)
              /\ CoerceMessages("data", u) = Parsed(r, messages)
              /\ Spells(s, r, Remaining(s, d, t, t)) /\ Tells(s, NewLine, messages, b, d)
              /\ Marks(s, NewLine, d, t) = {}
<1>1. u \in Seq(Characters) /\ Len(u) \in Nat
  <2>1. Remaining(s, b, t, t) \subseteq 1..Len(s)
    BY RemainingWithin
  <2> QED BY <2>1, SpellsIs
<1>2. PICK l \in Nat : l = Len(u)
  BY <1>1
<1>3. PICK g : /\ g[0] = Parsed(u, <<>>)
               /\ \A i \in 1..l : g[i] = ExtractMessage("data", g[i - 1])
               /\ CoerceMessages("data", u) = g[l]
  BY <1>1, <1>2, RoundsAre
<1> DEFINE T == {n \in Nat : n <= l => LinesLeft(s, b, t, l, n, g[n])}
<1>4. 0 \in T
  <2>1. Marks(s, NewLine, b, b) = {}
    BY DEF Marks
  <2>2. Tells(s, NewLine, <<>>, b, b)
    BY <2>1, TellsNone
  <2>3. Len(u) + 0 <= l /\ b \in b..t
    BY <1>2
  <2>4. LinesLeft(s, b, t, l, 0, g[0])
    BY <1>3, <2>2, <2>3 DEF LinesLeft
  <2> QED BY <2>4
<1>5. ASSUME NEW n \in Nat, n \in T PROVE n + 1 \in T
  <2> SUFFICES ASSUME n + 1 <= l PROVE LinesLeft(s, b, t, l, n + 1, g[n + 1])
    OBVIOUS
  <2>1. n + 1 \in 1..l /\ (n + 1) - 1 = n /\ n <= l
    OBVIOUS
  <2>2. g[n + 1] = ExtractMessage("data", g[n])
    BY <1>3, <2>1
  <2>3. LinesLeft(s, b, t, l, n, g[n])
    BY <1>5, <2>1
  <2>4. LinesLeft(s, b, t, l, n + 1, ExtractMessage("data", g[n]))
    BY <2>3, LineRound
  <2> QED BY <2>2, <2>4
<1>6. LinesLeft(s, b, t, l, l, g[l])
  <2>1. l \in T
    <3> HIDE DEF T
    <3>1. Nat \subseteq T
      BY <1>4, <1>5, Induction
    <3> QED BY <3>1
  <2> QED BY <2>1
<1>7. PICK d, r, messages :
        /\ d \in b..t /\ (d = 0 \/ s[d] = NewLine) /\ g[l] = Parsed(r, messages)
        /\ Spells(s, r, Remaining(s, d, t, t)) /\ Tells(s, NewLine, messages, b, d)
        /\ Marks(s, NewLine, d, t) = {} \/ Len(r) + l <= l
  BY <1>6 DEF LinesLeft
<1>8. d \in Nat /\ b <= d /\ d <= t
  BY <1>7
<1>9. Marks(s, NewLine, d, t) = {}
  <2> SUFFICES ASSUME Marks(s, NewLine, d, t) # {} PROVE FALSE
    OBVIOUS
  <2>1. PICK m : m \in (d + 1)..t /\ s[m] = NewLine /\ \A k \in (d + 1)..(m - 1) : s[k] # NewLine
    BY <1>8, FirstMark
  <2>2. PICK v : Spells(s, v, Remaining(s, m, t, t)) /\ Len(v) < Len(r)
    BY <1>7, <1>8, <2>1, LineTaken
  <2>3. Len(v) \in Nat
    <3>1. m \in Nat
      BY <1>8, <2>1
    <3>2. Remaining(s, m, t, t) \subseteq 1..Len(s)
      BY <3>1, RemainingWithin
    <3> QED BY <2>2, <3>2, SpellsIs
  <2>4. Len(r) \in Nat
    <3>1. Remaining(s, d, t, t) \subseteq 1..Len(s)
      BY <1>8, RemainingWithin
    <3> QED BY <1>7, <3>1, SpellsIs
  <2> QED BY <1>7, <2>2, <2>3, <2>4
<1> QED BY <1>2, <1>3, <1>7, <1>9

(* Messages are of the characters of the text.                               *)
LEMMA MessagesAre ==
    ASSUME NEW s \in Seq(Characters), Sendable(s), NEW z \in Nat, z <= Len(s),
           NEW c \in {End, NewLine}, NEW messages, Tells(s, c, messages, 0, z)
    PROVE  messages \in Seq(Seq(Characters))
<1>1. PICK h : Enumerates(h, Marks(s, c, 0, z)) /\ messages = Told(s, c, h)
  BY DEF Tells
<1>2. PICK n \in Nat : n = Len(h)
  BY <1>1 DEF Enumerates
<1>3. ASSUME NEW P, P \subseteq 1..Len(s) PROVE TextAt(s, P) \in Seq(Characters)
  <2>1. PICK l \in Nat : l = Len(s)
    OBVIOUS
  <2>2. PICK f : f = InOrder(P, l)
    OBVIOUS
  <2>3. Enumerates(f, P)
    BY <1>3, <2>1, <2>2, InOrderIs
  <2>4. Spelled(s, f) \in Seq(Characters)
    BY <1>3, <2>3, SpelledIs
  <2>5. TextAt(s, P) = Rstrip(Spelled(s, f))
    BY <1>3, <2>3, TextAtIs
  <2> QED BY <2>4, <2>5, RstripIs
<1>4. ASSUME NEW k \in Marks(s, c, 0, z) PROVE MessageAt(s, c, k) \in Seq(Characters)
  <2>1. k \in 1..Len(s) /\ s[k] = c
    <3>1. PICK l \in Nat : l = Len(s)
      OBVIOUS
    <3> QED BY <3>1 DEF Marks
  <2>2. CASE c = End
    <3>1. Depth(s, k) > 0
      BY <2>1, <2>2 DEF Sendable
    <3>2. Opened(s, k) \in 1..(k - 1)
      BY <2>1, <2>2, <3>1, OpenedIs
    <3>3. PICK o : o = Opened(s, k)
      OBVIOUS
    <3>4. {i \in o..k : Depth(s, i) = Depth(s, k) /\ s[i] \notin {Start, End}} \subseteq 1..Len(s)
      <4>1. PICK l \in Nat : l = Len(s)
        OBVIOUS
      <4>2. \A i \in o..k : i \in 1..Len(s)
        BY <2>1, <3>2, <3>3, <4>1
      <4> QED BY <4>2
    <3>5. TextAt(s, {i \in o..k : Depth(s, i) = Depth(s, k) /\ s[i] \notin {Start, End}}) \in Seq(Characters)
      BY <1>3, <3>4
    <3> QED BY <2>2, <3>3, <3>5 DEF MessageAt, AnnotationAt
  <2>3. CASE c # End
    <3> DEFINE S == {0} \cup {i \in 1..(k - 1) : s[i] = NewLine}
    <3>1. S \subseteq 0..k /\ S # {} /\ k \in Nat
      BY <2>1
    <3>2. Max(S) \in 0..k
      BY <3>1, MaxIs
    <3>3. PICK o : o = Max(S)
      OBVIOUS
    <3>4. {i \in (o + 1)..k : Depth(s, i) = 0} \subseteq 1..Len(s)
      <4>1. PICK l \in Nat : l = Len(s)
        OBVIOUS
      <4>2. \A i \in (o + 1)..k : i \in 1..Len(s)
        BY <2>1, <3>2, <3>3, <4>1
      <4> QED BY <4>2
    <3>5. TextAt(s, {i \in (o + 1)..k : Depth(s, i) = 0}) \in Seq(Characters)
      BY <1>3, <3>4
    <3> QED BY <2>3, <3>3, <3>5 DEF MessageAt, LineAt
  <2> QED BY <2>2, <2>3
<1>5. \A i \in 1..n : h[i] \in Marks(s, c, 0, z)
  BY <1>1, <1>2 DEF Enumerates
<1>6. Told(s, c, h) = [i \in 1..n |-> MessageAt(s, c, h[i])]
  BY <1>2 DEF Told
<1>7. PICK S : S = Seq(Characters)
  OBVIOUS
<1>8. Told(s, c, h) \in [1..n -> S]
  BY <1>4, <1>5, <1>6, <1>7
<1>9. Told(s, c, h) \in Seq(S)
  BY <1>8, SeqDef
<1> QED BY <1>1, <1>7, <1>9

(* What holds between data_received() and the next: the buffer has what is   *)
(* kept of the current line, and what ended was handed over.                 *)
ParsedSoFar(s, t, rest, inEvents, inData) ==
    /\ s \in Seq(Characters) /\ Sendable(s) /\ t \in Nat /\ t <= Len(s)
    /\ \E b \in 0..t : /\ b = 0 \/ s[b] = NewLine
                       /\ Marks(s, NewLine, b, t) = {}
                       /\ Spells(s, rest, Remaining(s, b, t, t))
    /\ Tells(s, End, inEvents, 0, t)
    /\ Tells(s, NewLine, inData, 0, t)

LEMMA StartsParsed ==
    ASSUME NEW s \in Seq(Characters), Sendable(s)
    PROVE  ParsedSoFar(s, 0, <<>>, <<>>, <<>>)
<1>1. Marks(s, NewLine, 0, 0) = {} /\ Marks(s, End, 0, 0) = {}
  BY DEF Marks
<1>2. Tells(s, End, <<>>, 0, 0) /\ Tells(s, NewLine, <<>>, 0, 0)
  BY <1>1, TellsNone
<1>3. Remaining(s, 0, 0, 0) = {}
  <2>1. Remaining(s, 0, 0, 0) \subseteq (0 + 1)..0
    BY RemainingIs
  <2> QED BY <2>1
<1>4. Spells(s, <<>>, {})
  <2>1. Enumerates(<<>>, {})
    BY DEF Enumerates
  <2>2. Spelled(s, <<>>) \in Seq(Characters) /\ Len(Spelled(s, <<>>)) = Len(<<>>)
    <3>1. {} \subseteq 1..Len(s)
      OBVIOUS
    <3> QED BY <2>1, <3>1, SpelledIs
  <2>3. PICK v : v = Spelled(s, <<>>)
    OBVIOUS
  <2>4. Len(v) = 0
    BY <2>2, <2>3, EmptySeq
  <2>5. v = <<>>
    BY <2>2, <2>3, <2>4, EmptySeq
  <2> QED BY <2>1, <2>3, <2>5 DEF Spells
<1>5. Len(s) \in Nat /\ 0 <= Len(s)
  OBVIOUS
<1>6. \E b \in 0..0 : /\ b = 0 \/ s[b] = NewLine
                      /\ Marks(s, NewLine, b, 0) = {}
                      /\ Spells(s, <<>>, Remaining(s, b, 0, 0))
  <2>1. 0 \in 0..0
    OBVIOUS
  <2> QED BY <1>1, <1>3, <1>4, <2>1
<1> QED BY <1>2, <1>5, <1>6 DEF ParsedSoFar

LEMMA PieceRead ==
    ASSUME NEW s \in Seq(Characters), NEW a \in Nat, NEW n \in Nat, a + n <= Len(s),
           NEW b \in Nat, b <= a, NEW u, Spells(s, u, Remaining(s, b, a, a))
    PROVE  Spells(s, u \o SubSeq(s, a + 1, a + n), Remaining(s, b, a, a + n))
<1>1. PICK f : Enumerates(f, Remaining(s, b, a, a)) /\ u = Spelled(s, f)
  BY DEF Spells
<1>2. PICK e : Enumerates(e, (a + 1)..(a + n)) /\ SubSeq(s, a + 1, a + n) = Spelled(s, e)
  BY EnumeratesPiece
<1>3. PICK K, M : K = Remaining(s, b, a, a) /\ M = (a + 1)..(a + n)
  OBVIOUS
<1>4. K \subseteq (b + 1)..a
  BY <1>3, RemainingIs
<1>5. \A k \in K : \A m \in M : k < m
  BY <1>3, <1>4
<1>6. K \subseteq 1..Len(s) /\ M \subseteq 1..Len(s)
  <2>1. PICK l \in Nat : l = Len(s)
    OBVIOUS
  <2> QED BY <1>3, <1>4, <2>1
<1>7. PICK g : g = f \o e
  OBVIOUS
<1>8. Enumerates(f, K) /\ Enumerates(e, M)
  BY <1>1, <1>2, <1>3
<1>9. Enumerates(g, K \cup M)
  BY <1>5, <1>7, <1>8, EnumeratesBoth
<1>10. PICK v : v = Spelled(s, f) \o Spelled(s, e)
  OBVIOUS
<1>11. v = Spelled(s, g)
  BY ONLY <1>5, <1>6, <1>7, <1>8, <1>10, s \in Seq(Characters), SpelledBoth
<1>12. Remaining(s, b, a, a + n) = K \cup M
  <2>1. PICK z, L : z = a + n /\ L = Remaining(s, b, a, z)
    OBVIOUS
  <2>2. z \in Nat /\ a <= z
    BY <2>1
  <2>3. L = K \cup (a + 1)..z
    BY <1>3, <2>1, <2>2, RemainingMore
  <2> QED BY <1>3, <2>1, <2>3
<1> QED BY <1>1, <1>2, <1>9, <1>10, <1>11, <1>12 DEF Spells

LEMMA MoreParsed ==
    ASSUME NEW s, NEW a, NEW n, NEW u, NEW told, NEW said, NEW v, NEW e, NEW d,
           ParsedSoFar(s, a, u, told, said), n \in Nat, a + n <= Len(s),
           v = u \o SubSeq(s, a + 1, a + n),
           e = CoerceMessages("event", v), d = CoerceMessages("data", e.rest)
    PROVE  ParsedSoFar(s, a + n, d.rest, told \o e.messages, said \o d.messages)
<1>1. s \in Seq(Characters) /\ Sendable(s) /\ a \in Nat
  BY DEF ParsedSoFar
<1>2. PICK b \in 0..a : /\ b = 0 \/ s[b] = NewLine
                        /\ Marks(s, NewLine, b, a) = {}
                        /\ Spells(s, u, Remaining(s, b, a, a))
  BY DEF ParsedSoFar
<1>3. PICK t \in Nat : t = a + n
  BY <1>1
<1>4. b \in Nat /\ b <= a /\ a <= t /\ b <= t /\ t <= Len(s)
  BY <1>1, <1>2, <1>3
<1>5. Spells(s, v, Remaining(s, b, a, t))
  <2>1. Spells(s, u \o SubSeq(s, a + 1, a + n), Remaining(s, b, a, a + n))
    BY <1>1, <1>2, <1>4, PieceRead
  <2> QED BY <1>3, <2>1
<1>6. PICK r, inEvents :
              /\ e = Parsed(r, inEvents)
              /\ Spells(s, r, Remaining(s, b, t, t)) /\ Tells(s, End, inEvents, a, t)
  BY <1>1, <1>2, <1>4, <1>5, EventsCoerced
<1>7. e.rest = r /\ e.messages = inEvents
  BY <1>6 DEF Parsed
<1>8. PICK c, w, inData :
              /\ c \in b..t /\ (c = 0 \/ s[c] = NewLine)
              /\ d = Parsed(w, inData)
              /\ Spells(s, w, Remaining(s, c, t, t)) /\ Tells(s, NewLine, inData, b, c)
              /\ Marks(s, NewLine, c, t) = {}
  <2>1. b = 0 \/ s[b] = NewLine
    BY <1>2
  <2>2. \E g, w, inData :
              /\ g \in b..t /\ (g = 0 \/ s[g] = NewLine)
              /\ CoerceMessages("data", r) = Parsed(w, inData)
              /\ Spells(s, w, Remaining(s, g, t, t)) /\ Tells(s, NewLine, inData, b, g)
              /\ Marks(s, NewLine, g, t) = {}
    BY ONLY <1>1, <1>4, <1>6, <2>1, t \in Nat, LinesCoerced
  <2>3. d = CoerceMessages("data", r)
    BY <1>7
  <2> QED BY <2>2, <2>3
<1>9. d.rest = w /\ d.messages = inData
  BY <1>8 DEF Parsed
<1>10. c \in Nat /\ b <= c /\ c <= t /\ c \in 0..t
  BY <1>4, <1>8
<1>11. Tells(s, End, told \o inEvents, 0, t)
  <2>1. Tells(s, End, told, 0, a)
    BY DEF ParsedSoFar
  <2> QED BY <1>1, <1>4, <1>6, <2>1, TellsBoth
<1>12. Tells(s, NewLine, said \o inData, 0, t)
  <2>1. Tells(s, NewLine, said, 0, a)
    BY DEF ParsedSoFar
  <2>2. Marks(s, NewLine, 0, a) = Marks(s, NewLine, 0, b) \cup Marks(s, NewLine, b, a)
    BY <1>1, <1>4, MarksBoth
  <2>3. Tells(s, NewLine, said, 0, b)
    BY <1>2, <2>1, <2>2 DEF Tells
  <2>4. Tells(s, NewLine, said \o inData, 0, c)
    BY <1>4, <1>8, <1>10, <2>3, TellsBoth
  <2>5. Marks(s, NewLine, 0, t) = Marks(s, NewLine, 0, c) \cup Marks(s, NewLine, c, t)
    BY <1>3, <1>10, MarksBoth
  <2> QED BY <1>8, <2>4, <2>5 DEF Tells
<1> QED BY <1>1, <1>3, <1>4, <1>7, <1>8, <1>9, <1>10, <1>11, <1>12 DEF ParsedSoFar

(* This is the type of the parser and what is asked of it.                   *)
ParserInv == ParsedSoFar(text, taken, buffer, events, lines)

LEMMA TellsWhole ==
    ASSUME NEW s, NEW c, NEW t \in Nat, NEW messages, Tells(s, c, messages, 0, t),
           NEW order, order = InOrder(Marks(s, c, 0, t), t)
    PROVE  /\ messages = [i \in 1..Len(order) |-> MessageAt(s, c, order[i])]
           /\ DOMAIN order = 1..Len(order)
<1>1. PICK h : Enumerates(h, Marks(s, c, 0, t)) /\ messages = Told(s, c, h)
  BY DEF Tells
<1>2. Marks(s, c, 0, t) \subseteq 1..t
  BY DEF Marks
<1>3. Enumerates(order, Marks(s, c, 0, t))
  BY <1>2, InOrderIs
<1>4. order = h
  BY <1>1, <1>3, EnumeratesOnce
<1>5. DOMAIN order = 1..Len(order)
  BY <1>3 DEF Enumerates
<1> QED BY <1>1, <1>4, <1>5 DEF Told

LEMMA ParserInvIs == ParserInv => ParserTypeOK /\ ParsedAsWhole
<1> SUFFICES ASSUME ParserInv PROVE ParserTypeOK /\ ParsedAsWhole
  OBVIOUS
<1>1. /\ text \in Seq(Characters) /\ Sendable(text) /\ taken \in Nat /\ taken <= Len(text)
      /\ Tells(text, End, events, 0, taken) /\ Tells(text, NewLine, lines, 0, taken)
  BY DEF ParserInv, ParsedSoFar
<1>2. buffer \in Seq(Characters)
  <2>1. PICK b \in 0..taken : Spells(text, buffer, Remaining(text, b, taken, taken))
    BY DEF ParserInv, ParsedSoFar
  <2>2. b \in Nat
    BY <1>1, <2>1
  <2>3. Remaining(text, b, taken, taken) \subseteq 1..Len(text)
    BY <1>1, <2>2, RemainingWithin
  <2> QED BY <1>1, <2>1, <2>3, SpellsIs
<1>3. events \in Seq(Seq(Characters))
  BY <1>1, MessagesAre
<1>4. lines \in Seq(Seq(Characters))
  BY <1>1, MessagesAre
<1>5. ParserTypeOK
  <2>1. taken \in 0..Len(text)
    BY <1>1
  <2> QED BY <1>1, <1>2, <1>3, <1>4, <2>1 DEF ParserTypeOK
<1>6. PICK ends : ends = InOrder({i \in 1..taken : text[i] = End}, taken)
  OBVIOUS
<1>7. PICK breaks : breaks = InOrder({i \in 1..taken : text[i] = NewLine}, taken)
  OBVIOUS
<1>8. events = [i \in DOMAIN ends |-> AnnotationAt(text, ends[i])]
  <2>1. events = [i \in 1..Len(ends) |-> MessageAt(text, End, ends[i])] /\ DOMAIN ends = 1..Len(ends)
    <3>1. ends = InOrder(Marks(text, End, 0, taken), taken)
      BY <1>6 DEF Marks
    <3> QED BY <1>1, <3>1, TellsWhole
  <2> QED BY <2>1 DEF MessageAt
<1>9. lines = [i \in DOMAIN breaks |-> LineAt(text, breaks[i])]
  <2>1. lines = [i \in 1..Len(breaks) |-> MessageAt(text, NewLine, breaks[i])] /\ DOMAIN breaks = 1..Len(breaks)
    <3>1. breaks = InOrder(Marks(text, NewLine, 0, taken), taken)
      BY <1>7 DEF Marks
    <3> QED BY <1>1, <3>1, TellsWhole
  <2>2. NewLine # End
    BY DEF NewLine, End
  <2> QED BY <2>1, <2>2 DEF MessageAt
<1>10. ParsedAsWhole
  BY <1>6, <1>7, <1>8, <1>9 DEF ParsedAsWhole
<1> QED BY <1>5, <1>10

LEMMA InitParser == ASSUME NEW s \in Texts, ParserStarts(s) PROVE ParserInv
<1>1. s \in Seq(Characters) /\ Sendable(s)
  <2>1. PICK n \in Nat : s \in [1..n -> Characters]
    BY DEF Texts
  <2>2. s \in Seq(Characters)
    BY <2>1, SeqDef
  <2> QED BY <2>2 DEF Texts
<1> QED BY <1>1, StartsParsed DEF ParserStarts, ParserInv

LEMMA NextParser == ParserInv /\ [ParserNext]_parserVars => ParserInv'
<1> SUFFICES ASSUME ParserInv, [ParserNext]_parserVars PROVE ParserInv'
  OBVIOUS
<1>1. CASE NewStream
  <2>1. text \in Seq(Characters) /\ Sendable(text)
    BY DEF ParserInv, ParsedSoFar
  <2>2. ParsedSoFar(text, 0, <<>>, <<>>, <<>>)
    BY <2>1, StartsParsed
  <2> QED BY <1>1, <2>2 DEF NewStream, ParserInv
<1>2. ASSUME NEW n \in 1..MaxText, DataReceived(n) PROVE ParserInv'
  <2>1. n \in Nat
    BY ParserAssumption
  <2>2. PICK e : e = CoerceMessages("event", buffer \o SubSeq(text, taken + 1, taken + n))
    OBVIOUS
  <2>3. PICK d : d = CoerceMessages("data", e.rest)
    OBVIOUS
  <2>4. /\ taken + n <= Len(text) /\ taken' = taken + n /\ text' = text
        /\ events' = events \o e.messages /\ lines' = lines \o d.messages /\ buffer' = d.rest
    BY <1>2, <2>2, <2>3 DEF DataReceived
  <2>5. PICK v : v = buffer \o SubSeq(text, taken + 1, taken + n)
    OBVIOUS
  <2>6. ParsedSoFar(text, taken + n, d.rest, events \o e.messages, lines \o d.messages)
    <3>1. ParsedSoFar(text, taken, buffer, events, lines)
      BY DEF ParserInv
    <3>2. e = CoerceMessages("event", v)
      BY <2>2, <2>5
    <3> QED BY ONLY <2>1, <2>3, <2>4, <2>5, <3>1, <3>2, MoreParsed
  <2> QED BY <2>4, <2>6 DEF ParserInv
<1>3. CASE UNCHANGED parserVars
  BY <1>3 DEF ParserInv, parserVars
<1> QED BY <1>1, <1>2, <1>3 DEF ParserNext

(* The buffer of CboxParser has what is left of the line that is arriving,   *)
(* and all that ended was handed over.                                       *)
THEOREM ParserInvariant == ParserSpec => []ParserInv
<1>1. (\E s \in Texts : ParserStarts(s)) => ParserInv
  BY InitParser
<1> QED BY <1>1, NextParser, PTL DEF ParserSpec

(* CboxParser hands over the annotations and the lines of the text as a      *)
(* whole, however StreamConnection.data_received() is given it.              *)
THEOREM TextsAreParsed == ParserSpec => []ParsedAsWhole
<1> QED BY ParserInvIs, ParserInvariant, PTL

-----------------------------------------------------------------------------
(* The four transports beside each other are each what they are alone.       *)
LEMMA EachAlone == TransportsSpec => Spec /\ ParserSpec /\ YmodemSpec /\ DiscoverySpec
<1>1. TransportsInit => Init /\ (\E s \in Texts : ParserStarts(s)) /\ YmodemInit /\ DiscoveryInit
  BY DEF TransportsInit
<1>2. [TransportsNext]_transportVars
      => [Next]_vars /\ [ParserNext]_parserVars /\ [YmodemNext]_ymodemVars /\ [DiscoveryNext]_discoveryVars
  BY DEF TransportsNext, transportVars
<1> QED BY <1>1, <1>2, PTL DEF TransportsSpec, Spec, ParserSpec, YmodemSpec, DiscoverySpec

(* The variables of the transports (mqtt_connection.py, cbox_parser.py,      *)
(* ymodem.py and their connections) keep their types.                        *)
THEOREM TransportsTypes == TransportsSpec => []TransportsTypeOK
<1>1. DiscoveryInv => DiscoveryTypeOK
  BY DEF DiscoveryInv
<1> QED BY <1>1, EachAlone, ChunksTypes, ParserInvIs, ParserInvariant, UploadTypes, DiscoveryInvariant,
           PTL DEF TransportsTypeOK
=============================================================================
