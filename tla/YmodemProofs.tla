---------------------------- MODULE YmodemProofs ----------------------------
(***************************************************************************)
(* YmodemInv is an invariant of YmodemSpec, for any number of packets and  *)
(* prompts and any modulus of the indices above the number of prompts + 1. *)
(***************************************************************************)
EXTENDS Ymodem, FiniteSets, FiniteSetTheorems, SequenceTheorems, TLAPS

(* Two numbers with the same remainder that are closer than the modulus are  *)
(* the same: what matching by id rests on.                                   *)
LEMMA SameRemainder ==
    ASSUME NEW k \in Nat \ {0}, NEW a \in Nat, NEW b \in Nat,
           a % k = b % k, a <= b, b - a < k
    PROVE  a = b
<1> DEFINE x == a \div k
           y == b \div k
<1>1. /\ x \in Nat /\ y \in Nat /\ k * x \in Nat /\ k * y \in Nat
      /\ b - a = k * y - k * x
  OBVIOUS
<1> HIDE DEF x, y
<1>2. k * y = k * x + k * (y - x)
  BY <1>1
<1>3. CASE y > x
  BY <1>1, <1>2, <1>3, k * (y - x - 1) >= 0, k * (y - x) = k * (y - x - 1) + k
<1>4. CASE y <= x
  BY <1>1, <1>2, <1>4, k * (x - y) >= 0
<1> QED BY <1>1, <1>3, <1>4

(* How many elements of s are in T. *)
Count(s, T) == Cardinality({i \in DOMAIN s : s[i] \in T})

ReadsFirst(r) == {q \in Seq(Replies) \ {<<>>} : q[1] = r}

Underway == step \in {"connecting"} \cup Running
Transferring == step \in Transfer
Sending == step \in {"header", "data"}

(* Loops are left when they have used up their tries. *)
Loops ==
    /\ step = "connecting" => tries < ConnectAttempts
    /\ step = "handshake" => tries < HandshakeTries
    /\ step \in {"connecting", "handshake", "ready"} => acks = 0 /\ reads < ReadyReads /\ spare = 0
    /\ step = "activate" => acks \in {0, 1}
    /\ step \in {"connecting", "handshake", "ready", "activate", "header", "closing"} => packet = 0
    /\ step \in {"connecting", "handshake", "ready", "activate", "EOT"} => retry = "none"
    /\ step = "done" => retry # "delay"

(* Before F is taken there are no replies but handshakes; after the ready    *)
(* event that answers it there is nothing but prompts, and after these       *)
(* prompts and acknowledgements.                                             *)
Handshakes == {"controlbox", "updater"}
Only(S) ==
    /\ \A i \in DOMAIN inbound : inbound[i] \in S
    /\ \A j \in DOMAIN queue : \A i \in DOMAIN queue[j] : queue[j][i] \in S

Starting ==
    /\ step = "connecting" => outbound = <<>> /\ controller \in Handshakes
    /\ controller \in Handshakes /\ Underway => step \in {"connecting", "handshake", "ready"} /\ Only(Handshakes)
    /\ step \in {"connecting", "handshake"} => controller \in Handshakes \cup {"gone"}
    /\ step \in {"ready", "activate"} => controller \in Handshakes \cup {"header", "gone"}
    /\ step = "handshake" /\ controller # "gone" => \A i \in DOMAIN outbound : outbound[i] = Command("newline")
    /\ step \in {"connecting", "handshake"} => Only(Handshakes)
    /\ step = "ready" /\ controller \in Handshakes =>
          \A i \in DOMAIN outbound : outbound[i] = Command("newline") \/ (outbound[i] = Command("F") /\ i = Len(outbound))
    /\ step \in {"handshake", "ready"} => \A i \in DOMAIN outbound : outbound[i] # Command("blank")
    /\ step = "ready" /\ controller = "header" => outbound = <<>>
    /\ step = "activate" => Only({"ACK", "C"})
    /\ step = "activate" /\ controller # "gone" => \A i \in DOMAIN outbound : outbound[i] = Command("blank")
    /\ step \in Transfer /\ controller # "gone" => \A i \in DOMAIN outbound : outbound[i] # Command("F")

ReadyLast ==
    step = "ready" =>
        /\ \A i \in DOMAIN inbound : inbound[i] = "ready" => \A k \in DOMAIN inbound : k > i => inbound[k] = "C"
        /\ \A j \in DOMAIN queue :
              (\E i \in DOMAIN queue[j] : queue[j][i] = "ready") =>
                 /\ \A i \in DOMAIN inbound : inbound[i] = "C"
                 /\ \A k \in DOMAIN queue : k > j => \A i \in DOMAIN queue[k] : queue[k][i] = "C"

(* The blanks written more than counted are for prompts. *)
SpareForPrompts ==
    /\ spare <= prompts
    /\ step \in {"connecting", "handshake", "ready", "activate"} =>
          spare + Count(inbound, {"C"}) + Count(queue, ReadsFirst("C")) <= prompts

(* An acknowledgement is of a blank, or of a packet. *)
Acks == Count(outbound, {Command("blank")}) + Count(inbound, {"ACK"}) + Count(queue, ReadsFirst("ACK"))
Granted == spare + Len(stored) + (IF controller = "header" THEN 0 ELSE 1)

AcksEarned ==
    /\ step = "activate" => Acks <= 1 + spare
    /\ Sending => packet + Acks <= Granted
    /\ step \in {"EOT", "closing", "done"} => Packets <= Len(stored) + spare

NothingStored ==
    /\ Underway /\ controller \in Handshakes \cup {"header"} => stored = <<>>
    /\ Underway /\ step \notin Transfer => stored = <<>>
    /\ Sending => controller \in {"header", "data", "gone"} /\ Len(stored) <= packet

(* The packets under way. *)
EOTAt(i) == outbound[i] = Command("EOT")
BeforeEOT(i) == \A k \in DOMAIN outbound : k < i => ~EOTAt(k)
IsPacket(i) == outbound[i].kind = "packet"
NoEOT == \A i \in DOMAIN outbound : ~EOTAt(i)

Bounded ==
    controller \in {"header", "data"} => \A i \in DOMAIN outbound :
        IsPacket(i) /\ BeforeEOT(i) => outbound[i].content \in Len(stored)..(Len(stored) + 1 + spare)
Sorted ==
    \A i, j \in DOMAIN outbound :
        i < j /\ IsPacket(i) /\ IsPacket(j) /\ BeforeEOT(j) => outbound[i].content <= outbound[j].content
EOTLast ==
    /\ Sending => NoEOT
    /\ step = "EOT" => \A i \in DOMAIN outbound : EOTAt(i) => i = Len(outbound)
    /\ step = "EOT" /\ NoEOT => outbound = <<>>
    /\ \A i, j \in DOMAIN outbound : i < j /\ EOTAt(i) => outbound[j] = Packet(0)
AfterEOT ==
    /\ step \in {"EOT", "closing"} /\ NoEOT /\ controller \in {"header", "data"} => stored = <<>>
    /\ step = "closing" /\ NoEOT => \A i \in DOMAIN outbound : outbound[i] = Packet(0)
UpToPacket ==
    Sending => \A i \in DOMAIN outbound : IsPacket(i) => outbound[i].content <= packet

OutboundInOrder ==
    Transferring /\ controller # "gone" => Bounded /\ Sorted /\ EOTLast /\ AfterEOT /\ UpToPacket

YmodemInv ==
    /\ YmodemTypeOK /\ Loops
    /\ Starting /\ ReadyLast /\ SpareForPrompts
    /\ AcksEarned /\ NothingStored /\ OutboundInOrder
    /\ StoredInOrder

-----------------------------------------------------------------------------
(* Sequences, with what the actions do to them. *)
LEMMA Appended ==
    ASSUME NEW S, NEW s \in Seq(S), NEW x \in S
    PROVE  /\ Append(s, x) \in Seq(S) /\ Append(s, x) # <<>>
           /\ Len(s) \in Nat /\ DOMAIN s = 1..Len(s)
           /\ Len(Append(s, x)) = Len(s) + 1
           /\ DOMAIN Append(s, x) = 1..(Len(s) + 1)
           /\ \A i \in DOMAIN s : Append(s, x)[i] = s[i]
           /\ Append(s, x)[Len(s) + 1] = x
BY AppendProperties, LenProperties

LEMMA Taken ==
    ASSUME NEW S, NEW s \in Seq(S), s # <<>>
    PROVE  /\ Tail(s) \in Seq(S) /\ Head(s) \in S /\ Head(s) = s[1]
           /\ Len(s) \in Nat \ {0} /\ DOMAIN s = 1..Len(s)
           /\ Len(Tail(s)) = Len(s) - 1
           /\ DOMAIN Tail(s) = 1..(Len(s) - 1)
           /\ \A i \in DOMAIN Tail(s) : Tail(s)[i] = s[i + 1] /\ i + 1 \in DOMAIN s
<1>1. /\ Head(s) \in S /\ Tail(s) \in Seq(S) /\ Len(Tail(s)) = Len(s) - 1
      /\ \A i \in 1..Len(Tail(s)) : Tail(s)[i] = s[i + 1]
  BY HeadTailProperties
<1>2. Len(s) \in Nat \ {0} /\ DOMAIN s = 1..Len(s) /\ Head(s) = s[1]
  OBVIOUS
<1>3. DOMAIN Tail(s) = 1..(Len(s) - 1)
  BY <1>1, LenProperties
<1> QED BY <1>1, <1>2, <1>3

LEMMA CountSet ==
    ASSUME NEW S, NEW s \in Seq(S), NEW T
    PROVE  /\ IsFiniteSet({i \in DOMAIN s : s[i] \in T})
           /\ Count(s, T) \in Nat
<1>1. DOMAIN s = 1..Len(s) /\ Len(s) \in Nat
  BY LenProperties
<1>2. IsFiniteSet(1..Len(s))
  BY <1>1, FS_Interval
<1>3. IsFiniteSet({i \in DOMAIN s : s[i] \in T})
  BY <1>1, <1>2, FS_Subset
<1> QED BY <1>3, FS_CardinalityType DEF Count

LEMMA CountNone ==
    ASSUME NEW s, NEW T, \A i \in DOMAIN s : s[i] \notin T
    PROVE  Count(s, T) = 0
<1>1. {i \in DOMAIN s : s[i] \in T} = {}
  OBVIOUS
<1> QED BY <1>1, FS_EmptySet DEF Count

LEMMA CountEmpty == \A T : Count(<<>>, T) = 0
BY CountNone

LEMMA CountAppend ==
    ASSUME NEW S, NEW s \in Seq(S), NEW x \in S, NEW T
    PROVE  Count(Append(s, x), T) = Count(s, T) + (IF x \in T THEN 1 ELSE 0)
<1> DEFINE A == {i \in DOMAIN s : s[i] \in T}
           B == {i \in DOMAIN Append(s, x) : Append(s, x)[i] \in T}
           n == Len(s) + 1
<1>1. /\ DOMAIN s = 1..Len(s) /\ Len(s) \in Nat
      /\ DOMAIN Append(s, x) = 1..n /\ Append(s, x)[n] = x
      /\ \A i \in DOMAIN s : Append(s, x)[i] = s[i]
  BY Appended
<1>2. /\ IsFiniteSet(A) /\ Count(s, T) = Cardinality(A) /\ Cardinality(A) \in Nat
      /\ Count(Append(s, x), T) = Cardinality(B)
  BY CountSet DEF Count
<1>3. n \notin A
  BY <1>1
<1>4. CASE x \in T
  <2>1. B = A \cup {n}
    BY <1>1, <1>4
  <2>2. Cardinality(A \cup {n}) = Cardinality(A) + 1
    BY <1>2, <1>3, FS_AddElement
  <2> HIDE DEF A, B
  <2> QED BY <1>2, <1>4, <2>1, <2>2
<1>5. CASE x \notin T
  <2>1. B = A
    BY <1>1, <1>5
  <2> HIDE DEF A, B
  <2> QED BY <1>2, <1>5, <2>1
<1> QED BY <1>4, <1>5

LEMMA CountTail ==
    ASSUME NEW S, NEW s \in Seq(S), s # <<>>, NEW T
    PROVE  Count(s, T) = Count(Tail(s), T) + (IF Head(s) \in T THEN 1 ELSE 0)
<1> DEFINE A == {i \in DOMAIN s : s[i] \in T}
           B == {i \in DOMAIN Tail(s) : Tail(s)[i] \in T}
           C == A \ {1}
           f == [i \in B |-> i + 1]
<1>1. /\ DOMAIN s = 1..Len(s) /\ Len(s) \in Nat \ {0} /\ Head(s) = s[1] /\ Tail(s) \in Seq(S)
      /\ DOMAIN Tail(s) = 1..(Len(s) - 1)
      /\ \A i \in DOMAIN Tail(s) : Tail(s)[i] = s[i + 1]
  BY Taken
<1>2. /\ IsFiniteSet(A) /\ Count(s, T) = Cardinality(A) /\ Cardinality(A) \in Nat
      /\ IsFiniteSet(B) /\ Count(Tail(s), T) = Cardinality(B) /\ Cardinality(B) \in Nat
  BY <1>1, CountSet DEF Count
<1>3. Cardinality(C) = Cardinality(B)
  <2>1. f \in [B -> C]
    BY <1>1
  <2>2. \A i, j \in B : f[i] = f[j] => i = j
    BY <1>1
  <2>3. \A k \in C : \E i \in B : f[i] = k
    <3> SUFFICES ASSUME NEW k \in C PROVE \E i \in B : f[i] = k
      OBVIOUS
    <3>1. k - 1 \in 1..(Len(s) - 1) /\ k = (k - 1) + 1
      BY <1>1
    <3>2. k - 1 \in B
      BY <1>1, <3>1
    <3> QED BY <3>1, <3>2
  <2>4. f \in Bijection(B, C)
    BY <2>1, <2>2, <2>3 DEF Bijection, Injection, Surjection, IsInjective
  <2>5. ExistsBijection(B, C)
    BY <2>4 DEF ExistsBijection
  <2> HIDE DEF B, C
  <2> QED BY <1>2, <2>5, FS_Bijection
<1>4. CASE Head(s) \in T
  <2>1. 1 \in A
    BY <1>1, <1>4
  <2>2. Cardinality(C) = Cardinality(A) - 1
    BY <1>2, <2>1, FS_RemoveElement
  <2> HIDE DEF A, B, C
  <2> QED BY <1>2, <1>3, <1>4, <2>2
<1>5. CASE Head(s) \notin T
  <2>1. C = A
    BY <1>1, <1>5
  <2> HIDE DEF A, B, C
  <2> QED BY <1>2, <1>3, <1>5, <2>1
<1> QED BY <1>4, <1>5

(* What is before a place in a sequence, and what is after it. *)
LEMMA CutInTwo ==
    ASSUME NEW S, NEW s \in Seq(S), NEW n \in Nat, 1 <= n, n <= Len(s)
    PROVE  /\ SubSeq(s, 1, n) \in Seq(S) /\ Len(SubSeq(s, 1, n)) = n /\ DOMAIN SubSeq(s, 1, n) = 1..n
           /\ \A i \in 1..n : SubSeq(s, 1, n)[i] = s[i]
           /\ SubSeq(s, n + 1, Len(s)) \in Seq(S) /\ Len(SubSeq(s, n + 1, Len(s))) = Len(s) - n
           /\ DOMAIN SubSeq(s, n + 1, Len(s)) = 1..(Len(s) - n)
           /\ \A i \in 1..(Len(s) - n) : SubSeq(s, n + 1, Len(s))[i] = s[i + n]
<1>1. Len(s) \in Nat /\ DOMAIN s = 1..Len(s) /\ \A i \in DOMAIN s : s[i] \in S
  BY LenProperties
<1>2. ASSUME NEW m \in Nat, NEW k \in Nat, 1 <= m, m <= k + 1, k <= Len(s)
      PROVE  /\ SubSeq(s, m, k) \in Seq(S) /\ Len(SubSeq(s, m, k)) = k - m + 1
             /\ DOMAIN SubSeq(s, m, k) = 1..(k - m + 1)
             /\ \A i \in 1..(k - m + 1) : SubSeq(s, m, k)[i] = s[m + i - 1]
  <2>1. \A i \in m..k : s[i] \in S
    BY <1>1, <1>2
  <2>2. /\ SubSeq(s, m, k) \in Seq(S) /\ Len(SubSeq(s, m, k)) = (IF m <= k THEN k - m + 1 ELSE 0)
        /\ \A i \in 1..(k - m + 1) : SubSeq(s, m, k)[i] = s[m + i - 1]
    BY <2>1, SubSeqProperties
  <2>3. Len(SubSeq(s, m, k)) = k - m + 1
    BY <1>2, <2>2
  <2> QED BY <2>2, <2>3, LenProperties
<1>3. /\ SubSeq(s, 1, n) \in Seq(S) /\ Len(SubSeq(s, 1, n)) = n - 1 + 1
      /\ DOMAIN SubSeq(s, 1, n) = 1..(n - 1 + 1)
      /\ \A i \in 1..(n - 1 + 1) : SubSeq(s, 1, n)[i] = s[1 + i - 1]
  BY <1>1, <1>2
<1>4. n - 1 + 1 = n /\ \A i \in 1..n : 1 + i - 1 = i
  OBVIOUS
<1>5. /\ SubSeq(s, n + 1, Len(s)) \in Seq(S) /\ Len(SubSeq(s, n + 1, Len(s))) = Len(s) - (n + 1) + 1
      /\ DOMAIN SubSeq(s, n + 1, Len(s)) = 1..(Len(s) - (n + 1) + 1)
      /\ \A i \in 1..(Len(s) - (n + 1) + 1) : SubSeq(s, n + 1, Len(s))[i] = s[n + 1 + i - 1]
  <2>1. n + 1 \in Nat /\ 1 <= n + 1 /\ n + 1 <= Len(s) + 1 /\ Len(s) <= Len(s)
    BY <1>1
  <2> QED BY ONLY <1>1, <1>2, <2>1
<1>6. Len(s) - (n + 1) + 1 = Len(s) - n /\ \A i \in 1..(Len(s) - n) : n + 1 + i - 1 = i + n
  BY <1>1
<1> QED BY <1>3, <1>4, <1>5, <1>6

LEMMA Rest ==
    ASSUME NEW S, NEW s \in Seq(S), NEW n \in Nat, 1 <= n, n <= Len(s), NEW r, r = SubSeq(s, n + 1, Len(s))
    PROVE  /\ r \in Seq(S) /\ Len(r) = Len(s) - n /\ DOMAIN r = 1..(Len(s) - n)
           /\ \A i \in 1..(Len(s) - n) : r[i] = s[i + n]
BY CutInTwo

LEMMA NotEmpty ==
    ASSUME NEW S, NEW s \in Seq(S), Len(s) # 0
    PROVE  s # <<>>
OBVIOUS

LEMMA CountRest ==
    ASSUME NEW S, NEW s \in Seq(S), NEW n \in 1..2, n <= Len(s),
           NEW r \in Seq(S), Len(r) = Len(s) - n, \A i \in 1..Len(r) : r[i] = s[i + n],
           NEW T
    PROVE  Count(r, T) + (IF s[1] \in T THEN 1 ELSE 0) <= Count(s, T)
<1>1. s # <<>> /\ Head(s) = s[1] /\ Len(s) \in Nat /\ Tail(s) \in Seq(S) /\ Len(Tail(s)) = Len(s) - 1
      /\ \A i \in 1..(Len(s) - 1) : Tail(s)[i] = s[i + 1]
  <2>1. s # <<>>
    BY EmptySeq
  <2> QED BY <2>1, Taken
<1>2. Count(s, T) = Count(Tail(s), T) + (IF s[1] \in T THEN 1 ELSE 0)
  BY <1>1, CountTail
<1>3. Count(r, T) \in Nat /\ Count(Tail(s), T) \in Nat
  BY <1>1, CountSet
<1>4. CASE n = 1
  <2>1. r = Tail(s)
    BY <1>1, <1>4, SeqEqual
  <2> QED BY <1>2, <1>3, <2>1
<1>5. CASE n = 2
  <2>1. Tail(s) # <<>>
    <3>1. Tail(s) \in Seq(S) /\ Len(Tail(s)) # 0
      BY <1>1, <1>5
    <3> QED BY <3>1, NotEmpty
  <2>2. /\ Tail(Tail(s)) \in Seq(S) /\ Len(Tail(Tail(s))) = Len(s) - 2
        /\ \A i \in 1..(Len(s) - 2) : Tail(Tail(s))[i] = s[i + 2]
    <3>1. /\ Tail(Tail(s)) \in Seq(S) /\ Len(Tail(Tail(s))) = Len(Tail(s)) - 1
          /\ \A i \in DOMAIN Tail(Tail(s)) : Tail(Tail(s))[i] = Tail(s)[i + 1]
          /\ DOMAIN Tail(Tail(s)) = 1..(Len(Tail(s)) - 1)
      BY <1>1, <2>1, Taken
    <3>2. \A i \in 1..(Len(s) - 2) : Tail(Tail(s))[i] = s[i + 2]
      <4> SUFFICES ASSUME NEW i \in 1..(Len(s) - 2) PROVE Tail(Tail(s))[i] = s[i + 2]
        OBVIOUS
      <4>1. i + 1 \in 1..(Len(s) - 1) /\ (i + 1) + 1 = i + 2
        BY <1>1
      <4>2. Tail(Tail(s))[i] = Tail(s)[i + 1] /\ Tail(s)[i + 1] = s[(i + 1) + 1]
        BY <1>1, <3>1, <4>1
      <4> QED BY <4>1, <4>2
    <3> QED BY <1>1, <3>1, <3>2
  <2>3. r = Tail(Tail(s))
    BY <1>1, <1>5, <2>2, SeqEqual
  <2>4. Count(Tail(s), T) = Count(r, T) + (IF Head(Tail(s)) \in T THEN 1 ELSE 0)
    BY <1>1, <2>1, <2>3, CountTail
  <2> QED BY <1>2, <1>3, <2>4
<1> QED BY <1>4, <1>5

-----------------------------------------------------------------------------
(* What is written, and what the counts are of. *)
Messages == {Command(c) : c \in {"newline", "F", "blank", "EOT"}} \cup {Packet(n) : n \in 0..Packets}
Reads1 == Seq(Replies) \ {<<>>}

LEMMA MessageFacts ==
    /\ \A c : Command(c).kind = c
    /\ \A n : Packet(n).kind = "packet" /\ Packet(n).index = n % IndexModulus /\ Packet(n).content = n
    /\ \A m \in Messages : m.kind = "packet" => m = Packet(m.content) /\ m.content \in 0..Packets
    /\ \A m \in Messages : m = Command("EOT") \/ m = Command("blank") => m.kind # "packet"
    /\ Command("EOT") # Command("blank") /\ Command("EOT") # Command("newline") /\ Command("EOT") # Command("F")
    /\ Command("blank") # Command("newline") /\ Command("blank") # Command("F") /\ Command("newline") # Command("F")
    /\ {Command(c) : c \in {"newline", "F", "blank", "EOT"}} \subseteq Messages
    /\ \A n \in 0..Packets : Packet(n) \in Messages /\ Packet(n) # Command("EOT") /\ Packet(n) # Command("blank")
BY DEF Messages, Command, Packet

LEMMA TypeFacts ==
    ASSUME YmodemTypeOK
    PROVE  /\ outbound \in Seq(Messages) /\ inbound \in Seq(Replies) /\ queue \in Seq(Reads1) /\ stored \in Seq(1..Packets)
           /\ Len(stored) \in Nat /\ DOMAIN stored = 1..Len(stored)
           /\ \A x : Count(outbound, {x}) \in Nat /\ Count(inbound, {x}) \in Nat
           /\ \A x : Count(queue, ReadsFirst(x)) \in Nat
<1>1. /\ outbound \in Seq(Messages) /\ inbound \in Seq(Replies) /\ queue \in Seq(Reads1) /\ stored \in Seq(1..Packets)
  BY DEF YmodemTypeOK, Messages, Reads1
<1>2. Len(stored) \in Nat /\ DOMAIN stored = 1..Len(stored)
  BY <1>1
<1> QED BY <1>1, <1>2, CountSet

LEMMA Numbers ==
    ASSUME YmodemTypeOK
    PROVE  /\ Acks \in Nat /\ Granted \in Nat /\ packet \in Nat /\ spare \in Nat
           /\ Granted <= Len(stored) + 1 + spare
           /\ Count(outbound, {Command("blank")}) + Count(inbound, {"ACK"}) <= Acks
<1>1. /\ Len(stored) \in Nat
      /\ Count(outbound, {Command("blank")}) \in Nat /\ Count(inbound, {"ACK"}) \in Nat
      /\ Count(queue, ReadsFirst("ACK")) \in Nat
  BY TypeFacts
<1>2. packet \in Nat /\ spare \in Nat
  BY DEF YmodemTypeOK
<1>3. Granted \in Nat /\ Granted <= Len(stored) + 1 + spare
  BY <1>1, <1>2 DEF Granted
<1> QED BY <1>1, <1>2, <1>3 DEF Acks

LEMMA Fewer ==
    ASSUME NEW p \in Nat, NEW a \in Nat, NEW b \in Nat, NEW g \in Nat, b <= a, p + a <= g
    PROVE  p + b <= g
OBVIOUS

LEMMA Looser ==
    ASSUME NEW p \in Nat, NEW b \in Nat, NEW g \in Nat, NEW h \in Nat, p + b <= g, g <= h
    PROVE  p + b <= h
OBVIOUS

LEMMA Assumed ==
    /\ Packets \in Nat /\ MaxPrompts \in Nat /\ MaxRefusals \in Nat /\ MaxMerged \in Nat
    /\ ConnectAttempts \in Nat \ {0} /\ HandshakeTries \in Nat \ {0} /\ ReadyReads \in Nat \ {0}
    /\ IndexModulus \in Nat /\ IndexModulus > MaxPrompts + 1
BY YmodemAssumption DEF YmodemAssumption

LEMMA InitInv == YmodemInit => YmodemInv
<1> SUFFICES ASSUME YmodemInit PROVE YmodemInv
  OBVIOUS
<1> USE Assumed DEF YmodemInit
<1>1. YmodemTypeOK
  <2>1. <<>> \in Seq(Messages) /\ <<>> \in Seq(Replies) /\ <<>> \in Seq(Reads1) /\ <<>> \in Seq(1..Packets)
    OBVIOUS
  <2> QED BY <2>1 DEF YmodemTypeOK, Messages, Reads1
<1>2. Loops /\ Starting /\ ReadyLast /\ NothingStored /\ OutboundInOrder /\ StoredInOrder
  BY DEF Loops, Starting, ReadyLast, NothingStored, OutboundInOrder, StoredInOrder, Only, Handshakes,
         Sending, Transferring, Transfer
<1>3. SpareForPrompts /\ AcksEarned
  BY CountEmpty DEF SpareForPrompts, AcksEarned, Sending
<1> QED BY <1>1, <1>2, <1>3 DEF YmodemInv

-----------------------------------------------------------------------------
(* The actions, one by one. *)
LEMMA ConnectionRefusedInv ==
    ASSUME YmodemInv, ConnectionRefused
    PROVE  YmodemInv'
<1> USE Assumed DEF YmodemInv, ConnectionRefused, faultVars
<1>1. YmodemTypeOK'
  BY DEF YmodemTypeOK, Loops, Running, Transfer
<1>2. Loops' /\ Starting' /\ ReadyLast' /\ NothingStored' /\ OutboundInOrder' /\ StoredInOrder'
  BY DEF YmodemTypeOK, Loops, Starting, ReadyLast, NothingStored, OutboundInOrder, StoredInOrder, Only,
         Underway, Running, Sending, Transferring, Transfer
<1>3. SpareForPrompts' /\ AcksEarned'
  BY DEF SpareForPrompts, AcksEarned, Sending
<1> QED BY <1>1, <1>2, <1>3

LEMMA ConnectionMadeInv ==
    ASSUME YmodemInv, ConnectionMade
    PROVE  YmodemInv'
<1> USE Assumed DEF YmodemInv, ConnectionMade, faultVars, Write
<1>1. /\ outbound = <<>> /\ outbound' = <<Command("newline")>>
      /\ DOMAIN outbound' = {1} /\ outbound'[1] = Command("newline") /\ outbound'[1] # Command("blank")
      /\ outbound' \in Seq(Messages)
  BY MessageFacts DEF Starting
<1>2. YmodemTypeOK'
  BY <1>1 DEF YmodemTypeOK, Loops, Running, Transfer, Messages
<1>3. Loops' /\ Starting' /\ ReadyLast' /\ NothingStored' /\ OutboundInOrder' /\ StoredInOrder'
  BY <1>1 DEF YmodemTypeOK, Loops, Starting, ReadyLast, NothingStored, OutboundInOrder, StoredInOrder, Only,
         Underway, Running, Sending, Transferring, Transfer, Handshakes
<1>4. SpareForPrompts' /\ AcksEarned'
  BY DEF SpareForPrompts, AcksEarned, Sending
<1> QED BY <1>2, <1>3, <1>4


(* A message is written, and taken. *)
LEMMA Written ==
    ASSUME YmodemTypeOK, NEW m \in Messages, outbound' = Append(outbound, m)
    PROVE  /\ outbound' \in Seq(Messages) /\ outbound' # <<>>
           /\ Len(outbound) \in Nat /\ DOMAIN outbound = 1..Len(outbound)
           /\ Len(outbound') = Len(outbound) + 1
           /\ DOMAIN outbound' = 1..(Len(outbound) + 1)
           /\ \A i \in DOMAIN outbound : outbound'[i] = outbound[i]
           /\ outbound'[Len(outbound) + 1] = m
           /\ \A T : Count(outbound', T) = Count(outbound, T) + (IF m \in T THEN 1 ELSE 0)
BY TypeFacts, Appended, CountAppend

LEMMA ReadTaken ==
    ASSUME YmodemTypeOK, queue # <<>>, queue' = Tail(queue)
    PROVE  /\ queue' \in Seq(Reads1) /\ Head(queue) \in Reads1 /\ Head(queue) = queue[1]
           /\ 1 \in DOMAIN queue
           /\ \A i \in DOMAIN queue' : queue'[i] = queue[i + 1] /\ i + 1 \in DOMAIN queue /\ i + 1 > 1
           /\ \A i, j \in DOMAIN queue' : i > j => i + 1 > j + 1
           /\ \A x : /\ Count(queue, ReadsFirst(x)) \in Nat /\ Count(queue', ReadsFirst(x)) \in Nat
                     /\ Count(queue, ReadsFirst(x)) = Count(queue', ReadsFirst(x)) + (IF Head(queue)[1] = x THEN 1 ELSE 0)
                     /\ Count(queue', ReadsFirst(x)) <= Count(queue, ReadsFirst(x))
<1>1. /\ queue' \in Seq(Reads1) /\ Head(queue) \in Reads1 /\ Head(queue) = queue[1]
      /\ Len(queue) \in Nat \ {0} /\ DOMAIN queue = 1..Len(queue) /\ DOMAIN queue' = 1..(Len(queue) - 1)
      /\ \A i \in DOMAIN queue' : queue'[i] = queue[i + 1] /\ i + 1 \in DOMAIN queue
  BY TypeFacts, Taken
<1>2. \A T : Count(queue, T) = Count(queue', T) + (IF Head(queue) \in T THEN 1 ELSE 0)
  BY TypeFacts, CountTail
<1>4. ASSUME NEW x
      PROVE  /\ Count(queue, ReadsFirst(x)) \in Nat /\ Count(queue', ReadsFirst(x)) \in Nat
             /\ Count(queue, ReadsFirst(x)) = Count(queue', ReadsFirst(x)) + (IF Head(queue)[1] = x THEN 1 ELSE 0)
             /\ Count(queue', ReadsFirst(x)) <= Count(queue, ReadsFirst(x))
  <2>1. Head(queue) \in ReadsFirst(x) <=> Head(queue)[1] = x
    BY <1>1 DEF ReadsFirst, Reads1
  <2>2. Count(queue, ReadsFirst(x)) \in Nat /\ Count(queue', ReadsFirst(x)) \in Nat
    BY <1>1, TypeFacts, CountSet
  <2>3. Count(queue, ReadsFirst(x)) = Count(queue', ReadsFirst(x)) + (IF Head(queue) \in ReadsFirst(x) THEN 1 ELSE 0)
    BY <1>2
  <2> QED BY <2>1, <2>2, <2>3
<1>3. /\ 1 \in DOMAIN queue /\ \A i \in DOMAIN queue' : i + 1 > 1
      /\ \A i, j \in DOMAIN queue' : i > j => i + 1 > j + 1
  BY <1>1
<1> QED BY <1>1, <1>3, <1>4

NoF == \A i \in DOMAIN outbound : outbound[i] # Command("F")

LEMMA NoFWritten ==
    ASSUME YmodemTypeOK, NoF, NEW m \in Messages, outbound' = Append(outbound, m), m.kind # "F"
    PROVE  NoF'
BY Written, MessageFacts DEF NoF

LEMMA HandshakeTimeoutInv ==
    ASSUME YmodemInv, HandshakeTimeout
    PROVE  YmodemInv'
<1> USE Assumed DEF YmodemInv, HandshakeTimeout, NextTry, faultVars, Write
<1>1. /\ outbound' \in Seq(Messages) /\ DOMAIN outbound = 1..Len(outbound) /\ Len(outbound) \in Nat
      /\ DOMAIN outbound' = 1..(Len(outbound) + 1)
      /\ \A i \in DOMAIN outbound : outbound'[i] = outbound[i]
      /\ outbound'[Len(outbound) + 1] = Command("newline")
  BY MessageFacts, Written
<1>2. YmodemTypeOK'
  BY <1>1 DEF YmodemTypeOK, Loops, Running, Transfer, Messages
<1>3. Loops' /\ ReadyLast' /\ NothingStored' /\ OutboundInOrder' /\ StoredInOrder'
  BY <1>1 DEF YmodemTypeOK, Loops, ReadyLast, NothingStored, OutboundInOrder, StoredInOrder,
         Underway, Running, Sending, Transferring, Transfer
<1>4. Starting'
  BY <1>1, MessageFacts DEF Starting, Only, Underway, Running, Transfer, Handshakes
<1>5. SpareForPrompts' /\ AcksEarned'
  BY DEF SpareForPrompts, AcksEarned, Sending
<1> QED BY <1>2, <1>3, <1>4, <1>5

LEMMA HandshakeReadInv ==
    ASSUME YmodemInv, HandshakeRead
    PROVE  YmodemInv'
<1> USE Assumed DEF YmodemInv, HandshakeRead, faultVars, Reads
<1>1. /\ queue' \in Seq(Reads1)
      /\ \A i \in DOMAIN queue' : queue'[i] = queue[i + 1] /\ i + 1 \in DOMAIN queue
      /\ Count(queue, ReadsFirst("C")) \in Nat /\ Count(queue', ReadsFirst("C")) \in Nat
      /\ Count(queue', ReadsFirst("C")) <= Count(queue, ReadsFirst("C"))
      /\ Count(inbound, {"C"}) \in Nat
  BY ReadTaken, TypeFacts
<1>2. SpareForPrompts'
  BY <1>1 DEF SpareForPrompts, Fails, Write, YmodemTypeOK
<1>3. CASE ReadHas("controlbox") /\ Fails
  <2> USE <1>3 DEF Fails
  <2>1. YmodemTypeOK'
    BY <1>1 DEF YmodemTypeOK, Running, Transfer, Reads1
  <2>2. Loops' /\ ReadyLast' /\ NothingStored' /\ OutboundInOrder' /\ StoredInOrder'
    BY DEF Loops, ReadyLast, NothingStored, OutboundInOrder, StoredInOrder,
         Underway, Running, Sending, Transferring, Transfer
  <2>3. Starting' /\ AcksEarned'
    BY DEF Starting, AcksEarned, Underway, Running, Transfer, Sending
  <2> QED BY <1>2, <2>1, <2>2, <2>3
<1>4. CASE ~ReadHas("controlbox") /\ step' = "ready" /\ Write(Command("F"))
  <2> USE <1>4 DEF Write
  <2>1. /\ outbound' \in Seq(Messages) /\ DOMAIN outbound = 1..Len(outbound) /\ Len(outbound) \in Nat
        /\ DOMAIN outbound' = 1..(Len(outbound) + 1) /\ Len(outbound') = Len(outbound) + 1
        /\ \A i \in DOMAIN outbound : outbound'[i] = outbound[i]
        /\ outbound'[Len(outbound) + 1] = Command("F")
    BY MessageFacts, Written
  <2>2. YmodemTypeOK'
    BY <1>1, <2>1 DEF YmodemTypeOK, Running, Transfer, Reads1, Messages
  <2>3. Loops' /\ NothingStored' /\ OutboundInOrder' /\ StoredInOrder'
    BY DEF YmodemTypeOK, Loops, NothingStored, OutboundInOrder, StoredInOrder,
         Underway, Running, Sending, Transferring, Transfer
  <2>4. Only(Handshakes)'
    BY <1>1 DEF Starting, Only, Handshakes
  <2>5. ReadyLast'
    BY <2>4 DEF ReadyLast, Only, Handshakes
  <2>6. Starting' /\ AcksEarned'
    BY <2>1, <2>4, MessageFacts DEF Starting, AcksEarned, Underway, Running, Transfer, Sending, Handshakes
  <2> QED BY <1>2, <2>2, <2>3, <2>5, <2>6
<1> QED BY <1>3, <1>4


LEMMA ReadyReadInv ==
    ASSUME YmodemInv, ReadyRead
    PROVE  YmodemInv'
<1> USE Assumed DEF YmodemInv, ReadyRead, faultVars, Reads
<1>1. /\ queue' \in Seq(Reads1) /\ 1 \in DOMAIN queue /\ Head(queue) = queue[1]
      /\ \A i \in DOMAIN queue' : queue'[i] = queue[i + 1] /\ i + 1 \in DOMAIN queue /\ i + 1 > 1
      /\ \A i, j \in DOMAIN queue' : i > j => i + 1 > j + 1
      /\ Count(queue, ReadsFirst("C")) \in Nat /\ Count(queue', ReadsFirst("C")) \in Nat
      /\ Count(queue', ReadsFirst("C")) <= Count(queue, ReadsFirst("C"))
      /\ Count(inbound, {"C"}) \in Nat
  BY ReadTaken, TypeFacts
<1>2. SpareForPrompts' /\ StoredInOrder'
  BY <1>1 DEF SpareForPrompts, StoredInOrder, YmodemTypeOK
<1>3. CASE ReadHas("ready") /\ step' = "activate" /\ Write(Command("blank"))
  <2> USE <1>3 DEF Write
  <2>1. /\ outbound' \in Seq(Messages) /\ DOMAIN outbound = 1..Len(outbound) /\ Len(outbound) \in Nat
        /\ DOMAIN outbound' = 1..(Len(outbound) + 1) /\ Len(outbound') = Len(outbound) + 1
        /\ \A i \in DOMAIN outbound : outbound'[i] = outbound[i]
        /\ outbound'[Len(outbound) + 1] = Command("blank")
        /\ Count(outbound', {Command("blank")}) = Count(outbound, {Command("blank")}) + 1
    <3>1. Command("blank") \in Messages /\ Command("blank") \in {Command("blank")}
      BY MessageFacts
    <3> QED BY <3>1, Written
  <2>2. /\ \A i \in DOMAIN inbound : inbound[i] = "C"
        /\ \A k \in DOMAIN queue' : \A i \in DOMAIN queue'[k] : queue'[k][i] = "C"
    <3>1. /\ \E i \in DOMAIN queue[1] : queue[1][i] = "ready"
      BY <1>1 DEF ReadHas
    <3>2. /\ \A i \in DOMAIN inbound : inbound[i] = "C"
          /\ \A k \in DOMAIN queue : k > 1 => \A i \in DOMAIN queue[k] : queue[k][i] = "C"
      BY <1>1, <3>1 DEF ReadyLast
    <3> QED BY <1>1, <3>2
  <2>3. /\ Count(outbound, {Command("blank")}) = 0 /\ Count(inbound', {"ACK"}) = 0
        /\ Count(queue', ReadsFirst("ACK")) = 0
    <3>1. \A i \in DOMAIN outbound : outbound[i] \notin {Command("blank")}
      BY DEF Starting
    <3>2. \A i \in DOMAIN inbound' : inbound'[i] \notin {"ACK"}
      BY <2>2
    <3>3. ASSUME NEW k \in DOMAIN queue' PROVE queue'[k] \notin ReadsFirst("ACK")
      <4>1. queue'[k] \in Reads1
        BY <1>1, LenProperties
      <4>2. 1 \in DOMAIN queue'[k]
        BY <4>1 DEF Reads1
      <4> QED BY <2>2, <4>2 DEF ReadsFirst
    <3> QED BY <3>1, <3>2, <3>3, CountNone
  <2>4. AcksEarned'
    <3>1. Acks' = 1
      BY <2>1, <2>3 DEF Acks
    <3> QED BY <3>1 DEF AcksEarned, Sending, YmodemTypeOK
  <2>5. controller \in {"header", "gone"}
    <3>1. controller \notin Handshakes
      BY <1>1 DEF ReadHas, Starting, Only, Underway, Running, Handshakes
    <3> QED BY <3>1 DEF Starting
  <2>6. Starting'
    BY <2>1, <2>2, <2>5 DEF Starting, Only, Underway, Running, Transfer, Handshakes
  <2>7. YmodemTypeOK'
    BY <1>1, <2>1 DEF YmodemTypeOK, Loops, Running, Transfer, Reads1, Messages
  <2>8. Loops' /\ ReadyLast' /\ NothingStored' /\ OutboundInOrder'
    BY DEF Loops, ReadyLast, NothingStored, OutboundInOrder, Underway, Running, Sending, Transferring, Transfer
  <2> QED BY <1>2, <2>4, <2>6, <2>7, <2>8
<1>4. CASE ~ReadHas("ready") /\ reads' < ReadyReads /\ UNCHANGED <<step, outbound>>
  <2> USE <1>4
  <2>1. YmodemTypeOK'
    BY <1>1 DEF YmodemTypeOK, Loops, Reads1
  <2>2. Starting'
    BY <1>1 DEF Starting, Only, Underway, Handshakes
  <2>3. ReadyLast'
    BY <1>1 DEF ReadyLast
  <2>4. Loops' /\ NothingStored' /\ OutboundInOrder' /\ AcksEarned'
    BY DEF Loops, NothingStored, OutboundInOrder, AcksEarned, Underway, Running, Sending, Transferring, Transfer
  <2> QED BY <1>2, <2>1, <2>2, <2>3, <2>4
<1>5. CASE ~ReadHas("ready") /\ reads' = ReadyReads /\ Fails
  <2> USE <1>5 DEF Fails
  <2>1. YmodemTypeOK'
    BY <1>1 DEF YmodemTypeOK, Loops, Reads1
  <2>2. Starting' /\ ReadyLast' /\ Loops' /\ NothingStored' /\ OutboundInOrder' /\ AcksEarned'
    BY DEF Starting, ReadyLast, Loops, NothingStored, OutboundInOrder, AcksEarned, Underway, Running, Sending,
           Transferring, Transfer
  <2> QED BY <1>2, <2>1, <2>2
<1> QED BY <1>3, <1>4, <1>5


LEMMA ActivateReadInv ==
    ASSUME YmodemInv, ActivateRead
    PROVE  YmodemInv'
<1> USE Assumed DEF YmodemInv, ActivateRead, faultVars, Reads
<1>1. /\ Head(queue) = queue[1] /\ 1 \in DOMAIN queue /\ Head(queue) \in Reads1
      /\ Count(queue, ReadsFirst("C")) \in Nat /\ Count(queue, ReadsFirst("ACK")) \in Nat
      /\ Count(inbound, {"C"}) \in Nat /\ Count(inbound, {"ACK"}) \in Nat
      /\ Count(outbound, {Command("blank")}) \in Nat
  <2>1. Head(queue) = queue[1] /\ 1 \in DOMAIN queue /\ Head(queue) \in Reads1
    BY TypeFacts, Taken
  <2> QED BY <2>1, TypeFacts
<1>2. First \in {"ACK", "C"}
  <2>1. 1 \in DOMAIN Head(queue)
    BY <1>1 DEF Reads1
  <2> QED BY <1>1, <2>1 DEF Starting, Only, First
<1>3. /\ DOMAIN outbound = 1..Len(outbound) /\ Len(outbound) \in Nat
      /\ DOMAIN outbound' = 1..(Len(outbound) + 1) /\ Len(outbound') = Len(outbound) + 1
      /\ \A i \in DOMAIN outbound : outbound'[i] = outbound[i]
      /\ outbound' \in Seq(Messages)
  BY MessageFacts, Written DEF SendPacket, Write
<1>4. stored = <<>> /\ Len(stored) = 0
  BY DEF NothingStored, Underway, Running, Transfer
<1>5. StoredInOrder'
  BY DEF StoredInOrder
<1>6. CASE /\ First = "ACK" /\ acks = 1
           /\ acks' = 2
           /\ SendPacket("header", 0, Packet(0))
           /\ UNCHANGED spare
  <2> USE <1>6 DEF SendPacket, Write
  <2>1. /\ outbound'[Len(outbound) + 1] = Packet(0) /\ Packet(0) \notin {Command("blank")}
        /\ Count(outbound', {Command("blank")}) = Count(outbound, {Command("blank")})
    <3>1. Packet(0) \in Messages /\ Packet(0) \notin {Command("blank")}
      BY MessageFacts
    <3> QED BY <1>1, <3>1, Written
  <2>2. Count(queue, ReadsFirst("ACK")) >= 1 /\ Count(queue', ReadsFirst("ACK")) = 0
    <3>1. /\ Count(queue, ReadsFirst("ACK")) = Count(Tail(queue), ReadsFirst("ACK")) + (IF Head(queue) \in ReadsFirst("ACK") THEN 1 ELSE 0)
          /\ Tail(queue) \in Seq(Reads1)
      BY TypeFacts, CountTail, Taken
    <3>2. Head(queue) \in ReadsFirst("ACK")
      BY <1>1 DEF First, ReadsFirst, Reads1
    <3>3. Count(Tail(queue), ReadsFirst("ACK")) \in Nat
      BY <3>1, CountSet
    <3> QED BY <3>1, <3>2, <3>3, CountEmpty
  <2>3. YmodemTypeOK'
    BY <1>3 DEF YmodemTypeOK, Running, Transfer, Messages
  <2>4. Loops' /\ ReadyLast' /\ NothingStored'
    BY <1>4 DEF Loops, Starting, ReadyLast, NothingStored, Underway, Running, Transfer, Sending, Handshakes
  <2>8. Starting'
    <3>1. controller # "gone" => \A i \in DOMAIN outbound' : outbound'[i] # Command("F")
      BY <1>3, <2>1, MessageFacts DEF Starting, Command, Packet
    <3>2. controller \notin Handshakes
      BY DEF Starting, Underway, Running
    <3> QED BY <3>1, <3>2 DEF Starting, Transfer, Handshakes
  <2>5. SpareForPrompts'
    BY <1>1 DEF SpareForPrompts, YmodemTypeOK
  <2>6. AcksEarned'
    BY <1>1, <1>4, <2>1, <2>2 DEF AcksEarned, Acks, Granted, Sending, YmodemTypeOK
  <2>7. OutboundInOrder'
    <3> SUFFICES ASSUME controller # "gone"
                 PROVE  (Bounded /\ Sorted /\ EOTLast /\ AfterEOT /\ UpToPacket)'
      BY DEF OutboundInOrder
    <3>1. \A i \in DOMAIN outbound' : outbound'[i] = Command("blank") \/ (outbound'[i] = Packet(0) /\ i = Len(outbound) + 1)
      BY <1>3, <2>1 DEF Starting
    <3>2. \A i \in DOMAIN outbound' : outbound'[i] # Command("EOT") /\ (outbound'[i].kind = "packet" => outbound'[i].content = 0)
      BY <3>1, MessageFacts
    <3>3. Bounded'
      <4>1. spare \in Nat /\ stored' = stored /\ spare' = spare
        BY DEF YmodemTypeOK
      <4>2. 0 \in Len(stored')..(Len(stored') + 1 + spare')
        BY <1>4, <4>1
      <4> QED BY <3>2, <4>2 DEF Bounded, IsPacket
    <3>4. Sorted' /\ UpToPacket'
      BY <3>2 DEF Sorted, UpToPacket, IsPacket
    <3>5. EOTLast' /\ AfterEOT'
      BY <3>2 DEF EOTLast, AfterEOT, EOTAt, NoEOT, Sending
    <3> QED BY <3>3, <3>4, <3>5
  <2> QED BY <1>5, <2>3, <2>4, <2>5, <2>6, <2>7, <2>8
<1>7. ASSUME Write(Command("blank")), queue' = Tail(queue), UNCHANGED <<step, packet>>,
             \/ First = "ACK" /\ acks = 0 /\ acks' = 1 /\ spare' = spare
             \/ First # "ACK" /\ spare' = spare + 1 /\ acks' = acks
      PROVE  YmodemInv'
  <2> USE <1>7 DEF Write
  <2>1. /\ outbound'[Len(outbound) + 1] = Command("blank")
        /\ Count(outbound', {Command("blank")}) = Count(outbound, {Command("blank")}) + 1
    <3>1. Command("blank") \in Messages /\ Command("blank") \in {Command("blank")}
      BY MessageFacts
    <3> QED BY <3>1, Written
  <2>2. /\ queue' \in Seq(Reads1)
        /\ \A i \in DOMAIN queue' : queue'[i] = queue[i + 1] /\ i + 1 \in DOMAIN queue
        /\ Count(queue', ReadsFirst("C")) \in Nat /\ Count(queue', ReadsFirst("ACK")) \in Nat
        /\ Count(queue, ReadsFirst("C")) = Count(queue', ReadsFirst("C")) + (IF First = "C" THEN 1 ELSE 0)
        /\ Count(queue, ReadsFirst("ACK")) = Count(queue', ReadsFirst("ACK")) + (IF First = "ACK" THEN 1 ELSE 0)
    BY ReadTaken DEF First
  <2>3. spare \in Nat /\ prompts \in 0..MaxPrompts
    BY DEF YmodemTypeOK
  <2>4. SpareForPrompts'
    BY SMTT(30), <1>1, <1>2, <2>2, <2>3 DEF SpareForPrompts
  <2>5. AcksEarned'
    <3>1. CASE First = "ACK" /\ spare' = spare
      <4>1. Acks' = Acks
        BY <1>1, <2>1, <2>2, <3>1 DEF Acks
      <4> QED BY <3>1, <4>1 DEF AcksEarned, Sending
    <3>2. CASE First # "ACK" /\ spare' = spare + 1
      <4>1. Acks' = Acks + 1 /\ Acks \in Nat
        BY SMTT(30), <1>1, <2>1, <2>2, <3>2 DEF Acks
      <4> QED BY <2>3, <3>2, <4>1 DEF AcksEarned, Sending
    <3> QED BY <3>1, <3>2
  <2>6. YmodemTypeOK'
    BY SMTT(30), <1>3, <2>2, <2>4 DEF YmodemTypeOK, Loops, Messages, Reads1, SpareForPrompts
  <2>7. Starting'
    BY <1>3, <2>1, <2>2 DEF Starting, Only, Underway, Transfer, Handshakes
  <2>8. Loops' /\ ReadyLast' /\ NothingStored' /\ OutboundInOrder'
    BY DEF Loops, ReadyLast, NothingStored, OutboundInOrder, Underway, Running, Sending, Transferring, Transfer
  <2> QED BY <1>5, <2>4, <2>5, <2>6, <2>7, <2>8
<1> QED BY <1>6, <1>7


(* A packet, a first time or again, is written after those before it. *)
LEMMA OrderOfPacket ==
    ASSUME YmodemInv, Sending, Sending', controller # "gone",
           packet' \in packet..Packets, packet' <= Len(stored) + 1 + spare,
           outbound' = Append(outbound, Packet(packet')), UNCHANGED <<controller, stored, spare>>
    PROVE  OutboundInOrder'
<1> USE DEF YmodemInv
<1>1. packet \in Nat /\ packet' \in 0..Packets /\ Packet(packet') \in Messages /\ Len(stored) <= packet' /\ spare \in Nat
      /\ packet' \in Nat /\ Len(stored) \in Nat
  <2>1. packet \in 0..Packets /\ Packets \in Nat /\ spare \in Nat
    BY Numbers, Assumed DEF YmodemTypeOK
  <2>2. packet \in Nat /\ packet' \in 0..Packets /\ packet' \in Nat /\ packet <= packet'
    BY ONLY <2>1, packet' \in packet..Packets
  <2>3. Packet(packet') \in Messages
    BY <2>2, MessageFacts
  <2>4. Len(stored) \in Nat
    BY TypeFacts
  <2>5. Len(stored) <= packet
    BY DEF NothingStored
  <2>6. Len(stored) <= packet'
    BY ONLY <2>2, <2>4, <2>5
  <2> QED BY <2>1, <2>2, <2>3, <2>4, <2>6
<1>2. /\ DOMAIN outbound = 1..Len(outbound) /\ Len(outbound) \in Nat
      /\ DOMAIN outbound' = 1..(Len(outbound) + 1) /\ Len(outbound') = Len(outbound) + 1
      /\ \A i \in DOMAIN outbound : outbound'[i] = outbound[i]
      /\ outbound'[Len(outbound) + 1] = Packet(packet')
  BY <1>1, Written
<1>3. Packet(packet').content = packet' /\ Packet(packet') # Command("EOT")
  BY <1>1, MessageFacts
<1>4. OutboundInOrder /\ Transferring
  BY DEF Sending, Transferring, Transfer
<1>5. Bounded /\ Sorted /\ NoEOT /\ UpToPacket
  BY <1>4 DEF OutboundInOrder, EOTLast
<1>6. NoEOT'
  BY <1>2, <1>3, <1>5 DEF NoEOT, EOTAt
<1>7. Bounded'
  <2> SUFFICES ASSUME controller \in {"header", "data"}, NEW i \in DOMAIN outbound', outbound'[i].kind = "packet"
               PROVE  outbound'[i].content \in Len(stored)..(Len(stored) + 1 + spare)
    BY DEF Bounded, IsPacket
  <2>1. CASE i \in DOMAIN outbound
    BY <1>2, <1>5, <2>1 DEF Bounded, IsPacket, BeforeEOT, NoEOT
  <2>2. CASE i = Len(outbound) + 1
    BY <1>1, <1>2, <1>3, <2>2
  <2> QED BY <1>2, <2>1, <2>2
<1>8. UpToPacket'
  <2> SUFFICES ASSUME NEW i \in DOMAIN outbound', outbound'[i].kind = "packet"
               PROVE  outbound'[i].content <= packet'
    BY DEF UpToPacket, IsPacket
  <2>1. CASE i \in DOMAIN outbound
    <3>1. outbound[i] \in Messages /\ outbound[i].content \in 0..Packets /\ outbound[i].content <= packet
      BY <1>2, <1>5, <2>1, TypeFacts, MessageFacts DEF UpToPacket, IsPacket
    <3> QED BY <1>1, <1>2, <2>1, <3>1
  <2>2. CASE i = Len(outbound) + 1
    BY <1>1, <1>2, <1>3, <2>2
  <2> QED BY <1>2, <2>1, <2>2
<1>9. Sorted'
  <2> SUFFICES ASSUME NEW i \in DOMAIN outbound', NEW j \in DOMAIN outbound', i < j,
                      outbound'[i].kind = "packet", outbound'[j].kind = "packet"
               PROVE  outbound'[i].content <= outbound'[j].content
    BY DEF Sorted, IsPacket
  <2>1. CASE j \in DOMAIN outbound
    BY <1>2, <1>5, <2>1 DEF Sorted, IsPacket, BeforeEOT, NoEOT
  <2>2. CASE j = Len(outbound) + 1
    BY <1>2, <1>3, <1>8, <2>2 DEF UpToPacket, IsPacket
  <2> QED BY <1>2, <2>1, <2>2
<1>10. EOTLast' /\ AfterEOT'
  BY <1>6 DEF EOTLast, AfterEOT, Sending, NoEOT
<1> QED BY <1>7, <1>8, <1>9, <1>10 DEF OutboundInOrder

(* EOT is written after all packets. *)
LEMMA OrderOfEOT ==
    ASSUME YmodemInv, Sending, step' = "EOT", controller # "gone",
           outbound' = Append(outbound, Command("EOT")), UNCHANGED <<controller, stored, spare>>
    PROVE  OutboundInOrder'
<1> USE DEF YmodemInv
<1>1. /\ DOMAIN outbound = 1..Len(outbound) /\ Len(outbound) \in Nat
      /\ DOMAIN outbound' = 1..(Len(outbound) + 1) /\ Len(outbound') = Len(outbound) + 1
      /\ \A i \in DOMAIN outbound : outbound'[i] = outbound[i]
      /\ outbound'[Len(outbound) + 1] = Command("EOT") /\ Command("EOT").kind # "packet"
  BY MessageFacts, Written
<1>2. Bounded /\ Sorted /\ NoEOT
  BY DEF OutboundInOrder, EOTLast, Sending, Transferring, Transfer
<1>3. Bounded'
  BY <1>1, <1>2 DEF Bounded, IsPacket, BeforeEOT, NoEOT
<1>4. Sorted'
  BY <1>1, <1>2 DEF Sorted, IsPacket, BeforeEOT, NoEOT
<1>5. EOTLast' /\ AfterEOT' /\ UpToPacket'
  BY <1>1, <1>2 DEF EOTLast, AfterEOT, UpToPacket, EOTAt, NoEOT, Sending
<1> QED BY <1>3, <1>4, <1>5 DEF OutboundInOrder

(* The closing header is written after EOT, or when EOT was answered. *)
LEMMA OrderOfClosing ==
    ASSUME YmodemInv, step \in {"EOT", "closing"}, step' = "closing", controller # "gone",
           outbound' = Append(outbound, Packet(0)), UNCHANGED <<controller, stored, spare>>
    PROVE  OutboundInOrder'
<1> USE DEF YmodemInv
<1>1. /\ DOMAIN outbound = 1..Len(outbound) /\ Len(outbound) \in Nat
      /\ DOMAIN outbound' = 1..(Len(outbound) + 1) /\ Len(outbound') = Len(outbound) + 1
      /\ \A i \in DOMAIN outbound : outbound'[i] = outbound[i]
      /\ outbound'[Len(outbound) + 1] = Packet(0)
      /\ Packet(0).content = 0 /\ Packet(0) # Command("EOT")
  BY Assumed, MessageFacts, Written
<1>2. Bounded /\ Sorted /\ EOTLast /\ AfterEOT
  BY DEF OutboundInOrder, Transferring, Transfer
<1>3. NoEOT => \A i \in DOMAIN outbound : outbound[i] = Packet(0)
  BY <1>2 DEF EOTLast, AfterEOT
<1>4. NoEOT' <=> NoEOT
  BY <1>1 DEF NoEOT, EOTAt
<1>5. \A j \in DOMAIN outbound : BeforeEOT(j)' => BeforeEOT(j)
  BY <1>1 DEF BeforeEOT, EOTAt
<1>6. \A i \in DOMAIN outbound' : i \notin DOMAIN outbound /\ BeforeEOT(i)' => NoEOT
  BY <1>1 DEF BeforeEOT, EOTAt, NoEOT
<1>7. AfterEOT'
  BY <1>1, <1>2, <1>3, <1>4 DEF AfterEOT
<1>8. EOTLast'
  <2>1. \A i, j \in DOMAIN outbound' : i < j /\ outbound'[i] = Command("EOT") => outbound'[j] = Packet(0)
    BY <1>1, <1>2 DEF EOTLast, EOTAt
  <2> QED BY <2>1 DEF EOTLast, EOTAt, Sending
<1>9. Bounded'
  <2> SUFFICES ASSUME controller \in {"header", "data"}, NEW i \in DOMAIN outbound', IsPacket(i)', BeforeEOT(i)'
               PROVE  outbound'[i].content \in Len(stored)..(Len(stored) + 1 + spare)
    BY DEF Bounded
  <2>1. CASE i \in DOMAIN outbound
    BY <1>1, <1>2, <1>5, <2>1 DEF Bounded, IsPacket
  <2>2. CASE i = Len(outbound) + 1
    <3>1. stored = <<>> /\ Len(stored) = 0 /\ spare \in Nat
      BY SMTT(30), <1>2, <1>6, <2>2 DEF AfterEOT, YmodemTypeOK
    <3> QED BY <1>1, <2>2, <3>1
  <2> QED BY <1>1, <2>1, <2>2
<1>10. Sorted'
  <2> SUFFICES ASSUME NEW i \in DOMAIN outbound', NEW j \in DOMAIN outbound', i < j,
                      IsPacket(i)', IsPacket(j)', BeforeEOT(j)'
               PROVE  outbound'[i].content <= outbound'[j].content
    BY DEF Sorted
  <2>1. CASE j \in DOMAIN outbound
    BY <1>1, <1>2, <1>5, <2>1 DEF Sorted, IsPacket
  <2>2. CASE j = Len(outbound) + 1
    <3>1. i \in DOMAIN outbound /\ outbound[i] = Packet(0)
      BY <1>1, <1>3, <1>6, <2>2
    <3> QED BY <1>1, <2>2, <3>1
  <2> QED BY <1>1, <2>1, <2>2
<1>11. UpToPacket'
  BY DEF UpToPacket, Sending
<1> QED BY <1>7, <1>8, <1>9, <1>10, <1>11 DEF OutboundInOrder


LEMMA TransferReadInv ==
    ASSUME YmodemInv, TransferRead
    PROVE  YmodemInv'
<1> USE Assumed DEF YmodemInv, TransferRead, faultVars
<1>1. step \in Transfer /\ retry # "delay" /\ queue # <<>>
  BY DEF Reads
<1>2. /\ Head(queue) \in Reads1
      /\ Tail(queue) \in Seq(Reads1)
      /\ Count(queue, ReadsFirst("ACK")) \in Nat /\ Count(Tail(queue), ReadsFirst("ACK")) \in Nat
      /\ Count(queue, ReadsFirst("ACK")) = Count(Tail(queue), ReadsFirst("ACK")) + (IF First = "ACK" THEN 1 ELSE 0)
      /\ Count(inbound, {"ACK"}) \in Nat /\ Count(outbound, {Command("blank")}) \in Nat
      /\ Len(stored) \in Nat
  <2>1. /\ Head(queue) \in Reads1 /\ Tail(queue) \in Seq(Reads1)
    BY <1>1, TypeFacts, Taken
  <2>2. Count(queue, ReadsFirst("ACK")) = Count(Tail(queue), ReadsFirst("ACK")) + (IF Head(queue) \in ReadsFirst("ACK") THEN 1 ELSE 0)
    BY <1>1, TypeFacts, CountTail
  <2>3. Head(queue) \in ReadsFirst("ACK") <=> First = "ACK"
    BY <2>1 DEF ReadsFirst, Reads1, First
  <2> QED BY <2>1, <2>2, <2>3, TypeFacts, CountSet
<1>3. controller \notin Handshakes
  BY <1>1 DEF Starting, Underway, Running, Transfer
<1>8. controller # "gone" => NoF
  BY <1>1 DEF Starting, NoF
<1>4. step' \in Transfer \cup {"done", "failed"} /\ (controller # "gone" => NoF') =>
         Starting' /\ ReadyLast' /\ SpareForPrompts' /\ StoredInOrder'
  BY <1>1, <1>3 DEF Starting, ReadyLast, SpareForPrompts, StoredInOrder, Handshakes, Transfer, NoF
<1>5. ASSUME queue' = Tail(queue), UNCHANGED <<packet, outbound>>,
             \/ step' = step /\ retry' \in {"none", "delay"} /\ (retry' = "delay" => step # "EOT")
                /\ (retry' = "none" => retry = "none")
             \/ step' = step /\ retry' = retry
             \/ step' = "failed" /\ retry' = retry
             \/ step' = "done" /\ step = "closing" /\ retry' \in {retry, "none"}
      PROVE  YmodemInv'
  <2> USE <1>5
  <2>1. step' \in Transfer \cup {"done", "failed"}
    BY <1>1
  <2>2. YmodemTypeOK'
    BY <1>2, <2>1 DEF YmodemTypeOK, Running, Reads1
  <2>3. Loops' /\ NothingStored'
    BY <1>1, <1>3, <2>1 DEF Loops, NothingStored, Underway, Running, Transfer, Sending, Handshakes
  <2>4. Acks' <= Acks
    BY <1>2 DEF Acks
  <2>5. Acks \in Nat /\ Acks' \in Nat /\ packet \in Nat /\ Granted \in Nat
    BY SMTT(30), <1>2 DEF Acks, Granted, YmodemTypeOK
  <2>6. AcksEarned'
    <3>1. Granted' = Granted /\ packet' = packet /\ step' # "activate"
      BY <1>1 DEF Granted, Transfer
    <3>2. Sending' => packet' + Acks' <= Granted'
      <4>1. Sending' => Sending
        BY <1>1 DEF Sending, Transfer
      <4>2. Sending => packet + Acks <= Granted
        BY DEF AcksEarned
      <4>3. ASSUME Sending PROVE packet + Acks' <= Granted
        BY ONLY <2>4, <2>5, <4>2, <4>3, Fewer
      <4> QED BY <3>1, <4>1, <4>3
    <3>3. (step \in {"EOT", "closing", "done"} => Packets <= Len(stored) + spare)'
      BY <1>1 DEF AcksEarned, Transfer
    <3> QED BY <3>1, <3>2, <3>3 DEF AcksEarned
  <2>7. OutboundInOrder'
    BY <1>1, <2>1 DEF OutboundInOrder, Transferring, Transfer, Bounded, Sorted, EOTLast, AfterEOT, UpToPacket,
                      IsPacket, EOTAt, BeforeEOT, NoEOT, Sending
  <2>8. controller # "gone" => NoF'
    BY <1>8 DEF NoF
  <2> QED BY <1>4, <2>1, <2>2, <2>3, <2>6, <2>7, <2>8
<1>6. CASE RefusedOnce \/ Refused \/ Prompted
  BY <1>1, <1>5, <1>6 DEF RefusedOnce, Refused, Prompted
<1>7. CASE Acknowledged
  <2> USE <1>7 DEF Acknowledged
  <2>1. CASE step = "closing"
    BY <1>5, <2>1
  <2>2. CASE step = "EOT"
    <3> USE <2>2 DEF SendPacket, Write
    <3>1. step' = "closing" /\ packet' = 0 /\ queue' = <<>> /\ outbound' \in Seq(Messages)
      BY MessageFacts, Written
    <3>2. YmodemTypeOK'
      BY <3>1 DEF YmodemTypeOK, Running, Transfer, Messages
    <3>3. Loops' /\ NothingStored' /\ AcksEarned'
      BY <1>3, <3>1 DEF Loops, NothingStored, AcksEarned, Underway, Running, Transfer, Sending, Handshakes
    <3>4. OutboundInOrder'
      <4>1. CASE controller # "gone"
        BY <3>1, <4>1, OrderOfClosing
      <4>2. CASE controller = "gone"
        BY <4>2 DEF OutboundInOrder
      <4> QED BY <4>1, <4>2
    <3>5. controller # "gone" => NoF'
      BY <1>8, MessageFacts, NoFWritten
    <3> QED BY <1>4, <3>1, <3>2, <3>3, <3>4, <3>5 DEF Transfer
  <2>3. CASE step \in {"header", "data"}
    <3> USE <2>3 DEF SendPacket, Write
    <3>1. SendNext(packet)
      BY DEF Loops
    <3>2. /\ packet + 1 <= Len(stored) + 1 + spare /\ packet + 1 \in Nat /\ packet \in 0..Packets
          /\ queue' = <<>> => packet + 1 + Count(outbound, {Command("blank")}) + Count(inbound, {"ACK"}) <= Granted
          /\ Granted \in Nat
      <4>1. packet + Acks <= Granted
        BY DEF AcksEarned, Sending
      <4>2. packet \in 0..Packets /\ spare \in Nat
        BY DEF YmodemTypeOK
      <4>3. Granted <= spare + Len(stored) + 1 /\ Granted \in Nat
        BY <1>2, <4>2 DEF Granted
      <4>4. Acks >= 1 + Count(outbound, {Command("blank")}) + Count(inbound, {"ACK"}) /\ Acks \in Nat
        BY <1>2 DEF Acks
      <4>5. packet + 1 + Count(outbound, {Command("blank")}) + Count(inbound, {"ACK"}) <= packet + Acks
        BY <1>2, <4>2, <4>4
      <4>6. packet + 1 + Count(outbound, {Command("blank")}) + Count(inbound, {"ACK"}) <= Granted
        BY <1>2, <4>1, <4>2, <4>3, <4>4, <4>5
      <4>7. packet + 1 <= Granted
        BY <1>2, <4>2, <4>3, <4>6
      <4>8. packet + 1 <= Len(stored) + 1 + spare
        BY <1>2, <4>2, <4>3, <4>7
      <4> QED BY <4>2, <4>3, <4>6, <4>8
    <3>3. queue' = <<>> /\ Count(queue', ReadsFirst("ACK")) = 0
      BY <3>1, CountEmpty DEF SendNext
    <3>4. CASE packet < Packets
      <4>1. /\ step' = "data" /\ packet' = packet + 1 /\ packet' \in 0..Packets
            /\ outbound' = Append(outbound, Packet(packet'))
        BY <3>1, <3>2, <3>4 DEF SendNext
      <4>2. /\ outbound' \in Seq(Messages)
            /\ Count(outbound', {Command("blank")}) = Count(outbound, {Command("blank")})
        <5>1. Packet(packet') \in Messages /\ Packet(packet') \notin {Command("blank")}
          BY <4>1, MessageFacts
        <5> QED BY <1>2, <4>1, <5>1, Written
      <4>3. YmodemTypeOK'
        BY <3>3, <4>1, <4>2 DEF YmodemTypeOK, Running, Transfer, Messages
      <4>4. Loops' /\ NothingStored'
        BY <1>2, <1>3, <3>2, <4>1 DEF Loops, NothingStored, Underway, Running, Transfer, Sending, Handshakes
      <4>5. AcksEarned'
        <5>1. Granted' = Granted
          BY DEF Granted
        <5>2. Acks' = Count(outbound, {Command("blank")}) + Count(inbound, {"ACK"})
          BY <1>2, <3>3, <4>2 DEF Acks
        <5>3. packet' + Acks' <= Granted'
          BY <1>2, <3>2, <3>3, <4>1, <5>1, <5>2
        <5> QED BY <4>1, <5>3 DEF AcksEarned, Sending
      <4>6. OutboundInOrder'
        <5>1. CASE controller # "gone"
          <6>1. packet' \in packet..Packets /\ packet' <= Len(stored) + 1 + spare
            BY <3>2, <4>1
          <6> QED BY <4>1, <5>1, <6>1, OrderOfPacket DEF Sending
        <5>2. CASE controller = "gone"
          BY <5>2 DEF OutboundInOrder
        <5> QED BY <5>1, <5>2
      <4>7. controller # "gone" => NoF'
        BY <1>8, <4>1, MessageFacts, NoFWritten
      <4> QED BY <1>4, <4>1, <4>3, <4>4, <4>5, <4>6, <4>7 DEF Transfer
    <3>5. CASE packet = Packets
      <4>1. /\ step' = "EOT" /\ packet' = packet
            /\ outbound' = Append(outbound, Command("EOT"))
        BY <3>1, <3>2, <3>5 DEF SendNext
      <4>2. /\ outbound' \in Seq(Messages)
        BY <4>1, MessageFacts, Written
      <4>3. YmodemTypeOK'
        BY <3>3, <4>1, <4>2 DEF YmodemTypeOK, Running, Transfer, Messages
      <4>4. Loops' /\ NothingStored'
        BY <1>3, <4>1 DEF Loops, NothingStored, Underway, Running, Transfer, Sending, Handshakes
      <4>5. AcksEarned'
        <5>1. Packets <= Len(stored) + spare /\ UNCHANGED <<stored, spare>>
          <6>1. spare \in Nat
            BY DEF YmodemTypeOK
          <6> QED BY <1>2, <3>2, <3>5, <6>1
        <5> QED BY <4>1, <5>1 DEF AcksEarned, Sending
      <4>6. OutboundInOrder'
        <5>1. CASE controller # "gone"
          BY <4>1, <5>1, OrderOfEOT DEF Sending
        <5>2. CASE controller = "gone"
          BY <5>2 DEF OutboundInOrder
        <5> QED BY <5>1, <5>2
      <4>7. controller # "gone" => NoF'
        BY <1>8, <4>1, MessageFacts, NoFWritten
      <4> QED BY <1>4, <4>1, <4>3, <4>4, <4>5, <4>6, <4>7 DEF Transfer
    <3> QED BY <3>2, <3>4, <3>5
  <2> QED BY <1>1, <2>1, <2>2, <2>3 DEF Transfer
<1> QED BY <1>6, <1>7

LEMMA RetryPacketInv ==
    ASSUME YmodemInv, RetryPacket
    PROVE  YmodemInv'
<1> USE Assumed DEF YmodemInv, RetryPacket, faultVars, SendPacket, Write
<1>1. step \in {"header", "data", "closing"} /\ packet \in 0..Packets /\ (step = "closing" => packet = 0)
  BY DEF Loops, YmodemTypeOK, Running, Transfer
<1>2. /\ outbound' \in Seq(Messages)
      /\ Count(outbound', {Command("blank")}) = Count(outbound, {Command("blank")})
      /\ Count(outbound, {Command("blank")}) \in Nat
  <2>1. Packet(packet) \in Messages /\ Packet(packet) \notin {Command("blank")}
    BY <1>1, MessageFacts
  <2>2. YmodemTypeOK /\ outbound' = Append(outbound, Packet(packet))
    OBVIOUS
  <2>3. outbound' \in Seq(Messages) /\ Count(outbound', {Command("blank")}) = Count(outbound, {Command("blank")}) + 0
    BY ONLY <2>1, <2>2, Written
  <2>4. Count(outbound, {Command("blank")}) \in Nat
    BY ONLY <2>2, TypeFacts
  <2> QED BY <2>3, <2>4
<1>3. YmodemTypeOK'
  BY <1>1, <1>2 DEF YmodemTypeOK, Running, Transfer, Messages
<1>4. Loops' /\ NothingStored' /\ ReadyLast' /\ SpareForPrompts' /\ StoredInOrder'
  BY <1>1 DEF Loops, NothingStored, ReadyLast, SpareForPrompts, StoredInOrder, Underway, Running, Transfer, Sending, Handshakes
<1>5. Starting'
  <2>1. controller # "gone" => NoF
    BY <1>1 DEF Starting, NoF, Transfer
  <2>2. controller # "gone" => NoF'
    BY <1>1, <2>1, MessageFacts, NoFWritten
  <2> QED BY <1>1, <2>2 DEF Starting, NoF, Underway, Running, Transfer, Handshakes
<1>6. AcksEarned'
  <2>1. Acks' = Count(outbound, {Command("blank")}) + Count(inbound, {"ACK"})
    <3>1. Count(queue', ReadsFirst("ACK")) = 0 /\ inbound' = inbound
      BY CountEmpty
    <3>2. Count(inbound, {"ACK"}) \in Nat
      BY TypeFacts
    <3> QED BY <1>2, <3>1, <3>2 DEF Acks
  <2>2. Granted' = Granted /\ packet' = packet /\ step' = step
    BY DEF Granted
  <2>3. Sending => packet + Acks' <= Granted
    <3>1. Acks' <= Acks /\ Acks' \in Nat /\ Acks \in Nat /\ Granted \in Nat /\ packet \in Nat
      <4>1. Count(inbound, {"ACK"}) \in Nat
        BY TypeFacts
      <4> QED BY <1>2, <2>1, <4>1, Numbers
    <3>2. Sending => packet + Acks <= Granted
      BY DEF AcksEarned
    <3>3. ASSUME Sending PROVE packet + Acks' <= Granted
      BY ONLY <3>1, <3>2, <3>3, Fewer
    <3> QED BY <3>3
  <2> QED BY <1>1, <2>2, <2>3 DEF AcksEarned, Sending
<1>7. CASE step \in {"header", "data"} /\ controller # "gone"
  <2>1. packet <= Len(stored) + 1 + spare
    <3>1. packet + Acks <= Granted
      BY <1>7 DEF AcksEarned, Sending
    <3>2. /\ Acks \in Nat /\ Granted <= Len(stored) + 1 + spare /\ Granted \in Nat
          /\ packet \in Nat /\ Len(stored) + 1 + spare \in Nat
      BY Numbers, TypeFacts
    <3> QED BY ONLY <3>1, <3>2
  <2>2. OutboundInOrder'
    BY <1>1, <1>7, <2>1, OrderOfPacket DEF Sending
  <2> QED BY <1>3, <1>4, <1>5, <1>6, <2>2
<1>8. CASE step = "closing" /\ controller # "gone"
  <2>1. OutboundInOrder'
    BY <1>1, <1>8, OrderOfClosing
  <2> QED BY <1>3, <1>4, <1>5, <1>6, <2>1
<1>9. CASE controller = "gone"
  BY <1>3, <1>4, <1>5, <1>6, <1>9 DEF OutboundInOrder
<1> QED BY <1>1, <1>7, <1>8, <1>9

LEMMA UploadTimeoutInv ==
    ASSUME YmodemInv, UploadTimeout
    PROVE  YmodemInv'
<1> USE Assumed DEF YmodemInv, UploadTimeout, faultVars
<1>1. YmodemTypeOK' /\ StoredInOrder'
  BY DEF YmodemTypeOK, StoredInOrder
<1>2. Loops' /\ Starting' /\ ReadyLast' /\ SpareForPrompts' /\ AcksEarned' /\ NothingStored' /\ OutboundInOrder'
  BY DEF Loops, Starting, ReadyLast, SpareForPrompts, AcksEarned, NothingStored, OutboundInOrder,
         Underway, Running, Transferring, Transfer, Sending
<1> QED BY <1>1, <1>2


(* A message reaches the controller, or a reply the network. *)
LEMMA OutTaken ==
    ASSUME YmodemTypeOK, outbound # <<>>, outbound' = Tail(outbound)
    PROVE  /\ outbound' \in Seq(Messages) /\ Head(outbound) \in Messages /\ Head(outbound) = outbound[1]
           /\ Len(outbound) \in Nat \ {0} /\ DOMAIN outbound = 1..Len(outbound) /\ 1 \in DOMAIN outbound
           /\ DOMAIN outbound' = 1..(Len(outbound) - 1) /\ Len(outbound') = Len(outbound) - 1
           /\ \A i \in DOMAIN outbound' : outbound'[i] = outbound[i + 1] /\ i + 1 \in DOMAIN outbound /\ 1 < i + 1
           /\ \A x : /\ Count(outbound, {x}) \in Nat /\ Count(outbound', {x}) \in Nat
                     /\ Count(outbound, {x}) = Count(outbound', {x}) + (IF Head(outbound) = x THEN 1 ELSE 0)
<1>1. /\ outbound' \in Seq(Messages) /\ Head(outbound) \in Messages /\ Head(outbound) = outbound[1]
      /\ Len(outbound) \in Nat \ {0} /\ DOMAIN outbound = 1..Len(outbound)
      /\ DOMAIN outbound' = 1..(Len(outbound) - 1) /\ Len(outbound') = Len(outbound) - 1
      /\ \A i \in DOMAIN outbound' : outbound'[i] = outbound[i + 1] /\ i + 1 \in DOMAIN outbound
  BY TypeFacts, Taken
<1>2. 1 \in DOMAIN outbound /\ \A i \in DOMAIN outbound' : 1 < i + 1
  BY <1>1
<1>3. \A T : Count(outbound, T) = Count(outbound', T) + (IF Head(outbound) \in T THEN 1 ELSE 0)
  BY TypeFacts, CountTail
<1>4. \A x : Count(outbound, {x}) \in Nat /\ Count(outbound', {x}) \in Nat
  BY <1>1, TypeFacts, CountSet
<1>5. \A x : Count(outbound, {x}) = Count(outbound', {x}) + (IF Head(outbound) = x THEN 1 ELSE 0)
  BY <1>3
<1> QED BY <1>1, <1>2, <1>4, <1>5

LEMMA Replied ==
    ASSUME YmodemTypeOK, NEW x \in Replies, inbound' = Append(inbound, x)
    PROVE  /\ inbound' \in Seq(Replies)
           /\ DOMAIN inbound = 1..Len(inbound) /\ Len(inbound) \in Nat
           /\ DOMAIN inbound' = 1..(Len(inbound) + 1)
           /\ \A i \in DOMAIN inbound : inbound'[i] = inbound[i]
           /\ inbound'[Len(inbound) + 1] = x
           /\ \A y : /\ Count(inbound, {y}) \in Nat
                     /\ Count(inbound', {y}) = Count(inbound, {y}) + (IF x = y THEN 1 ELSE 0)
<1>1. /\ inbound' \in Seq(Replies)
      /\ DOMAIN inbound = 1..Len(inbound) /\ Len(inbound) \in Nat
      /\ DOMAIN inbound' = 1..(Len(inbound) + 1)
      /\ \A i \in DOMAIN inbound : inbound'[i] = inbound[i]
      /\ inbound'[Len(inbound) + 1] = x
  BY TypeFacts, Appended
<1>2. \A T : Count(inbound', T) = Count(inbound, T) + (IF x \in T THEN 1 ELSE 0)
  BY TypeFacts, CountAppend
<1> QED BY <1>1, <1>2, TypeFacts

LEMMA ConcatFacts ==
    ASSUME NEW S, NEW s \in Seq(S)
    PROVE  /\ s \o <<>> = s
           /\ \A x \in S : s \o <<x>> = Append(s, x)
           /\ \A x, y \in S : s \o <<x, y>> = Append(Append(s, x), y)
OBVIOUS

(* A message that is no command before the file is on its way in the         *)
(* transfer only.                                                            *)
LEMMA WhenTransferring ==
    ASSUME YmodemInv, step \in Running, outbound # <<>>, controller # "gone",
           Head(outbound).kind \in {"packet", "EOT"}
    PROVE  step \in Transfer /\ controller \notin Handshakes
<1> USE DEF YmodemInv
<1>1. 1 \in DOMAIN outbound /\ Head(outbound) = outbound[1]
  BY TypeFacts, Taken
<1>2. outbound[1] \notin {Command("newline"), Command("F"), Command("blank")}
  BY <1>1, MessageFacts DEF Command
<1>3. step \notin {"handshake", "activate"}
  BY <1>1, <1>2 DEF Starting
<1>4. step # "ready"
  BY <1>1, <1>2 DEF Starting
<1>5. step \in Transfer
  BY <1>3, <1>4 DEF Running
<1> QED BY <1>5 DEF Starting, Underway, Running, Transfer

(* What is left is in order, when the controller and what it stored fit what *)
(* was taken.                                                                *)
LEMMA OrderOfRest ==
    ASSUME YmodemInv, outbound # <<>>, outbound' = Tail(outbound), UNCHANGED <<step, packet, spare>>,
           step \in Transfer, controller # "gone",
           controller' \in {"header", "data"} => controller \in {"header", "data"},
           \/ Head(outbound) # Command("EOT") /\ stored' = stored
           \/ /\ Head(outbound).kind = "packet" /\ Head(outbound).content = Len(stored) + 1
              /\ controller = "data" /\ stored' = Append(stored, Head(outbound).content)
              /\ Len(stored') = Len(stored) + 1
           \/ Head(outbound) = Command("EOT") /\ stored' = stored /\ controller' \in {controller, "closing"} \ {"data"}
    PROVE  OutboundInOrder'
<1> USE DEF YmodemInv
<1>1. /\ Head(outbound) = outbound[1] /\ 1 \in DOMAIN outbound
      /\ Len(outbound) \in Nat \ {0} /\ DOMAIN outbound = 1..Len(outbound)
      /\ DOMAIN outbound' = 1..(Len(outbound) - 1) /\ Len(outbound') = Len(outbound) - 1
      /\ \A i \in DOMAIN outbound' : outbound'[i] = outbound[i + 1] /\ i + 1 \in DOMAIN outbound /\ 1 < i + 1
  BY OutTaken
<1>2. Bounded /\ Sorted /\ EOTLast /\ AfterEOT /\ UpToPacket
  BY DEF OutboundInOrder, Transferring
<1>3. UpToPacket' /\ (Sending => NoEOT)'
  BY <1>1, <1>2 DEF UpToPacket, EOTLast, IsPacket, NoEOT, EOTAt, Sending
<1>4. (\A i, j \in DOMAIN outbound : i < j /\ EOTAt(i) => outbound[j] = Packet(0))'
  BY <1>1, <1>2 DEF EOTLast, EOTAt
<1>5. (step = "EOT" => \A i \in DOMAIN outbound : EOTAt(i) => i = Len(outbound))'
  BY <1>1, <1>2 DEF EOTLast, EOTAt
<1>6. CASE Head(outbound) = Command("EOT")
  <2>1. EOTAt(1)
    BY <1>1, <1>6 DEF EOTAt
  <2>2. \A i \in DOMAIN outbound' : outbound'[i] = Packet(0)
    BY <1>1, <1>2, <2>1 DEF EOTLast
  <2>3. step = "EOT" => outbound' = <<>>
    <3>1. step = "EOT" => Len(outbound') = 0
      BY <1>1, <1>2, <2>1 DEF EOTLast
    <3>2. outbound' \in Seq(Messages)
      BY OutTaken
    <3> QED BY <3>1, <3>2
  <2>4. stored' = stored /\ controller' \in {controller, "closing"} \ {"data"}
    BY <1>6, MessageFacts
  <2>5. controller' = "header" => stored = <<>> /\ Len(stored) = 0
    <3>1. controller' = "header" => controller = "header"
      BY <2>4
    <3>2. controller = "header" => stored = <<>>
      BY DEF NothingStored, Underway, Running, Transfer
    <3> QED BY <3>1, <3>2
  <2>6. Packet(0).content = 0
    BY MessageFacts
  <2>7. Bounded'
    <3>1. spare \in Nat
      BY DEF YmodemTypeOK
    <3>2. controller' = "header" => 0 \in Len(stored')..(Len(stored') + 1 + spare')
      BY <2>4, <2>5, <3>1
    <3> QED BY <2>2, <2>4, <2>6, <3>2 DEF Bounded
  <2>8. Sorted'
    BY <2>2, <2>6 DEF Sorted
  <2>9. EOTLast'
    BY <1>3, <1>4, <1>5, <2>3 DEF EOTLast
  <2>10. AfterEOT'
    BY <2>2, <2>4, <2>5 DEF AfterEOT
  <2> QED BY <1>3, <2>7, <2>8, <2>9, <2>10 DEF OutboundInOrder
<1>7. CASE Head(outbound) # Command("EOT")
  <2>1. ~EOTAt(1)
    BY <1>1, <1>7 DEF EOTAt
  <2>2. NoEOT' => NoEOT
    <3> SUFFICES ASSUME NoEOT', NEW k \in DOMAIN outbound PROVE ~EOTAt(k)
      BY DEF NoEOT
    <3>1. CASE k = 1
      BY <2>1, <3>1
    <3>2. CASE k # 1
      <4>1. k - 1 \in DOMAIN outbound' /\ (k - 1) + 1 = k
        BY <1>1, <3>2
      <4>2. outbound'[k - 1] # Command("EOT") /\ outbound'[k - 1] = outbound[k]
        BY <1>1, <4>1 DEF NoEOT, EOTAt
      <4> QED BY <4>2 DEF EOTAt
    <3> QED BY <3>1, <3>2
  <2>3. ASSUME NEW i \in DOMAIN outbound', BeforeEOT(i)' PROVE BeforeEOT(i + 1)
    <3> SUFFICES ASSUME NEW k \in DOMAIN outbound, k < i + 1 PROVE ~EOTAt(k)
      BY DEF BeforeEOT
    <3>1. CASE k = 1
      BY <2>1, <3>1
    <3>2. CASE k # 1
      <4>1. k - 1 \in DOMAIN outbound' /\ (k - 1) + 1 = k /\ k - 1 < i
        BY <1>1, <3>2
      <4>2. outbound'[k - 1] # Command("EOT") /\ outbound'[k - 1] = outbound[k]
        BY <1>1, <2>3, <4>1 DEF BeforeEOT, EOTAt
      <4> QED BY <4>2 DEF EOTAt
    <3> QED BY <3>1, <3>2
  <2>4. Sorted'
    <3> SUFFICES ASSUME NEW i \in DOMAIN outbound', NEW j \in DOMAIN outbound', i < j,
                        IsPacket(i)', IsPacket(j)', BeforeEOT(j)'
                 PROVE  outbound'[i].content <= outbound'[j].content
      BY DEF Sorted
    <3>1. /\ outbound'[i] = outbound[i + 1] /\ outbound'[j] = outbound[j + 1] /\ i + 1 < j + 1
          /\ i + 1 \in DOMAIN outbound /\ j + 1 \in DOMAIN outbound /\ BeforeEOT(j + 1)
      BY <1>1, <2>3
    <3> QED BY <1>2, <3>1 DEF Sorted, IsPacket
  <2>5. Bounded'
    <3> SUFFICES ASSUME controller' \in {"header", "data"}, NEW i \in DOMAIN outbound', IsPacket(i)', BeforeEOT(i)'
                 PROVE  outbound'[i].content \in Len(stored')..(Len(stored') + 1 + spare')
      BY DEF Bounded
    <3>1. /\ outbound'[i] = outbound[i + 1] /\ i + 1 \in DOMAIN outbound /\ 1 < i + 1
          /\ IsPacket(i + 1) /\ BeforeEOT(i + 1)
      BY <1>1, <2>3 DEF IsPacket
    <3>2. outbound[i + 1].content \in Len(stored)..(Len(stored) + 1 + spare)
      BY <1>2, <3>1 DEF Bounded
    <3>3. CASE stored' = stored
      BY <3>1, <3>2, <3>3
    <3>4. CASE /\ Head(outbound).kind = "packet" /\ Head(outbound).content = Len(stored) + 1
               /\ Len(stored') = Len(stored) + 1
      <4>1. outbound[1].content <= outbound[i + 1].content
        BY <1>1, <1>2, <3>1, <3>4 DEF Sorted, IsPacket
      <4>2. Len(stored) \in Nat /\ spare \in Nat /\ spare' = spare
        BY TypeFacts DEF YmodemTypeOK
      <4> QED BY <1>1, <3>1, <3>2, <3>4, <4>1, <4>2
    <3> QED BY <3>3, <3>4
  <2>6. ~(step = "EOT" /\ NoEOT)
    BY <1>2 DEF EOTLast
  <2>7. EOTLast'
    BY <1>3, <1>4, <1>5, <2>2, <2>6 DEF EOTLast
  <2>8. AfterEOT'
    <3>1. (step = "closing" /\ NoEOT => \A i \in DOMAIN outbound : outbound[i] = Packet(0))'
      BY <1>1, <1>2, <2>2 DEF AfterEOT
    <3>2. ASSUME step \in {"EOT", "closing"}, NoEOT', controller' \in {"header", "data"}
          PROVE  stored' = <<>>
      <4>1. step = "closing" /\ NoEOT /\ stored = <<>> /\ outbound[1] = Packet(0)
        BY <1>1, <1>2, <2>2, <2>6, <3>2 DEF AfterEOT
      <4>2. Head(outbound).content = 0 /\ Len(stored) = 0
        BY <1>1, <4>1, MessageFacts
      <4> QED BY <4>1, <4>2
    <3> QED BY <3>1, <3>2 DEF AfterEOT
  <2> QED BY <1>3, <2>4, <2>5, <2>7, <2>8 DEF OutboundInOrder
<1> QED BY <1>6, <1>7


(* The controller's answer to a packet, or to EOT. *)
Nak == <<"NAK">>
Ack == <<"ACK">>
AckAndPrompt == <<"ACK", "C">>

LEMMA AnswerAcks ==
    ASSUME YmodemTypeOK, outbound # <<>>, outbound' = Tail(outbound), Head(outbound).kind \in {"packet", "EOT"},
           queue' = queue, NEW r \in {Nak, Ack, AckAndPrompt}, inbound' = inbound \o r
    PROVE  /\ inbound' \in Seq(Replies) /\ outbound' \in Seq(Messages)
           /\ Acks \in Nat /\ Acks' = Acks + (IF r = Nak THEN 0 ELSE 1)
<1>1. /\ outbound' \in Seq(Messages)
      /\ Count(outbound, {Command("blank")}) = Count(outbound', {Command("blank")})
      /\ Count(outbound', {Command("blank")}) \in Nat
  <2>1. Head(outbound) # Command("blank")
    BY MessageFacts
  <2>2. /\ outbound' \in Seq(Messages)
        /\ \A x : /\ Count(outbound', {x}) \in Nat
                  /\ Count(outbound, {x}) = Count(outbound', {x}) + (IF Head(outbound) = x THEN 1 ELSE 0)
    BY OutTaken
  <2>3. Count(outbound, {Command("blank")}) = Count(outbound', {Command("blank")}) + 0
    BY <2>1, <2>2
  <2>4. Count(outbound', {Command("blank")}) \in Nat
    BY <2>2
  <2> QED BY ONLY <2>2, <2>3, <2>4
<1>2. Count(inbound, {"ACK"}) \in Nat /\ Count(queue, ReadsFirst("ACK")) \in Nat /\ Acks \in Nat
      /\ inbound \in Seq(Replies)
  BY TypeFacts, Numbers
<1>3. inbound' \in Seq(Replies) /\ Count(inbound', {"ACK"}) = Count(inbound, {"ACK"}) + (IF r = Nak THEN 0 ELSE 1)
  <2>1. CASE r \in {Nak, Ack}
    <3>1. PICK x \in {"ACK", "NAK"} : r = <<x>> /\ (r = Nak <=> x = "NAK")
      <4>1. <<"ACK">> # <<"NAK">>
        OBVIOUS
      <4>2. CASE r = Nak
        BY <4>2 DEF Nak
      <4>3. CASE r = Ack
        BY <4>1, <4>3 DEF Nak, Ack
      <4> QED BY <2>1, <4>2, <4>3
    <3>2. x \in Replies /\ inbound' = Append(inbound, x)
      BY <1>2, <3>1, ConcatFacts DEF Replies
    <3>3. Count(inbound', {"ACK"}) = Count(inbound, {"ACK"}) + (IF x = "ACK" THEN 1 ELSE 0) /\ inbound' \in Seq(Replies)
      BY <3>2, Replied
    <3> QED BY <3>1, <3>3
  <2>2. CASE r = AckAndPrompt
    <3> DEFINE s == Append(inbound, "ACK")
    <3>1. inbound' = Append(s, "C") /\ r # Nak /\ "ACK" \in Replies /\ "C" \in Replies
      <4>1. "ACK" \in Replies /\ "C" \in Replies
        BY DEF Replies
      <4>2. inbound \o <<"ACK", "C">> = Append(s, "C")
        BY <1>2, <4>1, ConcatFacts
      <4>3. r # Nak
        BY <2>2 DEF AckAndPrompt, Nak
      <4> QED BY <2>2, <4>1, <4>2, <4>3 DEF AckAndPrompt
    <3>2. s \in Seq(Replies) /\ Count(s, {"ACK"}) = Count(inbound, {"ACK"}) + 1
      BY <1>2, <3>1, Appended, CountAppend
    <3> HIDE DEF s
    <3>3. inbound' \in Seq(Replies) /\ Count(inbound', {"ACK"}) = Count(s, {"ACK"}) + (IF "C" \in {"ACK"} THEN 1 ELSE 0)
      BY <3>1, <3>2, Appended, CountAppend
    <3>4. Count(s, {"ACK"}) \in Nat
      BY <3>2, CountSet
    <3> QED BY <3>1, <3>2, <3>3, <3>4
  <2> QED BY <2>1, <2>2
<1>4. Acks' = Count(outbound', {Command("blank")}) + Count(inbound', {"ACK"}) + Count(queue, ReadsFirst("ACK"))
  BY DEF Acks
<1>5. CASE r = Nak
  BY <1>1, <1>2, <1>3, <1>4, <1>5 DEF Acks
<1>6. CASE r # Nak
  BY <1>1, <1>2, <1>3, <1>4, <1>6 DEF Acks
<1> QED BY <1>1, <1>2, <1>3, <1>5, <1>6

LEMMA AnswerInv ==
    ASSUME YmodemInv, step \in Running, outbound # <<>>, controller # "gone",
           Head(outbound).kind \in {"packet", "EOT"},
           NEW w \in {"header", "data", "closing", "restart"}, NEW r \in {Nak, Ack, AckAndPrompt},
           NEW s \in {stored, Append(stored, Len(stored) + 1)}, s # stored => Len(stored) + 1 <= Packets,
           Answers(w, s, r), refusals' \in 0..MaxRefusals
    PROVE  /\ YmodemTypeOK' /\ Loops' /\ Starting' /\ ReadyLast' /\ SpareForPrompts' /\ StoredInOrder'
           /\ step \in Transfer /\ controller \notin Handshakes
           /\ Acks \in Nat /\ Acks' = Acks + (IF r = Nak THEN 0 ELSE 1)
           /\ s # stored => Len(s) = Len(stored) + 1
<1> USE Assumed DEF YmodemInv, Answers, clientVars
<1>1. step \in Transfer /\ controller \notin Handshakes
  BY WhenTransferring
<1>2. /\ inbound' \in Seq(Replies) /\ outbound' \in Seq(Messages)
      /\ Acks \in Nat /\ Acks' = Acks + (IF r = Nak THEN 0 ELSE 1)
  BY AnswerAcks
<1>3. stored' \in Seq(1..Packets) /\ StoredInOrder' /\ (s # stored => Len(s) = Len(stored) + 1)
  <2>1. stored \in Seq(1..Packets) /\ Len(stored) \in Nat /\ DOMAIN stored = 1..Len(stored)
    BY TypeFacts
  <2>2. CASE s = stored
    BY <2>1, <2>2 DEF StoredInOrder
  <2>3. CASE s # stored
    <3>1. Len(stored) + 1 \in 1..Packets /\ s = Append(stored, Len(stored) + 1)
      BY <2>1, <2>3
    <3>2. /\ s \in Seq(1..Packets) /\ DOMAIN s = 1..(Len(stored) + 1) /\ Len(s) = Len(stored) + 1
          /\ \A i \in DOMAIN stored : s[i] = stored[i]
          /\ s[Len(stored) + 1] = Len(stored) + 1
      BY ONLY <2>1, <3>1, Appended
    <3>3. stored' = s
      OBVIOUS
    <3>4. \A i \in DOMAIN stored : stored[i] = i
      BY DEF StoredInOrder
    <3>5. \A i \in DOMAIN s : s[i] = i
      <4> SUFFICES ASSUME NEW i \in 1..(Len(stored) + 1) PROVE s[i] = i
        BY <3>2
      <4>1. i \in 1..Len(stored) \/ i = Len(stored) + 1
        BY <2>1
      <4> QED BY ONLY <2>1, <3>2, <3>4, <4>1
    <3> QED BY <3>2, <3>3, <3>5 DEF StoredInOrder
  <2> QED BY <2>2, <2>3
<1>4. YmodemTypeOK'
  BY <1>2, <1>3 DEF YmodemTypeOK, Messages
<1>5. Loops' /\ ReadyLast' /\ SpareForPrompts'
  BY <1>1 DEF Loops, ReadyLast, SpareForPrompts, Transfer
<1>6. Starting'
  <2>1. NoF'
    <3>1. NoF
      BY <1>1 DEF Starting, NoF
    <3> QED BY <3>1, OutTaken DEF NoF
  <2> QED BY <1>1, <2>1 DEF Starting, NoF, Transfer, Handshakes
<1> QED BY <1>1, <1>2, <1>3, <1>4, <1>5, <1>6

(* What is refused changes nothing. *)
LEMMA RefusalInv ==
    ASSUME YmodemInv, step \in Running, outbound # <<>>, controller # "gone",
           Head(outbound).kind = "packet" \/ (Head(outbound) = Command("EOT") /\ controller # "data"),
           Answers(controller, stored, Nak), refusals' \in 0..MaxRefusals
    PROVE  YmodemInv'
<1> USE DEF YmodemInv, Answers, clientVars
<1>1. Head(outbound).kind \in {"packet", "EOT"}
  BY MessageFacts
<1>2. step \in Transfer /\ controller \in {"header", "data", "closing", "restart"}
  BY <1>1, WhenTransferring DEF YmodemTypeOK, Handshakes
<1>3. /\ YmodemTypeOK' /\ Loops' /\ Starting' /\ ReadyLast' /\ SpareForPrompts' /\ StoredInOrder'
      /\ Acks' = Acks + 0 /\ Acks \in Nat
  BY <1>1, <1>2, AnswerInv
<1>4. AcksEarned'
  <2>1. Acks' = Acks /\ Granted' = Granted
    BY <1>3 DEF Granted
  <2> QED BY <2>1 DEF AcksEarned, Sending
<1>5. NothingStored'
  BY DEF NothingStored, Underway, Sending
<1>6. OutboundInOrder'
  <2>1. Head(outbound) # Command("EOT") \/ (Head(outbound) = Command("EOT") /\ controller \in {controller, "closing"} \ {"data"})
    BY MessageFacts
  <2> QED BY <1>2, <2>1, OrderOfRest
<1> QED BY <1>3, <1>4, <1>5, <1>6

LEMMA RefusesPacketInv ==
    ASSUME YmodemInv, RefusesPacket
    PROVE  YmodemInv'
<1>1. refusals' \in 0..MaxRefusals
  BY Assumed DEF YmodemInv, YmodemTypeOK, RefusesPacket
<1>2. controller # "gone"
  BY DEF RefusesPacket, Fits
<1> QED BY <1>1, <1>2, RefusalInv DEF RefusesPacket, TakesAnyPacket, Nak


(* The index of a packet tells the packet, as fewer are around than there    *)
(* are indices.                                                              *)
LEMMA IndexTells ==
    ASSUME YmodemInv, step \in Transfer, controller = "data", outbound # <<>>,
           Head(outbound).kind = "packet", Fits(Head(outbound))
    PROVE  /\ Head(outbound).content = Len(stored) + 1 /\ Len(stored) + 1 <= Packets
           /\ Sending => Len(stored) + 1 <= packet
<1> USE DEF YmodemInv
<1> DEFINE c == Head(outbound).content
           n == Len(stored)
<1>1. Head(outbound) = outbound[1] /\ 1 \in DOMAIN outbound /\ Head(outbound) \in Messages /\ DOMAIN outbound \subseteq Nat \ {0}
  <2>1. DOMAIN outbound = 1..Len(outbound) /\ Len(outbound) \in Nat \ {0} /\ Head(outbound) = outbound[1] /\ Head(outbound) \in Messages
    BY TypeFacts, Taken
  <2> QED BY <2>1
<1>2. c \in 0..Packets /\ Head(outbound).index = c % IndexModulus
  <2>1. Head(outbound) = Packet(c) /\ c \in 0..Packets
    BY <1>1, MessageFacts
  <2> QED BY <2>1, MessageFacts
<1>3. c % IndexModulus = (n + 1) % IndexModulus
  BY <1>2 DEF Fits
<1>4. Bounded /\ UpToPacket
  BY DEF OutboundInOrder, Transferring
<1>5. c \in n..(n + 1 + spare) /\ (Sending => c <= packet)
  <2>1. BeforeEOT(1)
    BY <1>1 DEF BeforeEOT
  <2> QED BY <1>1, <1>4, <2>1 DEF Bounded, UpToPacket, IsPacket
<1>6. n \in Nat /\ spare \in Nat /\ spare <= MaxPrompts /\ c \in Nat
  <2>1. n \in Nat /\ c \in Nat
    BY <1>2, TypeFacts, Assumed
  <2>2. spare \in 0..MaxPrompts
    BY DEF YmodemTypeOK
  <2> QED BY <2>1, <2>2, Assumed
<1>7. IndexModulus \in Nat \ {0} /\ MaxPrompts \in Nat /\ IndexModulus > MaxPrompts + 1
  BY Assumed
<1> HIDE DEF c, n, YmodemInv
<1>8. c = n + 1
  <2>1. CASE c = n
    <3>1. n <= n + 1 /\ (n + 1) - n < IndexModulus /\ n % IndexModulus = (n + 1) % IndexModulus /\ n + 1 \in Nat
      BY <1>3, <1>6, <1>7, <2>1
    <3>2. n = n + 1
      BY ONLY <1>6, <1>7, <3>1, SameRemainder
    <3> QED BY <1>6, <3>2
  <2>2. CASE c >= n + 1
    <3>1. n + 1 <= c /\ c - (n + 1) < IndexModulus /\ (n + 1) % IndexModulus = c % IndexModulus /\ n + 1 \in Nat
      BY <1>3, <1>5, <1>6, <1>7, <2>2
    <3> QED BY ONLY <1>6, <1>7, <3>1, SameRemainder
  <2> QED BY <1>5, <1>6, <2>1, <2>2
<1> QED BY <1>2, <1>5, <1>8 DEF c, n

LEMMA TakesPacketInv ==
    ASSUME YmodemInv, TakesPacket, controller # "gone"
    PROVE  YmodemInv'
<1> USE DEF YmodemInv, TakesPacket, TakesAnyPacket
<1>1. refusals' \in 0..MaxRefusals
  BY DEF YmodemTypeOK
<1>2. step \in Transfer /\ controller \notin Handshakes
  BY WhenTransferring
<1>3. Head(outbound) # Command("EOT")
  BY MessageFacts
<1>4. CASE ~Fits(Head(outbound)) /\ Answers(controller, stored, <<"NAK">>)
  BY <1>1, <1>4, RefusalInv DEF Nak
<1>5. CASE Fits(Head(outbound)) /\ controller = "header" /\ Answers("data", stored, <<"ACK", "C">>)
  <2>1. /\ YmodemTypeOK' /\ Loops' /\ Starting' /\ ReadyLast' /\ SpareForPrompts' /\ StoredInOrder'
        /\ Acks \in Nat /\ Acks' = Acks + (IF AckAndPrompt = Nak THEN 0 ELSE 1)
    BY <1>1, <1>5, AnswerInv DEF AckAndPrompt
  <2> USE <1>5 DEF Answers, clientVars
  <2>2. Acks' = Acks + 1
    BY <2>1 DEF AckAndPrompt, Nak
  <2>3. Granted' = Granted + 1 /\ Granted \in Nat /\ packet \in Nat
    <3>1. Len(stored) \in Nat /\ spare \in Nat
      BY Numbers, TypeFacts
    <3> QED BY <3>1, Numbers DEF Granted
  <2>4. AcksEarned'
    <3>1. ASSUME Sending' PROVE packet' + Acks' <= Granted'
      <4>1. packet + Acks <= Granted /\ packet' = packet
        BY <3>1 DEF AcksEarned, Sending
      <4> QED BY ONLY <2>1, <2>2, <2>3, <4>1
    <3> QED BY <1>2, <3>1 DEF AcksEarned, Transfer
  <2>5. NothingStored'
    BY <1>2 DEF NothingStored, Underway, Sending, Transfer, Handshakes
  <2>6. OutboundInOrder'
    BY <1>2, <1>3, OrderOfRest
  <2> QED BY <2>1, <2>4, <2>5, <2>6
<1>6. CASE Fits(Head(outbound)) /\ controller = "data" /\ Answers("data", Append(stored, Head(outbound).content), <<"ACK">>)
  <2> DEFINE s == Append(stored, Len(stored) + 1)
  <2>1. /\ Head(outbound).content = Len(stored) + 1 /\ Len(stored) + 1 <= Packets
        /\ Sending => Len(stored) + 1 <= packet
    BY <1>2, <1>6, IndexTells
  <2>2. /\ YmodemTypeOK' /\ Loops' /\ Starting' /\ ReadyLast' /\ SpareForPrompts' /\ StoredInOrder'
        /\ Acks \in Nat /\ Acks' = Acks + (IF Ack = Nak THEN 0 ELSE 1) /\ (s # stored => Len(s) = Len(stored) + 1)
    BY <1>1, <1>6, <2>1, AnswerInv DEF Ack
  <2> USE <1>6 DEF Answers, clientVars
  <2>3. stored' = s /\ Len(s) = Len(stored) + 1 /\ Len(stored) \in Nat
    <3>1. Len(stored) \in Nat /\ stored \in Seq(1..Packets) /\ Len(stored) + 1 \in 1..Packets
      <4>1. Len(stored) \in Nat /\ stored \in Seq(1..Packets) /\ Packets \in Nat
        BY TypeFacts, Assumed
      <4> QED BY ONLY <2>1, <4>1
    <3>2. Len(s) = Len(stored) + 1
      BY ONLY <3>1, Appended
    <3> QED BY <2>1, <3>1, <3>2
  <2> HIDE DEF s
  <2>4. Acks' = Acks + 1
    BY <2>2 DEF Ack, Nak
  <2>5. Granted' = Granted + 1 /\ Granted \in Nat /\ packet \in Nat /\ spare \in Nat
    BY <2>3, Numbers DEF Granted
  <2>6. AcksEarned'
    <3>1. ASSUME Sending' PROVE packet' + Acks' <= Granted'
      <4>1. packet + Acks <= Granted /\ packet' = packet
        BY <3>1 DEF AcksEarned, Sending
      <4> QED BY ONLY <2>2, <2>4, <2>5, <4>1
    <3>2. Packets <= Len(stored) + spare => Packets <= Len(stored') + spare'
      BY <2>3, <2>5, Assumed
    <3>3. (step \in {"EOT", "closing", "done"} => Packets <= Len(stored) + spare)'
      BY <3>2 DEF AcksEarned
    <3> QED BY <1>2, <3>1, <3>3 DEF AcksEarned, Transfer
  <2>7. NothingStored'
    BY <1>2, <2>1, <2>3 DEF NothingStored, Underway, Sending, Transfer, Handshakes
  <2>8. OutboundInOrder'
    BY <1>2, <2>1, <2>3, OrderOfRest
  <2> QED BY <2>2, <2>6, <2>7, <2>8
<1>7. CASE Fits(Head(outbound)) /\ controller = "closing" /\ Answers("restart", stored, <<"ACK">>)
  <2>1. /\ YmodemTypeOK' /\ Loops' /\ Starting' /\ ReadyLast' /\ SpareForPrompts' /\ StoredInOrder'
    BY <1>1, <1>7, AnswerInv DEF Ack
  <2> USE <1>7 DEF Answers, clientVars
  <2>2. ~Sending
    BY DEF NothingStored
  <2>3. AcksEarned' /\ NothingStored'
    BY <1>2, <2>2 DEF AcksEarned, NothingStored, Underway, Sending, Transfer, Handshakes
  <2>4. OutboundInOrder'
    BY <1>2, <1>3, OrderOfRest
  <2> QED BY <2>1, <2>3, <2>4
<1> QED BY <1>4, <1>5, <1>6, <1>7


LEMMA TakesCommandInv ==
    ASSUME YmodemInv, TakesCommand, controller # "gone"
    PROVE  YmodemInv'
<1> USE DEF YmodemInv, Takes
<1>1. refusals' = refusals /\ refusals' \in 0..MaxRefusals
  BY DEF YmodemTypeOK, TakesCommand
<1>2. step \in Running /\ outbound # <<>> /\ outbound' = Tail(outbound)
      /\ UNCHANGED <<step, tries, reads, acks, packet, retry, spare, queue, prompts, merged>>
  BY DEF TakesCommand, Answers, clientVars
<1>3. /\ outbound' \in Seq(Messages) /\ Head(outbound) = outbound[1]
      /\ Len(outbound) \in Nat \ {0} /\ DOMAIN outbound = 1..Len(outbound) /\ 1 \in DOMAIN outbound
      /\ Len(outbound') = Len(outbound) - 1
      /\ \A i \in DOMAIN outbound' : outbound'[i] = outbound[i + 1] /\ i + 1 \in DOMAIN outbound
  BY <1>2, OutTaken
<1>4. /\ Acks \in Nat /\ Granted \in Nat
      /\ Count(outbound, {Command("blank")}) \in Nat /\ Count(outbound', {Command("blank")}) \in Nat
      /\ Count(outbound, {Command("blank")}) =
            Count(outbound', {Command("blank")}) + (IF Head(outbound) = Command("blank") THEN 1 ELSE 0)
      /\ Count(inbound, {"ACK"}) \in Nat /\ Count(queue, ReadsFirst("ACK")) \in Nat
  BY <1>2, OutTaken, Numbers, TypeFacts
<1>5. stored' = stored => StoredInOrder'
  BY DEF StoredInOrder
<1>6. CASE /\ Head(outbound) = Command("newline") /\ controller \in Handshakes
           /\ Answers(controller, stored, <<controller>>)
  <2> USE <1>6 DEF Answers
  <2>1. controller \in Replies /\ controller # "C" /\ controller # "ACK" /\ controller # "ready"
    BY DEF Handshakes, Replies
  <2>2. inbound' = Append(inbound, controller)
    <3>1. inbound \in Seq(Replies)
      BY TypeFacts
    <3> QED BY <2>1, <3>1, ConcatFacts
  <2>3. /\ inbound' \in Seq(Replies)
        /\ DOMAIN inbound = 1..Len(inbound) /\ Len(inbound) \in Nat
        /\ DOMAIN inbound' = 1..(Len(inbound) + 1)
        /\ \A i \in DOMAIN inbound : inbound'[i] = inbound[i]
        /\ inbound'[Len(inbound) + 1] = controller
        /\ Count(inbound', {"C"}) = Count(inbound, {"C"}) + 0
        /\ Count(inbound, {"C"}) \in Nat
    BY <2>1, <2>2, Replied
  <2>4. step \in {"handshake", "ready"} /\ Only(Handshakes)
    BY <1>2 DEF Starting, Underway, Running, Transfer
  <2>5. Only(Handshakes)'
    BY <1>2, <2>3, <2>4 DEF Only
  <2>6. YmodemTypeOK'
    BY <1>1, <1>2, <1>3, <2>3 DEF YmodemTypeOK, Messages
  <2>7. Starting'
    BY <1>2, <1>3, <2>4, <2>5 DEF Starting, Transfer
  <2>8. ReadyLast'
    BY <2>5 DEF ReadyLast, Only, Handshakes
  <2>9. SpareForPrompts'
    <3>1. Count(inbound', {"C"}) = Count(inbound, {"C"})
      BY ONLY <2>3
    <3> QED BY <1>2, <3>1 DEF SpareForPrompts
  <2>10. Loops' /\ AcksEarned' /\ NothingStored' /\ OutboundInOrder'
    BY <1>2, <2>4 DEF Loops, AcksEarned, NothingStored, OutboundInOrder, Underway, Sending, Transferring, Transfer, Handshakes
  <2> QED BY <1>5, <2>6, <2>7, <2>8, <2>9, <2>10
<1>7. CASE Head(outbound) = Command("newline") /\ controller = "header" /\ Answers(controller, stored, <<>>)
  <2> USE <1>7 DEF Answers
  <2>1. inbound' = inbound
    BY TypeFacts, ConcatFacts
  <2>2. Head(outbound) # Command("blank") /\ Head(outbound) # Command("F") /\ Head(outbound) # Command("EOT")
    BY MessageFacts
  <2>3. step \in Transfer
    <3>1. step \notin {"handshake", "ready", "activate"}
      BY <1>2, <1>3, <2>2 DEF Starting, Handshakes
    <3> QED BY <1>2, <3>1 DEF Running
  <2>4. YmodemTypeOK'
    BY <1>1, <1>2, <1>3, <2>1 DEF YmodemTypeOK, Messages
  <2>5. Starting' /\ ReadyLast' /\ SpareForPrompts' /\ Loops' /\ NothingStored'
    BY <1>2, <1>3, <2>3 DEF Starting, ReadyLast, SpareForPrompts, Loops, NothingStored, Underway, Sending, Transfer, Handshakes
  <2>6. AcksEarned'
    <3>1. Acks' = Acks /\ Granted' = Granted
      <4>1. Count(outbound', {Command("blank")}) = Count(outbound, {Command("blank")})
        BY <1>4, <2>2
      <4> QED BY <1>2, <2>1, <4>1 DEF Acks, Granted
    <3> QED BY <1>2, <3>1 DEF AcksEarned, Sending
  <2>7. OutboundInOrder'
    BY <1>2, <2>2, <2>3, OrderOfRest
  <2> QED BY <1>5, <2>4, <2>5, <2>6, <2>7
<1>8. CASE Head(outbound) = Command("F") /\ Answers("header", stored, <<"ready">>)
  <2> USE <1>8 DEF Answers
  <2>1. Command("F") # Command("newline") /\ Command("F") # Command("blank")
    BY MessageFacts
  <2>2. step = "ready" /\ controller \in Handshakes
    <3>1. step \notin {"handshake", "activate"} \cup Transfer
      BY <1>2, <1>3, <2>1 DEF Starting
    <3> QED BY <1>2, <3>1 DEF Starting, Running
  <2>3. outbound' = <<>>
    <3>1. 1 = Len(outbound)
      BY <1>3, <2>1, <2>2 DEF Starting
    <3>2. Len(outbound') = 0 /\ outbound' \in Seq(Messages)
      BY <1>3, <3>1
    <3> QED BY ONLY <3>2, EmptySeq
  <2>4. Only(Handshakes)
    BY <2>2 DEF Starting, Underway, Running
  <2>5. "ready" \in Replies /\ inbound' = Append(inbound, "ready")
    <3>1. inbound \in Seq(Replies) /\ "ready" \in Replies
      BY TypeFacts DEF Replies
    <3> QED BY <3>1, ConcatFacts
  <2>6. /\ inbound' \in Seq(Replies)
        /\ DOMAIN inbound = 1..Len(inbound) /\ Len(inbound) \in Nat
        /\ DOMAIN inbound' = 1..(Len(inbound) + 1)
        /\ \A i \in DOMAIN inbound : inbound'[i] = inbound[i]
        /\ Count(inbound', {"C"}) = Count(inbound, {"C"}) + 0
        /\ Count(inbound, {"C"}) \in Nat
    BY <2>5, Replied
  <2>7. YmodemTypeOK'
    BY <1>1, <1>2, <1>3, <2>6 DEF YmodemTypeOK, Messages
  <2>8. Starting' /\ Loops' /\ AcksEarned' /\ NothingStored' /\ OutboundInOrder'
    BY <1>2, <2>2, <2>3 DEF Starting, Loops, AcksEarned, NothingStored, OutboundInOrder, Underway, Sending, Transferring,
                            Transfer, Handshakes
  <2>9. ReadyLast'
    <3>1. \A i \in DOMAIN inbound' : inbound'[i] = "ready" => i = Len(inbound) + 1
      BY <2>4, <2>6 DEF Only, Handshakes
    <3>2. \A j \in DOMAIN queue' : \A i \in DOMAIN queue'[j] : queue'[j][i] # "ready"
      BY <1>2, <2>4 DEF Only, Handshakes
    <3> QED BY <2>6, <3>1, <3>2 DEF ReadyLast
  <2>10. SpareForPrompts'
    <3>1. Count(inbound', {"C"}) = Count(inbound, {"C"})
      BY ONLY <2>6
    <3> QED BY <1>2, <3>1 DEF SpareForPrompts
  <2> QED BY <1>5, <2>7, <2>8, <2>9, <2>10
<1>9. CASE Head(outbound) = Command("blank") /\ Answers(controller, stored, <<"ACK">>)
  <2> USE <1>9 DEF Answers
  <2>1. /\ Command("blank") # Command("newline") /\ Command("blank") # Command("F") /\ Command("blank") # Command("EOT")
    BY MessageFacts
  <2>2. "ACK" \in Replies /\ inbound' = Append(inbound, "ACK")
    <3>1. inbound \in Seq(Replies) /\ "ACK" \in Replies
      BY TypeFacts DEF Replies
    <3> QED BY <3>1, ConcatFacts
  <2>3. /\ inbound' \in Seq(Replies)
        /\ DOMAIN inbound = 1..Len(inbound) /\ Len(inbound) \in Nat
        /\ DOMAIN inbound' = 1..(Len(inbound) + 1)
        /\ \A i \in DOMAIN inbound : inbound'[i] = inbound[i]
        /\ inbound'[Len(inbound) + 1] = "ACK"
        /\ Count(inbound', {"C"}) = Count(inbound, {"C"}) + 0 /\ Count(inbound, {"C"}) \in Nat
        /\ Count(inbound', {"ACK"}) = Count(inbound, {"ACK"}) + 1
    BY <2>2, Replied
  <2>4. step \in {"activate"} \cup Transfer /\ controller \notin Handshakes
    <3>1. step \notin {"handshake", "ready"}
      BY <1>3 DEF Starting
    <3>2. step \in {"activate"} \cup Transfer
      BY <1>2, <3>1 DEF Running
    <3> QED BY <3>2 DEF Starting, Underway, Running, Transfer
  <2>5. YmodemTypeOK'
    BY <1>1, <1>2, <1>3, <2>3 DEF YmodemTypeOK, Messages
  <2>6. Starting'
    BY <1>2, <1>3, <2>3, <2>4 DEF Starting, Only, Transfer, Handshakes
  <2>7. ReadyLast' /\ Loops' /\ NothingStored'
    BY <1>2, <2>4 DEF ReadyLast, Loops, NothingStored, Underway, Sending, Transfer
  <2>8. SpareForPrompts'
    <3>1. Count(inbound', {"C"}) = Count(inbound, {"C"})
      BY ONLY <2>3
    <3> QED BY <1>2, <3>1 DEF SpareForPrompts
  <2>9. AcksEarned'
    <3>1. Acks' = Acks
      BY <1>2, <1>4, <2>3 DEF Acks
    <3>2. Granted' = Granted
      BY <1>2 DEF Granted
    <3> QED BY <1>2, <3>1, <3>2 DEF AcksEarned, Sending
  <2>10. OutboundInOrder'
    <3>1. CASE step \in Transfer
      BY <1>2, <2>1, <3>1, OrderOfRest
    <3>2. CASE step = "activate"
      BY <1>2, <3>2 DEF OutboundInOrder, Transferring, Transfer
    <3> QED BY <2>4, <3>1, <3>2
  <2> QED BY <1>5, <2>5, <2>6, <2>7, <2>8, <2>9, <2>10
<1>10. CASE Head(outbound) = Command("EOT") /\ controller = "data" /\ Answers("closing", stored, <<"ACK">>)
  <2>1. Head(outbound).kind \in {"packet", "EOT"}
    BY <1>10, MessageFacts
  <2>2. /\ YmodemTypeOK' /\ Loops' /\ Starting' /\ ReadyLast' /\ SpareForPrompts' /\ StoredInOrder'
        /\ step \in Transfer
    BY <1>1, <1>2, <1>10, <2>1, AnswerInv DEF Ack
  <2> USE <1>10 DEF Answers
  <2>3. ~Sending
    BY <1>3, <2>2 DEF OutboundInOrder, EOTLast, NoEOT, EOTAt, Transferring
  <2>4. AcksEarned' /\ NothingStored'
    BY <1>2, <2>2, <2>3 DEF AcksEarned, NothingStored, Underway, Sending, Transfer, Handshakes
  <2>5. OutboundInOrder'
    BY <1>2, <2>2, OrderOfRest
  <2> QED BY <2>2, <2>4, <2>5
<1>11. CASE Head(outbound) = Command("EOT") /\ controller # "data" /\ Answers(controller, stored, <<"NAK">>)
  BY <1>1, <1>2, <1>11, RefusalInv DEF Nak
<1> QED BY <1>6, <1>7, <1>8, <1>9, <1>10, <1>11 DEF TakesCommand, Handshakes


LEMMA PromptsInv ==
    ASSUME YmodemInv, Prompts
    PROVE  YmodemInv'
<1> USE Assumed DEF YmodemInv, Prompts, clientVars
<1>1. /\ inbound' \in Seq(Replies)
      /\ DOMAIN inbound = 1..Len(inbound) /\ Len(inbound) \in Nat
      /\ DOMAIN inbound' = 1..(Len(inbound) + 1)
      /\ \A i \in DOMAIN inbound : inbound'[i] = inbound[i]
      /\ inbound'[Len(inbound) + 1] = "C"
      /\ Count(inbound', {"C"}) = Count(inbound, {"C"}) + 1 /\ Count(inbound, {"C"}) \in Nat
      /\ Count(inbound', {"ACK"}) = Count(inbound, {"ACK"}) + 0 /\ Count(inbound, {"ACK"}) \in Nat
  <2>1. "C" \in Replies
    BY DEF Replies
  <2> QED BY <2>1, Replied
<1>2. YmodemTypeOK'
  BY <1>1 DEF YmodemTypeOK
<1>3. Starting'
  BY <1>1 DEF Starting, Only, Handshakes
<1>4. ReadyLast'
  BY SMTT(30), <1>1 DEF ReadyLast
<1>5. SpareForPrompts'
  <2>1. spare \in Nat /\ prompts \in Nat /\ Count(queue, ReadsFirst("C")) \in Nat
    BY TypeFacts DEF YmodemTypeOK
  <2> QED BY <1>1, <2>1 DEF SpareForPrompts
<1>6. AcksEarned'
  <2>1. Count(inbound', {"ACK"}) = Count(inbound, {"ACK"})
    BY ONLY <1>1
  <2>2. Acks' = Acks /\ Granted' = Granted
    BY <2>1 DEF Acks, Granted
  <2> QED BY <2>2 DEF AcksEarned, Sending
<1>7. Loops' /\ NothingStored' /\ OutboundInOrder' /\ StoredInOrder'
  BY DEF Loops, NothingStored, OutboundInOrder, StoredInOrder, Underway, Sending, Transferring,
         Bounded, Sorted, EOTLast, AfterEOT, UpToPacket, IsPacket, EOTAt, BeforeEOT, NoEOT
<1> QED BY <1>2, <1>3, <1>4, <1>5, <1>6, <1>7

(* Nothing is taken any more when the controller is gone. *)
LEMMA GoneInv ==
    ASSUME YmodemInv, step \in Running \/ controller = "gone", controller' = "gone", outbound' = <<>>, inbound' \in {inbound, <<>>},
           UNCHANGED <<clientVars, queue, stored, faultVars>>
    PROVE  YmodemInv'
<1> USE Assumed DEF YmodemInv, clientVars, faultVars
<1>1. /\ Acks \in Nat /\ Acks' \in Nat /\ Acks' <= Acks
      /\ Granted \in Nat /\ Granted' \in Nat /\ Granted <= Granted' /\ packet \in Nat
      /\ Count(inbound', {"C"}) <= Count(inbound, {"C"}) /\ Count(inbound', {"C"}) \in Nat
  <2>1. \A x : Count(inbound', {x}) \in Nat /\ Count(inbound', {x}) <= Count(inbound, {x})
    BY CountEmpty, TypeFacts
  <2>2. Count(outbound', {Command("blank")}) = 0 /\ Count(outbound, {Command("blank")}) \in Nat
    BY CountEmpty, TypeFacts
  <2>3. Count(queue', ReadsFirst("ACK")) = Count(queue, ReadsFirst("ACK")) /\ Count(queue, ReadsFirst("ACK")) \in Nat
    BY TypeFacts
  <2>4. Acks \in Nat /\ Acks' \in Nat /\ Acks' <= Acks
    <3>1. Count(inbound', {"ACK"}) \in Nat /\ Count(inbound, {"ACK"}) \in Nat /\ Count(inbound', {"ACK"}) <= Count(inbound, {"ACK"})
      BY <2>1, TypeFacts
    <3> QED BY ONLY <2>2, <2>3, <3>1 DEF Acks
  <2>5. Granted \in Nat /\ Granted' \in Nat /\ Granted <= Granted' /\ packet \in Nat
    <3>1. Len(stored) \in Nat /\ spare \in Nat /\ packet \in Nat
      BY Numbers, TypeFacts
    <3> QED BY <3>1 DEF Granted
  <2> QED BY <2>1, <2>4, <2>5
<1>2. YmodemTypeOK'
  <2>1. outbound' \in Seq(Messages) /\ inbound' \in Seq(Replies)
    BY TypeFacts, EmptySeq
  <2> QED BY <2>1 DEF YmodemTypeOK, Messages
<1>3. \A S : Only(S) => Only(S)'
  BY DEF Only
<1>4. Starting'
  <2>1. controller \in Handshakes /\ Underway => step \in {"connecting", "handshake", "ready"}
    BY DEF Starting
  <2>2. step \in {"connecting", "handshake"} => Only(Handshakes)
    BY DEF Starting
  <2>3. step = "activate" => Only({"ACK", "C"})
    BY DEF Starting
  <2>4. step # "connecting"
    BY DEF Starting, Running, Transfer, Handshakes
  <2> QED BY <1>3, <2>1, <2>2, <2>3, <2>4 DEF Starting, Handshakes
<1>5. ReadyLast'
  BY DEF ReadyLast
<1>6. SpareForPrompts'
  <2>1. Count(inbound, {"C"}) \in Nat /\ Count(queue, ReadsFirst("C")) \in Nat
    BY TypeFacts
  <2>2. spare \in Nat /\ prompts \in Nat
    BY DEF YmodemTypeOK
  <2> QED BY <1>1, <2>1, <2>2 DEF SpareForPrompts
<1>7. AcksEarned'
  <2>1. ASSUME Sending PROVE packet + Acks' <= Granted'
    <3>1. packet + Acks <= Granted
      BY <2>1 DEF AcksEarned
    <3>2. packet + Acks' <= Granted
      BY ONLY <1>1, <3>1, Fewer
    <3> QED BY ONLY <1>1, <3>2, Looser
  <2>2. step = "activate" => Acks' <= 1 + spare
    <3>1. spare \in Nat /\ (step = "activate" => Acks <= 1 + spare)
      BY Numbers DEF AcksEarned
    <3> QED BY <1>1, <3>1
  <2> QED BY <2>1, <2>2 DEF AcksEarned, Sending
<1>8. Loops' /\ NothingStored' /\ OutboundInOrder' /\ StoredInOrder'
  BY DEF Loops, NothingStored, OutboundInOrder, StoredInOrder, Underway, Sending, Handshakes
<1> QED BY <1>2, <1>4, <1>5, <1>6, <1>7, <1>8

LEMMA DataArrivesInv ==
    ASSUME YmodemInv, NEW n \in 1..2, DataArrives(n)
    PROVE  YmodemInv'
<1> DEFINE read == SubSeq(inbound, 1, n)
<1>0. /\ YmodemTypeOK /\ Loops /\ Starting /\ ReadyLast /\ SpareForPrompts
      /\ AcksEarned /\ NothingStored /\ OutboundInOrder /\ StoredInOrder
  BY DEF YmodemInv
<1>14. /\ n <= Len(inbound) /\ merged' = merged + (n - 1) /\ merged + (n - 1) <= MaxMerged
       /\ queue' = Append(queue, read) /\ inbound' = SubSeq(inbound, n + 1, Len(inbound))
       /\ UNCHANGED <<step, tries, reads, acks, packet, retry, spare, outbound, controller, stored, prompts, refusals>>
  BY DEF DataArrives, clientVars
<1>1. /\ inbound \in Seq(Replies) /\ queue \in Seq(Reads1) /\ Len(inbound) \in Nat /\ DOMAIN inbound = 1..Len(inbound)
      /\ n \in Nat /\ 1 <= n /\ n <= Len(inbound)
  BY <1>0, <1>14, TypeFacts
<1>2. /\ read \in Seq(Replies) /\ Len(read) = n /\ DOMAIN read = 1..n
      /\ \A i \in 1..n : read[i] = inbound[i]
      /\ inbound' \in Seq(Replies) /\ Len(inbound') = Len(inbound) - n /\ DOMAIN inbound' = 1..(Len(inbound) - n)
      /\ \A i \in 1..(Len(inbound) - n) : inbound'[i] = inbound[i + n]
  <2>1. inbound' = SubSeq(inbound, n + 1, Len(inbound))
    BY <1>14
  <2>2. /\ SubSeq(inbound, 1, n) \in Seq(Replies) /\ Len(SubSeq(inbound, 1, n)) = n
        /\ DOMAIN SubSeq(inbound, 1, n) = 1..n
        /\ \A i \in 1..n : SubSeq(inbound, 1, n)[i] = inbound[i]
    BY ONLY <1>1, CutInTwo
  <2>3. /\ inbound' \in Seq(Replies) /\ Len(inbound') = Len(inbound) - n /\ DOMAIN inbound' = 1..(Len(inbound) - n)
        /\ \A i \in 1..(Len(inbound) - n) : inbound'[i] = inbound[i + n]
    <3> HIDE DEF read
    <3>1. inbound \in Seq(Replies) /\ n \in Nat /\ 1 <= n /\ n <= Len(inbound)
      BY ONLY <1>1
    <3>2. inbound' \in Seq(Replies)
      BY ONLY <2>1, <3>1, Rest
    <3>3. Len(inbound') = Len(inbound) - n /\ DOMAIN inbound' = 1..(Len(inbound) - n)
      BY ONLY <2>1, <3>1, Rest
    <3>4. \A i \in 1..(Len(inbound) - n) : inbound'[i] = inbound[i + n]
      BY ONLY <2>1, <3>1, Rest
    <3> QED BY <3>2, <3>3, <3>4
  <2> QED BY <2>2, <2>3
<1>3. /\ DOMAIN read = 1..n /\ DOMAIN inbound' = 1..(Len(inbound) - n) /\ read # <<>> /\ read \in Reads1
      /\ read[1] = inbound[1]
  <2>1. 1 \in 1..n
    BY ONLY <1>1
  <2> HIDE DEF read
  <2>2. read # <<>>
    BY <1>2, <2>1
  <2> QED BY <1>2, <2>1, <2>2 DEF Reads1
<1>4. queue' = Append(queue, read)
  BY <1>14
<1> HIDE DEF read
<1>5. /\ queue' \in Seq(Reads1) /\ Len(queue) \in Nat /\ DOMAIN queue = 1..Len(queue)
      /\ DOMAIN queue' = 1..(Len(queue) + 1)
      /\ \A j \in DOMAIN queue : queue'[j] = queue[j]
      /\ queue'[Len(queue) + 1] = read
  BY <1>1, <1>3, <1>4, Appended
<1>6. ASSUME NEW x
      PROVE  /\ Count(inbound, {x}) \in Nat /\ Count(inbound', {x}) \in Nat
             /\ Count(queue, ReadsFirst(x)) \in Nat /\ Count(queue', ReadsFirst(x)) \in Nat
             /\ Count(inbound', {x}) + Count(queue', ReadsFirst(x)) <= Count(inbound, {x}) + Count(queue, ReadsFirst(x))
  <2>1. Count(inbound', {x}) + (IF inbound[1] \in {x} THEN 1 ELSE 0) <= Count(inbound, {x})
    BY <1>1, <1>2, CountRest
  <2>2. Count(queue', ReadsFirst(x)) = Count(queue, ReadsFirst(x)) + (IF read \in ReadsFirst(x) THEN 1 ELSE 0)
    BY <1>1, <1>3, <1>4, CountAppend
  <2>3. read \in ReadsFirst(x) <=> inbound[1] = x
    BY <1>3 DEF ReadsFirst, Reads1
  <2>4. /\ Count(inbound, {x}) \in Nat /\ Count(inbound', {x}) \in Nat
        /\ Count(queue, ReadsFirst(x)) \in Nat /\ Count(queue', ReadsFirst(x)) \in Nat
    BY <1>1, <1>2, <1>5, CountSet
  <2>5. CASE inbound[1] = x
    BY ONLY <2>1, <2>2, <2>3, <2>4, <2>5
  <2>6. CASE inbound[1] # x
    BY ONLY <2>1, <2>2, <2>3, <2>4, <2>6
  <2> QED BY <2>4, <2>5, <2>6
<1>7. YmodemTypeOK'
  <2>1. merged' \in 0..MaxMerged
    BY <1>0, <1>1, <1>14, Assumed DEF YmodemTypeOK
  <2> QED BY <1>0, <1>14, <1>2, <1>5, <2>1 DEF YmodemTypeOK, Reads1
<1>8. \A S : Only(S) => Only(S)'
  <2> SUFFICES ASSUME NEW S, Only(S) PROVE Only(S)'
    OBVIOUS
  <2>1. ASSUME NEW i \in DOMAIN inbound' PROVE inbound'[i] \in S
    <3>1. i + n \in DOMAIN inbound /\ inbound'[i] = inbound[i + n]
      <4>1. i \in 1..(Len(inbound) - n) /\ n \in Nat /\ Len(inbound) \in Nat /\ n <= Len(inbound)
        BY <1>1, <1>2, <2>1
      <4>2. i + n \in 1..Len(inbound)
        BY ONLY <4>1
      <4> QED BY <1>1, <1>2, <4>1, <4>2
    <3> QED BY <3>1 DEF Only
  <2>2. ASSUME NEW j \in DOMAIN queue', NEW i \in DOMAIN queue'[j] PROVE queue'[j][i] \in S
    <3>1. CASE j \in DOMAIN queue
      BY <1>5, <2>2, <3>1 DEF Only
    <3>2. CASE j = Len(queue) + 1
      <4>1. i \in 1..n /\ i \in DOMAIN inbound
        BY <1>1, <1>3, <1>5, <2>2, <3>2
      <4> QED BY <1>2, <1>5, <3>2, <4>1 DEF Only
    <3> QED BY <1>5, <3>1, <3>2
  <2> QED BY <2>1, <2>2 DEF Only
<1>9. Starting'
  <2>1. controller \in Handshakes /\ Underway => step \in {"connecting", "handshake", "ready"} /\ Only(Handshakes)
    BY <1>0 DEF Starting
  <2>2. step \in {"connecting", "handshake"} => Only(Handshakes)
    BY <1>0 DEF Starting
  <2>3. step = "activate" => Only({"ACK", "C"})
    BY <1>0 DEF Starting
  <2>4. Underway' = Underway
    BY <1>14 DEF Underway
  <2> QED BY <1>0, <1>8, <1>14, <2>1, <2>2, <2>3, <2>4 DEF Starting
<1>10. ReadyLast'
  <2> SUFFICES ASSUME step = "ready"
               PROVE  /\ \A i \in DOMAIN inbound' : inbound'[i] = "ready" => \A k \in DOMAIN inbound' : k > i => inbound'[k] = "C"
                      /\ \A j \in DOMAIN queue' :
                            (\E i \in DOMAIN queue'[j] : queue'[j][i] = "ready") =>
                               /\ \A i \in DOMAIN inbound' : inbound'[i] = "C"
                               /\ \A k \in DOMAIN queue' : k > j => \A i \in DOMAIN queue'[k] : queue'[k][i] = "C"
    BY <1>14 DEF ReadyLast
  <2>1. /\ \A i \in DOMAIN inbound : inbound[i] = "ready" => \A k \in DOMAIN inbound : k > i => inbound[k] = "C"
        /\ \A j \in DOMAIN queue :
              (\E i \in DOMAIN queue[j] : queue[j][i] = "ready") =>
                 /\ \A i \in DOMAIN inbound : inbound[i] = "C"
                 /\ \A k \in DOMAIN queue : k > j => \A i \in DOMAIN queue[k] : queue[k][i] = "C"
    BY <1>0 DEF ReadyLast
  <2>2. \A i \in DOMAIN inbound' : i + n \in DOMAIN inbound /\ inbound'[i] = inbound[i + n] /\ i + n > n
    BY <1>1, <1>2, <1>3
  <2>3. \A i, k \in DOMAIN inbound' : k > i => k + n > i + n
    BY <1>1, <1>3
  <2>4. \A i \in DOMAIN inbound' : inbound'[i] = "ready" => \A k \in DOMAIN inbound' : k > i => inbound'[k] = "C"
    BY <2>1, <2>2, <2>3
  <2>5. \A i \in DOMAIN read : i \in DOMAIN inbound /\ read[i] = inbound[i] /\ i <= n
    BY <1>1, <1>2, <1>3
  <2>6. ASSUME NEW j \in DOMAIN queue', NEW l \in DOMAIN queue'[j], queue'[j][l] = "ready"
        PROVE  /\ \A i \in DOMAIN inbound' : inbound'[i] = "C"
               /\ \A k \in DOMAIN queue' : k > j => \A i \in DOMAIN queue'[k] : queue'[k][i] = "C"
    <3>1. CASE j \in DOMAIN queue
      <4>1. /\ \A i \in DOMAIN inbound : inbound[i] = "C"
            /\ \A k \in DOMAIN queue : k > j => \A i \in DOMAIN queue[k] : queue[k][i] = "C"
        BY <1>5, <2>1, <2>6, <3>1
      <4>2. ASSUME NEW k \in DOMAIN queue', k > j, NEW i \in DOMAIN queue'[k] PROVE queue'[k][i] = "C"
        <5>1. CASE k \in DOMAIN queue
          BY <1>5, <4>1, <4>2, <5>1
        <5>2. CASE k = Len(queue) + 1
          BY <1>5, <2>5, <4>1, <4>2, <5>2
        <5> QED BY <1>5, <5>1, <5>2
      <4> QED BY <2>2, <4>1, <4>2
    <3>2. CASE j = Len(queue) + 1
      <4>1. l \in DOMAIN inbound /\ inbound[l] = "ready" /\ l <= n /\ l \in Nat
        BY <1>1, <1>5, <2>5, <2>6, <3>2
      <4>2. \A i \in DOMAIN inbound' : i + n > l
        BY <1>1, <1>3, <4>1
      <4>3. \A i \in DOMAIN inbound' : inbound'[i] = "C"
        BY <2>1, <2>2, <4>1, <4>2
      <4>4. \A k \in DOMAIN queue' : ~(k > j)
        BY <1>5, <3>2
      <4> QED BY <4>3, <4>4
    <3> QED BY <1>5, <3>1, <3>2
  <2> QED BY <2>4, <2>6
<1>11. SpareForPrompts'
  <2>1. spare \in Nat /\ prompts \in Nat /\ spare' = spare /\ prompts' = prompts /\ step' = step
    BY <1>0, <1>14 DEF YmodemTypeOK
  <2>2. /\ Count(inbound, {"C"}) \in Nat /\ Count(inbound', {"C"}) \in Nat
        /\ Count(queue, ReadsFirst("C")) \in Nat /\ Count(queue', ReadsFirst("C")) \in Nat
        /\ Count(inbound', {"C"}) + Count(queue', ReadsFirst("C")) <= Count(inbound, {"C"}) + Count(queue, ReadsFirst("C"))
    BY <1>6
  <2> QED BY <1>0, <2>1, <2>2 DEF SpareForPrompts
<1>12. AcksEarned'
  <2>1. /\ Count(inbound, {"ACK"}) \in Nat /\ Count(inbound', {"ACK"}) \in Nat
        /\ Count(queue, ReadsFirst("ACK")) \in Nat /\ Count(queue', ReadsFirst("ACK")) \in Nat
        /\ Count(inbound', {"ACK"}) + Count(queue', ReadsFirst("ACK")) <= Count(inbound, {"ACK"}) + Count(queue, ReadsFirst("ACK"))
    BY <1>6
  <2>2. Count(outbound, {Command("blank")}) \in Nat /\ outbound' = outbound
    BY <1>0, <1>14, TypeFacts
  <2>3. Acks' <= Acks /\ Acks' \in Nat /\ Acks \in Nat
    BY ONLY <2>1, <2>2 DEF Acks
  <2>4. Granted' = Granted /\ Granted \in Nat /\ packet \in Nat /\ spare \in Nat
    BY <1>0, <1>14, Numbers DEF Granted
  <2>5. ASSUME Sending PROVE packet + Acks' <= Granted
    <3>1. packet + Acks <= Granted
      BY <1>0, <2>5 DEF AcksEarned
    <3> QED BY ONLY <2>3, <2>4, <3>1, Fewer
  <2>6. step = "activate" => Acks' <= 1 + spare
    <3>1. step = "activate" => Acks <= 1 + spare
      BY <1>0 DEF AcksEarned
    <3> QED BY ONLY <2>3, <2>4, <3>1
  <2> QED BY <1>0, <1>14, <2>4, <2>5, <2>6 DEF AcksEarned, Sending
<1>13. Loops' /\ NothingStored' /\ OutboundInOrder' /\ StoredInOrder'
  BY <1>0, <1>14 DEF Loops, NothingStored, OutboundInOrder, StoredInOrder, Underway, Sending, Transferring,
         Bounded, Sorted, EOTLast, AfterEOT, UpToPacket, IsPacket, EOTAt, BeforeEOT, NoEOT
<1> QED BY <1>7, <1>9, <1>10, <1>11, <1>12, <1>13 DEF YmodemInv


-----------------------------------------------------------------------------
LEMMA NextInv ==
    ASSUME YmodemInv, [YmodemNext]_ymodemVars
    PROVE  YmodemInv'
<1>1. CASE Client
  BY <1>1, ConnectionMadeInv, HandshakeReadInv, HandshakeTimeoutInv, ReadyReadInv, ActivateReadInv, TransferReadInv,
     RetryPacketInv, UploadTimeoutInv DEF Client
<1>2. CASE ConnectionRefused
  BY <1>2, ConnectionRefusedInv
<1>3. CASE Controller
  BY <1>3, TakesCommandInv, TakesPacketInv DEF Controller
<1>4. CASE RefusesPacket
  BY <1>4, RefusesPacketInv
<1>5. CASE Prompts
  BY <1>5, PromptsInv
<1>6. CASE ControllerGone
  BY <1>6, GoneInv DEF ControllerGone
<1>7. CASE NothingTaken
  BY <1>7, GoneInv DEF NothingTaken
<1>8. CASE \E n \in 1..2 : DataArrives(n)
  BY <1>8, DataArrivesInv
<1>9. CASE UNCHANGED ymodemVars
  <2>1. UNCHANGED <<step, tries, reads, acks, packet, retry, spare, outbound, inbound, queue, controller, stored, prompts,
                    refusals, merged>>
    BY <1>9 DEF ymodemVars, clientVars, faultVars
  <2>2. UNCHANGED <<Acks, Granted, Underway, Transferring, Sending, NoEOT, Sorted>>
    BY <2>1 DEF Acks, Granted, Underway, Transferring, Sending, NoEOT, EOTAt, Sorted, IsPacket, BeforeEOT
  <2>3. YmodemTypeOK' /\ Loops' /\ Starting' /\ ReadyLast' /\ SpareForPrompts'
    BY <2>1, <2>2 DEF YmodemInv, YmodemTypeOK, Loops, Starting, ReadyLast, SpareForPrompts, Only
  <2>4. AcksEarned' /\ NothingStored' /\ StoredInOrder'
    BY <2>1, <2>2 DEF YmodemInv, AcksEarned, NothingStored, StoredInOrder
  <2>5. OutboundInOrder'
    BY <2>1, <2>2 DEF YmodemInv, OutboundInOrder, Bounded, EOTLast, AfterEOT, UpToPacket, IsPacket, EOTAt, BeforeEOT
  <2> QED BY <2>3, <2>4, <2>5 DEF YmodemInv
<1> QED BY <1>1, <1>2, <1>3, <1>4, <1>5, <1>6, <1>7, <1>8, <1>9 DEF YmodemNext

(* The acknowledgements under way are for blanks and packets, so the client  *)
(* is ahead of the controller by at most one packet and one for each blank   *)
(* too many; the packets on their way are in order.  _trigger_ymodem() and   *)
(* _transfer() keep that up at every step.                                   *)
THEOREM UploadInvariant == YmodemSpec => []YmodemInv
BY InitInv, NextInv, PTL DEF YmodemSpec

(* The packets are stored in their order, each once, and the upload is over  *)
(* when all are, but for one for each blank that a prompt took.              *)
THEOREM UploadedIsFile == YmodemSpec => []UploadIsFile
<1>1. YmodemInv => UploadIsFile
  <2> SUFFICES ASSUME YmodemInv PROVE UploadIsFile
    OBVIOUS
  <2>1. step = "done" => Packets <= Len(stored) + spare
    BY DEF YmodemInv, AcksEarned
  <2>2. Len(stored) \in Nat /\ spare \in Nat /\ Packets \in Nat
    BY Numbers, TypeFacts, Assumed DEF YmodemInv
  <2> QED BY <2>1, <2>2 DEF UploadIsFile, DoneMeansStored, StoredInOrder, YmodemInv
<1> QED BY <1>1, UploadInvariant, PTL

(* The variables of an upload have their types.                              *)
THEOREM UploadTypes == YmodemSpec => []YmodemTypeOK
<1>1. YmodemInv => YmodemTypeOK
  BY DEF YmodemInv
<1> QED BY <1>1, UploadInvariant, PTL
=============================================================================
