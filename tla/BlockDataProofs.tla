-------------------------- MODULE BlockDataProofs --------------------------
(***************************************************************************)
(* What users are shown of blocks, part by part:                           *)
(*  - codec/processor.py: what is read and written back comes to the same, *)
(*    and a patch changes what it says.  Rounding comes first, then paths, *)
(*    the conversion of a value and of a block, and the mask of a patch.   *)
(*  - block_analysis.py: the lists that it builds have each relation and   *)
(*    each claim once, and a claim that is followed comes to an end.       *)
(*  - codec/sequence.py: a line that is written is read as the instruction *)
(*    it was; texts and durations first, then arguments, then lines.       *)
(*  - the events of blocks: who waits has one command or answer on its     *)
(*    way.  With it, the types of all the variables.                       *)
(***************************************************************************)
EXTENDS MCBlockData, SequenceTheorems, FiniteSetTheorems, WellFoundedInduction, TLAPS

(* Division of integers, negative ones too. *)
LEMMA Division ==
    ASSUME NEW n \in Int, NEW d \in Nat \ {0}
    PROVE  /\ n \div d \in Int
           /\ n % d \in 0..(d - 1)
           /\ n = d * (n \div d) + (n % d)
OBVIOUS

(* round() gives one of the integers nearest to the fraction. *)
LEMMA RoundIsNearest ==
    ASSUME NEW n \in Int, NEW d \in Nat \ {0}
    PROVE  /\ Round(n, d) \in Int
           /\ 2 * (Round(n, d) * d - n) <= d
           /\ -2 * (Round(n, d) * d - n) <= d
<1> DEFINE q == n \div d
           r == n % d
<1>1. q \in Int /\ r \in 0..(d - 1) /\ n = d * q + r
  BY Division
<1>2. Round(n, d) = IF 2 * r > d \/ (2 * r = d /\ q % 2 = 1) THEN q + 1 ELSE q
  BY DEF Round
<1> HIDE DEF q, r
<1>3. q * d = d * q /\ (q + 1) * d = d * q + d /\ d * q \in Int
  BY <1>1
<1> QED BY <1>1, <1>2, <1>3

(* Nothing is rounded where nothing has to be. *)
LEMMA RoundOfMultiple ==
    ASSUME NEW n \in Int, NEW d \in Nat \ {0}
    PROVE  Round(n * d, d) = n
<1> DEFINE x == Round(n * d, d)
<1>1. n * d \in Int
  OBVIOUS
<1>2. x \in Int /\ 2 * (x * d - n * d) <= d /\ -2 * (x * d - n * d) <= d
  BY <1>1, RoundIsNearest
<1> HIDE DEF x
<1>3. x * d - n * d = (x - n) * d
  BY <1>2
<1>4. CASE x > n
  <2>1. (x - n) * d = (x - n - 1) * d + d /\ (x - n - 1) * d >= 0
    BY <1>2, <1>4
  <2> QED BY <1>2, <1>3, <2>1
<1>5. CASE x < n
  <2>1. (n - x) * d = (n - x - 1) * d + d /\ (n - x - 1) * d >= 0
    BY <1>2, <1>5
  <2>2. (x - n) * d = -((n - x) * d)
    BY <1>2
  <2> QED BY <1>2, <1>3, <2>1, <2>2
<1> QED BY <1>2, <1>4, <1>5 DEF x

-----------------------------------------------------------------------------
(* Paths and what they are in. *)
LEMMA Prefix ==
    ASSUME NEW S, NEW p \in Seq(S), NEW n \in 1..Len(p)
    PROVE  /\ SubSeq(p, 1, n) \in Seq(S)
           /\ Len(SubSeq(p, 1, n)) = n
           /\ \A i \in 1..n : SubSeq(p, 1, n)[i] = p[i]
           /\ \A k \in 1..n : SubSeq(SubSeq(p, 1, n), 1, k) = SubSeq(p, 1, k)
<1>1. /\ SubSeq(p, 1, n) \in Seq(S) /\ Len(SubSeq(p, 1, n)) = n
      /\ \A i \in 1..n : SubSeq(p, 1, n)[i] = p[i]
  BY SubSeqProperties
<1>2. ASSUME NEW k \in 1..n PROVE SubSeq(SubSeq(p, 1, n), 1, k) = SubSeq(p, 1, k)
  <2> DEFINE q == SubSeq(p, 1, n)
  <2>1. /\ SubSeq(p, 1, k) \in Seq(S) /\ Len(SubSeq(p, 1, k)) = k
        /\ \A i \in 1..k : SubSeq(p, 1, k)[i] = p[i]
    BY SubSeqProperties
  <2>2. q \in Seq(S) /\ Len(q) = n /\ \A i \in 1..n : q[i] = p[i]
    BY <1>1
  <2> HIDE DEF q
  <2>3. /\ SubSeq(q, 1, k) \in Seq(S) /\ Len(SubSeq(q, 1, k)) = k
        /\ \A i \in 1..k : SubSeq(q, 1, k)[i] = q[i]
    BY <2>2, SubSeqProperties
  <2>4. SubSeq(q, 1, k) = SubSeq(p, 1, k)
    BY <2>1, <2>2, <2>3
  <2> QED BY <2>4 DEF q
<1> QED BY <1>1, <1>2

LEMMA PathFacts ==
    ASSUME NEW p \in Seq(Int), p # <<>>, \A i \in 1..Len(p) : p[i] # 0
    PROVE  /\ Len(p) \in Nat /\ Len(p) >= 1
           /\ Tags(p) \in Seq(Int) /\ Len(Tags(p)) = Len(p)
           /\ \A i \in 1..Len(p) : Tags(p)[i] = IF p[i] < 0 THEN 0 ELSE p[i]
           /\ SubSeq(p, 1, Len(p)) = p
           /\ Len(p) > 1 => Parent(p) \in Seq(Int) /\ Parent(p) # <<>> /\ Len(Parent(p)) = Len(p) - 1 /\ Parent(p) = SubSeq(p, 1, Len(p) - 1)
           /\ Len(p) = 1 => Parent(p) = <<>>
           /\ Append(Parent(p), p[Len(p)]) = p
<1>0. Len(p) \in Nat /\ Len(p) >= 1
  OBVIOUS
<1>1. PICK l \in Nat : l = Len(p) /\ l >= 1
  BY <1>0
<1>2. /\ Tags(p) \in Seq(Int) /\ Len(Tags(p)) = Len(p)
      /\ \A i \in 1..Len(p) : Tags(p)[i] = IF p[i] < 0 THEN 0 ELSE p[i]
  <2>1. DOMAIN p = 1..Len(p)
    BY <1>0
  <2> QED BY <1>0, <2>1 DEF Tags
<1>3. SubSeq(p, 1, Len(p)) = p
  <2>1. /\ SubSeq(p, 1, Len(p)) \in Seq(Int) /\ Len(SubSeq(p, 1, Len(p))) = Len(p)
        /\ \A i \in 1..Len(p) : SubSeq(p, 1, Len(p))[i] = p[i]
    BY <1>0, Len(p) \in 1..Len(p), Prefix
  <2> QED BY <1>0, <2>1
<1>4. ASSUME l > 1
      PROVE  /\ Parent(p) \in Seq(Int) /\ Parent(p) # <<>> /\ Len(Parent(p)) = l - 1
             /\ \A i \in 1..(l - 1) : Parent(p)[i] = p[i]
  <2>1. l - 1 \in 1..Len(p)
    BY <1>1, <1>4
  <2>2. Parent(p) = SubSeq(p, 1, l - 1)
    BY <1>1 DEF Parent
  <2>3. /\ Parent(p) \in Seq(Int) /\ Len(Parent(p)) = l - 1
        /\ \A i \in 1..(l - 1) : Parent(p)[i] = p[i]
    BY <2>1, <2>2, Prefix
  <2> QED BY <1>1, <1>4, <2>3
<1>5. l = 1 => Parent(p) = <<>>
  BY <1>1 DEF Parent
<1>6. Append(Parent(p), p[Len(p)]) = p
  <2>1. CASE l = 1
    <3>1. PICK x \in Int : x = p[1]
      BY <1>1, <2>1
    <3>2. Append(<<>>, x) \in Seq(Int) /\ Len(Append(<<>>, x)) = 1 /\ Append(<<>>, x)[1] = x
      OBVIOUS
    <3>3. Parent(p) = <<>> /\ Len(p) = 1 /\ p[Len(p)] = x
      BY <1>1, <1>5, <2>1, <3>1
    <3>4. p = Append(<<>>, x)
      BY ONLY p \in Seq(Int), <3>1, <3>2, <3>3
    <3> QED BY ONLY <3>3, <3>4
  <2>2. CASE l > 1
    BY <1>1, <1>4, <2>2
  <2> QED BY <1>1, <2>1, <2>2
<1> QED BY <1>0, <1>1, <1>2, <1>3, <1>4, <1>5, <1>6 DEF Parent

LEMMA TagsOfParent ==
    ASSUME NEW p \in Seq(Int), p # <<>>, \A i \in 1..Len(p) : p[i] # 0, Len(p) > 1
    PROVE  Tags(Parent(p)) = Parent(Tags(p)) /\ Tags(p)[Len(Tags(p))] = IF p[Len(p)] < 0 THEN 0 ELSE p[Len(p)]
<1>1. PICK l \in Nat : l = Len(p) /\ l > 1
  BY PathFacts
<1>2. /\ Tags(p) \in Seq(Int) /\ Len(Tags(p)) = l
      /\ \A i \in 1..l : Tags(p)[i] = IF p[i] < 0 THEN 0 ELSE p[i]
  BY <1>1, PathFacts
<1>3. l - 1 \in 1..l
  BY <1>1
<1>4. /\ Parent(p) \in Seq(Int) /\ Len(Parent(p)) = l - 1
      /\ \A i \in 1..(l - 1) : Parent(p)[i] = p[i]
  BY <1>1, <1>3, Prefix DEF Parent
<1>5. /\ Parent(Tags(p)) \in Seq(Int) /\ Len(Parent(Tags(p))) = l - 1
      /\ \A i \in 1..(l - 1) : Parent(Tags(p))[i] = Tags(p)[i]
  BY <1>2, <1>3, Prefix DEF Parent
<1>6. DOMAIN Parent(p) = 1..(l - 1)
  BY <1>4
<1>7. Tags(Parent(p)) = [i \in 1..(l - 1) |-> IF Parent(p)[i] < 0 THEN 0 ELSE Parent(p)[i]]
  BY <1>6 DEF Tags
<1>8. Parent(Tags(p)) = [i \in 1..(l - 1) |-> Parent(Tags(p))[i]]
  BY <1>5
<1>9. \A i \in 1..(l - 1) : Parent(Tags(p))[i] = IF Parent(p)[i] < 0 THEN 0 ELSE Parent(p)[i]
  <2> SUFFICES ASSUME NEW i \in 1..(l - 1)
               PROVE  Parent(Tags(p))[i] = IF Parent(p)[i] < 0 THEN 0 ELSE Parent(p)[i]
    OBVIOUS
  <2>1. i \in 1..l
    BY <1>1
  <2>2. Parent(Tags(p))[i] = Tags(p)[i] /\ Parent(p)[i] = p[i]
    BY <1>4, <1>5
  <2> QED BY <1>2, <2>1, <2>2
<1> QED BY <1>1, <1>2, <1>7, <1>8, <1>9

(* What a field is in, by the descriptor. *)
LEMMA InPaths ==
    ASSUME NEW P, ArePaths(P), NEW p \in P
    PROVE  /\ p \in Seq(Int) /\ p # <<>> /\ \A i \in 1..Len(p) : p[i] # 0
           /\ Tags(p) \in DOMAIN Fields
           /\ \A n \in 1..Len(p) : SubSeq(p, 1, n) \in P
           /\ Len(p) > 1 => Parent(p) \in P
           /\ p[Len(p)] < 0 => Len(p) > 1 /\ Has(p, "message") /\ Has(Parent(p), "repeated")
           /\ p[Len(p)] > 0 => p[Len(p)] \in 1..9 /\ (Len(p) > 1 => Has(Parent(p), "message"))
           /\ ~(Has(p, "message") /\ Has(p, "repeated"))
<1>1. /\ p \in Seq(Int) /\ p # <<>> /\ \A i \in 1..Len(p) : p[i] # 0
      /\ Tags(p) \in DOMAIN Fields
      /\ \A n \in 1..Len(p) : SubSeq(p, 1, n) \in P
  BY DEF ArePaths
<1>2. PICK l \in Nat : l = Len(p) /\ l >= 1
  BY <1>1, PathFacts
<1>3. l > 1 => Parent(p) \in P
  <2>1. l > 1 => l - 1 \in 1..Len(p)
    BY <1>2
  <2> QED BY <1>1, <1>2, <2>1 DEF Parent
<1>4. /\ Tags(p) \in Seq(Int) /\ Len(Tags(p)) = l
      /\ \A i \in 1..l : Tags(p)[i] = IF p[i] < 0 THEN 0 ELSE p[i]
  BY <1>1, <1>2, PathFacts
<1>5. IsField(Tags(p))
  BY <1>1, CodecAssumption
<1>6. p[l] \in Int /\ p[l] # 0 /\ Tags(p)[l] = IF p[l] < 0 THEN 0 ELSE p[l]
  BY <1>1, <1>2, <1>4
<1>7. Tags(p)[l] \in 0..9
  BY <1>2, <1>4, <1>5 DEF IsField
<1>8. l = 1 => Parent(Tags(p)) = <<>>
  BY <1>4 DEF Parent
<1>9. l > 1 => Tags(Parent(p)) = Parent(Tags(p))
  BY <1>1, <1>2, TagsOfParent
<1>10. <<>> \notin DOMAIN Fields
  BY CodecAssumption DEF IsField
<1>11. ASSUME p[l] < 0 PROVE l > 1 /\ Has(p, "message") /\ Has(Parent(p), "repeated")
  <2>1. "message" \in Fields[Tags(p)] /\ Parent(Tags(p)) \in DOMAIN Fields /\ "repeated" \in Fields[Parent(Tags(p))]
    BY <1>4, <1>5, <1>6, <1>11 DEF IsField
  <2>2. l > 1
    BY <1>2, <1>8, <1>10, <2>1
  <2> QED BY <1>9, <2>1, <2>2 DEF Has, Options
<1>12. ASSUME p[l] > 0 PROVE p[l] \in 1..9 /\ (l > 1 => Has(Parent(p), "message"))
  <2>1. Tags(p)[l] = p[l] /\ p[l] \in 1..9
    BY <1>6, <1>7, <1>12
  <2>2. l > 1 => "message" \in Fields[Parent(Tags(p))]
    BY <1>4, <1>5, <1>12, <2>1 DEF IsField
  <2> QED BY <1>9, <2>1, <2>2 DEF Has, Options
<1>13. ~(Has(p, "message") /\ Has(p, "repeated"))
  BY <1>5 DEF IsField, Has, Options
<1> QED BY <1>1, <1>2, <1>3, <1>11, <1>12, <1>13

LEMMA WithinFacts ==
    ASSUME NEW P, ArePaths(P), NEW p \in P
    PROVE  /\ \A q \in Within(p) : q \in P /\ (q = p \/ Container(q))
           /\ p[Len(p)] > 0 => p \in Within(p)
           /\ \A n \in 1..Len(p) : Within(SubSeq(p, 1, n)) \subseteq Within(p)
           /\ Len(p) > 1 => Within(Parent(p)) \subseteq Within(p)
           /\ \A n \in 1..Len(p) : p[n] < 0 => n > 1 /\ p[n - 1] > 0 /\ Has(SubSeq(p, 1, n - 1), "repeated")
           /\ \A n \in 1..(Len(p) - 1) : Container(SubSeq(p, 1, n))
<1>1. /\ p \in Seq(Int) /\ p # <<>> /\ \A i \in 1..Len(p) : p[i] # 0
      /\ \A n \in 1..Len(p) : SubSeq(p, 1, n) \in P
  BY InPaths
<1>2. PICK l \in Nat : l = Len(p) /\ l >= 1
  BY <1>1, PathFacts
<1>3. SubSeq(p, 1, l) = p
  BY <1>1, <1>2, PathFacts
<1>4. ASSUME NEW n \in 1..l, n < l
      PROVE  /\ Container(SubSeq(p, 1, n))
             /\ p[n + 1] < 0 => Has(SubSeq(p, 1, n), "repeated")
  <2> DEFINE q == SubSeq(p, 1, n + 1)
  <2>1. n + 1 \in 1..Len(p)
    BY <1>2, <1>4
  <2>2. q \in P /\ Len(q) = n + 1 /\ q[n + 1] = p[n + 1] /\ SubSeq(q, 1, n) = SubSeq(p, 1, n)
    <3>1. n \in 1..(n + 1) /\ n + 1 \in 1..(n + 1)
      BY <2>1
    <3> QED BY <1>1, <2>1, <3>1, Prefix
  <2> HIDE DEF q
  <2>3. Parent(q) = SubSeq(p, 1, n)
    BY <2>2 DEF Parent
  <2>4. p[n + 1] \in Int /\ p[n + 1] # 0
    BY <1>1, <2>1
  <2>5. /\ q[Len(q)] < 0 => Has(Parent(q), "repeated")
        /\ q[Len(q)] > 0 => Has(Parent(q), "message")
    BY <2>2, InPaths
  <2> QED BY <2>2, <2>3, <2>4, <2>5 DEF Container
<1>5. \A q \in Within(p) : q \in P /\ (q = p \/ Container(q))
  <2> SUFFICES ASSUME NEW q \in Within(p) PROVE q \in P /\ (q = p \/ Container(q))
    OBVIOUS
  <2>1. PICK n \in 1..l : q = SubSeq(p, 1, n)
    BY <1>2 DEF Within
  <2>2. n = l \/ n < l
    OBVIOUS
  <2> QED BY <1>1, <1>2, <1>3, <1>4, <2>1, <2>2
<1>6. p[l] > 0 => p \in Within(p)
  BY <1>2, <1>3 DEF Within
<1>7. ASSUME NEW n \in 1..l PROVE Within(SubSeq(p, 1, n)) \subseteq Within(p)
  <2> DEFINE q == SubSeq(p, 1, n)
  <2>1. /\ Len(q) = n
        /\ \A i \in 1..n : q[i] = p[i] /\ SubSeq(q, 1, i) = SubSeq(p, 1, i)
    BY <1>1, <1>2, Prefix
  <2> HIDE DEF q
  <2>2. \A i \in 1..n : i \in 1..l
    BY <1>2
  <2>3. Within(q) \subseteq Within(p)
    BY <1>2, <2>1, <2>2 DEF Within
  <2> QED BY <2>3 DEF q
<1>8. l > 1 => Within(Parent(p)) \subseteq Within(p)
  <2>1. l > 1 => l - 1 \in 1..l
    BY <1>2
  <2> QED BY <1>2, <1>7, <2>1 DEF Parent
<1>9. ASSUME NEW n \in 1..l, p[n] < 0
      PROVE  n > 1 /\ p[n - 1] > 0 /\ Has(SubSeq(p, 1, n - 1), "repeated")
  <2> DEFINE q == SubSeq(p, 1, n)
             o == SubSeq(p, 1, n - 1)
  <2>1. q \in P /\ Len(q) = n /\ q[n] = p[n]
    BY <1>1, <1>2, Prefix
  <2> HIDE DEF q
  <2>2. n > 1
    BY <1>9, <2>1, InPaths
  <2>3. n - 1 \in 1..l /\ n - 1 < l /\ (n - 1) + 1 = n
    BY <1>2, <2>2
  <2>4. Has(o, "repeated")
    BY <1>4, <1>9, <2>3
  <2>5. o \in P /\ Len(o) = n - 1 /\ o[n - 1] = p[n - 1]
    BY <1>1, <1>2, <2>3, Prefix
  <2> HIDE DEF o
  <2>6. ~(o[Len(o)] < 0)
    BY <2>4, <2>5, InPaths
  <2>7. p[n - 1] \in Int /\ p[n - 1] # 0
    BY <1>1, <1>2, <2>3
  <2> QED BY <2>2, <2>4, <2>5, <2>6, <2>7 DEF o
<1> QED BY <1>2, <1>4, <1>5, <1>6, <1>7, <1>8, <1>9

-----------------------------------------------------------------------------
(* Everything that a message has, ParseDict() and MessageToDict() leave      *)
(* alone: what they add is zero, or a list that is empty.                    *)
LEMMA FilledIs ==
    ASSUME NEW d, IsMessage(d)
    PROVE  /\ IsMessage(Filled(d))
           /\ DOMAIN d \subseteq DOMAIN Filled(d)
           /\ \A p \in DOMAIN Filled(d) :
                Filled(d)[p] = IF p \in DOMAIN d THEN d[p] ELSE IF Has(p, "repeated") THEN Object ELSE Number(0)
<1> DEFINE objects == {p \in DOMAIN d : p[Len(p)] < 0 \/ Has(p, "message")}
           scalars == {Append(q, t) : q \in objects \cup {<<>>}, t \in 1..9}
           present == {p \in scalars : Tags(p) \in DOMAIN Fields /\ ~Has(p, "message")}
           value(p) == IF p \in DOMAIN d THEN d[p] ELSE IF Has(p, "repeated") THEN Object ELSE Number(0)
           P == objects \cup present
<1>1. Filled(d) = [p \in P |-> value(p)]
  BY DEF Filled
<1>2. ArePaths(DOMAIN d)
  BY DEF IsMessage
<1>3. ASSUME NEW p \in DOMAIN d PROVE p \in P
  <2>1. /\ p \in Seq(Int) /\ p # <<>> /\ \A i \in 1..Len(p) : p[i] # 0
        /\ Tags(p) \in DOMAIN Fields
        /\ Len(p) > 1 => Parent(p) \in DOMAIN d
        /\ p[Len(p)] < 0 => Has(p, "message")
        /\ p[Len(p)] > 0 => p[Len(p)] \in 1..9 /\ (Len(p) > 1 => Has(Parent(p), "message"))
    BY <1>2, InPaths
  <2>2. PICK l \in Nat : l = Len(p) /\ l >= 1
    BY <2>1, PathFacts
  <2>3. p[l] \in Int /\ p[l] # 0
    BY <2>1, <2>2
  <2>4. CASE Has(p, "message")
    BY <2>4
  <2>5. CASE ~Has(p, "message")
    <3>1. p[l] \in 1..9
      BY <2>1, <2>2, <2>3, <2>5
    <3>2. Append(Parent(p), p[l]) = p /\ (l = 1 => Parent(p) = <<>>)
      BY <2>1, <2>2, PathFacts
    <3>3. Parent(p) \in objects \cup {<<>>}
      <4>1. CASE l = 1
        BY <3>2, <4>1
      <4>2. CASE l > 1
        BY <2>1, <2>2, <3>1, <4>2
      <4> QED BY <2>2, <4>1, <4>2
    <3>4. p \in scalars
      BY <3>1, <3>2, <3>3
    <3> QED BY <2>1, <2>5, <3>4
  <2> QED BY <2>4, <2>5
<1>a. /\ \A p \in P : p \in DOMAIN d \/ p \in present
      /\ present \subseteq P /\ objects \subseteq DOMAIN d
  OBVIOUS
<1>b. ASSUME NEW p \in present
      PROVE  /\ Tags(p) \in DOMAIN Fields /\ ~Has(p, "message")
             /\ \E q \in objects \cup {<<>>}, t \in 1..9 : p = Append(q, t)
  OBVIOUS
<1> HIDE DEF P, value, present, objects, scalars
<1>4. ASSUME NEW p \in present
      PROVE  /\ p \in Seq(Int) /\ p # <<>> /\ \A i \in 1..Len(p) : p[i] # 0
             /\ Tags(p) \in DOMAIN Fields /\ ~Has(p, "message")
             /\ \A n \in 1..Len(p) : SubSeq(p, 1, n) \in P
  <2>1. PICK q \in objects \cup {<<>>}, t \in 1..9 : p = Append(q, t)
    BY <1>b
  <2>2. /\ q \in Seq(Int) /\ \A i \in 1..Len(q) : q[i] # 0
        /\ \A n \in 1..Len(q) : SubSeq(q, 1, n) \in DOMAIN d
    <3>1. CASE q = <<>>
      BY <3>1
    <3>2. CASE q \in DOMAIN d
      BY <1>2, <3>2, InPaths
    <3> QED BY <1>a, <3>1, <3>2
  <2>3. PICK k \in Nat : k = Len(q)
    BY <2>2
  <2>4. /\ p \in Seq(Int) /\ Len(p) = k + 1 /\ p[k + 1] = t
        /\ \A i \in 1..k : p[i] = q[i]
    BY <2>1, <2>2, <2>3
  <2>5. ASSUME NEW i \in 1..(k + 1) PROVE p[i] # 0
    <3>1. i \in 1..k \/ i = k + 1
      OBVIOUS
    <3> QED BY <2>2, <2>3, <2>4, <3>1
  <2>6. p # <<>>
    BY <2>4
  <2>7. ASSUME NEW n \in 1..(k + 1) PROVE SubSeq(p, 1, n) \in P
    <3>1. CASE n = k + 1
      <4>1. SubSeq(p, 1, n) = p
        BY <2>4, <2>5, <2>6, <3>1, PathFacts
      <4> QED BY <1>a, <4>1
    <3>2. CASE n < k + 1
      <4>1. n \in 1..k /\ n \in 1..Len(p)
        BY <2>4, <3>2
      <4>2. /\ SubSeq(p, 1, n) \in Seq(Int) /\ Len(SubSeq(p, 1, n)) = n
            /\ \A i \in 1..n : SubSeq(p, 1, n)[i] = p[i]
        BY <2>4, <4>1, Prefix
      <4>3. /\ SubSeq(q, 1, n) \in Seq(Int) /\ Len(SubSeq(q, 1, n)) = n
            /\ \A i \in 1..n : SubSeq(q, 1, n)[i] = q[i]
        BY <2>2, <2>3, <4>1, Prefix
      <4>4. \A i \in 1..n : i \in 1..k
        BY <4>1
      <4>5. SubSeq(p, 1, n) = SubSeq(q, 1, n)
        BY ONLY <2>4, <4>2, <4>3, <4>4
      <4> QED BY <1>3, <2>2, <2>3, <4>1, <4>5
    <3> QED BY <3>1, <3>2
  <2> QED BY <1>b, <2>4, <2>5, <2>6, <2>7
<1>5. ArePaths(P)
  <2> SUFFICES ASSUME NEW p \in P
               PROVE  /\ p \in Seq(Int) \ {<<>>} /\ \A i \in 1..Len(p) : p[i] # 0
                      /\ Tags(p) \in DOMAIN Fields
                      /\ \A n \in 1..Len(p) : SubSeq(p, 1, n) \in P
    BY DEF ArePaths
  <2>1. CASE p \in DOMAIN d
    BY <1>2, <1>3, <2>1, InPaths
  <2>2. CASE p \in present
    BY <1>4, <2>2
  <2> QED BY <1>a, <2>1, <2>2
<1>6. ASSUME NEW p \in P
      PROVE  IF Container(p) THEN value(p) = Object ELSE value(p) \in Numbers
  <2>1. CASE p \in DOMAIN d
    BY <2>1 DEF IsMessage, value
  <2>2. CASE p \notin DOMAIN d
    <3>1. ~Has(p, "message")
      BY <1>a, <1>4, <2>2
    <3> QED BY <2>2, <3>1 DEF Container, Number, Numbers, value
  <2> QED BY <2>1, <2>2
<1>7. DOMAIN Filled(d) = P /\ \A p \in P : Filled(d)[p] = value(p)
  BY <1>1 DEF P, value
<1>8. IsMessage(Filled(d))
  BY <1>5, <1>6, <1>7 DEF IsMessage
<1>9. DOMAIN d \subseteq DOMAIN Filled(d)
  BY <1>3, <1>7
<1> QED BY <1>7, <1>8, <1>9 DEF value

-----------------------------------------------------------------------------
(* Values that the user gives are the nearest the controller can have ...    *)
LEMMA EncodedIsNearest ==
    ASSUME NEW p, NEW x \in Numbers \cup Quantities \cup Links
    PROVE  EncodeValue(p, x) \in Numbers /\ Nearest(EncodeValue(p, x), x)
<1>1. CASE x \in Numbers
  BY <1>1 DEF Numbers, EncodeValue, Nearest
<1>2. CASE x \in Links
  BY <1>2 DEF Links, Numbers, EncodeValue, Nearest, Number
<1>3. CASE x \in Quantities
  <2>1. PICK n \in Int, d \in Nat \ {0}, u \in TempUnits : x = [is |-> "quantity", value |-> <<n, d>>, unit |-> u]
    <3>1. x.value \in Int \X (Nat \ {0}) /\ x.unit \in TempUnits /\ x = [is |-> "quantity", value |-> x.value, unit |-> x.unit]
      BY <1>3 DEF Quantities
    <3>2. x.value = <<x.value[1], x.value[2]>> /\ x.value[1] \in Int /\ x.value[2] \in Nat \ {0}
      BY <3>1
    <3> QED BY <3>1, <3>2
  <2>2. Scale \in Nat \ {0}
    BY CodecAssumption
  <2>3. CASE u = "degC"
    <3>1. EncodeValue(p, x) = Number(Round(n * Scale, d))
      BY <2>1, <2>3 DEF EncodeValue, ToSysValue
    <3>2. n * Scale \in Int
      BY <2>2
    <3>3. PICK r \in Int : r = Round(n * Scale, d) /\ 2 * (r * d - n * Scale) <= d /\ -2 * (r * d - n * Scale) <= d
      BY <3>2, RoundIsNearest
    <3>4. EncodeValue(p, x) = [is |-> "number", value |-> r]
      BY <3>1, <3>3 DEF Number
    <3> QED BY <2>1, <2>3, <3>3, <3>4 DEF Nearest, Numbers
  <2>4. CASE u = "degF"
    <3> DEFINE m == 5 * (n - 32 * d) * Scale
               e == 9 * d
    <3>1. EncodeValue(p, x) = Number(Round(m, e))
      BY <2>1, <2>4 DEF EncodeValue, ToSysValue
    <3>2. m \in Int /\ e \in Nat \ {0} /\ e = 9 * d
      BY <2>2
    <3>3. PICK r \in Int : r = Round(m, e) /\ 2 * (r * e - m) <= e /\ -2 * (r * e - m) <= e
      BY <3>2, RoundIsNearest
    <3>4. EncodeValue(p, x) = [is |-> "number", value |-> r]
      BY <3>1, <3>3 DEF Number
    <3>5. 9 * r * d = r * e
      BY <3>2
    <3>6. EncodeValue(p, x) \in Numbers
      BY <3>4 DEF Numbers
    <3>7. Nearest(EncodeValue(p, x), x) <=> 2 * (9 * r * d - m) <= e /\ -2 * (9 * r * d - m) <= e
      BY <2>1, <2>4, <3>4 DEF Nearest
    <3> QED BY <3>3, <3>5, <3>6, <3>7
  <2> QED BY <2>3, <2>4 DEF TempUnits
<1> QED BY <1>1, <1>2, <1>3

(* ... and values that were read, in either unit, come back as they were.    *)
DecodeIn(p, x, unit) ==
    LET null == Has(p, "null_if_zero") /\ x = Number(0)
    IN  IF Container(p) THEN x
        ELSE IF Has(p, "unit")
        THEN IF null THEN NullQuantity(unit)
             ELSE LET user == ToUserValue(x.value, Scale, unit) IN Quantity(user[1], user[2], unit)
        ELSE IF Has(p, "link") THEN Link(x.value)
        ELSE IF null THEN Null ELSE x

LEMMA DecodeThenEncode ==
    ASSUME NEW p, NEW x \in Numbers, ~Container(p), NEW unit \in TempUnits
    PROVE  /\ DecodeIn(p, x, unit) \in Numbers \cup Quantities \cup Links \cup {Null, NullQuantity(unit)}
           /\ DecodeIn(p, x, unit) = Null => x = Number(0)
           /\ DecodeIn(p, x, unit) \in Numbers \cup Quantities \cup Links => EncodeValue(p, DecodeIn(p, x, unit)) = x
<1>1. PICK v \in Int : x = [is |-> "number", value |-> v]
  BY DEF Numbers
<1>2. Scale \in Nat \ {0}
  BY CodecAssumption
<1>3. CASE Has(p, "unit") /\ ~(Has(p, "null_if_zero") /\ x = Number(0))
  <2> DEFINE y == DecodeIn(p, x, unit)
  <2>1. CASE unit = "degC"
    <3>1. y = [is |-> "quantity", value |-> <<v, Scale>>, unit |-> unit]
      BY <1>1, <1>3, <2>1 DEF DecodeIn, ToUserValue, Quantity
    <3>2. EncodeValue(p, y) = Number(Round(v * Scale, Scale))
      BY <2>1, <3>1 DEF EncodeValue, ToSysValue
    <3>3. Round(v * Scale, Scale) = v
      BY <1>2, RoundOfMultiple
    <3>4. <<v, Scale>> \in Int \X (Nat \ {0})
      BY <1>2
    <3> QED BY <1>1, <3>1, <3>2, <3>3, <3>4 DEF Number, Quantities, Null
  <2>2. CASE unit = "degF"
    <3> DEFINE n == 9 * v + 160 * Scale
               d == 5 * Scale
               e == 9 * d
    <3>1. y = [is |-> "quantity", value |-> <<n, d>>, unit |-> unit]
      BY <1>1, <1>3, <2>2 DEF DecodeIn, ToUserValue, Quantity
    <3>2. EncodeValue(p, y) = Number(Round(5 * (n - 32 * d) * Scale, e))
      BY <2>2, <3>1 DEF EncodeValue, ToSysValue
    <3>3. n \in Int /\ d \in Nat \ {0} /\ e \in Nat \ {0}
      BY <1>2
    <3>4. 5 * (n - 32 * d) = 45 * v
      BY <1>2
    <3>5. 45 * v * Scale = v * e
      BY <1>2
    <3>6. Round(v * e, e) = v
      BY <3>3, RoundOfMultiple
    <3>7. <<n, d>> \in Int \X (Nat \ {0})
      BY <3>3
    <3> HIDE DEF n, d, e
    <3> QED BY <1>1, <3>1, <3>2, <3>4, <3>5, <3>6, <3>7 DEF Number, Quantities, Null
  <2> QED BY <2>1, <2>2 DEF TempUnits
<1>4. CASE Has(p, "unit") /\ Has(p, "null_if_zero") /\ x = Number(0)
  BY <1>4 DEF DecodeIn, NullQuantity, Null, Numbers, Quantities, Links
<1>5. CASE ~Has(p, "unit")
  <2>1. CASE Has(p, "link")
    <3>1. DecodeIn(p, x, unit) = [is |-> "link", id |-> v]
      BY <1>1, <1>5, <2>1 DEF DecodeIn, Link
    <3> QED BY <1>1, <3>1 DEF Links, Null, Number, EncodeValue
  <2>2. CASE ~Has(p, "link") /\ Has(p, "null_if_zero") /\ x = Number(0)
    <3>1. DecodeIn(p, x, unit) = Null
      BY <1>5, <2>2 DEF DecodeIn
    <3>2. Null \notin Numbers \cup Quantities \cup Links
      BY DEF Null, Numbers, Quantities, Links
    <3> QED BY <2>2, <3>1, <3>2
  <2>3. CASE ~Has(p, "link") /\ ~(Has(p, "null_if_zero") /\ x = Number(0))
    <3>1. DecodeIn(p, x, unit) = x
      BY <1>5, <2>3 DEF DecodeIn
    <3>2. x # Null /\ EncodeValue(p, x) = x
      BY <1>1 DEF Null, EncodeValue
    <3> QED BY <3>1, <3>2
  <2> QED BY <2>1, <2>2, <2>3
<1> QED BY <1>3, <1>4, <1>5

-----------------------------------------------------------------------------
(* What pre_encode() makes of data is a message. *)
LEMMA PreEncodeIs ==
    ASSUME NEW data, IsData(data)
    PROVE  /\ IsMessage(PreEncode(data))
           /\ DOMAIN PreEncode(data) =
                {p \in DOMAIN data : \A q \in Within(p) : ~Stripped(q) /\ data[q] # Null}
           /\ \A p \in DOMAIN PreEncode(data) : PreEncode(data)[p] = EncodeValue(p, data[p])
<1> DEFINE D == {p \in DOMAIN data : \A q \in Within(p) : ~Stripped(q) /\ data[q] # Null}
           value(p) == EncodeValue(p, data[p])
<1>1. PreEncode(data) = [p \in D |-> value(p)]
  BY DEF PreEncode
<1>2. ArePaths(DOMAIN data)
  BY DEF IsData
<1>3. ArePaths(D)
  <2> SUFFICES ASSUME NEW p \in D
               PROVE  /\ p \in Seq(Int) \ {<<>>} /\ \A i \in 1..Len(p) : p[i] # 0
                      /\ Tags(p) \in DOMAIN Fields
                      /\ \A n \in 1..Len(p) : SubSeq(p, 1, n) \in D
    BY DEF ArePaths
  <2>1. /\ p \in Seq(Int) /\ p # <<>> /\ \A i \in 1..Len(p) : p[i] # 0
        /\ Tags(p) \in DOMAIN Fields
        /\ \A n \in 1..Len(p) : SubSeq(p, 1, n) \in DOMAIN data
    BY <1>2, InPaths
  <2>2. \A n \in 1..Len(p) : Within(SubSeq(p, 1, n)) \subseteq Within(p)
    BY <1>2, WithinFacts
  <2> QED BY <2>1, <2>2
<1>4. ASSUME NEW p \in D
      PROVE  IF Container(p) THEN value(p) = Object ELSE value(p) \in Numbers
  <2>1. p \in DOMAIN data /\ \A q \in Within(p) : data[q] # Null
    OBVIOUS
  <2>2. p[Len(p)] > 0 => data[p] # Null
    BY <1>2, <2>1, WithinFacts
  <2>3. data[p] # Null
    BY <2>1, <2>2 DEF IsData
  <2>4. CASE Container(p)
    <3>1. data[p] = Object
      BY <2>1, <2>3, <2>4 DEF IsData
    <3> QED BY <2>4, <3>1 DEF EncodeValue, Object
  <2>5. CASE ~Container(p)
    <3>1. data[p] \in Numbers \cup Quantities \cup Links
      BY <2>1, <2>3, <2>5 DEF IsData
    <3> QED BY <2>5, <3>1, EncodedIsNearest
  <2> QED BY <2>4, <2>5
<1> HIDE DEF D, value
<1>5. DOMAIN PreEncode(data) = D /\ \A p \in D : PreEncode(data)[p] = value(p)
  BY <1>1
<1>6. IsMessage(PreEncode(data))
  BY <1>3, <1>4, <1>5 DEF IsMessage
<1> QED BY <1>5, <1>6 DEF D, value

(* What was read is data, but for quantities that are null.                  *)
PostDecodeIn(message, mode, unit) ==
    [p \in {p \in DOMAIN message :
                /\ \A q \in Within(p) : ~Filtered(q, mode)
                /\ ~(Has(p, "omit_if_zero") /\ message[p] = Number(0))} |->
        DecodeIn(p, message[p], unit)]

LEMMA DecodedIsData ==
    ASSUME NEW message, IsMessage(message), NEW mode, NEW unit \in TempUnits,
           \A p \in DOMAIN PostDecodeIn(message, mode, unit) :
               PostDecodeIn(message, mode, unit)[p] # NullQuantity(unit)
    PROVE  IsData(PostDecodeIn(message, mode, unit))
<1> DEFINE data == PostDecodeIn(message, mode, unit)
           D == {p \in DOMAIN message :
                   /\ \A q \in Within(p) : ~Filtered(q, mode)
                   /\ ~(Has(p, "omit_if_zero") /\ message[p] = Number(0))}
<1>1. ArePaths(DOMAIN message)
  BY DEF IsMessage
<1>2. DOMAIN data = D /\ \A p \in D : data[p] = DecodeIn(p, message[p], unit)
  BY DEF PostDecodeIn
<1>3. ArePaths(D)
  <2> SUFFICES ASSUME NEW p \in D
               PROVE  /\ p \in Seq(Int) \ {<<>>} /\ \A i \in 1..Len(p) : p[i] # 0
                      /\ Tags(p) \in DOMAIN Fields
                      /\ \A n \in 1..Len(p) : SubSeq(p, 1, n) \in D
    BY DEF ArePaths
  <2>1. /\ p \in Seq(Int) /\ p # <<>> /\ \A i \in 1..Len(p) : p[i] # 0
        /\ Tags(p) \in DOMAIN Fields
        /\ \A n \in 1..Len(p) : SubSeq(p, 1, n) \in DOMAIN message
    BY <1>1, InPaths
  <2>2. PICK l \in Nat : l = Len(p) /\ l >= 1
    BY <2>1, PathFacts
  <2>3. SubSeq(p, 1, l) = p
    BY <2>1, <2>2, PathFacts
  <2>4. ASSUME NEW n \in 1..l PROVE SubSeq(p, 1, n) \in D
    <3>1. CASE n = l
      BY <2>3, <3>1
    <3>2. CASE n < l
      <4>1. Container(SubSeq(p, 1, n)) /\ SubSeq(p, 1, n) \in DOMAIN message
        BY <1>1, <2>1, <2>2, <3>2, WithinFacts
      <4>2. message[SubSeq(p, 1, n)] # Number(0)
        BY <4>1 DEF IsMessage, Object, Number
      <4>3. Within(SubSeq(p, 1, n)) \subseteq Within(p)
        BY <1>1, <2>2, WithinFacts
      <4> QED BY <4>1, <4>2, <4>3
    <3> QED BY <3>1, <3>2
  <2> QED BY <2>1, <2>2, <2>4
<1>4. ASSUME NEW p \in D
      PROVE  /\ data[p] = Null => p[Len(p)] > 0
             /\ IF Container(p) THEN data[p] \in {Object, Null}
                ELSE data[p] \in Numbers \cup Quantities \cup Links \cup {Null}
  <2>1. CASE Container(p)
    <3>1. data[p] = Object
      BY <1>2, <2>1 DEF DecodeIn, IsMessage
    <3> QED BY <2>1, <3>1 DEF Object, Null
  <2>2. CASE ~Container(p)
    <3>1. message[p] \in Numbers
      BY <2>2 DEF IsMessage
    <3>2. data[p] \in Numbers \cup Quantities \cup Links \cup {Null}
      BY <1>2, <2>2, <3>1, DecodeThenEncode
    <3>3. ~(p[Len(p)] < 0) /\ p[Len(p)] \in Int /\ p[Len(p)] # 0
      <4>1. /\ p \in Seq(Int) /\ p # <<>> /\ \A i \in 1..Len(p) : p[i] # 0
            /\ p[Len(p)] < 0 => Has(p, "message")
        BY <1>1, InPaths
      <4>2. Len(p) \in 1..Len(p)
        BY <4>1
      <4> QED BY <2>2, <4>1, <4>2 DEF Container
    <3> QED BY <2>2, <3>2, <3>3
  <2> QED BY <2>1, <2>2
<1> HIDE DEF D, data
<1> QED BY <1>2, <1>3, <1>4 DEF IsData, data

-----------------------------------------------------------------------------
LEMMA Least ==
    ASSUME NEW S, S \subseteq Nat, S # {}
    PROVE  \E x \in S : \A y \in S : x <= y
<1> DEFINE R == OpToRel(<, Nat)
<1>1. IsWellFoundedOn(R, Nat)
  BY NatLessThanWellFounded
<1>2. \A x, y \in Nat : <<x, y>> \in R <=> x < y
  BY DEF OpToRel
<1> HIDE DEF R
<1>3. PICK x \in S : \A y \in S : <<y, x>> \notin R
  BY <1>1, WFMin
<1>4. ASSUME NEW y \in S PROVE x <= y
  <2>1. x \in Nat /\ y \in Nat /\ ~(y < x)
    BY <1>2, <1>3
  <2> QED BY <2>1
<1> QED BY <1>4

(* The mask of a patch has fields that are in no list. *)
LEMMA MaskIs ==
    ASSUME NEW data, IsData(data)
    PROVE  \A a : a \in MaskFields(data) <=>
                    /\ a \in DOMAIN data /\ ~Stripped(a)
                    /\ \A i \in 1..Len(a) : a[i] > 0
                    /\ Has(a, "message") => data[a] = Null
<1>1. ArePaths(DOMAIN data)
  BY DEF IsData
<1>2. ASSUME NEW p \in DOMAIN data
      PROVE  /\ p \in Seq(Int) /\ Tags(p) \in Seq(Int) /\ Len(Tags(p)) = Len(p) /\ Len(p) >= 1
             /\ \A i \in 1..Len(p) : p[i] # 0 /\ Tags(p)[i] = IF p[i] < 0 THEN 0 ELSE p[i]
  <2>1. p \in Seq(Int) /\ p # <<>> /\ \A i \in 1..Len(p) : p[i] # 0
    BY <1>1, InPaths
  <2> QED BY <2>1, PathFacts
<1>3. ASSUME NEW p \in DOMAIN data, IsLeafAddress(Address(data, p))
      PROVE  /\ Address(data, p) = p
             /\ \A i \in 1..Len(p) : p[i] > 0
             /\ Has(p, "message") => data[p] = Null
  <2>1. PICK l \in Nat : l = Len(p) /\ l >= 1
    BY <1>2
  <2>2. ~(Has(p, "message") /\ data[p] # Null)
    <3> SUFFICES ASSUME Address(data, p) = Append(Tags(p), 0) PROVE FALSE
      BY DEF Address
    <3>1. Append(Tags(p), 0) \in Seq(Int) /\ Len(Append(Tags(p), 0)) = l + 1 /\ Append(Tags(p), 0)[l + 1] = 0
      BY <1>2, <2>1
    <3>2. l + 1 \in DOMAIN Append(Tags(p), 0)
      BY <2>1, <3>1
    <3> QED BY <1>3, <3>1, <3>2 DEF IsLeafAddress
  <2>3. Address(data, p) = Tags(p)
    BY <2>2 DEF Address
  <2>4. \A i \in 1..l : Tags(p)[i] # 0
    BY <1>2, <1>3, <2>1, <2>3 DEF IsLeafAddress
  <2>5. \A i \in 1..l : p[i] \in Int /\ p[i] # 0
    BY <1>2, <2>1
  <2>6. \A i \in 1..l : p[i] > 0 /\ Tags(p)[i] = p[i]
    BY <1>2, <2>1, <2>4, <2>5
  <2>7. Tags(p) = p
    BY <1>2, <2>1, <2>6
  <2> QED BY <2>1, <2>2, <2>3, <2>6, <2>7
<1>4. ASSUME NEW p \in DOMAIN data, \A i \in 1..Len(p) : p[i] > 0, Has(p, "message") => data[p] = Null
      PROVE  Address(data, p) = p /\ IsLeafAddress(p)
  <2>1. Address(data, p) = Tags(p)
    BY <1>4 DEF Address
  <2>l. PICK l \in Nat : l = Len(p)
    BY <1>2
  <2>2. \A i \in 1..l : p[i] \in Int /\ Tags(p)[i] = p[i]
    BY <1>2, <1>4, <2>l
  <2>3. Tags(p) = p
    <3>1. p \in Seq(Int) /\ Tags(p) \in Seq(Int) /\ Len(p) = l /\ Len(Tags(p)) = l
      BY <1>2, <2>l
    <3> QED BY ONLY <2>2, <3>1
  <2>4. IsLeafAddress(p)
    BY <1>2 DEF IsLeafAddress
  <2> QED BY <2>1, <2>3, <2>4
<1>5. MaskFields(data) = {a \in {Address(data, p) : p \in {p \in DOMAIN data : ~Stripped(p)}} : IsLeafAddress(a)}
  BY DEF MaskFields
<1> QED BY <1>3, <1>4, <1>5

(* What the controller takes from a patch is in something that is masked. *)
LEMMA CoveredIs ==
    ASSUME NEW data, IsData(data), NEW P, ArePaths(P), NEW p \in P
    PROVE  Covered(p, MaskFields(data)) <=> \E n \in 1..Len(p) : SubSeq(p, 1, n) \in MaskFields(data)
<1>1. p \in Seq(Int) /\ p # <<>>
  BY InPaths
<1>2. ArePaths(DOMAIN data)
  BY DEF IsData
<1>3. ASSUME NEW a \in MaskFields(data), Len(a) <= Len(p), \A i \in DOMAIN a : a[i] = p[i]
      PROVE  Len(a) \in 1..Len(p) /\ a = SubSeq(p, 1, Len(a))
  <2>1. a \in DOMAIN data
    BY MaskIs
  <2>2. a \in Seq(Int) /\ a # <<>> /\ \A i \in 1..Len(a) : a[i] # 0
    BY <1>2, <2>1, InPaths
  <2>3. PICK n \in Nat : n = Len(a) /\ n >= 1
    BY <2>2, PathFacts
  <2>4. n \in 1..Len(p)
    BY <1>1, <1>3, <2>3
  <2>5. /\ SubSeq(p, 1, n) \in Seq(Int) /\ Len(SubSeq(p, 1, n)) = n
        /\ \A i \in 1..n : SubSeq(p, 1, n)[i] = p[i]
    BY <1>1, <2>4, Prefix
  <2>6. \A i \in 1..n : a[i] = p[i]
    BY <1>3, <2>2, <2>3
  <2> QED BY <2>2, <2>3, <2>4, <2>5, <2>6
<1>4. ASSUME NEW n \in 1..Len(p)
      PROVE  Len(SubSeq(p, 1, n)) <= Len(p) /\ \A i \in DOMAIN SubSeq(p, 1, n) : SubSeq(p, 1, n)[i] = p[i]
  <2>1. /\ SubSeq(p, 1, n) \in Seq(Int) /\ Len(SubSeq(p, 1, n)) = n
        /\ \A i \in 1..n : SubSeq(p, 1, n)[i] = p[i]
    BY <1>1, Prefix
  <2>2. DOMAIN SubSeq(p, 1, n) = 1..n
    BY <2>1
  <2> QED BY <1>1, <2>1, <2>2
<1> QED BY <1>3, <1>4 DEF Covered

(* A field that is given is covered by itself or the list that it is in.     *)
LEMMA GivenIsCovered ==
    ASSUME NEW data, IsData(data), NEW P, ArePaths(P), NEW p \in P,
           \A r \in Within(p) : ~Stripped(r),
           NEW q \in Within(p), q \in DOMAIN data,
           data[q] = Null \/ Has(q, "repeated") \/ ~Container(q)
    PROVE  Covered(p, MaskFields(data))
<1>1. /\ ArePaths(DOMAIN data)
      /\ p \in Seq(Int) /\ p # <<>> /\ \A i \in 1..Len(p) : p[i] # 0
  BY InPaths DEF IsData
<1>2. PICK n \in 1..Len(p) : q = SubSeq(p, 1, n) /\ p[n] > 0
  BY DEF Within
<1>3. /\ q \in Seq(Int) /\ Len(q) = n
      /\ \A i \in 1..n : q[i] = p[i] /\ p[i] \in Int /\ p[i] # 0 /\ SubSeq(q, 1, i) = SubSeq(p, 1, i)
  BY <1>1, <1>2, Prefix
<1>4. ~(Has(q, "message") /\ Has(q, "repeated"))
  BY <1>1, InPaths
<1>5. CASE \A i \in 1..n : q[i] > 0
  <2>1. ~Stripped(q) /\ (Has(q, "message") => data[q] = Null)
    BY <1>4 DEF Container
  <2>2. q \in MaskFields(data)
    BY <1>3, <1>5, <2>1, MaskIs
  <2> QED BY <1>2, <2>2, CoveredIs
<1>6. CASE \E i \in 1..n : ~(q[i] > 0)
  <2> DEFINE S == {i \in 1..n : ~(q[i] > 0)}
  <2>1. S \subseteq Nat /\ S # {}
    BY <1>6
  <2>2. PICK i \in S : \A j \in S : i <= j
    BY <2>1, Least
  <2>3. i \in 1..n /\ q[i] < 0 /\ \A j \in 1..n : j < i => q[j] > 0
    BY <1>3, <2>2
  <2>4. i > 1 /\ Has(SubSeq(q, 1, i - 1), "repeated") /\ q[i - 1] > 0
    BY <1>1, <1>3, <2>3, WithinFacts
  <2>5. i - 1 \in 1..n /\ i - 1 \in 1..Len(p)
    BY <1>2, <2>3, <2>4
  <2> DEFINE r == SubSeq(q, 1, i - 1)
  <2>6. r \in DOMAIN data /\ r = SubSeq(p, 1, i - 1) /\ p[i - 1] > 0
    BY <1>1, <1>3, <2>4, <2>5, InPaths
  <2>7. r \in Within(p)
    BY <2>5, <2>6 DEF Within
  <2>8. Len(r) = i - 1 /\ \A j \in 1..(i - 1) : r[j] = q[j]
    BY <1>3, <2>5, Prefix
  <2>9. \A j \in 1..(i - 1) : j \in 1..n /\ j < i
    BY <2>3
  <2>10. \A j \in 1..Len(r) : r[j] > 0
    BY <2>3, <2>8, <2>9
  <2>11. ~Has(r, "message")
    BY <1>1, <2>4, <2>6, InPaths
  <2> HIDE DEF r, S
  <2>12. r \in MaskFields(data)
    BY <2>6, <2>7, <2>10, <2>11, MaskIs
  <2> QED BY <2>5, <2>6, <2>12, CoveredIs
<1> QED BY <1>5, <1>6

(* The controller's message after a patch, before it is filled in. *)
Merged(old, new, mask) ==
    LET kept == {p \in DOMAIN old : ~Covered(p, mask)}
        taken == {p \in DOMAIN new : Covered(p, mask) \/ Has(p, "message")}
    IN  [p \in kept \cup taken |-> IF p \in taken THEN new[p] ELSE old[p]]

LEMMA MergedIs ==
    ASSUME NEW old, IsMessage(old), NEW data, IsData(data)
    PROVE  LET new == PreEncode(data)
               mask == MaskFields(data)
               merged == Merged(old, new, mask)
           IN  /\ IsMessage(merged)
               /\ \A p : p \in DOMAIN merged <=>
                    \/ p \in DOMAIN old /\ ~Covered(p, mask)
                    \/ p \in DOMAIN new /\ (Covered(p, mask) \/ Has(p, "message"))
               /\ \A p \in DOMAIN merged :
                    merged[p] = IF p \in DOMAIN new /\ (Covered(p, mask) \/ Has(p, "message")) THEN new[p] ELSE old[p]
<1> DEFINE new == PreEncode(data)
           mask == MaskFields(data)
           merged == Merged(old, new, mask)
           M == DOMAIN merged
<1>1. IsMessage(new) /\ ArePaths(DOMAIN new) /\ ArePaths(DOMAIN old)
  BY PreEncodeIs DEF IsMessage
<1>2. \A p : p \in M <=>
        \/ p \in DOMAIN old /\ ~Covered(p, mask)
        \/ p \in DOMAIN new /\ (Covered(p, mask) \/ Has(p, "message"))
  BY DEF Merged
<1>3. \A p \in M : merged[p] = IF p \in DOMAIN new /\ (Covered(p, mask) \/ Has(p, "message")) THEN new[p] ELSE old[p]
  BY DEF Merged
<1> HIDE DEF merged, M
(* What is within something that is covered, is covered too. *)
<1>4. ASSUME NEW P, ArePaths(P), NEW p \in P, NEW n \in 1..Len(p), Covered(SubSeq(p, 1, n), mask)
      PROVE  Covered(p, mask)
  <2> DEFINE q == SubSeq(p, 1, n)
  <2>1. p \in Seq(Int) /\ q \in P
    BY <1>4, InPaths
  <2>2. Len(q) = n /\ \A k \in 1..n : SubSeq(q, 1, k) = SubSeq(p, 1, k)
    BY <2>1, Prefix
  <2> HIDE DEF q
  <2>3. PICK k \in 1..n : SubSeq(q, 1, k) \in mask
    BY <1>4, <2>1, <2>2, CoveredIs DEF q
  <2>4. SubSeq(p, 1, k) \in mask /\ k \in 1..Len(p)
    <3>1. k \in 1..Len(p)
      <4>1. Len(p) \in Nat
        BY <2>1
      <4> QED BY ONLY n \in 1..Len(p), k \in 1..n, <4>1
    <3> QED BY <2>2, <2>3, <3>1
  <2> QED BY <1>4, <2>4, CoveredIs
<1>5. ASSUME NEW p \in M PROVE \A n \in 1..Len(p) : SubSeq(p, 1, n) \in M
  <2>1. CASE p \in DOMAIN old /\ ~Covered(p, mask)
    <3>1. \A n \in 1..Len(p) : SubSeq(p, 1, n) \in DOMAIN old /\ ~Covered(SubSeq(p, 1, n), mask)
      BY <1>1, <1>4, <2>1, InPaths
    <3> QED BY <1>2, <3>1
  <2>2. CASE p \in DOMAIN new /\ (Covered(p, mask) \/ Has(p, "message"))
    <3>1. /\ p \in Seq(Int) /\ p # <<>> /\ \A i \in 1..Len(p) : p[i] # 0
          /\ \A n \in 1..Len(p) : SubSeq(p, 1, n) \in DOMAIN new
      BY <1>1, <2>2, InPaths
    <3>2. PICK l \in Nat : l = Len(p) /\ l >= 1
      BY <3>1, PathFacts
    <3>3. SubSeq(p, 1, l) = p
      BY <3>1, <3>2, PathFacts
    <3>a. \A n \in 1..l : n = l \/ n < l
      BY <3>2
    <3> SUFFICES ASSUME NEW n \in 1..l, n < l PROVE SubSeq(p, 1, n) \in M
      BY <3>2, <3>3, <3>a
    <3> DEFINE q == SubSeq(p, 1, n)
    <3>4. /\ Len(q) = n /\ q \in DOMAIN new
          /\ \A i \in 1..n : q[i] = p[i] /\ SubSeq(q, 1, i) = SubSeq(p, 1, i)
      BY <3>1, <3>2, Prefix
    <3>5. Container(q)
      BY <1>1, <2>2, <3>2, WithinFacts
    <3> HIDE DEF q
    <3>6. CASE Has(q, "message")
      BY <1>2, <3>4, <3>6 DEF q
    <3>7. CASE ~Has(q, "message")
      <4>1. Has(q, "repeated") /\ ~(q[n] < 0)
        BY <1>1, <3>4, <3>5, <3>7, InPaths DEF Container
      <4>2. q \in Within(q)
        BY <1>1, <3>1, <3>2, <3>4, <4>1, WithinFacts
      <4>3. q \in DOMAIN data /\ \A r \in Within(q) : ~Stripped(r)
        BY <3>4, PreEncodeIs
      <4>4. Covered(q, mask)
        BY <1>1, <3>4, <4>1, <4>2, <4>3, GivenIsCovered
      <4> QED BY <1>2, <3>4, <4>4 DEF q
    <3> QED BY <3>6, <3>7
  <2> QED BY <1>2, <2>1, <2>2
<1>6. ArePaths(M)
  <2> SUFFICES ASSUME NEW p \in M
               PROVE  /\ p \in Seq(Int) \ {<<>>} /\ \A i \in 1..Len(p) : p[i] # 0
                      /\ Tags(p) \in DOMAIN Fields
                      /\ \A n \in 1..Len(p) : SubSeq(p, 1, n) \in M
    BY DEF ArePaths
  <2>1. p \in DOMAIN old \/ p \in DOMAIN new
    BY <1>2
  <2> QED BY <1>1, <1>5, <2>1, InPaths
<1>7. ASSUME NEW p \in M
      PROVE  IF Container(p) THEN merged[p] = Object ELSE merged[p] \in Numbers
  <2>1. p \in DOMAIN new => IF Container(p) THEN new[p] = Object ELSE new[p] \in Numbers
    BY <1>1 DEF IsMessage
  <2>2. p \in DOMAIN old => IF Container(p) THEN old[p] = Object ELSE old[p] \in Numbers
    BY <1>1 DEF IsMessage
  <2> QED BY <1>2, <1>3, <2>1, <2>2
<1>8. IsMessage(merged)
  BY <1>6, <1>7 DEF IsMessage, M
<1> QED BY <1>2, <1>3, <1>8 DEF merged, M

LEMMA PatchIs ==
    ASSUME NEW old, IsMessage(old), NEW data, IsData(data), NEW now,
           now = Patched(old, PreEncode(data), MaskFields(data))
    PROVE  IsMessage(now) /\ PatchedAsGiven(data, old, now)
<1> DEFINE new == PreEncode(data)
           mask == MaskFields(data)
           merged == Merged(old, new, mask)
           given(p) == \E q \in Within(p) : q \in DOMAIN data /\ (data[q] = Null \/ Has(q, "repeated") \/ q = p)
<1>1. now = Filled(merged)
  BY DEF Patched, Merged
<1>2. /\ IsMessage(merged)
      /\ \A p : p \in DOMAIN merged <=>
           \/ p \in DOMAIN old /\ ~Covered(p, mask)
           \/ p \in DOMAIN new /\ (Covered(p, mask) \/ Has(p, "message"))
      /\ \A p \in DOMAIN merged :
           merged[p] = IF p \in DOMAIN new /\ (Covered(p, mask) \/ Has(p, "message")) THEN new[p] ELSE old[p]
  BY MergedIs
<1>3. /\ IsMessage(now) /\ DOMAIN merged \subseteq DOMAIN now
      /\ \A p \in DOMAIN now :
           now[p] = IF p \in DOMAIN merged THEN merged[p] ELSE IF Has(p, "repeated") THEN Object ELSE Number(0)
  BY <1>1, <1>2, FilledIs
<1>4. /\ ArePaths(DOMAIN old) /\ ArePaths(DOMAIN now) /\ ArePaths(DOMAIN data)
  BY <1>3 DEF IsMessage, IsData
<1>5. ASSUME NEW p \in DOMAIN old \cup DOMAIN now, Writable(p)
      PROVE  IF given(p)
             THEN IF p \in DOMAIN data /\ \A q \in Within(p) : data[q] # Null
                  THEN Nearest(ValueIn(now, p), data[p])
                  ELSE ValueIn(now, p) = Number(0)
             ELSE ValueIn(now, p) = ValueIn(old, p)
  <2>1. PICK P : ArePaths(P) /\ p \in P
    BY <1>4
  <2>2. ~Container(p) /\ ~Has(p, "message") /\ ~Has(p, "repeated") /\ \A q \in Within(p) : ~Stripped(q)
    BY <1>5 DEF Writable, Container
  <2>3. ValueIn(now, p) = IF p \in DOMAIN merged THEN merged[p] ELSE Number(0)
    BY <1>3, <2>2 DEF ValueIn
  <2>4. p \in Within(p)
    <3>1. /\ p \in Seq(Int) /\ p # <<>> /\ \A i \in 1..Len(p) : p[i] # 0
          /\ p[Len(p)] < 0 => Has(p, "message")
      BY <2>1, InPaths
    <3>2. PICK l \in Nat : l = Len(p) /\ l >= 1
      BY <3>1, PathFacts
    <3>3. p[l] \in Int /\ p[l] # 0
      BY <3>1, <3>2
    <3>4. p[Len(p)] > 0
      BY <2>2, <3>1, <3>2, <3>3
    <3> QED BY <2>1, <3>4, WithinFacts
  <2>5. CASE given(p)
    <3>1. PICK q \in Within(p) : q \in DOMAIN data /\ (data[q] = Null \/ Has(q, "repeated") \/ ~Container(q))
      BY <2>2, <2>5
    <3>2. Covered(p, mask)
      BY <2>1, <2>2, <3>1, GivenIsCovered
    <3>3. ValueIn(now, p) = IF p \in DOMAIN new THEN new[p] ELSE Number(0)
      BY <1>2, <2>3, <3>2
    <3>4. CASE p \in DOMAIN data /\ \A r \in Within(p) : data[r] # Null
      <4>1. p \in DOMAIN new /\ new[p] = EncodeValue(p, data[p])
        BY <2>2, <3>4, PreEncodeIs
      <4>2. data[p] \in Numbers \cup Quantities \cup Links
        BY <2>2, <2>4, <3>4 DEF IsData
      <4>3. Nearest(ValueIn(now, p), data[p])
        BY <3>3, <4>1, <4>2, EncodedIsNearest
      <4> QED BY <2>5, <3>4, <4>3
    <3>5. CASE ~(p \in DOMAIN data /\ \A r \in Within(p) : data[r] # Null)
      <4>1. p \notin DOMAIN new
        BY <3>5, PreEncodeIs
      <4> QED BY <2>5, <3>3, <3>5, <4>1
    <3> QED BY <3>4, <3>5
  <2>6. CASE ~given(p)
    <3>1. ~Covered(p, mask)
      <4> SUFFICES ASSUME Covered(p, mask) PROVE FALSE
        OBVIOUS
      <4>1. p \in Seq(Int)
        BY <2>1, InPaths
      <4>2. PICK n \in 1..Len(p) : SubSeq(p, 1, n) \in mask
        BY <2>1, CoveredIs
      <4> DEFINE a == SubSeq(p, 1, n)
      <4>3. Len(a) = n /\ a[n] = p[n]
        BY <4>1, Prefix
      <4>n. n \in 1..Len(a)
        BY <4>3
      <4>4. a \in DOMAIN data /\ a[n] > 0 /\ (Has(a, "message") => data[a] = Null)
        BY <4>2, <4>n, MaskIs
      <4>5. a \in Within(p)
        BY <4>3, <4>4 DEF Within
      <4>6. a = p \/ Container(a)
        BY <2>1, <4>5, WithinFacts
      <4> HIDE DEF a
      <4>7. data[a] = Null \/ Has(a, "repeated") \/ a = p
        BY <4>4, <4>6 DEF Container
      <4> QED BY <2>6, <4>4, <4>5, <4>7
    <3>2. ValueIn(now, p) = IF p \in DOMAIN old THEN old[p] ELSE Number(0)
      BY <1>2, <2>2, <2>3, <3>1
    <3> QED BY <2>6, <3>2 DEF ValueIn
  <2> QED BY <2>5, <2>6
<1> HIDE DEF given
<1>6. PatchedAsGiven(data, old, now)
  <2> SUFFICES ASSUME NEW p \in DOMAIN old \cup DOMAIN now, ~Container(p)
               PROVE  IF given(p) /\ Writable(p)
                      THEN IF p \in DOMAIN data /\ \A q \in Within(p) : data[q] # Null
                           THEN Nearest(ValueIn(now, p), data[p])
                           ELSE ValueIn(now, p) = Number(0)
                      ELSE Writable(p) => ValueIn(now, p) = ValueIn(old, p)
    BY DEF PatchedAsGiven, given
  <2> QED BY <1>5
<1> QED BY <1>3, <1>6

-----------------------------------------------------------------------------
(* A block that is written was read like this, in the unit of then. *)
ShownInv ==
    shown.mode # "none" =>
        IF kind = "object"
        THEN /\ shown.block.type = "object"
             /\ IsMessage(shown.of)
             /\ \E unit \in TempUnits : shown.block.data = PostDecodeIn(shown.of, shown.mode, unit)
        ELSE /\ shown.block.type # "object"
             /\ Encodable(shown.block.type) => shown.block.data = device

CodecInv == CodecTypeOK /\ ShownInv

LEMMA InitCodec == BlockDataInit => CodecInv
<1> SUFFICES ASSUME BlockDataInit PROVE CodecInv
  OBVIOUS
<1>1. CASE active = "codec"
  BY <1>1, CodecAssumption DEF BlockDataInit, CodecInit, CodecInv, CodecTypeOK, ShownInv, Modes
<1>2. CASE active # "codec"
  <2>1. kind = "object" /\ device = <<>> /\ temp = "degC" /\ shown = [mode |-> "none"]
    BY <1>2 DEF BlockDataInit
  <2>2. DOMAIN device = {}
    BY <2>1
  <2>3. IsMessage(device)
    BY <2>2 DEF IsMessage, ArePaths
  <2> QED BY <2>1, <2>3 DEF CodecInv, CodecTypeOK, ShownInv, Modes, Kinds, TempUnits
<1> QED BY <1>1, <1>2

(* A block that was read with its fields, when it can be written. *)
LEMMA ShownIsData ==
    ASSUME CodecInv, kind = "object", WriteBlock
    PROVE  /\ IsData(shown.block.data)
           /\ device' = Filled(PreEncode(shown.block.data))
           /\ IsMessage(shown.of)
           /\ \E unit \in TempUnits : shown.block.data = PostDecodeIn(shown.of, shown.mode, unit)
<1>1. shown.mode # "none"
  BY DEF WriteBlock
<1>2. /\ shown.block.type = "object" /\ IsMessage(shown.of)
      /\ \E unit \in TempUnits : shown.block.data = PostDecodeIn(shown.of, shown.mode, unit)
  BY <1>1 DEF CodecInv, ShownInv
<1>3. PICK unit \in TempUnits : shown.block.data = PostDecodeIn(shown.of, shown.mode, unit)
  BY <1>2
<1>4. \A p \in DOMAIN shown.block.data : shown.block.data[p] # NullQuantity(unit)
  BY DEF WriteBlock, TempUnits
<1>5. IsData(shown.block.data)
  BY <1>2, <1>3, <1>4, DecodedIsData
<1>6. device' = Filled(PreEncode(shown.block.data))
  BY <1>2 DEF WriteBlock, Encodable, EncodePayload
<1> QED BY <1>2, <1>5, <1>6

LEMMA NextCodec == CodecInv /\ CodecNext => CodecInv'
<1> SUFFICES ASSUME CodecInv, CodecNext PROVE CodecInv'
  OBVIOUS
<1>1. CodecTypeOK /\ IsMessage(device)
  BY DEF CodecInv, CodecTypeOK
<1>2. ASSUME NEW mode \in Modes, ReadBlock(mode) PROVE CodecInv'
  <2>1. /\ shown' = [mode |-> mode, block |-> DecodePayload(mode), of |-> device]
        /\ UNCHANGED <<kind, device, temp>>
    BY <1>2 DEF ReadBlock
  <2>2. shown'.mode = mode /\ shown'.block = DecodePayload(mode) /\ shown'.of = device
    BY <2>1
  <2>3. CodecTypeOK'
    BY <1>1, <2>1, <2>2 DEF CodecTypeOK, IsMessage, ArePaths
  <2>4. CASE kind = "object"
    <3>1. DecodePayload(mode) = [type |-> "object", data |-> PostDecode(device, mode)]
      BY <2>4 DEF DecodePayload
    <3>2. PostDecode(device, mode) = PostDecodeIn(device, mode, temp)
      BY DEF PostDecode, PostDecodeIn, DecodeValue, DecodeIn
    <3>3. temp \in TempUnits
      BY <1>1 DEF CodecTypeOK
    <3> QED BY <1>1, <2>1, <2>2, <2>3, <2>4, <3>1, <3>2, <3>3 DEF CodecInv, ShownInv
  <2>5. CASE kind # "object"
    <3>1. DecodePayload(mode).type # "object"
      BY <1>1, <2>5 DEF DecodePayload, CodecTypeOK, Kinds
    <3>2. Encodable(DecodePayload(mode).type) => DecodePayload(mode).data = device
      BY <1>1, <2>5 DEF DecodePayload, CodecTypeOK, Kinds, Encodable
    <3> QED BY <2>1, <2>2, <2>3, <2>5, <3>1, <3>2 DEF CodecInv, ShownInv
  <2> QED BY <2>4, <2>5
<1>3. ASSUME NEW unit \in TempUnits, SetTemperature(unit) PROVE CodecInv'
  BY <1>3 DEF SetTemperature, CodecInv, CodecTypeOK, ShownInv
<1>4. CASE WriteBlock
  <2>1. UNCHANGED <<kind, temp, shown>>
    BY <1>4 DEF WriteBlock
  <2>2. CASE kind = "object"
    <3>1. IsMessage(device')
      <4>1. IsData(shown.block.data) /\ device' = Filled(PreEncode(shown.block.data))
        BY <1>4, <2>2, ShownIsData
      <4>2. IsMessage(PreEncode(shown.block.data))
        BY <4>1, PreEncodeIs
      <4> QED BY <4>1, <4>2, FilledIs
    <3> QED BY <2>1, <2>2, <3>1 DEF CodecInv, CodecTypeOK, ShownInv
  <2>3. CASE kind # "object"
    <3>1. device' = device
      BY <1>4, <2>3 DEF CodecInv, ShownInv, WriteBlock, EncodePayload
    <3> QED BY <2>1, <3>1 DEF CodecInv, CodecTypeOK, ShownInv
  <2> QED BY <2>2, <2>3
<1>5. ASSUME NEW data \in Inputs, PatchBlock(data) PROVE CodecInv'
  <2>1. IsData(data)
    BY CodecAssumption
  <2>2. IsMessage(device')
    BY <1>1, <1>5, <2>1, PatchIs DEF PatchBlock
  <2> QED BY <1>5, <2>2 DEF PatchBlock, CodecInv, CodecTypeOK, ShownInv
<1> QED BY <1>2, <1>3, <1>4, <1>5 DEF CodecNext

(* Writing back a block that was read. *)
LEMMA WriteKeeps == CodecInv => KeepsWhatWasRead
<1> SUFFICES ASSUME CodecInv, WriteBlock
             PROVE  IF kind # "object" THEN device' = device
                    ELSE \A p \in DOMAIN shown.of :
                            Writable(p) /\ (\A q \in Within(p) : ~Filtered(q, shown.mode))
                            => ValueIn(device', p) = shown.of[p]
  BY DEF KeepsWhatWasRead
<1>1. CASE kind # "object"
  BY <1>1 DEF CodecInv, ShownInv, WriteBlock, EncodePayload
<1>2. CASE kind = "object"
  <2> DEFINE data == shown.block.data
             m == shown.of
             pre == PreEncode(data)
  <2>1. IsData(data) /\ device' = Filled(pre) /\ IsMessage(m)
    BY <1>2, ShownIsData
  <2>2. PICK unit \in TempUnits : data = PostDecodeIn(m, shown.mode, unit)
    BY <1>2, ShownIsData
  <2>3. /\ IsMessage(pre)
        /\ DOMAIN pre = {p \in DOMAIN data : \A q \in Within(p) : ~Stripped(q) /\ data[q] # Null}
        /\ \A p \in DOMAIN pre : pre[p] = EncodeValue(p, data[p])
    BY <2>1, PreEncodeIs
  <2>4. \A p \in DOMAIN device' :
            device'[p] = IF p \in DOMAIN pre THEN pre[p] ELSE IF Has(p, "repeated") THEN Object ELSE Number(0)
    BY <2>1, <2>3, FilledIs
  <2>5. DOMAIN pre \subseteq DOMAIN device'
    BY <2>1, <2>3, FilledIs
  <2> SUFFICES ASSUME NEW p \in DOMAIN m, Writable(p), \A q \in Within(p) : ~Filtered(q, shown.mode)
               PROVE  ValueIn(device', p) = m[p]
    BY <1>2
  <2>6. ArePaths(DOMAIN m) /\ ~Container(p) /\ m[p] \in Numbers /\ \A q \in Within(p) : ~Stripped(q)
    BY <2>1 DEF Writable, IsMessage
  <2>7. ValueIn(device', p) = IF p \in DOMAIN pre THEN pre[p] ELSE Number(0)
    BY <2>4, <2>5, <2>6 DEF ValueIn, Container
  <2>8. p \in DOMAIN data <=> ~(Has(p, "omit_if_zero") /\ m[p] = Number(0))
    BY <2>2 DEF PostDecodeIn
  <2>9. \A q \in DOMAIN data : data[q] = DecodeIn(q, m[q], unit)
    BY <2>2 DEF PostDecodeIn
  <2>10. CASE p \notin DOMAIN data
    <3>1. m[p] = Number(0) /\ p \notin DOMAIN pre
      BY <2>3, <2>8, <2>10
    <3> QED BY <2>7, <3>1
  <2>11. CASE p \in DOMAIN data /\ data[p] = Null
    <3>1. m[p] = Number(0)
      BY <2>6, <2>9, <2>11, DecodeThenEncode
    <3>2. Null \notin Numbers /\ EncodeValue(p, Null) = Null
      BY DEF Null, Numbers, EncodeValue
    <3>3. p \notin DOMAIN pre
      <4>1. p \in DOMAIN pre => pre[p] \in Numbers
        BY <2>3, <2>6 DEF IsMessage
      <4> QED BY <2>3, <2>11, <3>2, <4>1
    <3> QED BY <2>7, <3>1, <3>3
  <2>12. CASE p \in DOMAIN data /\ data[p] # Null
    <3>1. \A q \in Within(p) : q \in DOMAIN data
      <4>1. ArePaths(DOMAIN data)
        BY <2>1 DEF IsData
      <4> QED BY <2>12, <4>1, WithinFacts
    <3>2. \A q \in Within(p) : data[q] # Null
      <4> SUFFICES ASSUME NEW q \in Within(p), q # p PROVE data[q] # Null
        BY <2>12
      <4>1. q \in DOMAIN m /\ Container(q)
        BY <2>6, WithinFacts
      <4>2. data[q] = m[q] /\ m[q] = Object
        BY <2>1, <2>9, <3>1, <4>1 DEF DecodeIn, IsMessage
      <4> QED BY <4>2 DEF Object, Null
    <3>3. p \in DOMAIN pre /\ pre[p] = EncodeValue(p, data[p])
      BY <2>3, <2>6, <2>12, <3>2
    <3>4. data[p] \in Numbers \cup Quantities \cup Links
      BY <2>1, <2>6, <2>12 DEF IsData
    <3>5. EncodeValue(p, data[p]) = m[p]
      BY <2>6, <2>9, <2>12, <3>4, DecodeThenEncode
    <3> QED BY <2>7, <3>3, <3>5
  <2> QED BY <2>10, <2>11, <2>12
<1> QED BY <1>1, <1>2

(* A block keeps the shape of a message, and what is shown of it is what was *)
(* read once, in the unit of then: through reads in every mode, changes of   *)
(* the unit, and whatever is written back or patched.                        *)
THEOREM CodecInvariant == BlockDataSpec => []CodecInv
<1>1. CodecInv /\ [BlockDataNext]_dataVars => CodecInv'
  <2> SUFFICES ASSUME CodecInv, [BlockDataNext]_dataVars PROVE CodecInv'
    OBVIOUS
  <2>1. CASE CodecNext
    BY <2>1, NextCodec
  <2>2. CASE UNCHANGED codecVars
    BY <2>2 DEF codecVars, CodecInv, CodecTypeOK, ShownInv
  <2>3. CodecNext \/ UNCHANGED codecVars
    BY DEF BlockDataNext, dataVars
  <2> QED BY <2>1, <2>2, <2>3
<1> QED BY <1>1, InitCodec, PTL DEF BlockDataSpec

(* WriteKeepsWhatWasRead: write_block() with what read_block() returned      *)
(* leaves the fields that can be written as they were.                       *)
THEOREM WritesKeepWhatWasRead == BlockDataSpec => WriteKeepsWhatWasRead
<1>1. CodecInv => (active = "codec" => KeepsWhatWasRead)
  BY WriteKeeps
<1> QED BY <1>1, CodecInvariant, PTL DEF WriteKeepsWhatWasRead

(* PatchIsExact: patch_block() changes what its data says, to the nearest    *)
(* values there are, and nothing else.                                       *)
THEOREM PatchesAreExact == BlockDataSpec => PatchIsExact
<1>1. CodecInv => (active = "codec" => PatchesAsGiven)
  <2> SUFFICES ASSUME CodecInv, NEW data \in Inputs, PatchBlock(data)
               PROVE  PatchedAsGiven(data, device, device')
    BY DEF PatchesAsGiven
  <2>1. IsData(data) /\ IsMessage(device)
    BY CodecAssumption DEF CodecInv, CodecTypeOK
  <2>2. device' = Patched(device, PreEncode(data), MaskFields(data))
    BY DEF PatchBlock
  <2> QED BY <2>1, <2>2, PatchIs
<1> QED BY <1>1, CodecInvariant, PTL DEF PatchIsExact

-----------------------------------------------------------------------------
(* What holds for 0 and for the next number holds for all. *)
LEMMA Induction ==
    ASSUME NEW S, 0 \in S, \A n \in Nat : n \in S => n + 1 \in S
    PROVE  Nat \subseteq S
<1> SUFFICES ASSUME Nat \ S # {} PROVE FALSE
  OBVIOUS
<1>1. PICK x \in Nat \ S : \A y \in Nat \ S : x <= y
  BY Least
<1>2. x # 0 /\ x - 1 \in Nat
  OBVIOUS
<1>3. x - 1 \notin Nat \ S
  BY <1>1, <1>2
<1> QED BY <1>2, <1>3

-----------------------------------------------------------------------------
(* e lists what F says of the elements of K, each once, in the order of g.   *)
ListsBy(e, K, F, g) ==
    /\ g \in [1..Len(e) -> K]
    /\ \A i, j \in 1..Len(e) : g[i] = g[j] => i = j
    /\ \A c \in K : \E i \in 1..Len(e) : g[i] = c
    /\ \A i \in 1..Len(e) : e[i] = F[g[i]]
Lists(e, K, F) == \E g : ListsBy(e, K, F, g)

LEMMA ListsNone ==
    ASSUME NEW F
    PROVE  Lists(<<>>, {}, F)
<1>1. ListsBy(<<>>, {}, F, <<>>)
  BY DEF ListsBy
<1> QED BY <1>1 DEF Lists

LEMMA ListsOne ==
    ASSUME NEW c, NEW F, NEW x, x = F[c]
    PROVE  Lists(<<x>>, {c}, F)
<1>1. Len(<<x>>) = 1 /\ <<x>>[1] = x
  OBVIOUS
<1>2. ListsBy(<<x>>, {c}, F, [i \in 1..1 |-> c])
  BY <1>1 DEF ListsBy
<1> QED BY <1>2 DEF Lists

LEMMA ListsBoth ==
    ASSUME NEW V, NEW a \in Seq(V), NEW b \in Seq(V), NEW K, NEW D, NEW F,
           Lists(a, K, F), Lists(b, D, F), K \cap D = {}
    PROVE  Lists(a \o b, K \cup D, F)
<1>1. PICK g : ListsBy(a, K, F, g)
  BY DEF Lists
<1>2. PICK h : ListsBy(b, D, F, h)
  BY DEF Lists
<1>3. PICK m \in Nat : m = Len(a)
  OBVIOUS
<1>4. PICK n \in Nat : n = Len(b)
  OBVIOUS
<1> DEFINE e == a \o b
           k == [i \in 1..(m + n) |-> IF i <= m THEN g[i] ELSE h[i - m]]
<1>5. /\ Len(e) = m + n
      /\ \A i \in 1..(m + n) : e[i] = IF i <= m THEN a[i] ELSE b[i - m]
  BY <1>3, <1>4, ConcatProperties
<1>6. /\ g \in [1..m -> K]
      /\ \A i, j \in 1..m : g[i] = g[j] => i = j
      /\ \A c \in K : \E i \in 1..m : g[i] = c
      /\ \A i \in 1..m : a[i] = F[g[i]]
  BY <1>1, <1>3 DEF ListsBy
<1>7. /\ h \in [1..n -> D]
      /\ \A i, j \in 1..n : h[i] = h[j] => i = j
      /\ \A c \in D : \E i \in 1..n : h[i] = c
      /\ \A i \in 1..n : b[i] = F[h[i]]
  BY <1>2, <1>4 DEF ListsBy
<1>8. ASSUME NEW i \in 1..(m + n)
      PROVE  \/ i \in 1..m /\ k[i] = g[i] /\ k[i] \in K /\ e[i] = a[i]
             \/ i - m \in 1..n /\ ~(i <= m) /\ k[i] = h[i - m] /\ k[i] \in D /\ e[i] = b[i - m]
  <2>1. CASE i <= m
    <3>1. i \in 1..m
      BY <2>1
    <3> QED BY <1>5, <1>6, <2>1, <3>1
  <2>2. CASE ~(i <= m)
    <3>1. i - m \in 1..n
      BY <2>2
    <3> QED BY <1>5, <1>7, <2>2, <3>1
  <2> QED BY <2>1, <2>2
<1>9. \A i \in 1..m : i \in 1..(m + n) /\ k[i] = g[i]
  OBVIOUS
<1>10. \A i \in 1..n : i + m \in 1..(m + n) /\ k[i + m] = h[i]
  OBVIOUS
<1>11. k \in [1..(m + n) -> K \cup D]
  <2>1. \A i \in 1..(m + n) : k[i] \in K \cup D
    BY <1>8
  <2> QED BY <2>1
<1> HIDE DEF k, e
<1>12. ASSUME NEW i \in 1..(m + n), NEW j \in 1..(m + n), k[i] = k[j] PROVE i = j
  <2>1. CASE i \in 1..m /\ k[i] = g[i] /\ k[i] \in K
    <3>1. j \in 1..m /\ k[j] = g[j]
      BY <1>8, <1>12, <2>1
    <3> QED BY <1>6, <1>12, <2>1, <3>1
  <2>2. CASE i - m \in 1..n /\ k[i] = h[i - m] /\ k[i] \in D
    <3>1. j - m \in 1..n /\ k[j] = h[j - m]
      BY <1>8, <1>12, <2>2
    <3>2. i - m = j - m
      BY <1>7, <1>12, <2>2, <3>1
    <3> QED BY <3>2
  <2> QED BY <1>8, <2>1, <2>2
<1>13. ASSUME NEW c \in K \cup D PROVE \E i \in 1..(m + n) : k[i] = c
  <2>1. CASE c \in K
    <3>1. PICK i \in 1..m : g[i] = c
      BY <1>6, <2>1
    <3> QED BY <1>9, <3>1
  <2>2. CASE c \in D
    <3>1. PICK i \in 1..n : h[i] = c
      BY <1>7, <2>2
    <3> QED BY <1>10, <3>1
  <2> QED BY <2>1, <2>2
<1>14. ASSUME NEW i \in 1..(m + n) PROVE e[i] = F[k[i]]
  BY <1>6, <1>7, <1>8
<1>15. ListsBy(e, K \cup D, F, k)
  BY <1>5, <1>11, <1>12, <1>13, <1>14 DEF ListsBy
<1> QED BY <1>15 DEF Lists, e

(* How many it lists, and what is in the list *)
LEMMA ListsAre ==
    ASSUME NEW V, NEW e \in Seq(V), NEW K, NEW F, Lists(e, K, F)
    PROVE  /\ IsFiniteSet(K) /\ Cardinality(K) = Len(e)
           /\ \A i \in 1..Len(e) : \E c \in K : e[i] = F[c]
           /\ \A c \in K : \E i \in 1..Len(e) : e[i] = F[c]
<1>1. PICK g : ListsBy(e, K, F, g)
  BY DEF Lists
<1>2. PICK n \in Nat : n = Len(e)
  OBVIOUS
<1>3. /\ g \in [1..n -> K]
      /\ \A i, j \in 1..n : g[i] = g[j] => i = j
      /\ \A c \in K : \E i \in 1..n : g[i] = c
      /\ \A i \in 1..n : e[i] = F[g[i]]
  BY <1>1, <1>2 DEF ListsBy
<1>4. g \in Bijection(1..n, K)
  BY <1>3 DEF Bijection, Injection, Surjection, IsInjective
<1>5. ExistsBijection(1..n, K)
  BY <1>4 DEF ExistsBijection
<1>6. IsFiniteSet(K)
  BY <1>5, FS_NatBijection
<1>7. Cardinality(K) = n
  BY <1>5, FS_CountingElements
<1>8. \A i \in 1..n : \E c \in K : e[i] = F[c]
  BY <1>3
<1>9. \A c \in K : \E i \in 1..n : e[i] = F[c]
  BY <1>3
<1> QED BY <1>2, <1>6, <1>7, <1>8, <1>9

(* FlattenSeq() of what lists a set each lists all of them. *)
LEMMA FlattenIs ==
    ASSUME NEW V, NEW parts \in Seq(Seq(V)), NEW n \in Nat, n = Len(parts)
    PROVE  \E f : /\ \A i \in 1..n : f[i] = IF i = 1 THEN parts[i] ELSE f[i - 1] \o parts[i]
                  /\ FlattenSeq(parts) = IF n = 0 THEN <<>> ELSE f[n]
<1> DEFINE Flattens(f, m) == f = [i \in 1..m |-> IF i = 1 THEN parts[i] ELSE f[i - 1] \o parts[i]]
           S == {m \in Nat : \E f : Flattens(f, m)}
<1>1. 0 \in S
  <2>1. Flattens([i \in 1..0 |-> <<>>], 0)
    OBVIOUS
  <2> QED BY <2>1
<1>2. ASSUME NEW m \in Nat, m \in S PROVE m + 1 \in S
  <2>1. PICK f : Flattens(f, m)
    BY <1>2
  <2> DEFINE last == IF m = 0 THEN parts[m + 1] ELSE f[m] \o parts[m + 1]
             next == [i \in 1..(m + 1) |-> IF i = m + 1 THEN last ELSE f[i]]
  <2>2. \A i \in 1..(m + 1) : next[i] = IF i = m + 1 THEN last ELSE f[i]
    OBVIOUS
  <2>3. \A i \in 1..m : f[i] = IF i = 1 THEN parts[i] ELSE f[i - 1] \o parts[i]
    BY <2>1
  <2>4. ASSUME NEW i \in 1..(m + 1)
        PROVE  next[i] = IF i = 1 THEN parts[i] ELSE next[i - 1] \o parts[i]
    <3>1. CASE i = m + 1
      <4>1. CASE m = 0
        BY <2>2, <3>1, <4>1
      <4>2. CASE m # 0
        <5>1. i # 1 /\ i - 1 = m /\ next[i - 1] = f[m]
          BY <2>2, <3>1, <4>2
        <5> QED BY <2>2, <3>1, <4>2, <5>1
      <4> QED BY <4>1, <4>2
    <3>2. CASE i # m + 1
      <4>1. i \in 1..m /\ (i # 1 => i - 1 \in 1..(m + 1) /\ i - 1 # m + 1)
        BY <3>2
      <4>2. next[i] = f[i] /\ (i # 1 => next[i - 1] = f[i - 1])
        BY <2>2, <3>2, <4>1
      <4> QED BY <2>3, <4>1, <4>2
    <3> QED BY <3>1, <3>2
  <2>5. Flattens(next, m + 1)
    <3>1. next = [i \in 1..(m + 1) |-> next[i]]
      OBVIOUS
    <3> HIDE DEF next
    <3> QED BY <2>4, <3>1
  <2>6. \E f1 : Flattens(f1, m + 1)
    <3> HIDE DEF next, Flattens
    <3> QED BY <2>5
  <2> HIDE DEF Flattens
  <2> QED BY <2>6
<1>3. n \in S
  <2> HIDE DEF S
  <2>1. Nat \subseteq S
    BY <1>1, <1>2, Induction
  <2> QED BY <2>1
<1> DEFINE o == CHOOSE f : Flattens(f, n)
<1>4. Flattens(o, n)
  BY <1>3
<1>5. FlattenSeq(parts) = IF n = 0 THEN parts ELSE o[n]
  BY DEF FlattenSeq
<1> HIDE DEF o
<1>6. \A i \in 1..n : o[i] = IF i = 1 THEN parts[i] ELSE o[i - 1] \o parts[i]
  BY <1>4
<1>7. n = 0 => parts = <<>>
  BY Len(parts) = 0 => parts = <<>>, EmptySeq
<1> QED BY <1>5, <1>6, <1>7

LEMMA ListsFlat ==
    ASSUME NEW V, NEW parts \in Seq(Seq(V)), NEW n \in Nat, n = Len(parts), NEW Cs, NEW F,
           \A i \in 1..n : Lists(parts[i], Cs[i], F),
           \A i, j \in 1..n : i # j => Cs[i] \cap Cs[j] = {}
    PROVE  /\ FlattenSeq(parts) \in Seq(V)
           /\ Lists(FlattenSeq(parts), UNION {Cs[i] : i \in 1..n}, F)
<1>1. PICK f : /\ \A i \in 1..n : f[i] = IF i = 1 THEN parts[i] ELSE f[i - 1] \o parts[i]
               /\ FlattenSeq(parts) = IF n = 0 THEN <<>> ELSE f[n]
  BY FlattenIs
<1>2. CASE n = 0
  <2>1. UNION {Cs[i] : i \in 1..n} = {}
    BY <1>2
  <2>2. FlattenSeq(parts) = <<>> /\ <<>> \in Seq(V)
    BY <1>1, <1>2
  <2>3. Lists(<<>>, {}, F)
    BY ListsNone
  <2> QED BY <2>1, <2>2, <2>3
<1>3. CASE n # 0
  <2> DEFINE T == {m \in Nat : m + 1 <= n => f[m + 1] \in Seq(V) /\ Lists(f[m + 1], UNION {Cs[i] : i \in 1..(m + 1)}, F)}
  <2>0. \A i \in 1..n : parts[i] \in Seq(V)
    OBVIOUS
  <2>1. 0 \in T
    <3>1. 1 \in 1..n /\ f[1] = parts[1]
      BY <1>1, <1>3
    <3>2. UNION {Cs[i] : i \in 1..1} = Cs[1]
      OBVIOUS
    <3>3. f[1] \in Seq(V) /\ Lists(f[1], Cs[1], F)
      BY <2>0, <3>1
    <3>4. 0 + 1 = 1
      OBVIOUS
    <3> QED BY <3>2, <3>3, <3>4
  <2>2. ASSUME NEW m \in Nat, m \in T PROVE m + 1 \in T
    <3>0. (m + 1) + 1 = m + 2 /\ m + 1 \in Nat
      OBVIOUS
    <3> SUFFICES ASSUME m + 2 <= n
                 PROVE  f[m + 2] \in Seq(V) /\ Lists(f[m + 2], UNION {Cs[i] : i \in 1..(m + 2)}, F)
      BY <3>0
    <3> DEFINE K == UNION {Cs[i] : i \in 1..(m + 1)}
    <3>1. f[m + 1] \in Seq(V) /\ Lists(f[m + 1], K, F)
      BY <2>2
    <3>2. m + 2 \in 1..n /\ m + 2 # 1 /\ (m + 2) - 1 = m + 1
      OBVIOUS
    <3>3. f[m + 2] = f[m + 1] \o parts[m + 2]
      BY <1>1, <3>2
    <3>4. K \cap Cs[m + 2] = {}
      <4>1. \A i \in 1..(m + 1) : i \in 1..n /\ i # m + 2
        OBVIOUS
      <4>2. \A i \in 1..(m + 1) : Cs[i] \cap Cs[m + 2] = {}
        BY <3>2, <4>1
      <4> QED BY ONLY <4>2
    <3>5. UNION {Cs[i] : i \in 1..(m + 2)} = K \cup Cs[m + 2]
      <4>1. \A i : i \in 1..(m + 2) <=> i \in 1..(m + 1) \/ i = m + 2
        OBVIOUS
      <4> QED BY ONLY <4>1
    <3>6. parts[m + 2] \in Seq(V) /\ Lists(parts[m + 2], Cs[m + 2], F)
      BY <2>0, <3>2
    <3> HIDE DEF K
    <3>7. Lists(f[m + 1] \o parts[m + 2], K \cup Cs[m + 2], F)
      BY <3>1, <3>4, <3>6, ListsBoth
    <3>8. f[m + 1] \o parts[m + 2] \in Seq(V)
      BY <3>1, <3>6
    <3> QED BY <3>3, <3>5, <3>7, <3>8
  <2>3. n - 1 \in T
    <3> HIDE DEF T
    <3>1. Nat \subseteq T
      BY <2>1, <2>2, Induction
    <3> QED BY <1>3, <3>1
  <2>4. (n - 1) + 1 = n
    OBVIOUS
  <2> QED BY <1>1, <1>3, <2>3, <2>4
<1> QED BY <1>2, <1>3

-----------------------------------------------------------------------------
(* The blocks that are analysed, and what the analysis is typed.             *)
AnalysisInv ==
    /\ \A b \in BlockIds : links[b] \in Data[b]
    /\ claimedBy \in [BlockIds -> BlockIds \cup {Nobody}]
    /\ channels \in [IoArrays -> [1..Channels -> BlockIds \cup {Nobody}]]
    /\ analysis.relations \in Seq(Range(analysis.relations)) /\ analysis.claims \in Seq(Range(analysis.claims))
    /\ AnalysisTypeOK

LEMMA LinksAre ==
    ASSUME AnalysisInv, NEW b \in BlockIds
    PROVE  \E n \in Nat :
            /\ n = Len(links[b]) /\ DOMAIN links[b] = 1..n
            /\ \A i \in 1..n : links[b][i][1] \in Seq(STRING) \ {<<>>} /\ links[b][i][2] # Nobody
<1>1. links[b] \in Data[b]
  BY DEF AnalysisInv
<1> DEFINE given == links[b]
<1>2. /\ given \in Seq(Range(given))
      /\ \A l \in Range(given) : l[1] \in Seq(STRING) \ {<<>>} /\ l[2] # Nobody
  BY <1>1, AnalysisAssumption
<1> HIDE DEF given
<1>3. PICK n \in Nat : n = Len(given) /\ DOMAIN given = 1..n
  BY <1>2
<1>4. \A i \in 1..n : given[i] \in Range(given)
  BY <1>3 DEF Range
<1>5. \A i \in 1..n : given[i][1] \in Seq(STRING) \ {<<>>} /\ given[i][2] # Nobody
  BY <1>2, <1>4
<1> QED BY <1>3, <1>5 DEF given

Counts(b, i) == b \notin Ignored /\ Range(links[b][i][1]) \cap IgnoredFields = {}

LEMMA CountedAre ==
    ASSUME AnalysisInv
    PROVE  /\ \A b \in BlockIds : \A i \in 1..Len(links[b]) : <<b, i>> \in CountedLinks <=> Counts(b, i)
           /\ \A c \in CountedLinks : c[1] \in BlockIds /\ c[2] \in 1..Len(links[c[1]]) /\ c = <<c[1], c[2]>>
<1>1. \A b \in BlockIds : DOMAIN links[b] = 1..Len(links[b])
  BY LinksAre
<1>2. ASSUME NEW b \in BlockIds, NEW i \in 1..Len(links[b])
      PROVE  <<b, i>> \in CountedLinks <=> Counts(b, i)
  <2>1. <<b, i>> \in UNION {{a} \X DOMAIN links[a] : a \in BlockIds \ Ignored} <=> b \notin Ignored
    BY <1>1
  <2> QED BY <2>1 DEF CountedLinks, Counts
<1>3. ASSUME NEW c \in CountedLinks
      PROVE  c[1] \in BlockIds /\ c[2] \in 1..Len(links[c[1]]) /\ c = <<c[1], c[2]>>
  <2>1. PICK b \in BlockIds \ Ignored : c \in {b} \X DOMAIN links[b]
    BY DEF CountedLinks
  <2>2. DOMAIN links[b] = 1..Len(links[b])
    BY <1>1
  <2> QED BY <2>1, <2>2
<1> QED BY <1>2, <1>3

RelationOf(c) == Relation(Related(c)[1], Related(c)[2], Related(c)[3])
RelationsOf == [c \in CountedLinks |-> RelationOf(c)]
RelationValues == {RelationOf(c) : c \in CountedLinks}
LinksOf(b) == {c \in CountedLinks : c[1] = b}

(* NestedRelations() lists the links of a block that count. *)
LEMMA NestedAre ==
    ASSUME AnalysisInv, NEW b \in BlockIds
    PROVE  /\ NestedRelations(b) \in Seq(RelationValues)
           /\ Lists(NestedRelations(b), LinksOf(b), RelationsOf)
<1>1. PICK n \in Nat :
            /\ n = Len(links[b]) /\ DOMAIN links[b] = 1..n
            /\ \A i \in 1..n : links[b][i][1] \in Seq(STRING) \ {<<>>} /\ links[b][i][2] # Nobody
  BY LinksAre
<1>2. CASE b \in Ignored
  <2>1. NestedRelations(b) = <<>>
    BY <1>2 DEF NestedRelations
  <2>2. LinksOf(b) = {}
    <3> SUFFICES ASSUME NEW c \in CountedLinks, c[1] = b PROVE FALSE
      BY DEF LinksOf
    <3>1. c[2] \in 1..Len(links[b]) /\ c = <<b, c[2]>>
      BY CountedAre
    <3>2. Counts(b, c[2])
      BY <3>1, CountedAre
    <3> QED BY <1>2, <3>2 DEF Counts
  <2>3. <<>> \in Seq(RelationValues)
    OBVIOUS
  <2>4. Lists(<<>>, {}, RelationsOf)
    BY ListsNone
  <2> QED BY <2>1, <2>2, <2>3, <2>4
<1>3. CASE b \notin Ignored
  <2> DEFINE parts == [i \in 1..n |-> NestedRelation(b, links[b][i])]
             Cs == [i \in 1..n |-> IF Counts(b, i) THEN {<<b, i>>} ELSE {}]
  <2>1. NestedRelations(b) = FlattenSeq(parts)
    BY <1>1, <1>3 DEF NestedRelations
  <2>2. ASSUME NEW i \in 1..n
        PROVE  parts[i] \in Seq(RelationValues) /\ Lists(parts[i], Cs[i], RelationsOf)
    <3>1. CASE ~Counts(b, i)
      <4>1. parts[i] = <<>> /\ Cs[i] = {}
        BY <1>3, <3>1 DEF Counts, NestedRelation
      <4>2. Lists(<<>>, {}, RelationsOf) /\ <<>> \in Seq(RelationValues)
        BY ListsNone
      <4> QED BY <4>1, <4>2
    <3>2. CASE Counts(b, i)
      <4> DEFINE c == <<b, i>>
                 r == RelationOf(c)
      <4>1. c \in CountedLinks
        BY <1>1, <3>2, CountedAre
      <4>2. parts[i] = <<r>> /\ Cs[i] = {c}
        <5>1. c[1] = b /\ c[2] = i
          OBVIOUS
        <5>2. NestedRelation(b, links[b][i]) = <<r>>
          BY <3>2, <5>1 DEF Counts, NestedRelation, RelationOf, Related, Relation
        <5> QED BY <3>2, <5>2
      <4>3. r \in RelationValues /\ RelationsOf[c] = r
        BY <4>1 DEF RelationValues, RelationsOf
      <4> HIDE DEF r, c
      <4>4. Lists(<<r>>, {c}, RelationsOf)
        BY <4>3, ListsOne
      <4>5. <<r>> \in Seq(RelationValues)
        BY <4>3
      <4> QED BY <4>2, <4>4, <4>5
    <3> QED BY <3>1, <3>2
  <2>3. \A i, j \in 1..n : i # j => Cs[i] \cap Cs[j] = {}
    OBVIOUS
  <2>4. UNION {Cs[i] : i \in 1..n} = LinksOf(b)
    <3>1. ASSUME NEW i \in 1..n, NEW c \in Cs[i] PROVE c \in LinksOf(b)
      <4>1. Counts(b, i) /\ c = <<b, i>>
        BY <3>1
      <4>2. c \in CountedLinks
        BY <1>1, <4>1, CountedAre
      <4> QED BY <4>1, <4>2 DEF LinksOf
    <3>2. ASSUME NEW c \in LinksOf(b) PROVE \E i \in 1..n : c \in Cs[i]
      <4>1. c \in CountedLinks /\ c[1] = b
        BY DEF LinksOf
      <4>2. c[2] \in 1..n /\ c = <<b, c[2]>>
        BY <1>1, <4>1, CountedAre
      <4>3. Counts(b, c[2])
        BY <1>1, <4>1, <4>2, CountedAre
      <4>4. c \in Cs[c[2]]
        BY <4>2, <4>3
      <4> QED BY <4>2, <4>4
    <3> HIDE DEF Cs
    <3> QED BY <3>1, <3>2
  <2>5. parts \in Seq(Seq(RelationValues)) /\ Len(parts) = n
    <3>1. \A i \in 1..n : parts[i] \in Seq(RelationValues)
      BY <2>2
    <3>2. parts \in [1..n -> Seq(RelationValues)]
      BY <3>1
    <3> HIDE DEF parts
    <3> QED BY <3>2
  <2>6. \A i \in 1..n : Lists(parts[i], Cs[i], RelationsOf)
    BY <2>2
  <2> HIDE DEF parts, Cs
  <2>7. FlattenSeq(parts) \in Seq(RelationValues) /\ Lists(FlattenSeq(parts), UNION {Cs[i] : i \in 1..n}, RelationsOf)
    BY <2>3, <2>5, <2>6, ListsFlat
  <2> QED BY <2>1, <2>4, <2>7
<1> QED BY <1>2, <1>3

LEMMA BlocksAre ==
    /\ Len(BlockList) \in Nat /\ DOMAIN BlockList = 1..Len(BlockList)
    /\ \A i \in 1..Len(BlockList) : BlockList[i] \in BlockIds
    /\ \A b \in BlockIds : \E i \in 1..Len(BlockList) : b = BlockList[i]
    /\ \A i, j \in 1..Len(BlockList) : BlockList[i] = BlockList[j] => i = j
    /\ IsFiniteSet(BlockIds)
<1>1. BlockList \in Seq(BlockIds) /\ IsInjective(BlockList)
  BY AnalysisAssumption
<1>2. PICK n \in Nat : n = Len(BlockList) /\ DOMAIN BlockList = 1..n
  BY <1>1
<1>3. \A i \in 1..n : BlockList[i] \in BlockIds
  BY <1>1, <1>2
<1>4. \A b \in BlockIds : \E i \in 1..n : b = BlockList[i]
  BY <1>2 DEF BlockIds, Range
<1>5. \A i, j \in 1..n : BlockList[i] = BlockList[j] => i = j
  BY <1>1, <1>2 DEF IsInjective
<1>6. IsFiniteSet(BlockIds)
  <2>1. BlockList \in [1..n -> BlockIds]
    BY <1>1, <1>2
  <2>2. BlockList \in Surjection(1..n, BlockIds)
    BY <1>4, <2>1 DEF Surjection
  <2>3. IsFiniteSet(1..n)
    BY FS_Interval
  <2> QED BY <2>2, <2>3, FS_Surjection
<1> QED BY <1>2, <1>3, <1>4, <1>5, <1>6

(* The relations before any is claimed *)
Unclaimed == FlattenSeq([i \in DOMAIN BlockList |-> NestedRelations(BlockList[i])])

LEMMA UnclaimedAre ==
    ASSUME AnalysisInv
    PROVE  Unclaimed \in Seq(RelationValues) /\ Lists(Unclaimed, CountedLinks, RelationsOf)
<1>1. PICK n \in Nat : n = Len(BlockList) /\ DOMAIN BlockList = 1..n
  BY BlocksAre
<1> DEFINE parts == [i \in 1..n |-> NestedRelations(BlockList[i])]
           Cs == [i \in 1..n |-> LinksOf(BlockList[i])]
<1>2. Unclaimed = FlattenSeq(parts)
  BY <1>1 DEF Unclaimed
<1>3. ASSUME NEW i \in 1..n
      PROVE  parts[i] \in Seq(RelationValues) /\ Lists(parts[i], Cs[i], RelationsOf)
  <2>1. BlockList[i] \in BlockIds
    BY <1>1, BlocksAre
  <2> QED BY <2>1, NestedAre
<1>4. ASSUME NEW i \in 1..n, NEW j \in 1..n, i # j PROVE Cs[i] \cap Cs[j] = {}
  <2>1. BlockList[i] # BlockList[j]
    BY <1>1, <1>4, BlocksAre
  <2> QED BY <2>1 DEF LinksOf
<1>5. UNION {Cs[i] : i \in 1..n} = CountedLinks
  <2>1. \A i \in 1..n : Cs[i] \subseteq CountedLinks
    BY DEF LinksOf
  <2>2. ASSUME NEW c \in CountedLinks PROVE \E i \in 1..n : c \in Cs[i]
    <3>1. c[1] \in BlockIds
      BY CountedAre
    <3>2. PICK i \in 1..n : c[1] = BlockList[i]
      BY <1>1, <3>1, BlocksAre
    <3>3. c \in Cs[i]
      BY <3>2 DEF LinksOf
    <3> QED BY <3>3
  <2> HIDE DEF Cs
  <2> QED BY <2>1, <2>2
<1>6. parts \in Seq(Seq(RelationValues)) /\ Len(parts) = n
  <2>1. \A i \in 1..n : parts[i] \in Seq(RelationValues)
    BY <1>3
  <2>2. parts \in [1..n -> Seq(RelationValues)]
    BY <2>1
  <2> HIDE DEF parts
  <2> QED BY <2>2
<1>7. \A i \in 1..n : Lists(parts[i], Cs[i], RelationsOf)
  BY <1>3
<1> HIDE DEF parts, Cs
<1>8. FlattenSeq(parts) \in Seq(RelationValues) /\ Lists(FlattenSeq(parts), UNION {Cs[i] : i \in 1..n}, RelationsOf)
  BY <1>4, <1>6, <1>7, ListsFlat
<1> QED BY <1>2, <1>5, <1>8

-----------------------------------------------------------------------------
(* What CalculateRelations makes of them: the first that matches each block  *)
(* is claimed.                                                               *)
Marked(r, x) == [source |-> r.source, target |-> r.target, relation |-> r.relation, claimed |-> x]
IsFirst(b, i) ==
    /\ claimedBy[b] # Nobody /\ Matching(Unclaimed, b) # {}
    /\ i = Min(Matching(Unclaimed, b))
MarkedUpTo(m) ==
    [i \in 1..Len(Unclaimed) |-> Marked(Unclaimed[i], \E k \in 1..m : IsFirst(BlockList[k], i))]

LEMMA UnclaimedIs ==
    ASSUME AnalysisInv, NEW i \in 1..Len(Unclaimed)
    PROVE  /\ Unclaimed[i] = Marked(Unclaimed[i], FALSE)
           /\ \E c \in CountedLinks : Unclaimed[i] = RelationOf(c)
<1>1. Unclaimed \in Seq(RelationValues)
  BY UnclaimedAre
<1>2. Unclaimed[i] \in RelationValues
  BY <1>1
<1>3. PICK c \in CountedLinks : Unclaimed[i] = RelationOf(c)
  BY <1>2 DEF RelationValues
<1>4. Unclaimed[i] = Marked(Unclaimed[i], FALSE)
  BY <1>3 DEF RelationOf, Relation, Marked
<1> QED BY <1>3, <1>4

LEMMA MinIs ==
    ASSUME NEW S, S \subseteq Nat, S # {}
    PROVE  Min(S) \in S /\ \A x \in S : Min(S) <= x
<1>1. \E x \in S : \A y \in S : x <= y
  BY Least
<1> QED BY <1>1 DEF Min

LEMMA MatchingSame ==
    ASSUME AnalysisInv, NEW relations, DOMAIN relations = 1..Len(Unclaimed), NEW b,
           \A i \in 1..Len(Unclaimed) : relations[i].source = Unclaimed[i].source /\ relations[i].target = Unclaimed[i].target
    PROVE  Matching(relations, b) = Matching(Unclaimed, b)
<1>1. Unclaimed \in Seq(RelationValues)
  BY UnclaimedAre
<1>2. DOMAIN Unclaimed = 1..Len(Unclaimed)
  BY <1>1
<1> QED BY <1>2 DEF Matching

LEMMA MarkedAgain ==
    ASSUME NEW u, NEW x \in BOOLEAN
    PROVE  [Marked(u, x) EXCEPT !.claimed = TRUE] = Marked(u, TRUE)
<1> DEFINE r == Marked(u, x)
           q == [r EXCEPT !.claimed = TRUE]
<1>1. r \in [source : {u.source}, target : {u.target}, relation : {u.relation}, claimed : BOOLEAN]
  BY DEF Marked
<1>2. q \in [source : {u.source}, target : {u.target}, relation : {u.relation}, claimed : {TRUE}]
  <2> HIDE DEF r
  <2> QED BY <1>1
<1> HIDE DEF q
<1>3. q = Marked(u, TRUE)
  BY <1>2 DEF Marked
<1> QED BY <1>3 DEF q

LEMMA ClaimedNext ==
    ASSUME AnalysisInv, NEW m \in Nat, m + 1 <= Len(BlockList)
    PROVE  Claimed(MarkedUpTo(m), BlockList[m + 1]) = MarkedUpTo(m + 1)
<1>1. PICK l \in Nat : l = Len(Unclaimed)
  BY UnclaimedAre
<1> DEFINE r == MarkedUpTo(m)
           b == BlockList[m + 1]
           to(i) == \E k \in 1..m : IsFirst(BlockList[k], i)
           next(i) == \E k \in 1..(m + 1) : IsFirst(BlockList[k], i)
<1>2. /\ DOMAIN r = 1..l
      /\ \A i \in 1..l : r[i] = Marked(Unclaimed[i], to(i))
  BY <1>1 DEF MarkedUpTo
<1>3. MarkedUpTo(m + 1) = [i \in 1..l |-> Marked(Unclaimed[i], next(i))]
  BY <1>1 DEF MarkedUpTo
<1>4. \A i : next(i) <=> to(i) \/ IsFirst(b, i)
  <2>1. \A k : k \in 1..(m + 1) <=> k \in 1..m \/ k = m + 1
    OBVIOUS
  <2> QED BY <2>1
<1>5. r = [i \in 1..l |-> Marked(Unclaimed[i], to(i))]
  BY <1>1 DEF MarkedUpTo
<1>6. Matching(r, b) = Matching(Unclaimed, b)
  <2>1. \A i \in 1..l : r[i].source = Unclaimed[i].source /\ r[i].target = Unclaimed[i].target
    BY <1>2 DEF Marked
  <2> HIDE DEF r, b
  <2> QED BY <1>1, <1>2, <2>1, MatchingSame
<1>a. \A i : to(i) \in BOOLEAN /\ next(i) \in BOOLEAN
  OBVIOUS
<1>7. CASE claimedBy[b] = Nobody \/ Matching(Unclaimed, b) = {}
  <2>1. Claimed(r, b) = r
    BY <1>6, <1>7 DEF Claimed
  <2>2. \A i : ~IsFirst(b, i)
    BY <1>7 DEF IsFirst
  <2>3. \A i : next(i) = to(i)
    BY <1>4, <1>a, <2>2
  <2> HIDE DEF next, to, r, b
  <2>4. MarkedUpTo(m + 1) = r
    BY <1>3, <1>5, <2>3
  <2> QED BY <2>1, <2>4 DEF r, b
<1>8. CASE claimedBy[b] # Nobody /\ Matching(Unclaimed, b) # {}
  <2> DEFINE j == Min(Matching(Unclaimed, b))
  <2>1. j \in 1..l
    <3>1. Matching(Unclaimed, b) \subseteq 1..l
      <4>1. Unclaimed \in Seq(RelationValues)
        BY UnclaimedAre
      <4> QED BY <1>1, <4>1 DEF Matching
    <3>2. \A i \in 1..l : i \in Nat
      OBVIOUS
    <3> HIDE DEF b
    <3>3. Matching(Unclaimed, b) \subseteq Nat
      BY <3>1, <3>2
    <3> QED BY <1>8, <3>1, <3>3, MinIs
  <2>2. \A i : IsFirst(b, i) <=> i = j
    BY <1>8 DEF IsFirst
  <2>3. Claimed(r, b) = [r EXCEPT ![j].claimed = TRUE]
    BY <1>6, <1>8 DEF Claimed
  <2>4. \A i : next(i) = (to(i) \/ i = j)
    BY <1>4, <1>a, <2>2
  <2> HIDE DEF next, to, r, b, j
  <2>5. ASSUME NEW i \in 1..l
        PROVE  [r EXCEPT ![j].claimed = TRUE][i] = Marked(Unclaimed[i], next(i))
    <3>1. CASE i = j
      <4>1. next(i) = TRUE
        BY <2>4, <3>1
      <4>2. [r EXCEPT ![j].claimed = TRUE][i] = [r[i] EXCEPT !.claimed = TRUE]
        BY <1>2, <2>1, <3>1
      <4>3. r[i] = Marked(Unclaimed[i], to(i))
        BY <1>2
      <4>4. [Marked(Unclaimed[i], to(i)) EXCEPT !.claimed = TRUE] = Marked(Unclaimed[i], TRUE)
        BY <1>a, MarkedAgain
      <4> QED BY <4>1, <4>2, <4>3, <4>4
    <3>2. CASE i # j
      <4>1. next(i) = to(i)
        BY <1>a, <2>4, <3>2
      <4>2. [r EXCEPT ![j].claimed = TRUE][i] = r[i]
        BY <1>2, <2>1, <3>2
      <4> QED BY <1>2, <4>1, <4>2
    <3> QED BY <3>1, <3>2
  <2>6. [r EXCEPT ![j].claimed = TRUE] = [i \in 1..l |-> Marked(Unclaimed[i], next(i))]
    <3> DEFINE q == [r EXCEPT ![j].claimed = TRUE]
    <3>1. q = [i \in 1..l |-> q[i]]
      BY <1>2
    <3> HIDE DEF q
    <3>2. \A i \in 1..l : q[i] = Marked(Unclaimed[i], next(i))
      BY <2>5 DEF q
    <3>3. q = [i \in 1..l |-> Marked(Unclaimed[i], next(i))]
      BY <3>1, <3>2
    <3> QED BY <3>3 DEF q
  <2> QED BY <1>3, <2>3, <2>6 DEF r, b
<1> QED BY <1>7, <1>8

LEMMA MarkedNone ==
    ASSUME AnalysisInv
    PROVE  MarkedUpTo(0) = Unclaimed
<1>1. PICK l \in Nat : l = Len(Unclaimed)
  BY UnclaimedAre
<1>2. \A i : (\E k \in 1..0 : IsFirst(BlockList[k], i)) = FALSE
  OBVIOUS
<1>3. MarkedUpTo(0) = [i \in 1..l |-> Marked(Unclaimed[i], FALSE)]
  BY <1>1, <1>2 DEF MarkedUpTo
<1>4. \A i \in 1..l : Marked(Unclaimed[i], FALSE) = Unclaimed[i]
  BY <1>1, UnclaimedIs
<1>5. Unclaimed = [i \in 1..l |-> Unclaimed[i]]
  <2>1. Unclaimed \in Seq(RelationValues)
    BY UnclaimedAre
  <2> QED BY <1>1, <2>1
<1> QED BY <1>3, <1>4, <1>5

ClaimedBy(g, m) == g = [n \in 0..m |-> IF n = 0 THEN Unclaimed ELSE Claimed(g[n - 1], BlockList[n])]

LEMMA RelationsAre ==
    ASSUME AnalysisInv
    PROVE  CalculateRelations = MarkedUpTo(Len(BlockList))
<1>1. PICK n \in Nat : n = Len(BlockList)
  BY BlocksAre
<1> DEFINE f == [k \in 0..n |-> MarkedUpTo(k)]
<1>2. ClaimedBy(f, n)
  <2>1. ASSUME NEW k \in 0..n PROVE f[k] = IF k = 0 THEN Unclaimed ELSE Claimed(f[k - 1], BlockList[k])
    <3>1. CASE k = 0
      BY <3>1, MarkedNone
    <3>2. CASE k # 0
      <4>1. k - 1 \in 0..n /\ (k - 1) + 1 = k /\ k - 1 \in Nat /\ (k - 1) + 1 <= n
        BY <3>2
      <4>2. Claimed(MarkedUpTo(k - 1), BlockList[(k - 1) + 1]) = MarkedUpTo((k - 1) + 1)
        BY <1>1, <4>1, ClaimedNext
      <4> QED BY <3>2, <4>1, <4>2
    <3> QED BY <3>1, <3>2
  <2>2. f = [k \in 0..n |-> f[k]]
    OBVIOUS
  <2> HIDE DEF f
  <2> QED BY <2>1, <2>2 DEF ClaimedBy
<1> DEFINE g == CHOOSE h : ClaimedBy(h, n)
<1>3. ClaimedBy(g, n)
  <2> HIDE DEF f
  <2> QED BY <1>2
<1>4. CalculateRelations = g[n]
  BY <1>1 DEF CalculateRelations, ClaimedBy, Unclaimed
<1> HIDE DEF g
<1>5. \A k \in 0..n : g[k] = IF k = 0 THEN Unclaimed ELSE Claimed(g[k - 1], BlockList[k])
  BY <1>3 DEF ClaimedBy
<1> DEFINE T == {m \in Nat : m <= n => g[m] = MarkedUpTo(m)}
<1>6. 0 \in T
  <2>1. g[0] = Unclaimed
    BY <1>5
  <2> QED BY <2>1, MarkedNone
<1>7. ASSUME NEW m \in Nat, m \in T PROVE m + 1 \in T
  <2> SUFFICES ASSUME m + 1 <= n PROVE g[m + 1] = MarkedUpTo(m + 1)
    OBVIOUS
  <2>1. g[m] = MarkedUpTo(m)
    BY <1>7
  <2>2. m + 1 \in 0..n /\ m + 1 # 0 /\ (m + 1) - 1 = m
    OBVIOUS
  <2>3. g[m + 1] = Claimed(g[m], BlockList[m + 1])
    BY <1>5, <2>2
  <2> QED BY <1>1, <2>1, <2>3, ClaimedNext
<1>8. n \in T
  <2> HIDE DEF T
  <2>1. Nat \subseteq T
    BY <1>6, <1>7, Induction
  <2> QED BY <2>1
<1> QED BY <1>1, <1>4, <1>8

-----------------------------------------------------------------------------
(* extended_claim() ends: after every call, there are fewer blocks that are  *)
(* not among the intermediate ones, or the source is none of them.           *)
Further(c) == claimedBy[c.source] # Nobody /\ claimedBy[c.source] \notin Range(c.intermediate)
NextClaim(c) == Claim(claimedBy[c.source], c.target, Append(c.intermediate, c.source))
Others(c) == BlockIds \ Range(c.intermediate)
Measure(c) == 2 * Cardinality(Others(c)) + IF c.source \in Range(c.intermediate) THEN 1 ELSE 0

LEMMA RangeIs ==
    ASSUME NEW s \in Seq(BlockIds), NEW x
    PROVE  /\ Range(Append(s, x)) = Range(s) \cup {x}
           /\ Range(s) \subseteq BlockIds
           /\ \A i \in 1..Len(s) : s[i] \in Range(s)
           /\ \A y \in Range(s) : \E i \in 1..Len(s) : y = s[i]
<1>1. PICK n \in Nat : n = Len(s) /\ DOMAIN s = 1..n
  OBVIOUS
<1> DEFINE t == Append(s, x)
<1>2. DOMAIN t = 1..(n + 1) /\ \A i \in 1..(n + 1) : t[i] = IF i = n + 1 THEN x ELSE s[i]
  BY <1>1
<1> HIDE DEF t
<1>3. \A i : i \in 1..(n + 1) <=> i \in 1..n \/ i = n + 1
  OBVIOUS
<1>4. Range(t) = Range(s) \cup {x}
  <2>1. Range(t) = {t[i] : i \in 1..(n + 1)} /\ Range(s) = {s[i] : i \in 1..n}
    BY <1>1, <1>2 DEF Range
  <2>2. \A i \in 1..n : i \in 1..(n + 1) /\ t[i] = s[i]
    BY <1>2
  <2>3. n + 1 \in 1..(n + 1) /\ t[n + 1] = x
    BY <1>2
  <2> QED BY <1>3, <2>1, <2>2, <2>3
<1> QED BY <1>1, <1>4 DEF t, Range

LEMMA MeasureIs ==
    ASSUME AnalysisInv, NEW c \in Claims
    PROVE  /\ Measure(c) \in Nat /\ Measure(c) <= 2 * Cardinality(BlockIds) + 1
           /\ Further(c) => NextClaim(c) \in Claims /\ Measure(NextClaim(c)) < Measure(c)
<1>1. /\ c.source \in BlockIds /\ c.target \in BlockIds /\ c.intermediate \in Seq(BlockIds)
  BY DEF Claims
<1>2. IsFiniteSet(Others(c)) /\ Cardinality(Others(c)) \in Nat
  <2>1. IsFiniteSet(BlockIds) /\ Others(c) \in SUBSET BlockIds
    BY BlocksAre DEF Others
  <2>2. IsFiniteSet(Others(c))
    BY <2>1, FS_Subset
  <2> QED BY <2>2, FS_CardinalityType
<1>3. Cardinality(Others(c)) <= Cardinality(BlockIds) /\ Cardinality(BlockIds) \in Nat
  <2>1. IsFiniteSet(BlockIds) /\ Others(c) \in SUBSET BlockIds
    BY BlocksAre DEF Others
  <2> QED BY <2>1, FS_Subset, FS_CardinalityType
<1>4. Measure(c) \in Nat /\ Measure(c) <= 2 * Cardinality(BlockIds) + 1
  BY <1>2, <1>3 DEF Measure
<1>5. ASSUME Further(c) PROVE NextClaim(c) \in Claims /\ Measure(NextClaim(c)) < Measure(c)
  <2> DEFINE d == NextClaim(c)
             g == claimedBy[c.source]
  <2>1. g \in BlockIds /\ g \notin Range(c.intermediate)
    BY <1>1, <1>5 DEF AnalysisInv, Further
  <2>2. d.source = g /\ d.target = c.target /\ d.intermediate = Append(c.intermediate, c.source)
    BY DEF NextClaim, Claim
  <2>3. Append(c.intermediate, c.source) \in Seq(BlockIds)
    BY <1>1
  <2>4. d \in Claims
    BY <1>1, <2>1, <2>3 DEF Claims, NextClaim, Claim
  <2> HIDE DEF d, g
  <2>5. Range(d.intermediate) = Range(c.intermediate) \cup {c.source}
    BY <1>1, <2>2, RangeIs
  <2>6. Others(d) = Others(c) \ {c.source}
    BY <2>5 DEF Others
  <2>7. Cardinality(Others(d)) = IF c.source \in Others(c) THEN Cardinality(Others(c)) - 1 ELSE Cardinality(Others(c))
    BY <1>2, <2>6, FS_RemoveElement
  <2>8. CASE c.source \in Range(c.intermediate)
    <3>1. c.source \notin Others(c) /\ d.source \notin Range(d.intermediate)
      BY <2>1, <2>2, <2>5, <2>8 DEF Others
    <3>2. Measure(d) = 2 * Cardinality(Others(c)) /\ Measure(c) = 2 * Cardinality(Others(c)) + 1
      BY <1>2, <2>7, <2>8, <3>1 DEF Measure
    <3> QED BY <1>2, <2>4, <3>2 DEF d
  <2>9. CASE c.source \notin Range(c.intermediate)
    <3>1. c.source \in Others(c)
      BY <1>1, <2>9 DEF Others
    <3>2. Measure(d) <= 2 * (Cardinality(Others(c)) - 1) + 1 /\ Measure(c) = 2 * Cardinality(Others(c)) /\ Measure(d) \in Int
      BY <1>2, <2>7, <2>9, <3>1 DEF Measure
    <3> QED BY <1>2, <2>4, <3>2 DEF d
  <2> QED BY <2>8, <2>9
<1> QED BY <1>4, <1>5

ExtendsOn(f, D) == f = [c \in D |-> IF Further(c) THEN f[NextClaim(c)] ELSE c]
ClaimsBelow(n) == {c \in Claims : Measure(c) < n}

LEMMA ExtendedIs ==
    ASSUME AnalysisInv
    PROVE  \A c \in Claims : ExtendedClaim(c) = IF Further(c) THEN ExtendedClaim(NextClaim(c)) ELSE c
<1> DEFINE S == {n \in Nat : \E f : ExtendsOn(f, ClaimsBelow(n))}
<1>1. 0 \in S
  <2>1. ClaimsBelow(0) = {}
    BY MeasureIs DEF ClaimsBelow
  <2>2. ExtendsOn([c \in ClaimsBelow(0) |-> c], ClaimsBelow(0))
    BY <2>1 DEF ExtendsOn
  <2> QED BY <2>2
<1>2. ASSUME NEW n \in Nat, n \in S PROVE n + 1 \in S
  <2>1. PICK f : ExtendsOn(f, ClaimsBelow(n))
    BY <1>2
  <2> DEFINE h == [c \in ClaimsBelow(n + 1) |-> IF Further(c) THEN f[NextClaim(c)] ELSE c]
  <2>2. ASSUME NEW c \in ClaimsBelow(n + 1), Further(c) PROVE NextClaim(c) \in ClaimsBelow(n) /\ NextClaim(c) \in ClaimsBelow(n + 1)
    <3>1. c \in Claims /\ Measure(c) < n + 1 /\ Measure(c) \in Nat
      BY MeasureIs DEF ClaimsBelow
    <3>2. NextClaim(c) \in Claims /\ Measure(NextClaim(c)) < Measure(c) /\ Measure(NextClaim(c)) \in Nat
      BY <2>2, <3>1, MeasureIs
    <3> QED BY <3>1, <3>2 DEF ClaimsBelow
  <2>3. \A c \in ClaimsBelow(n) : f[c] = IF Further(c) THEN f[NextClaim(c)] ELSE c
    BY <2>1 DEF ExtendsOn
  <2>4. ASSUME NEW c \in ClaimsBelow(n + 1) PROVE h[c] = IF Further(c) THEN h[NextClaim(c)] ELSE c
    <3>1. CASE Further(c)
      <4>1. NextClaim(c) \in ClaimsBelow(n) /\ NextClaim(c) \in ClaimsBelow(n + 1)
        BY <2>2, <3>1
      <4>2. h[c] = f[NextClaim(c)]
        BY <3>1
      <4>3. h[NextClaim(c)] = f[NextClaim(c)]
        BY <2>3, <4>1
      <4> QED BY <3>1, <4>2, <4>3
    <3>2. CASE ~Further(c)
      BY <3>2
    <3> QED BY <3>1, <3>2
  <2>5. ExtendsOn(h, ClaimsBelow(n + 1))
    <3>1. h = [c \in ClaimsBelow(n + 1) |-> h[c]]
      OBVIOUS
    <3> HIDE DEF h
    <3> QED BY <2>4, <3>1 DEF ExtendsOn
  <2> HIDE DEF h
  <2> QED BY <2>5
<1>3. PICK n \in Nat : n = 2 * Cardinality(BlockIds) + 2
  BY BlocksAre, FS_CardinalityType
<1>4. n \in S
  <2> HIDE DEF S
  <2>1. Nat \subseteq S
    BY <1>1, <1>2, Induction
  <2> QED BY <2>1
<1>5. ClaimsBelow(n) = Claims
  <2>1. Cardinality(BlockIds) \in Nat
    BY BlocksAre, FS_CardinalityType
  <2>2. \A c \in Claims : Measure(c) < n
    BY <1>3, <2>1, MeasureIs
  <2> QED BY <2>2 DEF ClaimsBelow
<1>6. \E f : ExtendsOn(f, Claims)
  BY <1>4, <1>5
<1> DEFINE body(f) == [c \in Claims |->
                IF claimedBy[c.source] = Nobody \/ claimedBy[c.source] \in Range(c.intermediate) THEN c
                ELSE f[Claim(claimedBy[c.source], c.target, Append(c.intermediate, c.source))]]
           e == CHOOSE f : f = body(f)
<1>7. \A f : ExtendsOn(f, Claims) <=> f = body(f)
  <2> SUFFICES ASSUME NEW f
               PROVE  [c \in Claims |-> IF Further(c) THEN f[NextClaim(c)] ELSE c] = body(f)
    BY DEF ExtendsOn
  <2> QED BY DEF Further, NextClaim
<1>8. ExtendsOn(e, Claims)
  <2>1. \E f : f = body(f)
    BY <1>6, <1>7
  <2>2. e = body(e)
    BY <2>1
  <2> HIDE DEF e
  <2> QED BY <1>7, <2>2
<1>9. ASSUME NEW c PROVE ExtendedClaim(c) = e[c]
  BY DEF ExtendedClaim
<1> HIDE DEF e
<1>10. \A c \in Claims : e[c] = IF Further(c) THEN e[NextClaim(c)] ELSE c
  BY <1>8 DEF ExtendsOn
<1> QED BY <1>9, <1>10

-----------------------------------------------------------------------------
(* A claim as far as it has been extended                                    *)
Extending(c) ==
    /\ c \in Claims
    /\ \A i \in 1..Len(c.intermediate) :
        claimedBy[c.intermediate[i]] = IF i = Len(c.intermediate) THEN c.source ELSE c.intermediate[i + 1]
    /\ \A i, j \in 1..Len(c.intermediate) : c.intermediate[i] = c.intermediate[j] => i = j

LEMMA ChainIs ==
    ASSUME NEW c \in Claims, NEW l \in Nat, l = Len(c.intermediate)
    PROVE  /\ Len(Chain(c)) = l + 2
           /\ \A i \in 1..(l + 2) : Chain(c)[i] = IF i = 1 THEN c.target ELSE IF i = l + 2 THEN c.source ELSE c.intermediate[i - 1]
           /\ Begins(c) = <<c.target, IF l = 0 THEN c.source ELSE c.intermediate[1]>>
           /\ c.source \in BlockIds /\ c.target \in BlockIds /\ c.intermediate \in Seq(BlockIds)
<1>1. c.source \in BlockIds /\ c.target \in BlockIds /\ c.intermediate \in Seq(BlockIds)
  BY DEF Claims
<1> DEFINE s == <<c.target>>
           t == <<c.source>>
           st == s \o c.intermediate
<1>2. s \in Seq(BlockIds) /\ Len(s) = 1 /\ s[1] = c.target /\ t \in Seq(BlockIds) /\ Len(t) = 1 /\ t[1] = c.source
  BY <1>1
<1>3. Chain(c) = st \o t
  BY DEF Chain
<1> HIDE DEF s, t
<1>4. /\ st \in Seq(BlockIds) /\ Len(st) = l + 1
      /\ \A i \in 1..(l + 1) : st[i] = IF i = 1 THEN c.target ELSE c.intermediate[i - 1]
  BY <1>1, <1>2, ConcatProperties
<1> HIDE DEF st
<1>5. /\ Len(st \o t) = l + 2
      /\ \A i \in 1..(l + 2) : (st \o t)[i] = IF i <= l + 1 THEN st[i] ELSE t[i - (l + 1)]
  BY <1>2, <1>4, ConcatProperties
<1>6. ASSUME NEW i \in 1..(l + 2)
      PROVE  Chain(c)[i] = IF i = 1 THEN c.target ELSE IF i = l + 2 THEN c.source ELSE c.intermediate[i - 1]
  <2>1. CASE i = l + 2
    <3>1. i - (l + 1) = 1 /\ i # 1 /\ ~(i <= l + 1)
      BY <2>1
    <3> QED BY <1>2, <1>3, <1>5, <2>1, <3>1
  <2>2. CASE i # l + 2
    <3>1. i \in 1..(l + 1) /\ i <= l + 1
      BY <2>2
    <3> QED BY <1>3, <1>4, <1>5, <2>2, <3>1
  <2> QED BY <2>1, <2>2
<1>7. Begins(c) = <<c.target, IF l = 0 THEN c.source ELSE c.intermediate[1]>>
  <2>1. 1 \in 1..(l + 2) /\ 2 \in 1..(l + 2) /\ 2 # 1 /\ (2 = l + 2 <=> l = 0) /\ 2 - 1 = 1
    OBVIOUS
  <2> QED BY <1>6, <2>1 DEF Begins
<1> QED BY <1>1, <1>3, <1>5, <1>6, <1>7

LEMMA FurtherExtending ==
    ASSUME AnalysisInv, NEW c, Extending(c), Further(c)
    PROVE  Extending(NextClaim(c)) /\ Begins(NextClaim(c)) = Begins(c)
<1> DEFINE d == NextClaim(c)
           s == c.intermediate
<1>1. /\ c \in Claims /\ s \in Seq(BlockIds) /\ d \in Claims
      /\ d.source = claimedBy[c.source] /\ d.target = c.target /\ d.intermediate = Append(s, c.source)
  BY MeasureIs DEF Extending, Claims, NextClaim, Claim
<1>2. PICK l \in Nat : l = Len(s) /\ DOMAIN s = 1..l
  BY <1>1
<1> DEFINE t == Append(s, c.source)
<1>3. Len(t) = l + 1 /\ \A i \in 1..(l + 1) : t[i] = IF i = l + 1 THEN c.source ELSE s[i]
  BY <1>1, <1>2
<1>4. claimedBy[c.source] \notin Range(s)
  BY DEF Further
<1>5. /\ \A i \in 1..l : claimedBy[s[i]] = IF i = l THEN c.source ELSE s[i + 1]
      /\ \A i, j \in 1..l : s[i] = s[j] => i = j
  BY <1>2 DEF Extending
<1>6. \A i \in 1..l : s[i] \in Range(s)
  BY <1>1, <1>2, RangeIs
<1> HIDE DEF t, d, s
<1>7. ASSUME NEW i \in 1..l PROVE s[i] # c.source
  <2> SUFFICES ASSUME s[i] = c.source PROVE FALSE
    OBVIOUS
  <2>1. claimedBy[c.source] = IF i = l THEN c.source ELSE s[i + 1]
    BY <1>5
  <2>2. CASE i = l
    <3>1. claimedBy[c.source] = s[i]
      BY <2>1, <2>2
    <3> QED BY <1>4, <1>6, <3>1
  <2>3. CASE i # l
    <3>1. i + 1 \in 1..l
      BY <2>3
    <3> QED BY <1>4, <1>6, <2>1, <2>3, <3>1
  <2> QED BY <2>2, <2>3
<1>8. ASSUME NEW i \in 1..(l + 1) PROVE claimedBy[t[i]] = IF i = l + 1 THEN d.source ELSE t[i + 1]
  <2>1. CASE i = l + 1
    BY <1>1, <1>3, <2>1
  <2>2. CASE i # l + 1
    <3>1. i \in 1..l /\ i + 1 \in 1..(l + 1) /\ (i = l <=> i + 1 = l + 1)
      BY <2>2
    <3>2. t[i] = s[i] /\ t[i + 1] = IF i = l THEN c.source ELSE s[i + 1]
      BY <1>3, <2>2, <3>1
    <3> QED BY <1>5, <2>2, <3>1, <3>2
  <2> QED BY <2>1, <2>2
<1>9. ASSUME NEW i \in 1..(l + 1), NEW j \in 1..(l + 1), t[i] = t[j] PROVE i = j
  <2>1. i \in 1..l \/ i = l + 1
    OBVIOUS
  <2>2. j \in 1..l \/ j = l + 1
    OBVIOUS
  <2> QED BY <1>3, <1>5, <1>7, <1>9, <2>1, <2>2
<1>10. Extending(d)
  BY <1>1, <1>3, <1>8, <1>9 DEF Extending, t
<1>11. Begins(d) = Begins(c)
  <2>1. Begins(c) = <<c.target, IF l = 0 THEN c.source ELSE s[1]>>
    BY <1>1, <1>2, ChainIs DEF s
  <2>2. Begins(d) = <<d.target, IF l + 1 = 0 THEN d.source ELSE t[1]>>
    BY <1>1, <1>3, ChainIs DEF t
  <2>3. 1 \in 1..(l + 1) /\ l + 1 # 0
    OBVIOUS
  <2>4. t[1] = IF l = 0 THEN c.source ELSE s[1]
    BY <1>3, <2>3
  <2> QED BY <1>1, <2>1, <2>2, <2>3, <2>4
<1> QED BY <1>10, <1>11 DEF d

LEMMA FollowsIs ==
    ASSUME AnalysisInv, NEW c, Extending(c), ~Further(c)
    PROVE  FollowsClaims(c)
<1>1. c \in Claims
  BY DEF Extending
<1>2. PICK l \in Nat : l = Len(c.intermediate) /\ DOMAIN c.intermediate = 1..l
  BY <1>1 DEF Claims
<1>3. ASSUME NEW i \in 2..(Len(Chain(c)) - 1) PROVE claimedBy[Chain(c)[i]] = Chain(c)[i + 1]
  <2>1. Len(Chain(c)) = l + 2
    BY <1>1, <1>2, ChainIs
  <2>2. i - 1 \in 1..l /\ i \in 1..(l + 2) /\ i + 1 \in 1..(l + 2) /\ i # 1 /\ i # l + 2 /\ i + 1 # 1 /\ (i + 1) - 1 = i
    BY <2>1
  <2>3. Chain(c)[i] = c.intermediate[i - 1]
    BY <1>1, <1>2, <2>2, ChainIs
  <2>4. Chain(c)[i + 1] = IF i + 1 = l + 2 THEN c.source ELSE c.intermediate[i]
    BY <1>1, <1>2, <2>2, ChainIs
  <2>5. claimedBy[c.intermediate[i - 1]] = IF i - 1 = l THEN c.source ELSE c.intermediate[(i - 1) + 1]
    BY <1>2, <2>2 DEF Extending
  <2>6. (i - 1 = l <=> i + 1 = l + 2) /\ (i - 1) + 1 = i
    BY <2>2
  <2> QED BY <2>3, <2>4, <2>5, <2>6
<1>4. IsInjective(c.intermediate)
  BY <1>2 DEF Extending, IsInjective
<1>5. claimedBy[c.source] \in Range(c.intermediate) \cup {Nobody}
  BY DEF Further
<1> QED BY <1>3, <1>4, <1>5 DEF FollowsClaims

(* A claim is extended to its end, and begins as it did. *)
LEMMA ExtendedFollows ==
    ASSUME AnalysisInv
    PROVE  \A c : Extending(c) =>
                /\ ExtendedClaim(c) \in Claims
                /\ FollowsClaims(ExtendedClaim(c))
                /\ Begins(ExtendedClaim(c)) = Begins(c)
<1> DEFINE Fine(c) == /\ ExtendedClaim(c) \in Claims
                      /\ FollowsClaims(ExtendedClaim(c))
                      /\ Begins(ExtendedClaim(c)) = Begins(c)
           T == {n \in Nat : \A c \in Claims : Extending(c) /\ Measure(c) < n => Fine(c)}
<1>1. 0 \in T
  BY MeasureIs
<1>2. ASSUME NEW n \in Nat, n \in T PROVE n + 1 \in T
  <2> SUFFICES ASSUME NEW c \in Claims, Extending(c), Measure(c) < n + 1 PROVE Fine(c)
    OBVIOUS
  <2>1. \A d \in Claims : Extending(d) /\ Measure(d) < n => Fine(d)
    BY <1>2
  <2>2. ExtendedClaim(c) = IF Further(c) THEN ExtendedClaim(NextClaim(c)) ELSE c
    BY ExtendedIs
  <2>3. CASE Further(c)
    <3> DEFINE d == NextClaim(c)
    <3>1. d \in Claims /\ Measure(d) < Measure(c) /\ Measure(c) \in Nat /\ Measure(d) \in Nat
      BY <2>3, MeasureIs
    <3>2. Measure(d) < n
      BY <3>1
    <3>3. Extending(d) /\ Begins(d) = Begins(c)
      BY <2>3, FurtherExtending
    <3> HIDE DEF d
    <3>4. Fine(d)
      BY <2>1, <3>1, <3>2, <3>3
    <3> QED BY <2>2, <2>3, <3>3, <3>4 DEF d
  <2>4. CASE ~Further(c)
    BY <2>2, <2>4, FollowsIs
  <2> QED BY <2>3, <2>4
<1>3. ASSUME NEW c, Extending(c) PROVE Fine(c)
  <2>1. c \in Claims
    BY <1>3 DEF Extending
  <2>2. PICK n \in Nat : n = Measure(c) + 1
    BY <2>1, MeasureIs
  <2>3. Measure(c) < n
    BY <2>1, <2>2, MeasureIs
  <2>4. n \in T
    <3> HIDE DEF T
    <3>1. Nat \subseteq T
      BY <1>1, <1>2, Induction
    <3> QED BY <3>1
  <2> QED BY <1>3, <2>1, <2>3, <2>4
<1> QED BY <1>3

-----------------------------------------------------------------------------
(* The claims that are extended: one of each block and channel claimed.      *)
BlockClaimsOf == [b \in ClaimedBlocks |-> Claim(claimedBy[b], b, <<>>)]
ChannelClaimsOf == [c \in ClaimedChannels |-> Claim(channels[c[1]][c[2]], c[1], <<>>)]
WholeClaims == FlattenSeq([i \in DOMAIN BlockList |-> DirectClaim(claimedBy[BlockList[i]], BlockList[i])])
PartClaims == FlattenSeq([i \in DOMAIN BlockList |-> ChannelClaims(BlockList[i])])
ChannelsOf(b) == {c \in ClaimedChannels : c[1] = b}

LEMMA WholeAre ==
    ASSUME AnalysisInv
    PROVE  WholeClaims \in Seq(Claims) /\ Lists(WholeClaims, ClaimedBlocks, BlockClaimsOf)
<1>1. PICK n \in Nat : n = Len(BlockList) /\ DOMAIN BlockList = 1..n
  BY BlocksAre
<1>2. /\ \A i \in 1..n : BlockList[i] \in BlockIds
      /\ \A b \in BlockIds : \E i \in 1..n : b = BlockList[i]
      /\ \A i, j \in 1..n : BlockList[i] = BlockList[j] => i = j
  BY <1>1, BlocksAre
<1> DEFINE parts == [i \in 1..n |-> DirectClaim(claimedBy[BlockList[i]], BlockList[i])]
           Cs == [i \in 1..n |-> {BlockList[i]} \cap ClaimedBlocks]
<1>3. WholeClaims = FlattenSeq(parts)
  BY <1>1 DEF WholeClaims
<1>4. ASSUME NEW i \in 1..n
      PROVE  parts[i] \in Seq(Claims) /\ Lists(parts[i], Cs[i], BlockClaimsOf)
  <2> DEFINE b == BlockList[i]
  <2>1. b \in BlockIds /\ claimedBy[b] \in BlockIds \cup {Nobody}
    BY <1>2 DEF AnalysisInv
  <2>2. parts[i] = DirectClaim(claimedBy[b], b) /\ Cs[i] = {b} \cap ClaimedBlocks
    OBVIOUS
  <2> HIDE DEF b, parts, Cs
  <2>3. CASE claimedBy[b] = Nobody
    <3>1. parts[i] = <<>> /\ Cs[i] = {}
      BY <2>2, <2>3 DEF DirectClaim, ClaimedBlocks
    <3>2. Lists(<<>>, {}, BlockClaimsOf) /\ <<>> \in Seq(Claims)
      BY ListsNone
    <3> QED BY <3>1, <3>2
  <2>4. CASE claimedBy[b] # Nobody
    <3> DEFINE c == Claim(claimedBy[b], b, <<>>)
    <3>1. b \in ClaimedBlocks
      BY <2>1, <2>4 DEF ClaimedBlocks
    <3>2. parts[i] = <<c>> /\ Cs[i] = {b}
      BY <2>2, <2>4, <3>1 DEF DirectClaim
    <3>3. c = BlockClaimsOf[b]
      BY <3>1 DEF BlockClaimsOf
    <3>4. c \in Claims
      BY <2>1, <2>4 DEF Claims, Claim
    <3> HIDE DEF c
    <3>5. Lists(<<c>>, {b}, BlockClaimsOf)
      BY <3>3, ListsOne
    <3> QED BY <3>2, <3>4, <3>5
  <2> QED BY <2>3, <2>4
<1>5. ASSUME NEW i \in 1..n, NEW j \in 1..n, i # j PROVE Cs[i] \cap Cs[j] = {}
  <2>1. BlockList[i] # BlockList[j]
    BY <1>2, <1>5
  <2> QED BY <2>1
<1>6. UNION {Cs[i] : i \in 1..n} = ClaimedBlocks
  <2>1. \A i \in 1..n : Cs[i] \subseteq ClaimedBlocks
    OBVIOUS
  <2>2. ASSUME NEW b \in ClaimedBlocks PROVE \E i \in 1..n : b \in Cs[i]
    <3>1. b \in BlockIds
      BY DEF ClaimedBlocks
    <3>2. PICK i \in 1..n : b = BlockList[i]
      BY <1>2, <3>1
    <3>3. b \in Cs[i]
      BY <3>2
    <3> QED BY <3>3
  <2> HIDE DEF Cs
  <2> QED BY <2>1, <2>2
<1>7. parts \in Seq(Seq(Claims)) /\ Len(parts) = n
  <2>1. \A i \in 1..n : parts[i] \in Seq(Claims)
    BY <1>4
  <2>2. parts \in [1..n -> Seq(Claims)]
    BY <2>1
  <2> HIDE DEF parts
  <2> QED BY <2>2
<1>8. \A i \in 1..n : Lists(parts[i], Cs[i], BlockClaimsOf)
  BY <1>4
<1> HIDE DEF parts, Cs
<1>9. FlattenSeq(parts) \in Seq(Claims) /\ Lists(FlattenSeq(parts), UNION {Cs[i] : i \in 1..n}, BlockClaimsOf)
  BY <1>5, <1>7, <1>8, ListsFlat
<1> QED BY <1>3, <1>6, <1>9

LEMMA ChannelsAre ==
    ASSUME AnalysisInv, NEW b \in BlockIds
    PROVE  /\ ChannelClaims(b) \in Seq(Claims)
           /\ Lists(ChannelClaims(b), ChannelsOf(b), ChannelClaimsOf)
<1>1. CASE b \notin IoArrays
  <2>1. ChannelClaims(b) = <<>> /\ ChannelsOf(b) = {}
    BY <1>1 DEF ChannelClaims, ChannelsOf, ClaimedChannels
  <2>2. Lists(<<>>, {}, ChannelClaimsOf) /\ <<>> \in Seq(Claims)
    BY ListsNone
  <2> QED BY <2>1, <2>2
<1>2. CASE b \in IoArrays
  <2>1. channels[b] \in [1..Channels -> BlockIds \cup {Nobody}] /\ Channels \in Nat
    BY <1>2, AnalysisAssumption DEF AnalysisInv
  <2>2. PICK n \in Nat : n = Channels
    BY <2>1
  <2> DEFINE parts == [k \in 1..n |-> DirectClaim(channels[b][k], b)]
             Cs == [k \in 1..n |-> {<<b, k>>} \cap ClaimedChannels]
  <2>3. ChannelClaims(b) = FlattenSeq(parts)
    BY <1>2, <2>1, <2>2 DEF ChannelClaims
  <2>4. ASSUME NEW k \in 1..n
        PROVE  parts[k] \in Seq(Claims) /\ Lists(parts[k], Cs[k], ChannelClaimsOf)
    <3> DEFINE c == <<b, k>>
               s == channels[b][k]
    <3>1. s \in BlockIds \cup {Nobody}
      BY <2>1, <2>2
    <3>2. c[1] = b /\ c[2] = k /\ c \in IoArrays \X (1..Channels)
      BY <1>2, <2>2
    <3>3. parts[k] = DirectClaim(s, b) /\ Cs[k] = {c} \cap ClaimedChannels
      OBVIOUS
    <3>4. c \in ClaimedChannels <=> s # Nobody
      BY <3>2 DEF ClaimedChannels
    <3>5. s = channels[c[1]][c[2]]
      BY <3>2
    <3> HIDE DEF s, c, parts, Cs
    <3>6. CASE s = Nobody
      <4>1. parts[k] = <<>> /\ Cs[k] = {}
        BY <3>3, <3>4, <3>6 DEF DirectClaim
      <4>2. Lists(<<>>, {}, ChannelClaimsOf) /\ <<>> \in Seq(Claims)
        BY ListsNone
      <4> QED BY <4>1, <4>2
    <3>7. CASE s # Nobody
      <4> DEFINE x == Claim(s, b, <<>>)
      <4>1. parts[k] = <<x>> /\ Cs[k] = {c}
        BY <3>3, <3>4, <3>7 DEF DirectClaim
      <4>2. x = ChannelClaimsOf[c]
        BY <3>2, <3>4, <3>5, <3>7 DEF ChannelClaimsOf
      <4>3. x \in Claims
        BY <3>1, <3>7 DEF Claims, Claim
      <4> HIDE DEF x
      <4>4. Lists(<<x>>, {c}, ChannelClaimsOf)
        BY <4>2, ListsOne
      <4> QED BY <4>1, <4>3, <4>4
    <3> QED BY <3>6, <3>7
  <2>5. \A i, j \in 1..n : i # j => Cs[i] \cap Cs[j] = {}
    OBVIOUS
  <2>6. UNION {Cs[k] : k \in 1..n} = ChannelsOf(b)
    <3>1. ASSUME NEW k \in 1..n, NEW c \in Cs[k] PROVE c \in ChannelsOf(b)
      BY <3>1 DEF ChannelsOf
    <3>2. ASSUME NEW c \in ChannelsOf(b) PROVE \E k \in 1..n : c \in Cs[k]
      <4>1. c \in ClaimedChannels /\ c[1] = b
        BY DEF ChannelsOf
      <4>2. c[2] \in 1..n /\ c = <<b, c[2]>>
        BY <2>2, <4>1 DEF ClaimedChannels
      <4>3. c \in Cs[c[2]]
        BY <4>1, <4>2
      <4> QED BY <4>2, <4>3
    <3> HIDE DEF Cs
    <3> QED BY <3>1, <3>2
  <2>7. parts \in Seq(Seq(Claims)) /\ Len(parts) = n
    <3>1. \A i \in 1..n : parts[i] \in Seq(Claims)
      BY <2>4
    <3>2. parts \in [1..n -> Seq(Claims)]
      BY <3>1
    <3> HIDE DEF parts
    <3> QED BY <3>2
  <2>8. \A i \in 1..n : Lists(parts[i], Cs[i], ChannelClaimsOf)
    BY <2>4
  <2> HIDE DEF parts, Cs
  <2>9. FlattenSeq(parts) \in Seq(Claims) /\ Lists(FlattenSeq(parts), UNION {Cs[i] : i \in 1..n}, ChannelClaimsOf)
    BY <2>5, <2>7, <2>8, ListsFlat
  <2> QED BY <2>3, <2>6, <2>9
<1> QED BY <1>1, <1>2

LEMMA PartAre ==
    ASSUME AnalysisInv
    PROVE  PartClaims \in Seq(Claims) /\ Lists(PartClaims, ClaimedChannels, ChannelClaimsOf)
<1>1. PICK n \in Nat : n = Len(BlockList) /\ DOMAIN BlockList = 1..n
  BY BlocksAre
<1>2. /\ \A i \in 1..n : BlockList[i] \in BlockIds
      /\ \A b \in BlockIds : \E i \in 1..n : b = BlockList[i]
      /\ \A i, j \in 1..n : BlockList[i] = BlockList[j] => i = j
  BY <1>1, BlocksAre
<1> DEFINE parts == [i \in 1..n |-> ChannelClaims(BlockList[i])]
           Cs == [i \in 1..n |-> ChannelsOf(BlockList[i])]
<1>3. PartClaims = FlattenSeq(parts)
  BY <1>1 DEF PartClaims
<1>4. ASSUME NEW i \in 1..n
      PROVE  parts[i] \in Seq(Claims) /\ Lists(parts[i], Cs[i], ChannelClaimsOf)
  BY <1>2, ChannelsAre
<1>5. ASSUME NEW i \in 1..n, NEW j \in 1..n, i # j PROVE Cs[i] \cap Cs[j] = {}
  <2>1. BlockList[i] # BlockList[j]
    BY <1>2, <1>5
  <2> QED BY <2>1 DEF ChannelsOf
<1>6. UNION {Cs[i] : i \in 1..n} = ClaimedChannels
  <2>1. \A i \in 1..n : Cs[i] \subseteq ClaimedChannels
    BY DEF ChannelsOf
  <2>2. ASSUME NEW c \in ClaimedChannels PROVE \E i \in 1..n : c \in Cs[i]
    <3>1. c[1] \in BlockIds
      BY AnalysisAssumption DEF ClaimedChannels
    <3>2. PICK i \in 1..n : c[1] = BlockList[i]
      BY <1>2, <3>1
    <3>3. c \in Cs[i]
      BY <3>2 DEF ChannelsOf
    <3> QED BY <3>3
  <2> HIDE DEF Cs
  <2> QED BY <2>1, <2>2
<1>7. parts \in Seq(Seq(Claims)) /\ Len(parts) = n
  <2>1. \A i \in 1..n : parts[i] \in Seq(Claims)
    BY <1>4
  <2>2. parts \in [1..n -> Seq(Claims)]
    BY <2>1
  <2> HIDE DEF parts
  <2> QED BY <2>2
<1>8. \A i \in 1..n : Lists(parts[i], Cs[i], ChannelClaimsOf)
  BY <1>4
<1> HIDE DEF parts, Cs
<1>9. FlattenSeq(parts) \in Seq(Claims) /\ Lists(FlattenSeq(parts), UNION {Cs[i] : i \in 1..n}, ChannelClaimsOf)
  BY <1>5, <1>7, <1>8, ListsFlat
<1> QED BY <1>3, <1>6, <1>9

LEMMA DirectExtending ==
    ASSUME NEW s \in BlockIds, NEW t \in BlockIds
    PROVE  Extending(Claim(s, t, <<>>)) /\ Begins(Claim(s, t, <<>>)) = <<t, s>>
<1> DEFINE c == Claim(s, t, <<>>)
<1>1. c \in Claims /\ c.source = s /\ c.target = t /\ c.intermediate = <<>> /\ Len(<<>>) = 0
  BY DEF Claims, Claim
<1> HIDE DEF c
<1>2. Begins(c) = <<t, s>>
  BY <1>1, ChainIs
<1> QED BY <1>1, <1>2 DEF Extending, c

(* The claims of the analysis: those on blocks, then those on channels *)
LEMMA ClaimsAre ==
    ASSUME AnalysisInv, NEW claims, claims = CalculateClaims
    PROVE  LET whole == Cardinality(ClaimedBlocks) IN
           /\ claims \in Seq(Claims)
           /\ \A i \in DOMAIN claims : FollowsClaims(claims[i])
           /\ Len(claims) = whole + Cardinality(ClaimedChannels)
           /\ {Begins(claims[i]) : i \in 1..whole} = {<<b, claimedBy[b]>> : b \in ClaimedBlocks}
           /\ {Begins(claims[i]) : i \in (whole + 1)..Len(claims)}
                = {<<c[1], channels[c[1]][c[2]]>> : c \in ClaimedChannels}
<1>1. WholeClaims \in Seq(Claims) /\ Lists(WholeClaims, ClaimedBlocks, BlockClaimsOf)
  BY WholeAre
<1>2. PartClaims \in Seq(Claims) /\ Lists(PartClaims, ClaimedChannels, ChannelClaimsOf)
  BY PartAre
<1>3. PICK m \in Nat : m = Len(WholeClaims)
  BY <1>1
<1>4. PICK n \in Nat : n = Len(PartClaims)
  BY <1>2
<1>5. Cardinality(ClaimedBlocks) = m /\ Cardinality(ClaimedChannels) = n
  BY <1>1, <1>2, <1>3, <1>4, ListsAre
<1> DEFINE direct == WholeClaims \o PartClaims
<1>6. /\ direct \in Seq(Claims) /\ Len(direct) = m + n /\ DOMAIN direct = 1..(m + n)
      /\ \A i \in 1..(m + n) : direct[i] = IF i <= m THEN WholeClaims[i] ELSE PartClaims[i - m]
  BY <1>1, <1>2, <1>3, <1>4, ConcatProperties
<1>7. CalculateClaims = [i \in 1..(m + n) |-> ExtendedClaim(direct[i])]
  BY <1>6 DEF CalculateClaims, WholeClaims, PartClaims
<1> HIDE DEF direct
<1>8. ASSUME NEW b \in ClaimedBlocks
      PROVE  Extending(BlockClaimsOf[b]) /\ Begins(BlockClaimsOf[b]) = <<b, claimedBy[b]>>
  <2>1. b \in BlockIds /\ claimedBy[b] \in BlockIds
    BY DEF ClaimedBlocks, AnalysisInv
  <2>2. BlockClaimsOf[b] = Claim(claimedBy[b], b, <<>>)
    BY DEF BlockClaimsOf
  <2> QED BY <2>1, <2>2, DirectExtending
<1>9. ASSUME NEW c \in ClaimedChannels
      PROVE  Extending(ChannelClaimsOf[c]) /\ Begins(ChannelClaimsOf[c]) = <<c[1], channels[c[1]][c[2]]>>
  <2>1. c[1] \in BlockIds /\ channels[c[1]][c[2]] \in BlockIds
    <3>1. c[1] \in IoArrays /\ c[2] \in 1..Channels /\ channels[c[1]][c[2]] # Nobody
      BY DEF ClaimedChannels
    <3> QED BY <3>1, AnalysisAssumption DEF AnalysisInv
  <2>2. ChannelClaimsOf[c] = Claim(channels[c[1]][c[2]], c[1], <<>>)
    BY DEF ChannelClaimsOf
  <2> QED BY <2>1, <2>2, DirectExtending
<1>10. /\ \A i \in 1..m : \E b \in ClaimedBlocks : WholeClaims[i] = BlockClaimsOf[b]
       /\ \A b \in ClaimedBlocks : \E i \in 1..m : WholeClaims[i] = BlockClaimsOf[b]
  BY <1>1, <1>3, ListsAre
<1>11. /\ \A i \in 1..n : \E c \in ClaimedChannels : PartClaims[i] = ChannelClaimsOf[c]
       /\ \A c \in ClaimedChannels : \E i \in 1..n : PartClaims[i] = ChannelClaimsOf[c]
  BY <1>2, <1>4, ListsAre
<1>12. ASSUME NEW i \in 1..(m + n)
       PROVE  \/ i \in 1..m /\ direct[i] = WholeClaims[i]
              \/ i \in (m + 1)..(m + n) /\ i - m \in 1..n /\ direct[i] = PartClaims[i - m]
  BY <1>6
<1>13. ASSUME NEW i \in 1..(m + n)
       PROVE  /\ claims[i] \in Claims /\ FollowsClaims(claims[i])
              /\ Begins(claims[i]) = Begins(direct[i])
  <2>1. Extending(direct[i])
    BY <1>8, <1>9, <1>10, <1>11, <1>12
  <2>2. claims[i] = ExtendedClaim(direct[i])
    BY <1>7
  <2> QED BY <2>1, <2>2, ExtendedFollows
<1>14. claims \in Seq(Claims) /\ DOMAIN claims = 1..(m + n) /\ Len(claims) = m + n
  <2>1. claims = [i \in 1..(m + n) |-> claims[i]]
    BY <1>7
  <2>2. claims \in [1..(m + n) -> Claims]
    BY <1>13, <2>1
  <2> QED BY <2>2
<1>15. ASSUME NEW i \in 1..m PROVE \E b \in ClaimedBlocks : Begins(claims[i]) = <<b, claimedBy[b]>>
  <2>1. i \in 1..(m + n) /\ direct[i] = WholeClaims[i]
    BY <1>6
  <2> QED BY <1>8, <1>10, <1>13, <2>1
<1>16. ASSUME NEW b \in ClaimedBlocks PROVE \E i \in 1..m : Begins(claims[i]) = <<b, claimedBy[b]>>
  <2>1. PICK i \in 1..m : WholeClaims[i] = BlockClaimsOf[b]
    BY <1>10
  <2>2. i \in 1..(m + n) /\ direct[i] = WholeClaims[i]
    BY <1>6
  <2> QED BY <1>8, <1>13, <2>1, <2>2
<1>17. ASSUME NEW i \in (m + 1)..(m + n)
       PROVE  \E c \in ClaimedChannels : Begins(claims[i]) = <<c[1], channels[c[1]][c[2]]>>
  <2>1. i \in 1..(m + n) /\ i - m \in 1..n /\ direct[i] = PartClaims[i - m]
    BY <1>6
  <2>2. PICK c \in ClaimedChannels : PartClaims[i - m] = ChannelClaimsOf[c]
    BY <1>11, <2>1
  <2> QED BY <1>9, <1>13, <2>1, <2>2
<1>18. ASSUME NEW c \in ClaimedChannels
       PROVE  \E i \in (m + 1)..(m + n) : Begins(claims[i]) = <<c[1], channels[c[1]][c[2]]>>
  <2>1. PICK k \in 1..n : PartClaims[k] = ChannelClaimsOf[c]
    BY <1>11
  <2>2. PICK i \in (m + 1)..(m + n) : i = k + m
    OBVIOUS
  <2>3. i \in 1..(m + n) /\ ~(i <= m) /\ i - m = k
    BY <2>2
  <2>4. direct[i] = PartClaims[k]
    BY <1>6, <2>3
  <2> QED BY <1>9, <1>13, <2>1, <2>3, <2>4
<1>19. {Begins(claims[i]) : i \in 1..m} = {<<b, claimedBy[b]>> : b \in ClaimedBlocks}
  BY ONLY <1>15, <1>16
<1>20. {Begins(claims[i]) : i \in (m + 1)..(m + n)} = {<<c[1], channels[c[1]][c[2]]>> : c \in ClaimedChannels}
  BY ONLY <1>17, <1>18
<1>21. \A i \in DOMAIN claims : FollowsClaims(claims[i])
  BY <1>13, <1>14
<1> QED BY <1>5, <1>14, <1>19, <1>20, <1>21

-----------------------------------------------------------------------------
(* What is related is a block and what a link of it names. *)
LEMMA RelatedIs ==
    ASSUME AnalysisInv, NEW c \in CountedLinks
    PROVE  /\ {Related(c)[1], Related(c)[2]} \cap BlockIds # {}
           /\ Related(c)[1] # Nobody
           /\ Related(c) = <<Related(c)[1], Related(c)[2], Related(c)[3]>>
<1>1. c[1] \in BlockIds /\ c[2] \in 1..Len(links[c[1]])
  BY CountedAre
<1> DEFINE l == links[c[1]][c[2]]
<1>2. l[2] # Nobody
  BY <1>1, LinksAre
<1>3. c[1] # Nobody
  BY <1>1, AnalysisAssumption
<1>4. Related(c) = IF Head(l[1]) \in InvertedFields THEN <<l[2], c[1], l[1]>> ELSE <<c[1], l[2], l[1]>>
  BY DEF Related
<1> HIDE DEF l
<1> QED BY <1>1, <1>2, <1>3, <1>4

(* The relations that CalculateRelations gives, one by one *)
LEMMA CalculatedAre ==
    ASSUME AnalysisInv, NEW relations, relations = CalculateRelations
    PROVE  \E l \in Nat :
            /\ l = Len(Unclaimed) /\ Len(relations) = l /\ DOMAIN relations = 1..l
            /\ relations \in Seq(Range(relations))
            /\ \A i \in 1..l : relations[i] = Marked(Unclaimed[i], \E k \in 1..Len(BlockList) : IsFirst(BlockList[k], i))
<1>1. PICK l \in Nat : l = Len(Unclaimed)
  BY UnclaimedAre
<1>2. relations = [i \in 1..l |-> Marked(Unclaimed[i], \E k \in 1..Len(BlockList) : IsFirst(BlockList[k], i))]
  BY <1>1, RelationsAre DEF MarkedUpTo
<1>3. relations \in Seq(Range(relations)) /\ Len(relations) = l /\ DOMAIN relations = 1..l
  <2>1. DOMAIN relations = 1..l /\ relations = [i \in 1..l |-> relations[i]]
    BY <1>2
  <2>2. \A i \in 1..l : relations[i] \in Range(relations)
    BY <2>1 DEF Range
  <2>3. relations \in [1..l -> Range(relations)]
    BY <2>1, <2>2
  <2> QED BY <2>1, <2>3
<1>4. \A i \in 1..l : relations[i] = Marked(Unclaimed[i], \E k \in 1..Len(BlockList) : IsFirst(BlockList[k], i))
  BY <1>2
<1> QED BY <1>1, <1>3, <1>4

(* Each of them is of a link that counts, and the other way round. *)
LEMMA RelationsOfLinks ==
    ASSUME AnalysisInv, NEW relations, relations = CalculateRelations
    PROVE  /\ Len(relations) = Cardinality(CountedLinks)
           /\ \A i \in DOMAIN relations : \E c \in CountedLinks :
                <<relations[i].source, relations[i].target, relations[i].relation>> = Related(c)
           /\ \A c \in CountedLinks : \E i \in DOMAIN relations :
                <<relations[i].source, relations[i].target, relations[i].relation>> = Related(c)
<1>1. PICK l \in Nat :
        /\ l = Len(Unclaimed) /\ Len(relations) = l /\ DOMAIN relations = 1..l
        /\ \A i \in 1..l : relations[i] = Marked(Unclaimed[i], \E k \in 1..Len(BlockList) : IsFirst(BlockList[k], i))
  BY CalculatedAre
<1>2. /\ Cardinality(CountedLinks) = l
      /\ \A i \in 1..l : \E c \in CountedLinks : Unclaimed[i] = RelationsOf[c]
      /\ \A c \in CountedLinks : \E i \in 1..l : Unclaimed[i] = RelationsOf[c]
  BY <1>1, UnclaimedAre, ListsAre
<1> DEFINE Says(i, c) == <<relations[i].source, relations[i].target, relations[i].relation>> = Related(c)
<1>3. ASSUME NEW i \in 1..l, NEW c \in CountedLinks, Unclaimed[i] = RelationsOf[c]
      PROVE  Says(i, c)
  <2>1. Unclaimed[i] = RelationOf(c)
    BY <1>3 DEF RelationsOf
  <2>2. Unclaimed[i].source = Related(c)[1] /\ Unclaimed[i].target = Related(c)[2] /\ Unclaimed[i].relation = Related(c)[3]
    BY <2>1 DEF RelationOf, Relation
  <2>3. PICK x : relations[i] = Marked(Unclaimed[i], x)
    BY <1>1
  <2>4. /\ relations[i].source = Unclaimed[i].source /\ relations[i].target = Unclaimed[i].target
        /\ relations[i].relation = Unclaimed[i].relation
    BY <2>3 DEF Marked
  <2> QED BY <2>2, <2>4, RelatedIs
<1> HIDE DEF Says
<1>4. \A i \in 1..l : \E c \in CountedLinks : Says(i, c)
  BY ONLY <1>2, <1>3
<1>5. \A c \in CountedLinks : \E i \in 1..l : Says(i, c)
  BY ONLY <1>2, <1>3
<1>6. DOMAIN relations = 1..l /\ Len(relations) = Cardinality(CountedLinks)
  BY <1>1, <1>2
<1> QED BY ONLY <1>4, <1>5, <1>6 DEF Says

(* Of those of a claim, the first is marked, and nothing else is. *)
LEMMA RelationsMarked ==
    ASSUME AnalysisInv, NEW relations, relations = CalculateRelations
    PROVE  /\ \A i \in DOMAIN relations : relations[i].claimed =>
                /\ relations[i].target \in BlockIds /\ relations[i].source = claimedBy[relations[i].target]
                /\ i = Min(Matching(Unclaimed, relations[i].target))
           /\ \A b \in BlockIds : Matching(relations, b) # {} =>
                \E i \in DOMAIN relations : relations[i].claimed /\ relations[i].target = b
<1>1. PICK l \in Nat :
        /\ l = Len(Unclaimed) /\ Len(relations) = l /\ DOMAIN relations = 1..l
        /\ \A i \in 1..l : relations[i] = Marked(Unclaimed[i], \E k \in 1..Len(BlockList) : IsFirst(BlockList[k], i))
  BY CalculatedAre
<1>2. DOMAIN Unclaimed = 1..l
  <2>1. Unclaimed \in Seq(RelationValues)
    BY UnclaimedAre
  <2> QED BY <1>1, <2>1
<1>3. PICK n \in Nat : n = Len(BlockList) /\ (\A k \in 1..n : BlockList[k] \in BlockIds)
                       /\ (\A b \in BlockIds : \E k \in 1..n : b = BlockList[k])
  BY BlocksAre
<1>4. \A i \in 1..l :
        /\ relations[i].source = Unclaimed[i].source /\ relations[i].target = Unclaimed[i].target
        /\ relations[i].claimed <=> \E k \in 1..n : IsFirst(BlockList[k], i)
  <2> SUFFICES ASSUME NEW i \in 1..l
               PROVE  /\ relations[i].source = Unclaimed[i].source /\ relations[i].target = Unclaimed[i].target
                      /\ relations[i].claimed <=> \E k \in 1..n : IsFirst(BlockList[k], i)
    OBVIOUS
  <2> DEFINE x == \E k \in 1..n : IsFirst(BlockList[k], i)
  <2>1. relations[i] = Marked(Unclaimed[i], x)
    BY <1>1, <1>3
  <2> HIDE DEF x
  <2>2. /\ relations[i].source = Unclaimed[i].source /\ relations[i].target = Unclaimed[i].target
        /\ relations[i].claimed = x
    BY <2>1 DEF Marked
  <2> QED BY <2>2 DEF x
<1>5. ASSUME NEW b, NEW i, IsFirst(b, i)
      PROVE  i \in 1..l /\ Unclaimed[i].target = b /\ Unclaimed[i].source = claimedBy[b]
  <2>1. Matching(Unclaimed, b) \subseteq Nat /\ Matching(Unclaimed, b) # {} /\ i = Min(Matching(Unclaimed, b))
    BY <1>2, <1>5 DEF IsFirst, Matching
  <2>2. i \in Matching(Unclaimed, b)
    BY <2>1, MinIs
  <2> QED BY <1>2, <2>2 DEF Matching
<1>6. ASSUME NEW i \in 1..l, relations[i].claimed
      PROVE  /\ relations[i].target \in BlockIds /\ relations[i].source = claimedBy[relations[i].target]
             /\ i = Min(Matching(Unclaimed, relations[i].target))
  <2>1. PICK k \in 1..n : IsFirst(BlockList[k], i)
    BY <1>4, <1>6
  <2>2. relations[i].target = BlockList[k] /\ relations[i].source = claimedBy[BlockList[k]]
    BY <1>4, <1>5, <2>1
  <2>3. i = Min(Matching(Unclaimed, BlockList[k]))
    BY <2>1 DEF IsFirst
  <2> QED BY <1>3, <2>2, <2>3
<1>7. ASSUME NEW b \in BlockIds, Matching(relations, b) # {}
      PROVE  \E i \in 1..l : relations[i].claimed /\ relations[i].target = b
  <2>1. Matching(Unclaimed, b) # {}
    BY <1>1, <1>4, <1>7, MatchingSame
  <2>2. claimedBy[b] # Nobody
    <3>1. PICK i \in 1..l : Unclaimed[i].source = claimedBy[b]
      BY <1>2, <2>1 DEF Matching
    <3>2. PICK c \in CountedLinks : Unclaimed[i] = RelationOf(c)
      BY <1>1, UnclaimedIs
    <3>3. Unclaimed[i].source = Related(c)[1]
      BY <3>2 DEF RelationOf, Relation
    <3> QED BY <3>1, <3>3, RelatedIs
  <2>3. IsFirst(b, Min(Matching(Unclaimed, b)))
    BY <2>1, <2>2 DEF IsFirst
  <2>4. PICK i \in 1..l : IsFirst(b, i)
    BY <1>5, <2>3
  <2>5. PICK k \in 1..n : b = BlockList[k]
    BY <1>3
  <2>6. relations[i].claimed
    BY <1>4, <2>4, <2>5
  <2> QED BY <1>4, <1>5, <2>4, <2>6
<1> QED BY <1>1, <1>6, <1>7

-----------------------------------------------------------------------------
LEMMA AnalysedAre ==
    ASSUME AnalysisInv
    PROVE  AnalysedExactly
<1> SUFFICES ASSUME AnalysisInv, AnalysisNext PROVE AnalysedExactly
  BY DEF AnalysedExactly
<1> DEFINE claims == analysis'.claims
           relations == analysis'.relations
           whole == Cardinality(ClaimedBlocks)
           marked(b) == {i \in DOMAIN relations : relations[i].claimed /\ relations[i].target = b}
<1>1. relations = CalculateRelations /\ claims = CalculateClaims
  BY DEF AnalysisNext
<1> HIDE DEF claims, relations
<1>2. /\ \A i \in DOMAIN claims : FollowsClaims(claims[i])
      /\ Len(claims) = whole + Cardinality(ClaimedChannels)
      /\ {Begins(claims[i]) : i \in 1..whole} = {<<b, claimedBy[b]>> : b \in ClaimedBlocks}
      /\ {Begins(claims[i]) : i \in (whole + 1)..Len(claims)}
           = {<<c[1], channels[c[1]][c[2]]>> : c \in ClaimedChannels}
  BY <1>1, ClaimsAre
<1>3. Len(relations) = Cardinality(CountedLinks)
  BY <1>1, RelationsOfLinks
<1>4. {<<r.source, r.target, r.relation>> : r \in Range(relations)} = {Related(c) : c \in CountedLinks}
  <2>1. \A r \in Range(relations) : \E c \in CountedLinks : <<r.source, r.target, r.relation>> = Related(c)
    BY <1>1, RelationsOfLinks DEF Range
  <2>2. \A c \in CountedLinks : \E r \in Range(relations) : <<r.source, r.target, r.relation>> = Related(c)
    BY <1>1, RelationsOfLinks DEF Range
  <2> QED BY ONLY <2>1, <2>2
<1>5. \A r \in Range(relations) : r.claimed => r.target \in BlockIds /\ r.source = claimedBy[r.target]
  BY <1>1, RelationsMarked DEF Range
<1>6. ASSUME NEW b \in BlockIds
      PROVE  Cardinality(marked(b)) <= 1 /\ (Matching(relations, b) # {} => marked(b) # {})
  <2>1. marked(b) \subseteq {Min(Matching(Unclaimed, b))}
    BY <1>1, RelationsMarked
  <2>2. Cardinality(marked(b)) <= 1
    <3>1. marked(b) = {} \/ marked(b) = {Min(Matching(Unclaimed, b))}
      BY <2>1
    <3> HIDE DEF marked
    <3>2. CASE marked(b) = {}
      BY <3>2, FS_EmptySet
    <3>3. CASE marked(b) = {Min(Matching(Unclaimed, b))}
      <4>1. Cardinality({Min(Matching(Unclaimed, b))}) = 1
        BY FS_Singleton
      <4> QED BY <3>3, <4>1
    <3> QED BY <3>1, <3>2, <3>3
  <2>3. Matching(relations, b) # {} => marked(b) # {}
    BY <1>1, RelationsMarked
  <2> QED BY <2>2, <2>3
<1> QED BY <1>2, <1>3, <1>4, <1>5, <1>6 DEF AnalysedExactly, claims, relations

LEMMA NextAnalysis ==
    ASSUME AnalysisInv, AnalysisNext
    PROVE  AnalysisInv'
<1> DEFINE claims == analysis'.claims
           relations == analysis'.relations
<1>1. relations = CalculateRelations /\ claims = CalculateClaims /\ UNCHANGED <<links, claimedBy, channels>>
  BY DEF AnalysisNext
<1> HIDE DEF claims, relations
<1>2. relations \in Seq(Range(relations))
  BY <1>1, CalculatedAre
<1>3. claims \in Seq(Claims)
  BY <1>1, ClaimsAre
<1>4. claims \in Seq(Range(claims)) /\ \A c \in Range(claims) : c \in Claims
  <2>1. PICK n \in Nat : DOMAIN claims = 1..n /\ claims \in [1..n -> Claims]
    BY <1>3
  <2>2. \A i \in 1..n : claims[i] \in Range(claims)
    BY <2>1 DEF Range
  <2>3. claims \in [1..n -> Range(claims)]
    BY <2>1, <2>2
  <2>4. claims \in Seq(Range(claims))
    BY ONLY <2>3
  <2>5. \A c \in Range(claims) : c \in Claims
    BY ONLY <2>1 DEF Range
  <2> QED BY <2>4, <2>5
<1>5. ASSUME NEW r \in Range(relations) PROVE {r.source, r.target} \cap BlockIds # {}
  <2>1. PICK c \in CountedLinks : <<r.source, r.target, r.relation>> = Related(c)
    BY <1>1, RelationsOfLinks DEF Range
  <2>2. r.source = Related(c)[1] /\ r.target = Related(c)[2]
    BY <2>1
  <2> QED BY <2>2, RelatedIs
<1>6. ASSUME NEW c \in Range(claims) PROVE {c.source, c.target} \cup Range(c.intermediate) \subseteq BlockIds
  <2>1. c.source \in BlockIds /\ c.target \in BlockIds /\ c.intermediate \in Seq(BlockIds)
    BY <1>4 DEF Claims
  <2>2. Range(c.intermediate) \subseteq BlockIds
    BY <2>1 DEF Range
  <2> QED BY <2>1, <2>2
<1>7. /\ \A b \in BlockIds : links'[b] \in Data[b]
      /\ claimedBy' \in [BlockIds -> BlockIds \cup {Nobody}]
      /\ channels' \in [IoArrays -> [1..Channels -> BlockIds \cup {Nobody}]]
  BY <1>1 DEF AnalysisInv
<1>8. AnalysisTypeOK'
  <2>1. \A b \in BlockIds : claimedBy'[b] \in BlockIds \cup {Nobody}
    BY <1>7
  <2> QED BY <1>5, <1>6, <2>1 DEF AnalysisTypeOK, claims, relations
<1> QED BY <1>2, <1>4, <1>7, <1>8 DEF AnalysisInv, claims, relations

LEMMA InitAnalysis ==
    ASSUME AnalysisInit
    PROVE  AnalysisInv
<1>1. \A b \in BlockIds : links[b] \in Data[b]
  BY DEF AnalysisInit
<1>2. /\ claimedBy \in [BlockIds -> BlockIds \cup {Nobody}]
      /\ channels \in [IoArrays -> [1..Channels -> BlockIds \cup {Nobody}]]
  BY DEF AnalysisInit
<1>3. analysis.relations = <<>> /\ analysis.claims = <<>>
  BY DEF AnalysisInit, NoAnalysis
<1>4. Range(<<>>) = {}
  BY DEF Range
<1> QED BY <1>1, <1>2, <1>3, <1>4 DEF AnalysisInv, AnalysisTypeOK

(* The state event that is published after an analysis: its relations and    *)
(* claims are of blocks.                                                     *)
THEOREM AnalysisInvariant == BlockDataSpec => [](active = "analysis" => AnalysisInv)
<1>1. BlockDataInit => (active = "analysis" => AnalysisInv)
  BY InitAnalysis DEF BlockDataInit
<1>2. (active = "analysis" => AnalysisInv) /\ [BlockDataNext]_dataVars => (active = "analysis" => AnalysisInv)'
  <2> SUFFICES ASSUME active = "analysis" => AnalysisInv, [BlockDataNext]_dataVars, active' = "analysis"
               PROVE  AnalysisInv'
    OBVIOUS
  <2>1. active = "analysis" /\ AnalysisInv /\ (AnalysisNext \/ UNCHANGED analysisVars)
    BY DEF BlockDataNext, dataVars
  <2>2. CASE UNCHANGED analysisVars
    BY <2>1, <2>2 DEF analysisVars, AnalysisInv, AnalysisTypeOK
  <2> QED BY <2>1, <2>2, NextAnalysis
<1> QED BY <1>1, <1>2, PTL DEF BlockDataSpec

(* AnalysisIsExact: whatever blocks are read, and however they claim each    *)
(* other, in circles too, the analysis ends with each relation and claim     *)
(* once, and claims are followed to their end.                               *)
THEOREM AnalysesAreExact == BlockDataSpec => AnalysisIsExact
<1>1. (active = "analysis" => AnalysisInv) => (active = "analysis" => AnalysedExactly)
  BY AnalysedAre
<1> QED BY <1>1, AnalysisInvariant, PTL DEF AnalysisIsExact

-----------------------------------------------------------------------------
(* Texts: the first and the last of their places *)
LEMMA MinFirst ==
    ASSUME NEW S, S \subseteq Nat, NEW x \in S, \A y \in S : x <= y
    PROVE  Min(S) = x
<1>1. Min(S) \in S /\ \A y \in S : Min(S) <= y
  BY MinIs
<1>2. Min(S) \in Nat /\ x \in Nat /\ Min(S) <= x /\ x <= Min(S)
  BY <1>1
<1> QED BY <1>2

LEMMA MaxIs ==
    ASSUME NEW S, NEW n \in Nat, S \subseteq 0..n, S # {}
    PROVE  Max(S) \in S /\ \A x \in S : x <= Max(S)
<1> DEFINE R == {n - x : x \in S}
<1>1. R \subseteq Nat /\ R # {}
  <2>1. \A x \in S : x \in 0..n
    OBVIOUS
  <2>2. \A x \in 0..n : n - x \in Nat
    OBVIOUS
  <2>3. \A x \in S : n - x \in Nat
    BY <2>1, <2>2
  <2> QED BY <2>3
<1>2. PICK r \in R : \A y \in R : r <= y
  BY <1>1, Least
<1>3. PICK x \in S : r = n - x
  BY <1>2
<1>4. \A y \in S : n - x <= n - y
  BY <1>2, <1>3
<1>5. x \in 0..n /\ \A y \in S : y \in 0..n
  OBVIOUS
<1>6. \A y \in S : x >= y
  BY <1>4, <1>5
<1> HIDE DEF R
<1>7. Max(S) \in S /\ \A y \in S : Max(S) >= y
  BY <1>6 DEF Max
<1>8. Max(S) \in 0..n
  BY <1>7
<1> QED BY <1>5, <1>7, <1>8

LEMMA MaxLast ==
    ASSUME NEW S, NEW n \in Nat, S \subseteq 0..n, NEW x \in S, \A y \in S : y <= x
    PROVE  Max(S) = x
<1>1. Max(S) \in S /\ \A y \in S : y <= Max(S)
  BY MaxIs
<1>2. Max(S) \in 0..n /\ x \in 0..n
  BY <1>1
<1> QED BY <1>1, <1>2

(* Pieces of a text, and texts side by side *)
LEMMA Piece ==
    ASSUME NEW V, NEW s \in Seq(V), NEW m \in Nat, NEW n \in Nat, m >= 1, n <= Len(s)
    PROVE  /\ SubSeq(s, m, n) \in Seq(V)
           /\ Len(SubSeq(s, m, n)) = IF m <= n THEN n - m + 1 ELSE 0
           /\ \A i \in 1..(n - m + 1) : SubSeq(s, m, n)[i] = s[m + i - 1]
<1>1. \A i \in m..n : s[i] \in V
  <2>1. s \in [1..Len(s) -> V] /\ Len(s) \in Nat
    OBVIOUS
  <2> QED BY <2>1
<1> QED BY <1>1, SubSeqProperties

LEMMA Around ==
    ASSUME NEW V, NEW s \in Seq(V), NEW c \in V, NEW t \in Seq(V), NEW u, u = s \o <<c>> \o t
    PROVE  /\ u \in Seq(V) /\ Len(u) = Len(s) + 1 + Len(t)
           /\ \A i \in 1..Len(s) : u[i] = s[i]
           /\ u[Len(s) + 1] = c
           /\ \A i \in 1..Len(t) : u[Len(s) + 1 + i] = t[i]
<1>1. PICK m \in Nat : m = Len(s)
  OBVIOUS
<1>2. PICK n \in Nat : n = Len(t)
  OBVIOUS
<1>3. <<c>> \in Seq(V) /\ Len(<<c>>) = 1 /\ <<c>>[1] = c
  OBVIOUS
<1> DEFINE w == s \o <<c>>
<1>4. w \in Seq(V) /\ Len(w) = m + 1
  BY <1>1, <1>3, ConcatProperties
<1>5. \A i \in 1..(m + 1) : w[i] = IF i <= m THEN s[i] ELSE <<c>>[i - m]
  BY <1>1, <1>3, ConcatProperties
<1>6. u = w \o t
  OBVIOUS
<1> HIDE DEF w
<1>7. u \in Seq(V) /\ Len(u) = m + 1 + n
  BY <1>2, <1>4, <1>6, ConcatProperties
<1>8. \A i \in 1..(m + 1 + n) : u[i] = IF i <= m + 1 THEN w[i] ELSE t[i - (m + 1)]
  BY <1>2, <1>4, <1>6, ConcatProperties
<1>9. \A i \in 1..m : u[i] = s[i]
  <2> SUFFICES ASSUME NEW i \in 1..m PROVE u[i] = s[i]
    OBVIOUS
  <2>1. i \in 1..(m + 1) /\ i \in 1..(m + 1 + n) /\ i <= m /\ i <= m + 1
    OBVIOUS
  <2> QED BY <1>5, <1>8, <2>1
<1>10. u[m + 1] = c
  <2>1. m + 1 \in 1..(m + 1) /\ m + 1 \in 1..(m + 1 + n) /\ (m + 1) - m = 1 /\ ~(m + 1 <= m) /\ m + 1 <= m + 1
    OBVIOUS
  <2> QED BY <1>3, <1>5, <1>8, <2>1
<1>11. \A i \in 1..n : u[m + 1 + i] = t[i]
  <2> SUFFICES ASSUME NEW i \in 1..n PROVE u[m + 1 + i] = t[i]
    OBVIOUS
  <2>1. m + 1 + i \in 1..(m + 1 + n) /\ (m + 1 + i) - (m + 1) = i /\ ~(m + 1 + i <= m + 1)
    OBVIOUS
  <2> QED BY <1>8, <2>1
<1> QED BY <1>1, <1>2, <1>7, <1>9, <1>10, <1>11

(* str.split() with one separator *)
LEMMA BeforeAfter ==
    ASSUME NEW V, NEW s \in Seq(V), NEW c \in V, NEW t \in Seq(V), NEW u, u = s \o <<c>> \o t,
           ~Contains(s, c)
    PROVE  Contains(u, c) /\ Before(u, c) = s /\ After(u, c) = t
<1>1. PICK m \in Nat : m = Len(s)
  OBVIOUS
<1>2. PICK n \in Nat : n = Len(t)
  OBVIOUS
<1>3. /\ u \in Seq(V) /\ Len(u) = m + 1 + n
      /\ \A i \in 1..m : u[i] = s[i]
      /\ u[m + 1] = c
      /\ \A i \in 1..n : u[m + 1 + i] = t[i]
  BY <1>1, <1>2, Around
<1>4. Contains(u, c)
  BY <1>3 DEF Contains
<1> DEFINE at == {i \in DOMAIN u : u[i] = c}
<1>5. Min(at) = m + 1
  <2>1. at \subseteq Nat /\ m + 1 \in at
    BY <1>3
  <2>2. ASSUME NEW i \in at PROVE m + 1 <= i
    <3>1. i \in 1..(m + 1 + n) /\ u[i] = c
      BY <1>3
    <3>2. ~(i \in 1..m)
      BY <1>1, <1>3, <3>1 DEF Contains
    <3> QED BY <3>1, <3>2
  <2> HIDE DEF at
  <2> QED BY <2>1, <2>2, MinFirst
<1> HIDE DEF at
<1>6. Before(u, c) = SubSeq(u, 1, m)
  <2>1. Before(u, c) = SubSeq(u, 1, Min(at) - 1)
    BY <1>4 DEF Before, at
  <2>2. (m + 1) - 1 = m
    OBVIOUS
  <2> QED BY <1>5, <2>1, <2>2
<1>7. After(u, c) = SubSeq(u, m + 2, m + 1 + n)
  <2>1. After(u, c) = SubSeq(u, Min(at) + 1, Len(u))
    BY <1>4 DEF After, at
  <2>2. (m + 1) + 1 = m + 2
    OBVIOUS
  <2> QED BY <1>3, <1>5, <2>1, <2>2
<1>8. SubSeq(u, 1, m) = s
  <2>1. /\ SubSeq(u, 1, m) \in Seq(V) /\ Len(SubSeq(u, 1, m)) = m
        /\ \A i \in 1..(m - 1 + 1) : SubSeq(u, 1, m)[i] = u[1 + i - 1]
    BY <1>3, Piece
  <2>2. \A i \in 1..m : SubSeq(u, 1, m)[i] = s[i]
    BY <1>3, <2>1
  <2> QED BY <1>1, <2>1, <2>2, SeqEqual
<1>9. SubSeq(u, m + 2, m + 1 + n) = t
  <2> DEFINE w == SubSeq(u, m + 2, m + 1 + n)
  <2>1. /\ w \in Seq(V) /\ Len(w) = n
        /\ \A i \in 1..((m + 1 + n) - (m + 2) + 1) : w[i] = u[(m + 2) + i - 1]
    BY <1>3, Piece
  <2> HIDE DEF w
  <2>2. ASSUME NEW i \in 1..n PROVE w[i] = t[i]
    <3>1. i \in 1..((m + 1 + n) - (m + 2) + 1) /\ (m + 2) + i - 1 = m + 1 + i
      OBVIOUS
    <3> QED BY <1>3, <2>1, <3>1
  <2>3. w = t
    BY <1>2, <2>1, <2>2, SeqEqual
  <2> QED BY <2>3 DEF w
<1> QED BY <1>4, <1>6, <1>7, <1>8, <1>9

LEMMA BeforeAll ==
    ASSUME NEW s, NEW c, ~Contains(s, c)
    PROVE  Before(s, c) = s /\ After(s, c) = <<>>
BY DEF Before, After

(* str.strip() takes away what is at either end. *)
LEMMA StripIs ==
    ASSUME NEW V, NEW s \in Seq(V), NEW c, NEW i \in 1..Len(s), NEW j \in 1..Len(s),
           s[i] # c, s[j] # c,
           \A k \in 1..Len(s) : s[k] # c => i <= k /\ k <= j
    PROVE  Strip(s, c) = SubSeq(s, i, j)
<1> DEFINE kept == {k \in DOMAIN s : s[k] # c}
<1>1. PICK n \in Nat : n = Len(s) /\ DOMAIN s = 1..n
  OBVIOUS
<1>2. i \in kept /\ j \in kept /\ kept \subseteq Nat /\ kept \subseteq 0..n
  BY <1>1
<1>3. Strip(s, c) = IF kept = {} THEN <<>> ELSE SubSeq(s, Min(kept), Max(kept))
  BY DEF Strip
<1>4. \A k \in kept : i <= k /\ k <= j
  BY <1>1
<1> HIDE DEF kept
<1>5. Min(kept) = i
  BY <1>2, <1>4, MinFirst
<1>6. Max(kept) = j
  BY <1>2, <1>4, MaxLast
<1> QED BY <1>2, <1>3, <1>5, <1>6

LEMMA StripNothing ==
    ASSUME NEW V, NEW s \in Seq(V), NEW c, s # <<>>, s[1] # c, s[Len(s)] # c
    PROVE  Strip(s, c) = s
<1>1. Len(s) \in Nat /\ Len(s) >= 1
  OBVIOUS
<1>2. 1 \in 1..Len(s) /\ Len(s) \in 1..Len(s) /\ \A k \in 1..Len(s) : 1 <= k /\ k <= Len(s)
  BY <1>1
<1>3. Strip(s, c) = SubSeq(s, 1, Len(s))
  BY <1>2, StripIs
<1> QED BY <1>3, SubSeqFull

LEMMA StripText ==
    ASSUME NEW V, NEW s \in Seq(V), NEW c
    PROVE  Strip(s, c) \in Seq(V)
<1> DEFINE kept == {k \in DOMAIN s : s[k] # c}
<1>1. PICK n \in Nat : n = Len(s) /\ DOMAIN s = 1..n
  OBVIOUS
<1>2. Strip(s, c) = IF kept = {} THEN <<>> ELSE SubSeq(s, Min(kept), Max(kept))
  BY DEF Strip
<1>3. CASE kept = {}
  BY <1>2, <1>3
<1>4. CASE kept # {}
  <2>1. kept \subseteq 1..n /\ kept \subseteq Nat /\ kept \subseteq 0..n
    BY <1>1
  <2> HIDE DEF kept
  <2>2. Min(kept) \in kept /\ Max(kept) \in kept
    BY <1>4, <2>1, MinIs, MaxIs
  <2>3. Min(kept) \in 1..n /\ Max(kept) \in 1..n
    BY <2>1, <2>2
  <2>4. SubSeq(s, Min(kept), Max(kept)) \in Seq(V)
    BY <1>1, <2>3, Piece
  <2> QED BY <1>2, <1>4, <2>4
<1> HIDE DEF kept
<1> QED BY <1>3, <1>4

LEMMA BeforeAfterText ==
    ASSUME NEW V, NEW s \in Seq(V), NEW c
    PROVE  Before(s, c) \in Seq(V) /\ After(s, c) \in Seq(V)
<1> DEFINE at == {i \in DOMAIN s : s[i] = c}
<1>1. PICK n \in Nat : n = Len(s) /\ DOMAIN s = 1..n
  OBVIOUS
<1>2. CASE ~Contains(s, c)
  <2>1. Before(s, c) = s /\ After(s, c) = <<>>
    BY <1>2, BeforeAll
  <2>2. <<>> \in Seq(V)
    OBVIOUS
  <2> QED BY <2>1, <2>2
<1>3. CASE Contains(s, c)
  <2>1. at # {} /\ at \subseteq 1..n /\ at \subseteq Nat
    BY <1>1, <1>3 DEF Contains
  <2>2. Before(s, c) = SubSeq(s, 1, Min(at) - 1) /\ After(s, c) = SubSeq(s, Min(at) + 1, n)
    BY <1>1, <1>3 DEF Before, After
  <2> HIDE DEF at
  <2>3. Min(at) \in at
    BY <2>1, MinIs
  <2>4. Min(at) \in 1..n
    BY <2>1, <2>3
  <2>5. Min(at) - 1 \in Nat /\ Min(at) + 1 \in Nat /\ Min(at) - 1 <= n
    BY <2>4
  <2>6. SubSeq(s, 1, Min(at) - 1) \in Seq(V)
    BY <1>1, <2>5, Piece
  <2>7. SubSeq(s, Min(at) + 1, n) \in Seq(V)
    BY <1>1, <2>4, <2>5, Piece
  <2> QED BY <2>2, <2>6, <2>7
<1> QED BY <1>2, <1>3

(* str.split() at every separator: where a piece begins and ends *)
Found(s, c) == {i \in DOMAIN s : s[i] = c}
Starts(s, c) == {1} \cup {i + 1 : i \in Found(s, c)}
Ends(s, c, b) == {i \in Found(s, c) \cup {Len(s) + 1} : i >= b}

LEMMA FoundIs ==
    ASSUME NEW V, NEW s \in Seq(V), NEW c
    PROVE  Found(s, c) \subseteq 1..Len(s) /\ Starts(s, c) \subseteq 1..(Len(s) + 1)
<1>1. PICK n \in Nat : n = Len(s) /\ DOMAIN s = 1..n
  OBVIOUS
<1>2. Found(s, c) \subseteq 1..n
  BY <1>1 DEF Found
<1>3. \A i \in 1..n : i + 1 \in 1..(n + 1)
  OBVIOUS
<1>4. \A i \in Found(s, c) : i + 1 \in 1..(n + 1)
  BY <1>2, <1>3
<1>5. 1 \in 1..(n + 1)
  OBVIOUS
<1>6. Starts(s, c) \subseteq 1..(n + 1)
  BY ONLY <1>4, <1>5 DEF Starts
<1> QED BY <1>1, <1>2, <1>6

LEMMA SplitIs ==
    ASSUME NEW V, NEW s \in Seq(V), NEW c
    PROVE  /\ DOMAIN Split(s, c) = Starts(s, c)
           /\ \A b \in Starts(s, c) :
                /\ Split(s, c)[b] = SubSeq(s, b, Min(Ends(s, c, b)) - 1)
                /\ Min(Ends(s, c, b)) \in Ends(s, c, b)
                /\ \A i \in Ends(s, c, b) : Min(Ends(s, c, b)) <= i
                /\ Split(s, c)[b] \in Seq(V)
<1>1. PICK n \in Nat : n = Len(s)
  OBVIOUS
<1>2. Split(s, c) = [b \in Starts(s, c) |-> SubSeq(s, b, Min(Ends(s, c, b)) - 1)]
  BY DEF Split, Starts, Found, Ends
<1>3. ASSUME NEW b \in Starts(s, c)
      PROVE  /\ Min(Ends(s, c, b)) \in Ends(s, c, b)
             /\ \A i \in Ends(s, c, b) : Min(Ends(s, c, b)) <= i
             /\ SubSeq(s, b, Min(Ends(s, c, b)) - 1) \in Seq(V)
  <2>1. b \in 1..(n + 1) /\ Found(s, c) \subseteq 1..n
    BY <1>1, FoundIs
  <2>2. \A i \in Ends(s, c, b) : i \in 1..(n + 1) /\ i >= b
    BY <1>1, <2>1 DEF Ends
  <2>3. n + 1 \in Ends(s, c, b)
    BY <1>1, <2>1 DEF Ends
  <2>4. Ends(s, c, b) \subseteq Nat /\ Ends(s, c, b) # {}
    BY <2>2, <2>3
  <2>5. Min(Ends(s, c, b)) \in Ends(s, c, b) /\ \A i \in Ends(s, c, b) : Min(Ends(s, c, b)) <= i
    BY <2>4, MinIs
  <2>6. Min(Ends(s, c, b)) \in 1..(n + 1)
    BY <2>2, <2>5
  <2>7. Min(Ends(s, c, b)) - 1 \in Nat /\ Min(Ends(s, c, b)) - 1 <= n /\ b \in Nat /\ b >= 1
    BY <2>1, <2>6
  <2>8. SubSeq(s, b, Min(Ends(s, c, b)) - 1) \in Seq(V)
    BY <1>1, <2>7, Piece
  <2> QED BY <2>5, <2>8
<1> QED BY <1>2, <1>3

LEMMA SplitNone ==
    ASSUME NEW V, NEW t \in Seq(V), NEW c, ~Contains(t, c)
    PROVE  DOMAIN Split(t, c) = {1} /\ Split(t, c)[1] = t
<1>1. PICK n \in Nat : n = Len(t) /\ DOMAIN t = 1..n
  OBVIOUS
<1>2. Found(t, c) = {}
  BY <1>1 DEF Found, Contains
<1>3. Starts(t, c) = {1} /\ Ends(t, c, 1) = {n + 1}
  BY <1>1, <1>2 DEF Starts, Ends
<1>4. Min(Ends(t, c, 1)) = n + 1
  BY <1>3, SplitIs
<1>5. Split(t, c)[1] = SubSeq(t, 1, (n + 1) - 1)
  BY <1>3, <1>4, SplitIs
<1>6. (n + 1) - 1 = n
  OBVIOUS
<1>7. Split(t, c)[1] = t
  BY <1>1, <1>5, <1>6, SubSeqFull
<1> QED BY <1>3, <1>7, SplitIs

Appended(V, s, c, t, u) == s \in Seq(V) /\ c \in V /\ t \in Seq(V) /\ u = s \o <<c>> \o t

LEMMA SplitMore ==
    ASSUME NEW V, NEW s, NEW c, NEW t, NEW u, Appended(V, s, c, t, u), ~Contains(t, c)
    PROVE  /\ \A b : b \in DOMAIN Split(u, c) <=> b \in DOMAIN Split(s, c) \/ b = Len(s) + 2
           /\ \A b \in DOMAIN Split(s, c) : Split(u, c)[b] = Split(s, c)[b]
           /\ Split(u, c)[Len(s) + 2] = t
<1>0. s \in Seq(V) /\ c \in V /\ t \in Seq(V) /\ u = s \o <<c>> \o t
  BY DEF Appended
<1> USE <1>0
<1>1. PICK m \in Nat : m = Len(s) /\ DOMAIN s = 1..m
  OBVIOUS
<1>2. PICK n \in Nat : n = Len(t) /\ DOMAIN t = 1..n
  OBVIOUS
<1>3. /\ u \in Seq(V) /\ Len(u) = m + 1 + n
      /\ \A i \in 1..m : u[i] = s[i]
      /\ u[m + 1] = c
      /\ \A i \in 1..n : u[m + 1 + i] = t[i]
  BY <1>1, <1>2, Around
<1>4. DOMAIN u = 1..(m + 1 + n)
  BY <1>3
<1>5. Found(u, c) = Found(s, c) \cup {m + 1}
  <2>1. ASSUME NEW i \in 1..(m + 1 + n)
        PROVE  u[i] = c <=> (i \in 1..m /\ s[i] = c) \/ i = m + 1
    <3>1. CASE i \in 1..m
      BY <1>3, <3>1
    <3>2. CASE i = m + 1
      BY <1>3, <3>2
    <3>3. CASE i - (m + 1) \in 1..n
      <4>1. u[i] = t[i - (m + 1)]
        <5>1. m + 1 + (i - (m + 1)) = i
          OBVIOUS
        <5> QED BY <1>3, <3>3, <5>1
      <4>2. t[i - (m + 1)] # c
        BY <1>2, <3>3 DEF Contains
      <4>3. ~(i \in 1..m) /\ i # m + 1
        BY <3>3
      <4> QED BY <4>1, <4>2, <4>3
    <3>4. i \in 1..m \/ i = m + 1 \/ i - (m + 1) \in 1..n
      OBVIOUS
    <3> QED BY <3>1, <3>2, <3>3, <3>4
  <2>2. m + 1 \in 1..(m + 1 + n) /\ \A i \in 1..m : i \in 1..(m + 1 + n)
    OBVIOUS
  <2> QED BY <1>1, <1>4, <2>1, <2>2 DEF Found
<1>6. Starts(u, c) = Starts(s, c) \cup {m + 2}
  <2>1. (m + 1) + 1 = m + 2
    OBVIOUS
  <2> QED BY <1>5, <2>1 DEF Starts
<1>7. Found(s, c) \subseteq 1..m /\ Starts(s, c) \subseteq 1..(m + 1)
  BY <1>1, FoundIs
<1>a. u \in Seq(V)
  BY <1>3
<1>b. /\ DOMAIN Split(u, c) = Starts(u, c)
      /\ \A b \in Starts(u, c) :
           /\ Split(u, c)[b] = SubSeq(u, b, Min(Ends(u, c, b)) - 1)
           /\ Min(Ends(u, c, b)) \in Ends(u, c, b)
  BY ONLY <1>a, SplitIs
<1>8. ASSUME NEW b \in Starts(s, c) PROVE Split(u, c)[b] = Split(s, c)[b]
  <2> DEFINE e == Min(Ends(s, c, b))
  <2>1. /\ e \in Ends(s, c, b) /\ (\A i \in Ends(s, c, b) : e <= i)
        /\ Split(s, c)[b] = SubSeq(s, b, e - 1)
    BY SplitIs
  <2>2. b \in 1..(m + 1)
    BY <1>7
  <2>3. Ends(s, c, b) = {i \in Found(s, c) \cup {m + 1} : i >= b}
    BY <1>1 DEF Ends
  <2>4. Ends(u, c, b) = Ends(s, c, b) \cup {m + 1 + n + 1}
    <3>1. \A i : i \in Ends(u, c, b) <=> (i \in Found(s, c) \/ i = m + 1 \/ i = m + 1 + n + 1) /\ i >= b
      BY <1>3, <1>5 DEF Ends
    <3>2. m + 1 + n + 1 >= b
      BY <2>2
    <3>3. \A i : i \in Ends(s, c, b) <=> (i \in Found(s, c) \/ i = m + 1) /\ i >= b
      BY <2>3
    <3> QED BY ONLY <3>1, <3>2, <3>3
  <2> HIDE DEF e
  <2>5. e \in 1..(m + 1) /\ e >= b
    BY <1>7, <2>1, <2>3
  <2>6. Ends(u, c, b) \subseteq Nat
    BY <1>7, <2>3, <2>4
  <2>7. \A i \in Ends(u, c, b) : e <= i
    BY <2>1, <2>4, <2>5
  <2>8. Min(Ends(u, c, b)) = e
    BY <2>1, <2>4, <2>6, <2>7, MinFirst
  <2>9. Split(u, c)[b] = SubSeq(u, b, e - 1)
    BY <1>6, <1>b, <2>8
  <2>10. SubSeq(u, b, e - 1) = SubSeq(s, b, e - 1)
    <3>1. PICK k \in Nat : k = e - 1 /\ k <= m
      BY <2>5
    <3> DEFINE v == SubSeq(u, b, k)
               w == SubSeq(s, b, k)
    <3>2. b \in Nat /\ b >= 1 /\ k <= m + 1 + n
      BY <2>2, <3>1
    <3>3. /\ v \in Seq(V) /\ Len(v) = IF b <= k THEN k - b + 1 ELSE 0
          /\ \A i \in 1..(k - b + 1) : v[i] = u[b + i - 1]
      BY <1>3, <3>2, Piece
    <3>4. /\ w \in Seq(V) /\ Len(w) = IF b <= k THEN k - b + 1 ELSE 0
          /\ \A i \in 1..(k - b + 1) : w[i] = s[b + i - 1]
      BY <1>1, <3>1, <3>2, Piece
    <3> HIDE DEF v, w
    <3>5. ASSUME NEW i \in 1..Len(v) PROVE v[i] = w[i]
      <4>1. b <= k /\ i \in 1..(k - b + 1) /\ b + i - 1 \in 1..m
        BY <3>1, <3>2, <3>3
      <4> QED BY <1>3, <3>3, <3>4, <4>1
    <3>6. v = w
      BY <3>3, <3>4, <3>5, SeqEqual
    <3> QED BY <3>1, <3>6 DEF v, w
  <2> QED BY <2>1, <2>9, <2>10
<1>9. Split(u, c)[m + 2] = t
  <2>1. Ends(u, c, m + 2) = {m + 1 + n + 1}
    <3>1. \A i : i \in Ends(u, c, m + 2) <=> (i \in Found(s, c) \/ i = m + 1 \/ i = m + 1 + n + 1) /\ i >= m + 2
      BY <1>3, <1>5 DEF Ends
    <3>2. \A i \in Found(s, c) : ~(i >= m + 2)
      BY <1>7
    <3>3. ~(m + 1 >= m + 2) /\ m + 1 + n + 1 >= m + 2
      OBVIOUS
    <3> QED BY ONLY <3>1, <3>2, <3>3
  <2>2. Min(Ends(u, c, m + 2)) = m + 1 + n + 1
    BY <1>6, <1>b, <2>1
  <2>3. Split(u, c)[m + 2] = SubSeq(u, m + 2, m + 1 + n)
    <3>1. (m + 1 + n + 1) - 1 = m + 1 + n
      OBVIOUS
    <3> QED BY <1>6, <1>b, <2>2, <3>1
  <2> DEFINE w == SubSeq(u, m + 2, m + 1 + n)
  <2>4. /\ w \in Seq(V) /\ Len(w) = n
        /\ \A i \in 1..((m + 1 + n) - (m + 2) + 1) : w[i] = u[(m + 2) + i - 1]
    <3>1. m + 2 \in Nat /\ m + 1 + n \in Nat /\ m + 2 >= 1 /\ m + 1 + n <= Len(u)
      BY <1>3
    <3>2. /\ w \in Seq(V) /\ Len(w) = IF m + 2 <= m + 1 + n THEN (m + 1 + n) - (m + 2) + 1 ELSE 0
          /\ \A i \in 1..((m + 1 + n) - (m + 2) + 1) : w[i] = u[(m + 2) + i - 1]
      BY <1>a, <3>1, Piece
    <3> HIDE DEF w
    <3>3. Len(w) = n
      BY <3>2
    <3> QED BY <3>2, <3>3
  <2> HIDE DEF w
  <2>5. ASSUME NEW i \in 1..n PROVE w[i] = t[i]
    <3>1. i \in 1..((m + 1 + n) - (m + 2) + 1) /\ (m + 2) + i - 1 = m + 1 + i
      OBVIOUS
    <3> QED BY <1>3, <2>4, <3>1
  <2>6. w = t
    BY <1>2, <2>4, <2>5, SeqEqual
  <2> QED BY <2>3, <2>6 DEF w
<1>10. DOMAIN Split(u, c) = Starts(u, c) /\ DOMAIN Split(s, c) = Starts(s, c)
  BY <1>b, SplitIs
<1> QED BY <1>1, <1>6, <1>8, <1>9, <1>10

-----------------------------------------------------------------------------
(* Durations: numbers and periods in turn, longer periods first              *)
LEMMA PeriodsAre ==
    /\ DOMAIN SecondsOf = {"d", "h", "m", "s"}
    /\ SecondsOf["d"] = 86400 /\ SecondsOf["h"] = 3600 /\ SecondsOf["m"] = 60 /\ SecondsOf["s"] = 1
    /\ \A p \in DOMAIN SecondsOf : SecondsOf[p] \in Nat
    /\ Periods[1] = "d" /\ Periods[2] = "h" /\ Periods[3] = "m" /\ Periods[4] = "s"
<1>1. DOMAIN SecondsOf = {"d", "h", "m", "s"}
  BY DEF SecondsOf
<1>2. SecondsOf["d"] = 86400 /\ SecondsOf["h"] = 3600 /\ SecondsOf["m"] = 60 /\ SecondsOf["s"] = 1
  BY DEF SecondsOf
<1>3. Periods[1] = "d" /\ Periods[2] = "h" /\ Periods[3] = "m" /\ Periods[4] = "s"
  BY DEF Periods
<1> QED BY <1>1, <1>2, <1>3

LEMMA TokensAre ==
    /\ \A c : C(c)[1] = c /\ C(c)[2] = 0
    /\ \A n : Integer(n)[1] = "#" /\ Integer(n)[2] = n /\ Decimal(n)[1] = "." /\ Decimal(n)[2] = n
    /\ \A c \in Vocabulary : C(c) \in Vocabulary \X Nat
    /\ \A n \in Nat : Integer(n) \in Vocabulary \X Nat /\ Decimal(n) \in Vocabulary \X Nat
    /\ \A c, d : C(c) = C(d) => c = d
<1>1. "#" \in Vocabulary /\ "." \in Vocabulary
  BY LinesAssumption DEF Punctuation
<1>2. \A c : C(c)[1] = c /\ C(c)[2] = 0
  BY DEF C
<1>3. \A n : Integer(n)[1] = "#" /\ Integer(n)[2] = n /\ Decimal(n)[1] = "." /\ Decimal(n)[2] = n
  BY DEF Integer, Decimal
<1>4. \A c \in Vocabulary : C(c) \in Vocabulary \X Nat
  BY DEF C
<1>5. \A n \in Nat : Integer(n) \in Vocabulary \X Nat /\ Decimal(n) \in Vocabulary \X Nat
  BY <1>1 DEF Integer, Decimal
<1>6. \A c, d : C(c) = C(d) => c = d
  BY DEF C
<1> QED BY <1>2, <1>3, <1>4, <1>5, <1>6

LengthAt(s, i) == SecondsOf[s[2 * i][1]]
Paired(s, n) ==
    /\ s \in Texts /\ Len(s) = 2 * n
    /\ \A i \in 1..n : s[2 * i - 1][1] = "#" /\ s[2 * i][1] \in DOMAIN SecondsOf
SumsTo(s, n, f) ==
    /\ f \in [0..n -> Nat] /\ f[0] = 0
    /\ \A i \in 1..n : f[i] = f[i - 1] + s[2 * i - 1][2] * LengthAt(s, i)
Reads(s, n, v, low) ==
    /\ Paired(s, n)
    /\ \A i, j \in 1..n : i < j => LengthAt(s, i) > LengthAt(s, j)
    /\ \A i \in 1..n : LengthAt(s, i) >= low
    /\ \E f : SumsTo(s, n, f) /\ f[n] = v

LEMMA ReadsNone ==
    Reads(<<>>, 0, 0, 86401)
<1>1. Paired(<<>>, 0)
  BY DEF Paired, Texts
<1>2. SumsTo(<<>>, 0, [i \in 0..0 |-> 0])
  BY DEF SumsTo
<1>3. [i \in 0..0 |-> 0][0] = 0
  OBVIOUS
<1> QED BY <1>1, <1>2, <1>3 DEF Reads

LEMMA ReadsMore ==
    ASSUME NEW s, NEW n \in Nat, NEW v \in Nat, NEW low \in Nat, Reads(s, n, v, low),
           NEW a \in Nat, NEW p \in DOMAIN SecondsOf, SecondsOf[p] < low,
           NEW u, u = s \o <<Integer(a), C(p)>>
    PROVE  Reads(u, n + 1, v + a * SecondsOf[p], SecondsOf[p])
<1>1. s \in Texts /\ Len(s) = 2 * n
  BY DEF Reads, Paired
<1> DEFINE t == <<Integer(a), C(p)>>
<1>2. t \in Texts /\ Len(t) = 2 /\ t[1] = Integer(a) /\ t[2] = C(p)
  <2>1. p \in Vocabulary
    BY PeriodsAre, LinesAssumption
  <2>2. Integer(a) \in Vocabulary \X Nat /\ C(p) \in Vocabulary \X Nat
    BY <2>1, TokensAre
  <2> QED BY <2>2 DEF Texts
<1> HIDE DEF t
<1>3. /\ u \in Texts /\ Len(u) = 2 * n + 2
      /\ \A i \in 1..(2 * n + 2) : u[i] = IF i <= 2 * n THEN s[i] ELSE t[i - 2 * n]
  <2>1. u = s \o t
    BY DEF t
  <2>2. PICK m \in Nat : m = 2 * n
    OBVIOUS
  <2> DEFINE V == Vocabulary \X Nat
  <2>4. s \in Seq(V) /\ t \in Seq(V) /\ Len(s) = m /\ Len(t) = 2
    BY <1>1, <1>2, <2>2 DEF Texts
  <2> HIDE DEF V
  <2>3. /\ s \o t \in Seq(V) /\ Len(s \o t) = m + 2
        /\ \A i \in 1..(m + 2) : (s \o t)[i] = IF i <= m THEN s[i] ELSE t[i - m]
    <3>1. m \in Nat /\ 2 \in Nat
      OBVIOUS
    <3>2. /\ s \o t \in Seq(V) /\ Len(s \o t) = Len(s) + Len(t)
          /\ \A i \in 1..(Len(s) + Len(t)) : (s \o t)[i] = IF i <= Len(s) THEN s[i] ELSE t[i - Len(s)]
      BY ONLY <2>4, ConcatProperties
    <3> QED BY ONLY <2>4, <3>1, <3>2
  <2> QED BY <2>1, <2>2, <2>3 DEF V, Texts
<1>4. ASSUME NEW i \in 1..n PROVE u[2 * i - 1] = s[2 * i - 1] /\ u[2 * i] = s[2 * i]
  <2>1. 2 * i - 1 \in 1..(2 * n + 2) /\ 2 * i \in 1..(2 * n + 2) /\ 2 * i - 1 <= 2 * n /\ 2 * i <= 2 * n
    OBVIOUS
  <2> QED BY <1>3, <2>1
<1>5. u[2 * (n + 1) - 1] = Integer(a) /\ u[2 * (n + 1)] = C(p)
  <2>1. /\ 2 * (n + 1) - 1 \in 1..(2 * n + 2) /\ ~(2 * (n + 1) - 1 <= 2 * n) /\ (2 * (n + 1) - 1) - 2 * n = 1
        /\ 2 * (n + 1) \in 1..(2 * n + 2) /\ ~(2 * (n + 1) <= 2 * n) /\ 2 * (n + 1) - 2 * n = 2
    OBVIOUS
  <2> QED BY <1>2, <1>3, <2>1
<1>6. \A i \in 1..n : LengthAt(u, i) = LengthAt(s, i)
  BY <1>4 DEF LengthAt
<1>7. LengthAt(u, n + 1) = SecondsOf[p] /\ u[2 * (n + 1) - 1][2] = a
  BY <1>5, TokensAre DEF LengthAt
<1>8. \A i \in 1..(n + 1) : i \in 1..n \/ i = n + 1
  OBVIOUS
<1>9. Paired(u, n + 1)
  <2>1. \A i \in 1..n : u[2 * i - 1][1] = "#" /\ u[2 * i][1] \in DOMAIN SecondsOf
    BY <1>4 DEF Reads, Paired
  <2>2. u[2 * (n + 1) - 1][1] = "#" /\ u[2 * (n + 1)][1] \in DOMAIN SecondsOf
    <3>1. C(p)[1] = p /\ Integer(a)[1] = "#"
      BY TokensAre
    <3> QED BY <1>5, <3>1
  <2>3. 2 * (n + 1) = 2 * n + 2
    OBVIOUS
  <2>4. \A i \in 1..(n + 1) : u[2 * i - 1][1] = "#" /\ u[2 * i][1] \in DOMAIN SecondsOf
    BY <1>8, <2>1, <2>2
  <2> QED BY <1>3, <2>3, <2>4 DEF Paired
<1>10. \A i \in 1..n : LengthAt(u, i) \in Nat /\ LengthAt(u, i) >= low
  <2>1. \A i \in 1..n : LengthAt(s, i) >= low /\ s[2 * i][1] \in DOMAIN SecondsOf
    BY DEF Reads, Paired
  <2>2. \A i \in 1..n : LengthAt(s, i) \in Nat
    BY <2>1, PeriodsAre DEF LengthAt
  <2> QED BY <1>6, <2>1, <2>2
<1>11. SecondsOf[p] \in Nat
  BY PeriodsAre
<1>c. \A i \in 1..n : LengthAt(u, i) > SecondsOf[p]
  <2>1. PICK x \in Nat : x = SecondsOf[p]
    BY <1>11
  <2>2. x < low
    BY <2>1
  <2>3. ASSUME NEW i \in 1..n PROVE LengthAt(u, i) > x
    <3>1. PICK y \in Nat : y = LengthAt(u, i) /\ y >= low
      BY <1>10
    <3>2. y > x
      BY <2>2, <3>1
    <3> QED BY <3>1, <3>2
  <2> QED BY <2>1, <2>3
<1>12. \A i \in 1..(n + 1) : LengthAt(u, i) >= SecondsOf[p]
  <2>1. \A i \in 1..n : LengthAt(u, i) >= SecondsOf[p]
    <3>1. PICK x \in Nat : x = SecondsOf[p]
      BY <1>11
    <3>2. \A i \in 1..n : LengthAt(u, i) \in Nat /\ LengthAt(u, i) > x
      BY <1>10, <1>c, <3>1
    <3>3. \A i \in 1..n : LengthAt(u, i) >= x
      BY ONLY <3>1, <3>2
    <3> QED BY <3>1, <3>3
  <2>2. LengthAt(u, n + 1) >= SecondsOf[p]
    BY <1>7, <1>11
  <2> QED BY ONLY <1>8, <2>1, <2>2
<1>13. ASSUME NEW i \in 1..(n + 1), NEW j \in 1..(n + 1), i < j PROVE LengthAt(u, i) > LengthAt(u, j)
  <2>1. i \in 1..n
    BY <1>13
  <2>2. CASE j = n + 1
    BY <1>7, <1>c, <2>1, <2>2
  <2>3. CASE j \in 1..n
    <3>1. LengthAt(s, i) > LengthAt(s, j)
      BY <1>13, <2>1, <2>3 DEF Reads
    <3> QED BY <1>6, <2>1, <2>3, <3>1
  <2> QED BY <1>8, <2>2, <2>3
<1>14. PICK f : SumsTo(s, n, f) /\ f[n] = v
  BY DEF Reads
<1> DEFINE w == v + a * SecondsOf[p]
           g == [i \in 0..(n + 1) |-> IF i = n + 1 THEN w ELSE f[i]]
<1>15. w \in Nat
  <2>1. \A x, y \in Nat : x * y \in Nat
    OBVIOUS
  <2>2. a * SecondsOf[p] \in Nat
    BY <1>11, <2>1
  <2> QED BY <2>2
<1>16. SumsTo(u, n + 1, g)
  <2> HIDE DEF w
  <2>1. \A i \in 0..(n + 1) : g[i] = IF i = n + 1 THEN w ELSE f[i]
    OBVIOUS
  <2>2. g \in [0..(n + 1) -> Nat] /\ g[0] = 0
    <3>1. \A i \in 0..(n + 1) : i \in 0..n \/ i = n + 1
      OBVIOUS
    <3>2. \A i \in 0..n : f[i] \in Nat
      BY <1>14 DEF SumsTo
    <3>3. \A i \in 0..(n + 1) : g[i] \in Nat
      BY <1>15, <2>1, <3>1, <3>2
    <3>4. g[0] = 0
      BY <1>14, <2>1 DEF SumsTo
    <3> QED BY <3>3, <3>4
  <2> HIDE DEF g
  <2>3. ASSUME NEW i \in 1..n PROVE g[i] = g[i - 1] + u[2 * i - 1][2] * LengthAt(u, i)
    <3>1. i \in 0..(n + 1) /\ i - 1 \in 0..(n + 1) /\ i # n + 1 /\ i - 1 # n + 1
      OBVIOUS
    <3>2. g[i] = f[i] /\ g[i - 1] = f[i - 1]
      BY <2>1, <3>1
    <3>3. f[i] = f[i - 1] + s[2 * i - 1][2] * LengthAt(s, i)
      BY <1>14 DEF SumsTo
    <3> QED BY ONLY <1>4, <1>6, <3>2, <3>3
  <2>4. g[n + 1] = g[(n + 1) - 1] + u[2 * (n + 1) - 1][2] * LengthAt(u, n + 1)
    <3>1. g[n + 1] = v + a * SecondsOf[p]
      BY <2>1 DEF w
    <3>2. g[(n + 1) - 1] = v
      BY <1>14, <2>1
    <3> QED BY ONLY <1>7, <3>1, <3>2
  <2>5. \A i \in 1..(n + 1) : g[i] = g[i - 1] + u[2 * i - 1][2] * LengthAt(u, i)
    BY ONLY <1>8, <2>3, <2>4
  <2> QED BY <2>2, <2>5 DEF SumsTo
<1>17. g[n + 1] = w
  OBVIOUS
<1> HIDE DEF g
<1> QED BY <1>9, <1>12, <1>13, <1>16, <1>17 DEF Reads

(* What is left of some seconds after a period, and its text *)
Part(l, p) == IF l < SecondsOf[p] THEN <<>> ELSE <<Integer(l \div SecondsOf[p]), C(p)>>

LEMMA ReadsPart ==
    ASSUME NEW s, NEW n \in Nat, NEW v \in Nat, NEW low \in Nat, Reads(s, n, v, low),
           NEW l \in Nat, NEW p \in DOMAIN SecondsOf, SecondsOf[p] < low
    PROVE  \E k \in Nat : Reads(s \o Part(l, p), k, v + l - (l % SecondsOf[p]), SecondsOf[p])
<1>1. PICK d \in Nat : d = SecondsOf[p]
  BY PeriodsAre
<1>2. d # 0 /\ d < low
  BY <1>1, PeriodsAre
<1>3. l \div d \in Int /\ l % d \in 0..(d - 1) /\ l = d * (l \div d) + (l % d)
  <2>1. l \in Int /\ d \in Nat \ {0}
    BY <1>2
  <2> QED BY ONLY <2>1, Division
<1>4. CASE l < d
  <2>1. s \o Part(l, p) = s
    <3>1. Part(l, p) = <<>> /\ s \in Texts
      BY <1>1, <1>4 DEF Part, Reads, Paired
    <3> QED BY <3>1, ConcatEmptySeq DEF Texts
  <2>2. l % d = l
    BY <1>2, <1>4
  <2>3. v + l - (l % d) = v
    BY <2>2
  <2>4. Reads(s, n, v, d)
    <3>1. \A i \in 1..n : LengthAt(s, i) \in Nat /\ LengthAt(s, i) >= low
      BY PeriodsAre DEF Reads, Paired, LengthAt
    <3>2. \A i \in 1..n : LengthAt(s, i) >= d
      <4> SUFFICES ASSUME NEW i \in 1..n PROVE LengthAt(s, i) >= d
        OBVIOUS
      <4>1. PICK y \in Nat : y = LengthAt(s, i) /\ y >= low
        BY <3>1
      <4> QED BY <1>2, <4>1
    <3> QED BY <3>2 DEF Reads
  <2> QED BY <1>1, <2>1, <2>3, <2>4
<1>5. CASE ~(l < d)
  <2>1. PICK a \in Nat : a = l \div d
    BY <1>2
  <2>2. Part(l, p) = <<Integer(a), C(p)>>
    BY <1>1, <1>5, <2>1 DEF Part
  <2>3. Reads(s \o Part(l, p), n + 1, v + a * SecondsOf[p], SecondsOf[p])
    BY <1>1, <1>2, <2>2, ReadsMore
  <2>4. v + a * SecondsOf[p] = v + l - (l % SecondsOf[p])
    <3>1. a * d = d * a
      OBVIOUS
    <3>2. l % d \in Nat /\ a * d \in Nat
      BY <1>3, <2>1
    <3>3. l = a * d + (l % d)
      BY <1>3, <2>1, <3>1
    <3>4. v + a * d = v + l - (l % d)
      BY <3>2, <3>3
    <3> QED BY <1>1, <3>4
  <2> QED BY <2>3, <2>4
<1> QED BY <1>4, <1>5

LeftBy(g, seconds) == g = [i \in 0..4 |-> IF i = 0 THEN seconds ELSE g[i - 1] % SecondsOf[Periods[i]]]

LEMMA LeftIs ==
    ASSUME NEW seconds \in Nat
    PROVE  /\ \E g : LeftBy(g, seconds)
           /\ \A g : LeftBy(g, seconds) =>
                /\ g[0] = seconds /\ g[1] = g[0] % 86400 /\ g[2] = g[1] % 3600
                /\ g[3] = g[2] % 60 /\ g[4] = g[3] % 1
<1>1. \A i \in 0..4 : i = 0 \/ i = 1 \/ i = 2 \/ i = 3 \/ i = 4
  OBVIOUS
<1>2. /\ SecondsOf[Periods[1]] = 86400 /\ SecondsOf[Periods[2]] = 3600
      /\ SecondsOf[Periods[3]] = 60 /\ SecondsOf[Periods[4]] = 1
  BY PeriodsAre
<1>3. \E g : LeftBy(g, seconds)
  <2> DEFINE a == seconds % 86400
             b == a % 3600
             c == b % 60
             d == c % 1
             g == [i \in 0..4 |-> IF i = 0 THEN seconds ELSE IF i = 1 THEN a ELSE IF i = 2 THEN b ELSE IF i = 3 THEN c ELSE d]
  <2>1. g[0] = seconds /\ g[1] = a /\ g[2] = b /\ g[3] = c /\ g[4] = d
    <3> HIDE DEF a, b, c, d
    <3> QED OBVIOUS
  <2>2. g[1] = g[0] % 86400 /\ g[2] = g[1] % 3600 /\ g[3] = g[2] % 60 /\ g[4] = g[3] % 1
    <3> HIDE DEF g
    <3> QED BY <2>1
  <2>3. ASSUME NEW i \in 0..4 PROVE g[i] = IF i = 0 THEN seconds ELSE g[i - 1] % SecondsOf[Periods[i]]
    <3> HIDE DEF g, a, b, c, d
    <3>1. CASE i = 0
      BY <2>1, <3>1
    <3>2. CASE i = 1
      BY <1>2, <2>2, <3>2
    <3>3. CASE i = 2
      BY <1>2, <2>2, <3>3
    <3>4. CASE i = 3
      BY <1>2, <2>2, <3>4
    <3>5. CASE i = 4
      BY <1>2, <2>2, <3>5
    <3> QED BY <1>1, <3>1, <3>2, <3>3, <3>4, <3>5
  <2>4. g = [i \in 0..4 |-> g[i]]
    OBVIOUS
  <2> HIDE DEF g
  <2>5. g = [i \in 0..4 |-> IF i = 0 THEN seconds ELSE g[i - 1] % SecondsOf[Periods[i]]]
    BY <2>3, <2>4
  <2>6. LeftBy(g, seconds)
    BY <2>5 DEF LeftBy
  <2> QED BY <2>6
<1>4. ASSUME NEW g, LeftBy(g, seconds)
      PROVE  /\ g[0] = seconds /\ g[1] = g[0] % 86400 /\ g[2] = g[1] % 3600
             /\ g[3] = g[2] % 60 /\ g[4] = g[3] % 1
  <2>1. \A i \in 0..4 : g[i] = IF i = 0 THEN seconds ELSE g[i - 1] % SecondsOf[Periods[i]]
    BY <1>4 DEF LeftBy
  <2>2. /\ 0 \in 0..4 /\ 1 \in 0..4 /\ 2 \in 0..4 /\ 3 \in 0..4 /\ 4 \in 0..4
        /\ 1 - 1 = 0 /\ 2 - 1 = 1 /\ 3 - 1 = 2 /\ 4 - 1 = 3
    OBVIOUS
  <2> QED BY <1>2, <2>1, <2>2
<1> QED BY <1>3, <1>4

(* The text of a duration is its number of seconds, whatever it is. *)
LEMMA SerializeReads ==
    ASSUME NEW seconds \in Nat
    PROVE  \E k \in Nat \ {0} : Reads(SerializeDuration(seconds), k, seconds, 1)
<1> DEFINE g == CHOOSE h : LeftBy(h, seconds)
           all == Part(g[0], "d") \o Part(g[1], "h") \o Part(g[2], "m") \o Part(g[3], "s")
<1>1. LeftBy(g, seconds)
  BY LeftIs
<1>2. SerializeDuration(seconds) = IF all = <<>> THEN <<Integer(0), C("s")>> ELSE all
  <2>1. /\ 1 - 1 = 0 /\ 2 - 1 = 1 /\ 3 - 1 = 2 /\ 4 - 1 = 3
    OBVIOUS
  <2> DEFINE text(i) == IF g[i - 1] < SecondsOf[Periods[i]] THEN <<>>
                         ELSE <<Integer(g[i - 1] \div SecondsOf[Periods[i]]), C(Periods[i])>>
             whole == text(1) \o text(2) \o text(3) \o text(4)
  <2>2. SerializeDuration(seconds) = IF whole = <<>> THEN <<Integer(0), C("s")>> ELSE whole
    BY DEF SerializeDuration, LeftBy
  <2> HIDE DEF g
  <2>3. /\ text(1) = Part(g[0], "d") /\ text(2) = Part(g[1], "h")
        /\ text(3) = Part(g[2], "m") /\ text(4) = Part(g[3], "s")
    BY <2>1, PeriodsAre DEF Part
  <2> HIDE DEF text
  <2> QED BY <2>2, <2>3
<1> HIDE DEF g
<1>3. /\ g[0] = seconds /\ g[1] = g[0] % 86400 /\ g[2] = g[1] % 3600 /\ g[3] = g[2] % 60 /\ g[4] = g[3] % 1
  BY <1>1, LeftIs
<1>4. g[0] \in Nat /\ g[1] \in Nat /\ g[2] \in Nat /\ g[3] \in Nat /\ g[4] = 0
  BY <1>3
<1>5. /\ "d" \in DOMAIN SecondsOf /\ "h" \in DOMAIN SecondsOf /\ "m" \in DOMAIN SecondsOf /\ "s" \in DOMAIN SecondsOf
      /\ SecondsOf["d"] = 86400 /\ SecondsOf["h"] = 3600 /\ SecondsOf["m"] = 60 /\ SecondsOf["s"] = 1
  BY PeriodsAre
<1>6. PICK k1 \in Nat : Reads(<<>> \o Part(g[0], "d"), k1, 0 + g[0] - (g[0] % 86400), 86400)
  <2>1. PICK k \in Nat : Reads(<<>> \o Part(g[0], "d"), k, 0 + g[0] - (g[0] % SecondsOf["d"]), SecondsOf["d"])
    <3>1. PICK n \in Nat : n = 0
      OBVIOUS
    <3>2. PICK low \in Nat : low = 86401
      OBVIOUS
    <3>3. PICK s : s = <<>>
      OBVIOUS
    <3>4. Reads(s, n, n, low) /\ SecondsOf["d"] < low
      BY <1>5, <3>1, <3>2, <3>3, ReadsNone
    <3>5. \E k \in Nat : Reads(s \o Part(g[0], "d"), k, n + g[0] - (g[0] % SecondsOf["d"]), SecondsOf["d"])
      BY <1>4, <1>5, <3>4, ReadsPart
    <3> QED BY <3>1, <3>3, <3>5
  <2> QED BY <1>5, <2>1
<1>7. <<>> \o Part(g[0], "d") = Part(g[0], "d")
  <2>1. Part(g[0], "d") = <<>> \/ Part(g[0], "d") = <<Integer(g[0] \div SecondsOf["d"]), C("d")>>
    BY DEF Part
  <2>2. Part(g[0], "d") \in Seq({Integer(g[0] \div SecondsOf["d"]), C("d")})
    <3>1. \A x, y : <<x, y>> \in Seq({x, y}) /\ <<>> \in Seq({x, y})
      OBVIOUS
    <3> QED BY <2>1, <3>1
  <2> QED BY <2>2, ConcatEmptySeq
<1>8. Reads(Part(g[0], "d"), k1, g[0] - g[1], 86400)
  BY <1>3, <1>4, <1>6, <1>7
<1>9. g[0] - g[1] \in Nat /\ g[0] - g[2] \in Nat /\ g[0] - g[3] \in Nat
  BY <1>3, <1>4
<1>10. PICK k2 \in Nat : Reads(Part(g[0], "d") \o Part(g[1], "h"), k2, (g[0] - g[1]) + g[1] - (g[1] % 3600), 3600)
  BY <1>4, <1>5, <1>8, <1>9, ReadsPart
<1>11. Reads(Part(g[0], "d") \o Part(g[1], "h"), k2, g[0] - g[2], 3600)
  <2>1. (g[0] - g[1]) + g[1] - (g[1] % 3600) = g[0] - g[2]
    BY <1>3, <1>4
  <2> QED BY <1>10, <2>1
<1>12. PICK k3 \in Nat : Reads(Part(g[0], "d") \o Part(g[1], "h") \o Part(g[2], "m"), k3, (g[0] - g[2]) + g[2] - (g[2] % 60), 60)
  BY <1>4, <1>5, <1>9, <1>11, ReadsPart
<1>13. Reads(Part(g[0], "d") \o Part(g[1], "h") \o Part(g[2], "m"), k3, g[0] - g[3], 60)
  <2>1. (g[0] - g[2]) + g[2] - (g[2] % 60) = g[0] - g[3]
    BY <1>3, <1>4
  <2> QED BY <1>12, <2>1
<1>14. PICK k \in Nat : Reads(all, k, (g[0] - g[3]) + g[3] - (g[3] % 1), 1)
  BY <1>4, <1>5, <1>9, <1>13, ReadsPart
<1>15. Reads(all, k, seconds, 1)
  <2>1. (g[0] - g[3]) + g[3] - (g[3] % 1) = seconds
    BY <1>3, <1>4
  <2> QED BY <1>14, <2>1
<1> HIDE DEF all
<1>16. CASE k # 0
  <2>1. Len(all) = 2 * k
    BY <1>15 DEF Reads, Paired
  <2>2. Len(all) # 0
    BY <1>16, <2>1
  <2>3. all # <<>>
    BY <2>2
  <2> QED BY <1>2, <1>15, <1>16, <2>3
<1>17. CASE k = 0
  <2>1. all = <<>>
    <3>1. all \in Texts /\ Len(all) = 0
      BY <1>15, <1>17 DEF Reads, Paired
    <3> QED BY <3>1, EmptySeq DEF Texts
  <2>2. seconds = 0
    BY <1>15, <1>17 DEF Reads, SumsTo
  <2>3. Reads(<<>> \o <<Integer(0), C("s")>>, 0 + 1, 0 + 0 * SecondsOf["s"], SecondsOf["s"])
    <3>1. PICK n \in Nat : n = 0
      OBVIOUS
    <3>2. PICK low \in Nat : low = 86401
      OBVIOUS
    <3>3. PICK s : s = <<>>
      OBVIOUS
    <3>4. Reads(s, n, n, low) /\ SecondsOf["s"] < low
      BY <1>5, <3>1, <3>2, <3>3, ReadsNone
    <3>5. PICK p \in DOMAIN SecondsOf : p = "s"
      BY <1>5
    <3>6. PICK u : u = s \o <<Integer(n), C(p)>>
      OBVIOUS
    <3>7. Reads(u, n + 1, n + n * SecondsOf[p], SecondsOf[p])
      BY <3>4, <3>5, <3>6, ReadsMore
    <3> QED BY <3>1, <3>3, <3>5, <3>6, <3>7
  <2>4. <<>> \o <<Integer(0), C("s")>> = <<Integer(0), C("s")>>
    <3>1. <<Integer(0), C("s")>> \in Seq({Integer(0), C("s")})
      OBVIOUS
    <3> QED BY <3>1, ConcatEmptySeq
  <2>5. Reads(<<Integer(0), C("s")>>, 1, 0, 1)
    <3>1. 0 + 1 = 1 /\ 0 + 0 * SecondsOf["s"] = 0
      BY <1>5
    <3> QED BY <1>5, <2>3, <2>4, <3>1
  <2> QED BY <1>2, <2>1, <2>2, <2>5
<1> QED BY <1>16, <1>17

(* parse_duration() adds up what is there. *)
SumBy(g, s) ==
    g = [i \in 0..(Len(s) \div 2) |-> IF i = 0 THEN 0 ELSE g[i - 1] + s[2 * i - 1][2] * SecondsOf[s[2 * i][1]]]

LEMMA PairsOf ==
    ASSUME NEW s, NEW n \in Nat, Paired(s, n), NEW i \in 1..n
    PROVE  s[2 * i - 1][2] \in Nat /\ LengthAt(s, i) \in Nat /\ s[2 * i - 1][2] * LengthAt(s, i) \in Nat
<1>1. s \in Seq(Vocabulary \X Nat) /\ 2 * i - 1 \in 1..Len(s) /\ 2 * i \in 1..Len(s)
  BY DEF Paired, Texts
<1>2. s[2 * i - 1] \in Vocabulary \X Nat
  BY <1>1, ElementOfSeq
<1>3. s[2 * i - 1][2] \in Nat
  BY <1>2
<1>4. LengthAt(s, i) \in Nat
  BY PeriodsAre DEF Paired, LengthAt
<1>5. \A x, y \in Nat : x * y \in Nat
  OBVIOUS
<1> QED BY <1>3, <1>4, <1>5

LEMMA SumIs ==
    ASSUME NEW s, NEW n \in Nat, Paired(s, n), NEW f, SumsTo(s, n, f)
    PROVE  SumBy(f, s) /\ \A g : SumBy(g, s) => g[n] = f[n]
<1>1. Len(s) \div 2 = n
  BY DEF Paired
<1>2. \A i \in 1..n : f[i] = f[i - 1] + s[2 * i - 1][2] * SecondsOf[s[2 * i][1]]
  BY DEF SumsTo, LengthAt
<1>3. SumBy(f, s)
  <2>1. f = [i \in 0..n |-> f[i]] /\ f[0] = 0
    BY DEF SumsTo
  <2>2. \A i \in 0..n : f[i] = IF i = 0 THEN 0 ELSE f[i - 1] + s[2 * i - 1][2] * SecondsOf[s[2 * i][1]]
    <3>1. \A i \in 0..n : i = 0 \/ i \in 1..n
      OBVIOUS
    <3>2. \A i \in 1..n : i # 0
      OBVIOUS
    <3> QED BY ONLY <1>2, <2>1, <3>1, <3>2
  <2> QED BY <1>1, <2>1, <2>2 DEF SumBy
<1>4. ASSUME NEW g, SumBy(g, s) PROVE g[n] = f[n]
  <2>1. \A i \in 0..n : g[i] = IF i = 0 THEN 0 ELSE g[i - 1] + s[2 * i - 1][2] * SecondsOf[s[2 * i][1]]
    BY <1>1, <1>4 DEF SumBy
  <2> DEFINE T == {m \in Nat : m <= n => g[m] = f[m]}
  <2>2. 0 \in T
    BY <2>1 DEF SumsTo
  <2>3. ASSUME NEW m \in Nat, m \in T PROVE m + 1 \in T
    <3> SUFFICES ASSUME m + 1 <= n PROVE g[m + 1] = f[m + 1]
      OBVIOUS
    <3>1. m + 1 \in 0..n /\ m + 1 \in 1..n /\ m + 1 # 0 /\ (m + 1) - 1 = m /\ m <= n
      OBVIOUS
    <3>2. g[m] = f[m]
      BY <2>3, <3>1
    <3> DEFINE x == s[2 * (m + 1) - 1][2] * SecondsOf[s[2 * (m + 1)][1]]
    <3>3. g[m + 1] = g[(m + 1) - 1] + x
      BY <2>1, <3>1
    <3>4. f[m + 1] = f[(m + 1) - 1] + x
      BY <1>2, <3>1
    <3> HIDE DEF x
    <3> QED BY <3>1, <3>2, <3>3, <3>4
  <2> HIDE DEF T
  <2>4. n \in T
    BY <2>2, <2>3, Induction
  <2> QED BY <2>4 DEF T
<1> QED BY <1>3, <1>4

LEMMA PairedSums ==
    ASSUME NEW s, NEW n \in Nat, Paired(s, n)
    PROVE  \E f : SumsTo(s, n, f)
<1> DEFINE T == {m \in Nat : m <= n => \E f : SumsTo(s, m, f)}
<1>1. 0 \in T
  <2>1. SumsTo(s, 0, [i \in 0..0 |-> 0])
    BY DEF SumsTo
  <2> QED BY <2>1
<1>2. ASSUME NEW m \in Nat, m \in T PROVE m + 1 \in T
  <2> SUFFICES ASSUME m + 1 <= n PROVE \E f : SumsTo(s, m + 1, f)
    OBVIOUS
  <2>1. PICK f : SumsTo(s, m, f)
    BY <1>2
  <2>2. PICK x \in Nat : x = s[2 * (m + 1) - 1][2] * LengthAt(s, m + 1)
    <3>1. m + 1 \in 1..n
      OBVIOUS
    <3> QED BY <3>1, PairsOf
  <2> DEFINE g == [i \in 0..(m + 1) |-> IF i = m + 1 THEN f[m] + x ELSE f[i]]
  <2>3. \A i \in 0..m : f[i] \in Nat
    BY <2>1 DEF SumsTo
  <2>4. f[m] + x \in Nat
    BY <2>3
  <2>5. \A i \in 0..(m + 1) : g[i] = IF i = m + 1 THEN f[m] + x ELSE f[i]
    OBVIOUS
  <2>6. \A i \in 0..(m + 1) : i \in 0..m \/ i = m + 1
    OBVIOUS
  <2>7. g \in [0..(m + 1) -> Nat]
    BY <2>3, <2>4, <2>6
  <2> HIDE DEF g
  <2>8. g[0] = 0
    BY <2>1, <2>5 DEF SumsTo
  <2>9. ASSUME NEW i \in 1..(m + 1) PROVE g[i] = g[i - 1] + s[2 * i - 1][2] * LengthAt(s, i)
    <3>1. CASE i = m + 1
      <4>1. g[m + 1] = f[m] + x /\ g[(m + 1) - 1] = f[m]
        BY <2>5
      <4> QED BY ONLY <2>2, <3>1, <4>1
    <3>2. CASE i \in 1..m
      <4>1. i \in 0..(m + 1) /\ i - 1 \in 0..(m + 1) /\ i # m + 1 /\ i - 1 # m + 1
        BY <3>2
      <4>2. g[i] = f[i] /\ g[i - 1] = f[i - 1]
        BY <2>5, <4>1
      <4>3. f[i] = f[i - 1] + s[2 * i - 1][2] * LengthAt(s, i)
        BY <2>1, <3>2 DEF SumsTo
      <4> QED BY ONLY <4>2, <4>3
    <3> QED BY <3>1, <3>2
  <2>10. SumsTo(s, m + 1, g)
    BY <2>7, <2>8, <2>9 DEF SumsTo
  <2> QED BY <2>10
<1> HIDE DEF T
<1>3. n \in T
  BY <1>1, <1>2, Induction
<1> QED BY <1>3 DEF T

LEMMA ParseIs ==
    ASSUME NEW s, NEW n \in Nat \ {0}, Paired(s, n), NEW f, SumsTo(s, n, f),
           \A i, j \in 1..n : i < j => LengthAt(s, i) > LengthAt(s, j)
    PROVE  ParseDuration(s) = Succeeded(f[n])
<1>1. Len(s) = 2 * n /\ s \in Texts
  BY DEF Paired
<1>2. Len(s) \div 2 = n /\ Len(s) % 2 = 0 /\ Len(s) # 1 /\ Len(s) # 0
  BY <1>1
<1>3. s # <<>>
  BY <1>2
<1>4. SumBy(f, s) /\ \A g : SumBy(g, s) => g[n] = f[n]
  BY SumIs
<1> DEFINE g == CHOOSE h : SumBy(h, s)
<1>5. SumBy(g, s)
  BY <1>4
<1>6. /\ \A i \in 1..(Len(s) \div 2) : s[2 * i - 1][1] = "#" /\ s[2 * i][1] \in DOMAIN SecondsOf
      /\ \A i, j \in 1..(Len(s) \div 2) : i < j => SecondsOf[s[2 * i][1]] > SecondsOf[s[2 * j][1]]
  BY <1>2 DEF Paired, LengthAt
<1>7. ParseDuration(s) = Succeeded(g[Len(s) \div 2])
  BY <1>2, <1>3, <1>6 DEF ParseDuration, SumBy
<1> HIDE DEF g
<1> QED BY <1>2, <1>4, <1>5, <1>7

LEMMA ParseTyped ==
    ASSUME NEW s \in Texts, ParseDuration(s).ok
    PROVE  ParseDuration(s).value \in Nat
<1>1. \A x : Succeeded(x).value = x
  BY DEF Succeeded
<1>2. CASE s = <<>>
  <2>1. ParseDuration(s) = Succeeded(0)
    BY <1>2 DEF ParseDuration
  <2> QED BY <1>1, <2>1
<1>3. CASE s # <<>> /\ Len(s) = 1 /\ s[1][1] = "#"
  <2>1. ParseDuration(s) = Succeeded(s[1][2])
    BY <1>3 DEF ParseDuration
  <2>2. s[1] \in Vocabulary \X Nat
    BY <1>3 DEF Texts
  <2> QED BY <1>1, <2>1, <2>2
<1>4. CASE s # <<>> /\ ~(Len(s) = 1 /\ s[1][1] = "#")
  <2> DEFINE periods == 1..(Len(s) \div 2)
             ordered == /\ Len(s) % 2 = 0
                        /\ \A i \in periods : s[2 * i - 1][1] = "#" /\ s[2 * i][1] \in DOMAIN SecondsOf
                        /\ \A i, j \in periods : i < j => SecondsOf[s[2 * i][1]] > SecondsOf[s[2 * j][1]]
  <2>1. ~ordered => ParseDuration(s) = Failed
    BY <1>4 DEF ParseDuration
  <2>2. ordered
    <3> HIDE DEF ordered
    <3>1. Failed.ok = FALSE
      BY DEF Failed
    <3> QED BY <2>1, <3>1
  <2>3. PICK n \in Nat : n = Len(s) \div 2
    BY DEF Texts
  <2>4. Len(s) = 2 * n /\ n # 0
    <3>1. Len(s) \in Nat /\ Len(s) # 0
      BY <1>4 DEF Texts
    <3> QED BY <2>2, <2>3, <3>1
  <2>5. Paired(s, n)
    BY <2>2, <2>3, <2>4 DEF Paired
  <2>6. PICK f : SumsTo(s, n, f)
    BY <2>5, PairedSums
  <2>7. \A i, j \in 1..n : i < j => LengthAt(s, i) > LengthAt(s, j)
    BY <2>2, <2>3 DEF LengthAt
  <2>8. ParseDuration(s) = Succeeded(f[n])
    BY <2>4, <2>5, <2>6, <2>7, ParseIs
  <2>9. f[n] \in Nat
    BY <2>6 DEF SumsTo
  <2> QED BY <1>1, <2>8, <2>9
<1> QED BY <1>2, <1>3, <1>4

LEMMA DurationsParse ==
    ASSUME NEW seconds \in Nat
    PROVE  /\ ParseDuration(SerializeDuration(seconds)) = Succeeded(seconds)
           /\ \E n \in Nat \ {0} : Paired(SerializeDuration(seconds), n)
<1>1. PICK n \in Nat \ {0} : Reads(SerializeDuration(seconds), n, seconds, 1)
  BY SerializeReads
<1>2. PICK s : s = SerializeDuration(seconds)
  OBVIOUS
<1>3. Paired(s, n) /\ \A i, j \in 1..n : i < j => LengthAt(s, i) > LengthAt(s, j)
  BY <1>1, <1>2 DEF Reads
<1>4. PICK f : SumsTo(s, n, f) /\ f[n] = seconds
  BY <1>1, <1>2 DEF Reads
<1>5. ParseDuration(s) = Succeeded(f[n])
  BY <1>3, <1>4, ParseIs
<1> QED BY <1>2, <1>3, <1>4, <1>5

-----------------------------------------------------------------------------
(* The text of an argument: what quotes, separators and spaces around it do  *)
(* not change.                                                               *)
Apart(s) ==
    /\ s \in Texts /\ s # <<>>
    /\ ~Contains(s, Comma) /\ ~Contains(s, Equals) /\ ~Contains(s, Quote)
Bare(s) == ~Contains(s, Space)

LEMMA MarksAre ==
    /\ Space \in Vocabulary \X Nat /\ Comma \in Vocabulary \X Nat /\ Equals \in Vocabulary \X Nat
    /\ Quote \in Vocabulary \X Nat /\ Dollar \in Vocabulary \X Nat /\ Minus \in Vocabulary \X Nat
    /\ Space[1] = " " /\ Comma[1] = "," /\ Equals[1] = "=" /\ Quote[1] = "'" /\ Dollar[1] = "$" /\ Minus[1] = "-"
<1>1. /\ " " \in Vocabulary /\ "," \in Vocabulary /\ "=" \in Vocabulary /\ "'" \in Vocabulary
      /\ "$" \in Vocabulary /\ "-" \in Vocabulary
  BY LinesAssumption DEF Punctuation
<1> QED BY <1>1, TokensAre DEF Space, Comma, Equals, Quote, Dollar, Minus

LEMMA Quoting ==
    ASSUME NEW s, Apart(s)
    PROVE  /\ Quoted(s) \in Texts
           /\ ~Contains(Quoted(s), Comma) /\ ~Contains(Quoted(s), Equals)
           /\ Strip(Strip(Quoted(s), Space), Quote) = s
<1> DEFINE V == Vocabulary \X Nat
<1>1. s \in Seq(V) /\ s # <<>>
  BY DEF Apart, Texts
<1>2. PICK n \in Nat : n = Len(s) /\ n # 0
  BY <1>1
<1>3. \A i \in 1..n : s[i] # Comma /\ s[i] # Equals /\ s[i] # Quote
  BY <1>2 DEF Apart, Contains
<1>4. Quote # Space /\ Quote # Comma /\ Quote # Equals /\ Quote \in V
  BY MarksAre
<1>5. 1 \in 1..n /\ n \in 1..n
  BY <1>2
<1> HIDE DEF V
<1>6. CASE Bare(s)
  <2>1. Quoted(s) = s
    BY <1>6 DEF Quoted, Bare
  <2>2. s[1] # Space /\ s[n] # Space
    BY <1>2, <1>5, <1>6 DEF Bare, Contains
  <2>3. Strip(s, Space) = s
    BY <1>1, <1>2, <2>2, StripNothing
  <2>4. Strip(s, Quote) = s
    BY <1>1, <1>2, <1>3, <1>5, StripNothing
  <2> QED BY <2>1, <2>3, <2>4 DEF Apart
<1>7. CASE ~Bare(s)
  <2> DEFINE a == <<Quote>> \o s
             q == a \o <<Quote>>
  <2>1. Quoted(s) = q
    BY <1>7 DEF Quoted, Bare
  <2>2. <<Quote>> \in Seq(V) /\ Len(<<Quote>>) = 1 /\ <<Quote>>[1] = Quote
    BY <1>4
  <2>3. /\ a \in Seq(V) /\ Len(a) = 1 + n
        /\ \A i \in 1..(1 + n) : a[i] = IF i <= 1 THEN <<Quote>>[i] ELSE s[i - 1]
    BY <1>1, <1>2, <2>2, ConcatProperties
  <2> HIDE DEF a
  <2>4. /\ q \in Seq(V) /\ Len(q) = n + 2
        /\ \A i \in 1..(n + 2) : q[i] = IF i <= 1 + n THEN a[i] ELSE <<Quote>>[i - (1 + n)]
    BY <2>2, <2>3, ConcatProperties
  <2> HIDE DEF q
  <2>5. q[1] = Quote /\ q[n + 2] = Quote
    <3>1. 1 \in 1..(n + 2) /\ 1 \in 1..(1 + n) /\ n + 2 \in 1..(n + 2) /\ ~(n + 2 <= 1 + n) /\ (n + 2) - (1 + n) = 1 /\ 1 <= 1 + n
      OBVIOUS
    <3> QED BY <2>2, <2>3, <2>4, <3>1
  <2>6. ASSUME NEW i \in 1..n PROVE q[i + 1] = s[i]
    <3>1. i + 1 \in 1..(n + 2) /\ i + 1 \in 1..(1 + n) /\ i + 1 <= 1 + n /\ ~(i + 1 <= 1) /\ (i + 1) - 1 = i
      OBVIOUS
    <3> QED BY <2>3, <2>4, <3>1
  <2>7. \A i \in 1..(n + 2) : i = 1 \/ i = n + 2 \/ (i - 1 \in 1..n /\ (i - 1) + 1 = i)
    OBVIOUS
  <2>8. \A i \in 1..(n + 2) : q[i] # Comma /\ q[i] # Equals
    <3> SUFFICES ASSUME NEW i \in 1..(n + 2) PROVE q[i] # Comma /\ q[i] # Equals
      OBVIOUS
    <3>1. CASE i = 1 \/ i = n + 2
      BY <1>4, <2>5, <3>1
    <3>2. CASE i - 1 \in 1..n /\ (i - 1) + 1 = i
      <4>1. q[i] = s[i - 1]
        BY <2>6, <3>2
      <4> QED BY <1>3, <3>2, <4>1
    <3> QED BY <2>7, <3>1, <3>2
  <2>9. Strip(q, Space) = q
    <3>1. q # <<>> /\ q[1] # Space /\ q[Len(q)] # Space
      BY <1>4, <2>4, <2>5
    <3> QED BY <2>4, <3>1, StripNothing
  <2>10. Strip(q, Quote) = SubSeq(q, 2, n + 1)
    <3>1. 2 \in 1..Len(q) /\ n + 1 \in 1..Len(q)
      BY <1>2, <2>4
    <3>2. q[2] # Quote /\ q[n + 1] # Quote
      <4>1. q[1 + 1] = s[1] /\ q[n + 1] = s[n]
        BY <1>5, <2>6
      <4> QED BY <1>3, <1>5, <4>1
    <3>3. \A k \in 1..Len(q) : q[k] # Quote => 2 <= k /\ k <= n + 1
      <4> SUFFICES ASSUME NEW k \in 1..(n + 2), q[k] # Quote PROVE 2 <= k /\ k <= n + 1
        BY <2>4
      <4>1. k # 1 /\ k # n + 2
        BY <2>5
      <4> QED BY <4>1
    <3> QED BY <2>4, <3>1, <3>2, <3>3, StripIs
  <2>11. SubSeq(q, 2, n + 1) = s
    <3> DEFINE w == SubSeq(q, 2, n + 1)
    <3>1. 2 \in Nat /\ n + 1 \in Nat /\ 2 >= 1 /\ n + 1 <= Len(q)
      BY <2>4
    <3>2. /\ w \in Seq(V) /\ Len(w) = IF 2 <= n + 1 THEN (n + 1) - 2 + 1 ELSE 0
          /\ \A i \in 1..((n + 1) - 2 + 1) : w[i] = q[2 + i - 1]
      BY <2>4, <3>1, Piece
    <3> HIDE DEF w
    <3>3. Len(w) = n
      BY <1>2, <3>2
    <3>4. ASSUME NEW i \in 1..n PROVE w[i] = s[i]
      <4>1. i \in 1..((n + 1) - 2 + 1) /\ 2 + i - 1 = i + 1
        OBVIOUS
      <4> QED BY <2>6, <3>2, <4>1
    <3>5. w = s
      BY <1>1, <1>2, <3>2, <3>3, <3>4, SeqEqual
    <3> QED BY <3>5 DEF w
  <2>12. q \in Texts /\ ~Contains(q, Comma) /\ ~Contains(q, Equals)
    BY <2>4, <2>8 DEF Contains, Texts, V
  <2> QED BY <2>1, <2>9, <2>10, <2>11, <2>12
<1> QED BY <1>6, <1>7

(* Two decimals, and the sign *)
LEMMA RoundedIs ==
    ASSUME NEW n \in Nat
    PROVE  Rounded(n) \in Nat /\ Close(n, Rounded(n))
<1> DEFINE q == n \div 10
           r == n % 10
           up == r > 5 \/ (r = 5 /\ q % 2 = 1)
<1>1. q \in Int /\ r \in 0..9 /\ n = 10 * q + r
  OBVIOUS
<1>2. Rounded(n) = 10 * (q + IF up THEN 1 ELSE 0)
  BY DEF Rounded
<1>3. up => r >= 5
  BY <1>1
<1>4. ~up => r <= 5
  BY <1>1
<1> HIDE DEF q, r, up
<1>5. q >= 0
  BY <1>1
<1>6. CASE up
  BY <1>1, <1>2, <1>3, <1>5, <1>6 DEF Close
<1>7. CASE ~up
  BY <1>1, <1>2, <1>4, <1>5, <1>7 DEF Close
<1> QED BY <1>6, <1>7

LEMMA NoneOf ==
    ASSUME NEW s, NEW n \in Nat, n = Len(s), NEW c, \A i \in 1..n : s[i][1] # c[1]
    PROVE  ~Contains(s, c)
BY DEF Contains

(* Tokens of numbers, periods and words are no punctuation. *)
LEMMA ApartIs ==
    ASSUME NEW s \in Texts, s # <<>>, \A i \in 1..Len(s) : s[i][1] \notin {" ", ",", "=", "'", "$"}
    PROVE  Apart(s) /\ Bare(s) /\ s[1] # Dollar /\ Strip(s, Space) = s /\ Quoted(s) = s
<1>a. s \in Seq(Vocabulary \X Nat)
  BY DEF Texts
<1>1. PICK n \in Nat \ {0} : n = Len(s)
  BY ONLY <1>a, EmptySeq, s # <<>>
<1>2. \A i \in 1..n : s[i][1] # " " /\ s[i][1] # "," /\ s[i][1] # "=" /\ s[i][1] # "'" /\ s[i][1] # "$"
  BY <1>1
<1>3. ~Contains(s, Comma) /\ ~Contains(s, Equals) /\ ~Contains(s, Quote) /\ ~Contains(s, Space)
  BY <1>1, <1>2, MarksAre, NoneOf
<1>4. 1 \in 1..n /\ n \in 1..n
  <2>1. n \in Nat \ {0}
    OBVIOUS
  <2> QED BY ONLY <2>1
<1>5. s[1] # Dollar /\ s[1] # Space /\ s[n] # Space
  BY <1>2, <1>4, MarksAre
<1>6. Strip(s, Space) = s
  BY <1>1, <1>5, StripNothing DEF Texts
<1> QED BY <1>3, <1>5, <1>6 DEF Apart, Bare, Quoted

-----------------------------------------------------------------------------
(* An argument of each type: s is its text without the quotes. *)
Kept(v, type, s) ==
    /\ Apart(s) /\ ArgText(v) = Quoted(s)
    /\ Negative(v) => ~ParseArg(type, s).ok
    /\ ~Negative(v) => ParseArg(type, s).ok /\ SameArg(v, ParseArg(type, s).value)

LEMMA SucceededIs ==
    ASSUME NEW x
    PROVE  Succeeded(x).ok = TRUE /\ Succeeded(x).value = x /\ Failed.ok = FALSE
BY DEF Succeeded, Failed

LEMMA ArgVar ==
    ASSUME NEW v, NEW type, v.is = "var", v.name \in Texts, v = Variable(v.name), Holds(v)
    PROVE  \E s : Kept(v, type, s)
<1> DEFINE V == Vocabulary \X Nat
           s == <<Dollar>> \o v.name
<1>1. PICK name \in Texts : name = v.name
  OBVIOUS
<1>2. PICK n \in Nat : n = Len(name)
  BY DEF Texts
<1>3. <<Dollar>> \in Seq(V) /\ Len(<<Dollar>>) = 1 /\ <<Dollar>>[1] = Dollar
  <2>1. PICK d \in V : d = Dollar
    BY MarksAre
  <2>2. <<d>> \in Seq(V) /\ Len(<<d>>) = 1 /\ <<d>>[1] = d
    OBVIOUS
  <2> QED BY <2>1, <2>2
<1>4. name \in Seq(V)
  BY DEF Texts
<1> HIDE DEF V
<1>5. /\ s \in Seq(V) /\ Len(s) = 1 + n
      /\ \A i \in 1..(1 + n) : s[i] = IF i <= 1 THEN <<Dollar>>[i] ELSE name[i - 1]
  BY <1>1, <1>2, <1>3, <1>4, ConcatProperties
<1>6. ArgText(v) = Quoted(s)
  BY DEF ArgText
<1> HIDE DEF s
<1>7. s[1] = Dollar /\ \A i \in 1..n : s[i + 1] = name[i]
  <2>1. 1 \in 1..(1 + n) /\ \A i \in 1..n : i + 1 \in 1..(1 + n) /\ ~(i + 1 <= 1) /\ (i + 1) - 1 = i
    OBVIOUS
  <2> QED BY <1>3, <1>5, <2>1
<1>8. \A i \in 1..n : name[i] # Comma /\ name[i] # Equals /\ name[i] # Quote
  <2>1. {name[i] : i \in DOMAIN name} \cap {Comma, Equals, Quote} = {}
    BY <1>1 DEF Holds
  <2>2. DOMAIN name = 1..n
    BY <1>2, <1>4
  <2> QED BY <2>1, <2>2
<1>9. \A i \in 1..(1 + n) : s[i] # Comma /\ s[i] # Equals /\ s[i] # Quote
  <2>1. Dollar # Comma /\ Dollar # Equals /\ Dollar # Quote
    BY MarksAre
  <2>2. \A i \in 1..(1 + n) : i = 1 \/ (i - 1 \in 1..n /\ (i - 1) + 1 = i)
    OBVIOUS
  <2> QED BY <1>7, <1>8, <2>1, <2>2
<1>10. s # <<>>
  BY <1>5
<1>11. Apart(s)
  BY <1>5, <1>9, <1>10 DEF Apart, Contains, Texts, V
<1>12. Tail(s) = name
  <2>1. Tail(s) \in Seq(V) /\ Len(Tail(s)) = n /\ \A i \in 1..n : Tail(s)[i] = s[i + 1]
    BY <1>5, <1>10, HeadTailProperties
  <2> QED BY <1>2, <1>4, <1>7, <2>1, SeqEqual
<1>13. ParseArg(type, s) = Succeeded(v)
  BY <1>1, <1>7, <1>10, <1>11, <1>12 DEF ParseArg, Apart
<1>14. ~Negative(v) /\ SameArg(v, v)
  BY DEF Negative, SameArg
<1> QED BY <1>6, <1>11, <1>13, <1>14, SucceededIs DEF Kept

StoreTyped ==
    /\ DOMAIN store \subseteq Nat
    /\ \A nid \in DOMAIN store : store[nid] \in Texts /\ store[nid] # <<>>
    /\ \A m, n \in DOMAIN store : store[m] = store[n] => m = n

LEMMA StoreIs ==
    ASSUME LinesTypeOK
    PROVE  StoreTyped
<1>1. DOMAIN store \subseteq Nat /\ Range(store) \subseteq Names /\ IsInjective(store)
  BY LinesAssumption DEF LinesTypeOK
<1>2. \A nid \in DOMAIN store : store[nid] \in Range(store)
  BY DEF Range
<1>3. Names \subseteq Texts \ {<<>>}
  BY LinesAssumption
<1> QED BY <1>1, <1>2, <1>3 DEF StoreTyped, IsInjective

LEMMA ArgLink ==
    ASSUME StoreTyped, NEW v, v.is = "link", v.nid \in Nat, v = LinkTo(v.nid), Holds(v), v # LinkTo(0)
    PROVE  \E s : Kept(v, "link", s)
<1>1. PICK nid \in Nat : nid = v.nid /\ nid # 0
  OBVIOUS
<1>2. ~Negative(v) /\ SameArg(v, v)
  BY DEF Negative, SameArg
<1>3. CASE nid \in DOMAIN store
  <2>1. PICK s \in Texts : s = store[nid] /\ s # <<>>
    BY <1>3 DEF StoreTyped
  <2>2. Expressible(s)
    BY <1>1, <1>3, <2>1 DEF Holds
  <2>3. ArgText(v) = Quoted(s)
    BY <1>1, <1>3, <2>1 DEF ArgText, FindSid
  <2>4. PICK n \in Nat : n = Len(s) /\ DOMAIN s = 1..n
    BY DEF Texts
  <2>5. \A i \in 1..n : s[i] # Comma /\ s[i] # Equals /\ s[i] # Quote
    BY <2>2, <2>4 DEF Expressible
  <2>6. Apart(s)
    BY <2>1, <2>4, <2>5 DEF Apart, Contains
  <2>7. s[1] # Dollar /\ ~IsDigit(s)
    BY <2>2 DEF Expressible
  <2>8. FindNid(s) = Succeeded(nid)
    <3>1. \A m \in DOMAIN store : store[m] = s <=> m = nid
      BY <1>3, <2>1 DEF StoreTyped
    <3>2. (CHOOSE m \in DOMAIN store : store[m] = s) = nid
      BY <1>3, <3>1
    <3> QED BY <1>3, <2>1, <2>7, <3>2 DEF FindNid
  <2>9. ParseArg("link", s) = Succeeded(v)
    BY <1>1, <2>6, <2>7, <2>8, SucceededIs DEF ParseArg, Apart
  <2> QED BY <1>2, <2>3, <2>6, <2>9, SucceededIs DEF Kept
<1>4. CASE nid \notin DOMAIN store
  <2> DEFINE s == <<Integer(nid)>>
  <2>1. s \in Texts /\ s # <<>> /\ Len(s) = 1 /\ s[1] = Integer(nid)
    BY TokensAre DEF Texts
  <2>2. ArgText(v) = Quoted(s)
    BY <1>1, <1>4 DEF ArgText, FindSid
  <2> HIDE DEF s
  <2>3. s[1][1] = "#" /\ s[1][2] = nid
    BY <2>1, TokensAre
  <2>4. \A i \in 1..Len(s) : s[i][1] \notin {" ", ",", "=", "'", "$"}
    <3> SUFFICES ASSUME NEW i \in 1..1 PROVE s[i][1] \notin {" ", ",", "=", "'", "$"}
      BY <2>1
    <3>1. i = 1
      OBVIOUS
    <3>2. s[i][1] = "#"
      BY <2>3, <3>1
    <3> QED BY ONLY <3>2
  <2>5. Apart(s) /\ s[1] # Dollar
    BY <2>1, <2>4, ApartIs
  <2>6. FindNid(s) = Succeeded(nid)
    BY <2>1, <2>3 DEF FindNid, IsDigit
  <2>7. ParseArg("link", s) = Succeeded(v)
    BY <1>1, <2>5, <2>6, SucceededIs DEF ParseArg, Apart
  <2> QED BY <1>2, <2>2, <2>5, <2>7, SucceededIs DEF Kept
<1> QED BY <1>3, <1>4

LEMMA ArgDuration ==
    ASSUME NEW v, v.is = "duration", v.seconds \in Nat, v = Duration(v.seconds)
    PROVE  \E s : Kept(v, "duration", s)
<1>1. PICK seconds \in Nat : seconds = v.seconds
  OBVIOUS
<1>2. PICK s : s = SerializeDuration(seconds)
  OBVIOUS
<1>3. ParseDuration(s) = Succeeded(seconds)
  BY <1>2, DurationsParse
<1>4. PICK n \in Nat \ {0} : Paired(s, n)
  BY <1>2, DurationsParse
<1>5. ~Negative(v) /\ SameArg(v, v)
  BY DEF Negative, SameArg
<1>6. s \in Texts /\ Len(s) = 2 * n /\ s # <<>>
  BY <1>4 DEF Paired
<1>7. ASSUME NEW i \in 1..Len(s) PROVE s[i][1] \in {"#", "d", "h", "m", "s"}
  <2>1. PICK k \in 1..n : i = 2 * k - 1 \/ i = 2 * k
    <3>1. i \in 1..(2 * n)
      BY <1>6
    <3>2. CASE i % 2 = 0
      <4>1. i \div 2 \in 1..n /\ i = 2 * (i \div 2)
        BY <3>1, <3>2
      <4> QED BY <4>1
    <3>3. CASE i % 2 = 1
      <4>1. (i + 1) \div 2 \in 1..n /\ i = 2 * ((i + 1) \div 2) - 1
        BY <3>1, <3>3
      <4> QED BY <4>1
    <3>4. i % 2 = 0 \/ i % 2 = 1
      BY <3>1
    <3> QED BY <3>2, <3>3, <3>4
  <2>2. s[2 * k - 1][1] = "#" /\ s[2 * k][1] \in {"d", "h", "m", "s"}
    BY <1>4, PeriodsAre DEF Paired
  <2> QED BY <2>1, <2>2
<1>8. \A i \in 1..Len(s) : s[i][1] \notin {" ", ",", "=", "'", "$"}
  <2> SUFFICES ASSUME NEW i \in 1..Len(s) PROVE s[i][1] \notin {" ", ",", "=", "'", "$"}
    OBVIOUS
  <2>1. PICK x \in {"#", "d", "h", "m", "s"} : s[i][1] = x
    BY <1>7
  <2> QED BY ONLY <2>1
<1>9. Apart(s) /\ s[1] # Dollar /\ Strip(s, Space) = s /\ Quoted(s) = s
  BY <1>6, <1>8, ApartIs
<1>10. ArgText(v) = Quoted(s)
  BY <1>1, <1>2, <1>9 DEF ArgText
<1>11. ParseArg("duration", s) = Succeeded(v)
  BY <1>1, <1>3, <1>9, SucceededIs DEF ParseArg, Apart
<1> QED BY <1>5, <1>9, <1>10, <1>11, SucceededIs DEF Kept

LEMMA Few ==
    ASSUME NEW S, NEW a \in S, NEW b \in S, NEW c \in S
    PROVE  /\ <<a>> \in Seq(S) /\ Len(<<a>>) = 1 /\ <<a>>[1] = a
           /\ <<a, b>> \in Seq(S) /\ Len(<<a, b>>) = 2 /\ <<a, b>>[1] = a /\ <<a, b>>[2] = b
           /\ <<a, b, c>> \in Seq(S) /\ Len(<<a, b, c>>) = 3
           /\ <<a, b, c>>[1] = a /\ <<a, b, c>>[2] = b /\ <<a, b, c>>[3] = c
           /\ <<a>> \o <<b>> = <<a, b>> /\ <<a, b>> \o <<c>> = <<a, b, c>>
<1>0. \A x \in S : <<x>> \in Seq(S) /\ Len(<<x>>) = 1 /\ <<x>>[1] = x
  OBVIOUS
<1>1. <<a>> \in Seq(S) /\ Len(<<a>>) = 1 /\ <<a>>[1] = a
  BY <1>0
<1>2. <<a, b>> \in Seq(S) /\ Len(<<a, b>>) = 2 /\ <<a, b>>[1] = a /\ <<a, b>>[2] = b
  OBVIOUS
<1>3. <<a, b, c>> \in Seq(S) /\ Len(<<a, b, c>>) = 3
  OBVIOUS
<1>4. <<a, b, c>>[1] = a /\ <<a, b, c>>[2] = b /\ <<a, b, c>>[3] = c
  OBVIOUS
<1>5. <<a>> \o <<b>> = <<a, b>>
  <2>1. PICK p \in Seq(S) : p = <<a>> /\ Len(p) = 1 /\ p[1] = a
    BY <1>1
  <2>2. PICK q \in Seq(S) : q = <<b>> /\ Len(q) = 1 /\ q[1] = b
    BY ONLY <1>0, b \in S
  <2>3. PICK r \in Seq(S) : r = <<a, b>> /\ Len(r) = 2 /\ r[1] = a /\ r[2] = b
    BY <1>2
  <2>4. PICK u : u = p \o q
    OBVIOUS
  <2>5. u \in Seq(S) /\ Len(u) = 2 /\ \A i \in 1..2 : u[i] = IF i <= 1 THEN p[i] ELSE q[i - 1]
    BY ONLY p \in Seq(S), q \in Seq(S), <2>1, <2>2, <2>4, ConcatProperties
  <2>6. 1 \in 1..2 /\ 2 \in 1..2 /\ 1 <= 1 /\ ~(2 <= 1) /\ 2 - 1 = 1
    OBVIOUS
  <2>7. u[1] = a /\ u[2] = b
    BY ONLY <2>1, <2>2, <2>5, <2>6
  <2>8. u = r
    <3>1. \A i \in 1..2 : i = 1 \/ i = 2
      OBVIOUS
    <3>2. \A i \in 1..2 : u[i] = r[i]
      BY ONLY <2>3, <2>7, <3>1
    <3> QED BY ONLY <2>3, <2>5, <3>2, r \in Seq(S), SeqEqual
  <2> QED BY <2>1, <2>2, <2>3, <2>4, <2>8
<1>6. <<a, b>> \o <<c>> = <<a, b, c>>
  <2>1. PICK p \in Seq(S) : p = <<a, b>> /\ Len(p) = 2 /\ p[1] = a /\ p[2] = b
    BY <1>2
  <2>2. PICK q \in Seq(S) : q = <<c>> /\ Len(q) = 1 /\ q[1] = c
    BY ONLY <1>0, c \in S
  <2>3. PICK r \in Seq(S) : r = <<a, b, c>> /\ Len(r) = 3 /\ r[1] = a /\ r[2] = b /\ r[3] = c
    BY <1>3, <1>4
  <2>4. PICK u : u = p \o q
    OBVIOUS
  <2>5. u \in Seq(S) /\ Len(u) = 3 /\ \A i \in 1..3 : u[i] = IF i <= 2 THEN p[i] ELSE q[i - 2]
    BY ONLY p \in Seq(S), q \in Seq(S), <2>1, <2>2, <2>4, ConcatProperties
  <2>6. 1 \in 1..3 /\ 2 \in 1..3 /\ 3 \in 1..3 /\ 1 <= 2 /\ 2 <= 2 /\ ~(3 <= 2) /\ 3 - 2 = 1
    OBVIOUS
  <2>7. u[1] = a /\ u[2] = b /\ u[3] = c
    BY ONLY <2>1, <2>2, <2>5, <2>6
  <2>8. u = r
    <3>1. \A i \in 1..3 : i = 1 \/ i = 2 \/ i = 3
      OBVIOUS
    <3>2. \A i \in 1..3 : u[i] = r[i]
      BY ONLY <2>3, <2>7, <3>1
    <3> QED BY ONLY <2>3, <2>5, <3>2, r \in Seq(S), SeqEqual
  <2> QED BY <2>1, <2>2, <2>3, <2>4, <2>8
<1> QED BY <1>1, <1>2, <1>3, <1>4, <1>5, <1>6

LEMMA Joined ==
    ASSUME NEW a, NEW b, NEW c
    PROVE  <<a>> \o <<b>> = <<a, b>> /\ <<a, b>> \o <<c>> = <<a, b, c>>
<1>1. PICK S : S = {a, b, c}
  OBVIOUS
<1>2. a \in S /\ b \in S /\ c \in S
  BY <1>1
<1> QED BY ONLY <1>2, Few

LEMMA UnitsAre ==
    ASSUME NEW u \in Absolute \cup Delta
    PROVE  /\ u \in Vocabulary
           /\ u \notin {" ", ",", "=", "'", "$", "-", "#", "."}
           /\ C(u) \in Vocabulary \X Nat /\ C(u)[1] = u
<1>1. u \in Vocabulary
  BY LinesAssumption
<1>2. u = "C" \/ u = "F" \/ u = "dC" \/ u = "dF"
  BY DEF Absolute, Delta
<1>3. u \notin {" ", ",", "=", "'", "$", "-", "#", "."}
  BY ONLY <1>2
<1> QED BY <1>1, <1>3, TokensAre

LEMMA KeywordsAre ==
    ASSUME NEW w \in Keywords
    PROVE  /\ w \in Vocabulary
           /\ w \notin {" ", ",", "=", "'", "$", "-", "#", "."}
           /\ C(w) \in Vocabulary \X Nat /\ C(w)[1] = w
           /\ Word(w) \in Texts /\ Len(Word(w)) = 1 /\ Word(w)[1] = C(w) /\ Word(w) # <<>>
<1>1. w \in Vocabulary /\ w \notin Punctuation
  BY DEF Keywords
<1>2. w \notin {" ", ",", "=", "'", "$", "-", "#", "."}
  BY <1>1 DEF Punctuation
<1>3. C(w) \in Vocabulary \X Nat /\ C(w)[1] = w
  BY <1>1, TokensAre
<1>4. PICK d \in Vocabulary \X Nat : d = C(w)
  BY <1>3
<1>5. <<d>> \in Seq(Vocabulary \X Nat) /\ Len(<<d>>) = 1 /\ <<d>>[1] = d /\ <<d>> # <<>>
  BY ONLY <1>4, Few
<1>6. Word(w) = <<d>>
  BY <1>4 DEF Word
<1> QED BY <1>1, <1>2, <1>3, <1>4, <1>5, <1>6 DEF Texts

(* A number is text of one or two tokens. *)
LEMMA NumberTextIs ==
    ASSUME NEW n \in Int
    PROVE  \E r \in Nat :
            \/ n < 0 /\ NumberText(n) = <<Minus, Decimal(r)>> /\ Close(n, -r)
            \/ n >= 0 /\ NumberText(n) = <<Decimal(r)>> /\ Close(n, r)
<1>1. CASE n < 0
  <2>1. PICK m \in Nat : m = -n
    BY <1>1
  <2>2. PICK r \in Nat : r = Rounded(m) /\ Close(m, r)
    BY RoundedIs
  <2>3. Close(n, -r)
    BY <2>1, <2>2 DEF Close
  <2> QED BY <1>1, <2>1, <2>2, <2>3 DEF NumberText
<1>2. CASE n >= 0
  <2>1. PICK r \in Nat : r = Rounded(n) /\ Close(n, r)
    BY <1>2, RoundedIs
  <2> QED BY <1>2, <2>1 DEF NumberText
<1> QED BY <1>1, <1>2

LEMMA ArgNumber ==
    ASSUME NEW v, v.is = "number", v.amount \in Int, v = PlainNumber(v.amount)
    PROVE  \E s : Kept(v, "plain", s)
<1>1. PICK n \in Int : n = v.amount
  OBVIOUS
<1>2. PICK s : s = NumberText(n)
  OBVIOUS
<1>3. PICK r \in Nat :
        \/ n < 0 /\ s = <<Minus, Decimal(r)>> /\ Close(n, -r)
        \/ n >= 0 /\ s = <<Decimal(r)>> /\ Close(n, r)
  <2>1. PICK r \in Nat :
          \/ n < 0 /\ NumberText(n) = <<Minus, Decimal(r)>> /\ Close(n, -r)
          \/ n >= 0 /\ NumberText(n) = <<Decimal(r)>> /\ Close(n, r)
    BY ONLY n \in Int, NumberTextIs
  <2> QED BY ONLY <1>2, <2>1, r \in Nat
<1>4. PICK d \in Vocabulary \X Nat : d = Decimal(r) /\ d[1] = "." /\ d[2] = r
  BY TokensAre
<1>5. PICK m \in Vocabulary \X Nat : m = Minus /\ m[1] = "-"
  BY MarksAre
<1>6. ~Negative(v)
  BY DEF Negative
<1>7. ArgText(v) = s
  BY <1>1, <1>2 DEF ArgText
<1>8. CASE n < 0 /\ s = <<Minus, Decimal(r)>> /\ Close(n, -r)
  <2>1. s = <<m, d>>
    BY <1>4, <1>5, <1>8
  <2>2. s \in Texts /\ Len(s) = 2 /\ s[1] = m /\ s[2] = d /\ s # <<>>
    BY <2>1, Few DEF Texts
  <2>3. \A i \in 1..Len(s) : s[i][1] \notin {" ", ",", "=", "'", "$"}
    <3> SUFFICES ASSUME NEW i \in 1..2 PROVE s[i][1] \notin {" ", ",", "=", "'", "$"}
      BY <2>2
    <3>1. i = 1 \/ i = 2
      OBVIOUS
    <3>2. s[i][1] = "-" \/ s[i][1] = "."
      BY <1>4, <1>5, <2>2, <3>1
    <3> QED BY ONLY <3>2
  <2>4. Apart(s) /\ s[1] # Dollar /\ Quoted(s) = s
    BY <2>2, <2>3, ApartIs
  <2>5. NumberOf(s) = Succeeded(PlainNumber(-r))
    <3>1. Len(s) = 2 /\ Len(s) # 1 /\ s[1] = Minus /\ s[2][1] = "." /\ s[2][2] = r /\ s[2][1] # "#"
      BY <1>4, <1>5, <2>2
    <3>2. \A w \in Enumerations : s # Word(w)
      <4> SUFFICES ASSUME NEW w \in Enumerations PROVE s # Word(w)
        OBVIOUS
      <4>1. w \in Keywords
        BY LinesAssumption
      <4>2. Len(Word(w)) = 1
        BY <4>1, KeywordsAre
      <4> QED BY <3>1, <4>2
    <3> QED BY ONLY <3>1, <3>2 DEF NumberOf
  <2>6. ParseArg("plain", s) = Succeeded(PlainNumber(-r))
    BY <2>4, <2>5 DEF ParseArg, Apart
  <2>7. SameArg(v, PlainNumber(-r))
    BY <1>1, <1>8 DEF SameArg, PlainNumber
  <2> QED BY <1>6, <1>7, <2>4, <2>6, <2>7, SucceededIs DEF Kept
<1>9. CASE n >= 0 /\ s = <<Decimal(r)>> /\ Close(n, r)
  <2>1. s = <<d>>
    BY <1>4, <1>9
  <2>2. s \in Texts /\ Len(s) = 1 /\ s[1] = d /\ s # <<>>
    BY <2>1, Few DEF Texts
  <2>3. \A i \in 1..Len(s) : s[i][1] \notin {" ", ",", "=", "'", "$"}
    <3> SUFFICES ASSUME NEW i \in 1..1 PROVE s[i][1] \notin {" ", ",", "=", "'", "$"}
      BY <2>2
    <3>1. i = 1
      OBVIOUS
    <3>2. s[i][1] = "."
      BY <1>4, <2>2, <3>1
    <3> QED BY ONLY <3>2
  <2>4. Apart(s) /\ s[1] # Dollar /\ Quoted(s) = s
    BY <2>2, <2>3, ApartIs
  <2>5. NumberOf(s) = Succeeded(PlainNumber(r))
    <3>1. Len(s) = 1 /\ Len(s) # 2 /\ s[1][1] = "." /\ s[1][2] = r /\ s[1][1] # "#"
      BY <1>4, <2>2
    <3>2. \A w \in Enumerations : s # Word(w)
      <4> SUFFICES ASSUME NEW w \in Enumerations PROVE s # Word(w)
        OBVIOUS
      <4>1. w \in Keywords
        BY LinesAssumption
      <4>2. Word(w)[1][1] = w /\ w # "."
        BY <4>1, KeywordsAre
      <4> QED BY <3>1, <4>2
    <3> QED BY ONLY <3>1, <3>2 DEF NumberOf
  <2>6. ParseArg("plain", s) = Succeeded(PlainNumber(r))
    BY <2>4, <2>5 DEF ParseArg, Apart
  <2>7. SameArg(v, PlainNumber(r))
    BY <1>1, <1>9 DEF SameArg, PlainNumber
  <2> QED BY <1>6, <1>7, <2>4, <2>6, <2>7, SucceededIs DEF Kept
<1> QED BY <1>3, <1>8, <1>9

LEMMA ArgWord ==
    ASSUME NEW v, v.is = "word", NEW w \in Enumerations, v.text = Word(w), v = PlainWord(v.text)
    PROVE  \E s : Kept(v, "plain", s)
<1>1. PICK s : s = Word(w)
  OBVIOUS
<1>2. w \in Keywords
  BY LinesAssumption
<1>3. s \in Texts /\ Len(s) = 1 /\ s[1][1] = w /\ w \notin {" ", ",", "=", "'", "$", "-", "#", "."}
  BY <1>1, <1>2, KeywordsAre
<1>4. ArgText(v) = s
  BY <1>1 DEF ArgText
<1>5. \A i \in 1..Len(s) : s[i][1] \notin {" ", ",", "=", "'", "$"}
  <2> SUFFICES ASSUME NEW i \in 1..1 PROVE s[i][1] \notin {" ", ",", "=", "'", "$"}
    BY <1>3
  <2>1. i = 1
    OBVIOUS
  <2>2. s[i][1] \notin {" ", ",", "=", "'", "$", "-", "#", "."}
    BY <1>3, <2>1
  <2> QED BY ONLY <2>2
<1>6. s # <<>>
  BY <1>1, <1>2, KeywordsAre
<1>7. Apart(s) /\ s[1] # Dollar /\ Quoted(s) = s
  BY <1>3, <1>5, <1>6, ApartIs
<1>8. NumberOf(s) = Succeeded(PlainWord(s))
  <2>1. Len(s) # 2 /\ s[1][1] # "." /\ s[1][1] # "#"
    <3>1. Len(s) = 1
      BY <1>3
    <3>2. s[1][1] \notin {" ", ",", "=", "'", "$", "-", "#", "."}
      BY <1>3
    <3>3. s[1][1] # "." /\ s[1][1] # "#"
      BY ONLY <3>2
    <3> QED BY <3>1, <3>3
  <2>2. \E x \in Enumerations : s = Word(x)
    BY <1>1
  <2> QED BY ONLY <2>1, <2>2 DEF NumberOf
<1>9. ParseArg("plain", s) = Succeeded(v)
  BY <1>1, <1>7, <1>8 DEF ParseArg, Apart
<1>10. ~Negative(v) /\ SameArg(v, v)
  BY DEF Negative, SameArg
<1> QED BY <1>4, <1>7, <1>9, <1>10, SucceededIs DEF Kept

LEMMA ArgTemperature ==
    ASSUME NEW v, NEW type \in {"temperature", "delta"}, v.is = "temperature", v.amount \in Int,
           v.unit \in (IF type = "delta" THEN Delta ELSE Absolute), v = Temperature(v.amount, v.unit)
    PROVE  \E s : Kept(v, type, s)
<1>1. PICK n \in Int : n = v.amount
  OBVIOUS
<1>2. PICK units : units = (IF type = "delta" THEN Delta ELSE Absolute)
  OBVIOUS
<1>3. PICK u \in Absolute \cup Delta : u = v.unit /\ u \in units
  BY <1>2
<1>4. PICK w \in Vocabulary \X Nat : w = C(u) /\ w[1] = u
  BY UnitsAre
<1>5. u \notin {" ", ",", "=", "'", "$", "-", "#", "."}
  BY UnitsAre
<1>6. PICK s : s = NumberText(n) \o Word(u)
  OBVIOUS
<1>7. ArgText(v) = s
  BY <1>1, <1>3, <1>6 DEF ArgText
<1>8. PICK r \in Nat :
        \/ n < 0 /\ NumberText(n) = <<Minus, Decimal(r)>> /\ Close(n, -r)
        \/ n >= 0 /\ NumberText(n) = <<Decimal(r)>> /\ Close(n, r)
  BY ONLY n \in Int, NumberTextIs
<1>9. PICK d \in Vocabulary \X Nat : d = Decimal(r) /\ d[1] = "." /\ d[2] = r
  BY TokensAre
<1>10. PICK m \in Vocabulary \X Nat : m = Minus /\ m[1] = "-"
  BY MarksAre
<1>11. Word(u) = <<w>>
  BY <1>4 DEF Word
<1>12. Negative(v) <=> n < 0
  BY <1>1 DEF Negative
<1>13. ASSUME Apart(s), s[1] # Dollar, Strip(s, Space) = s
       PROVE  ParseArg(type, s) = TemperatureOf(s, units)
  BY <1>2, <1>13 DEF ParseArg, Apart
<1>14. CASE n < 0 /\ NumberText(n) = <<Minus, Decimal(r)>>
  <2>1. s = <<m, d, w>>
    <3>1. NumberText(n) = <<m, d>>
      BY ONLY <1>9, <1>10, <1>14
    <3>2. s = <<m, d>> \o <<w>>
      BY ONLY <1>6, <1>11, <3>1
    <3>3. <<m, d>> \o <<w>> = <<m, d, w>>
      BY ONLY Joined
    <3> QED BY ONLY <3>2, <3>3
  <2>2. s \in Texts /\ Len(s) = 3 /\ s[1] = m /\ s[2] = d /\ s[3] = w /\ s # <<>>
    BY <2>1, Few DEF Texts
  <2>3. \A i \in 1..Len(s) : s[i][1] \notin {" ", ",", "=", "'", "$"}
    <3> SUFFICES ASSUME NEW i \in 1..3 PROVE s[i][1] \notin {" ", ",", "=", "'", "$"}
      BY <2>2
    <3>1. i = 1 \/ i = 2 \/ i = 3
      OBVIOUS
    <3>2. s[i][1] = "-" \/ s[i][1] = "." \/ s[i][1] = u
      BY <1>4, <1>9, <1>10, <2>2, <3>1
    <3> QED BY ONLY <3>2, <1>5
  <2>4. Apart(s) /\ s[1] # Dollar /\ Quoted(s) = s /\ Strip(s, Space) = s
    BY <2>2, <2>3, ApartIs
  <2>5. TemperatureOf(s, units) = Failed
    <3>1. s[1][1] = "-"
      BY <1>10, <2>2
    <3> QED BY ONLY <3>1 DEF TemperatureOf
  <2>6. ~ParseArg(type, s).ok
    BY <1>13, <2>4, <2>5, SucceededIs
  <2>7. Negative(v)
    BY <1>12, <1>14
  <2> QED BY <1>7, <2>4, <2>6, <2>7 DEF Kept
<1>15. CASE n >= 0 /\ NumberText(n) = <<Decimal(r)>> /\ Close(n, r)
  <2>1. s = <<d, w>>
    <3>1. NumberText(n) = <<d>>
      BY ONLY <1>9, <1>15
    <3>2. s = <<d>> \o <<w>>
      BY ONLY <1>6, <1>11, <3>1
    <3>3. <<d>> \o <<w>> = <<d, w>>
      BY ONLY Joined
    <3> QED BY ONLY <3>2, <3>3
  <2>2. s \in Texts /\ Len(s) = 2 /\ s[1] = d /\ s[2] = w /\ s # <<>>
    BY <2>1, Few DEF Texts
  <2>3. \A i \in 1..Len(s) : s[i][1] \notin {" ", ",", "=", "'", "$"}
    <3> SUFFICES ASSUME NEW i \in 1..2 PROVE s[i][1] \notin {" ", ",", "=", "'", "$"}
      BY <2>2
    <3>1. i = 1 \/ i = 2
      OBVIOUS
    <3>2. s[i][1] = "." \/ s[i][1] = u
      BY <1>4, <1>9, <2>2, <3>1
    <3> QED BY ONLY <3>2, <1>5
  <2>4. Apart(s) /\ s[1] # Dollar /\ Quoted(s) = s /\ Strip(s, Space) = s
    BY <2>2, <2>3, ApartIs
  <2>5. TemperatureOf(s, units) = Succeeded(Temperature(r, u))
    <3>1. /\ Len(s) >= 2 /\ s[1][1] = "." /\ s[1][2] = r /\ s[Len(s)] = w
          /\ \A i \in 2..(Len(s) - 1) : s[i] = Space
      BY <1>9, <2>2
    <3>2. w \in {C(x) : x \in units}
      BY <1>3, <1>4
    <3>3. s[1][1] # "#" /\ s[1][1] \in {"#", "."} /\ s[Len(s)] \in {C(x) : x \in units} /\ s[Len(s)][1] = u
      BY <1>4, <3>1, <3>2
    <3> QED BY ONLY <3>1, <3>3 DEF TemperatureOf
  <2>6. ParseArg(type, s) = Succeeded(Temperature(r, u))
    BY <1>13, <2>4, <2>5
  <2>7. SameArg(v, Temperature(r, u))
    BY <1>1, <1>3, <1>15 DEF SameArg, Temperature
  <2>8. ~Negative(v)
    BY <1>12, <1>15
  <2>9. ParseArg(type, s).ok /\ ParseArg(type, s).value = Temperature(r, u)
    BY <2>6, SucceededIs
  <2>10. ArgText(v) = Quoted(s) /\ SameArg(v, ParseArg(type, s).value)
    BY <1>7, <2>4, <2>7, <2>9
  <2> QED BY <2>4, <2>8, <2>9, <2>10 DEF Kept
<1> QED BY <1>8, <1>14, <1>15

(* What is in a field is kept by its text. *)
LEMMA ArgIs ==
    ASSUME StoreTyped, NEW type \in Types, NEW v, IsOfType(v, type), Holds(v), v # LinkTo(0)
    PROVE  \E s : Kept(v, type, s)
<1>1. CASE v.is = "var" /\ v.name \in Texts /\ v = Variable(v.name)
  BY <1>1, ArgVar
<1>2. CASE type = "link" /\ v.is = "link" /\ v.nid \in Nat /\ v = LinkTo(v.nid)
  BY <1>2, ArgLink
<1>3. CASE /\ type \in {"temperature", "delta"} /\ v.is = "temperature"
           /\ v.amount \in Int /\ v.unit \in (IF type = "delta" THEN Delta ELSE Absolute)
           /\ v = Temperature(v.amount, v.unit)
  BY <1>3, ArgTemperature
<1>4. CASE type = "duration" /\ v.is = "duration" /\ v.seconds \in Nat /\ v = Duration(v.seconds)
  BY <1>4, ArgDuration
<1>5. CASE type = "plain" /\ v.is = "number" /\ v.amount \in Int /\ v = PlainNumber(v.amount)
  BY <1>5, ArgNumber
<1>6. CASE type = "plain" /\ v.is = "word" /\ v.text \in {Word(w) : w \in Enumerations} /\ v = PlainWord(v.text)
  <2>1. PICK w \in Enumerations : v.text = Word(w)
    BY <1>6
  <2> QED BY <1>6, <2>1, ArgWord
<1> QED BY <1>1, <1>2, <1>3, <1>4, <1>5, <1>6 DEF IsOfType

-----------------------------------------------------------------------------
(* The text of an instruction, argument by argument *)
Separator(n) == IF n = 1 THEN <<Space>> ELSE <<Comma, Space>>
Entry(i, n) == Word(Opcodes[i.op][n][1]) \o <<Equals>> \o ArgText(i.args[Opcodes[i.op][n][1]])
Built(f, i, n) ==
    /\ f = [m \in 0..n |-> f[m]]
    /\ f[0] = Word(i.op)
    /\ \A m \in 1..n : f[m] = f[m - 1] \o Separator(m) \o Entry(i, m)
TextBy(g, i) ==
    g = [n \in 0..Len(Opcodes[i.op]) |->
            IF n = 0 THEN Word(i.op)
            ELSE g[n - 1] \o (IF n = 1 THEN <<Space>> ELSE <<Comma, Space>>)
                 \o (Word(Opcodes[i.op][n][1]) \o <<Equals>> \o ArgText(i.args[Opcodes[i.op][n][1]]))]

LEMMA BuiltExists ==
    ASSUME NEW i, NEW N \in Nat
    PROVE  \E f : Built(f, i, N)
<1> DEFINE T == {n \in Nat : \E f : Built(f, i, n)}
<1>1. 0 \in T
  <2> DEFINE f == [m \in 0..0 |-> Word(i.op)]
  <2>1. 0 \in 0..0 /\ \A m \in 1..0 : FALSE
    OBVIOUS
  <2>2. f = [m \in 0..0 |-> f[m]] /\ f[0] = Word(i.op)
    BY <2>1
  <2>3. Built(f, i, 0)
    BY <2>1, <2>2 DEF Built
  <2> QED BY <2>3
<1>2. ASSUME NEW n \in Nat, n \in T PROVE n + 1 \in T
  <2>1. PICK f : Built(f, i, n)
    BY <1>2
  <2>2. PICK x : x = f[n] \o Separator(n + 1) \o Entry(i, n + 1)
    OBVIOUS
  <2> DEFINE g == [m \in 0..(n + 1) |-> IF m = n + 1 THEN x ELSE f[m]]
  <2>3. n + 1 \in 0..(n + 1) /\ 0 \in 0..(n + 1) /\ 0 # n + 1
    OBVIOUS
  <2>4. \A m \in 0..n : m \in 0..(n + 1) /\ m # n + 1
    OBVIOUS
  <2>5. g = [m \in 0..(n + 1) |-> g[m]] /\ g[n + 1] = x /\ \A m \in 0..n : g[m] = f[m]
    BY <2>3, <2>4
  <2> HIDE DEF g
  <2>6. g[0] = Word(i.op)
    <3>1. 0 \in 0..n
      OBVIOUS
    <3> QED BY <2>1, <2>5, <3>1 DEF Built
  <2>7. ASSUME NEW m \in 1..(n + 1) PROVE g[m] = g[m - 1] \o Separator(m) \o Entry(i, m)
    <3>1. CASE m = n + 1
      <4>1. m - 1 = n /\ n \in 0..n
        BY <3>1
      <4>2. g[m - 1] = f[n]
        BY <2>5, <4>1
      <4> QED BY ONLY <2>2, <2>5, <3>1, <4>2
    <3>2. CASE m # n + 1
      <4>1. m \in 1..n /\ m \in 0..n /\ m - 1 \in 0..n
        BY <3>2
      <4>2. f[m] = f[m - 1] \o Separator(m) \o Entry(i, m)
        BY <2>1, <4>1 DEF Built
      <4>3. g[m] = f[m] /\ g[m - 1] = f[m - 1]
        BY <2>5, <4>1
      <4> QED BY ONLY <4>2, <4>3
    <3> QED BY <3>1, <3>2
  <2>8. Built(g, i, n + 1)
    BY <2>5, <2>6, <2>7 DEF Built
  <2> QED BY <2>8
<1> HIDE DEF T
<1>3. N \in T
  BY <1>1, <1>2, Induction
<1> QED BY <1>3 DEF T

LEMMA ToLineIs ==
    ASSUME NEW i, NEW N \in Nat, N = Len(Opcodes[i.op]), NEW f, Built(f, i, N),
           ~(\E key \in DOMAIN i.args : i.args[key] = LinkTo(0))
    PROVE  ToLine(i) = Succeeded(f[N])
<1>1. TextBy(f, i)
  <2>1. \A n \in 0..N : f[n] = IF n = 0 THEN Word(i.op)
            ELSE f[n - 1] \o (IF n = 1 THEN <<Space>> ELSE <<Comma, Space>>)
                 \o (Word(Opcodes[i.op][n][1]) \o <<Equals>> \o ArgText(i.args[Opcodes[i.op][n][1]]))
    <3> SUFFICES ASSUME NEW n \in 0..N
                 PROVE  f[n] = IF n = 0 THEN Word(i.op)
                               ELSE f[n - 1] \o (IF n = 1 THEN <<Space>> ELSE <<Comma, Space>>)
                                    \o (Word(Opcodes[i.op][n][1]) \o <<Equals>> \o ArgText(i.args[Opcodes[i.op][n][1]]))
      OBVIOUS
    <3>1. CASE n = 0
      BY <3>1 DEF Built
    <3>2. CASE n # 0
      <4>1. n \in 1..N
        BY <3>2
      <4>2. f[n] = f[n - 1] \o Separator(n) \o Entry(i, n)
        BY <4>1 DEF Built
      <4> QED BY ONLY <3>2, <4>2 DEF Separator, Entry
    <3> QED BY <3>1, <3>2
  <2>2. f = [m \in 0..N |-> f[m]]
    BY DEF Built
  <2> QED BY ONLY <2>1, <2>2, N = Len(Opcodes[i.op]) DEF TextBy
<1>2. ASSUME NEW g, TextBy(g, i) PROVE g[N] = f[N]
  <2>1. \A n \in 0..N : g[n] = IF n = 0 THEN Word(i.op)
            ELSE g[n - 1] \o (IF n = 1 THEN <<Space>> ELSE <<Comma, Space>>)
                 \o (Word(Opcodes[i.op][n][1]) \o <<Equals>> \o ArgText(i.args[Opcodes[i.op][n][1]]))
    BY ONLY <1>2, N = Len(Opcodes[i.op]) DEF TextBy
  <2>2. \A n \in 0..N : g[n] = IF n = 0 THEN Word(i.op) ELSE g[n - 1] \o Separator(n) \o Entry(i, n)
    BY ONLY <2>1 DEF Separator, Entry
  <2> DEFINE T == {m \in Nat : m <= N => g[m] = f[m]}
  <2>3. 0 \in T
    <3>1. 0 \in 0..N
      OBVIOUS
    <3> QED BY <2>2, <3>1 DEF Built
  <2>4. ASSUME NEW m \in Nat, m \in T PROVE m + 1 \in T
    <3> SUFFICES ASSUME m + 1 <= N PROVE g[m + 1] = f[m + 1]
      OBVIOUS
    <3>1. m + 1 \in 0..N /\ m + 1 \in 1..N /\ m + 1 # 0 /\ (m + 1) - 1 = m /\ m <= N
      OBVIOUS
    <3>2. g[m] = f[m]
      BY <2>4, <3>1
    <3>3. g[m + 1] = g[(m + 1) - 1] \o Separator(m + 1) \o Entry(i, m + 1)
      BY <2>2, <3>1
    <3>4. f[m + 1] = f[(m + 1) - 1] \o Separator(m + 1) \o Entry(i, m + 1)
      BY <3>1 DEF Built
    <3> QED BY ONLY <3>1, <3>2, <3>3, <3>4
  <2> HIDE DEF T
  <2>5. N \in T
    BY <2>3, <2>4, Induction
  <2> QED BY <2>5 DEF T
<1>3. PICK text : text = CHOOSE g : TextBy(g, i)
  OBVIOUS
<1>4. TextBy(text, i)
  BY <1>1, <1>3
<1>5. ToLine(i) = Succeeded(text[Len(Opcodes[i.op])])
  BY <1>3 DEF ToLine, TextBy
<1> QED BY <1>2, <1>4, <1>5

(* What texts hold is a text, with or without quotes. *)
LEMMA QuotedText ==
    ASSUME NEW s \in Texts
    PROVE  Quoted(s) \in Texts
<1>1. PICK q \in Vocabulary \X Nat : q = Quote
  BY MarksAre
<1>2. s \in Seq(Vocabulary \X Nat) /\ <<q>> \in Seq(Vocabulary \X Nat)
  BY Few DEF Texts
<1>3. <<q>> \o s \in Seq(Vocabulary \X Nat)
  BY ONLY <1>2, ConcatProperties
<1>4. (<<q>> \o s) \o <<q>> \in Seq(Vocabulary \X Nat)
  BY ONLY <1>2, <1>3, ConcatProperties
<1> QED BY <1>1, <1>4 DEF Quoted, Texts

LEMMA ArgTyped ==
    ASSUME StoreTyped, NEW type \in Types, NEW v, IsOfType(v, type), v # LinkTo(0)
    PROVE  ArgText(v) \in Texts
<1>1. CASE v.is = "var" /\ v.name \in Texts /\ v = Variable(v.name)
  <2>1. PICK d \in Vocabulary \X Nat : d = Dollar
    BY MarksAre
  <2>2. v.name \in Seq(Vocabulary \X Nat) /\ <<d>> \in Seq(Vocabulary \X Nat)
    BY <1>1, Few DEF Texts
  <2>3. <<d>> \o v.name \in Seq(Vocabulary \X Nat)
    BY ONLY <2>2, ConcatProperties
  <2>4. <<Dollar>> \o v.name \in Texts
    BY <2>1, <2>3 DEF Texts
  <2>5. ArgText(v) = Quoted(<<Dollar>> \o v.name)
    BY <1>1 DEF ArgText
  <2> QED BY <2>4, <2>5, QuotedText
<1>2. CASE type = "link" /\ v.is = "link" /\ v.nid \in Nat /\ v = LinkTo(v.nid)
  <2>1. PICK nid \in Nat : nid = v.nid /\ nid # 0
    BY <1>2
  <2>2. FindSid(nid) \in Texts
    <3>1. CASE nid \in DOMAIN store
      <4>1. FindSid(nid) = store[nid]
        BY <2>1, <3>1 DEF FindSid
      <4> QED BY <3>1, <4>1 DEF StoreTyped
    <3>2. CASE nid \notin DOMAIN store
      <4>1. PICK t \in Vocabulary \X Nat : t = Integer(nid)
        BY TokensAre
      <4>2. FindSid(nid) = <<t>>
        BY <2>1, <3>2, <4>1 DEF FindSid
      <4> QED BY <4>2, Few DEF Texts
    <3> QED BY <3>1, <3>2
  <2>3. ArgText(v) = Quoted(FindSid(nid))
    BY <1>2, <2>1 DEF ArgText
  <2> QED BY <2>2, <2>3, QuotedText
<1>3. CASE ~(v.is = "var") /\ ~(v.is = "link")
  <2>1. Holds(v)
    BY <1>3 DEF Holds
  <2>2. PICK s : Kept(v, type, s)
    BY <2>1, ArgIs
  <2> QED BY <2>2, Quoting DEF Kept
<1> QED BY <1>1, <1>2, <1>3 DEF IsOfType

LEMMA ContainsAround ==
    ASSUME NEW V, NEW s \in Seq(V), NEW c \in V, NEW t \in Seq(V), NEW d, ~Contains(s, d), ~Contains(t, d), c # d
    PROVE  ~Contains(s \o <<c>> \o t, d)
<1>0. PICK u : u = s \o <<c>> \o t
  OBVIOUS
<1>1. PICK m \in Nat : m = Len(s) /\ DOMAIN s = 1..m
  OBVIOUS
<1>2. PICK n \in Nat : n = Len(t) /\ DOMAIN t = 1..n
  OBVIOUS
<1>3. /\ u \in Seq(V) /\ Len(u) = m + 1 + n
      /\ \A i \in 1..m : u[i] = s[i]
      /\ u[m + 1] = c
      /\ \A i \in 1..n : u[m + 1 + i] = t[i]
  BY <1>0, <1>1, <1>2, Around
<1>4. ASSUME NEW i \in 1..(m + 1 + n) PROVE u[i] # d
  <2>1. CASE i \in 1..m
    BY <1>1, <1>3, <2>1 DEF Contains
  <2>2. CASE i = m + 1
    BY <1>3, <2>2
  <2>3. CASE i \notin 1..m /\ i # m + 1
    <3>1. PICK j \in 1..n : i = m + 1 + j
      <4>1. i - (m + 1) \in 1..n /\ i = m + 1 + (i - (m + 1))
        BY <2>3
      <4> QED BY <4>1
    <3>2. t[j] # d
      BY <1>2 DEF Contains
    <3> QED BY <1>3, <3>1, <3>2
  <2> QED BY <2>1, <2>2, <2>3
<1> QED BY <1>0, <1>3, <1>4 DEF Contains

(* One argument in a line: key is its name, s its text without the quotes. *)
LEMMA EntryIs ==
    ASSUME NEW key \in Keywords, NEW s, Apart(s), NEW e, e = Word(key) \o <<Equals>> \o Quoted(s)
    PROVE  /\ e \in Texts /\ e # <<>> /\ ~Contains(e, Comma)
           /\ Contains(e, Equals) /\ Before(e, Equals) = Word(key) /\ After(e, Equals) = Quoted(s)
<1> DEFINE V == Vocabulary \X Nat
<1>1. PICK w : w = Word(key)
  OBVIOUS
<1>2. PICK q : q = Quoted(s)
  OBVIOUS
<1>3. w \in Seq(V) /\ Len(w) = 1 /\ w[1][1] = key /\ key \notin {" ", ",", "=", "'", "$", "-", "#", "."}
  BY <1>1, KeywordsAre DEF Texts
<1>4. key # "," /\ key # "="
  BY ONLY <1>3
<1>5. ~Contains(w, Comma) /\ ~Contains(w, Equals)
  <2>1. \A i \in 1..1 : w[i][1] # "," /\ w[i][1] # "="
    <3>1. \A i \in 1..1 : i = 1
      OBVIOUS
    <3> QED BY <1>3, <1>4, <3>1
  <2>2. w[1] # Comma /\ w[1] # Equals
    BY <1>3, <1>4, MarksAre
  <2>3. \A i \in 1..Len(w) : i = 1
    <3>1. Len(w) = 1
      BY <1>3
    <3> QED BY ONLY <3>1
  <2>4. DOMAIN w = 1..Len(w)
    <3>1. w \in Seq(V)
      BY <1>3
    <3> QED BY ONLY <3>1
  <2> QED BY <2>2, <2>3, <2>4 DEF Contains
<1>6. q \in Seq(V) /\ ~Contains(q, Comma)
  BY <1>2, Quoting DEF Texts
<1>7. PICK c \in V : c = Equals /\ c # Comma
  BY MarksAre
<1>8. e = w \o <<c>> \o q
  BY <1>1, <1>2, <1>7
<1> HIDE DEF V
<1>a. w \in Seq(V)
  BY <1>3
<1>b. q \in Seq(V)
  BY <1>6
<1>9. e \in Seq(V)
  <2>1. <<c>> \in Seq(V)
    BY ONLY c \in V, Few
  <2>2. w \o <<c>> \in Seq(V)
    BY ONLY <1>a, <2>1, ConcatProperties
  <2>3. (w \o <<c>>) \o q \in Seq(V)
    BY ONLY <1>b, <2>2, ConcatProperties
  <2> QED BY <1>8, <2>3
<1>10. ~Contains(e, Comma)
  <2>1. PICK d : d = Comma
    OBVIOUS
  <2>2. ~Contains(w, d) /\ ~Contains(q, d) /\ c # d
    BY <1>5, <1>6, <1>7, <2>1
  <2>3. ~Contains(w \o <<c>> \o q, d)
    BY ONLY <1>a, <1>b, <2>2, c \in V, ContainsAround
  <2> QED BY <1>8, <2>1, <2>3
<1>11. Contains(e, c) /\ Before(e, c) = w /\ After(e, c) = q
  BY ONLY <1>3, <1>5, <1>6, <1>7, <1>8, c \in V, BeforeAfter
<1>12. e # <<>>
  BY <1>11 DEF Contains
<1> QED BY <1>1, <1>2, <1>7, <1>9, <1>10, <1>11, <1>12 DEF Texts, V

(* A piece of a line, between commas, that is read as key and text *)
Holding(p, key, s) ==
    /\ p \in Texts /\ p # <<>> /\ ~Contains(p, Comma)
    /\ Strip(Before(p, Equals), Space) = Word(key)
    /\ Strip(Strip(After(p, Equals), Space), Quote) = s

LEMMA FirstPiece ==
    ASSUME NEW key \in Keywords, NEW s, Apart(s), NEW e, e = Word(key) \o <<Equals>> \o Quoted(s)
    PROVE  Holding(e, key, s)
<1>1. PICK w \in Seq(Vocabulary \X Nat) : w = Word(key)
  BY KeywordsAre DEF Texts
<1>2. Len(w) = 1 /\ w[1] = C(key) /\ C(key) # Space /\ w # <<>>
  <2>1. key \notin {" ", ",", "=", "'", "$", "-", "#", "."} /\ C(key)[1] = key
    BY KeywordsAre
  <2>2. key # " "
    BY ONLY <2>1
  <2>3. C(key) # Space
    BY <2>1, <2>2, MarksAre
  <2> QED BY <1>1, <2>3, KeywordsAre
<1>3. w[1] # Space /\ w[Len(w)] # Space
  BY <1>2
<1>4. Strip(w, Space) = w
  BY <1>2, <1>3, StripNothing
<1>5. e \in Texts /\ e # <<>> /\ ~Contains(e, Comma) /\ Before(e, Equals) = Word(key) /\ After(e, Equals) = Quoted(s)
  BY EntryIs
<1>6. Strip(Before(e, Equals), Space) = Word(key)
  BY ONLY <1>1, <1>4, <1>5
<1>7. Strip(Strip(After(e, Equals), Space), Quote) = s
  BY <1>5, Quoting
<1> QED BY <1>5, <1>6, <1>7 DEF Holding

LEMMA LaterPiece ==
    ASSUME NEW key \in Keywords, NEW s, Apart(s), NEW e, e = Word(key) \o <<Equals>> \o Quoted(s),
           NEW p, p = <<Space>> \o e
    PROVE  Holding(p, key, s)
<1> DEFINE V == Vocabulary \X Nat
<1>1. PICK k \in V : k = C(key) /\ k[1] = key
  BY KeywordsAre
<1>2. PICK b \in V : b = Space /\ b[1] = " "
  BY MarksAre
<1>3. PICK c \in V : c = Equals /\ c[1] = "="
  BY MarksAre
<1>4. PICK q \in Seq(V) : q = Quoted(s)
  BY Quoting DEF Texts
<1>5. key # " " /\ key # "=" /\ key # ","
  <2>1. key \notin {" ", ",", "=", "'", "$", "-", "#", "."}
    BY KeywordsAre
  <2> QED BY ONLY <2>1
<1>6. k # b /\ k # c /\ b # c
  BY <1>1, <1>2, <1>3, <1>5
<1> HIDE DEF V
<1>7. <<b>> \in Seq(V) /\ <<k>> \in Seq(V) /\ <<c>> \in Seq(V)
  BY Few
<1>8. e \in Seq(V) /\ ~Contains(e, Comma)
  BY EntryIs DEF Texts, V
<1>9. e = (<<k>> \o <<c>>) \o q
  BY <1>1, <1>3, <1>4 DEF Word
<1>10. PICK x : x = <<b>> \o <<k>>
  OBVIOUS
<1>11. x \in Seq(V) /\ Len(x) = 2 /\ x[1] = b /\ x[2] = k /\ x # <<>>
  <2>1. x = <<b, k>>
    BY <1>10, Joined
  <2> QED BY <2>1, Few
<1>12. p = x \o <<c>> \o q
  <2>1. <<k>> \o <<c>> \in Seq(V)
    BY ONLY <1>7, ConcatProperties
  <2>2. p = <<b>> \o ((<<k>> \o <<c>>) \o q)
    BY <1>2, <1>9
  <2>3. <<b>> \o ((<<k>> \o <<c>>) \o q) = (<<b>> \o (<<k>> \o <<c>>)) \o q
    BY ONLY <1>7, <2>1, q \in Seq(V), ConcatAssociative
  <2>4. <<b>> \o (<<k>> \o <<c>>) = (<<b>> \o <<k>>) \o <<c>>
    BY ONLY <1>7, ConcatAssociative
  <2> QED BY ONLY <1>10, <2>2, <2>3, <2>4
<1>13. ~Contains(x, c)
  <2>1. \A i \in 1..2 : i = 1 \/ i = 2
    OBVIOUS
  <2>2. DOMAIN x = 1..2
    BY <1>11
  <2> QED BY <1>6, <1>11, <2>1, <2>2 DEF Contains
<1>14. x \in Seq(V)
  BY <1>11
<1>15. Before(p, c) = x /\ After(p, c) = q
  BY ONLY <1>12, <1>13, <1>14, q \in Seq(V), c \in V, BeforeAfter
<1>16. Strip(x, b) = <<k>>
  <2>1. 2 \in 1..Len(x) /\ x[2] # b
    BY <1>6, <1>11
  <2>2. \A i \in 1..Len(x) : x[i] # b => 2 <= i /\ i <= 2
    <3> SUFFICES ASSUME NEW i \in 1..2, x[i] # b PROVE 2 <= i /\ i <= 2
      BY <1>11
    <3>1. i = 1 \/ i = 2
      OBVIOUS
    <3>2. i # 1
      BY <1>11
    <3> QED BY ONLY <3>1, <3>2
  <2>3. Strip(x, b) = SubSeq(x, 2, 2)
    BY <1>14, <2>1, <2>2, StripIs
  <2>4. PICK y : y = SubSeq(x, 2, 2)
    OBVIOUS
  <2>5. y \in Seq(V) /\ Len(y) = 1 /\ y[1] = k
    <3>1. 2 \in Nat /\ 2 >= 1 /\ 2 <= Len(x)
      BY <1>11
    <3>2. /\ y \in Seq(V) /\ Len(y) = IF 2 <= 2 THEN 2 - 2 + 1 ELSE 0
          /\ \A i \in 1..(2 - 2 + 1) : y[i] = x[2 + i - 1]
      BY <1>14, <2>4, <3>1, Piece
    <3>3. 1 \in 1..(2 - 2 + 1) /\ 2 + 1 - 1 = 2
      OBVIOUS
    <3> QED BY <1>11, <3>2, <3>3
  <2>6. PICK z \in Seq(V) : z = <<k>> /\ Len(z) = 1 /\ z[1] = k
    BY ONLY k \in V, Few
  <2>7. y = z
    <3>1. \A i \in 1..1 : i = 1
      OBVIOUS
    <3>2. \A i \in 1..1 : y[i] = z[i]
      BY ONLY <2>5, <2>6, <3>1
    <3> QED BY ONLY <2>5, <2>6, <3>2, z \in Seq(V), SeqEqual
  <2> QED BY <2>3, <2>4, <2>6, <2>7
<1>17. p \in Seq(V) /\ Contains(p, c)
  <2>1. x \o <<c>> \in Seq(V)
    BY ONLY <1>7, <1>14, ConcatProperties
  <2>2. (x \o <<c>>) \o q \in Seq(V)
    BY ONLY <2>1, q \in Seq(V), ConcatProperties
  <2>3. Contains(p, c)
    BY ONLY <1>12, <1>13, <1>14, q \in Seq(V), c \in V, BeforeAfter
  <2> QED BY <1>12, <2>2, <2>3
<1>18. ~Contains(p, Comma)
  <2>1. PICK d : d = Comma
    OBVIOUS
  <2>2. c # d /\ b # d /\ k # d
    BY <1>1, <1>2, <1>3, <1>5, <2>1, MarksAre
  <2>3. ~Contains(q, d)
    BY <1>4, <2>1, Quoting
  <2>4. ~Contains(x, d)
    <3>1. \A i \in 1..2 : i = 1 \/ i = 2
      OBVIOUS
    <3>2. DOMAIN x = 1..2
      BY <1>11
    <3> QED BY <1>11, <2>2, <3>1, <3>2 DEF Contains
  <2>5. ~Contains(x \o <<c>> \o q, d)
    BY ONLY <1>14, q \in Seq(V), c \in V, <2>2, <2>3, <2>4, ContainsAround
  <2> QED BY <1>12, <2>1, <2>5
<1>19. p # <<>>
  BY <1>17 DEF Contains
<1>20. Strip(Before(p, Equals), Space) = Word(key)
  BY <1>1, <1>2, <1>3, <1>15, <1>16 DEF Word
<1>21. Strip(Strip(After(p, Equals), Space), Quote) = s
  BY <1>3, <1>4, <1>15, Quoting
<1> QED BY <1>17, <1>18, <1>19, <1>20, <1>21 DEF Holding, Texts, V

LEMMA Associates ==
    ASSUME NEW V, NEW r, NEW x, NEW y, r \in Seq(V), x \in Seq(V), y \in Seq(V)
    PROVE  (r \o x) \o y = r \o (x \o y)
BY ConcatAssociative

Parts(V, a, r, e, c, b) == a \in Seq(V) /\ r \in Seq(V) /\ e \in Seq(V) /\ c \in V /\ b \in V

Regrouped(a, r, e, c, b) == ((a \o r) \o <<c, b>>) \o e = a \o ((r \o <<c>>) \o (<<b>> \o e))

LEMMA Longer ==
    ASSUME NEW V, NEW a, NEW r, NEW e, NEW c, NEW b, Parts(V, a, r, e, c, b)
    PROVE  Regrouped(a, r, e, c, b)
<1>a. a \in Seq(V)
  BY DEF Parts
<1>r. r \in Seq(V)
  BY DEF Parts
<1>e. e \in Seq(V)
  BY DEF Parts
<1>c. c \in V
  BY DEF Parts
<1>b. b \in V
  BY DEF Parts
<1>0. PICK x : x = <<c>>
  OBVIOUS
<1>x. x \in Seq(V)
  BY ONLY <1>c, <1>0, Few
<1>00. PICK y : y = <<b>>
  OBVIOUS
<1>y. y \in Seq(V)
  BY ONLY <1>b, <1>00, Few
<1>1. PICK ar : ar = a \o r
  OBVIOUS
<1>2. ar \in Seq(V)
  BY ONLY <1>1, <1>a, <1>r, ConcatProperties
<1>3. PICK xy : xy = x \o y
  OBVIOUS
<1>4. xy \in Seq(V)
  BY ONLY <1>3, <1>x, <1>y, ConcatProperties
<1>5. PICK ye : ye = y \o e
  OBVIOUS
<1>6. ye \in Seq(V)
  BY ONLY <1>5, <1>y, <1>e, ConcatProperties
<1>7. PICK xye : xye = x \o ye
  OBVIOUS
<1>8. xye \in Seq(V)
  BY ONLY <1>6, <1>7, <1>x, ConcatProperties
<1>9. (ar \o xy) \o e = ar \o (xy \o e)
  BY ONLY <1>2, <1>4, <1>e, Associates
<1>10. xy \o e = xye
  BY ONLY <1>3, <1>5, <1>7, <1>x, <1>y, <1>e, Associates
<1>11. ar \o xye = a \o (r \o xye)
  BY ONLY <1>1, <1>8, <1>a, <1>r, Associates
<1>12. (r \o x) \o ye = r \o (x \o ye)
  BY ONLY <1>6, <1>r, <1>x, Associates
<1>13. xy = <<c, b>>
  BY ONLY <1>0, <1>00, <1>3, Joined
<1>14. (ar \o xy) \o e = a \o ((r \o x) \o ye)
  BY ONLY <1>7, <1>9, <1>10, <1>11, <1>12
<1> QED BY ONLY <1>0, <1>00, <1>1, <1>5, <1>13, <1>14 DEF Regrouped

(* The pieces of a line r are those of its first n arguments. *)
Listed(r, i, s, n) ==
    /\ \A b \in DOMAIN Split(r, Comma) :
        \E m \in 1..n : Holding(Split(r, Comma)[b], Opcodes[i.op][m][1], s[m])
    /\ \A m \in 1..n :
        \E b \in DOMAIN Split(r, Comma) : Holding(Split(r, Comma)[b], Opcodes[i.op][m][1], s[m])

LEMMA ListedFirst ==
    ASSUME NEW i, NEW s, NEW p, Holding(p, Opcodes[i.op][1][1], s[1])
    PROVE  Listed(p, i, s, 1)
<1>1. p \in Seq(Vocabulary \X Nat) /\ ~Contains(p, Comma)
  BY DEF Holding, Texts
<1>2. DOMAIN Split(p, Comma) = {1} /\ Split(p, Comma)[1] = p
  BY <1>1, SplitNone
<1>3. 1 \in 1..1 /\ \A m \in 1..1 : m = 1
  OBVIOUS
<1> QED BY <1>2, <1>3 DEF Listed

LEMMA ListedMore ==
    ASSUME NEW i, NEW s, NEW n \in Nat, NEW r \in Seq(Vocabulary \X Nat), Listed(r, i, s, n),
           NEW p, Holding(p, Opcodes[i.op][n + 1][1], s[n + 1]), NEW u, u = r \o <<Comma>> \o p
    PROVE  Listed(u, i, s, n + 1)
<1>1. p \in Seq(Vocabulary \X Nat) /\ ~Contains(p, Comma)
  BY DEF Holding, Texts
<1>2. Comma \in Vocabulary \X Nat
  BY MarksAre
<1>3. PICK l : l = Len(r) + 2
  OBVIOUS
<1>4. /\ \A b : b \in DOMAIN Split(u, Comma) <=> b \in DOMAIN Split(r, Comma) \/ b = l
      /\ \A b \in DOMAIN Split(r, Comma) : Split(u, Comma)[b] = Split(r, Comma)[b]
      /\ Split(u, Comma)[l] = p
  <2>1. PICK c \in Vocabulary \X Nat : c = Comma
    BY <1>2
  <2>2. u = r \o <<c>> \o p /\ ~Contains(p, c)
    BY <1>1, <2>1
  <2>3. p \in Seq(Vocabulary \X Nat)
    BY <1>1
  <2>0. PICK V : V = Vocabulary \X Nat
    OBVIOUS
  <2>4. /\ \A b : b \in DOMAIN Split(u, c) <=> b \in DOMAIN Split(r, c) \/ b = Len(r) + 2
        /\ \A b \in DOMAIN Split(r, c) : Split(u, c)[b] = Split(r, c)[b]
        /\ Split(u, c)[Len(r) + 2] = p
    <3>1. r \in Seq(V)
      BY <2>0
    <3>2. p \in Seq(V)
      BY <2>0, <2>3
    <3>3. c \in V
      BY <2>0
    <3>4. Appended(V, r, c, p, u)
      BY <2>2, <3>1, <3>2, <3>3 DEF Appended
    <3>5. ~Contains(p, c)
      BY <2>2
    <3> QED BY ONLY <3>4, <3>5, SplitMore
  <2> QED BY ONLY <1>3, <2>1, <2>4
<1>5. n + 1 \in 1..(n + 1) /\ \A m \in 1..(n + 1) : m = n + 1 \/ m \in 1..n
  OBVIOUS
<1>6. \A m \in 1..n : m \in 1..(n + 1)
  OBVIOUS
<1>7. ASSUME NEW b \in DOMAIN Split(u, Comma)
      PROVE  \E m \in 1..(n + 1) : Holding(Split(u, Comma)[b], Opcodes[i.op][m][1], s[m])
  <2>1. CASE b = l
    BY <1>4, <1>5, <2>1
  <2>2. CASE b \in DOMAIN Split(r, Comma)
    <3>1. PICK m \in 1..n : Holding(Split(r, Comma)[b], Opcodes[i.op][m][1], s[m])
      BY <2>2 DEF Listed
    <3>2. Split(u, Comma)[b] = Split(r, Comma)[b]
      BY <1>4, <2>2
    <3> QED BY <1>6, <3>1, <3>2
  <2> QED BY <1>4, <2>1, <2>2
<1>8. ASSUME NEW m \in 1..(n + 1)
      PROVE  \E b \in DOMAIN Split(u, Comma) : Holding(Split(u, Comma)[b], Opcodes[i.op][m][1], s[m])
  <2>1. CASE m = n + 1
    BY <1>4, <2>1
  <2>2. CASE m \in 1..n
    <3>1. PICK b \in DOMAIN Split(r, Comma) : Holding(Split(r, Comma)[b], Opcodes[i.op][m][1], s[m])
      BY <2>2 DEF Listed
    <3>2. Split(u, Comma)[b] = Split(r, Comma)[b] /\ b \in DOMAIN Split(u, Comma)
      BY <1>4
    <3> QED BY <3>1, <3>2
  <2> QED BY <1>5, <2>1, <2>2
<1> QED BY <1>7, <1>8 DEF Listed

(* What an instruction has for its arguments: s has their texts. *)
Described(i, s, N) ==
    /\ N = Len(Opcodes[i.op]) /\ N \in Nat /\ i.op \in Keywords
    /\ \A m \in 1..N :
        /\ Opcodes[i.op][m][1] \in Keywords
        /\ Apart(s[m])
        /\ ArgText(i.args[Opcodes[i.op][m][1]]) = Quoted(s[m])

LEMMA LineListed ==
    ASSUME NEW i, NEW s, NEW N, Described(i, s, N), NEW f, Built(f, i, N), N # 0
    PROVE  \E r \in Seq(Vocabulary \X Nat) : f[N] = Word(i.op) \o <<Space>> \o r /\ Listed(r, i, s, N)
<1> DEFINE V == Vocabulary \X Nat
<1>1. N \in Nat \ {0}
  BY DEF Described
<1>2. ASSUME NEW m \in 1..N
      PROVE  /\ Entry(i, m) \in Seq(V)
             /\ Holding(Entry(i, m), Opcodes[i.op][m][1], s[m])
             /\ Holding(<<Space>> \o Entry(i, m), Opcodes[i.op][m][1], s[m])
  <2>1. PICK key \in Keywords : key = Opcodes[i.op][m][1]
    BY DEF Described
  <2>2. PICK x : x = s[m]
    OBVIOUS
  <2>3. Apart(x) /\ Entry(i, m) = Word(key) \o <<Equals>> \o Quoted(x)
    BY <2>1, <2>2 DEF Described, Entry
  <2>4. PICK e : e = Entry(i, m)
    OBVIOUS
  <2>5. Holding(e, key, x)
    BY <2>3, <2>4, FirstPiece
  <2>6. Holding(<<Space>> \o e, key, x)
    BY <2>3, <2>4, LaterPiece
  <2>7. e \in Seq(V)
    BY <2>5 DEF Holding, Texts
  <2> QED BY <2>1, <2>2, <2>4, <2>5, <2>6, <2>7
<1>3. PICK b \in V : b = Space
  BY MarksAre
<1>4. PICK c \in V : c = Comma
  BY MarksAre
<1>5. PICK w \in Seq(V) : w = Word(i.op)
  BY KeywordsAre DEF Described, Texts
<1>6. \A m \in 1..N : f[m] = f[m - 1] \o Separator(m) \o Entry(i, m)
  BY DEF Built
<1>7. f[0] = w
  BY <1>5 DEF Built
<1> HIDE DEF V
<1>8. <<b>> \in Seq(V)
  BY ONLY b \in V, Few
<1> DEFINE T == {n \in Nat : n + 1 <= N => \E r \in Seq(V) : f[n + 1] = w \o <<b>> \o r /\ Listed(r, i, s, n + 1)}
<1>9. 0 \in T
  <2>1. 1 \in 1..N /\ 1 - 1 = 0 /\ 0 + 1 = 1
    BY <1>1
  <2>2. PICK e \in Seq(V) : e = Entry(i, 1)
    BY <1>2, <2>1
  <2>3. Holding(e, Opcodes[i.op][1][1], s[1])
    BY <1>2, <2>1, <2>2
  <2>4. f[1] = w \o <<b>> \o e
    <3>1. f[1] = f[1 - 1] \o Separator(1) \o Entry(i, 1)
      BY <1>6, <2>1
    <3>2. Separator(1) = <<b>>
      BY <1>3 DEF Separator
    <3> QED BY ONLY <1>7, <2>1, <2>2, <3>1, <3>2
  <2>5. Listed(e, i, s, 1)
    BY <2>3, ListedFirst
  <2> QED BY <2>1, <2>4, <2>5
<1>10. ASSUME NEW n \in Nat, n \in T PROVE n + 1 \in T
  <2> SUFFICES ASSUME (n + 1) + 1 <= N
               PROVE  \E r \in Seq(V) : f[(n + 1) + 1] = w \o <<b>> \o r /\ Listed(r, i, s, (n + 1) + 1)
    OBVIOUS
  <2>1. PICK k \in Nat : k = n + 1 /\ k # 0
    OBVIOUS
  <2>2. k + 1 \in 1..N /\ (k + 1) - 1 = k /\ k + 1 # 1 /\ n + 1 <= N
    BY <1>1, <2>1
  <2>3. PICK r \in Seq(V) : f[k] = w \o <<b>> \o r /\ Listed(r, i, s, k)
    BY <1>10, <2>1, <2>2
  <2>4. PICK e \in Seq(V) : e = Entry(i, k + 1)
    BY <1>2, <2>2
  <2>5. PICK p : p = <<b>> \o e
    OBVIOUS
  <2>6. Holding(p, Opcodes[i.op][k + 1][1], s[k + 1])
    BY <1>2, <1>3, <2>2, <2>4, <2>5
  <2>7. PICK u : u = r \o <<c>> \o p
    OBVIOUS
  <2>8. Listed(u, i, s, k + 1)
    BY <1>4, <2>3, <2>6, <2>7, ListedMore DEF V
  <2>9. f[k + 1] = w \o <<b>> \o u
    <3>1. f[k + 1] = f[(k + 1) - 1] \o Separator(k + 1) \o Entry(i, k + 1)
      BY <1>6, <2>2
    <3>2. Separator(k + 1) = <<c, b>>
      BY <1>3, <1>4, <2>2 DEF Separator
    <3>3. PICK a \in Seq(V) : a = w \o <<b>>
      BY ONLY w \in Seq(V), <1>8, ConcatProperties
    <3>4. ((a \o r) \o <<c, b>>) \o e = a \o ((r \o <<c>>) \o (<<b>> \o e))
      <4>1. Parts(V, a, r, e, c, b)
        BY DEF Parts
      <4>2. Regrouped(a, r, e, c, b)
        BY ONLY <4>1, Longer
      <4> QED BY ONLY <4>2 DEF Regrouped
    <3> QED BY ONLY <2>2, <2>3, <2>4, <2>5, <2>7, <3>1, <3>2, <3>3, <3>4
  <2>10. u \in Seq(V)
    <3>1. p \in Seq(V)
      BY ONLY <1>8, <2>5, e \in Seq(V), ConcatProperties
    <3>2. <<c>> \in Seq(V)
      BY ONLY c \in V, Few
    <3>3. r \o <<c>> \in Seq(V)
      BY ONLY r \in Seq(V), <3>2, ConcatProperties
    <3> QED BY ONLY <2>7, <3>1, <3>3, ConcatProperties
  <2> QED BY <2>1, <2>8, <2>9, <2>10
<1> HIDE DEF T
<1>11. N - 1 \in T
  <2>1. N - 1 \in Nat
    BY <1>1
  <2> QED BY <1>9, <1>10, <2>1, Induction
<1>12. (N - 1) + 1 = N /\ (N - 1) + 1 <= N
  BY <1>1
<1>13. \E r \in Seq(V) : f[(N - 1) + 1] = w \o <<b>> \o r /\ Listed(r, i, s, (N - 1) + 1)
  BY <1>11, <1>12 DEF T
<1>14. \E r \in Seq(V) : f[N] = w \o <<b>> \o r /\ Listed(r, i, s, N)
  BY ONLY <1>12, <1>13
<1> QED BY <1>3, <1>5, <1>14 DEF V

-----------------------------------------------------------------------------
(* What from_line() reads in a line x of the opcode o *)
EntriesOf(x) ==
    {b \in DOMAIN Split(After(x, Space), Comma) : Split(After(x, Space), Comma)[b] # <<>>}
KeyAt(x, b) == Strip(Before(Split(After(x, Space), Comma)[b], Equals), Space)
ValueAt(x, b) == Strip(Strip(After(Split(After(x, Space), Comma)[b], Equals), Space), Quote)
EntryAt(x, k) == {b \in EntriesOf(x) : KeyAt(x, b) = Word(k)}
Parsed(x, o, d) == ParseArg(Opcodes[o][d][2], ValueAt(x, Max(EntryAt(x, Opcodes[o][d][1]))))
Refused(x, o) ==
    \/ \E b \in EntriesOf(x) : \A d \in DOMAIN Opcodes[o] : KeyAt(x, b) # Word(Opcodes[o][d][1])
    \/ \E d \in DOMAIN Opcodes[o] : EntryAt(x, Opcodes[o][d][1]) = {} \/ ~Parsed(x, o, d).ok
ArgAt(x, o, k) == Parsed(x, o, CHOOSE d \in DOMAIN Opcodes[o] : Opcodes[o][d][1] = k).value

LEMMA FromLineIs ==
    ASSUME NEW x, NEW o \in DOMAIN Opcodes, Before(x, Space) = Word(o)
    PROVE  FromLine(x) = IF Refused(x, o) THEN Failed
                         ELSE Succeeded([op |-> o, args |-> [k \in Keys(o) |-> ArgAt(x, o, k)]])
<1>1. Word(o)[1][1] = o
  BY DEF Word, C
<1>2. PICK w : w = Word(o)
  OBVIOUS
<1>3. Before(x, Space) = w /\ w[1][1] = o /\ ~(\A p \in DOMAIN Opcodes : w # Word(p))
  BY <1>1, <1>2
<1> QED BY ONLY <1>3 DEF FromLine, Refused, ArgAt, Parsed, EntryAt, ValueAt, KeyAt, EntriesOf

LEMMA FromLineFails ==
    ASSUME NEW x, FromLine(x).ok
    PROVE  \E o \in DOMAIN Opcodes : Before(x, Space) = Word(o)
BY SucceededIs DEF FromLine

LEMMA EntriesAre ==
    ASSUME NEW x \in Texts
    PROVE  /\ EntriesOf(x) \subseteq Nat
           /\ \A b \in EntriesOf(x) : ValueAt(x, b) \in Texts
           /\ \A k : EntryAt(x, k) # {} => Max(EntryAt(x, k)) \in EntryAt(x, k)
<1> DEFINE V == Vocabulary \X Nat
<1>1. x \in Seq(V)
  BY DEF Texts
<1> HIDE DEF V
<1>2. PICK r \in Seq(V) : r = After(x, Space)
  BY <1>1, BeforeAfterText
<1>3. PICK n \in Nat : n = Len(r) + 1
  OBVIOUS
<1>4. DOMAIN Split(r, Comma) = Starts(r, Comma) /\ \A b \in Starts(r, Comma) : Split(r, Comma)[b] \in Seq(V)
  BY ONLY r \in Seq(V), SplitIs
<1>5. Starts(r, Comma) \subseteq 1..n
  BY <1>3, FoundIs
<1>6. EntriesOf(x) \subseteq 1..n /\ \A b \in EntriesOf(x) : Split(r, Comma)[b] \in Seq(V)
  BY <1>2, <1>4, <1>5 DEF EntriesOf
<1>7. ASSUME NEW b \in EntriesOf(x) PROVE ValueAt(x, b) \in Texts
  <2>1. PICK p \in Seq(V) : p = Split(r, Comma)[b]
    BY <1>6
  <2>2. PICK a \in Seq(V) : a = After(p, Equals)
    BY BeforeAfterText
  <2>3. PICK t \in Seq(V) : t = Strip(a, Space)
    BY StripText
  <2>4. Strip(t, Quote) \in Seq(V)
    BY StripText
  <2> QED BY <1>2, <2>1, <2>2, <2>3, <2>4 DEF ValueAt, Texts, V
<1>8. ASSUME NEW k, EntryAt(x, k) # {} PROVE Max(EntryAt(x, k)) \in EntryAt(x, k)
  <2>1. EntryAt(x, k) \subseteq 1..n
    BY <1>6 DEF EntryAt
  <2>2. PICK S : S = EntryAt(x, k)
    OBVIOUS
  <2>3. 1..n \subseteq 0..n
    OBVIOUS
  <2>4. S \subseteq 0..n /\ S # {}
    BY <1>8, <2>1, <2>2, <2>3
  <2>5. Max(S) \in S
    BY <2>4, MaxIs
  <2> QED BY <2>2, <2>5
<1>9. EntriesOf(x) \subseteq Nat
  BY <1>6
<1> QED BY <1>7, <1>8, <1>9

(* What is parsed is of the type of its field. *)
LEMMA TokenTyped ==
    ASSUME NEW s \in Texts, NEW i \in 1..Len(s)
    PROVE  s[i] \in Vocabulary \X Nat /\ s[i][2] \in Nat
<1>1. s \in Seq(Vocabulary \X Nat)
  BY DEF Texts
<1>2. s[i] \in Vocabulary \X Nat
  BY <1>1, ElementOfSeq
<1> QED BY <1>2

LEMMA TemperatureTyped ==
    ASSUME NEW s \in Texts, NEW units, TemperatureOf(s, units).ok
    PROVE  \E n \in Int, u \in units : TemperatureOf(s, units) = Succeeded(Temperature(n, u))
<1>1. /\ Len(s) >= 2
      /\ s[Len(s)] \in {C(u) : u \in units}
      /\ TemperatureOf(s, units) =
            Succeeded(Temperature(IF s[1][1] = "#" THEN 1000 * s[1][2] ELSE s[1][2], s[Len(s)][1]))
  BY SucceededIs DEF TemperatureOf
<1>2. Len(s) \in Nat
  BY DEF Texts
<1>3. PICK m \in Nat : m = s[1][2]
  <2>1. 1 \in 1..Len(s)
    BY <1>1, <1>2
  <2> QED BY <2>1, TokenTyped
<1>4. PICK u \in units : s[Len(s)] = C(u)
  BY <1>1
<1>5. s[Len(s)][1] = u
  BY <1>4, TokensAre
<1>6. PICK n \in Int : n = IF s[1][1] = "#" THEN 1000 * s[1][2] ELSE s[1][2]
  BY <1>3
<1> QED BY <1>1, <1>5, <1>6

LEMMA NumberTyped ==
    ASSUME NEW s \in Texts, NumberOf(s).ok
    PROVE  \/ \E n \in Int : NumberOf(s) = Succeeded(PlainNumber(n))
           \/ \E w \in Enumerations : NumberOf(s) = Succeeded(PlainWord(Word(w)))
<1>1. Len(s) \in Nat
  BY DEF Texts
<1>2. Len(s) = 1 => s[1][2] \in Nat /\ 1000 * s[1][2] \in Int
  <2> SUFFICES ASSUME Len(s) = 1 PROVE s[1][2] \in Nat
    OBVIOUS
  <2>1. 1 \in 1..Len(s)
    OBVIOUS
  <2> QED BY <2>1, TokenTyped
<1>3. Len(s) = 2 => -s[2][2] \in Int /\ -1000 * s[2][2] \in Int
  <2> SUFFICES ASSUME Len(s) = 2 PROVE s[2][2] \in Nat
    OBVIOUS
  <2>1. 2 \in 1..Len(s)
    OBVIOUS
  <2> QED BY <2>1, TokenTyped
<1>4. Failed.ok = FALSE
  BY SucceededIs
<1>5. CASE Len(s) = 1 /\ s[1][1] = "."
  BY ONLY <1>2, <1>5 DEF NumberOf
<1>6. CASE Len(s) = 1 /\ s[1][1] = "#"
  BY ONLY <1>2, <1>6 DEF NumberOf
<1>7. CASE Len(s) = 2 /\ s[1] = Minus /\ s[2][1] = "."
  BY ONLY <1>3, <1>7 DEF NumberOf
<1>8. CASE Len(s) = 2 /\ s[1] = Minus /\ s[2][1] = "#"
  BY ONLY <1>3, <1>8 DEF NumberOf
<1>9. CASE \E w \in Enumerations : s = Word(w)
  <2>1. PICK w \in Enumerations : s = Word(w)
    BY <1>9
  <2>2. w \in Keywords
    BY LinesAssumption
  <2>3. Len(s) = 1 /\ s[1][1] = w /\ w \notin {" ", ",", "=", "'", "$", "-", "#", "."}
    BY <2>1, <2>2, KeywordsAre
  <2>4. s[1][1] # "." /\ s[1][1] # "#"
    <3>1. w # "." /\ w # "#"
      <4>1. w \notin {" ", ",", "=", "'", "$", "-", "#", "."}
        BY <2>3
      <4> QED BY ONLY <4>1
    <3> QED BY <2>3, <3>1
  <2>5. Len(s) # 2
    <3>1. Len(s) = 1
      BY <2>3
    <3> QED BY ONLY <3>1
  <2>6. NumberOf(s) = Succeeded(PlainWord(s))
    BY ONLY <1>9, <2>4, <2>5 DEF NumberOf
  <2> QED BY <2>1, <2>6
<1>10. CASE /\ ~(Len(s) = 1 /\ s[1][1] = ".") /\ ~(Len(s) = 1 /\ s[1][1] = "#")
            /\ ~(Len(s) = 2 /\ s[1] = Minus /\ s[2][1] = ".") /\ ~(Len(s) = 2 /\ s[1] = Minus /\ s[2][1] = "#")
            /\ ~(\E w \in Enumerations : s = Word(w))
  <2>1. NumberOf(s) = Failed
    BY ONLY <1>10 DEF NumberOf
  <2> QED BY <1>4, <2>1
<1> QED BY ONLY <1>5, <1>6, <1>7, <1>8, <1>9, <1>10

LEMMA ArgParsedTyped ==
    ASSUME StoreTyped, NEW type \in Types, NEW s \in Texts, ParseArg(type, s).ok
    PROVE  IsOfType(ParseArg(type, s).value, type)
<1>1. PICK v : v = ParseArg(type, s).value
  OBVIOUS
<1>2. PICK t \in Texts : t = Strip(s, Space)
  <2>1. s \in Seq(Vocabulary \X Nat)
    BY DEF Texts
  <2> QED BY <2>1, StripText DEF Texts
<1>3. ~Contains(s, Equals)
  BY SucceededIs DEF ParseArg
<1>4. CASE s # <<>> /\ s[1] = Dollar
  <2>1. v = Variable(Tail(s))
    BY <1>1, <1>3, <1>4, SucceededIs DEF ParseArg
  <2>2. Tail(s) \in Texts
    BY <1>4, HeadTailProperties DEF Texts
  <2> QED BY <1>1, <2>1, <2>2 DEF IsOfType, Variable
<1>5. CASE ~(s # <<>> /\ s[1] = Dollar)
  <2>1. CASE type = "link"
    <3>1. FindNid(s).ok /\ v = LinkTo(FindNid(s).value)
      BY <1>1, <1>3, <1>5, <2>1, SucceededIs DEF ParseArg
    <3>2. FindNid(s).value \in Nat
      <4>1. CASE IsDigit(s)
        <5>1. 1 \in 1..Len(s)
          BY <4>1 DEF IsDigit
        <5>2. s[1][2] \in Nat
          BY <5>1, TokenTyped
        <5> QED BY <4>1, <5>2, SucceededIs DEF FindNid
      <4>2. CASE ~IsDigit(s) /\ \E nid \in DOMAIN store : store[nid] = s
        <5>1. PICK nid : nid = CHOOSE n \in DOMAIN store : store[n] = s
          OBVIOUS
        <5>2. nid \in DOMAIN store
          BY <4>2, <5>1
        <5>3. FindNid(s) = Succeeded(nid)
          BY <4>2, <5>1 DEF FindNid
        <5> QED BY <5>2, <5>3, SucceededIs DEF StoreTyped
      <4>3. IsDigit(s) \/ \E nid \in DOMAIN store : store[nid] = s
        BY <3>1, SucceededIs DEF FindNid
      <4> QED BY <4>1, <4>2, <4>3
    <3> QED BY <1>1, <2>1, <3>1, <3>2 DEF IsOfType, LinkTo
  <2>2. CASE type = "temperature" \/ type = "delta"
    <3>1. PICK units : units = IF type = "delta" THEN Delta ELSE Absolute
      OBVIOUS
    <3>2. ParseArg(type, s) = TemperatureOf(t, units)
      BY <1>2, <1>3, <1>5, <2>2, <3>1 DEF ParseArg
    <3>3. PICK n \in Int, u \in units : TemperatureOf(t, units) = Succeeded(Temperature(n, u))
      BY <3>2, TemperatureTyped
    <3>4. v = Temperature(n, u)
      BY <1>1, <3>2, <3>3, SucceededIs
    <3> QED BY <1>1, <2>2, <3>1, <3>4 DEF IsOfType, Temperature
  <2>3. CASE type = "duration"
    <3>1. ParseDuration(t).ok /\ v = Duration(ParseDuration(t).value)
      BY <1>1, <1>2, <1>3, <1>5, <2>3, SucceededIs DEF ParseArg
    <3>2. ParseDuration(t).value \in Nat
      BY <3>1, ParseTyped
    <3> QED BY <1>1, <2>3, <3>1, <3>2 DEF IsOfType, Duration
  <2>4. CASE type = "plain"
    <3>1. ParseArg(type, s) = NumberOf(s)
      BY <1>3, <1>5, <2>4 DEF ParseArg
    <3>2. \/ \E n \in Int : NumberOf(s) = Succeeded(PlainNumber(n))
          \/ \E w \in Enumerations : NumberOf(s) = Succeeded(PlainWord(Word(w)))
      BY <3>1, NumberTyped
    <3>3. \/ \E n \in Int : v = PlainNumber(n)
          \/ \E w \in Enumerations : v = PlainWord(Word(w))
      BY <1>1, <3>1, <3>2, SucceededIs
    <3>4. CASE \E n \in Int : v = PlainNumber(n)
      <4>1. v.is = "number" /\ v.amount \in Int /\ v = PlainNumber(v.amount)
        BY <3>4 DEF PlainNumber
      <4> QED BY <1>1, <2>4, <4>1 DEF IsOfType
    <3>5. CASE \E w \in Enumerations : v = PlainWord(Word(w))
      <4>1. PICK w \in Enumerations : v = PlainWord(Word(w))
        BY <3>5
      <4>2. v.is = "word" /\ v.text = Word(w) /\ v = PlainWord(v.text)
        BY <4>1 DEF PlainWord
      <4> QED BY <1>1, <2>4, <4>2 DEF IsOfType
    <3> QED BY <3>3, <3>4, <3>5
  <2> QED BY <2>1, <2>2, <2>3, <2>4 DEF Types
<1> QED BY <1>4, <1>5

LEMMA OpcodesAre ==
    ASSUME NEW o \in DOMAIN Opcodes
    PROVE  /\ o \in Keywords /\ Len(Opcodes[o]) \in Nat /\ DOMAIN Opcodes[o] = 1..Len(Opcodes[o])
           /\ \A d \in DOMAIN Opcodes[o] : Opcodes[o][d][1] \in Keywords /\ Opcodes[o][d][2] \in Types
           /\ \A d, e \in DOMAIN Opcodes[o] : Opcodes[o][d][1] = Opcodes[o][e][1] => d = e
           /\ Keys(o) = {Opcodes[o][d][1] : d \in DOMAIN Opcodes[o]}
<1>1. PICK s \in Seq(Keywords \X Types) : s = Opcodes[o]
  BY LinesAssumption
<1>2. o \in Keywords /\ \A d, e \in DOMAIN s : s[d][1] = s[e][1] => d = e
  BY <1>1, LinesAssumption
<1>3. DOMAIN s = 1..Len(s) /\ Len(s) \in Nat
  OBVIOUS
<1>4. \A d \in DOMAIN s : s[d] \in Keywords \X Types
  BY <1>3, ElementOfSeq
<1>5. \A d \in DOMAIN s : s[d][1] \in Keywords /\ s[d][2] \in Types
  BY <1>4
<1> QED BY <1>1, <1>2, <1>3, <1>5 DEF Keys

LEMMA LineTyped ==
    ASSUME StoreTyped, NEW x \in Texts, FromLine(x).ok
    PROVE  IsInstruction(FromLine(x).value)
<1>1. PICK o \in DOMAIN Opcodes : Before(x, Space) = Word(o)
  BY FromLineFails
<1>2. PICK args : args = [k \in Keys(o) |-> ArgAt(x, o, k)]
  OBVIOUS
<1>3. ~Refused(x, o) /\ FromLine(x) = Succeeded([op |-> o, args |-> args])
  BY <1>1, <1>2, FromLineIs, SucceededIs
<1>4. PICK v : v = [op |-> o, args |-> args]
  OBVIOUS
<1>5. FromLine(x).value = v /\ v.op = o /\ v.args = args
  BY <1>3, <1>4, SucceededIs
<1>6. ASSUME NEW d \in DOMAIN Opcodes[o]
      PROVE  IsOfType(args[Opcodes[o][d][1]], Opcodes[o][d][2])
  <2>1. PICK k : k = Opcodes[o][d][1] /\ k \in Keys(o)
    BY OpcodesAre
  <2>2. (CHOOSE e \in DOMAIN Opcodes[o] : Opcodes[o][e][1] = k) = d
    BY <2>1, OpcodesAre
  <2>3. args[k] = Parsed(x, o, d).value
    BY <1>2, <2>1, <2>2 DEF ArgAt
  <2>4. Parsed(x, o, d).ok /\ EntryAt(x, k) # {}
    BY <1>3, <2>1 DEF Refused
  <2>5. ValueAt(x, Max(EntryAt(x, k))) \in Texts
    BY <2>4, EntriesAre DEF EntryAt
  <2>6. PICK s \in Texts : s = ValueAt(x, Max(EntryAt(x, k)))
    BY <2>5
  <2>7. PICK type \in Types : type = Opcodes[o][d][2]
    BY OpcodesAre
  <2>8. Parsed(x, o, d) = ParseArg(type, s)
    BY <2>1, <2>6, <2>7 DEF Parsed
  <2>9. IsOfType(ParseArg(type, s).value, type)
    BY <2>4, <2>8, ArgParsedTyped
  <2> QED BY <2>1, <2>3, <2>7, <2>8, <2>9
<1>7. DOMAIN args = Keys(o) /\ args = [k \in Keys(o) |-> args[k]]
  BY <1>2
<1>8. v = [op |-> v.op, args |-> [k \in Keys(v.op) |-> v.args[k]]]
  BY ONLY <1>4, <1>5, <1>7
<1> QED BY <1>5, <1>6, <1>7, <1>8 DEF IsInstruction

-----------------------------------------------------------------------------
(* A line of an instruction is a text. *)
LEMMA InstructionIs ==
    ASSUME NEW i, IsInstruction(i)
    PROVE  /\ i.op \in DOMAIN Opcodes
           /\ \A d \in DOMAIN Opcodes[i.op] :
                /\ Opcodes[i.op][d][1] \in DOMAIN i.args
                /\ IsOfType(i.args[Opcodes[i.op][d][1]], Opcodes[i.op][d][2])
           /\ \A k \in DOMAIN i.args : \E d \in DOMAIN Opcodes[i.op] : k = Opcodes[i.op][d][1]
BY DEF IsInstruction, Keys

LEMMA LineIsText ==
    ASSUME StoreTyped, NEW i, IsInstruction(i), ToLine(i).ok
    PROVE  ToLine(i).value \in Texts
<1> DEFINE V == Vocabulary \X Nat
<1>1. ~(\E key \in DOMAIN i.args : i.args[key] = LinkTo(0))
  BY SucceededIs DEF ToLine
<1>2. i.op \in DOMAIN Opcodes
  BY InstructionIs
<1>3. PICK N \in Nat : N = Len(Opcodes[i.op]) /\ DOMAIN Opcodes[i.op] = 1..N
  BY <1>2, OpcodesAre
<1>4. PICK f : Built(f, i, N)
  BY BuiltExists
<1>5. ToLine(i) = Succeeded(f[N])
  BY <1>1, <1>3, <1>4, ToLineIs
<1>6. PICK c \in V : c = Comma
  BY MarksAre
<1>7. PICK b \in V : b = Space
  BY MarksAre
<1>8. PICK e \in V : e = Equals
  BY MarksAre
<1>9. ASSUME NEW n \in 1..N PROVE Entry(i, n) \in Seq(V)
  <2>1. PICK key \in Keywords : key = Opcodes[i.op][n][1]
    BY <1>2, <1>3, OpcodesAre
  <2>2. PICK v : v = i.args[key]
    OBVIOUS
  <2>3. PICK type \in Types : type = Opcodes[i.op][n][2]
    BY <1>2, <1>3, OpcodesAre
  <2>4. IsOfType(v, type) /\ v # LinkTo(0)
    BY <1>1, <1>3, <2>1, <2>2, <2>3, InstructionIs
  <2>5. PICK t : t = ArgText(v) /\ t \in Seq(V)
    BY <2>4, ArgTyped DEF Texts
  <2>6. PICK w : w = Word(key) /\ w \in Seq(V)
    BY KeywordsAre DEF Texts
  <2>7. Entry(i, n) = (w \o <<e>>) \o t
    BY <1>8, <2>1, <2>2, <2>5, <2>6 DEF Entry
  <2> HIDE DEF V
  <2>8. <<e>> \in Seq(V)
    BY ONLY e \in V, Few
  <2>9. w \o <<e>> \in Seq(V)
    BY ONLY <2>6, <2>8, ConcatProperties
  <2>10. (w \o <<e>>) \o t \in Seq(V)
    BY ONLY <2>5, <2>9, ConcatProperties
  <2> QED BY <2>7, <2>10
<1>10. Word(i.op) \in Seq(V)
  BY <1>2, OpcodesAre, KeywordsAre DEF Texts
<1> HIDE DEF V
<1>11. ASSUME NEW n PROVE Separator(n) \in Seq(V)
  <2>1. <<b>> \in Seq(V) /\ <<c, b>> \in Seq(V)
    BY ONLY c \in V, b \in V, Few
  <2> QED BY <1>6, <1>7, <2>1 DEF Separator
<1> DEFINE T == {n \in Nat : n <= N => f[n] \in Seq(V)}
<1>12. 0 \in T
  BY <1>4, <1>10 DEF Built
<1>13. ASSUME NEW n \in Nat, n \in T PROVE n + 1 \in T
  <2> SUFFICES ASSUME n + 1 <= N PROVE f[n + 1] \in Seq(V)
    OBVIOUS
  <2>1. n + 1 \in 1..N /\ (n + 1) - 1 = n /\ n <= N
    OBVIOUS
  <2>2. PICK t : t = f[n]
    OBVIOUS
  <2>3. t \in Seq(V)
    BY <1>13, <2>1, <2>2
  <2>4. f[n + 1] = f[(n + 1) - 1] \o Separator(n + 1) \o Entry(i, n + 1)
    BY <1>4, <2>1 DEF Built
  <2>5. PICK a : a = Separator(n + 1) /\ a \in Seq(V)
    BY <1>11
  <2>6. PICK d : d = Entry(i, n + 1) /\ d \in Seq(V)
    BY <1>9, <2>1
  <2>7. f[n + 1] = (t \o a) \o d
    BY ONLY <2>1, <2>2, <2>4, <2>5, <2>6
  <2>8. t \o a \in Seq(V)
    BY ONLY <2>3, <2>5, ConcatProperties
  <2>9. (t \o a) \o d \in Seq(V)
    BY ONLY <2>6, <2>8, ConcatProperties
  <2> QED BY <2>7, <2>9
<1> HIDE DEF T
<1>14. N \in T
  BY <1>12, <1>13, Induction
<1>15. f[N] \in Seq(V)
  BY <1>14 DEF T
<1> QED BY <1>5, <1>15, SucceededIs DEF Texts, V

(* A line is read as it was written, argument by argument. *)
LEMMA LineParts ==
    ASSUME NEW i, NEW s, NEW N, Described(i, s, N), NEW f, Built(f, i, N), NEW x, x = f[N]
    PROVE  /\ Before(x, Space) = Word(i.op)
           /\ \A b \in EntriesOf(x) : \E m \in 1..N :
                KeyAt(x, b) = Word(Opcodes[i.op][m][1]) /\ ValueAt(x, b) = s[m]
           /\ \A m \in 1..N : \E b \in EntriesOf(x) : KeyAt(x, b) = Word(Opcodes[i.op][m][1])
<1> DEFINE V == Vocabulary \X Nat
<1>1. N \in Nat /\ i.op \in Keywords
  BY DEF Described
<1>2. PICK w \in Seq(V) : w = Word(i.op) /\ Len(w) = 1 /\ w[1] = C(i.op)
  BY <1>1, KeywordsAre DEF Texts
<1>3. PICK b \in V : b = Space /\ b[1] = " "
  BY MarksAre
<1>4. ~Contains(w, b)
  <2>1. C(i.op)[1] = i.op /\ i.op \notin {" ", ",", "=", "'", "$", "-", "#", "."}
    BY <1>1, KeywordsAre
  <2>2. i.op # " "
    BY ONLY <2>1
  <2>3. w[1] # b
    BY <1>2, <1>3, <2>1, <2>2
  <2>4. Len(w) = 1
    BY <1>2
  <2>5. \A j \in 1..Len(w) : j = 1
    BY ONLY <2>4
  <2>6. DOMAIN w = 1..Len(w)
    BY <2>4
  <2> QED BY <2>3, <2>5, <2>6 DEF Contains
<1>5. CASE N = 0
  <2>1. x = w
    BY <1>2, <1>5 DEF Built
  <2>2. Before(x, Space) = w /\ After(x, Space) = <<>>
    BY <1>3, <1>4, <2>1, BeforeAll
  <2>3. PICK r : r = <<>>
    OBVIOUS
  <2>4. r \in Seq(V) /\ ~Contains(r, Comma)
    BY <2>3 DEF Contains
  <2>5. DOMAIN Split(r, Comma) = {1} /\ Split(r, Comma)[1] = r
    BY <2>4, SplitNone
  <2>6. EntriesOf(x) = {}
    BY <2>2, <2>3, <2>5 DEF EntriesOf
  <2>7. \A m \in 1..N : FALSE
    BY <1>5
  <2> QED BY <1>2, <2>2, <2>6, <2>7
<1>6. CASE N # 0
  <2>1. PICK r \in Seq(V) : x = Word(i.op) \o <<Space>> \o r /\ Listed(r, i, s, N)
    BY <1>6, LineListed
  <2>2. x = w \o <<b>> \o r
    BY <1>2, <1>3, <2>1
  <2> HIDE DEF V
  <2>3. Before(x, b) = w /\ After(x, b) = r
    BY ONLY w \in Seq(V), b \in V, r \in Seq(V), <1>4, <2>2, BeforeAfter
  <2>4. After(x, Space) = r /\ Before(x, Space) = Word(i.op)
    BY <1>2, <1>3, <2>3
  <2>5. ASSUME NEW m, NEW c \in DOMAIN Split(r, Comma), Holding(Split(r, Comma)[c], Opcodes[i.op][m][1], s[m])
        PROVE  c \in EntriesOf(x) /\ KeyAt(x, c) = Word(Opcodes[i.op][m][1]) /\ ValueAt(x, c) = s[m]
    BY <2>4, <2>5 DEF Holding, EntriesOf, KeyAt, ValueAt
  <2>6. EntriesOf(x) \subseteq DOMAIN Split(r, Comma)
    BY <2>4 DEF EntriesOf
  <2>7. ASSUME NEW c \in EntriesOf(x)
        PROVE  \E m \in 1..N : KeyAt(x, c) = Word(Opcodes[i.op][m][1]) /\ ValueAt(x, c) = s[m]
    <3>1. PICK m \in 1..N : Holding(Split(r, Comma)[c], Opcodes[i.op][m][1], s[m])
      BY <2>1, <2>6 DEF Listed
    <3> QED BY <2>5, <2>6, <3>1
  <2>8. ASSUME NEW m \in 1..N
        PROVE  \E c \in EntriesOf(x) : KeyAt(x, c) = Word(Opcodes[i.op][m][1])
    <3>1. PICK c \in DOMAIN Split(r, Comma) : Holding(Split(r, Comma)[c], Opcodes[i.op][m][1], s[m])
      BY <2>1 DEF Listed
    <3> QED BY <2>5, <3>1
  <2> QED BY <2>4, <2>7, <2>8
<1> QED BY <1>5, <1>6

LEMMA LineKeeps ==
    ASSUME StoreTyped, NEW i, IsInstruction(i), ToLine(i).ok, \A k \in DOMAIN i.args : Holds(i.args[k]),
           NEW y, y = FromLine(ToLine(i).value)
    PROVE  IF \E k \in DOMAIN i.args : Negative(i.args[k]) THEN ~y.ok
           ELSE y.ok /\ SameInstruction(i, y.value)
<1>1. ~(\E key \in DOMAIN i.args : i.args[key] = LinkTo(0))
  BY SucceededIs DEF ToLine
<1>2. PICK o \in DOMAIN Opcodes : o = i.op
  BY InstructionIs
<1>3. PICK N \in Nat : N = Len(Opcodes[o]) /\ DOMAIN Opcodes[o] = 1..N
  BY OpcodesAre
<1>4. PICK f : Built(f, i, N)
  BY BuiltExists
<1>5. PICK x \in Texts : x = f[N] /\ y = FromLine(x)
  <2>1. ToLine(i) = Succeeded(f[N])
    BY <1>1, <1>2, <1>3, <1>4, ToLineIs
  <2> QED BY <2>1, LineIsText, SucceededIs
<1> DEFINE key(m) == Opcodes[o][m][1]
           arg(m) == i.args[key(m)]
           type(m) == Opcodes[o][m][2]
<1>6. PICK s : s = [m \in 1..N |-> CHOOSE t : Kept(arg(m), type(m), t)]
  OBVIOUS
<1>7. ASSUME NEW m \in 1..N PROVE key(m) \in DOMAIN i.args /\ Kept(arg(m), type(m), s[m])
  <2>1. key(m) \in DOMAIN i.args /\ IsOfType(arg(m), type(m))
    BY <1>2, <1>3, InstructionIs
  <2>2. PICK v : v = arg(m)
    OBVIOUS
  <2>3. PICK ty \in Types : ty = type(m)
    BY <1>3, OpcodesAre
  <2>4. Holds(v) /\ v # LinkTo(0) /\ IsOfType(v, ty)
    BY <1>1, <2>1, <2>2, <2>3
  <2>5. \E t : Kept(v, ty, t)
    BY <2>4, ArgIs
  <2>6. Kept(v, ty, CHOOSE t : Kept(v, ty, t))
    BY <2>5
  <2>7. s[m] = CHOOSE t : Kept(v, ty, t)
    BY <1>6, <2>2, <2>3
  <2> QED BY <2>1, <2>2, <2>3, <2>6, <2>7
<1>8. Described(i, s, N)
  <2>1. i.op \in Keywords /\ \A m \in 1..N : key(m) \in Keywords
    BY <1>2, <1>3, OpcodesAre
  <2>2. \A m \in 1..N : Apart(s[m]) /\ ArgText(arg(m)) = Quoted(s[m])
    BY <1>7 DEF Kept
  <2> QED BY <1>2, <1>3, <2>1, <2>2 DEF Described
<1>9. /\ Before(x, Space) = Word(o)
      /\ \A b \in EntriesOf(x) : \E m \in 1..N : KeyAt(x, b) = Word(key(m)) /\ ValueAt(x, b) = s[m]
      /\ \A m \in 1..N : \E b \in EntriesOf(x) : KeyAt(x, b) = Word(key(m))
  BY <1>2, <1>4, <1>5, <1>8, LineParts
<1>10. \A m, n \in 1..N : Word(key(m)) = Word(key(n)) => m = n
  <2> SUFFICES ASSUME NEW m \in 1..N, NEW n \in 1..N, Word(key(m)) = Word(key(n)) PROVE m = n
    OBVIOUS
  <2>1. key(m) \in Keywords /\ key(n) \in Keywords
    BY <1>3, OpcodesAre
  <2>2. C(key(m)) = C(key(n))
    BY <2>1, KeywordsAre
  <2>3. key(m) = key(n)
    BY <2>2, TokensAre
  <2> QED BY <1>3, <2>3, OpcodesAre
<1>11. ASSUME NEW m \in 1..N
       PROVE  EntryAt(x, key(m)) # {} /\ Parsed(x, o, m) = ParseArg(type(m), s[m])
  <2>1. EntryAt(x, key(m)) # {}
    BY <1>9 DEF EntryAt
  <2>2. PICK b : b = Max(EntryAt(x, key(m))) /\ b \in EntryAt(x, key(m))
    BY <2>1, EntriesAre
  <2>3. b \in EntriesOf(x) /\ KeyAt(x, b) = Word(key(m))
    BY <2>2 DEF EntryAt
  <2>4. PICK n \in 1..N : KeyAt(x, b) = Word(key(n)) /\ ValueAt(x, b) = s[n]
    BY <1>9, <2>3
  <2>5. n = m
    BY <1>10, <2>3, <2>4
  <2> QED BY <2>1, <2>2, <2>4, <2>5 DEF Parsed
<1>12. PICK args : args = [k \in Keys(o) |-> ArgAt(x, o, k)]
  OBVIOUS
<1>13. y = IF Refused(x, o) THEN Failed ELSE Succeeded([op |-> o, args |-> args])
  BY <1>5, <1>9, <1>12, FromLineIs
<1>14. Refused(x, o) <=> \E m \in 1..N : Negative(arg(m))
  <2>1. ~(\E b \in EntriesOf(x) : \A d \in DOMAIN Opcodes[o] : KeyAt(x, b) # Word(Opcodes[o][d][1]))
    BY <1>3, <1>9
  <2>2. \A m \in 1..N : Parsed(x, o, m).ok <=> ~Negative(arg(m))
    <3> SUFFICES ASSUME NEW m \in 1..N PROVE Parsed(x, o, m).ok <=> ~Negative(arg(m))
      OBVIOUS
    <3>1. PICK p : p = Parsed(x, o, m)
      OBVIOUS
    <3>2. p = ParseArg(type(m), s[m])
      BY <1>11, <3>1
    <3>3. (Negative(arg(m)) => ~p.ok) /\ (~Negative(arg(m)) => p.ok)
      BY <1>7, <3>2 DEF Kept
    <3> QED BY <3>1, <3>3
  <2>3. Refused(x, o) <=> \E d \in 1..N : EntryAt(x, Opcodes[o][d][1]) = {} \/ ~Parsed(x, o, d).ok
    BY <1>3, <2>1 DEF Refused
  <2> QED BY <1>11, <2>2, <2>3
<1>15. (\E m \in 1..N : Negative(arg(m))) <=> (\E k \in DOMAIN i.args : Negative(i.args[k]))
  <2>1. \A k \in DOMAIN i.args : \E m \in 1..N : k = key(m)
    BY <1>2, <1>3, InstructionIs
  <2>2. \A m \in 1..N : key(m) \in DOMAIN i.args
    BY <1>7
  <2> QED BY <2>1, <2>2
<1>16. CASE \E k \in DOMAIN i.args : Negative(i.args[k])
  <2>1. y = Failed
    BY <1>13, <1>14, <1>15, <1>16
  <2> QED BY <1>16, <2>1, SucceededIs
<1>17. CASE ~(\E k \in DOMAIN i.args : Negative(i.args[k]))
  <2>1. y = Succeeded([op |-> o, args |-> args])
    BY <1>13, <1>14, <1>15, <1>17
  <2>2. PICK j : j = [op |-> o, args |-> args]
    OBVIOUS
  <2>3. y.ok /\ y.value = j /\ j.op = o /\ j.args = args
    BY <2>1, <2>2, SucceededIs
  <2>4. ASSUME NEW k \in DOMAIN i.args PROVE SameArg(i.args[k], args[k])
    <3>1. PICK m \in 1..N : k = key(m)
      BY <1>2, <1>3, InstructionIs
    <3>2. k \in Keys(o) /\ (CHOOSE d \in DOMAIN Opcodes[o] : Opcodes[o][d][1] = k) = m
      BY <1>3, <3>1, OpcodesAre
    <3>3. args[k] = Parsed(x, o, m).value
      BY <1>12, <3>2 DEF ArgAt
    <3>4. args[k] = ParseArg(type(m), s[m]).value
      BY <1>11, <3>3
    <3>5. ~Negative(arg(m))
      BY <1>17, <3>1
    <3>6. SameArg(arg(m), ParseArg(type(m), s[m]).value)
      BY <1>7, <3>5 DEF Kept
    <3> QED BY <3>1, <3>4, <3>6
  <2>5. SameInstruction(i, j)
    BY <1>2, <2>3, <2>4 DEF SameInstruction
  <2> QED BY <1>17, <2>3, <2>5
<1> QED BY <1>16, <1>17

-----------------------------------------------------------------------------
LEMMA InitLines ==
    ASSUME LinesInit
    PROVE  LinesTypeOK
<1>1. store \in [Nids -> Names] /\ IsInjective(store) /\ instruction \in Instructions /\ line = Failed
  BY DEF LinesInit
<1>2. DOMAIN store \subseteq Nids /\ Range(store) \subseteq Names
  BY <1>1 DEF Range
<1>3. IsInstruction(instruction)
  BY <1>1, LinesAssumption
<1> QED BY <1>1, <1>2, <1>3 DEF LinesTypeOK

LEMMA ReadLineTyped ==
    ASSUME LinesTypeOK, ReadLine
    PROVE  LinesTypeOK'
<1>1. store' = store /\ instruction' = instruction /\ line' = ToLine(instruction)
  BY DEF ReadLine
<1>2. IsInstruction(instruction) /\ StoreTyped
  BY StoreIs DEF LinesTypeOK
<1>3. line' = Failed \/ (line'.value \in Texts /\ line' = Succeeded(line'.value))
  <2>1. CASE ToLine(instruction).ok
    <3>1. ToLine(instruction).value \in Texts
      BY <1>2, <2>1, LineIsText
    <3>2. ToLine(instruction) = Succeeded(ToLine(instruction).value)
      BY <2>1, SucceededIs DEF ToLine
    <3> QED BY <1>1, <3>1, <3>2
  <2>2. CASE ~ToLine(instruction).ok
    <3>1. ToLine(instruction) = Failed
      BY <2>2, SucceededIs DEF ToLine
    <3> QED BY <1>1, <3>1
  <2> QED BY <2>1, <2>2
<1> QED BY <1>1, <1>3 DEF LinesTypeOK

LEMMA WriteLineTyped ==
    ASSUME LinesTypeOK, NEW s \in Texts, WriteLine(s)
    PROVE  LinesTypeOK'
<1>1. store' = store /\ line' = line
      /\ instruction' = IF FromLine(s).ok THEN FromLine(s).value ELSE instruction
  BY DEF WriteLine
<1>2. IsInstruction(instruction) /\ StoreTyped
  BY StoreIs DEF LinesTypeOK
<1>3. FromLine(s).ok => IsInstruction(FromLine(s).value)
  BY <1>2, LineTyped
<1>4. IsInstruction(instruction')
  BY <1>1, <1>2, <1>3
<1> QED BY <1>1, <1>4 DEF LinesTypeOK

LEMMA NamesChangeTyped ==
    ASSUME LinesTypeOK, NamesChange
    PROVE  LinesTypeOK'
<1>1. instruction' = instruction /\ line' = line
  BY DEF NamesChange
<1>2. PICK nid \in Nids :
        \/ store' = [n \in (DOMAIN store) \ {nid} |-> store[n]]
        \/ \E name \in Names \ Range(store) :
            store' = [n \in (DOMAIN store) \cup {nid} |-> IF n = nid THEN name ELSE store[n]]
  BY DEF NamesChange
<1>3. /\ DOMAIN store \subseteq Nids
      /\ \A n \in DOMAIN store : store[n] \in Names /\ store[n] \in Range(store)
      /\ \A m, n \in DOMAIN store : store[m] = store[n] => m = n
  BY DEF LinesTypeOK, Range, IsInjective
<1>4. CASE store' = [n \in (DOMAIN store) \ {nid} |-> store[n]]
  <2>1. /\ DOMAIN store' \subseteq Nids
        /\ \A n \in DOMAIN store' : store'[n] \in Names
        /\ \A m, n \in DOMAIN store' : store'[m] = store'[n] => m = n
    BY <1>3, <1>4
  <2>2. Range(store') \subseteq Names /\ IsInjective(store')
    BY <2>1 DEF Range, IsInjective
  <2> QED BY <1>1, <2>1, <2>2 DEF LinesTypeOK
<1>5. CASE \E name \in Names \ Range(store) :
            store' = [n \in (DOMAIN store) \cup {nid} |-> IF n = nid THEN name ELSE store[n]]
  <2>1. PICK name \in Names \ Range(store) :
            store' = [n \in (DOMAIN store) \cup {nid} |-> IF n = nid THEN name ELSE store[n]]
    BY <1>5
  <2>2. \A n \in DOMAIN store : store[n] # name
    BY <1>3
  <2>3. DOMAIN store' = (DOMAIN store) \cup {nid} /\ DOMAIN store' \subseteq Nids
    BY <1>3, <2>1
  <2>4. \A n \in DOMAIN store' : store'[n] = IF n = nid THEN name ELSE store[n]
    BY <2>1, <2>3
  <2>5. \A n \in DOMAIN store' : store'[n] \in Names
    BY <1>3, <2>3, <2>4
  <2>6. \A m, n \in DOMAIN store' : store'[m] = store'[n] => m = n
    BY <1>3, <2>2, <2>3, <2>4
  <2>7. Range(store') \subseteq Names /\ IsInjective(store')
    BY <2>5, <2>6 DEF Range, IsInjective
  <2> QED BY <1>1, <2>3, <2>7 DEF LinesTypeOK
<1> QED BY <1>2, <1>4, <1>5

LEMMA NextLines ==
    ASSUME LinesTypeOK, LinesNext
    PROVE  LinesTypeOK'
<1>1. CASE ReadLine
  BY <1>1, ReadLineTyped
<1>2. CASE WriteBack
  <2>1. line.ok /\ WriteLine(line.value)
    BY <1>2 DEF WriteBack
  <2>2. line.value \in Texts
    BY <2>1, SucceededIs DEF LinesTypeOK
  <2> QED BY <2>1, <2>2, WriteLineTyped
<1>3. CASE NamesChange
  BY <1>3, NamesChangeTyped
<1>4. CASE \E s \in Lines : WriteLine(s)
  <2>1. PICK s \in Lines : WriteLine(s)
    BY <1>4
  <2>2. s \in Texts
    BY LinesAssumption
  <2> QED BY <2>1, <2>2, WriteLineTyped
<1> QED BY <1>1, <1>2, <1>3, <1>4 DEF LinesNext

LEMMA MeaningKept ==
    ASSUME LinesTypeOK
    PROVE  LineKeepsItsMeaning
<1> DEFINE args == {instruction.args[key] : key \in DOMAIN instruction.args}
<1> SUFFICES ASSUME WriteBack, line = ToLine(instruction), \A v \in args : Holds(v)
             PROVE  IF \E v \in args : Negative(v) THEN UNCHANGED instruction
                    ELSE FromLine(line.value).ok /\ SameInstruction(instruction, instruction')
  BY DEF LineKeepsItsMeaning
<1>1. PICK i : i = instruction
  OBVIOUS
<1>2. IsInstruction(i) /\ StoreTyped
  BY <1>1, StoreIs DEF LinesTypeOK
<1>3. PICK y : y = FromLine(ToLine(i).value)
  OBVIOUS
<1>4. ToLine(i).ok /\ instruction' = IF y.ok THEN y.value ELSE i
  BY <1>1, <1>3 DEF WriteBack, WriteLine
<1>5. \A k \in DOMAIN i.args : Holds(i.args[k])
  BY <1>1
<1>6. IF \E k \in DOMAIN i.args : Negative(i.args[k]) THEN ~y.ok ELSE y.ok /\ SameInstruction(i, y.value)
  BY <1>2, <1>3, <1>4, <1>5, LineKeeps
<1>7. (\E v \in args : Negative(v)) <=> (\E k \in DOMAIN i.args : Negative(i.args[k]))
  BY <1>1
<1> HIDE DEF args
<1>8. CASE \E v \in args : Negative(v)
  BY <1>1, <1>4, <1>6, <1>7, <1>8
<1>9. CASE ~(\E v \in args : Negative(v))
  BY <1>1, <1>3, <1>4, <1>6, <1>7, <1>9
<1> QED BY <1>8, <1>9

(* A line that is read is text, and an instruction that is written has its   *)
(* opcode's arguments, each of its type: whatever the text was.              *)
THEOREM LinesInvariant == BlockDataSpec => [](active = "lines" => LinesTypeOK)
<1>1. BlockDataInit => (active = "lines" => LinesTypeOK)
  BY InitLines DEF BlockDataInit
<1>2. (active = "lines" => LinesTypeOK) /\ [BlockDataNext]_dataVars => (active = "lines" => LinesTypeOK)'
  <2> SUFFICES ASSUME active = "lines" => LinesTypeOK, [BlockDataNext]_dataVars, active' = "lines"
               PROVE  LinesTypeOK'
    OBVIOUS
  <2>1. active = "lines" /\ LinesTypeOK /\ (LinesNext \/ UNCHANGED lineVars)
    BY DEF BlockDataNext, dataVars
  <2>2. CASE UNCHANGED lineVars
    BY <2>1, <2>2 DEF lineVars, LinesTypeOK
  <2> QED BY <2>1, <2>2, NextLines
<1> QED BY <1>1, <1>2, PTL DEF BlockDataSpec

(* LinesKeepTheirMeaning: a line that is written back as it was read means   *)
(* the same instruction, for every opcode, every number and every name that  *)
(* a line can hold.                                                          *)
THEOREM LinesKeepMeaning == BlockDataSpec => LinesKeepTheirMeaning
<1>1. (active = "lines" => LinesTypeOK) => (active = "lines" => LineKeepsItsMeaning)
  BY MeaningKept
<1> QED BY <1>1, LinesInvariant, PTL DEF LinesKeepTheirMeaning

-----------------------------------------------------------------------------
(* Events: what is taken out of a queue, and what is left of it *)
KeptBy(g, s, t) ==
    g = [n \in 0..Len(s) |->
            IF n = 0 THEN <<>> ELSE IF s[n].by = t THEN g[n - 1] ELSE Append(g[n - 1], s[n])]

(* w has elements of the first n of s, all but those of t. *)
Left(w, s, n, t, S) ==
    /\ w \in Seq(S)
    /\ \A k \in DOMAIN w : \E i \in 1..n : w[k] = s[i] /\ s[i].by # t
    /\ \A k, l \in DOMAIN w : w[k].by = w[l].by => k = l
    /\ \A i \in 1..n : s[i].by # t => \E k \in DOMAIN w : w[k] = s[i]

LEMMA LeftMore ==
    ASSUME NEW S, NEW s \in Seq(S), \A i, j \in DOMAIN s : s[i].by = s[j].by => i = j,
           NEW n \in Nat, n + 1 \in DOMAIN s, NEW t, NEW w, Left(w, s, n, t, S), NEW u,
           u = IF s[n + 1].by = t THEN w ELSE Append(w, s[n + 1])
    PROVE  Left(u, s, n + 1, t, S)
<1>0. PICK x : x = s[n + 1] /\ x \in S
  BY ElementOfSeq
<1>1. w \in Seq(S)
  BY DEF Left
<1>2. PICK m \in Nat : m = Len(w) /\ DOMAIN w = 1..m
  BY <1>1
<1>3. \A i \in 1..n : i \in 1..(n + 1)
  OBVIOUS
<1>4. \A k \in DOMAIN w : \E i \in 1..n : w[k] = s[i] /\ s[i].by # t
  BY DEF Left
<1>5. \A k, l \in DOMAIN w : w[k].by = w[l].by => k = l
  BY DEF Left
<1>6. \A i \in 1..n : s[i].by # t => \E k \in DOMAIN w : w[k] = s[i]
  BY DEF Left
<1>7. \A i \in 1..(n + 1) : i = n + 1 \/ i \in 1..n
  OBVIOUS
<1>8. CASE x.by = t
  <2>1. u = w
    BY <1>0, <1>8
  <2>2. \A i \in 1..(n + 1) : s[i].by # t => \E k \in DOMAIN w : w[k] = s[i]
    BY <1>0, <1>8, <1>6, <1>7
  <2>3. \A k \in DOMAIN w : \E i \in 1..(n + 1) : w[k] = s[i] /\ s[i].by # t
    BY <1>3, <1>4
  <2> QED BY <1>1, <1>5, <2>1, <2>2, <2>3 DEF Left
<1>9. CASE x.by # t
  <2>1. u = Append(w, x)
    BY <1>0, <1>9
  <2>2. /\ u \in Seq(S) /\ Len(u) = m + 1 /\ DOMAIN u = 1..(m + 1)
        /\ \A k \in 1..m : u[k] = w[k]
        /\ u[m + 1] = x
    BY <1>0, <1>1, <1>2, <2>1, AppendProperties
  <2>3. \A k \in 1..(m + 1) : k = m + 1 \/ k \in 1..m
    OBVIOUS
  <2>4. n + 1 \in 1..(n + 1)
    OBVIOUS
  <2>5. ASSUME NEW k \in DOMAIN u PROVE \E i \in 1..(n + 1) : u[k] = s[i] /\ s[i].by # t
    <3>1. CASE k = m + 1
      BY <1>0, <1>9, <2>2, <2>4, <3>1
    <3>2. CASE k \in 1..m
      BY <1>2, <1>3, <1>4, <2>2, <3>2
    <3> QED BY <2>2, <2>3, <3>1, <3>2
  <2>6. ASSUME NEW k \in 1..m PROVE u[k].by # x.by
    <3>1. PICK i \in 1..n : w[k] = s[i]
      BY <1>2, <1>4
    <3>2. i \in DOMAIN s /\ i # n + 1
      BY ElementOfSeq
    <3>3. s[i].by # s[n + 1].by
      BY <3>2
    <3> QED BY <1>0, <2>2, <3>1, <3>3
  <2>7. ASSUME NEW k \in DOMAIN u, NEW l \in DOMAIN u, u[k].by = u[l].by PROVE k = l
    <3>1. CASE k \in 1..m /\ l \in 1..m
      BY <1>2, <1>5, <2>2, <2>7, <3>1
    <3>2. CASE ~(k \in 1..m /\ l \in 1..m)
      BY <2>2, <2>3, <2>6, <2>7, <3>2
    <3> QED BY <3>1, <3>2
  <2>8. ASSUME NEW i \in 1..(n + 1), s[i].by # t PROVE \E k \in DOMAIN u : u[k] = s[i]
    <3>1. CASE i = n + 1
      <4>1. m + 1 \in DOMAIN u
        BY <2>2
      <4> QED BY <1>0, <2>2, <3>1, <4>1
    <3>2. CASE i \in 1..n
      <4>1. PICK k \in DOMAIN w : w[k] = s[i]
        BY <1>6, <2>8, <3>2
      <4>2. k \in 1..m /\ k \in 1..(m + 1)
        BY <1>2
      <4> QED BY <2>2, <4>1, <4>2
    <3> QED BY <1>7, <3>1, <3>2
  <2> QED BY <2>2, <2>5, <2>7, <2>8 DEF Left
<1> QED BY <1>8, <1>9

LEMMA WithoutTaskIs ==
    ASSUME NEW S, NEW s \in Seq(S), \A i, j \in DOMAIN s : s[i].by = s[j].by => i = j, NEW t
    PROVE  Left(WithoutTask(s, t), s, Len(s), t, S)
<1>1. PICK N \in Nat : N = Len(s) /\ DOMAIN s = 1..N
  OBVIOUS
<1> DEFINE Step(w, n) == IF s[n].by = t THEN w ELSE Append(w, s[n])
           Steps(g, n) == g = [m \in 0..n |-> g[m]] /\ g[0] = <<>> /\ \A m \in 1..n : g[m] = Step(g[m - 1], m)
           T == {n \in Nat : \E g : Steps(g, n)}
<1>2. 0 \in T
  <2> DEFINE g == [m \in 0..0 |-> <<>>]
  <2>1. 0 \in 0..0 /\ \A m \in 1..0 : FALSE
    OBVIOUS
  <2>2. g = [m \in 0..0 |-> g[m]] /\ g[0] = <<>>
    BY <2>1
  <2>3. Steps(g, 0)
    BY <2>1, <2>2
  <2> QED BY <2>3
<1>3. ASSUME NEW n \in Nat, n \in T PROVE n + 1 \in T
  <2>1. PICK f : Steps(f, n)
    BY <1>3
  <2>2. PICK x : x = Step(f[n], n + 1)
    OBVIOUS
  <2> DEFINE g == [m \in 0..(n + 1) |-> IF m = n + 1 THEN x ELSE f[m]]
  <2>3. n + 1 \in 0..(n + 1) /\ 0 \in 0..(n + 1) /\ 0 # n + 1 /\ 0 \in 0..n
    OBVIOUS
  <2>4. \A m \in 0..n : m \in 0..(n + 1) /\ m # n + 1
    OBVIOUS
  <2>5. g = [m \in 0..(n + 1) |-> g[m]] /\ g[n + 1] = x /\ \A m \in 0..n : g[m] = f[m]
    BY <2>3, <2>4
  <2> HIDE DEF g
  <2>6. g[0] = <<>>
    BY <2>1, <2>3, <2>5
  <2>7. ASSUME NEW m \in 1..(n + 1) PROVE g[m] = Step(g[m - 1], m)
    <3>1. CASE m = n + 1
      <4>1. m - 1 = n /\ n \in 0..n
        BY <3>1
      <4>2. g[m - 1] = f[n]
        BY <2>5, <4>1
      <4> QED BY ONLY <2>2, <2>5, <3>1, <4>2
    <3>2. CASE m # n + 1
      <4>1. m \in 1..n /\ m \in 0..n /\ m - 1 \in 0..n
        BY <3>2
      <4>2. f[m] = Step(f[m - 1], m)
        BY <2>1, <4>1
      <4>3. g[m] = f[m] /\ g[m - 1] = f[m - 1]
        BY <2>5, <4>1
      <4> QED BY ONLY <4>2, <4>3
    <3> QED BY <3>1, <3>2
  <2>8. Steps(g, n + 1)
    BY <2>5, <2>6, <2>7
  <2> HIDE DEF Steps
  <2>9. \E h : Steps(h, n + 1)
    BY <2>8
  <2>10. n + 1 \in Nat
    OBVIOUS
  <2> QED BY <2>9, <2>10
<1> HIDE DEF T
<1>4. N \in T
  BY <1>2, <1>3, Induction
<1>5. PICK f : Steps(f, N)
  BY <1>4 DEF T
<1>6. KeptBy(f, s, t)
  <2>1. \A n \in 0..N : f[n] = IF n = 0 THEN <<>> ELSE IF s[n].by = t THEN f[n - 1] ELSE Append(f[n - 1], s[n])
    <3>1. \A n \in 0..N : n = 0 \/ n \in 1..N
      OBVIOUS
    <3>2. \A n \in 1..N : n # 0
      OBVIOUS
    <3>3. f[0] = <<>> /\ \A n \in 1..N : f[n] = IF s[n].by = t THEN f[n - 1] ELSE Append(f[n - 1], s[n])
      BY <1>5
    <3> QED BY ONLY <3>1, <3>2, <3>3
  <2>2. f = [n \in 0..N |-> f[n]]
    BY <1>5
  <2> QED BY ONLY <1>1, <2>1, <2>2 DEF KeptBy
<1>7. PICK kept : kept = CHOOSE g : KeptBy(g, s, t)
  OBVIOUS
<1>8. KeptBy(kept, s, t)
  BY <1>6, <1>7
<1>9. WithoutTask(s, t) = kept[N]
  BY <1>1, <1>7 DEF WithoutTask, KeptBy
<1>10. /\ kept[0] = <<>>
       /\ \A n \in 1..N : kept[n] = IF s[n].by = t THEN kept[n - 1] ELSE Append(kept[n - 1], s[n])
  <2>1. \A n \in 0..N : kept[n] = IF n = 0 THEN <<>> ELSE IF s[n].by = t THEN kept[n - 1] ELSE Append(kept[n - 1], s[n])
    BY ONLY <1>1, <1>8 DEF KeptBy
  <2>2. 0 \in 0..N /\ \A n \in 1..N : n \in 0..N /\ n # 0
    OBVIOUS
  <2> QED BY ONLY <2>1, <2>2
<1> DEFINE R == {n \in Nat : n <= N => Left(kept[n], s, n, t, S)}
<1>11. 0 \in R
  <2>1. PICK w : w = <<>>
    OBVIOUS
  <2>2. w \in Seq(S)
    BY <2>1
  <2>3. \A k \in DOMAIN w : FALSE
    BY <2>1
  <2>4. \A i \in 1..0 : FALSE
    OBVIOUS
  <2>5. Left(w, s, 0, t, S)
    BY <2>2, <2>3, <2>4 DEF Left
  <2>6. kept[0] = w
    BY <1>10, <2>1
  <2> QED BY <2>5, <2>6
<1>12. ASSUME NEW n \in Nat, n \in R PROVE n + 1 \in R
  <2> SUFFICES ASSUME n + 1 <= N PROVE Left(kept[n + 1], s, n + 1, t, S)
    OBVIOUS
  <2>1. n + 1 \in 1..N /\ (n + 1) - 1 = n /\ n <= N
    OBVIOUS
  <2>2. PICK w : w = kept[n]
    OBVIOUS
  <2>3. Left(w, s, n, t, S)
    BY <1>12, <2>1, <2>2
  <2>4. PICK u : u = kept[n + 1]
    OBVIOUS
  <2>5. u = IF s[n + 1].by = t THEN w ELSE Append(w, s[n + 1])
    BY ONLY <1>10, <2>1, <2>2, <2>4
  <2>6. n + 1 \in DOMAIN s
    BY <1>1, <2>1
  <2>7. Left(u, s, n + 1, t, S)
    BY <2>3, <2>5, <2>6, LeftMore
  <2> QED BY <2>4, <2>7
<1> HIDE DEF R
<1>13. N \in R
  BY <1>11, <1>12, Induction
<1> QED BY <1>1, <1>9, <1>13 DEF R

(* OneOnItsWay of the commands c and the answers a, while the tasks execute r: *)
(* nothing is on the way for who does not wait, and something for who does,  *)
(* but for t.                                                                *)
HeardBut(t, c, a, r) == \A u \in Tasks : r[u].at = "sent" /\ u # t => u \in TasksOf(c) \cup TasksOf(a)
Heard(c, a, r) == \A u \in Tasks : r[u].at = "sent" => u \in TasksOf(c) \cup TasksOf(a)

Way(c, a, r) ==
    /\ \A i \in DOMAIN c : r[c[i].by].at = "sent"
    /\ \A i \in DOMAIN a : r[a[i].by].at = "sent"
    /\ \A i, j \in DOMAIN c : c[i].by = c[j].by => i = j
    /\ \A i, j \in DOMAIN a : a[i].by = a[j].by => i = j
    /\ \A i \in DOMAIN c, j \in DOMAIN a : c[i].by # a[j].by

NoneBy(t, s) == \A i \in DOMAIN s : s[i].by # t
GoOn(s, q, r) == \A i \in DOMAIN s : q[s[i].by] = r[s[i].by]

(* Who does not wait has nothing on the way. *)
LEMMA IdleIsFree ==
    ASSUME NEW c, NEW a, NEW r, Way(c, a, r), NEW t, r[t].at # "sent"
    PROVE  NoneBy(t, c) /\ NoneBy(t, a)
BY DEF Way, NoneBy

LEMMA TailIsLeft ==
    ASSUME NEW S, NEW s \in Seq(S), s # <<>>
    PROVE  /\ Head(s) = s[1] /\ 1 \in DOMAIN s
           /\ \A k \in DOMAIN Tail(s) : k + 1 \in DOMAIN s /\ k + 1 # 1 /\ Tail(s)[k] = s[k + 1]
           /\ \A k, l \in DOMAIN Tail(s) : k + 1 = l + 1 => k = l
<1>1. PICK u \in Seq(S) : u = Tail(s) /\ Len(u) = Len(s) - 1 /\ \A i \in 1..Len(u) : u[i] = s[i + 1]
  BY HeadTailProperties
<1>2. DOMAIN u = 1..Len(u) /\ Len(u) \in Nat /\ Len(s) \in Nat /\ DOMAIN s = 1..Len(s)
  OBVIOUS
<1>3. \A k \in 1..Len(u) : k + 1 \in 1..Len(s) /\ k + 1 # 1
  BY <1>1, <1>2
<1>4. \A k, l \in 1..Len(u) : k + 1 = l + 1 => k = l
  OBVIOUS
<1>5. Len(s) # 0
  BY EmptySeq
<1>6. 1 \in 1..Len(s)
  BY <1>2, <1>5
<1>7. Head(s) = s[1]
  OBVIOUS
<1> QED BY <1>1, <1>2, <1>3, <1>4, <1>6, <1>7

LEMMA TasksOfTail ==
    ASSUME NEW S, NEW s \in Seq(S), s # <<>>, NEW u \in TasksOf(s), u # Head(s).by
    PROVE  u \in TasksOf(Tail(s))
<1>1. PICK v \in Seq(S) : v = Tail(s) /\ Len(v) = Len(s) - 1 /\ \A i \in 1..Len(v) : v[i] = s[i + 1]
  BY HeadTailProperties
<1>2. PICK n \in DOMAIN s : s[n].by = u
  BY DEF TasksOf
<1>3. n \in 1..Len(s) /\ Len(s) \in Nat /\ Head(s) = s[1] /\ DOMAIN v = 1..Len(v)
  OBVIOUS
<1>4. n # 1
  BY <1>2, <1>3
<1>5. n - 1 \in 1..Len(v) /\ (n - 1) + 1 = n
  BY <1>1, <1>3, <1>4
<1>6. v[n - 1].by = u
  BY <1>1, <1>2, <1>5
<1> QED BY <1>1, <1>3, <1>5, <1>6 DEF TasksOf

LEMMA TasksOfAppend ==
    ASSUME NEW S, NEW s \in Seq(S), NEW e \in S
    PROVE  /\ \A u \in TasksOf(s) : u \in TasksOf(Append(s, e))
           /\ e.by \in TasksOf(Append(s, e))
<1> DEFINE v == Append(s, e)
<1>1. v \in Seq(S) /\ Len(v) = Len(s) + 1 /\ v[Len(s) + 1] = e /\ \A i \in 1..Len(s) : v[i] = s[i]
  BY AppendProperties
<1> HIDE DEF v
<1>2. Len(s) \in Nat /\ DOMAIN s = 1..Len(s) /\ DOMAIN v = 1..Len(v)
  OBVIOUS
<1>3. Len(s) + 1 \in DOMAIN v /\ \A i \in DOMAIN s : i \in DOMAIN v /\ v[i] = s[i]
  BY <1>1, <1>2
<1>4. e.by \in TasksOf(v)
  BY <1>1, <1>3 DEF TasksOf
<1>5. \A u \in TasksOf(s) : u \in TasksOf(v)
  BY <1>3 DEF TasksOf
<1> QED BY <1>4, <1>5 DEF v

LEMMA HeardAll ==
    ASSUME NEW c, NEW a, NEW r, Heard(c, a, r), NEW t
    PROVE  HeardBut(t, c, a, r)
BY DEF Heard, HeardBut

LEMMA HeardSwapped ==
    ASSUME NEW c, NEW a, NEW r, Heard(c, a, r)
    PROVE  Heard(a, c, r)
BY DEF Heard

(* The first command or answer is taken: its task has no other on the way. *)
LEMMA AnswerHeard ==
    ASSUME NEW S, NEW c, NEW a \in Seq(S), a # <<>>, NEW r, Heard(c, a, r)
    PROVE  HeardBut(Head(a).by, c, Tail(a), r)
<1>1. \A u \in TasksOf(a) : u # Head(a).by => u \in TasksOf(Tail(a))
  BY TasksOfTail
<1> QED BY <1>1 DEF Heard, HeardBut

LEMMA CommandHeard ==
    ASSUME NEW S, NEW c \in Seq(S), c # <<>>, NEW a, NEW r, Heard(c, a, r)
    PROVE  HeardBut(Head(c).by, Tail(c), a, r)
<1>1. \A u \in TasksOf(c) : u # Head(c).by => u \in TasksOf(Tail(c))
  BY TasksOfTail
<1> QED BY <1>1 DEF Heard, HeardBut

LEMMA HeardMore ==
    ASSUME NEW S, NEW c \in Seq(S), NEW e \in S, NEW a, NEW r, HeardBut(e.by, c, a, r)
    PROVE  Heard(Append(c, e), a, r)
<1>1. \A u \in TasksOf(c) : u \in TasksOf(Append(c, e))
  BY TasksOfAppend
<1>2. e.by \in TasksOf(Append(c, e))
  BY TasksOfAppend
<1> QED BY <1>1, <1>2 DEF Heard, HeardBut

LEMMA AnswerTaken ==
    ASSUME NEW S, NEW c, NEW a \in Seq(S), a # <<>>, NEW r, Way(c, a, r)
    PROVE  Way(c, Tail(a), r) /\ NoneBy(Head(a).by, c) /\ NoneBy(Head(a).by, Tail(a)) /\ r[Head(a).by].at = "sent"
<1>1. PICK u : u = Tail(a)
  OBVIOUS
<1>2. /\ Head(a) = a[1] /\ 1 \in DOMAIN a
      /\ \A k \in DOMAIN u : k + 1 \in DOMAIN a /\ k + 1 # 1 /\ u[k] = a[k + 1]
      /\ \A k, l \in DOMAIN u : k + 1 = l + 1 => k = l
  BY <1>1, TailIsLeft
<1>3. Way(c, u, r)
  <2>1. \A i \in DOMAIN u : r[u[i].by].at = "sent"
    BY <1>2 DEF Way
  <2>2. \A i, j \in DOMAIN u : u[i].by = u[j].by => i = j
    BY <1>2 DEF Way
  <2>3. \A i \in DOMAIN c, j \in DOMAIN u : c[i].by # u[j].by
    BY <1>2 DEF Way
  <2> QED BY <2>1, <2>2, <2>3 DEF Way
<1>4. NoneBy(a[1].by, c) /\ NoneBy(a[1].by, u)
  BY <1>2 DEF Way, NoneBy
<1>5. r[a[1].by].at = "sent"
  BY <1>2 DEF Way
<1> QED BY <1>1, <1>2, <1>3, <1>4, <1>5

LEMMA WaySwapped ==
    ASSUME NEW c, NEW a, NEW r, Way(c, a, r)
    PROVE  Way(a, c, r)
BY DEF Way

LEMMA CommandTaken ==
    ASSUME NEW S, NEW c \in Seq(S), c # <<>>, NEW a, NEW r, Way(c, a, r)
    PROVE  Way(Tail(c), a, r) /\ NoneBy(Head(c).by, a) /\ NoneBy(Head(c).by, Tail(c)) /\ r[Head(c).by].at = "sent"
BY AnswerTaken, WaySwapped

(* Task t sends, that has nothing on the way. *)
LEMMA WayMore ==
    ASSUME NEW S, NEW c \in Seq(S), NEW e \in S, NEW a, NEW r, NEW q, Way(c, a, r),
           NoneBy(e.by, c), NoneBy(e.by, a), q[e.by].at = "sent",
           GoOn(c, q, r), GoOn(a, q, r)
    PROVE  Way(Append(c, e), a, q)
<1>1. PICK d : d = Append(c, e)
  OBVIOUS
<1>2. PICK m \in Nat : m = Len(c) /\ DOMAIN c = 1..m
  OBVIOUS
<1>3. /\ DOMAIN d = 1..(m + 1)
      /\ \A k \in 1..m : d[k] = c[k]
      /\ d[m + 1] = e
  <2>1. d \in Seq(S) /\ Len(d) = m + 1
    BY <1>1, <1>2, AppendProperties
  <2> QED BY <1>1, <1>2, <2>1, AppendProperties
<1>4. \A k \in 1..(m + 1) : k = m + 1 \/ k \in 1..m
  OBVIOUS
<1>5. \A i \in DOMAIN d : q[d[i].by].at = "sent"
  <2>1. \A i \in 1..m : q[d[i].by].at = "sent"
    BY <1>2, <1>3 DEF Way, GoOn
  <2>2. q[d[m + 1].by].at = "sent"
    BY <1>3
  <2> QED BY <1>3, <1>4, <2>1, <2>2
<1>6. \A i \in DOMAIN a : q[a[i].by].at = "sent"
  BY DEF Way, GoOn
<1>7. \A i, j \in DOMAIN d : d[i].by = d[j].by => i = j
  <2>1. \A i \in 1..m : d[i].by # e.by
    BY <1>2, <1>3 DEF NoneBy
  <2>2. \A i, j \in 1..m : d[i].by = d[j].by => i = j
    BY <1>2, <1>3 DEF Way
  <2> QED BY <1>3, <1>4, <2>1, <2>2
<1>8. \A i \in DOMAIN d, j \in DOMAIN a : d[i].by # a[j].by
  <2>1. \A i \in 1..m, j \in DOMAIN a : d[i].by # a[j].by
    BY <1>2, <1>3 DEF Way
  <2>2. \A j \in DOMAIN a : d[m + 1].by # a[j].by
    BY <1>3 DEF NoneBy
  <2> QED BY <1>3, <1>4, <2>1, <2>2
<1>9. \A i, j \in DOMAIN a : a[i].by = a[j].by => i = j
  BY DEF Way
<1>10. Way(d, a, q)
  BY <1>5, <1>6, <1>7, <1>8, <1>9 DEF Way
<1> QED BY <1>1, <1>10

(* What task t executes changes, that has nothing on the way. *)
LEMMA WayKept ==
    ASSUME NEW c, NEW a, NEW r, NEW q, Way(c, a, r),
           GoOn(c, q, r), GoOn(a, q, r)
    PROVE  Way(c, a, q)
BY DEF Way, GoOn

-----------------------------------------------------------------------------
(* Events: EventsTypeOK, in parts that name what they are about *)
Sent == [by: Tasks, cmd: Commands \cup {ReadAll}]
Answer == [by: Tasks, blocks: Images]
Got == [block: Blocks, state: BlockStates]
MayExecute(t) ==
    {Idle} \cup (IF t = Broadcaster THEN Executing({ReadAll}, Images) ELSE Executing(Commands, Got))
Executes(r) == DOMAIN r = Tasks /\ \A t \in Tasks : r[t] \in MayExecute(t)

(* Of tasks are the entries of the queues. *)
LEMMA OfTask ==
    ASSUME NEW s, s \in Seq(Sent) \/ s \in Seq(Answer), NEW i \in DOMAIN s
    PROVE  s[i].by \in Tasks
<1>1. CASE s \in Seq(Sent)
  <2>1. s[i] \in Sent
    BY <1>1
  <2> QED BY <2>1 DEF Sent
<1>2. CASE s \in Seq(Answer)
  <2>1. s[i] \in Answer
    BY <1>2
  <2> QED BY <2>1 DEF Answer
<1> QED BY <1>1, <1>2

Tied(c, a, r) ==
    /\ \A t \in Tasks : r[t].at = "sent" <=> t \in TasksOf(c) \cup TasksOf(a)
    /\ TasksOf(c) \cap TasksOf(a) = {}
    /\ \A i, j \in DOMAIN c : c[i].by = c[j].by => i = j
    /\ \A i, j \in DOMAIN a : a[i].by = a[j].by => i = j

LEMMA WayIs ==
    ASSUME NEW c \in Seq(Sent), NEW a \in Seq(Answer), NEW r
    PROVE  Tied(c, a, r) <=> Way(c, a, r) /\ Heard(c, a, r)
<1>1. \A i \in DOMAIN c : c[i].by \in Tasks /\ c[i].by \in TasksOf(c)
  BY OfTask DEF TasksOf
<1>2. \A i \in DOMAIN a : a[i].by \in Tasks /\ a[i].by \in TasksOf(a)
  BY OfTask DEF TasksOf
<1>3. \A t \in TasksOf(c) : \E i \in DOMAIN c : t = c[i].by
  BY DEF TasksOf
<1>4. \A t \in TasksOf(a) : \E i \in DOMAIN a : t = a[i].by
  BY DEF TasksOf
<1>5. ASSUME Tied(c, a, r) PROVE Way(c, a, r)
  <2>1. \A i \in DOMAIN c : r[c[i].by].at = "sent"
    BY <1>1, <1>5 DEF Tied
  <2>2. \A i \in DOMAIN a : r[a[i].by].at = "sent"
    BY <1>2, <1>5 DEF Tied
  <2>3. \A i \in DOMAIN c, j \in DOMAIN a : c[i].by # a[j].by
    BY <1>1, <1>2, <1>5 DEF Tied
  <2> QED BY <1>5, <2>1, <2>2, <2>3 DEF Tied, Way
<1>6. ASSUME Tied(c, a, r) PROVE Heard(c, a, r)
  BY <1>6 DEF Tied, Heard
<1>7. ASSUME Way(c, a, r), Heard(c, a, r) PROVE Tied(c, a, r)
  <2>1. \A t \in TasksOf(c) : r[t].at = "sent"
    BY <1>3, <1>7 DEF Way
  <2>2. \A t \in TasksOf(a) : r[t].at = "sent"
    BY <1>4, <1>7 DEF Way
  <2>3. \A t \in Tasks : r[t].at = "sent" => t \in TasksOf(c) \cup TasksOf(a)
    BY <1>7 DEF Heard
  <2>4. TasksOf(c) \cap TasksOf(a) = {}
    BY <1>3, <1>4, <1>7 DEF Way
  <2>5. /\ \A i, j \in DOMAIN c : c[i].by = c[j].by => i = j
        /\ \A i, j \in DOMAIN a : a[i].by = a[j].by => i = j
    BY <1>7 DEF Way
  <2> QED BY <2>1, <2>2, <2>3, <2>4, <2>5 DEF Tied
<1> QED BY <1>5, <1>6, <1>7

LEMMA EventsParts ==
    EventsTypeOK <=>
        /\ {blocks, retained, view} \subseteq Images
        /\ isSynchronized \in BOOLEAN
        /\ commands \in Seq(Sent)
        /\ answers \in Seq(Answer)
        /\ Executes(running)
        /\ changes \in 0..MaxChanges /\ disturbed \in 0..MaxDisturbed
        /\ Way(commands, answers, running) /\ Heard(commands, answers, running)
<1>1. Executes(running) <=>
        /\ DOMAIN running = Tasks
        /\ running[Broadcaster] \in {Idle} \cup Executing({ReadAll}, Images)
        /\ \A c \in Callers : running[c] \in {Idle} \cup Executing(Commands, [block: Blocks, state: BlockStates])
  <2>1. Broadcaster \notin Callers
    BY EventsAssumption
  <2> QED BY <2>1 DEF Executes, MayExecute, Got, Tasks
<1>2. commands \in Seq(Sent) /\ answers \in Seq(Answer) =>
        (OneOnItsWay <=> Way(commands, answers, running) /\ Heard(commands, answers, running))
  BY WayIs DEF OneOnItsWay, Tied
<1> QED BY <1>1, <1>2 DEF EventsTypeOK, Sent, Answer

(* What waits is not idle, and has something to do. *)
LEMMA WaitsFor ==
    ASSUME NEW r, Executes(r), NEW t \in Tasks, r[t].at = "sent" \/ r[t].at = "failed"
    PROVE  r[t] \in (IF t = Broadcaster THEN Executing({ReadAll}, Images) ELSE Executing(Commands, Got))
<1>1. Idle.at # "sent" /\ Idle.at # "failed"
  BY DEF Idle
<1>2. r[t] # Idle
  BY <1>1
<1> QED BY <1>2 DEF Executes, MayExecute

(* Other tasks than t execute in q what they do in r. *)
OthersGoOn(t, q, r) == \A u \in Tasks : u # t => q[u] = r[u]
Entries(s) == s \in Seq(Sent) \/ s \in Seq(Answer)

LEMMA ExecutesOn ==
    ASSUME NEW r, Executes(r), NEW t \in Tasks, NEW x \in MayExecute(t)
    PROVE  /\ Executes([r EXCEPT ![t] = x])
           /\ [r EXCEPT ![t] = x][t] = x
           /\ OthersGoOn(t, [r EXCEPT ![t] = x], r)
BY DEF Executes, OthersGoOn

(* The tasks of what is on the way *)
LEMMA OfTasks ==
    ASSUME NEW t, NEW r, NEW q, OthersGoOn(t, q, r), NEW s, Entries(s), NoneBy(t, s)
    PROVE  GoOn(s, q, r)
<1>1. ASSUME NEW i \in DOMAIN s PROVE s[i].by \in Tasks
  BY OfTask DEF Entries
<1> QED BY <1>1 DEF NoneBy, OthersGoOn, GoOn

LEMMA InitEvents ==
    ASSUME EventsInit
    PROVE  EventsTypeOK
<1>1. Nothing \in Images
  BY EventsAssumption DEF Nothing, Images, BlockStates
<1>2. {blocks, retained, view} \subseteq Images
  BY <1>1 DEF EventsInit
<1>3. isSynchronized \in BOOLEAN /\ commands \in Seq(Sent) /\ answers \in Seq(Answer)
  <2>1. commands = <<>> /\ answers = <<>> /\ isSynchronized = FALSE
    BY DEF EventsInit
  <2> QED BY <2>1, EmptySeq
<1>4. Executes(running)
  BY DEF EventsInit, Executes, MayExecute
<1>5. changes \in 0..MaxChanges /\ disturbed \in 0..MaxDisturbed
  BY EventsAssumption DEF EventsInit
<1>6. Way(commands, answers, running)
  BY DEF EventsInit, Way
<1>7. Heard(commands, answers, running)
  BY DEF EventsInit, Heard, Idle
<1> QED BY <1>2, <1>3, <1>4, <1>5, <1>6, <1>7, EventsParts

(* Task t, that has nothing on the way, sends a command that it may. *)
LEMMA SendsOne ==
    ASSUME NEW t \in Tasks, NEW todo, NEW got, NEW publishes, Sends(t, todo, got, publishes),
           NEW a, a \in Seq(Answer), commands \in Seq(Sent), Executes(running), Way(commands, a, running),
           NoneBy(t, commands), NoneBy(t, a), HeardBut(t, commands, a, running),
           [at |-> "sent", todo |-> todo, got |-> got, publishes |-> publishes] \in MayExecute(t),
           Head(todo) \in Commands \cup {ReadAll}
    PROVE  /\ commands' \in Seq(Sent) /\ Executes(running')
           /\ Way(commands', a, running') /\ Heard(commands', a, running')
<1>1. PICK x : x = [at |-> "sent", todo |-> todo, got |-> got, publishes |-> publishes]
  OBVIOUS
<1>2. x \in MayExecute(t) /\ x.at = "sent"
  BY <1>1
<1>3. PICK e : e = [by |-> t, cmd |-> Head(todo)]
  OBVIOUS
<1>4. e \in Sent /\ e.by = t
  BY <1>3 DEF Sent
<1>5. running' = [running EXCEPT ![t] = x] /\ commands' = Append(commands, e)
  BY <1>1, <1>3 DEF Sends
<1>6. commands' \in Seq(Sent)
  BY <1>4, <1>5
<1>7. PICK q : q = running'
  OBVIOUS
<1>8. Executes(q) /\ q[t] = x /\ OthersGoOn(t, q, running)
  BY <1>2, <1>5, <1>7, ExecutesOn
<1>9. GoOn(commands, q, running) /\ GoOn(a, q, running)
  BY <1>8, OfTasks DEF Entries
<1>10. Way(Append(commands, e), a, q)
  BY <1>2, <1>4, <1>8, <1>9, WayMore
<1>11. HeardBut(t, commands, a, q)
  BY <1>8 DEF HeardBut, OthersGoOn
<1>12. Heard(Append(commands, e), a, q)
  BY <1>4, <1>11, HeardMore
<1> QED BY <1>5, <1>6, <1>7, <1>8, <1>10, <1>12

(* Task t, that has nothing on the way, changes what it executes otherwise. *)
LEMMA GoesOn ==
    ASSUME NEW t \in Tasks, NEW x \in MayExecute(t), NEW q, q = [running EXCEPT ![t] = x],
           NEW c, c \in Seq(Sent), NEW a, a \in Seq(Answer), Executes(running), Way(c, a, running),
           NoneBy(t, c), NoneBy(t, a), HeardBut(t, c, a, running), x.at # "sent"
    PROVE  Executes(q) /\ Way(c, a, q) /\ Heard(c, a, q)
<1>1. Executes(q) /\ OthersGoOn(t, q, running) /\ q[t] = x
  BY ExecutesOn
<1>2. GoOn(c, q, running) /\ GoOn(a, q, running)
  BY <1>1, OfTasks DEF Entries
<1>3. Heard(c, a, q)
  BY <1>1 DEF HeardBut, Heard, OthersGoOn
<1> QED BY <1>1, <1>2, <1>3, WayKept

(* EventsTypeOK after a step, from its parts *)
LEMMA EventsAfter ==
    ASSUME EventsTypeOK, blocks' \in Images, retained' \in Images, view' \in Images,
           isSynchronized' \in BOOLEAN, commands' \in Seq(Sent), answers' \in Seq(Answer),
           Executes(running'), changes' \in 0..MaxChanges, disturbed' \in 0..MaxDisturbed,
           Way(commands', answers', running'), Heard(commands', answers', running')
    PROVE  EventsTypeOK'
<1>1. Executes(running') <=>
        /\ DOMAIN running' = Tasks
        /\ running'[Broadcaster] \in {Idle} \cup Executing({ReadAll}, Images)
        /\ \A c \in Callers : running'[c] \in {Idle} \cup Executing(Commands, [block: Blocks, state: BlockStates])
  <2>1. Broadcaster \notin Callers
    BY EventsAssumption
  <2> QED BY <2>1 DEF Executes, MayExecute, Got, Tasks
<1>2. OneOnItsWay'
  <2>1. Tied(commands', answers', running')
    BY WayIs
  <2> QED BY <2>1 DEF OneOnItsWay, Tied, TasksOf
<1>3. {blocks', retained', view'} \subseteq Images
  OBVIOUS
<1>4. commands' \in Seq([by: Tasks, cmd: Commands \cup {ReadAll}]) /\ answers' \in Seq([by: Tasks, blocks: Images])
  BY DEF Sent, Answer
<1> QED BY ONLY <1>1, <1>2, <1>3, <1>4, Executes(running'), isSynchronized' \in BOOLEAN,
                changes' \in 0..MaxChanges, disturbed' \in 0..MaxDisturbed DEF EventsTypeOK

LEMMA EventsNow ==
    ASSUME EventsTypeOK
    PROVE  /\ blocks \in Images /\ retained \in Images /\ view \in Images
           /\ isSynchronized \in BOOLEAN /\ commands \in Seq(Sent) /\ answers \in Seq(Answer)
           /\ Executes(running) /\ changes \in 0..MaxChanges /\ disturbed \in 0..MaxDisturbed
           /\ Way(commands, answers, running) /\ Heard(commands, answers, running)
BY EventsParts

(* The first of the commands of a call or of a broadcast *)
LEMMA HeadOf ==
    ASSUME NEW S, NEW todo \in Seq(S) \ {<<>>}
    PROVE  Head(todo) \in S /\ Tail(todo) \in Seq(S)
BY HeadTailProperties

LEMMA CallStartsKeeps ==
    ASSUME EventsTypeOK, NEW c \in Callers, NEW p \in Programs, CallStarts(c, p)
    PROVE  EventsTypeOK'
<1>1. c \in Tasks /\ c # Broadcaster
  BY EventsAssumption DEF Tasks
<1>2. p.commands \in Seq(Commands) \ {<<>>} /\ p.publishes \in BOOLEAN
  BY EventsAssumption
<1>3. [at |-> "sent", todo |-> p.commands, got |-> <<>>, publishes |-> p.publishes] \in MayExecute(c)
  <2>1. <<>> \in Seq(Got)
    BY EmptySeq
  <2> QED BY <1>1, <1>2, <2>1 DEF MayExecute, Executing
<1>4. Head(p.commands) \in Commands \cup {ReadAll}
  BY <1>2, HeadOf
<1>5. running[c].at # "sent"
  BY DEF CallStarts, Idle
<1>6. NoneBy(c, commands) /\ NoneBy(c, answers) /\ HeardBut(c, commands, answers, running)
  BY <1>5, EventsNow, IdleIsFree, HeardAll
<1>7. Sends(c, p.commands, <<>>, p.publishes)
  BY DEF CallStarts
<1>8. /\ commands' \in Seq(Sent) /\ Executes(running')
      /\ Way(commands', answers, running') /\ Heard(commands', answers, running')
  BY <1>1, <1>3, <1>4, <1>6, <1>7, EventsNow, SendsOne
<1> QED BY <1>8, EventsNow, EventsAfter DEF CallStarts

LEMMA BroadcastStartsKeeps ==
    ASSUME EventsTypeOK, BroadcastStarts
    PROVE  EventsTypeOK'
<1>1. Broadcaster \in Tasks
  BY DEF Tasks
<1>2. PICK todo : todo = <<ReadAll, ReadAll>>
  OBVIOUS
<1>3. todo \in Seq({ReadAll}) /\ todo # <<>> /\ Head(todo) = ReadAll
  BY <1>2
<1>4. [at |-> "sent", todo |-> todo, got |-> <<>>, publishes |-> TRUE] \in MayExecute(Broadcaster)
  <2>1. <<>> \in Seq(Images)
    BY EmptySeq
  <2> QED BY <1>3, <2>1 DEF MayExecute, Executing
<1>5. running[Broadcaster].at # "sent"
  BY DEF BroadcastStarts, Idle
<1>6. NoneBy(Broadcaster, commands) /\ NoneBy(Broadcaster, answers) /\ HeardBut(Broadcaster, commands, answers, running)
  BY <1>5, EventsNow, IdleIsFree, HeardAll
<1>7. Sends(Broadcaster, todo, <<>>, TRUE)
  BY <1>2 DEF BroadcastStarts
<1>8. /\ commands' \in Seq(Sent) /\ Executes(running')
      /\ Way(commands', answers, running') /\ Heard(commands', answers, running')
  BY <1>1, <1>3, <1>4, <1>6, <1>7, EventsNow, SendsOne
<1> QED BY <1>8, EventsNow, EventsAfter DEF BroadcastStarts

(* Each block as a call has got it last *)
LEMMA Published ==
    ASSUME EventsTypeOK, NEW c, NEW got \in Seq(Got), Publish(c, got)
    PROVE  view' \in Images
<1>1. CASE ~running[c].publishes
  BY <1>1, EventsNow DEF Publish
<1>2. CASE running[c].publishes
  <2> DEFINE About(b) == {i \in DOMAIN got : got[i].block = b}
             Newest(b) == CHOOSE i \in About(b) : \A j \in About(b) : j <= i
             Shown(b) == IF About(b) = {} THEN view[b] ELSE got[Newest(b)].state
  <2>1. view' = [b \in Blocks |-> Shown(b)]
    BY <1>2 DEF Publish
  <2>2. ASSUME NEW b \in Blocks PROVE Shown(b) \in BlockStates
    <3>1. CASE About(b) = {}
      <4>1. view[b] \in BlockStates
        BY EventsNow DEF Images
      <4> QED BY <3>1, <4>1
    <3>2. CASE About(b) # {}
      <4>1. PICK S : S = About(b)
        OBVIOUS
      <4>2. Len(got) \in Nat /\ DOMAIN got = 1..Len(got)
        OBVIOUS
      <4>3. S # {} /\ S \subseteq 0..Len(got)
        BY <3>2, <4>1, <4>2
      <4>4. \E i \in S : \A j \in S : j <= i
        BY <4>2, <4>3, MaxIs
      <4>5. Newest(b) \in S
        BY <4>1, <4>4
      <4>6. Newest(b) \in 1..Len(got)
        BY <4>1, <4>2, <4>5
      <4>7. got[Newest(b)] \in Got
        BY <4>6, ElementOfSeq
      <4> QED BY <3>2, <4>7 DEF Got
    <3> QED BY <3>1, <3>2
  <2> HIDE DEF Shown
  <2> QED BY <2>1, <2>2 DEF Images
<1> QED BY <1>1, <1>2

(* Task t has its answer: what it waited for, and what it has now. *)
LEMMA AnsweredIs ==
    ASSUME EventsTypeOK, NEW t \in Tasks, IsAnswered(t)
    PROVE  /\ Head(answers) \in Answer /\ Tail(answers) \in Seq(Answer)
           /\ Way(commands, Tail(answers), running)
           /\ NoneBy(t, commands) /\ NoneBy(t, Tail(answers))
           /\ HeardBut(t, commands, Tail(answers), running)
           /\ running[t] \in (IF t = Broadcaster THEN Executing({ReadAll}, Images) ELSE Executing(Commands, Got))
<1>1. answers # <<>> /\ Head(answers).by = t /\ running[t].at = "sent"
  BY DEF IsAnswered
<1>2. /\ answers \in Seq(Answer) /\ Executes(running)
      /\ Way(commands, answers, running) /\ Heard(commands, answers, running)
  BY EventsNow
<1>3. Head(answers) \in Answer /\ Tail(answers) \in Seq(Answer)
  BY <1>1, <1>2, HeadTailProperties
<1>4. Way(commands, Tail(answers), running) /\ NoneBy(t, commands) /\ NoneBy(t, Tail(answers))
  BY <1>1, <1>2, AnswerTaken
<1>5. running[t] \in (IF t = Broadcaster THEN Executing({ReadAll}, Images) ELSE Executing(Commands, Got))
  BY <1>1, <1>2, WaitsFor
<1>6. HeardBut(t, commands, Tail(answers), running)
  BY <1>1, <1>2, AnswerHeard
<1> QED BY <1>3, <1>4, <1>5, <1>6

LEMMA IdleMay ==
    ASSUME NEW t
    PROVE  Idle \in MayExecute(t) /\ Idle.at # "sent"
BY DEF MayExecute, Idle

LEMMA CallContinuesKeeps ==
    ASSUME EventsTypeOK, NEW c \in Callers, CallContinues(c)
    PROVE  EventsTypeOK'
<1>1. c \in Tasks /\ c # Broadcaster
  BY EventsAssumption DEF Tasks
<1>2. IsAnswered(c) /\ answers' = Tail(answers)
  BY DEF CallContinues
<1>3. UNCHANGED <<blocks, isSynchronized, retained, changes, disturbed>>
  BY DEF CallContinues
<1>4. /\ Head(answers) \in Answer /\ answers' \in Seq(Answer)
      /\ Way(commands, answers', running)
      /\ NoneBy(c, commands) /\ NoneBy(c, answers')
      /\ HeardBut(c, commands, answers', running)
  BY <1>1, <1>2, AnsweredIs
<1>5. PICK x : x = running[c]
  OBVIOUS
<1>6. /\ x.todo \in Seq(Commands) \ {<<>>} /\ x.got \in Seq(Got) /\ x.publishes \in BOOLEAN
  <2>1. x \in Executing(Commands, Got)
    BY <1>1, <1>2, <1>5, AnsweredIs
  <2> QED BY <2>1 DEF Executing
<1>7. PICK cmd : cmd = Head(x.todo)
  OBVIOUS
<1>8. PICK rest : rest = Tail(x.todo)
  OBVIOUS
<1>9. cmd \in Commands /\ rest \in Seq(Commands)
  BY <1>6, <1>7, <1>8, HeadOf
<1>10. PICK e : e = [block |-> cmd.block, state |-> Head(answers).blocks[cmd.block]]
  OBVIOUS
<1>11. e \in Got
  <2>1. cmd.block \in Blocks
    BY <1>9 DEF Commands
  <2>2. Head(answers).blocks \in Images
    BY <1>4 DEF Answer
  <2>3. Head(answers).blocks[cmd.block] \in BlockStates
    BY <2>1, <2>2 DEF Images
  <2> QED BY <1>10, <2>1, <2>3 DEF Got
<1>12. PICK got : got = Append(x.got, e)
  OBVIOUS
<1>13. got \in Seq(Got)
  BY <1>6, <1>11, <1>12
<1>14. IF rest # <<>>
       THEN Sends(c, rest, got, x.publishes) /\ UNCHANGED view
       ELSE Publish(c, got) /\ running' = [running EXCEPT ![c] = Idle] /\ UNCHANGED commands
  BY <1>5, <1>7, <1>8, <1>10, <1>12 DEF CallContinues
<1>15. commands \in Seq(Sent) /\ Executes(running)
  BY EventsNow
<1>16. CASE rest # <<>>
  <2>1. Sends(c, rest, got, x.publishes) /\ view' = view
    BY <1>14, <1>16
  <2>2. [at |-> "sent", todo |-> rest, got |-> got, publishes |-> x.publishes] \in MayExecute(c)
    BY <1>1, <1>6, <1>9, <1>13, <1>16 DEF MayExecute, Executing
  <2>3. Head(rest) \in Commands \cup {ReadAll}
    BY <1>9, <1>16, HeadOf
  <2>4. /\ commands' \in Seq(Sent) /\ Executes(running')
        /\ Way(commands', answers', running') /\ Heard(commands', answers', running')
    BY <1>1, <1>4, <1>15, <2>1, <2>2, <2>3, SendsOne
  <2> QED BY <1>3, <1>4, <2>1, <2>4, EventsNow, EventsAfter
<1>17. CASE rest = <<>>
  <2>1. Publish(c, got) /\ running' = [running EXCEPT ![c] = Idle] /\ commands' = commands
    BY <1>14, <1>17
  <2>2. view' \in Images
    BY <1>13, <2>1, Published
  <2>3. Executes(running') /\ Way(commands, answers', running') /\ Heard(commands, answers', running')
    BY <1>1, <1>4, <1>15, <2>1, IdleMay, GoesOn
  <2> QED BY <1>3, <1>4, <2>1, <2>2, <2>3, EventsNow, EventsAfter
<1> QED BY <1>16, <1>17

LEMMA BroadcastContinuesKeeps ==
    ASSUME EventsTypeOK, BroadcastContinues
    PROVE  EventsTypeOK'
<1>1. Broadcaster \in Tasks
  BY DEF Tasks
<1>2. IsAnswered(Broadcaster) /\ answers' = Tail(answers)
  BY DEF BroadcastContinues
<1>3. UNCHANGED <<blocks, isSynchronized, changes, disturbed>>
  BY DEF BroadcastContinues
<1>4. /\ Head(answers) \in Answer /\ answers' \in Seq(Answer)
      /\ Way(commands, answers', running)
      /\ NoneBy(Broadcaster, commands) /\ NoneBy(Broadcaster, answers')
      /\ HeardBut(Broadcaster, commands, answers', running)
      /\ running[Broadcaster] \in Executing({ReadAll}, Images)
  BY <1>1, <1>2, AnsweredIs
<1>5. PICK before : before = running[Broadcaster].got
  OBVIOUS
<1>6. before \in Seq(Images)
  BY <1>4, <1>5 DEF Executing
<1>7. PICK image : image = Head(answers).blocks
  OBVIOUS
<1>8. image \in Images
  BY <1>4, <1>7 DEF Answer
<1>9. PICK got : got = Append(before, image)
  OBVIOUS
<1>10. got \in Seq(Images) /\ got[1] \in Images
  <2>1. got \in Seq(Images) /\ Len(got) = Len(before) + 1 /\ Len(before) \in Nat
    BY <1>6, <1>8, <1>9, AppendProperties
  <2>2. 1 \in 1..Len(got)
    BY <2>1
  <2> QED BY <2>1, <2>2, ElementOfSeq
<1>11. IF Len(got) = 1
       THEN Sends(Broadcaster, <<ReadAll>>, got, TRUE) /\ UNCHANGED <<retained, view>>
       ELSE /\ PublishState(got[1])
            /\ running' = [running EXCEPT ![Broadcaster] = Idle]
            /\ UNCHANGED commands
  BY <1>5, <1>7, <1>9 DEF BroadcastContinues
<1>12. commands \in Seq(Sent) /\ Executes(running)
  BY EventsNow
<1>13. CASE Len(got) = 1
  <2>1. PICK todo : todo = <<ReadAll>>
    OBVIOUS
  <2>2. todo \in Seq({ReadAll}) /\ todo # <<>> /\ Head(todo) = ReadAll
    BY <2>1
  <2>3. [at |-> "sent", todo |-> todo, got |-> got, publishes |-> TRUE] \in MayExecute(Broadcaster)
    BY <1>10, <2>2 DEF MayExecute, Executing
  <2>4. Sends(Broadcaster, todo, got, TRUE) /\ retained' = retained /\ view' = view
    BY <1>11, <1>13, <2>1
  <2>5. /\ commands' \in Seq(Sent) /\ Executes(running')
        /\ Way(commands', answers', running') /\ Heard(commands', answers', running')
    BY <1>1, <1>4, <1>12, <2>2, <2>3, <2>4, SendsOne
  <2> QED BY <1>3, <1>4, <2>4, <2>5, EventsNow, EventsAfter
<1>14. CASE Len(got) # 1
  <2>1. /\ retained' = got[1] /\ view' = got[1] /\ commands' = commands
        /\ running' = [running EXCEPT ![Broadcaster] = Idle]
    BY <1>11, <1>14 DEF PublishState
  <2>2. Executes(running') /\ Way(commands, answers', running') /\ Heard(commands, answers', running')
    BY <1>1, <1>4, <1>12, <2>1, IdleMay, GoesOn
  <2> QED BY <1>3, <1>4, <1>10, <2>1, <2>2, EventsNow, EventsAfter
<1> QED BY <1>13, <1>14

LEMMA CallFailsKeeps ==
    ASSUME EventsTypeOK, NEW c \in Callers, CallFails(c)
    PROVE  EventsTypeOK'
<1>1. c \in Tasks
  BY DEF Tasks
<1>2. running[c].at # "sent" /\ running' = [running EXCEPT ![c] = Idle]
  BY DEF CallFails
<1>3. NoneBy(c, commands) /\ NoneBy(c, answers) /\ HeardBut(c, commands, answers, running)
  BY <1>2, EventsNow, IdleIsFree, HeardAll
<1>4. Executes(running') /\ Way(commands, answers, running') /\ Heard(commands, answers, running')
  BY <1>1, <1>2, <1>3, IdleMay, EventsNow, GoesOn
<1> QED BY <1>4, EventsNow, EventsAfter DEF CallFails

LEMMA BroadcastFailsKeeps ==
    ASSUME EventsTypeOK, BroadcastFails
    PROVE  EventsTypeOK'
<1>1. Broadcaster \in Tasks
  BY DEF Tasks
<1>2. running' = [running EXCEPT ![Broadcaster] = Idle]
  BY DEF BroadcastFails
<1>3. running[Broadcaster].at = "failed" \/ running[Broadcaster] = Idle
  BY DEF BroadcastFails
<1>4. running[Broadcaster].at # "sent"
  BY <1>3 DEF Idle
<1>5. /\ NoneBy(Broadcaster, commands) /\ NoneBy(Broadcaster, answers)
      /\ HeardBut(Broadcaster, commands, answers, running)
  BY <1>4, EventsNow, IdleIsFree, HeardAll
<1>6. Executes(running') /\ Way(commands, answers, running') /\ Heard(commands, answers, running')
  BY <1>1, <1>2, <1>5, IdleMay, EventsNow, GoesOn
<1>7. PICK got : got = IF running[Broadcaster] = Idle THEN <<>> ELSE running[Broadcaster].got
  OBVIOUS
<1>8. got \in Seq(Images)
  <2>1. CASE running[Broadcaster] = Idle
    BY <1>7, <2>1, EmptySeq
  <2>2. CASE running[Broadcaster] # Idle
    <3>1. running[Broadcaster] \in Executing({ReadAll}, Images)
      BY <1>1, <1>3, <2>2, EventsNow, WaitsFor
    <3> QED BY <1>7, <2>2, <3>1 DEF Executing
  <2> QED BY <2>1, <2>2
<1>9. PICK image : image = IF got = <<>> THEN Nothing ELSE got[1]
  OBVIOUS
<1>10. image \in Images
  <2>1. CASE got = <<>>
    BY <1>9, <2>1, EventsAssumption DEF Nothing, Images, BlockStates
  <2>2. CASE got # <<>>
    <3>1. Len(got) \in Nat \ {0}
      BY <1>8, <2>2, EmptySeq
    <3>2. 1 \in 1..Len(got)
      BY <3>1
    <3> QED BY <1>8, <1>9, <2>2, <3>2, ElementOfSeq
  <2> QED BY <2>1, <2>2
<1>11. retained' = image /\ view' = image
  BY <1>7, <1>9 DEF BroadcastFails, PublishState
<1> QED BY <1>6, <1>10, <1>11, EventsNow, EventsAfter DEF BroadcastFails

(* A change of a block is one more change; a read is none. *)
LEMMA Applied ==
    ASSUME EventsTypeOK, NEW cmd \in Commands \cup {ReadAll}, Apply(cmd)
    PROVE  blocks' \in Images /\ changes' \in 0..MaxChanges
<1>1. blocks \in Images /\ changes \in 0..MaxChanges /\ MaxChanges \in Nat
  BY EventsNow, EventsAssumption
<1>2. CASE cmd.op \in {"put", "delete"}
  <2>1. ReadAll.op = "readAll"
    BY DEF ReadAll
  <2>2. cmd # ReadAll
    BY <1>2, <2>1
  <2>3. cmd.block \in Blocks
    BY <2>2 DEF Commands
  <2>4. changes < MaxChanges /\ changes' = changes + 1
    BY <1>2 DEF Apply
  <2>5. changes' \in 0..MaxChanges
    BY <1>1, <2>4
  <2>6. PICK x : x = [version |-> changes', there |-> cmd.op = "put"]
    OBVIOUS
  <2>7. x \in BlockStates
    BY <2>5, <2>6 DEF BlockStates
  <2>8. blocks' = [blocks EXCEPT ![cmd.block] = x]
    BY <1>2, <2>6 DEF Apply
  <2>9. blocks' \in Images
    BY <1>1, <2>3, <2>7, <2>8 DEF Images
  <2> QED BY <2>5, <2>9
<1>3. CASE cmd.op \notin {"put", "delete"}
  <2>1. blocks' = blocks /\ changes' = changes
    BY <1>3 DEF Apply
  <2> QED BY <1>1, <2>1
<1> QED BY <1>2, <1>3

(* The first of the commands is taken. *)
LEMMA TakenIs ==
    ASSUME EventsTypeOK, commands # <<>>
    PROVE  /\ Head(commands).by \in Tasks /\ Head(commands).cmd \in Commands \cup {ReadAll}
           /\ Tail(commands) \in Seq(Sent)
           /\ Way(Tail(commands), answers, running)
           /\ NoneBy(Head(commands).by, Tail(commands)) /\ NoneBy(Head(commands).by, answers)
           /\ HeardBut(Head(commands).by, Tail(commands), answers, running)
           /\ running[Head(commands).by].at = "sent"
<1>1. commands \in Seq(Sent) /\ Way(commands, answers, running) /\ Heard(commands, answers, running)
  BY EventsNow
<1>2. Head(commands) \in Sent /\ Tail(commands) \in Seq(Sent)
  BY <1>1, HeadTailProperties
<1>3. Head(commands).by \in Tasks /\ Head(commands).cmd \in Commands \cup {ReadAll}
  BY <1>2 DEF Sent
<1>4. HeardBut(Head(commands).by, Tail(commands), answers, running)
  BY <1>1, CommandHeard
<1> QED BY <1>1, <1>2, <1>3, <1>4, CommandTaken

LEMMA ControllerAnswersKeeps ==
    ASSUME EventsTypeOK, ControllerAnswers
    PROVE  EventsTypeOK'
<1>1. commands # <<>> /\ Apply(Head(commands).cmd) /\ commands' = Tail(commands)
  BY DEF ControllerAnswers
<1>2. UNCHANGED <<isSynchronized, running, retained, view, disturbed>>
  BY DEF ControllerAnswers
<1>3. PICK t : t = Head(commands).by
  OBVIOUS
<1>4. /\ t \in Tasks /\ commands' \in Seq(Sent) /\ Way(commands', answers, running)
      /\ NoneBy(t, commands') /\ NoneBy(t, answers) /\ running[t].at = "sent"
      /\ HeardBut(t, commands', answers, running)
  BY <1>1, <1>3, TakenIs
<1>5. blocks' \in Images /\ changes' \in 0..MaxChanges
  BY <1>1, TakenIs, Applied
<1>6. PICK e : e = [by |-> t, blocks |-> blocks']
  OBVIOUS
<1>7. e \in Answer /\ e.by = t
  BY <1>4, <1>5, <1>6 DEF Answer
<1>8. answers' = Append(answers, e)
  BY <1>3, <1>6 DEF ControllerAnswers
<1>9. answers \in Seq(Answer) /\ Executes(running)
  BY EventsNow
<1>10. answers' \in Seq(Answer)
  BY <1>7, <1>8, <1>9
<1>11. Way(answers, commands', running)
  BY <1>4, WaySwapped
<1>12. GoOn(commands', running, running) /\ GoOn(answers, running, running)
  BY DEF GoOn
<1>13. Way(Append(answers, e), commands', running)
  BY <1>4, <1>7, <1>9, <1>11, <1>12, WayMore
<1>14. Way(commands', answers', running')
  BY <1>2, <1>8, <1>13, WaySwapped
<1>15. HeardBut(t, answers, commands', running)
  BY <1>4 DEF HeardBut
<1>16. Heard(Append(answers, e), commands', running)
  BY <1>7, <1>9, <1>15, HeardMore
<1>17. Heard(commands', answers', running')
  BY <1>2, <1>8, <1>16, HeardSwapped
<1> QED BY <1>2, <1>4, <1>5, <1>9, <1>10, <1>14, <1>17, EventsNow, EventsAfter

(* What is left of a queue of which no task has two entries *)
Single(s) == \A i, j \in DOMAIN s : s[i].by = s[j].by => i = j
PartOf(w, s, t, S) ==
    /\ w \in Seq(S) /\ NoneBy(t, w)
    /\ \A k \in DOMAIN w : \E i \in DOMAIN s : w[k] = s[i]
    /\ Single(w)
    /\ \A u \in TasksOf(s) : u # t => u \in TasksOf(w)

LEMMA QueueLeftIs ==
    ASSUME NEW S, NEW s \in Seq(S), Single(s), NEW t
    PROVE  PartOf(WithoutTask(s, t), s, t, S)
<1>1. Left(WithoutTask(s, t), s, Len(s), t, S)
  BY WithoutTaskIs DEF Single
<1>2. DOMAIN s = 1..Len(s)
  OBVIOUS
<1>3. ASSUME NEW w, Left(w, s, Len(s), t, S) PROVE PartOf(w, s, t, S)
  <2>1. w \in Seq(S) /\ NoneBy(t, w)
    BY <1>3 DEF Left, NoneBy
  <2>2. \A k \in DOMAIN w : \E i \in DOMAIN s : w[k] = s[i]
    BY <1>2, <1>3 DEF Left
  <2>3. Single(w)
    BY <1>3 DEF Left, Single
  <2>4. \A i \in DOMAIN s : s[i].by # t => \E k \in DOMAIN w : w[k] = s[i]
    BY <1>2, <1>3 DEF Left
  <2>5. \A u \in TasksOf(s) : u # t => u \in TasksOf(w)
    BY <2>4 DEF TasksOf
  <2> QED BY <2>1, <2>2, <2>3, <2>5 DEF PartOf
<1> QED BY <1>1, <1>3

LEMMA WayLess ==
    ASSUME NEW c, NEW a, NEW r, Way(c, a, r), NEW d, NEW b,
           NEW t, NEW S, PartOf(d, c, t, S), NEW R, PartOf(b, a, t, R)
    PROVE  Way(d, b, r)
<1>1. \A i \in DOMAIN d : r[d[i].by].at = "sent"
  BY DEF Way, PartOf
<1>2. \A i \in DOMAIN b : r[b[i].by].at = "sent"
  BY DEF Way, PartOf
<1>3. \A i \in DOMAIN d, j \in DOMAIN b : d[i].by # b[j].by
  BY DEF Way, PartOf
<1> QED BY <1>1, <1>2, <1>3 DEF Way, PartOf, Single

(* A task that waited and has failed may do so. *)
LEMMA FailedMay ==
    ASSUME NEW r, Executes(r), NEW t \in Tasks, r[t].at = "sent"
    PROVE  /\ [r[t] EXCEPT !.at = "failed"] \in MayExecute(t)
           /\ [r[t] EXCEPT !.at = "failed"].at # "sent"
<1>1. r[t] \in (IF t = Broadcaster THEN Executing({ReadAll}, Images) ELSE Executing(Commands, Got))
  BY WaitsFor
<1>2. [r[t] EXCEPT !.at = "failed"].at = "failed"
  BY <1>1 DEF Executing
<1> QED BY <1>1, <1>2 DEF MayExecute, Executing

LEMMA CommandFailsKeeps ==
    ASSUME EventsTypeOK, NEW t \in Tasks, CommandFails(t)
    PROVE  EventsTypeOK'
<1>1. /\ commands \in Seq(Sent) /\ answers \in Seq(Answer) /\ Executes(running)
      /\ Way(commands, answers, running) /\ Heard(commands, answers, running)
  BY EventsNow
<1>2. Single(commands) /\ Single(answers)
  BY <1>1 DEF Way, Single
<1>3. commands' = WithoutTask(commands, t) /\ answers' = WithoutTask(answers, t)
  BY DEF CommandFails
<1>4. PartOf(commands', commands, t, Sent)
  BY <1>1, <1>2, <1>3, QueueLeftIs
<1>5. PartOf(answers', answers, t, Answer)
  BY <1>1, <1>2, <1>3, QueueLeftIs
<1>6. /\ Way(commands', answers', running)
      /\ commands' \in Seq(Sent) /\ NoneBy(t, commands')
      /\ answers' \in Seq(Answer) /\ NoneBy(t, answers')
  BY <1>1, <1>4, <1>5, WayLess DEF PartOf
<1>7. HeardBut(t, commands', answers', running)
  BY <1>1, <1>4, <1>5 DEF PartOf, Heard, HeardBut
<1>8. PICK x : x = [running[t] EXCEPT !.at = "failed"]
  OBVIOUS
<1>9. x \in MayExecute(t) /\ x.at # "sent"
  BY <1>1, <1>8, FailedMay DEF CommandFails
<1>10. running' = [running EXCEPT ![t] = x]
  BY <1>8 DEF CommandFails
<1>11. Executes(running') /\ Way(commands', answers', running') /\ Heard(commands', answers', running')
  BY <1>1, <1>6, <1>9, <1>10, <1>7, GoesOn
<1>12. disturbed' \in 0..MaxDisturbed
  <2>1. disturbed \in 0..MaxDisturbed /\ MaxDisturbed \in Nat /\ disturbed < MaxDisturbed /\ disturbed' = disturbed + 1
    BY EventsNow, EventsAssumption DEF CommandFails
  <2> QED BY <2>1
<1> QED BY <1>6, <1>11, <1>12, EventsNow, EventsAfter DEF CommandFails

LEMMA OutOfBoundKeeps ==
    ASSUME EventsTypeOK, OutOfBound
    PROVE  EventsTypeOK'
<1>1. PICK t : t = Head(commands).by
  OBVIOUS
<1>2. commands # <<>> /\ commands' = Tail(commands)
  BY DEF OutOfBound
<1>3. /\ t \in Tasks /\ commands' \in Seq(Sent) /\ Way(commands', answers, running)
      /\ NoneBy(t, commands') /\ NoneBy(t, answers) /\ running[t].at = "sent"
      /\ HeardBut(t, commands', answers, running)
  BY <1>1, <1>2, TakenIs
<1>4. answers \in Seq(Answer) /\ Executes(running)
  BY EventsNow
<1>5. PICK x : x = [running[t] EXCEPT !.at = "failed"]
  OBVIOUS
<1>6. x \in MayExecute(t) /\ x.at # "sent"
  BY <1>3, <1>4, <1>5, FailedMay
<1>7. running' = [running EXCEPT ![t] = x]
  BY <1>1, <1>5 DEF OutOfBound
<1>8. Executes(running') /\ Way(commands', answers, running') /\ Heard(commands', answers, running')
  BY <1>3, <1>4, <1>6, <1>7, GoesOn
<1> QED BY <1>3, <1>8, EventsNow, EventsAfter DEF OutOfBound

LEMMA ConnectionLostKeeps ==
    ASSUME EventsTypeOK, ConnectionLost
    PROVE  EventsTypeOK'
<1>1. Executes(running)
  BY EventsNow
<1>2. commands' = <<>> /\ answers' = <<>> /\ isSynchronized' = FALSE
  BY DEF ConnectionLost
<1>3. commands' \in Seq(Sent) /\ answers' \in Seq(Answer)
  BY <1>2, EmptySeq
<1>4. Way(commands', answers', running')
  BY <1>2 DEF Way
<1>5. running' = [t \in Tasks |-> IF running[t].at = "sent" THEN [running[t] EXCEPT !.at = "failed"] ELSE running[t]]
  BY DEF ConnectionLost
<1>6. ASSUME NEW t \in Tasks PROVE running'[t] \in MayExecute(t) /\ running'[t].at # "sent"
  <2>1. CASE running[t].at = "sent"
    BY <1>1, <1>5, <2>1, FailedMay
  <2>2. CASE running[t].at # "sent"
    BY <1>1, <1>5, <2>2 DEF Executes
  <2> QED BY <2>1, <2>2
<1>7. Executes(running') /\ Heard(commands', answers', running')
  BY <1>5, <1>6 DEF Executes, Heard
<1>8. disturbed' \in 0..MaxDisturbed
  <2>1. disturbed \in 0..MaxDisturbed /\ MaxDisturbed \in Nat /\ disturbed < MaxDisturbed /\ disturbed' = disturbed + 1
    BY EventsNow, EventsAssumption DEF ConnectionLost
  <2> QED BY <2>1
<1> QED BY <1>2, <1>3, <1>4, <1>7, <1>8, EventsNow, EventsAfter DEF ConnectionLost

LEMMA NextEvents ==
    ASSUME EventsTypeOK, EventsNext
    PROVE  EventsTypeOK'
<1>1. ASSUME NEW c \in Callers, NEW p \in Programs, CallStarts(c, p) PROVE EventsTypeOK'
  BY <1>1, CallStartsKeeps
<1>2. ASSUME NEW t \in Tasks, TaskStep(t) PROVE EventsTypeOK'
  BY <1>2, CallContinuesKeeps, CallFailsKeeps, BroadcastStartsKeeps, BroadcastContinuesKeeps,
     BroadcastFailsKeeps DEF TaskStep
<1>3. ASSUME NEW t \in Tasks, CommandFails(t) PROVE EventsTypeOK'
  BY <1>3, CommandFailsKeeps
<1>4. CASE ControllerStep
  BY <1>4, ControllerAnswersKeeps, OutOfBoundKeeps DEF ControllerStep
<1>5. CASE ConnectionLost
  BY <1>5, ConnectionLostKeeps
<1>6. CASE Synchronizes
  BY <1>6, EventsNow, EventsAfter DEF Synchronizes
<1>7. CASE Subscribes
  BY <1>7, EventsNow, EventsAfter DEF Subscribes
<1> QED BY <1>1, <1>2, <1>3, <1>4, <1>5, <1>6, <1>7 DEF EventsNext

(* A task that waits has one command or one answer on the way and others     *)
(* none, and what calls and the broadcaster have got, publish and show are   *)
(* states of blocks: through failures, and connections that are lost.        *)
THEOREM EventsInvariant == BlockDataSpec => [](active = "events" => EventsTypeOK)
<1>1. BlockDataInit => (active = "events" => EventsTypeOK)
  BY InitEvents DEF BlockDataInit
<1>2. (active = "events" => EventsTypeOK) /\ [BlockDataNext]_dataVars => (active = "events" => EventsTypeOK)'
  <2> SUFFICES ASSUME active = "events" => EventsTypeOK, [BlockDataNext]_dataVars, active' = "events"
               PROVE  EventsTypeOK'
    OBVIOUS
  <2>1. active = "events" /\ EventsTypeOK /\ (EventsNext \/ UNCHANGED eventVars)
    BY DEF BlockDataNext, dataVars
  <2>2. CASE UNCHANGED eventVars
    BY <2>1, <2>2, EventsNow, EventsAfter DEF eventVars
  <2> QED BY <2>1, <2>2, NextEvents
<1> QED BY <1>1, <1>2, PTL DEF BlockDataSpec

(* BlockDataTypeOK: every variable of the four parts has its type, for every *)
(* message, sequence, list of blocks and program of commands.                *)
THEOREM BlockDataTypes == BlockDataSpec => []BlockDataTypeOK
<1> DEFINE Moves == active \in {"codec", "lines", "analysis", "events"}
<1>1. BlockDataInit => Moves
  BY DEF BlockDataInit
<1>2. Moves /\ [BlockDataNext]_dataVars => Moves'
  BY DEF BlockDataNext, dataVars
<1>3. /\ Moves /\ CodecInv
      /\ active = "lines" => LinesTypeOK
      /\ active = "analysis" => AnalysisInv
      /\ active = "events" => EventsTypeOK
      => BlockDataTypeOK
  BY DEF BlockDataTypeOK, CodecInv, AnalysisInv
<1> QED BY <1>1, <1>2, <1>3, CodecInvariant, LinesInvariant, AnalysisInvariant, EventsInvariant, PTL DEF BlockDataSpec
=============================================================================
