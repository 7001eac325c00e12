--------------------------- MODULE SequenceLines ---------------------------
(***************************************************************************)
(* The instructions of a Sequence block, which are messages for the        *)
(* controller and lines of text for users: resolve_data_ids() of           *)
(* spark_api.py replaces block numbers by names, codec/sequence.py turns   *)
(* instructions into lines, and both back when the lines are written.      *)
(*                                                                         *)
(* A text is a sequence of tokens <<c, n>>: a character, a keyword, or a   *)
(* number n, an integer ("#") or in thousandths (".").  The conversion of  *)
(* units is that of Codec.tla.  Enumerations and other words have no       *)
(* spaces; comments are left out.                                          *)
(***************************************************************************)
EXTENDS Integers, Sequences, FiniteSets, SequencesExt

CONSTANTS
    Vocabulary,     \* the characters and words that texts are made of
    Opcodes,        \* from opcodes to their arguments, in order: <<key, type>>
    Enumerations,   \* names of the values of enumerated fields
    Names,          \* bound: names of blocks, as texts
    Nids,           \* bound: numbers of blocks
    Instructions,   \* bound: what the controller may have at first
    Lines           \* bound: lines that users write

VARIABLES
    store,          \* block_store.inverse: from numbers to names
    instruction,    \* of the controller
    line            \* the last line read

lineVars == <<store, instruction, line>>

C(c) == <<c, 0>>
Word(c) == <<C(c)>>
Space == C(" ")
Comma == C(",")
Equals == C("=")
Quote == C("'")
Dollar == C("$")
Minus == C("-")
Integer(n) == <<"#", n>>
Decimal(n) == <<".", n>>

None == Word("None")
Failed == [ok |-> FALSE]
Succeeded(x) == [ok |-> TRUE, value |-> x]

Texts == Seq(Vocabulary \X Nat)
Punctuation == {" ", ",", "=", "'", "$", "-", "#", "."}
Keywords == Vocabulary \ Punctuation

(* The controller's arguments *)
LinkTo(nid) == [is |-> "link", nid |-> nid]
Variable(name) == [is |-> "var", name |-> name]
Temperature(n, unit) == [is |-> "temperature", amount |-> n, unit |-> unit]
Duration(n) == [is |-> "duration", seconds |-> n]
PlainNumber(n) == [is |-> "number", amount |-> n]
PlainWord(w) == [is |-> "word", text |-> w]

(* What a field of a type holds, unless a variable takes its place *)
Types == {"link", "temperature", "delta", "duration", "plain"}
Absolute == {"C", "F"}
Delta == {"dC", "dF"}
IsOfType(v, type) ==
    \/ v.is = "var" /\ v.name \in Texts /\ v = Variable(v.name)
    \/ type = "link" /\ v.is = "link" /\ v.nid \in Nat /\ v = LinkTo(v.nid)
    \/ /\ type \in {"temperature", "delta"} /\ v.is = "temperature"
       /\ v.amount \in Int /\ v.unit \in (IF type = "delta" THEN Delta ELSE Absolute)
       /\ v = Temperature(v.amount, v.unit)
    \/ type = "duration" /\ v.is = "duration" /\ v.seconds \in Nat /\ v = Duration(v.seconds)
    \/ type = "plain" /\ v.is = "number" /\ v.amount \in Int /\ v = PlainNumber(v.amount)
    \/ type = "plain" /\ v.is = "word" /\ v.text \in {Word(w) : w \in Enumerations} /\ v = PlainWord(v.text)

Keys(op) == {Opcodes[op][n][1] : n \in DOMAIN Opcodes[op]}
IsInstruction(i) ==
    /\ i.op \in DOMAIN Opcodes
    /\ DOMAIN i.args = Keys(i.op)
    /\ \A n \in DOMAIN Opcodes[i.op] : IsOfType(i.args[Opcodes[i.op][n][1]], Opcodes[i.op][n][2])
    /\ i = [op |-> i.op, args |-> [key \in Keys(i.op) |-> i.args[key]]]

(* Opcodes, keys and enumerated values are identifiers, and keys of an       *)
(* opcode differ; blocks with a name have a number and a name.               *)
ASSUME LinesAssumption ==
    /\ Punctuation \cup Absolute \cup Delta \cup {"None", "d", "h", "m", "s"} \subseteq Vocabulary
    /\ \A op \in DOMAIN Opcodes :
        /\ op \in Keywords
        /\ Opcodes[op] \in Seq(Keywords \X Types)
        /\ \A m, n \in DOMAIN Opcodes[op] : Opcodes[op][m][1] = Opcodes[op][n][1] => m = n
    /\ Enumerations \subseteq Keywords
    /\ Nids \subseteq Nat /\ Names \subseteq Texts \ {<<>>} /\ Lines \subseteq Texts
    /\ \A i \in Instructions : IsInstruction(i)

LinesTypeOK ==
    /\ DOMAIN store \subseteq Nids /\ Range(store) \subseteq Names /\ IsInjective(store)
    /\ IsInstruction(instruction)
    /\ \/ line = Failed
       \/ line.value \in Texts /\ line = Succeeded(line.value)

-----------------------------------------------------------------------------
(* str.strip(); str.split(), its pieces by where they begin *)
Strip(s, c) ==
    LET kept == {i \in DOMAIN s : s[i] # c}
    IN  IF kept = {} THEN <<>> ELSE SubSeq(s, Min(kept), Max(kept))

Split(s, c) ==
    LET found == {i \in DOMAIN s : s[i] = c}
        end(b) == Min({i \in found \cup {Len(s) + 1} : i >= b})
    IN  [b \in {1} \cup {i + 1 : i \in found} |-> SubSeq(s, b, end(b) - 1)]

Before(s, c) == IF Contains(s, c) THEN SubSeq(s, 1, Min({i \in DOMAIN s : s[i] = c}) - 1) ELSE s
After(s, c) == IF Contains(s, c) THEN SubSeq(s, Min({i \in DOMAIN s : s[i] = c}) + 1, Len(s)) ELSE <<>>

MutantNotQuoted(s) == s
Quoted(s) == IF Contains(s, Space) THEN <<Quote>> \o s \o <<Quote>> ELSE s

(* serialize_duration(): the periods that fit, the longest first *)
Periods == <<"d", "h", "m", "s">>
SecondsOf == [d |-> 86400, h |-> 3600, m |-> 60, s |-> 1]
SerializeDuration(seconds) ==
    LET left[i \in 0..4] == IF i = 0 THEN seconds ELSE left[i - 1] % SecondsOf[Periods[i]]
        text(i) == IF left[i - 1] < SecondsOf[Periods[i]] THEN <<>>
                   ELSE <<Integer(left[i - 1] \div SecondsOf[Periods[i]]), C(Periods[i])>>
        all == text(1) \o text(2) \o text(3) \o text(4)
    IN  IF all = <<>> THEN <<Integer(0), C("s")>> ELSE all

(* parse_duration(): a number of seconds, or what timeparse() understands *)
ParseDuration(s) ==
    LET periods == 1..(Len(s) \div 2)
        length(i) == SecondsOf[s[2 * i][1]]
        sum[i \in 0..(Len(s) \div 2)] == IF i = 0 THEN 0 ELSE sum[i - 1] + s[2 * i - 1][2] * length(i)
    IN  IF s = <<>> THEN Succeeded(0)
        ELSE IF Len(s) = 1 /\ s[1][1] = "#" THEN Succeeded(s[1][2])
        ELSE IF /\ Len(s) % 2 = 0
                /\ \A i \in periods : s[2 * i - 1][1] = "#" /\ s[2 * i][1] \in DOMAIN SecondsOf
                /\ \A i, j \in periods : i < j => length(i) > length(j)
        THEN Succeeded(sum[Len(s) \div 2])
        ELSE Failed

(* _find_sid() and _find_nid() *)
FindSid(nid) ==
    IF nid = 0 THEN None
    ELSE IF nid \in DOMAIN store THEN store[nid] ELSE <<Integer(nid)>>

IsDigit(sid) == Len(sid) = 1 /\ sid[1][1] = "#"
FindNid(sid) ==
    IF IsDigit(sid) THEN Succeeded(sid[1][2])
    ELSE IF \E nid \in DOMAIN store : store[nid] = sid
    THEN Succeeded(CHOOSE nid \in DOMAIN store : store[nid] = sid)
    ELSE Failed

-----------------------------------------------------------------------------
(* round(amount, 2) of thousandths, to even when in the middle *)
Rounded(n) ==
    LET up == n % 10 > 5 \/ (n % 10 = 5 /\ (n \div 10) % 2 = 1)
    IN  10 * (n \div 10 + IF up THEN 1 ELSE 0)
NumberText(n) == IF n < 0 THEN <<Minus, Decimal(Rounded(-n))>> ELSE <<Decimal(Rounded(n))>>

(* to_line(), after resolve_data_ids(): a link that is not set has no text. *)
ArgText(v) ==
    CASE v.is = "var" -> Quoted(<<Dollar>> \o v.name)
      [] v.is = "link" -> Quoted(FindSid(v.nid))
      [] v.is = "temperature" -> NumberText(v.amount) \o Word(v.unit)
      [] v.is = "duration" -> SerializeDuration(v.seconds)
      [] v.is = "number" -> NumberText(v.amount)
      [] v.is = "word" -> v.text

ToLine(i) ==
    LET declared == Opcodes[i.op]
        entry(n) == Word(declared[n][1]) \o <<Equals>> \o ArgText(i.args[declared[n][1]])
        text[n \in 0..Len(declared)] ==
            IF n = 0 THEN Word(i.op)
            ELSE text[n - 1] \o (IF n = 1 THEN <<Space>> ELSE <<Comma, Space>>) \o entry(n)
    IN  IF \E key \in DOMAIN i.args : i.args[key] = LinkTo(0) THEN Failed
        ELSE Succeeded(text[Len(declared)])

(* parse_arg_entry() of a text without variable, and resolve_data_ids(): a   *)
(* temperature has no sign, and its unit is of the kind of the field.        *)
TemperatureOf(s, units) ==
    LET number == s[1]
        unit == s[Len(s)]
    IN  IF /\ Len(s) >= 2
           /\ number[1] \in {"#", "."}
           /\ \A i \in 2..(Len(s) - 1) : s[i] = Space
           /\ unit \in {C(u) : u \in units}
        THEN Succeeded(Temperature(IF number[1] = "#" THEN 1000 * number[2] ELSE number[2], unit[1]))
        ELSE Failed

(* What is no number has to be the name of a value of the field. *)
NumberOf(s) ==
    CASE Len(s) = 1 /\ s[1][1] = "." -> Succeeded(PlainNumber(s[1][2]))
      [] Len(s) = 1 /\ s[1][1] = "#" -> Succeeded(PlainNumber(1000 * s[1][2]))
      [] Len(s) = 2 /\ s[1] = Minus /\ s[2][1] = "." -> Succeeded(PlainNumber(-s[2][2]))
      [] Len(s) = 2 /\ s[1] = Minus /\ s[2][1] = "#" -> Succeeded(PlainNumber(-1000 * s[2][2]))
      [] \E w \in Enumerations : s = Word(w) -> Succeeded(PlainWord(s))
      [] OTHER -> Failed

ParseArg(type, s) ==
    IF Contains(s, Equals) THEN Failed
    ELSE IF s # <<>> /\ s[1] = Dollar THEN Succeeded(Variable(Tail(s)))
    ELSE CASE type = "link" -> LET nid == FindNid(s) IN IF nid.ok THEN Succeeded(LinkTo(nid.value)) ELSE Failed
           [] type = "temperature" -> TemperatureOf(Strip(s, Space), Absolute)
           [] type = "delta" -> TemperatureOf(Strip(s, Space), Delta)
           [] type = "duration" ->
                LET d == ParseDuration(Strip(s, Space)) IN IF d.ok THEN Succeeded(Duration(d.value)) ELSE Failed
           [] type = "plain" -> NumberOf(s)

(* from_line(): the last of the arguments with the same key counts. *)
FromLine(s) ==
    LET op == Before(s, Space)
        pieces == Split(After(s, Space), Comma)
        entries == {b \in DOMAIN pieces : pieces[b] # <<>>}
        key(b) == Strip(Before(pieces[b], Equals), Space)
        value(b) == Strip(Strip(After(pieces[b], Equals), Space), Quote)
        declared == Opcodes[op[1][1]]
        entryOf(k) == {b \in entries : key(b) = Word(k)}
        parsed(d) == ParseArg(declared[d][2], value(Max(entryOf(declared[d][1]))))
    IN  IF \A o \in DOMAIN Opcodes : op # Word(o) THEN Failed
        ELSE IF \/ \E b \in entries : \A d \in DOMAIN declared : key(b) # Word(declared[d][1])
                \/ \E d \in DOMAIN declared : entryOf(declared[d][1]) = {} \/ ~parsed(d).ok
        THEN Failed
        ELSE Succeeded([op |-> op[1][1],
                        args |-> [k \in Keys(op[1][1]) |->
                                    parsed(CHOOSE d \in DOMAIN declared : declared[d][1] = k).value]])

-----------------------------------------------------------------------------
LinesInit ==
    /\ store \in [Nids -> Names] /\ IsInjective(store)
    /\ instruction \in Instructions
    /\ line = Failed

ReadLine ==
    /\ line' = ToLine(instruction)
    /\ UNCHANGED <<store, instruction>>

(* What cannot be parsed is refused as a whole. *)
WriteLine(s) ==
    /\ instruction' = LET i == FromLine(s) IN IF i.ok THEN i.value ELSE instruction
    /\ UNCHANGED <<store, line>>

WriteBack == line.ok /\ WriteLine(line.value)

(* A block is removed, renamed or created. *)
NamesChange ==
    /\ \E nid \in Nids :
        \/ store' = [n \in (DOMAIN store) \ {nid} |-> store[n]]
        \/ \E name \in Names \ Range(store) :
            store' = [n \in (DOMAIN store) \cup {nid} |-> IF n = nid THEN name ELSE store[n]]
    /\ UNCHANGED <<instruction, line>>

LinesNext == ReadLine \/ WriteBack \/ NamesChange \/ \E s \in Lines : WriteLine(s)

-----------------------------------------------------------------------------
(* A name that a line can hold: from_line() splits also what is quoted, and  *)
(* takes digits for a number and a dollar sign for a variable.               *)
Expressible(name) ==
    /\ {name[i] : i \in DOMAIN name} \cap {Comma, Equals, Quote} = {}
    /\ name[1] # Dollar
    /\ ~IsDigit(name)

Close(m, n) == m - n \in -5..5
SameArg(v, w) ==
    /\ v.is = w.is
    /\ IF v.is \in {"temperature", "number"}
       THEN Close(v.amount, w.amount) /\ (v.is = "temperature" => v.unit = w.unit)
       ELSE v = w
SameInstruction(i, j) == i.op = j.op /\ \A key \in DOMAIN i.args : SameArg(i.args[key], j.args[key])

(* A line that is written as it was read means the same instruction, also    *)
(* for names with spaces around them, blocks without a name and durations of *)
(* every length, up to the two decimals that lines have.  Only names that    *)
(* a line cannot hold change it; a negative temperature is refused.          *)
Holds(v) ==
    CASE v.is = "link" -> v.nid \in DOMAIN store => Expressible(store[v.nid])
      [] v.is = "var" -> {v.name[i] : i \in DOMAIN v.name} \cap {Comma, Equals, Quote} = {}
      [] OTHER -> TRUE

Negative(v) == v.is = "temperature" /\ v.amount < 0

LineKeepsItsMeaning ==
    LET args == {instruction.args[key] : key \in DOMAIN instruction.args}
    IN  WriteBack /\ line = ToLine(instruction) /\ (\A v \in args : Holds(v)) =>
        IF \E v \in args : Negative(v) THEN UNCHANGED instruction
        ELSE /\ FromLine(line.value).ok
             /\ SameInstruction(instruction, instruction')
=============================================================================
