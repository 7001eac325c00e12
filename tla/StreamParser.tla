---------------------------- MODULE StreamParser ----------------------------
(***************************************************************************)
(* CboxParser and StreamConnection.data_received(): the text of a stream   *)
(* transport arrives in pieces that begin and end anywhere.  Annotations   *)
(* <...> are taken out of it, also nested ones and ones in the middle of a *)
(* line; what is left are lines.                                           *)
(*                                                                         *)
(* The text is external: any text a controller can send by the assumptions *)
(* of the parser, that no line ends within an annotation and nothing is    *)
(* closed that was not opened.  Blank, Letter and NewLine stand for all    *)
(* characters of their kind.                                               *)
(***************************************************************************)
EXTENDS Naturals, Sequences, FiniteSets, SequencesExt

CONSTANT MaxText    \* bound: characters of a connection

ASSUME ParserAssumption == MaxText \in Nat

VARIABLES
    text,       \* what the controller sends over the connection
    taken,      \* how much of it data_received() has been given
    buffer,     \* _buffer
    events,     \* the messages handed to on_event()
    lines       \* the messages handed to on_response()

parserVars == <<text, taken, buffer, events, lines>>

Start == "<"
End == ">"
NewLine == "\n"
Blank == " "
Letter == "x"
Characters == {Start, End, NewLine, Blank, Letter}

(* The number of annotations that the character at i is in: a bracket is in  *)
(* the annotation it bounds.                                                 *)
Depth(s, i) ==
    Cardinality({k \in 1..i : s[k] = Start}) - Cardinality({k \in 1..(i - 1) : s[k] = End})

Sendable(s) ==
    \A i \in 1..Len(s) :
        /\ s[i] = End => Depth(s, i) > 0
        /\ s[i] = NewLine => Depth(s, i) = 0

Texts == {s \in UNION {[1..n -> Characters] : n \in 0..MaxText} : Sendable(s)}

ParserTypeOK ==
    /\ text \in Seq(Characters)
    /\ taken \in 0..Len(text)
    /\ buffer \in Seq(Characters)
    /\ events \in Seq(Seq(Characters)) /\ lines \in Seq(Seq(Characters))

(* CboxParser.__init__() of a connection over which s is sent *)
ParserStarts(s) ==
    /\ text = s
    /\ taken = 0
    /\ buffer = <<>> /\ events = <<>> /\ lines = <<>>

-----------------------------------------------------------------------------
(* EVENT_PATTERN: from a start to the next end, with no start in between.    *)
(* A match is the pair of positions around the message.                      *)
Annotations(s) ==
    {m \in (DOMAIN s) \X (DOMAIN s) :
        /\ m[1] < m[2] /\ s[m[1]] = Start /\ s[m[2]] = End
        /\ \A k \in (m[1] + 1)..(m[2] - 1) : s[k] \notin {Start, End}}

(* DATA_PATTERN: from the first character to the first newline. *)
FirstLine(s) ==
    {0} \X {j \in DOMAIN s : s[j] = NewLine /\ \A k \in 1..(j - 1) : s[k] # NewLine}

Rstrip(s) ==
    SubSeq(s, 1, Max({0} \cup {i \in DOMAIN s : s[i] \notin {Blank, NewLine}}))

Parsed(rest, messages) == [rest |-> rest, messages |-> messages]

Matches(pattern, s) == IF pattern = "event" THEN Annotations(s) ELSE FirstLine(s)

(* re.sub(count=1) with _extract_message(): the first match is taken out. *)
MutantKeepBlanks(pattern, p) ==
    IF Matches(pattern, p.rest) = {} THEN p
    ELSE LET m == CHOOSE m \in Matches(pattern, p.rest) : \A n \in Matches(pattern, p.rest) : m[1] <= n[1]
         IN  Parsed(SubSeq(p.rest, 1, m[1] - 1) \o SubSeq(p.rest, m[2] + 1, Len(p.rest)),
                    Append(p.messages, SubSeq(p.rest, m[1] + 1, m[2] - 1)))
ExtractMessage(pattern, p) ==
    IF Matches(pattern, p.rest) = {} THEN p
    ELSE LET m == CHOOSE m \in Matches(pattern, p.rest) : \A n \in Matches(pattern, p.rest) : m[1] <= n[1]
         IN  Parsed(SubSeq(p.rest, 1, m[1] - 1) \o SubSeq(p.rest, m[2] + 1, Len(p.rest)),
                    Append(p.messages, Rstrip(SubSeq(p.rest, m[1] + 1, m[2] - 1))))

(* _coerce_message_from_buffer(): again until nothing changes, which is so   *)
(* after a round for every character at the latest.                          *)
CoerceMessages(pattern, s) ==
    LET round[n \in 0..Len(s)] == IF n = 0 THEN Parsed(s, <<>>) ELSE ExtractMessage(pattern, round[n - 1])
    IN  round[Len(s)]

(* push() and data_received() *)
DataReceived(n) ==
    /\ taken + n <= Len(text)
    /\ taken' = taken + n
    /\ LET inEvents == CoerceMessages("event", buffer \o SubSeq(text, taken + 1, taken + n))
           inData == CoerceMessages("data", inEvents.rest)
       IN  /\ events' = events \o inEvents.messages
           /\ lines' = lines \o inData.messages
           /\ buffer' = inData.rest
    /\ UNCHANGED text

(* The connection is lost, and made again with a parser of its own. *)
MutantParserKept ==
    /\ taken > 0
    /\ taken' = 0
    /\ events' = <<>> /\ lines' = <<>>
    /\ UNCHANGED <<text, buffer>>
NewStream ==
    /\ taken > 0
    /\ taken' = 0
    /\ buffer' = <<>> /\ events' = <<>> /\ lines' = <<>>
    /\ UNCHANGED text

ParserNext == NewStream \/ \E n \in 1..MaxText : DataReceived(n)

ParserSpec == (\E s \in Texts : ParserStarts(s)) /\ [][ParserNext]_parserVars

-----------------------------------------------------------------------------
(* The positions P among 1..n, from the first to the last *)
InOrder(P, n) ==
    LET order[k \in 0..n] ==
            IF k = 0 THEN <<>>
            ELSE IF k \in P THEN Append(order[k - 1], k) ELSE order[k - 1]
    IN  order[n]

(* What the characters of s at positions P read. *)
TextAt(s, P) ==
    LET at == InOrder(P, Len(s))
    IN  Rstrip([i \in DOMAIN at |-> s[at[i]]])

(* The annotation that ends at j, without those nested in it. *)
Opened(s, j) == Max({i \in 1..j : s[i] = Start /\ Depth(s, i) = Depth(s, j)})
AnnotationAt(s, j) ==
    TextAt(s, {k \in Opened(s, j)..j : Depth(s, k) = Depth(s, j) /\ s[k] \notin {Start, End}})

(* The line that ends at j, without the annotations in it. *)
LineAt(s, j) ==
    LET before == Max({0} \cup {i \in 1..(j - 1) : s[i] = NewLine})
    IN  TextAt(s, {k \in (before + 1)..j : Depth(s, k) = 0})

(* Events and responses are those of the text as a whole, in the order in    *)
(* which they end, wherever the pieces of data_received() were cut and       *)
(* however annotations nest and interrupt lines; nothing of an earlier       *)
(* connection is in them.                                                    *)
ParsedAsWhole ==
    LET ends == InOrder({i \in 1..taken : text[i] = End}, taken)
        breaks == InOrder({i \in 1..taken : text[i] = NewLine}, taken)
    IN  /\ events = [i \in DOMAIN ends |-> AnnotationAt(text, ends[i])]
        /\ lines = [i \in DOMAIN breaks |-> LineAt(text, breaks[i])]
=============================================================================
