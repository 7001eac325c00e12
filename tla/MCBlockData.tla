---------------------------- MODULE MCBlockData ----------------------------
(***************************************************************************)
(* What users are shown of blocks and may write back, for TLC, each part   *)
(* by itself: active is the one that moves.  The fields of a block, the    *)
(* lines of a sequence, the relations of blocks, and the events with them. *)
(***************************************************************************)
EXTENDS Codec, SequenceLines, BlockAnalysis, BlockEvents, TLC

VARIABLE active

dataVars == <<active, codecVars, lineVars, analysisVars, eventVars>>

(* A message with fields of most kinds: a submessage with a quantity, a      *)
(* readonly field and a quantity that is null if zero; a link; an ignored    *)
(* field; a list of messages; and a field that is left out if zero.          *)
MCFields ==
    (<<1>> :> {"message", "stored", "logged"}) @@ (<<1, 1>> :> {"unit", "stored"})
    @@ (<<1, 2>> :> {"readonly", "logged"}) @@ (<<1, 3>> :> {"unit", "null_if_zero", "stored"})
    @@ (<<2>> :> {"link", "stored"}) @@ (<<3>> :> {"ignored"}) @@ (<<5>> :> {"omit_if_zero", "logged"})
    @@ (<<4>> :> {"repeated", "stored"}) @@ (<<4, 0>> :> {"message"})
    @@ (<<4, 0, 1>> :> {"readonly"}) @@ (<<4, 0, 2>> :> {"stored"})

Given(sub, values, items) ==
    [p \in {<<2>>, <<3>>, <<4>>, <<5>>} \cup (IF sub THEN {<<1>>, <<1, 1>>, <<1, 2>>, <<1, 3>>} ELSE {})
           \cup UNION {{<<4, -i>>, <<4, -i, 1>>, <<4, -i, 2>>} : i \in 1..items} |->
        IF p \in {<<1>>, <<4>>} \/ p[Len(p)] < 0 THEN Object
        ELSE IF p \in DOMAIN values THEN Number(values[p])
        ELSE IF Len(p) = 3 THEN Number(-p[2]) ELSE Number(1)]

MCMessages == {Given(TRUE, (<<1, 1>> :> -3) @@ (<<1, 3>> :> 5) @@ (<<5>> :> 0), 2),
               Given(FALSE, <<5>> :> 7, 0),
               Given(TRUE, (<<1, 1>> :> 7) @@ (<<1, 3>> :> 0), 1)}

MCInputs == {(<<1>> :> Object) @@ (<<1, 1>> :> Quantity(70, 1, "degF")),
             (<<1>> :> Null) @@ (<<2>> :> Link(3)),
             (<<1>> :> Object) @@ (<<1, 1>> :> Null) @@ (<<1, 2>> :> Number(9)) @@ (<<3>> :> Number(5)),
             (<<4>> :> Null),
             (<<4>> :> Object) @@ (<<4, -1>> :> Object) @@ (<<4, -1, 1>> :> Number(9)) @@ (<<4, -1, 2>> :> Number(8))}

MCOpcodes == ("SET_SETPOINT" :> <<<<"target", "link">>, <<"setting", "temperature">>>>)
             @@ ("WAIT_SETPOINT" :> <<<<"target", "link">>, <<"precision", "delta">>>>)
             @@ ("WAIT_DURATION" :> <<<<"duration", "duration">>>>)
             @@ ("SET_PWM" :> <<<<"target", "link">>, <<"setting", "plain">>>>)
             @@ ("RESTART" :> <<>>)

MCEnumerations == {"STATE_INACTIVE", "STATE_ACTIVE"}
MCVocabulary ==
    {" ", ",", "=", "'", "$", "-", "#", ".", "C", "F", "dC", "dF", "None", "d", "h", "m", "s", "a"}
    \cup DOMAIN MCOpcodes \cup {"target", "setting", "precision", "duration"} \cup MCEnumerations

A == C("a")
MCNames == {<<A>>, <<A, Space>>, <<Space, A, Space, A>>, <<A, Comma, A>>, <<A, Quote>>, <<Dollar, A>>,
            <<Integer(2)>>, <<A, Equals>>}

Instruction(op, v, key, w) == [op |-> op, args |-> ("target" :> v) @@ (key :> w)]
MCInstructions ==
    {Instruction("SET_SETPOINT", LinkTo(n), "setting", v) : n \in 0..3,
        v \in {Temperature(-9444, "C"), Temperature(-4, "F"), Temperature(67115, "F"), Variable(<<A, Space>>), Variable(<<A, Comma>>)}}
    \cup {Instruction("SET_PWM", v, "setting", w) :
        v \in {LinkTo(1), Variable(<<A>>)}, w \in {PlainNumber(-12346), PlainWord(Word("STATE_ACTIVE"))}}
    \cup {Instruction("WAIT_SETPOINT", LinkTo(1), "precision", Temperature(1000, "dC"))}
    \cup {[op |-> "WAIT_DURATION", args |-> "duration" :> Duration(n)] : n \in {0, 59, 60, 3600, 3661, 86399, 90060}}
    \cup {[op |-> "RESTART", args |-> <<>>]}

(* SET_SETPOINT target= 0,setting= 40 C *)
MCLines == {Word("SET_SETPOINT") \o <<Space>> \o Word("target") \o <<Equals, Space, Integer(0), Comma>>
            \o Word("setting") \o <<Equals, Space, Integer(40), Space>> \o Word("C")}

MCBlockList == <<"pid", "pwm", "io", "sensor">>
MCData == "pid" :> {<<<<<<"inputId">>, "sensor">>, <<<<"outputId">>, "pwm">>>>,
                    <<<<<<"outputId">>, "pwm">>, <<<<"enabler", "clients", "0">>, "pwm">>>>}
       @@ "pwm" :> {<<<<<<"actuatorId">>, "io">>>>,
                    <<<<<<"constraints", "inputId">>, "pid">>, <<<<"claimedBy">>, "pid">>>>}
       @@ "io" :> {<<>>}
       @@ "sensor" :> {<<<<<<"widgets", "0">>, "pid">>>>}

Command(op, b) == [op |-> op, block |-> b]
MCPrograms == {[commands |-> <<Command("put", "a")>>, publishes |-> TRUE],
               [commands |-> <<Command("put", "a")>>, publishes |-> FALSE],
               [commands |-> <<Command("delete", "a")>>, publishes |-> TRUE],
               [commands |-> <<Command("put", "a"), Command("put", "b")>>, publishes |-> TRUE]}

BlockDataInit ==
    /\ active \in {"codec", "lines", "analysis", "events"}
    /\ IF active = "codec" THEN CodecInit ELSE kind = "object" /\ device = <<>> /\ temp = "degC" /\ shown = [mode |-> "none"]
    /\ IF active = "lines" THEN LinesInit
       ELSE store = <<>> /\ instruction = [op |-> "RESTART", args |-> <<>>] /\ line = Failed
    /\ IF active = "analysis" THEN AnalysisInit
       ELSE /\ links = [b \in BlockIds |-> <<>>]
            /\ claimedBy = [b \in BlockIds |-> Nobody]
            /\ channels = [b \in IoArrays |-> [k \in 1..Channels |-> Nobody]]
            /\ analysis = NoAnalysis
    /\ EventsInit

BlockDataNext ==
    /\ UNCHANGED active
    /\ \/ active = "codec" /\ CodecNext /\ UNCHANGED <<lineVars, analysisVars, eventVars>>
       \/ active = "lines" /\ LinesNext /\ UNCHANGED <<codecVars, analysisVars, eventVars>>
       \/ active = "analysis" /\ AnalysisNext /\ UNCHANGED <<codecVars, lineVars, eventVars>>
       \/ active = "events" /\ EventsNext /\ UNCHANGED <<codecVars, lineVars, analysisVars>>

(* Tasks go on, the controller answers. *)
BlockDataFairness ==
    LET alone == active = "events" /\ UNCHANGED <<active, codecVars, lineVars, analysisVars>>
    IN  /\ \A t \in Tasks : WF_eventVars(alone /\ TaskStep(t))
        /\ WF_eventVars(alone /\ ControllerStep)

BlockDataSpec == BlockDataInit /\ [][BlockDataNext]_dataVars /\ BlockDataFairness

(* Every variable of the four has its type: among them, messages for the     *)
(* controller hold numbers only, and links in them are numbers of blocks.    *)
BlockDataTypeOK ==
    CASE active = "codec" -> CodecTypeOK
      [] active = "lines" -> LinesTypeOK
      [] active = "analysis" -> AnalysisTypeOK
      [] active = "events" -> EventsTypeOK

(* Writing back what was read keeps it: processor.py converts both ways. *)
WriteKeepsWhatWasRead == [][active = "codec" => KeepsWhatWasRead]_codecVars

(* A patch changes what it says, and nothing else: the mask of processor.py. *)
PatchIsExact == [][active = "codec" => PatchesAsGiven]_codecVars

(* A line of a sequence means when it is written what it meant when read. *)
LinesKeepTheirMeaning == [][active = "lines" => LineKeepsItsMeaning]_lineVars

(* The analysis has each claim and each relation that counts once. *)
AnalysisIsExact == [][active = "analysis" => AnalysedExactly]_analysisVars

(* What listeners are shown converges on the blocks of the controller. *)
ViewsConverge == active = "events" => ViewConverges
=============================================================================
