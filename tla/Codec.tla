------------------------------- MODULE Codec -------------------------------
(***************************************************************************)
(* codec/processor.py: how the fields of a block are converted between the *)
(* message of the controller and the JSON data of the API, for reads in    *)
(* every mode, writes and patches.                                         *)
(*                                                                         *)
(* A message, and the data made of it, is a function of the paths of its   *)
(* fields.  A path is a sequence of field tags; the items of a repeated    *)
(* field have negative numbers.  A field has the options of its descriptor *)
(* as flags.  The notations of a value (a typed object, a postfix of its   *)
(* key) are one record here: both say the unit.  The conversions of        *)
(* strings (hexed, hexstr, ipv4address, datetime) and repeated scalars are *)
(* left out, and so are masks in answers of the controller.  Serialization *)
(* is external: unset fields read as zero, unset submessages are left out. *)
(***************************************************************************)
EXTENDS Integers, Sequences, FiniteSets

CONSTANTS
    Fields,     \* the descriptor: from the paths of fields to their flags
    Scale,      \* the option scale of fields with a unit
    Messages,   \* bound: messages the controller may have at first
    Inputs      \* bound: data users patch blocks with

Flags == {"message", "repeated", "readonly", "ignored", "stored", "logged", "unit", "link", "null_if_zero", "omit_if_zero"}
TempUnits == {"degC", "degF"}
Modes == {"DEFAULT", "STORED", "LOGGED"}

VARIABLES
    kind,       \* what codec/__init__.py can make of the type of the block
    device,     \* the message of a block at the controller
    temp,       \* the temperature unit of the UnitConverter
    shown       \* the last read of it: the mode, type and data, and of what

codecVars == <<kind, device, temp, shown>>

(* Objects have fields; of an unknown type, or what cannot be parsed, there  *)
(* is a stub to read.                                                        *)
Kinds == {"object", "Deprecated", "interface", "unknown", "garbled"}

-----------------------------------------------------------------------------
(* OptionElement.address, with 0 for None: an item is no tag, and a message  *)
(* with content no leaf.                                                     *)
Tags(p) == [i \in DOMAIN p |-> IF p[i] < 0 THEN 0 ELSE p[i]]
Options(p) == Fields[Tags(p)]
Has(p, flag) == flag \in Options(p)
Container(p) == Has(p, "message") \/ Has(p, "repeated")
Parent(p) == SubSeq(p, 1, Len(p) - 1)
Within(p) == {SubSeq(p, 1, n) : n \in {n \in 1..Len(p) : p[n] > 0}}

Null == [is |-> "null"]
Object == [is |-> "object"]
Number(n) == [is |-> "number", value |-> n]
Quantity(n, d, unit) == [is |-> "quantity", value |-> <<n, d>>, unit |-> unit]
NullQuantity(unit) == [is |-> "quantity", value |-> <<>>, unit |-> unit]
Link(x) == [is |-> "link", id |-> x]

-----------------------------------------------------------------------------
(* A descriptor says of every field what it is in: an item in a list, and    *)
(* anything else in a message.                                               *)
IsField(a) ==
    /\ a \in Seq(0..9) \ {<<>>}
    /\ Fields[a] \subseteq Flags
    /\ ~({"message", "repeated"} \subseteq Fields[a])
    /\ IF a[Len(a)] = 0
       THEN "message" \in Fields[a] /\ Parent(a) \in DOMAIN Fields /\ "repeated" \in Fields[Parent(a)]
       ELSE Len(a) > 1 => Parent(a) \in DOMAIN Fields /\ "message" \in Fields[Parent(a)]

(* A field is in all that it is nested in. *)
ArePaths(P) ==
    \A p \in P :
        /\ p \in Seq(Int) \ {<<>>} /\ \A i \in 1..Len(p) : p[i] # 0
        /\ Tags(p) \in DOMAIN Fields
        /\ \A n \in 1..Len(p) : SubSeq(p, 1, n) \in P

Numbers == [is : {"number"}, value : Int]
Quantities == [is : {"quantity"}, value : Int \X (Nat \ {0}), unit : TempUnits]
Links == [is : {"link"}, id : Int]

(* Messages have numbers for values, and data can have null instead of all   *)
(* but the items of a list.                                                  *)
IsMessage(message) ==
    /\ ArePaths(DOMAIN message)
    /\ \A p \in DOMAIN message : IF Container(p) THEN message[p] = Object ELSE message[p] \in Numbers
IsData(data) ==
    /\ ArePaths(DOMAIN data)
    /\ \A p \in DOMAIN data :
        /\ data[p] = Null => p[Len(p)] > 0
        /\ IF Container(p) THEN data[p] \in {Object, Null} ELSE data[p] \in Numbers \cup Quantities \cup Links \cup {Null}

ASSUME CodecAssumption ==
    /\ Scale \in Nat \ {0}
    /\ \A a \in DOMAIN Fields : IsField(a)
    /\ \A message \in Messages : IsMessage(message)
    /\ \A data \in Inputs : IsData(data)

(* The last read, and messages as the controller has them *)
CodecTypeOK ==
    /\ kind \in Kinds /\ temp \in TempUnits
    /\ IsMessage(device)
    /\ shown.mode \in Modes \cup {"none"}

-----------------------------------------------------------------------------
Address(data, p) ==
    IF Has(p, "message") /\ data[p] # Null THEN Append(Tags(p), 0) ELSE Tags(p)
IsLeafAddress(a) == \A i \in DOMAIN a : a[i] # 0

(* round(): to even when in the middle *)
Round(n, d) ==
    LET q == n \div d
        twice == 2 * (n % d)
    IN  IF twice > d \/ (twice = d /\ q % 2 = 1) THEN q + 1 ELSE q

(* UnitConverter.to_sys_value() and to_user_value(), of fractions *)
ToSysValue(n, d, unit) == IF unit = "degF" THEN <<5 * (n - 32 * d), 9 * d>> ELSE <<n, d>>
ToUserValue(n, d, unit) == IF unit = "degF" THEN <<9 * n + 160 * d, 5 * d>> ELSE <<n, d>>

-----------------------------------------------------------------------------
(* pre_encode(): _convert_value() *)
MutantUnitIgnored(p, x) ==
    IF x.is = "quantity"
    THEN LET sys == ToSysValue(x.value[1], x.value[2], temp)
         IN  Number(Round(sys[1] * Scale, sys[2]))
    ELSE IF x.is = "link" THEN Number(x.id) ELSE x
EncodeValue(p, x) ==
    IF x.is = "quantity"
    THEN LET sys == ToSysValue(x.value[1], x.value[2], x.unit)
         IN  Number(Round(sys[1] * Scale, sys[2]))
    ELSE IF x.is = "link" THEN Number(x.id) ELSE x

Stripped(p) == Has(p, "ignored") \/ Has(p, "readonly")

(* What pre_encode() keeps: a value goes with the objects it is in. *)
MutantNullKept(data) ==
    [p \in {p \in DOMAIN data : \A q \in Within(p) : ~Stripped(q)} |-> EncodeValue(p, data[p])]
PreEncode(data) ==
    [p \in {p \in DOMAIN data : \A q \in Within(p) : ~Stripped(q) /\ data[q] # Null} |->
        EncodeValue(p, data[p])]

(* The mask of a patch: what is null is in it too. *)
MutantMaskOfKept(data) ==
    {a \in {Address(data, p) : p \in DOMAIN PreEncode(data)} : IsLeafAddress(a)}
MaskFields(data) ==
    {a \in {Address(data, p) : p \in {p \in DOMAIN data : ~Stripped(p)}} : IsLeafAddress(a)}

(* json_format.ParseDict() and MessageToDict(): every scalar of a message    *)
(* that is there has a value, and every repeated field.                      *)
Filled(data) ==
    LET objects == {p \in DOMAIN data : p[Len(p)] < 0 \/ Has(p, "message")}
        scalars == {Append(q, t) : q \in objects \cup {<<>>}, t \in 1..9}
        present == {p \in scalars : Tags(p) \in DOMAIN Fields /\ ~Has(p, "message")}
    IN  [p \in objects \cup present |->
            IF p \in DOMAIN data THEN data[p]
            ELSE IF Has(p, "repeated") THEN Object ELSE Number(0)]

-----------------------------------------------------------------------------
(* post_decode(): _convert_value() *)
DecodeValue(p, x) ==
    LET null == Has(p, "null_if_zero") /\ x = Number(0)
    IN  IF Container(p) THEN x
        ELSE IF Has(p, "unit")
        THEN IF null THEN NullQuantity(temp)
             ELSE LET user == ToUserValue(x.value, Scale, temp) IN Quantity(user[1], user[2], temp)
        ELSE IF Has(p, "link") THEN Link(x.value)
        ELSE IF null THEN Null ELSE x

Filtered(p, mode) ==
    \/ Has(p, "ignored")
    \/ mode = "STORED" /\ ~Has(p, "stored")
    \/ mode = "LOGGED" /\ ~Has(p, "logged")

PostDecode(message, mode) ==
    [p \in {p \in DOMAIN message :
                /\ \A q \in Within(p) : ~Filtered(q, mode)
                /\ ~(Has(p, "omit_if_zero") /\ message[p] = Number(0))} |->
        DecodeValue(p, message[p])]

-----------------------------------------------------------------------------
(* decode_payload(): bytes as they are, fields, or a stub *)
DecodePayload(mode) ==
    CASE kind = "object" -> [type |-> "object", data |-> PostDecode(device, mode)]
      [] kind = "Deprecated" -> [type |-> "Deprecated", data |-> device]
      [] kind = "interface" -> [type |-> "interface", data |-> <<>>]
      [] kind = "unknown" -> [type |-> "UnknownType", data |-> <<>>]
      [] kind = "garbled" -> [type |-> "ErrorObject", data |-> <<>>]

(* encode_payload(): an EncodeException for all others *)
Encodable(type) == type \in {"object", "Deprecated"}
EncodePayload(type, data) == IF type = "object" THEN Filled(PreEncode(data)) ELSE data

CodecInit ==
    /\ kind \in Kinds
    /\ device \in Messages
    /\ temp \in TempUnits
    /\ shown = [mode |-> "none"]

ReadBlock(mode) ==
    /\ shown' = [mode |-> mode, block |-> DecodePayload(mode), of |-> device]
    /\ UNCHANGED <<kind, device, temp>>

SetTemperature(unit) ==
    /\ temp' = unit
    /\ UNCHANGED <<kind, device, shown>>

(* write_block() with what was read: the message replaces that of the        *)
(* controller, which has values of its own for readonly fields.              *)
WriteBlock ==
    /\ shown.mode \in {"DEFAULT", "STORED"}
    /\ LET type == shown.block.type
           data == shown.block.data
       IN  /\ \A p \in DOMAIN data : data[p] # NullQuantity("degC") /\ data[p] # NullQuantity("degF")
           /\ device' = IF Encodable(type) THEN EncodePayload(type, data) ELSE device
    /\ UNCHANGED <<kind, temp, shown>>

(* The controller patches a message: it takes the fields of the mask from    *)
(* the new one, also those that are not set there.                           *)
Covered(p, mask) == \E a \in mask : Len(a) <= Len(p) /\ \A i \in DOMAIN a : a[i] = p[i]
Patched(old, new, mask) ==
    LET kept == {p \in DOMAIN old : ~Covered(p, mask)}
        taken == {p \in DOMAIN new : Covered(p, mask) \/ Has(p, "message")}
    IN  Filled([p \in kept \cup taken |-> IF p \in taken THEN new[p] ELSE old[p]])

PatchBlock(data) ==
    /\ kind = "object"
    /\ device' = Patched(device, PreEncode(data), MaskFields(data))
    /\ UNCHANGED <<kind, temp, shown>>

CodecNext ==
    \/ \E mode \in Modes : ReadBlock(mode)
    \/ \E unit \in TempUnits : SetTemperature(unit)
    \/ WriteBlock
    \/ \E data \in Inputs : PatchBlock(data)

-----------------------------------------------------------------------------
Writable(p) == ~Container(p) /\ \A q \in Within(p) : ~Stripped(q)
ValueIn(message, p) == IF p \in DOMAIN message THEN message[p] ELSE Number(0)

(* Writing back what was read keeps every field that was in the data and can *)
(* be written, whatever units it was read in and the unit is now: values are *)
(* scaled and converted both ways, zeros come back as zeros when they were   *)
(* left out or null, and items stay with their list.  A block that could not *)
(* be read is not overwritten by its stub.                                   *)
KeepsWhatWasRead ==
    WriteBlock =>
        IF kind # "object" THEN device' = device
        ELSE \A p \in DOMAIN shown.of :
                Writable(p) /\ (\A q \in Within(p) : ~Filtered(q, shown.mode))
                => ValueIn(device', p) = shown.of[p]

(* The number of the controller that is nearest to what the user gave. *)
Nearest(number, x) ==
    CASE x.is = "quantity" /\ x.unit = "degC" ->
            LET error == number.value * x.value[2] - x.value[1] * Scale
            IN  2 * error <= x.value[2] /\ -2 * error <= x.value[2]
      [] x.is = "quantity" /\ x.unit = "degF" ->
            LET error == 9 * number.value * x.value[2] - 5 * (x.value[1] - 32 * x.value[2]) * Scale
            IN  2 * error <= 9 * x.value[2] /\ -2 * error <= 9 * x.value[2]
      [] x.is = "link" -> number.value = x.id
      [] OTHER -> number = x

(* A patch changes the fields that its data has, to their values or to zero  *)
(* if null, and no other: not the readonly ones, not the neighbours of a     *)
(* field in the same submessage, and a list only as a whole.                 *)
PatchedAsGiven(data, old, new) ==
    LET given(p) == \E q \in Within(p) : q \in DOMAIN data /\ (data[q] = Null \/ Has(q, "repeated") \/ q = p)
    IN  \A p \in DOMAIN old \cup DOMAIN new :
            ~Container(p) =>
                IF given(p) /\ Writable(p)
                THEN IF p \in DOMAIN data /\ \A q \in Within(p) : data[q] # Null
                     THEN Nearest(ValueIn(new, p), data[p])
                     ELSE ValueIn(new, p) = Number(0)
                ELSE Writable(p) => ValueIn(new, p) = ValueIn(old, p)

PatchesAsGiven == \A data \in Inputs : PatchBlock(data) => PatchedAsGiven(data, device, device')
=============================================================================
