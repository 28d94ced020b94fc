------------------------------- MODULE Settings -------------------------------
(***************************************************************************)
(* The settings store (src/config): four layers over the defaults, the     *)
(* YAML file behind the last one, and the conversions between command      *)
(* line, environment, JSON-RPC, YAML and the values the daemon reads.      *)
(*                                                                         *)
(* A value is a Go value: a type and its text, or a list of values.  The   *)
(* universe of texts is small, but it holds a text for every way in which  *)
(* the conversions tell texts apart: what PyYAML reads as a number, a      *)
(* truth value or null, what parses as an integer, as a server or as a     *)
(* key fee.  The file is truncated and written in place, so a crash or a   *)
(* failed write between the two is a state of its own.                     *)
(***************************************************************************)
EXTENDS Naturals, Sequences, SequencesExt

CONSTANTS
    Name,           \* settings of the registry
    Kind,           \* Spec.Kind of each
    DefaultValue,   \* Spec.Default of each
    Alias           \* canonical name of each previous name

Kinds == {"string", "path", "string_choice", "integer", "float", "toggle", "strings", "servers", "max_key_fee"}

ASSUME AliasAssumption == \A a \in DOMAIN Alias : Alias[a] \in Name /\ a \notin Name
ASSUME KindAssumption == Kind \in [Name -> Kinds]

(***************************************************************************)
(* Values                                                                  *)
(***************************************************************************)

Scalar(type, text) == [type |-> type, text |-> text, items |-> <<>>]
List(items) == [type |-> "list", text |-> "", items |-> items]
Fee(amount, currency) == [type |-> "fee", text |-> "", items |-> <<amount, currency>>]
Text(text) == Scalar("str", text)
Number(text) == Scalar("int", text)
Nil == Scalar("nil", "null")
Absent == Scalar("absent", "")      \* no such key in a layer
Bad == Scalar("error", "")          \* the conversion fails

\* Integers outside the machine's range are kept as text (BigInteger).
IntText == {"0", "1", "5", "99999999999999999999"}
FloatText == {"0.0", "1.0", "1.5", "5.0", "1e20"}
ServerText == {"h:5", "h:6", "h:99999999999999999999"}
BigText == {"99999999999999999999", "h:99999999999999999999"}
Truth == {"true", "false"}

\* A scalar as YAML, JSON or the command line gives it, and a list or a fee of such.
IsScalar(v) ==
    /\ v = Scalar(v.type, v.text)
    /\ \/ v = Nil \/ v.type = "str"
       \/ v.type = "bool" /\ v.text \in Truth
       \/ v.type = "int" /\ v.text \in IntText
       \/ v.type = "float" /\ v.text \in FloatText
IsValue(v) ==
    \/ IsScalar(v)
    \/ v = List(v.items) /\ v.items \in Seq(Range(v.items)) /\ \A i \in DOMAIN v.items : IsScalar(v.items[i])
    \/ v = Fee(v.items[1], v.items[2]) /\ IsScalar(v.items[1]) /\ IsScalar(v.items[2])

\* decodePythonYAMLScalar: what PyYAML makes of a plain scalar.
PlainScalar(text) ==
    CASE text \in {"", "null"} -> Nil
      [] text \in Truth -> Scalar("bool", text)
      [] text \in IntText -> Number(text)
      [] text \in FloatText -> Scalar("float", text)
      [] OTHER -> Text(text)

IntOfBool(text) == IF text = "true" THEN "1" ELSE "0"
IntOfFloat(text) ==
    CASE text = "0.0" -> "0" [] text \in {"1.0", "1.5"} -> "1" [] text = "5.0" -> "5"
      [] OTHER -> "99999999999999999999"
FloatOfInt(text) ==
    CASE text = "0" -> "0.0" [] text = "1" -> "1.0" [] text = "5" -> "5.0" [] OTHER -> "1e20"

DeserializeInteger(v) ==
    CASE v.type = "bool" -> Number(IntOfBool(v.text))
      [] v.type = "int" -> v
      [] v.type = "float" -> Number(IntOfFloat(v.text))
      [] v.type = "str" /\ v.text \in IntText -> Number(v.text)
      [] OTHER -> Bad

DeserializeFloat(v) ==
    CASE v.type = "bool" -> Scalar("float", FloatOfInt(IntOfBool(v.text)))
      [] v.type = "int" -> Scalar("float", FloatOfInt(v.text))
      [] v.type = "float" -> v
      [] v.type = "str" /\ v.text \in IntText -> Scalar("float", FloatOfInt(v.text))
      [] v.type = "str" /\ v.text \in FloatText -> Scalar("float", v.text)
      [] OTHER -> Bad

\* deserializeServers: what is not host:port is dropped; what is not a list is empty.
DeserializeServers(v) ==
    LET kept[k \in 0 .. Len(v.items)] ==
            IF k = 0 THEN <<>>
            ELSE IF v.items[k].type = "str" /\ v.items[k].text \in ServerText
                 THEN Append(kept[k - 1], Scalar("server", v.items[k].text)) ELSE kept[k - 1]
    IN  IF v.type = "list" THEN List(kept[Len(v.items)]) ELSE List(<<>>)

Currency == {"BTC", "LBC", "USD"}
Upper(text) == IF text = "usd" THEN "USD" ELSE text

\* strings.Fields.
Fields(text) == IF text = "5 usd" THEN <<Text("5"), Text("usd")>> ELSE <<Text(text)>>

\* deserializeMaxKeyFee: a map keeps its currency as it is, two values are checked.
DeserializeMaxKeyFee(v) ==
    LET items == IF v.type = "str" THEN Fields(v.text) ELSE v.items IN
    CASE v.type = "nil" -> Nil
      [] v.type = "fee" ->
            LET amount == DeserializeFloat(v.items[1]) IN
            IF amount = Bad THEN Bad ELSE Fee(amount, v.items[2])
      [] v.type \in {"str", "list"} /\ Len(items) = 1 /\ items[1] = Text("null") -> Nil
      [] v.type \in {"str", "list"} /\ Len(items) = 2 ->
            LET amount == DeserializeFloat(items[1])
                currency == Upper(items[2].text) IN
            IF amount = Bad \/ currency \notin Currency THEN Bad ELSE Fee(amount, Text(currency))
      [] OTHER -> Bad

Deserialize(kind, v) ==
    CASE kind = "integer" -> DeserializeInteger(v)
      [] kind = "float" -> DeserializeFloat(v)
      [] kind = "servers" -> DeserializeServers(v)
      [] kind = "max_key_fee" -> DeserializeMaxKeyFee(v)
      [] OTHER -> v

\* The values of the setting that has choices.
Choice == {"standard"}

\* validate, which only values of settings_set go through.
Validate(kind, v) ==
    CASE kind \in {"string", "path"} -> v.type = "str"
      [] kind = "string_choice" -> v.type = "str" /\ v.text \in Choice
      [] kind = "integer" -> v.type \in {"bool", "int"}
      [] kind = "float" -> v.type = "float"
      [] kind = "toggle" -> v.type = "bool"
      [] kind = "strings" -> v.type = "list" /\ \A i \in DOMAIN v.items : v.items[i].type = "str"
      [] kind = "servers" -> v.type = "list" /\ \A i \in DOMAIN v.items : v.items[i].type = "server"
      [] kind = "max_key_fee" -> v = Nil \/ (v.type = "fee" /\ v.items[2].text \in Currency)

CleanAndValidate(kind, v) ==
    LET cleaned == Deserialize(kind, v) IN
    IF cleaned = Bad \/ ~Validate(kind, cleaned) THEN Bad ELSE cleaned

\* settings_set decodes a string that starts like a JSON list or object.
JSONList == "[\"h:5\"]"
DecodeSettingJSON(v) ==
    CASE v = Text(JSONList) -> List(<<Text("h:5")>>)
      [] v = Text("[") -> Bad
      [] OTHER -> v

\* stringSetting, integerSetting, floatSetting, boolSetting, stringSliceSetting and
\* serverAddressesSetting: whether the daemon gets a value of the type it asks for.
Readable(kind, v) ==
    CASE kind \in {"string", "path", "string_choice"} -> v.type = "str"
      [] kind = "integer" -> v.type = "bool" \/ (v.type = "int" /\ v.text \notin BigText)
      [] kind = "float" -> v.type = "float"
      [] kind = "toggle" -> v.type = "bool"
      [] kind = "servers" -> v.type = "list" /\ \A i \in DOMAIN v.items : v.items[i].text \notin BigText
      [] OTHER -> TRUE

\* An integer, or the port of a server, outside the machine's range.
Beyond(v) == v.text \in BigText \/ \E i \in DOMAIN v.items : v.items[i].text \in BigText

(***************************************************************************)
(* The file                                                                *)
(***************************************************************************)

Node(style, text) == [style |-> style, text |-> text, items |-> <<>>]
NoNode == Node("none", "")
IsNode(node) ==
    node.style \in {"seq", "map"} =>
        node.items \in Seq(Range(node.items)) /\ (node.style = "map" => Len(node.items) = 2)

\* Mutant: a string is written as it is.
ScalarNodeUnquoted(v) == Node("plain", v.text)

\* pythonYAMLString, yamlFloat and BigInteger: a string that would be read as something
\* else is quoted.
ScalarNode(v) ==
    Node(IF v.type = "str" /\ PlainScalar(v.text).type # "str" THEN "quoted" ELSE "plain", v.text)

\* serialize and the encoder: servers are host:port strings.
Serialize(v) ==
    CASE v.type = "list" ->
            [style |-> "seq", text |-> "", items |-> [i \in DOMAIN v.items |-> ScalarNode(v.items[i])]]
      [] v.type = "fee" ->
            [style |-> "map", text |-> "", items |-> [i \in DOMAIN v.items |-> ScalarNode(v.items[i])]]
      [] v.type = "absent" -> NoNode
      [] OTHER -> ScalarNode(v)

DecodeScalar(node) == IF node.style = "plain" THEN PlainScalar(node.text) ELSE Text(node.text)

\* decodePythonYAMLValue.
Decode(node) ==
    CASE node.style = "seq" -> List([i \in DOMAIN node.items |-> DecodeScalar(node.items[i])])
      [] node.style = "map" -> Fee(DecodeScalar(node.items[1]), DecodeScalar(node.items[2]))
      [] OTHER -> DecodeScalar(node)

\* A file that parses; keys not in the registry are dropped when it is saved.
Key == Name \cup DOMAIN Alias
Yaml(entries) == [parses |-> TRUE, entries |-> entries]
EmptyFile == Yaml([k \in Key |-> NoNode])
Malformed == [parses |-> FALSE, entries |-> [k \in Key |-> NoNode]]
Written(layer) == Yaml([k \in Key |-> IF k \in Name THEN Serialize(layer[k]) ELSE NoNode])

CanonicalOf(k) == IF k \in Name THEN k ELSE Alias[k]
Loaded(f, k) == IF f.entries[k] = NoNode THEN Absent ELSE Deserialize(Kind[CanonicalOf(k)], Decode(f.entries[k]))

\* loadPersisted fails as soon as one entry does.
Loads(f) == f.parses /\ \A k \in Key : Loaded(f, k) # Bad
Upgraded(f) == \E a \in DOMAIN Alias : f.entries[a] # NoNode

\* loadPersisted: a previous name overrides the current one.
LoadPersisted(f) ==
    [n \in Name |->
        LET old == {a \in DOMAIN Alias : Alias[a] = n /\ f.entries[a] # NoNode} IN
        IF old = {} THEN Loaded(f, n) ELSE Loaded(f, CHOOSE a \in old : TRUE)]

(***************************************************************************)
(* The store                                                               *)
(***************************************************************************)

VARIABLES
    layer,          \* runtime, arguments, environment and persisted
    file,           \* daemon_settings.yml; a missing file reads as an empty one
    saving,         \* where saveLocked stands, and the layers its caller restores on failure
    acknowledged,   \* the persisted layer when a load, settings_set or settings_clear last succeeded
    lapse           \* the file does not load, or a crash or a failed write has truncated it since

settingsVars == <<layer, file, saving, acknowledged, lapse>>

Layer == {"runtime", "arguments", "environment", "persisted"}
NoValues == [n \in Name |-> Absent]
NoLayers == [l \in Layer |-> NoValues]
NotSaving == [phase |-> "none", restore |-> NoLayers]

SettingsInit(files) ==
    /\ layer = NoLayers /\ saving = NotSaving
    /\ file \in files
    /\ acknowledged = IF Loads(file) THEN LoadPersisted(file) ELSE NoValues
    /\ lapse = ~Loads(file)

\* effectiveLocked.
Effective(n) ==
    LET first(l, rest) == IF layer[l][n] # Absent THEN layer[l][n] ELSE rest IN
    first("runtime", first("arguments", first("environment", first("persisted", DefaultValue[n]))))

\* loadUnvalidated of an argument, which drops a list that was not given; environment
\* values are strings.
Argument(n, v) ==
    IF v = Absent \/ (v = Nil /\ Kind[n] \in {"servers", "strings"}) THEN Absent
    ELSE Deserialize(Kind[n], v)

Converted(values) == [n \in Name |-> Argument(n, values[n])]
Converts(values) == \A n \in Name : Argument(n, values[n]) # Bad

\* New: the layers are built and the file is loaded.
OpenStore(args, env) ==
    /\ Converts(args) /\ Converts(env) /\ Loads(file)
    /\ layer' = [runtime |-> NoValues, arguments |-> Converted(args),
                 environment |-> Converted(env), persisted |-> LoadPersisted(file)]
    /\ saving' = [phase |-> IF Upgraded(file) THEN "open" ELSE "none", restore |-> NoLayers]
    /\ acknowledged' = LoadPersisted(file)
    /\ lapse' = FALSE
    /\ UNCHANGED file

\* New fails: a value does not convert, or the file does not load.
OpenRefused(args, env) ==
    /\ ~(Converts(args) /\ Converts(env) /\ Loads(file))
    /\ UNCHANGED settingsVars

\* Set: runtime and persisted take the value, and saveLocked begins.
Set(n, raw) ==
    LET given == DecodeSettingJSON(raw)
        value == CleanAndValidate(Kind[n], given) IN
    /\ saving.phase = "none" /\ given # Bad /\ value # Bad
    /\ layer' = [layer EXCEPT !["runtime"][n] = value, !["persisted"][n] = value]
    /\ saving' = [phase |-> "open", restore |-> layer]
    /\ UNCHANGED <<file, acknowledged, lapse>>

\* Clear.
Clear(n) ==
    /\ saving.phase = "none"
    /\ layer' = [layer EXCEPT !["runtime"][n] = Absent, !["persisted"][n] = Absent]
    /\ saving' = [phase |-> "open", restore |-> layer]
    /\ UNCHANGED <<file, acknowledged, lapse>>

\* saveLocked: OpenFile with O_TRUNC.
SaveTruncate ==
    /\ saving.phase = "open"
    /\ file' = EmptyFile
    /\ saving' = [saving EXCEPT !.phase = "write"]
    /\ UNCHANGED <<layer, acknowledged, lapse>>

\* saveLocked: the whole layer is written and the caller returns.
SaveWrite ==
    /\ saving.phase = "write"
    /\ file' = Written(layer["persisted"])
    /\ saving' = NotSaving
    /\ acknowledged' = layer["persisted"]
    /\ lapse' = FALSE
    /\ UNCHANGED layer

\* saveLocked fails: restoreValue puts both layers back; what a failed write leaves in
\* the file may or may not parse.
SaveFails ==
    /\ saving.phase \in {"open", "write"}
    /\ layer' = saving.restore
    /\ saving' = NotSaving
    /\ lapse' = (lapse \/ saving.phase = "write")
    /\ file' \in IF saving.phase = "open" THEN {file} ELSE {EmptyFile, Malformed}
    /\ UNCHANGED acknowledged

\* The process dies; memory is gone.
SettingsCrash ==
    /\ layer' = NoLayers
    /\ saving' = NotSaving
    /\ lapse' = (lapse \/ saving.phase = "write")
    /\ UNCHANGED <<file, acknowledged>>
===============================================================================
