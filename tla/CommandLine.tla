----------------------------- MODULE CommandLine -----------------------------
(***************************************************************************)
(* The startup command line (src/config/cli.go): root options, the start   *)
(* command and its options, read from left to right as argparse did.       *)
(*                                                                         *)
(* A token is what the parser tells apart: the words start and --, the     *)
(* name of an API command, an option with the settings its text can stand  *)
(* for, or any other word.                                                 *)
(***************************************************************************)
EXTENDS Naturals, Sequences, FiniteSets, SequencesExt, Folds

CONSTANTS
    Setting,        \* settings with a command line option
    RootSetting,    \* rootSettingNames: those also accepted before start
    Action          \* what each option does: store, append, many (max_key_fee) or toggle

ASSUME RootAssumption == RootSetting \subseteq Setting

\* One token: its class, the settings an option may mean (several for an ambiguous
\* abbreviation), whether its name is exact, whether it is the --no- form, the value
\* attached with =, and its text as a value.
Token(class, names, exact, negated, attached, text) ==
    [class |-> class, names |-> names, exact |-> exact, negated |-> negated,
     attached |-> attached, text |-> text]
Word(text) == Token("word", {}, TRUE, FALSE, "", text)
Start == Token("start", {}, TRUE, FALSE, "", "start")
End == Token("end", {}, TRUE, FALSE, "", "--")
Command == Token("command", {}, TRUE, FALSE, "", "status")
Flag == Token("flag", {}, TRUE, FALSE, "", "--help")
Option(n) == Token("option", {n}, TRUE, FALSE, "", "--" \o n)
NoOption(n) == Token("option", {n}, TRUE, TRUE, "", "--no-" \o n)
Attached(n, v) == Token("option", {n}, TRUE, FALSE, v, "--" \o n \o "=" \o v)
Abbreviation(names, text) == Token("option", names, FALSE, FALSE, "", text)

\* isCLIOptionToken.
IsOption(t) == t.class \in {"option", "flag", "end"}

NotGiven == <<"absent">>
NoArguments == [n \in Setting |-> NotGiven]

\* Nothing read: no option waits for a value.
Nobody == [name |-> "", values |-> <<>>]
Begin == [mode |-> "root", ended |-> FALSE, command |-> FALSE, help |-> FALSE,
          waiting |-> Nobody, settings |-> NoArguments, unknown |-> 0]

Failed(r) == [r EXCEPT !.mode = "error"]

\* Settings[n] = value, or append.
Store(r, n, value) ==
    [r EXCEPT !.settings[n] = IF Action[n] = "append" /\ @ # NotGiven THEN Append(@, value) ELSE <<value>>,
              !.waiting = Nobody]

\* manyCLIArguments ends: max_key_fee needs a value.
EndMany(r) ==
    IF r.waiting.name = "" THEN r
    ELSE IF r.waiting.values = <<>> THEN Failed(r)
    ELSE [r EXCEPT !.settings[r.waiting.name] = r.waiting.values, !.waiting = Nobody]

\* resolveCLIOption: an exact name wins; only start accepts an abbreviation, and only a
\* unique one.
Resolved(r, t) ==
    LET known == IF r.mode = "start" THEN t.names ELSE t.names \cap RootSetting IN
    IF t.exact \/ r.mode = "start" THEN known ELSE {}

\* applyCLIOption.
ApplyOption(r, t) ==
    LET n == CHOOSE x \in Resolved(r, t) : TRUE IN
    IF Resolved(r, t) = {} THEN [r EXCEPT !.unknown = @ + 1]
    ELSE IF Cardinality(Resolved(r, t)) > 1 THEN Failed(r)
    ELSE IF t.negated /\ Action[n] \notin {"toggle", "many"} THEN [r EXCEPT !.unknown = @ + 1]
    ELSE IF t.negated THEN [r EXCEPT !.settings[n] = <<IF Action[n] = "toggle" THEN "false" ELSE "nil">>]
    ELSE IF Action[n] = "toggle" /\ t.attached # "" THEN Failed(r)
    ELSE IF Action[n] = "toggle" THEN Store(r, n, "true")
    ELSE IF t.attached # "" THEN Store(r, n, t.attached)
    ELSE [r EXCEPT !.waiting = [name |-> n, values |-> <<>>]]

\* Mutant: the options before start are kept.
ReadTokenKeepsRoot(r, t) ==
    IF r.ended /\ r.mode = "start" THEN [r EXCEPT !.unknown = @ + 1]
    ELSE IF t.class = "end" THEN [r EXCEPT !.ended = TRUE, !.unknown = @ + (IF r.mode = "start" THEN 1 ELSE 0)]
    ELSE IF t.class = "start" /\ r.mode = "root" THEN [r EXCEPT !.mode = "start", !.ended = FALSE, !.help = FALSE]
    ELSE IF t.class = "command" /\ r.mode = "root" THEN [r EXCEPT !.mode = "done", !.command = TRUE, !.help = FALSE]
    ELSE IF r.mode = "root" /\ (r.ended \/ ~IsOption(t)) THEN Failed(r)
    ELSE IF ~IsOption(t) THEN [r EXCEPT !.unknown = @ + 1]
    ELSE IF t.class = "flag" THEN [r EXCEPT !.help = TRUE]
    ELSE ApplyOption(r, t)

\* One turn of parseCommandLine's loop; start installs its own defaults, so it forgets
\* the root options.
ReadToken(r, t) ==
    IF r.ended /\ r.mode = "start" THEN [r EXCEPT !.unknown = @ + 1]
    ELSE IF t.class = "end" THEN [r EXCEPT !.ended = TRUE, !.unknown = @ + (IF r.mode = "start" THEN 1 ELSE 0)]
    ELSE IF t.class = "start" /\ r.mode = "root" THEN
            [r EXCEPT !.mode = "start", !.ended = FALSE, !.help = FALSE, !.settings = NoArguments]
    ELSE IF t.class = "command" /\ r.mode = "root" THEN [r EXCEPT !.mode = "done", !.command = TRUE, !.help = FALSE]
    ELSE IF r.mode = "root" /\ (r.ended \/ ~IsOption(t)) THEN Failed(r)
    ELSE IF ~IsOption(t) THEN [r EXCEPT !.unknown = @ + 1]
    ELSE IF t.class = "flag" THEN [r EXCEPT !.help = TRUE]
    ELSE ApplyOption(r, t)

\* oneCLIArgument and manyCLIArguments take the words that follow an option, start and
\* the name of a command included.
Consume(r, t) ==
    IF r.mode \in {"error", "done"} THEN r
    ELSE IF r.waiting.name = "" THEN ReadToken(r, t)
    ELSE IF Action[r.waiting.name] = "many" /\ ~IsOption(t) THEN [r EXCEPT !.waiting.values = Append(@, t.text)]
    ELSE IF Action[r.waiting.name] = "many" THEN LET e == EndMany(r) IN IF e.mode = "error" THEN e ELSE ReadToken(e, t)
    ELSE IF IsOption(t) THEN Failed(r)
    ELSE Store(r, r.waiting.name, t.text)

\* ParseCommandLine.
ParseCommandLine(args) ==
    LET r == FoldLeft(Consume, Begin, args) IN
    IF r.mode \in {"error", "done"} \/ r.waiting.name = "" THEN r
    ELSE IF Action[r.waiting.name] = "many" THEN EndMany(r) ELSE Failed(r)

(***************************************************************************)
(* What the parser is for, said of the whole line at once                  *)
(***************************************************************************)

\* The words right after position i.
Follow(args, i) ==
    LET run == {j \in i + 1 .. Len(args) : \A k \in i + 1 .. j : ~IsOption(args[k])} IN
    [k \in 1 .. Cardinality(run) |-> args[i + k].text]

\* The value an option at position i gives its setting.
ValueAt(args, i, n) ==
    IF args[i].negated THEN <<IF Action[n] = "toggle" THEN "false" ELSE "nil">>
    ELSE IF Action[n] = "toggle" THEN <<"true">>
    ELSE IF args[i].attached # "" THEN <<args[i].attached>>
    ELSE IF Action[n] = "many" THEN Follow(args, i)
    ELSE <<Head(Follow(args, i))>>

\* The settings of "start" followed by options: of the options before --, the last one
\* that names a setting decides, except that a list collects all of them in order.
StartSettings(args, n) ==
    LET live == {i \in DOMAIN args : args[i].names = {n} /\ args[i].class = "option"
                     /\ (args[i].negated => Action[n] \in {"toggle", "many"})
                     /\ \A j \in 1 .. i : args[j].class # "end"}
        last == CHOOSE i \in live : \A j \in live : j <= i
        order == SetToSortSeq(live, LAMBDA a, b : a < b) IN
    IF live = {} THEN NotGiven
    ELSE IF Action[n] = "append" THEN [k \in DOMAIN order |-> ValueAt(args, order[k], n)[1]]
    ELSE ValueAt(args, last, n)
===============================================================================
