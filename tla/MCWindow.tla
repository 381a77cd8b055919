------------------------------ MODULE MCWindow ------------------------------
(***************************************************************************)
(* Small instances of parts of the window that owe no answer: the tabs,    *)
(* the options, the history, and the texts that are read or written. The   *)
(* modules share no state, so each behaviour exercises one of them and     *)
(* leaves the others in one state.                                         *)
(***************************************************************************)
EXTENDS WorkArea, Options, QueryHistory, SyntaxCheck, ScriptSplit, DriverFind, ExportTable, Documents

VARIABLE part   \* the module whose steps a behaviour takes

-----------------------------------------------------------------------------
MCScopeOf == [s \in Scripts |-> "multi"]

(* Nested brackets and keys, methods and shorthand names, regular          *)
(* expressions beside divisions, arrows and ternaries, twice the palette.  *)
MCLegal ==
  {<<"id", "(", "{", "str", ":", "0", ",", "id", ":", "[", "{", "$", ":", "str", "}", ",", "{", "}", "]",
     ",", "str", ":", "id", "}", ")">>,
   <<>>,
   <<"(", "{", "id", ",", "id", "}", ")">>,
   <<"(", "{", "id", ",", "id", "(", ")", "{", "}", ",", "sp", "id", "id", "(", ")", "{", "}", "}", ")",
     "[", "0", "]">>,
   <<"id", "=", "/", "[", "/", "{", "]", "bs", "/", "(", "/", ";", "id", "/", "0", "comment", "{", "}">>,
   <<"id", "(", "id", "=", ">", "{", "id", "?", "{", "}", ":", "{", "id", "}", ";", "}", ",", "tpl", ")",
     "nl", "{", "}", "{", "}">>,
   [k \in 1..26 |-> IF k <= 13 THEN "(" ELSE ")"]}

(* Expressions and statements with every kind of quote, comment, bracket   *)
(* and regular expression where the scanner could stop early.              *)
MCExpression(t) == [source |-> t, kind |-> "expr"]
MCStatement(t) == [source |-> t, kind |-> "plain"]
MCShapes ==
  {MCExpression(<<"f", "(", "nl", "x", ",", "[", "a", "/", "b", "]", "nl", ")">>),
   MCExpression(<<"f", "(", "sq", ";", "bs", "sq", "{", "dq", "sq", ")">>),
   MCExpression(<<"dq", "sq", "bs", "dq", "(", "dq">>),
   MCExpression(<<"tick", "bs", "tick", "$", "{", "g", "(", "{", "}", ")", "}", ";", "sq", "tick">>),
   MCExpression(<<"x", "=", "/", "[", "sq", "/", "]", "bs", "/", "(", "/", "g">>),
   MCExpression(<<"f", "/", "*", "sq", ";", "*", "/", "(", ")">>),
   MCExpression(<<"f", "(", "/", "/", "sq", "{", "nl", ")">>),
   MCStatement(<<"var", "sp", "o", "=", "{", "k", "}">>),
   MCStatement(<<"if", "(", "c", ")", "{", "a", ";", "nl", "b", "}">>),
   [source |-> <<"use", "sp", "d">>, kind |-> "use"]}
\* The body of an if on a line of its own.
MCGuarded == {MCStatement(<<"if", "(", "c", ")", "nl", "f", "(", ")">>)}
MCGaps == {<<";", "nl">>, <<"nl">>, <<"sp", "/", "/", "sq", "nl">>}
MCScript == <<[shape |-> [source |-> <<"use", "sp", "d">>, kind |-> "use"], sep |-> <<"nl">>]>>

(* Arguments of find() and sort(): two documents and a call.               *)
MCFilters == {<<"{", "}">>, <<"{", "a", ",", "sq", ")", "bs", "sq", "sq", "}">>}
MCArguments == MCFilters \cup {<<"f", "(", ")">>}
MCNumbers == {-1, 0, 1, 2, 3}

MCShort == [head |-> <<"f", "(">>, args |-> <<>>, calls |-> <<>>, tail |-> <<>>, aggregate |-> FALSE]

(* Documents with and without _id, nested, empty, with null and dots.      *)
MCScalar(x) == [kind |-> "scalar", label |-> x]
MCObject(f) == [kind |-> "object", fields |-> f]
MCField(name, value) == [name |-> <<name>>, value |-> value]
MCExported ==
  {<<>>,
   <<MCField("_id", MCScalar("1"))>>,
   <<MCField("a", MCScalar("2")), MCField("_id", MCScalar("3"))>>,
   <<MCField("a", MCObject(<<>>)), MCField("b", [kind |-> "null"])>>,
   <<MCField("_id", MCObject(<<MCField("a", MCScalar("8"))>>)),
     MCField("a", MCObject(<<MCField("b", MCScalar("4")),
                             MCField("c", MCObject(<<MCField("b", MCScalar("5"))>>))>>))>>,
   <<[name |-> <<"a", "b">>, value |-> MCScalar("6")],
     MCField("b", MCObject(<<MCField("a", MCScalar("7"))>>))>>}

-----------------------------------------------------------------------------
WindowInit ==
  /\ part \in {"work", "options", "history", "syntax", "split", "find", "export", "documents"}
  /\ part = "work" \/ strip = <<Welcome>>
  /\ part = "options" \/ setting = (CHOOSE s \in Settings : ~s.off)
  /\ part = "split" \/ script = MCScript
  /\ part = "find" \/ typed = MCShort
  /\ part = "export" \/ (exported = <<>> /\ format = "csv" /\ flatten = FALSE)
  /\ part = "documents" \/ (coll = [v \in Views |-> First] /\ first = coll /\ front = First /\ policy = "all")
  /\ WorkInit /\ OptionsInit /\ Init /\ CheckInit /\ SplitInit /\ FindInit /\ ExportInit /\ DocumentsInit

WorkOnly ==
  part = "work" /\ UNCHANGED <<part, optionVars, vars, checkVars, splitVars, findVars, exportVars, docVars>>
OptionsOnly ==
  part = "options" /\ UNCHANGED <<part, workVars, vars, checkVars, splitVars, findVars, exportVars, docVars>>
HistoryOnly ==
  part = "history" /\ UNCHANGED <<part, workVars, optionVars, checkVars, splitVars, findVars, exportVars, docVars>>
SyntaxOnly ==
  part = "syntax" /\ UNCHANGED <<part, workVars, optionVars, vars, splitVars, findVars, exportVars, docVars>>
SplitOnly ==
  part = "split" /\ UNCHANGED <<part, workVars, optionVars, vars, checkVars, findVars, exportVars, docVars>>
FindOnly ==
  part = "find" /\ UNCHANGED <<part, workVars, optionVars, vars, checkVars, splitVars, exportVars, docVars>>
ExportOnly ==
  part = "export" /\ UNCHANGED <<part, workVars, optionVars, vars, checkVars, splitVars, findVars, docVars>>
DocumentsOnly ==
  part = "documents" /\ UNCHANGED <<part, workVars, optionVars, vars, checkVars, splitVars, findVars, exportVars>>

\* Bound: in one of the two instances of the program the user leaves the list unfiltered and
\* its first row selected.
OnlyOneBrowses ==
  LET i == CHOOSE i \in Instances : TRUE IN ~pinnedOnly'[i] /\ row'[i] <= 1

WindowNext ==
  \/ WorkOnly /\ WorkNext
  \/ OptionsOnly /\ OptionsNext
  \/ HistoryOnly /\ Next /\ OnlyOneBrowses
  \/ SyntaxOnly /\ CheckNext
  \/ SplitOnly /\ SplitNext
  \/ FindOnly /\ FindNext
  \/ ExportOnly /\ ExportNext
  \/ DocumentsOnly /\ DocumentsNext

windowVars ==
  <<part, workVars, optionVars, vars, checkVars, splitVars, findVars, exportVars, docVars>>

WindowSpec == WindowInit /\ [][WindowNext]_windowVars
-----------------------------------------------------------------------------
\* MongoWorker.cpp:697-744, mongosh_preamble.js:90-193: a script is split where its statements
\* end, and one that the driver runs gets the results that mongosh would give.
ScriptsAreRead == (part = "split" => SplitIsSound) /\ (part = "find" => FindIsSound)

\* A run drops no pinned query (QueryHistory.cpp), a mark of the menu follows its setting
\* (MainWindow.cpp), a write that needs a confirmation is sent after one (Notifier.cpp).
WindowSteps == PinsSurviveRuns /\ ToggledIsMarked /\ GuardedAreAsked
=============================================================================
