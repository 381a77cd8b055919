------------------------------ MODULE ScriptSplit ------------------------------
(***************************************************************************)
(* What the preamble in the shell makes of a script                        *)
(* (resources/mongosh_preamble.js): _splitStatements() cuts it into        *)
(* statements in one pass over its characters, __robo_prepare() wraps each *)
(* so that its value is kept, the statements run, and __robo_emit() turns  *)
(* what they printed and returned into results.                            *)
(*                                                                         *)
(* A script is put together from statements of known shape, so that what   *)
(* the pass finds can be compared with what is there.  A word is one       *)
(* character, "nl" and "sp" are white space, "sq", "dq" and "tick" the     *)
(* quotes, "bs" the backslash.  How the texts travel to the shell and back *)
(* is in MongoshEngine.                                                    *)
(***************************************************************************)
EXTENDS Integers, Sequences, SequencesExt, FiniteSetsExt

CONSTANTS Shapes,      \* statements: [text, kind], the kind being "expr", "plain" or "use"
          Gaps,  \* the characters between two statements
          MaxStatements,
          BatchSize,   \* __robo_batchSize
          CursorSizes  \* how many documents a query may find

ASSUME SplitAssumption ==
  /\ \A shape \in Shapes : shape.kind \in {"expr", "plain", "use"}
  /\ MaxStatements \in Nat \ {0} /\ BatchSize \in Nat \ {0} /\ CursorSizes \subseteq Nat

VARIABLES script,    \* the statements and the separator after each
          source,      \* the characters of the script
          scan, start, \* i and start of _splitStatements()
          state,     \* N, LC, BC, Sq, Dq, Tl or Rx
          depth,     \* open brackets
          templates, \* tmplStack
          lastNonWs, \* "" at the start of a statement
          stmts,     \* the statements found
          phase,     \* "split", "run", "refused", "emitted" or "failed"
          next,      \* the statement that runs next
          elements,     \* _items
          prints,    \* _pendingPrints
          error,     \* _error
          ran,       \* the statements that printed or returned something, in order
          output     \* the results

scanVars == <<scan, start, state, depth, templates, lastNonWs, stmts>>
runVars == <<next, elements, prints, error, ran, output>>
splitVars == <<script, source, phase, scanVars, runVars>>

Space == {"nl", "sp"}
Quote == [q \in {"sq", "dq", "tick"} |-> CASE q = "sq" -> "Sq" [] q = "dq" -> "Dq" [] q = "tick" -> "Tl"]
OpeningChars == {"(", "[", "{"}
ClosingChars == {")", "]", "}"}
Signs == {"=", "+", "-", "*", "/", "%", "&", "|", "^", "~", "<", ">", "!", "?", ":", ",", ";", ".",
          "bs", "$"}
IsWord(c) == c \notin Space \cup DOMAIN Quote \cup OpeningChars \cup ClosingChars \cup Signs \cup {""}
CanEndStmt(c) == IsWord(c) \/ c \in {"$", ")", "]", "sq", "dq", "tick", "/"}
Continuations == {".", "(", "[", "+", "-", "*", "/", "%", "&", "|", "^", "?", ":", ","}
BeforeRegex == {"", "=", "+", "-", "*", "%", "&", "|", "^", "~", "<", ">", "!", "?", ":", ",", ";",
                "(", "{", "["}
Declares == {"var", "let", "const", "function", "class", "if", "for", "while", "do", "switch", "try",
             "return", "throw", "break", "continue", "with", "debugger", "import", "export"}

Trimmed(s) ==
  LET ink == {k \in DOMAIN s : s[k] \notin Space} IN
  IF ink = {} THEN <<>> ELSE SubSeq(s, Min(ink), Max(ink))

WrittenScripts ==
  UNION {[1..n -> [shape : Shapes, sep : Gaps]] : n \in 1..MaxStatements}
WrittenScript(s) == FlattenSeq([k \in DOMAIN s |-> s[k].shape.source \o s[k].sep])

SplitInit ==
  /\ script \in WrittenScripts
  /\ source = WrittenScript(script)
  /\ scan = 1 /\ start = 1 /\ state = "N" /\ depth = 0 /\ templates = <<>> /\ lastNonWs = ""
  /\ stmts = <<>> /\ phase = "split"
  /\ next = 1 /\ elements = <<>> /\ prints = <<>> /\ error = FALSE /\ ran = <<>> /\ output = <<>>

At(k) == IF k \in DOMAIN source THEN source[k] ELSE ""
CharHere == At(scan)
PeekNext ==
  LET ink == {k \in DOMAIN source : k > scan /\ source[k] \notin Space} IN
  IF ink = {} THEN "" ELSE source[Min(ink)]

\* A line break here ends the statement.
EndsLine ==
  /\ CharHere = "nl" /\ depth = 0 /\ CanEndStmt(lastNonWs)
  /\ PeekNext # "" /\ PeekNext \notin Continuations

Scanning == phase = "split" /\ scan <= Len(source) /\ UNCHANGED <<script, source, phase, runVars>>
Skip(k) == scan' = scan + k

\* flush(), and past the character that ends the statement.
Flush ==
  /\ LET s == Trimmed(SubSeq(source, start, scan - 1)) IN
       stmts' = IF s = <<>> THEN stmts ELSE Append(stmts, s)
  /\ start' = scan + 1 /\ lastNonWs' = "" /\ Skip(1)

Stays == UNCHANGED <<start, lastNonWs, stmts>>

\* // ...
LineComment ==
  /\ Scanning /\ state = "LC"
  /\ state' = IF CharHere = "nl" THEN "N" ELSE "LC"
  /\ IF EndsLine THEN Flush ELSE Skip(1) /\ Stays
  /\ UNCHANGED <<depth, templates>>

BlockComment ==
  /\ Scanning /\ state = "BC"
  /\ IF CharHere = "*" /\ At(scan + 1) = "/" THEN state' = "N" /\ Skip(2) ELSE state' = "BC" /\ Skip(1)
  /\ Stays /\ UNCHANGED <<depth, templates>>

\* A string.
Quoted ==
  /\ Scanning /\ state \in {"Sq", "Dq"}
  /\ Skip(IF CharHere = "bs" THEN 2 ELSE 1)
  /\ IF CharHere \in DOMAIN Quote /\ Quote[CharHere] = state
     THEN state' = "N" /\ lastNonWs' = CharHere ELSE UNCHANGED <<state, lastNonWs>>
  /\ UNCHANGED <<start, stmts, depth, templates>>

\* A template; ${ goes back to normal until its bracket is closed.
Template ==
  /\ Scanning /\ state = "Tl"
  /\ \/ /\ CharHere = "bs" /\ Skip(2) /\ UNCHANGED <<state, lastNonWs, depth, templates>>
     \/ /\ CharHere = "tick" /\ Skip(1) /\ state' = "N" /\ lastNonWs' = "tick"
        /\ UNCHANGED <<depth, templates>>
     \/ /\ CharHere = "$" /\ At(scan + 1) = "{"
        /\ Skip(2) /\ state' = "N" /\ depth' = depth + 1 /\ templates' = Append(templates, depth)
        /\ UNCHANGED lastNonWs
     \/ /\ CharHere \notin {"bs", "tick"} /\ ~(CharHere = "$" /\ At(scan + 1) = "{")
        /\ Skip(1) /\ UNCHANGED <<state, lastNonWs, depth, templates>>
  /\ UNCHANGED <<start, stmts>>

\* The ] of a class in a regular expression.
ClassEnd ==
  LET ends == {k \in DOMAIN source : k > scan /\ source[k] = "]" /\ source[k - 1] # "bs"} IN
  IF ends = {} THEN Len(source) + 1 ELSE Min(ends)

RegularExpression ==
  /\ Scanning /\ state = "Rx"
  /\ \/ CharHere = "bs" /\ Skip(2) /\ UNCHANGED <<state, lastNonWs>>
     \/ CharHere = "[" /\ scan' = ClassEnd + 1 /\ UNCHANGED <<state, lastNonWs>>
     \/ /\ CharHere \in {"/", "nl"} /\ state' = "N"
        /\ Skip(IF CharHere = "/" /\ At(scan + 1) = "g" THEN 2 ELSE 1)
        /\ lastNonWs' = IF CharHere = "/" THEN "/" ELSE lastNonWs
     \/ CharHere \notin {"bs", "[", "/", "nl"} /\ Skip(1) /\ UNCHANGED <<state, lastNonWs>>
  /\ UNCHANGED <<start, stmts, depth, templates>>

ClosesTemplate == CharHere = "}" /\ templates # <<>> /\ depth = Last(templates) + 1

\* A comment, a regular expression or a division.
LoneSlash ==
  /\ Scanning /\ state = "N" /\ CharHere = "/"
  /\ \/ At(scan + 1) = "/" /\ Skip(2) /\ state' = "LC" /\ UNCHANGED lastNonWs
     \/ At(scan + 1) = "*" /\ Skip(2) /\ state' = "BC" /\ UNCHANGED lastNonWs
     \/ /\ At(scan + 1) \notin {"/", "*"} /\ lastNonWs \in BeforeRegex
        /\ Skip(1) /\ state' = "Rx" /\ UNCHANGED lastNonWs
     \/ /\ At(scan + 1) \notin {"/", "*"} /\ lastNonWs \notin BeforeRegex
        /\ Skip(1) /\ lastNonWs' = "/" /\ UNCHANGED state
  /\ UNCHANGED <<start, stmts, depth, templates>>

\* A quote or a bracket.
Nests ==
  /\ Scanning /\ state = "N" /\ Skip(1)
  /\ \/ /\ ClosesTemplate
        /\ state' = "Tl" /\ depth' = depth - 1 /\ templates' = Front(templates)
        /\ UNCHANGED lastNonWs
     \/ /\ CharHere \in DOMAIN Quote /\ state' = Quote[CharHere] /\ UNCHANGED <<lastNonWs, depth, templates>>
     \/ /\ CharHere \in OpeningChars /\ depth' = depth + 1 /\ lastNonWs' = CharHere
        /\ UNCHANGED <<state, templates>>
     \/ /\ CharHere \in ClosingChars /\ ~ClosesTemplate /\ depth' = depth - 1 /\ lastNonWs' = CharHere
        /\ UNCHANGED <<state, templates>>
  /\ UNCHANGED <<start, stmts>>

\* Any other character; a semicolon or a line break may end the statement.
Plain ==
  /\ Scanning /\ state = "N"
  /\ CharHere \notin DOMAIN Quote \cup OpeningChars \cup ClosingChars \cup {"/"}
  /\ IF EndsLine \/ (CharHere = ";" /\ depth = 0) THEN Flush
     ELSE /\ Skip(1) /\ UNCHANGED <<start, stmts>>
          /\ lastNonWs' = IF CharHere \in Space THEN lastNonWs ELSE CharHere
  /\ UNCHANGED <<state, depth, templates>>

\* The end of the text; the preamble then checks that what it wrapped can be parsed, and a
\* script that cannot is refused.
EndOfText ==
  /\ phase = "split" /\ scan > Len(source)
  /\ LET tail == Trimmed(SubSeq(source, start, Len(source))) IN
       stmts' = IF tail = <<>> THEN stmts ELSE Append(stmts, tail)
  /\ phase' \in {"run", "refused"}
  /\ UNCHANGED <<script, source, scan, start, state, depth, templates, lastNonWs, runVars>>
-----------------------------------------------------------------------------
\* How __robo_prepare() wraps a statement: _isExprStmt(), and the use of the shell.
Wrapped(s) ==
  IF s[1] = "use" /\ Len(s) = 3 /\ s[2] \in Space THEN "use"
  ELSE IF s[1] \in Declares \cup {"{", ";"} THEN "plain" ELSE "expr"

\* Mutant: what is printed before a value comes after it.
FlushedLate(lines, kept) == kept

\* _flushPrints(): the lines printed so far become one item.
Flushed(lines, kept) ==
  IF lines = <<>> THEN kept ELSE Append(kept, [type |-> "text", from |-> lines, size |-> 0])

Values(s) ==
  CASE Wrapped(s) = "plain" -> {[type |-> "none", size |-> 0]}
    [] Wrapped(s) = "use" -> {[type |-> "text", size |-> 0]}
    [] Wrapped(s) = "expr" -> [type : {"query"}, size : CursorSizes]
                                \cup [type : {"value", "undefined"}, size : {0}]

\* One statement: it may print a line or a document first; then it throws, or has a value
\* that __robo_push() or __robo_text() keeps.
RunStatement ==
  /\ phase = "run" /\ ~error /\ next <= Len(stmts)
  /\ next' = next + 1
  /\ \E printed \in {"nothing", "line", "document"}, v \in Values(stmts[next]), throws \in BOOLEAN :
       LET lines == IF printed = "line" THEN Append(prints, next) ELSE prints
           kept == IF printed # "document" THEN elements
                   ELSE Append(Flushed(lines, elements), [type |-> "value", from |-> <<next>>, size |-> 0])
           left == IF printed = "document" THEN <<>> ELSE lines
           said == IF printed = "nothing" THEN ran ELSE Append(ran, next) IN
       /\ error' = throws
       /\ IF throws \/ v.type = "none" THEN prints' = left /\ elements' = kept /\ ran' = said
          ELSE /\ prints' = <<>>
               /\ elements' = Append(Flushed(left, kept),
                                     [type |-> v.type, from |-> <<next>>, size |-> v.size])
               /\ ran' = IF v.type = "undefined" THEN said ELSE Append(said, next)
  /\ UNCHANGED <<script, source, phase, scanVars, output>>

\* What an item becomes: a cursor is read only now, and its reading may fail.
Results(item) ==
  CASE item.type = "undefined" -> {<<>>}
    [] item.type = "query" -> {<<[item EXCEPT !.size = Min({@, BatchSize})]>>,
                               <<[item EXCEPT !.type = "error", !.size = 0]>>}
    [] OTHER -> {<<item>>}

\* __robo_emit().
Emit ==
  /\ phase = "run" /\ (error \/ next > Len(stmts))
  /\ LET all == Flushed(prints, elements)
         choices == [DOMAIN all -> UNION {Results(all[k]) : k \in DOMAIN all}] IN
       \E f \in choices :
         /\ \A k \in DOMAIN all : f[k] \in Results(all[k])
         /\ output' = FlattenSeq(f) \o (IF error THEN <<[type |-> "error", from |-> <<>>, size |-> 0]>> ELSE <<>>)
  /\ elements' = <<>> /\ prints' = <<>> /\ error' = FALSE
  /\ phase' = IF error THEN "failed" ELSE "emitted"
  /\ UNCHANGED <<script, source, scanVars, next, ran>>

SplitNext ==
  \/ LineComment \/ BlockComment \/ Quoted \/ Template \/ RegularExpression \/ LoneSlash \/ Nests \/ Plain
  \/ EndOfText \/ RunStatement \/ Emit

SplitSpec == SplitInit /\ [][SplitNext]_splitVars
-----------------------------------------------------------------------------
\* The statements as they were written.
AsWritten == [k \in DOMAIN script |-> Trimmed(script[k].shape.source)]
Separated == \A k \in DOMAIN script : script[k].sep # <<>> /\ script[k].sep[1] = ";"

\* Every variable stays in its type, and no bracket or template is left open by a text whose
\* statements leave none open.
SplitTypeOK ==
  /\ start <= scan /\ scan <= Len(source) + 2
  /\ state \in {"N", "LC", "BC", "Sq", "Dq", "Tl", "Rx"}
  /\ phase \in {"split", "run", "emitted", "failed", "refused"} /\ error \in BOOLEAN
  /\ next \in 1 .. Len(stmts) + 1
  /\ \A k \in DOMAIN elements :
       elements[k].from # <<>> /\ \A j \in DOMAIN elements[k].from : elements[k].from[j] < next
  /\ \A k \in DOMAIN templates : templates[k] < depth
  /\ (phase # "split" => templates = <<>> /\ depth = 0)

\* mongosh_preamble.js:90-92: whatever strings, templates, comments, regular expressions and
\* brackets they contain, statements that end in a semicolon are found one by one, and exactly
\* the expressions among them have their value kept.
SemicolonsSeparate ==
  Separated /\ phase # "split" =>
    /\ stmts = AsWritten
    /\ \A k \in DOMAIN stmts : Wrapped(stmts[k]) = script[k].shape.kind

\* mongosh_preamble.js:90, "Splits a JS script into top-level statements": however
\* they are laid out, the statements are those that were written.
StatementsStayWhole == phase # "split" => stmts = AsWritten

\* mongosh_preamble.js:388-451: the results name everything the script printed and returned
\* once, in the order in which it did, and end with its error if it had one.
OutputIsInOrder ==
  phase \in {"emitted", "failed"} =>
    /\ FlattenSeq([k \in DOMAIN output |-> output[k].from]) = ran
    /\ (phase = "failed") = (output # <<>> /\ Last(output).from = <<>>)

\* The statements are those of the script, and the output is theirs in order.
SplitIsSound == SplitTypeOK /\ SemicolonsSeparate /\ OutputIsInOrder
=============================================================================
