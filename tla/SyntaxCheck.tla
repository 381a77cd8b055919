------------------------------ MODULE SyntaxCheck ------------------------------
(***************************************************************************)
(* The check of brackets and of the keys and values of objects that the    *)
(* editor makes at every change of its text                                *)
(* (DocutazScintilla::updateSyntaxIndicators).  It has no parser: the last *)
(* significant character and a stack of open brackets decide what a        *)
(* character means.                                                        *)
(*                                                                         *)
(* A text is a sequence of characters, where "id" is an identifier, "str"  *)
(* a quoted string, "tpl" a template, "$" a $-word, "0" a number, "bs" a   *)
(* backslash, and "sp", "nl" and "comment" separate the others.  A text is *)
(* one that is legal, or one with a character missing.                     *)
(***************************************************************************)
EXTENDS Integers, Sequences, SequencesExt, FiniteSetsExt

CONSTANTS Legal,     \* legal texts
          MaxBytes,  \* kBpcMaxBytes
          MaxTextEdits   \* bound on the changes of the text

ASSUME CheckAssumption == MaxBytes \in Nat /\ MaxTextEdits \in Nat

VARIABLES whole,   \* the legal text the text was made from
          missing, \* the place of the character it lacks, 0 if none
          text,    \* the text of the editor
          at,      \* i, 0 when the check has ended
          stack,   \* open brackets: their place, character, kind, and whether keys are checked
          prevSig, \* the last significant character
          marked,   \* _syntaxErrors
          colours, \* the level each bracket is painted with
          textEdits    \* changes so far

checkVars == <<whole, missing, text, at, stack, prevSig, marked, colours, textEdits>>

Separators == {"sp", "nl", "comment"}
Openers == {"(", "[", "{"}
Closers == {")", "]", "}"}
CloserFor(c) == CASE c = "(" -> ")" [] c = "[" -> "]" [] c = "{" -> "}"

\* bpcRegexAllowed().
RegexAllowed(c) == c \notin {"id", "$", "0", ")", "]", "}", "str", "tpl", "."}

CheckInit ==
  /\ whole = <<>> /\ missing = 0 /\ text = <<>> /\ at = 0 /\ stack = <<>> /\ prevSig = ""
  /\ marked = {} /\ colours = <<>> /\ textEdits = 0

\* What was marked goes; an empty text and one that is too long are not checked.
Changed(t) ==
  /\ marked' = {} /\ colours' = <<>>
  /\ at' = IF t = <<>> \/ Len(t) > MaxBytes THEN 0 ELSE 1

\* textChanged().
EditText ==
  /\ at = 0 /\ textEdits < MaxTextEdits /\ textEdits' = textEdits + 1
  /\ whole' \in Legal /\ missing' \in 0..Len(whole')
  /\ text' = IF missing' = 0 THEN whole' ELSE RemoveAt(whole', missing')
  /\ Changed(text')
  /\ stack' = <<>> /\ prevSig' = ""

Char == text[at]
Checking == at \in DOMAIN text /\ UNCHANGED <<whole, missing, text, textEdits>>
InFrame(kinds) == stack # <<>> /\ Last(stack).kind \in kinds
ChecksKeys == InFrame({"object"}) /\ Last(stack).checkKeys
InObjKeyPos == ChecksKeys /\ prevSig \in {"{", ","}

\* nextSig(): "" at the end of the text.
NextSig(k) ==
  LET ks == {j \in k..Len(text) : text[j] \notin Separators} IN
  IF ks = {} THEN "" ELSE text[Min(ks)]

Mark(what) == marked' = marked \cup {[at |-> at, what |-> what]}
MarkIf(wrong, what) == IF wrong THEN Mark(what) ELSE marked' = marked
Past(k, sig) == at' = k /\ prevSig' = sig
Structure == <<stack, colours>>

Separator ==
  /\ Checking /\ Char \in Separators
  /\ Past(at + 1, prevSig) /\ UNCHANGED <<marked, Structure>>

\* The place after the regular expression that starts here: a / in a class does not end it,
\* the end of the line does.
RegexEnd ==
  LET scan == FoldLeft(LAMBDA acc, k :
                IF k <= at \/ acc.end # 0 THEN acc
                ELSE IF acc.skip THEN [acc EXCEPT !.skip = FALSE]
                ELSE CASE text[k] = "bs" -> [acc EXCEPT !.skip = TRUE]
                       [] text[k] = "[" -> [acc EXCEPT !.inClass = TRUE]
                       [] text[k] = "]" -> [acc EXCEPT !.inClass = FALSE]
                       [] text[k] = "/" /\ ~acc.inClass -> [acc EXCEPT !.end = k + 1]
                       [] text[k] = "nl" -> [acc EXCEPT !.end = k]
                       [] OTHER -> acc,
              [end |-> 0, inClass |-> FALSE, skip |-> FALSE], [k \in DOMAIN text |-> k]) IN
  IF scan.end = 0 THEN Len(text) + 1 ELSE scan.end

Slash ==
  /\ Checking /\ Char = "/"
  /\ Past(IF RegexAllowed(prevSig) THEN RegexEnd ELSE at + 1, "/")
  /\ UNCHANGED <<marked, Structure>>

\* checkObjKey(): a quoted key needs its colon; a name is only marked if what follows cannot
\* belong to a method or a shorthand.
KeyLacksColon(fc) == IF Char = "str" THEN fc # ":" ELSE fc \in {"str", "{", "[", "0"}

\* A string, a $-word or a name: it may be the key of an object.
Word ==
  /\ Checking /\ Char \in {"str", "tpl", "$", "id"}
  /\ MarkIf(InObjKeyPos /\ Char # "tpl" /\ KeyLacksColon(NextSig(at + 1)), "colon")
  /\ Past(at + 1, Char) /\ UNCHANGED Structure

Colon ==
  /\ Checking /\ Char = ":"
  /\ MarkIf(ChecksKeys /\ NextSig(at + 1) \in {"", ",", "}", "]", ")"}, "value")
  /\ Past(at + 1, ":") /\ UNCHANGED Structure

Paint(depth) == colours' = Append(colours, [at |-> at, depth |-> depth])

Kind(c) ==
  CASE c = "(" -> "paren"
    [] c = "[" -> IF RegexAllowed(prevSig) THEN "array" ELSE "index"
    [] c = "{" -> IF RegexAllowed(prevSig) THEN "object" ELSE "block"

Open ==
  /\ Checking /\ Char \in Openers
  /\ MarkIf(Char = "{" /\ prevSig \in {"}", "]"} /\ InFrame({"array", "object", "paren"}), "comma")
  /\ Paint(Len(stack))
  /\ stack' = Append(stack, [at |-> at, open |-> Char, kind |-> Kind(Char),
                             checkKeys |-> Kind(Char) = "object" /\ prevSig \in {"(", "[", ",", ":", "="}])
  /\ Past(at + 1, Char)

\* Mutant: a closing bracket is painted with the brackets inside it.
CloseInside ==
  /\ Checking /\ Char \in Closers
  /\ IF stack = <<>> THEN Mark("unexpected") /\ Paint(0) /\ stack' = stack
     ELSE /\ MarkIf(CloserFor(Last(stack).open) # Char, "mismatched")
          /\ stack' = Front(stack) /\ Paint(Len(stack))
  /\ Past(at + 1, Char)

\* A closing bracket.
Close ==
  /\ Checking /\ Char \in Closers
  /\ IF stack = <<>> THEN Mark("unexpected") /\ Paint(0) /\ stack' = stack
     ELSE /\ MarkIf(CloserFor(Last(stack).open) # Char, "mismatched")
          /\ stack' = Front(stack) /\ Paint(Len(stack) - 1)
  /\ Past(at + 1, Char)

Other ==
  /\ Checking /\ Char \in {"0", ",", "=", ">", ".", ";", "?"}
  /\ Past(at + 1, Char) /\ UNCHANGED <<marked, Structure>>

\* The end: what is still open was never closed.
EndOfCheck ==
  /\ at > Len(text)
  /\ marked' = marked \cup {[at |-> stack[k].at, what |-> "unclosed"] : k \in DOMAIN stack}
  /\ at' = 0 /\ stack' = <<>>
  /\ UNCHANGED <<whole, missing, text, prevSig, colours, textEdits>>

CheckNext ==
  EditText \/ Separator \/ Slash \/ Word \/ Colon \/ Open \/ Close \/ Other \/ EndOfCheck

CheckSpec == CheckInit /\ [][CheckNext]_checkVars
-----------------------------------------------------------------------------
Brackets(t) == SelectSeq(t, LAMBDA c : c \in Openers \cup Closers)

\* Adjacent pairs are taken out until none is left.
RECURSIVE Balanced(_)
Balanced(t) ==
  LET pairs == {k \in 1 .. Len(t) - 1 : t[k] \in Openers /\ t[k + 1] = CloserFor(t[k])} IN
  t = <<>> \/ (pairs # {} /\ Balanced(RemoveAt(RemoveAt(t, Min(pairs)), Min(pairs))))

Checked == at = 0 /\ text # <<>> /\ Len(text) <= MaxBytes
NoRegex == \A k \in DOMAIN text : text[k] # "/"
Structural == {m \in marked : m.what \in {"unexpected", "mismatched", "unclosed"}}

\* Every variable stays in its type; what is marked and painted is in the text of the moment.
CheckTypeOK ==
  /\ at \in 0 .. Len(text) + 1 /\ missing \in 0..Len(whole)
  /\ \A m \in marked : m.at \in DOMAIN text
  /\ \A k \in DOMAIN colours : colours[k].at \in DOMAIN text
  /\ (at = 0 => stack = <<>>)

\* PlainJavaScriptEditor.cpp:636-642: a legal text is not marked, whatever shorthands,
\* methods, blocks and regular expressions it has.
LegalIsQuiet == Checked /\ missing = 0 => marked = {}

\* PlainJavaScriptEditor.cpp:610-615: brackets are marked exactly in a text where they do not
\* match, and in the others the two of a pair have one colour.
BracketsAreJudged ==
  Checked /\ NoRegex =>
    /\ Balanced(Brackets(text)) = (Structural = {})
    /\ Structural = {} =>
         \A j, k \in DOMAIN colours :
           (j < k /\ Balanced(Brackets(SubSeq(text, colours[j].at, colours[k].at)))
              /\ \A i \in j + 1 .. k - 1 :
                   ~Balanced(Brackets(SubSeq(text, colours[j].at, colours[i].at))))
             => colours[j].depth = colours[k].depth

\* PlainJavaScriptEditor.cpp:636-656, 729-744: the colon after a quoted key, the one value
\* after a colon and the comma between two objects are missed.
MissingIsMarked ==
  Checked /\ missing \in 2 .. Len(whole) - 1 =>
    LET before == whole[missing - 1]
        after == whole[missing + 1]
        inObject == \E k \in 1 .. missing - 1 : whole[k] = "{" /\ k > 1 /\ whole[k - 1] \in {"(", "["} IN
    /\ (whole[missing] = ":" /\ before = "str" => marked # {})
    /\ (whole[missing] = "," /\ before = "}" /\ after = "{" => marked # {})
    /\ (whole[missing] \in {"str", "0"} /\ before = ":" /\ after \in {",", "}"} /\ inObject => marked # {})

\* The check marks what is wrong and nothing of a legal text.
CheckIsSound == CheckTypeOK /\ LegalIsQuiet /\ BracketsAreJudged /\ MissingIsMarked
=============================================================================
