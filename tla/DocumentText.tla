----------------------------- MODULE DocumentText -----------------------------
(***************************************************************************)
(* The text of a document: how BsonUtils prints it for the editor, how     *)
(* json.cpp turns the relaxed syntax of the shell into strict Extended     *)
(* JSON, and what is saved when the editor is accepted. A text is a        *)
(* sequence of symbols: quotes, brackets and backslashes are symbols of    *)
(* their own (dq, sq, bs), words and numbers are one symbol each.          *)
(***************************************************************************)
EXTENDS Naturals, Sequences

CONSTANTS
  TextDocuments,  \* documents on the server, values of type "object"
  Encodings       \* ways to show a legacy UUID: constructors of the shell

(* A value: its type, the symbols of a scalar, the fields of an object.     *)
Scalar(t, c) == [t |-> t, c |-> c, f |-> <<>>]
Compound(t, f) == [t |-> t, c |-> <<>>, f |-> f]
Field(name, v) == <<name, v>>
NoValue == Scalar("none", <<>>)

ASSUME TextDocumentsAssumption == \A d \in TextDocuments : d.t = "object"

VARIABLES
  stored,       \* the document on the server
  meant,        \* the document the editor was opened on, or the user has in mind
  encoding,     \* the encoding of legacy UUIDs in the settings
  text,         \* the text in the editor
  style,        \* "printed": the program's text, untouched; "shell": typed by the user
  editor        \* "closed", "open", "refused", "saved"

textVars == <<stored, meant, encoding, text, style, editor>>

Punctuation == {"{", "}", "[", "]", ":", ",", "(", ")", "dq", "sq", "bs", "nl", "sp", "/"}
IntegerSymbols == {"1", "5"}
DoubleSymbols == {"1.0", "0.1", "0.3", "0.30000000000000004", "1e+300"}
Opaque == {"5f", "2020T", "AAAA", "00", "1.50"}         \* contents of typed values
IsIdent(x) == x \notin Punctuation \cup IntegerSymbols \cup DoubleSymbols \cup Opaque

(***************************************************************************)
(* BsonUtils::jsonString in the format TenGen                              *)
(***************************************************************************)
Flatten(ss) == LET F[i \in 0..Len(ss)] == IF i = 0 THEN <<>> ELSE F[i - 1] \o ss[i] IN F[Len(ss)]
Joined(ss) == Flatten([i \in DOMAIN ss |-> IF i = 1 THEN ss[i] ELSE <<",">> \o ss[i]])
InQuotes(q, s) == <<q>> \o s \o <<q>>

EscapedQuotesOnly(s) ==                    \* mutant
  Flatten([i \in DOMAIN s |-> IF s[i] = "dq" THEN <<"bs", "dq">>
                              ELSE IF s[i] = "nl" THEN <<"bs", "n">> ELSE <<s[i]>>])
Escaped(s) ==
  Flatten([i \in DOMAIN s |-> IF s[i] \in {"dq", "bs"} THEN <<"bs", s[i]>>
                              ELSE IF s[i] = "nl" THEN <<"bs", "n">> ELSE <<s[i]>>])

(* Fifteen digits; a whole number gets a ".0".                              *)
Digits(x) == IF x = "0.30000000000000004" THEN "0.3" ELSE x
ReformatDoubleString(x) == IF x = "1" THEN "1.0" ELSE x

FormatUuid(kind) == IF kind = "uuid" THEN "UUID" ELSE encoding

Called(name, args) == <<name, "(">> \o args \o <<")">>
ExtendedJson(key, v) == <<"{", "dq", key, "dq", ":">> \o v \o <<"}">>

RECURSIVE Printed(_)
PrintedField(p) == InQuotes("dq", Escaped(p[1])) \o <<"sp", ":", "sp">> \o Printed(p[2])
PrintedObject(f) == <<"{">> \o Joined([i \in DOMAIN f |-> PrintedField(f[i])]) \o <<"}">>
PrintedArray(f) == <<"[">> \o Joined([i \in DOMAIN f |-> Printed(f[i][2])]) \o <<"]">>
Printed(v) ==
  CASE v.t = "object" -> PrintedObject(v.f)
    [] v.t = "array" -> PrintedArray(v.f)
    [] v.t \in {"string", "symbol"} -> InQuotes("dq", Escaped(v.c))
    [] v.t = "double" -> <<ReformatDoubleString(Digits(v.c[1]))>>
    [] v.t = "long" -> Called("NumberLong", v.c)
    [] v.t = "decimal" -> Called("NumberDecimal", InQuotes("dq", v.c))
    [] v.t = "oid" -> Called("ObjectId", InQuotes("dq", v.c))
    [] v.t = "date" -> Called("ISODate", InQuotes("dq", v.c))
    [] v.t = "farDate" -> Called("Date", v.c)             \* beyond the years 1677 to 2262
    [] v.t \in {"uuid", "legacyUuid"} -> Called(FormatUuid(v.t), InQuotes("dq", v.c))
    [] v.t = "binary" -> <<"{", "dq", "$binary", "dq", ":">> \o InQuotes("dq", v.c)
                         \o <<",", "dq", "$type", "dq", ":", "dq", "00", "dq", "}">>
    [] v.t = "timestamp" -> Called("Timestamp", v.c \o <<",">> \o v.c)
    [] v.t = "regex" -> <<"/">> \o v.c \o <<"/">>
    [] v.t = "minKey" -> ExtendedJson("$minKey", <<"1">>)
    [] OTHER -> v.c                         \* int, bool, null, undefined, code as it is

(***************************************************************************)
(* json.cpp: from the relaxed syntax to Extended JSON                      *)
(***************************************************************************)

(* copyString: the literal at the head of s, in double quotes, and what     *)
(* follows it. A literal that never ends is closed at the end of the text.  *)
Unescaped(q, x) == IF q = "sq" /\ x = "sq" THEN <<"sq">> ELSE <<"bs", x>>
CutAt(out, rest) == [out |-> out, rest |-> rest]
RECURSIVE CopyBody(_, _, _)
CopyBody(q, s, out) ==
  IF s = <<>> THEN CutAt(out \o <<"dq">>, <<>>)
  ELSE IF Head(s) = "bs" /\ Len(s) > 1
       THEN CopyBody(q, SubSeq(s, 3, Len(s)),
                     out \o Unescaped(q, s[2]))
  ELSE IF Head(s) = q THEN CutAt(out \o <<"dq">>, Tail(s))
  ELSE CopyBody(q, Tail(s), out \o (IF Head(s) = "dq" /\ q = "sq" THEN <<"bs", "dq">> ELSE <<Head(s)>>))
CopyString(s) == CopyBody(Head(s), Tail(s), <<"dq">>)

(* captureParens: the raw text between the parenthesis at the head of s and *)
(* its partner. A parenthesis inside of a literal does not count.           *)
RECURSIVE LiteralLength(_, _)
LiteralLength(s, i) ==
  IF i > Len(s) THEN Len(s)
  ELSE IF s[i] = "bs" /\ i < Len(s) THEN LiteralLength(s, i + 2)
  ELSE IF s[i] = s[1] THEN i ELSE LiteralLength(s, i + 1)

RECURSIVE Captured(_, _, _)
Captured(s, depth, out) ==
  IF s = <<>> THEN CutAt(out, <<>>)
  ELSE IF Head(s) \in {"dq", "sq"}
       THEN LET n == LiteralLength(s, 2) IN Captured(SubSeq(s, n + 1, Len(s)), depth, out \o SubSeq(s, 1, n))
  ELSE IF Head(s) = "("
       THEN Captured(Tail(s), depth + 1, IF depth = 0 THEN out ELSE out \o <<"(">>)
  ELSE IF Head(s) = ")"
       THEN IF depth = 1 THEN CutAt(out, Tail(s)) ELSE Captured(Tail(s), depth - 1, out \o <<")">>)
  ELSE Captured(Tail(s), depth, Append(out, Head(s)))

RECURSIVE TrimLeft(_)
TrimLeft(s) == IF s # <<>> /\ Head(s) \in {"sp", "nl"} THEN TrimLeft(Tail(s)) ELSE s

(* tryConstructor: the constructors with an Extended JSON form.             *)
KeyOf(name) ==
  CASE name = "ObjectId" -> "$oid"
    [] name \in {"ISODate", "Date"} -> "$date"
    [] name = "NumberLong" -> "$numberLong"
    [] name = "NumberInt" -> "$numberInt"
    [] name = "NumberDecimal" -> "$numberDecimal"
    [] OTHER -> ""
Recognised(name, arg) == KeyOf(name) # "" /\ ~(name = "Date" /\ arg = <<>>)
ForcesString(name) == name \notin {"ISODate", "Date"}

NextSymbol(s) == LET r == TrimLeft(s) IN IF r = <<>> THEN "" ELSE Head(r)
RECURSIVE Normalized(_)
Constructed(name, arg) ==
  LET value == Normalized(arg)
  IN ExtendedJson(KeyOf(name), IF ForcesString(name) /\ (value = <<>> \/ Head(value) # "dq")
                               THEN InQuotes("dq", value) ELSE value)
NormalizedCall(name, s) ==
  LET call == Captured(TrimLeft(s), 0, <<>>)
      arg == TrimLeft(call.out)
      raw == SubSeq(s, 1, Len(s) - Len(call.rest))
  IN (IF Recognised(name, arg) THEN Constructed(name, arg) ELSE <<name>> \o raw) \o Normalized(call.rest)
Normalized(s) ==
  IF s = <<>> THEN <<>>
  ELSE IF Head(s) \in {"dq", "sq"} THEN LET c == CopyString(s) IN c.out \o Normalized(c.rest)
  ELSE IF ~IsIdent(Head(s)) THEN <<Head(s)>> \o Normalized(Tail(s))
  ELSE IF NextSymbol(Tail(s)) = ":" THEN InQuotes("dq", <<Head(s)>>) \o Normalized(Tail(s))
  ELSE IF Head(s) = "new" THEN Normalized(Tail(s))
  ELSE IF NextSymbol(Tail(s)) = "(" THEN NormalizedCall(Head(s), Tail(s))
  ELSE <<Head(s)>> \o Normalized(Tail(s))

(***************************************************************************)
(* bsoncxx::from_json: strict JSON with typed objects                      *)
(***************************************************************************)
Read(v, rest) == [v |-> v, rest |-> rest]
Error == Read(NoValue, <<>>)
IsError(r) == r.v = NoValue

RECURSIVE StringRead(_, _)
StringRead(s, out) ==
  IF s = <<>> THEN Error
  ELSE IF Head(s) = "dq" THEN Read(Scalar("string", out), Tail(s))
  ELSE IF Head(s) = "nl" THEN Error
  ELSE IF Head(s) # "bs" THEN StringRead(Tail(s), Append(out, Head(s)))
  ELSE IF Len(s) > 1 /\ s[2] \in {"dq", "bs", "n"}
       THEN StringRead(SubSeq(s, 3, Len(s)), Append(out, IF s[2] = "n" THEN "nl" ELSE s[2]))
       ELSE Error

Number(x) == IF x \in IntegerSymbols THEN Scalar("int", <<x>>)
             ELSE Scalar("double", <<IF x = "1.0" THEN "1" ELSE x>>)

(* An object whose first key names a type is a value of that type.          *)
Typed(f) ==
  LET key == IF f = <<>> \/ Len(f[1][1]) # 1 THEN "" ELSE f[1][1][1]
      v == f[1][2]
      Of(t, ok) == IF ok /\ Len(f) = 1 THEN Scalar(t, v.c) ELSE NoValue
  IN CASE key = "$oid" -> Of("oid", v.t = "string" /\ v.c = <<"5f">>)
       [] key = "$date" /\ v.t = "string" -> Of("date", v.c = <<"2020T">>)
       [] key = "$date" /\ v.t # "string" -> Of("farDate", v.t = "int")
       [] key = "$numberLong" -> Of("long", v.t = "string" /\ v.c \in {<<x>> : x \in IntegerSymbols})
       [] key = "$numberInt" -> Of("int", v.t = "string" /\ v.c \in {<<x>> : x \in IntegerSymbols})
       [] key = "$numberDecimal" -> Of("decimal", v.t = "string" /\ v.c = <<"1.50">>)
       [] key = "$binary" -> IF Len(f) = 2 THEN Scalar("binary", v.c) ELSE NoValue
       [] key = "$minKey" -> Of("minKey", v.t = "int")
       [] OTHER -> Compound("object", f)

RECURSIVE ValueRead(_)
RECURSIVE MembersRead(_, _, _)
MembersRead(s0, f, isArray) ==
  LET s == TrimLeft(s0)
      name == IF isArray THEN Read(Scalar("string", <<>>), s)
              ELSE IF s # <<>> /\ Head(s) = "dq" THEN StringRead(Tail(s), <<>>) ELSE Error
      colon == TrimLeft(name.rest)
      v == IF IsError(name) THEN Error
           ELSE IF isArray THEN ValueRead(s)
           ELSE IF colon # <<>> /\ Head(colon) = ":" THEN ValueRead(Tail(colon)) ELSE Error
      more == TrimLeft(v.rest)
      g == Append(f, Field(name.v.c, v.v))
  IN IF s # <<>> /\ Head(s) = (IF isArray THEN "]" ELSE "}") /\ f = <<>>
     THEN Read(Compound(IF isArray THEN "array" ELSE "object", <<>>), Tail(s))
     ELSE IF IsError(v) \/ more = <<>> THEN Error
     ELSE IF Head(more) = "," THEN MembersRead(Tail(more), g, isArray)
     ELSE IF Head(more) = "]" /\ isArray THEN Read(Compound("array", g), Tail(more))
     ELSE IF Head(more) = "}" /\ ~isArray THEN Read(Typed(g), Tail(more))
     ELSE Error
ValueRead(s0) ==
  LET s == TrimLeft(s0) IN
  IF s = <<>> THEN Error
  ELSE IF Head(s) = "dq" THEN StringRead(Tail(s), <<>>)
  ELSE IF Head(s) \in {"{", "["} THEN MembersRead(Tail(s), <<>>, Head(s) = "[")
  ELSE IF Head(s) \in IntegerSymbols \cup DoubleSymbols THEN Read(Number(Head(s)), Tail(s))
  ELSE IF Head(s) \in {"true", "false"} THEN Read(Scalar("bool", <<Head(s)>>), Tail(s))
  ELSE IF Head(s) = "null" THEN Read(Scalar("null", <<"null">>), Tail(s))
  ELSE Error

FromJson(s) ==
  LET r == ValueRead(Normalized(s))
  IN IF r.v.t = "object" /\ TrimLeft(r.rest) = <<>> THEN r.v ELSE NoValue

(***************************************************************************)
(* What a user of the shell writes for a document                          *)
(***************************************************************************)
SingleQuoted(s) ==
  InQuotes("sq", Flatten([i \in DOMAIN s |-> IF s[i] \in {"sq", "bs"} THEN <<"bs", s[i]>>
                                            ELSE IF s[i] = "nl" THEN <<"bs", "n">> ELSE <<s[i]>>]))
RECURSIVE Shell(_)
ShellName(n) == IF Len(n) = 1 /\ IsIdent(n[1]) THEN n ELSE SingleQuoted(n)
Shell(v) ==
  CASE v.t = "object" ->
         LET Member(i) == ShellName(v.f[i][1]) \o <<":">> \o Shell(v.f[i][2])
         IN <<"{">> \o Joined([i \in DOMAIN v.f |-> Member(i)]) \o <<"}">>
    [] v.t = "array" -> <<"[">> \o Joined([i \in DOMAIN v.f |-> Shell(v.f[i][2])]) \o <<"]">>
    [] v.t = "string" -> SingleQuoted(v.c)
    [] v.t = "double" -> <<ReformatDoubleString(v.c[1])>>
    [] v.t = "oid" -> Called("ObjectId", SingleQuoted(v.c))
    [] v.t = "date" -> <<"new", "sp">> \o Called("Date", SingleQuoted(v.c))
    [] v.t = "long" -> Called("NumberLong", SingleQuoted(v.c))
    [] v.t = "int" -> Called("NumberInt", v.c)
    [] OTHER -> Printed(v)

(***************************************************************************)
(* The editor                                                              *)
(***************************************************************************)
TextInit ==
  /\ stored \in TextDocuments /\ meant = stored
  /\ encoding \in Encodings /\ text = <<>> /\ style = "none" /\ editor = "closed"

(* Notifier::onEditDocument, or an insertion whose text the user types.     *)
OpenEditor ==
  /\ editor = "closed" /\ editor' = "open"
  /\ \/ style' = "printed" /\ text' = Printed(meant)
     \/ style' = "shell" /\ text' = Shell(meant)
  /\ UNCHANGED <<stored, meant, encoding>>

(* DocumentTextEditor::accept and the worker's saveDocument.                *)
SaveText ==
  /\ editor = "open"
  /\ LET d == FromJson(text) IN
       IF d = NoValue THEN editor' = "refused" /\ UNCHANGED stored
       ELSE editor' = "saved" /\ stored' = d
  /\ UNCHANGED <<meant, encoding, text, style>>

TextNext == OpenEditor \/ SaveText
TextSpec == TextInit /\ [][TextNext]_textVars

(***************************************************************************)
(* Properties                                                              *)
(***************************************************************************)
RECURSIVE ValuesOf(_)
ValuesOf(v) == {v} \cup UNION {ValuesOf(v.f[i][2]) : i \in DOMAIN v.f}

(* Values whose text reads as something else: a double of more than fifteen *)
(* digits, a symbol, code that is also JSON.                                *)
Lossy(v) ==
  \/ v.t = "double" /\ Digits(v.c[1]) # v.c[1]
  \/ v.t = "symbol"
  \/ v.t = "code" /\ ValueRead(Normalized(v.c)).v # NoValue

(* Types without an Extended JSON form in tryConstructor.                   *)
Unreadable == {"uuid", "legacyUuid", "timestamp", "regex", "undefined", "code"}

(* Types; nothing but an accepted text changes the document.                *)
DocumentTextTypeOK ==
  /\ editor \in {"closed", "open", "refused", "saved"} /\ style \in {"none", "printed", "shell"}
  /\ stored.t = "object" /\ encoding \in Encodings
  /\ editor # "saved" => stored = meant

(* A document that is opened and saved untouched is the document it was,    *)
(* type for type, quotes and backslashes of its strings and names included. *)
UntouchedIsKept ==
  (editor = "saved" /\ style = "printed" /\ ~ \E v \in ValuesOf(meant) : Lossy(v)) => stored = meant

(* A document typed in the syntax of the shell is the document meant.       *)
ShellTextIsUnderstood ==
  (editor = "saved" /\ style = "shell" /\ ~ \E v \in ValuesOf(meant) : v.t \in {"symbol", "code"})
    => stored = meant

(* A text is refused for a type json.cpp cannot read, and for nothing else. *)
RefusedForAType == editor = "refused" => \E v \in ValuesOf(meant) : v.t \in Unreadable

(* A text is refused or means the document it was printed from (json.cpp:   *)
(* "rather than us silently producing a different document").               *)
(* The program does not keep this (README).                                *)
NeverADifferentDocument == (editor = "saved" /\ style = "printed") => stored = meant

(* A document survives its text, or the text is refused.                    *)
DocumentTextIsSound ==
  DocumentTextTypeOK /\ UntouchedIsKept /\ ShellTextIsUnderstood /\ RefusedForAType
=============================================================================
