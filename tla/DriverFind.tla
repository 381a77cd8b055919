------------------------------ MODULE DriverFind ------------------------------
(***************************************************************************)
(* How the worker answers a script (MongoWorker::handle and tryDriverFind):*)
(* a plain find is recognised in the text and read through the driver,     *)
(* anything else is run by mongosh, once more if that fails.  The preamble *)
(* of mongosh notes the calls a cursor went through                        *)
(* (resources/mongosh_preamble.js) so that its result can be paged.        *)
(*                                                                         *)
(* A script is a find with arguments, a chain of calls and a tail, and its *)
(* text is made from it character by character ("sq" is a quote, "bs" a    *)
(* backslash); a query is what was asked, and its documents are how many   *)
(* of those in the collection.                                             *)
(***************************************************************************)
EXTENDS Integers, Sequences, SequencesExt, FiniteSetsExt, TLC

CONSTANTS Arguments,  \* texts in the place of an argument of find() or of sort()
          Documents,  \* those fromjson() reads
          Numbers,    \* the numbers in the place of an argument of skip() and limit()
          MaxCalls,   \* bound on the length of the chain
          CollectionSizes,      \* how many documents the collection may have
          Batch       \* _batchSize

ASSUME FindAssumption ==
  /\ Documents \subseteq Arguments /\ Numbers \subseteq Int
  /\ MaxCalls \in Nat /\ CollectionSizes \subseteq Nat /\ Batch \in Nat \ {0}

VARIABLES typed,  \* what the text was made from
          rest,    \* the text still to be recognised
          recognised,   \* what has been recognised: filter, sort, skip, limit
          place,      \* "worker", "chain", "fetch", "mongosh", "retry", "done"
          size,    \* the documents in the collection
          replies  \* the answers

findVars == <<typed, rest, recognised, place, size, replies>>

EmptyDocument == <<"{", "}">>
Digits == [n \in Numbers |-> IF n < 0 THEN <<"-", ToString(-n)>> ELSE <<ToString(n)>>]
CallsOf == [method : {"sort"}, text : Arguments]
           \cup [method : {"skip", "limit"}, text : {Digits[n] : n \in Numbers}]
           \cup [method : {"pretty", "count"}, text : {<<>>}]

Heads == {<<"db", ".", "c", ".", "find", "(">>,
          <<"db", ".", "getCollection", "(", "sq", "c", "sq", ")", ".", "find", "(">>}
Joined(args) == FlattenSeq([k \in DOMAIN args |-> IF k = 1 THEN args[k] ELSE <<",">> \o args[k]])
WrittenCall(s) ==
  s.head \o Joined(s.args) \o <<")">>
    \o FlattenSeq([k \in DOMAIN s.calls |-> <<".", s.calls[k].method, "(">> \o s.calls[k].text \o <<")">>])
    \o s.tail

Nothing == [filter |-> EmptyDocument, projection |-> EmptyDocument, sort |-> EmptyDocument,
            skip |-> 0, limit |-> 0]

FindInit ==
  /\ \E n \in 0..2, m \in 0..MaxCalls :
       typed \in [head : Heads, args : [1..n -> Arguments], calls : [1..m -> CallsOf],
                   tail : {<<>>, <<";">>, <<"+", "x">>}, aggregate : {FALSE}]
                    \cup [head : Heads \cup {<<"f", "(">>}, args : {<<>>}, calls : {<<>>}, tail : {<<>>},
                          aggregate : BOOLEAN]
  /\ rest = WrittenCall(typed) /\ recognised = Nothing /\ place = "worker"
  /\ size \in CollectionSizes /\ replies = <<>>

\* One character of a text with quotes: what both scans of a text keep.
Beyond(acc, c) ==
  IF acc.skip THEN [acc EXCEPT !.skip = FALSE]
  ELSE IF c = "bs" THEN [acc EXCEPT !.skip = TRUE]
  ELSE IF c = acc.quote THEN [acc EXCEPT !.quote = ""] ELSE acc

\* matchParen(): the place of the ) that closes the ( at open, 0 if there is none.
MatchParen(s, open) ==
  FoldLeft(LAMBDA acc, k :
             IF k < open \/ acc.place # 0 THEN acc
             ELSE IF acc.quote # "" THEN Beyond(acc, s[k])
             ELSE CASE s[k] = "sq" -> [acc EXCEPT !.quote = s[k]]
                    [] s[k] = "(" -> [acc EXCEPT !.depth = @ + 1]
                    [] s[k] = ")" -> [acc EXCEPT !.depth = @ - 1, !.place = IF @ = 0 /\ acc.depth = 1 THEN k ELSE 0]
                    [] OTHER -> acc,
           [depth |-> 0, quote |-> "", skip |-> FALSE, place |-> 0], [k \in DOMAIN s |-> k]).place

\* hasTopLevelComma().
HasTopLevelComma(s) ==
  FoldLeft(LAMBDA acc, c :
             IF acc.quote # "" THEN Beyond(acc, c)
             ELSE CASE c = "sq" -> [acc EXCEPT !.quote = c]
                    [] c \in {"(", "[", "{"} -> [acc EXCEPT !.depth = @ + 1]
                    [] c \in {")", "]", "}"} -> [acc EXCEPT !.depth = @ - 1]
                    [] c = "," -> [acc EXCEPT !.found = @ \/ acc.depth = 0]
                    [] OTHER -> acc,
           [depth |-> 0, quote |-> "", skip |-> FALSE, found |-> FALSE], s).found

\* What fromjson() reads, or gives up on.
Readable(text) == text \in Documents \cup {<<>>}
\* An empty document, in whatever form, asks for nothing.
Read(text, otherwise) == IF text \in {<<>>, EmptyDocument} THEN otherwise ELSE text

Without(s, tail) == IF IsSuffix(tail, s) THEN SubSeq(s, 1, Len(s) - Len(tail)) ELSE s
From(s, k) == SubSeq(s, k, Len(s))
Between(s, open, close) == SubSeq(s, open + 1, close - 1)

ToMongosh == place' = "mongosh" /\ UNCHANGED <<typed, rest, recognised, size, replies>>

\* The argument of find() is one document.
OneDocument(arg) == ~HasTopLevelComma(arg) /\ Readable(arg)

\* tryDriverFind() up to the chain: db.c.find( and one argument.
Recognise ==
  /\ place = "worker"
  /\ LET s == Without(rest, <<";">>)
         heads == {h \in Heads : IsPrefix(h, s)}
         open == IF heads = {} THEN 0 ELSE Len(CHOOSE h \in heads : TRUE)
         close == IF heads = {} THEN 0 ELSE MatchParen(s, open)
         arg == Between(s, open, close) IN
       IF typed.aggregate \/ close = 0 \/ ~OneDocument(arg) THEN ToMongosh
       ELSE /\ place' = "chain" /\ rest' = From(s, close + 1)
            /\ recognised' = [recognised EXCEPT !.filter = Read(arg, @)]
            /\ UNCHANGED <<typed, size, replies>>

Number(text) == {n \in Numbers : Digits[n] = text}

\* One call of the chain.
ChainCall ==
  /\ place = "chain" /\ rest # <<>>
  /\ LET close == IF Len(rest) >= 3 /\ rest[1] = "." /\ rest[3] = "(" THEN MatchParen(rest, 3) ELSE 0
         method == rest[2]
         arg == Between(rest, 3, close) IN
       IF \/ close = 0
          \/ method \notin {"pretty", "sort", "skip", "limit"}
          \/ method = "sort" /\ ~Readable(arg)
          \/ method \in {"skip", "limit"} /\ Number(arg) = {}
       THEN ToMongosh
       ELSE /\ rest' = From(rest, close + 1)
            /\ recognised' = CASE method = "sort" -> [recognised EXCEPT !.sort = Read(arg, @)]
                          [] method = "skip" -> [recognised EXCEPT !.skip = CHOOSE n \in Number(arg) : TRUE]
                          [] method = "limit" -> [recognised EXCEPT !.limit = CHOOSE n \in Number(arg) : TRUE]
                          [] OTHER -> recognised
            /\ UNCHANGED <<typed, place, size, replies>>

\* Without a database, of the tab or the connection's own, the find is left to mongosh.
ChainEnds ==
  /\ place = "chain" /\ rest = <<>> /\ place' \in {"fetch", "mongosh"}
  /\ UNCHANGED <<typed, rest, recognised, size, replies>>

AnswerPage(by, result) == replies' = Append(replies, [by |-> by, result |-> result])

\* A result: its query as the view pages it, and how many documents come with it.
Result(q, docs) == [recognised |-> [q EXCEPT !.limit = 0], docs |-> docs]

\* Documents of the collection that MongoClient::query() returns.
FoundBy(q) ==
  LET after == Max({0, size - Max({0, q.skip})}) IN
  IF q.limit > 0 THEN Min({q.limit, after}) ELSE after

\* fetchQi: no more than a batch.
FirstPage(q) == [q EXCEPT !.limit = IF @ > 0 /\ @ < Batch THEN @ ELSE Batch]

\* The read through the driver: it succeeds, finds the server unreachable, or fails otherwise.
Fetch ==
  /\ place = "fetch"
  /\ \/ AnswerPage("driver", Result(recognised, FoundBy(FirstPage(recognised)))) /\ place' = "done"
     \/ replies' = Append(replies, [by |-> "unreachable"]) /\ place' = "done"
     \/ replies' = replies /\ place' = "mongosh"
  /\ UNCHANGED <<typed, rest, recognised, size>>

\* The last call of method m, or what there was before.
LastCall(m, otherwise) ==
  LET ks == {k \in DOMAIN typed.calls : typed.calls[k].method = m} IN
  IF ks = {} THEN otherwise ELSE typed.calls[Max(ks)].text

NumberOf(text, otherwise) ==
  IF text = <<>> THEN otherwise ELSE CHOOSE n \in Numbers : Digits[n] = text

\* What the preamble notes of the cursor the script returns: _metaReg.
Noted ==
  [filter |-> IF Len(typed.args) >= 1 THEN Read(typed.args[1], EmptyDocument) ELSE EmptyDocument,
   projection |-> IF Len(typed.args) = 2 THEN Read(typed.args[2], EmptyDocument) ELSE EmptyDocument,
   sort |-> Read(LastCall("sort", <<>>), EmptyDocument),
   skip |-> NumberOf(LastCall("skip", <<>>), 0),
   limit |-> NumberOf(LastCall("limit", <<>>), 0)]

IsFind ==
  /\ typed.head \in Heads /\ ~typed.aggregate /\ typed.tail \in {<<>>, <<";">>}
  /\ \A k \in DOMAIN typed.calls : typed.calls[k].method # "count"

\* __robo_emit() reads the cursor up to a batch; a skip below 0 is an error of the shell.
InMongosh ==
  IF ~IsFind THEN [value |-> "other"]
  ELSE IF Noted.skip < 0 THEN [error |-> "skip"]
  ELSE Result(Noted, Min({Batch, FoundBy([Noted EXCEPT !.limit = IF @ < 0 THEN -@ ELSE @])}))

\* handle(ExecuteScriptRequest) and retry(): a worker without an engine says so.
Mongosh ==
  /\ place \in {"mongosh", "retry"}
  /\ \/ AnswerPage("mongosh", InMongosh) /\ place' = "done"
     \/ place = "mongosh" /\ place' = "done" /\ replies' = Append(replies, [by |-> "no engine"])
     \/ place = "mongosh" /\ place' = "retry" /\ replies' = replies
     \/ place = "retry" /\ place' = "done" /\ replies' = Append(replies, [by |-> "error"])
  /\ UNCHANGED <<typed, rest, recognised, size>>

FindNext == Recognise \/ ChainCall \/ ChainEnds \/ Fetch \/ Mongosh

FindSpec == FindInit /\ [][FindNext]_findVars
-----------------------------------------------------------------------------
\* Every variable stays in its type; a script is answered once.
FindTypeOK ==
  /\ place \in {"worker", "chain", "fetch", "mongosh", "retry", "done"}
  /\ recognised.skip \in Int /\ recognised.limit \in Int /\ recognised.projection = EmptyDocument
  /\ Len(replies) = IF place = "done" THEN 1 ELSE 0

\* A sort by nothing after a sort, and numbers below 0, which the two paths read differently.
Ordinary ==
  /\ \A k \in DOMAIN typed.calls :
       typed.calls[k].method = "sort" => typed.calls[k].text \notin {<<>>, EmptyDocument}
  /\ \A k \in DOMAIN typed.calls : typed.calls[k].text = <<>> \/ typed.calls[k].text[1] # "-"

\* MongoWorker.cpp:697-701 and 743-744, "never a wrong result", "mirrors the mongosh "query"
\* result exactly": what the driver answers is what mongosh would have.
DriverAnswersAlike ==
  Ordinary => \A k \in DOMAIN replies : replies[k].by = "driver" => replies[k].result = InMongosh

\* A find gets the same answer from the driver as it would from mongosh.
FindIsSound == FindTypeOK /\ DriverAnswersAlike
=============================================================================
