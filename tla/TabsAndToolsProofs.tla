---------------------------- MODULE TabsAndToolsProofs ----------------------------
(***************************************************************************)
(* The query tab and the tools that run beside the program.                *)
(*                                                                         *)
(* The tab: a run is told under its own text, because unless a script was  *)
(* sent while another request was on its way all that is on its way are    *)
(* pages of finds, or one request.  A page of a find arrives in its part,  *)
(* because as long as the splitter stands its parts are those the requests *)
(* were aimed at.                                                          *)
(*                                                                         *)
(* The tools: while one runs the form is the one it was started with, so   *)
(* the plan is a function of the form; step by step, what the finished     *)
(* steps were to dump is held by their outputs, and no later step of the   *)
(* plan writes where an earlier one did, unless it is the same folder.     *)
(***************************************************************************)
EXTENDS QueryTab, ToolRunner, SequenceLemmas

\* What is at the worker or on its way back.
OnTheWay == {requests[i] : i \in DOMAIN requests} \cup {replies[i].req : i \in DOMAIN replies}

\* A script on its way is one of the user's, and a page of a find starts where the query
\* allows it.
RequestsAreSound ==
  \A r \in OnTheWay :
    /\ r.op = "script" => r.script \in Scripts
    /\ r.op = "find" => r.page.skip >= QuerySkip

\* Unless they are all pages of finds, there is one request on its way.
OnlyFindsOverlap ==
  ~rushed => (\A r \in OnTheWay : r.op = "find") \/ Len(requests) + Len(replies) = 1

\* The text waiting to be recorded is that of the script on its way.  A script without a
\* text is the one the tab was opened with, and nothing is shown yet.
TextIsOfScript ==
  ~rushed =>
    /\ lastQuery # NoScript => \E r \in OnTheWay : r.op = "script"
    /\ \A r \in OnTheWay :
         r.op = "script" => r.script = lastQuery \/ (lastQuery = NoScript /\ presented = 0)

\* The inductive invariant for what is told of a run.
RunInv == TypeOK /\ RequestsAreSound /\ OnlyFindsOverlap /\ TextIsOfScript /\ RunsAreTold

\* In a splitter, a page is wanted for a part that is still there, and a find's knows its place.
PagesAreAimed ==
  ~rushed /\ ~tabbed =>
    \A r \in OnTheWay :
      /\ r.op = "find" =>
           /\ r.index + 1 \in DOMAIN parts
           /\ parts[r.index + 1].kind = "find"
           /\ parts[r.index + 1].src = r.page.src
      /\ r.op = "aggr" => \E i \in DOMAIN parts : parts[i].kind = "aggr"

\* An aggregation does not stand below a find.
AggregateIsFirst ==
  ~tabbed => Len(parts) <= 2 /\ (Len(parts) = 2 /\ parts[2].kind = "aggr" => parts[1].kind # "find")

\* The inductive invariant for what is shown.
PageInv ==
  /\ PagesAreAimed /\ AggregateIsFirst
  /\ FindPagesReachTheirPart /\ HeaderIsOfDocuments /\ NothingSkippedIsShown

\* No script has an aggregation as the second of two results, after a find.
NoAggregateBelowFind ==
  \A s \in Scripts :
    Len(PartsOf[s]) = 2 /\ PartsOf[s][2] = "aggr" => PartsOf[s][1] # "find"
-----------------------------------------------------------------------------
LEMMA WayOps == InFlight = {r.op : r \in OnTheWay}
BY DEF InFlight, OnTheWay

\* What is on its way when a request is sent.
LEMMA WaySent ==
  ASSUME TypeOK, NEW r \in Request, requests' = Append(requests, r), UNCHANGED replies
  PROVE  /\ requests' \in Seq(Request) /\ OnTheWay' = OnTheWay \cup {r}
         /\ Len(requests') + Len(replies') = Len(requests) + Len(replies) + 1
<1>1. requests \in Seq(Request) /\ replies \in Seq(Reply)
  BY DEF TypeOK
<1>2. /\ Len(requests') = Len(requests) + 1 /\ requests' \in Seq(Request)
      /\ \A i \in 1..Len(requests) : requests'[i] = requests[i]
      /\ requests'[Len(requests) + 1] = r
  BY <1>1, AppendProperties
<1>3. /\ DOMAIN requests' = 1..(Len(requests) + 1) /\ DOMAIN requests = 1..Len(requests)
      /\ Len(requests) \in Nat /\ Len(replies) \in Nat
  BY <1>1, <1>2, LenProperties
<1>4. {requests'[i] : i \in DOMAIN requests'} = {requests[i] : i \in DOMAIN requests} \cup {r}
  BY <1>2, <1>3
<1> QED
  BY <1>2, <1>3, <1>4 DEF OnTheWay

\* What is on its way when the worker has answered: the same.
LEMMA WayAnswered ==
  ASSUME TypeOK, requests # <<>>, NEW o \in Outcomes, requests' = Tail(requests),
         replies' = Append(replies, [req |-> Head(requests), outcome |-> o])
  PROVE  /\ requests' \in Seq(Request) /\ replies' \in Seq(Reply) /\ OnTheWay' = OnTheWay
         /\ Len(requests') + Len(replies') = Len(requests) + Len(replies)
<1>1. requests \in Seq(Request) /\ replies \in Seq(Reply)
  BY DEF TypeOK
<1>2. PICK a : a = [req |-> Head(requests), outcome |-> o]
  OBVIOUS
<1>3. /\ Head(requests) \in Request /\ requests' \in Seq(Request)
      /\ Len(requests') = Len(requests) - 1 /\ Len(requests) \in Nat \ {0}
      /\ \A i \in 1..Len(requests') : requests'[i] = requests[i + 1]
  BY <1>1, HeadTailProperties, EmptySeq
<1>4. a \in Reply /\ a.req = Head(requests) /\ Head(requests) = requests[1]
  BY <1>1, <1>2, <1>3 DEF Reply
<1>5. /\ Len(replies') = Len(replies) + 1 /\ replies' \in Seq(Reply)
      /\ \A i \in 1..Len(replies) : replies'[i] = replies[i]
      /\ replies'[Len(replies) + 1] = a
  BY <1>1, <1>2, <1>4, AppendProperties
<1>6. /\ DOMAIN requests = 1..Len(requests) /\ DOMAIN replies = 1..Len(replies)
      /\ DOMAIN requests' = 1..Len(requests') /\ DOMAIN replies' = 1..Len(replies')
      /\ Len(replies) \in Nat
  BY <1>1, <1>3, <1>5, LenProperties
<1>7. {requests[i] : i \in DOMAIN requests} = {requests'[i] : i \in DOMAIN requests'} \cup {requests[1]}
  <2>1. \A n \in Nat \ {0} : \A i \in 1..n : i = 1 \/ (i - 1 \in 1..(n - 1) /\ i = (i - 1) + 1)
    OBVIOUS
  <2>2. ASSUME NEW i \in DOMAIN requests
        PROVE  requests[i] \in {requests'[j] : j \in DOMAIN requests'} \cup {requests[1]}
    <3>1. CASE i = 1
      BY <3>1
    <3>2. CASE i # 1
      <4>1. PICK j : j = i - 1
        OBVIOUS
      <4>2. j \in DOMAIN requests' /\ requests'[j] = requests[i]
        BY <1>3, <1>6, <2>1, <3>2, <4>1
      <4> QED
        BY <4>2
    <3> QED
      BY <3>1, <3>2
  <2>3. ASSUME NEW i \in DOMAIN requests'
        PROVE  requests'[i] \in {requests[j] : j \in DOMAIN requests}
    BY <1>3, <1>6
  <2>4. requests[1] \in {requests[j] : j \in DOMAIN requests}
    <3>1. 1 \in DOMAIN requests
      BY <1>3, <1>6
    <3> QED
      BY <3>1, Zenon
  <2> QED
    BY <2>2, <2>3, <2>4
<1>8. {replies'[i].req : i \in DOMAIN replies'} = {replies[i].req : i \in DOMAIN replies} \cup {requests[1]}
  <2>1. \A i \in DOMAIN replies : i \in DOMAIN replies' /\ replies'[i].req = replies[i].req
    BY <1>5, <1>6
  <2>2. \A i \in DOMAIN replies' : i \in DOMAIN replies \/ replies'[i].req = requests[1]
    BY <1>4, <1>5, <1>6
  <2>3. \E i \in DOMAIN replies' : replies'[i].req = requests[1]
    BY <1>4, <1>5, <1>6
  <2> QED
    BY <2>1, <2>2, <2>3
<1>9. OnTheWay' = OnTheWay
  BY <1>7, <1>8, Zenon DEF OnTheWay
<1> QED
  BY <1>3, <1>5, <1>6, <1>9

\* What is on its way when a reply is handled: nothing, if it was alone.
LEMMA WayHandled ==
  ASSUME TypeOK, replies # <<>>, replies' = Tail(replies), UNCHANGED requests
  PROVE  /\ Head(replies) \in Reply /\ Head(replies).req \in OnTheWay
         /\ replies' \in Seq(Reply) /\ OnTheWay' \subseteq OnTheWay
         /\ Len(requests) + Len(replies) = 1 =>
              OnTheWay' = {} /\ OnTheWay = {Head(replies).req}
<1>1. requests \in Seq(Request) /\ replies \in Seq(Reply)
  BY DEF TypeOK
<1>2. /\ Head(replies) \in Reply /\ replies' \in Seq(Reply)
      /\ Len(replies') = Len(replies) - 1 /\ Len(replies) \in Nat \ {0}
      /\ \A i \in 1..Len(replies') : replies'[i] = replies[i + 1]
      /\ Head(replies) = replies[1]
  BY <1>1, HeadTailProperties, EmptySeq
<1>3. /\ DOMAIN requests = 1..Len(requests) /\ DOMAIN replies = 1..Len(replies)
      /\ DOMAIN replies' = 1..Len(replies') /\ Len(requests) \in Nat
  BY <1>1, <1>2, LenProperties
<1>4. {replies'[i].req : i \in DOMAIN replies'} \subseteq {replies[i].req : i \in DOMAIN replies}
  <2>1. \A n \in Nat \ {0} : \A i \in 1..(n - 1) : i + 1 \in 1..n
    OBVIOUS
  <2> QED
    BY <1>2, <1>3, <2>1
<1>5. replies[1].req \in {replies[i].req : i \in DOMAIN replies}
  BY <1>2, <1>3
<1>6. Len(requests) + Len(replies) = 1 =>
        DOMAIN requests = {} /\ DOMAIN replies' = {} /\ DOMAIN replies = {1}
  BY <1>2, <1>3
<1> QED
  BY <1>2, <1>4, <1>5, <1>6 DEF OnTheWay

\* Sending keeps the overlap to finds, as long as nothing is rushed.
LEMMA OverlapSent ==
  ASSUME TypeOK, RequestsAreSound, OnlyFindsOverlap,
         NEW r \in Request, requests' = Append(requests, r), UNCHANGED replies,
         r.op = "script" => r.script \in Scripts,
         r.op = "find" => r.page.skip >= QuerySkip, Sends(r.op)
  PROVE  /\ RequestsAreSound' /\ OnlyFindsOverlap' /\ rushed' \in BOOLEAN
         /\ ~rushed' => ~rushed /\ (OnTheWay = {} \/ (r.op = "find" /\ \A q \in OnTheWay : q.op = "find"))
<1>1. /\ requests' \in Seq(Request) /\ OnTheWay' = OnTheWay \cup {r}
      /\ Len(requests') + Len(replies') = Len(requests) + Len(replies) + 1
  BY WaySent
<1>2. RequestsAreSound'
  BY <1>1 DEF RequestsAreSound
<1>3. rushed' \in BOOLEAN
  BY DEF Sends, TypeOK
<1>4. ~rushed' => ~rushed /\ (OnTheWay = {} \/ (r.op = "find" /\ \A q \in OnTheWay : q.op = "find"))
  <2>1. ~rushed' => ~rushed /\ ({r.op} \cup InFlight \subseteq {"find"} \/ InFlight = {})
    BY DEF Sends, TypeOK
  <2>2. InFlight = {} => OnTheWay = {}
    BY WayOps
  <2>3. \A q \in OnTheWay : q.op \in InFlight
    BY WayOps
  <2> QED
    BY <2>1, <2>2, <2>3
<1>5. OnTheWay = {} => Len(requests) + Len(replies) = 0
  <2>1. /\ DOMAIN requests = 1..Len(requests) /\ DOMAIN replies = 1..Len(replies)
        /\ Len(requests) \in Nat /\ Len(replies) \in Nat
    BY LenProperties DEF TypeOK
  <2>2. OnTheWay = {} => DOMAIN requests = {} /\ DOMAIN replies = {}
    BY DEF OnTheWay
  <2>3. OnTheWay = {} => ~(1 \in DOMAIN requests) /\ ~(1 \in DOMAIN replies)
    BY <2>2
  <2> QED
    BY <2>1, <2>3
<1>6. OnlyFindsOverlap'
  BY <1>1, <1>4, <1>5 DEF OnlyFindsOverlap
<1> QED
  BY <1>2, <1>3, <1>4, <1>6
-----------------------------------------------------------------------------
LEMMA ScriptRequestFacts ==
  ASSUME NEW run \in Nat, NEW s \in Scripts \cup {NoScript}
  PROVE  /\ ScriptRequest(run, s) \in Request /\ ScriptRequest(run, s).op = "script"
         /\ ScriptRequest(run, s).script = s /\ ScriptRequest(run, s).run = run
BY DEF ScriptRequest, Request, NoPage, Page, Source

LEMMA NoReplyFacts ==
  NoReply \in Reply /\ NoReply.req.op = "script" /\ NoReply.req.run = 0
BY ScriptRequestFacts DEF NoReply, Reply, Outcomes

LEMMA AllowedFacts ==
  ASSUME NEW kind, NEW skip \in Nat
  PROVE  /\ Allowed(kind, skip) \in Nat
         /\ kind = "find" => Allowed(kind, skip) >= QuerySkip
         /\ kind = "find" /\ Allowed(kind, skip) # skip => Allowed(kind, skip) = QuerySkip
BY TabAssumption DEF Allowed, InitialSkip

LEMMA FreshFacts ==
  ASSUME NEW run \in Nat, NEW i \in Nat, NEW kind \in Kinds
  PROVE  /\ Fresh(run, i, kind) \in Part
         /\ Fresh(run, i, kind).src.run = run /\ Fresh(run, i, kind).kind = kind
         /\ Fresh(run, i, kind).docs.src = Fresh(run, i, kind).src
         /\ Fresh(run, i, kind).docs.skip = Fresh(run, i, kind).skip
         /\ kind = "find" => Fresh(run, i, kind).skip = QuerySkip
BY TabAssumption DEF Fresh, InitialSkip, Part, Page, Source

\* The results of a reply.
LEMMA ResultsFacts ==
  ASSUME NEW reply \in Reply, reply.req.op = "script" => reply.req.script \in Scripts,
         reply.req.op # "find"
  PROVE  /\ Results(reply) \in Seq(Kinds)
         /\ DOMAIN Results(reply) = 1..Len(Results(reply)) /\ Len(Results(reply)) \in Nat
         /\ \A i \in DOMAIN Results(reply) : Results(reply)[i] \in Kinds
         /\ NoAggregateBelowFind =>
              ~(/\ Len(Results(reply)) = 2 /\ Results(reply)[2] = "aggr"
                /\ Results(reply)[1] = "find")
<1>1. reply.req.op \in {"script", "aggr"}
  BY DEF Reply, Request
<1>2. CASE reply.outcome # "ok"
  <2>1. Results(reply) = <<>>
    BY <1>2 DEF Results
  <2> QED
    BY <2>1, EmptySeq
<1>3. CASE reply.outcome = "ok" /\ reply.req.op = "aggr"
  <2>1. Results(reply) = <<"aggr">>
    BY <1>3 DEF Results
  <2>2. <<"aggr">> \in Seq(Kinds) /\ Len(<<"aggr">>) = 1 /\ <<"aggr">>[1] = "aggr"
    BY DEF Kinds
  <2> QED
    BY <2>1, <2>2, LenProperties, ElementOfSeq
<1>4. CASE reply.outcome = "ok" /\ reply.req.op = "script"
  <2>1. Results(reply) = PartsOf[reply.req.script] /\ reply.req.script \in Scripts
    BY <1>4 DEF Results
  <2>2. PartsOf[reply.req.script] \in Seq(Kinds)
    BY <2>1, TabAssumption
  <2> QED
    BY <2>1, <2>2, LenProperties, ElementOfSeq DEF NoAggregateBelowFind
<1> QED
  BY <1>1, <1>2, <1>3, <1>4

\* What present() leaves: parts of the reply's own run, each showing its first page.
LEMMA PresentFacts ==
  ASSUME NEW reply \in Reply, reply.req.op = "script" => reply.req.script \in Scripts,
         reply.req.op # "find", Present(reply)
  PROVE  /\ parts' \in Seq(Part) /\ presented' \in Nat /\ tabbed' \in BOOLEAN /\ current' \in Nat
         /\ \A i \in DOMAIN parts' :
              /\ parts'[i].src.run = reply.req.run
              /\ parts'[i].docs.src = parts'[i].src /\ parts'[i].docs.skip = parts'[i].skip
              /\ parts'[i].kind = "find" => parts'[i].skip = QuerySkip
         /\ NoAggregateBelowFind => AggregateIsFirst'
<1>1. PICK kinds : kinds = Results(reply)
  OBVIOUS
<1>2. /\ kinds \in Seq(Kinds) /\ DOMAIN kinds = 1..Len(kinds) /\ Len(kinds) \in Nat
      /\ \A i \in DOMAIN kinds : kinds[i] \in Kinds
      /\ NoAggregateBelowFind => ~(Len(kinds) = 2 /\ kinds[2] = "aggr" /\ kinds[1] = "find")
  BY <1>1, ResultsFacts, Zenon
<1>3. PICK run : run = reply.req.run
  OBVIOUS
<1>4. run \in Nat
  BY <1>3 DEF Reply, Request
<1>5. /\ parts' = [i \in 1..Len(kinds) |-> Fresh(run, i, kinds[i])]
      /\ presented' = Len(kinds) /\ tabbed' = (Len(kinds) > 2)
      /\ current' = IF Len(kinds) > 2 THEN 1 ELSE 0
  BY <1>1, <1>2, <1>3 DEF Present
<1>6. \A i \in 1..Len(kinds) :
        /\ parts'[i] \in Part
        /\ parts'[i].src.run = run /\ parts'[i].kind = kinds[i]
        /\ parts'[i].docs.src = parts'[i].src /\ parts'[i].docs.skip = parts'[i].skip
        /\ parts'[i].kind = "find" => parts'[i].skip = QuerySkip
  <2> TAKE i \in 1..Len(kinds)
  <2>1. PICK p, k : p = Fresh(run, i, k) /\ p = parts'[i] /\ k = kinds[i]
    BY <1>5
  <2>2. i \in Nat /\ k \in Kinds
    BY <1>2, <2>1
  <2>3. /\ p \in Part /\ p.src.run = run /\ p.kind = k
        /\ p.docs.src = p.src /\ p.docs.skip = p.skip
        /\ k = "find" => p.skip = QuerySkip
    <3>1. /\ Fresh(run, i, k) \in Part
          /\ Fresh(run, i, k).src.run = run /\ Fresh(run, i, k).kind = k
          /\ Fresh(run, i, k).docs.src = Fresh(run, i, k).src
          /\ Fresh(run, i, k).docs.skip = Fresh(run, i, k).skip
          /\ k = "find" => Fresh(run, i, k).skip = QuerySkip
      BY <1>4, <2>2, FreshFacts
    <3> QED
      BY <2>1, <3>1, Zenon
  <2> QED
    BY <2>1, <2>3
<1>7. parts' \in Seq(Part) /\ DOMAIN parts' = 1..Len(kinds) /\ Len(parts') = Len(kinds)
  <2>1. parts' \in [1..Len(kinds) -> Part]
    BY <1>5, <1>6
  <2> QED
    BY <1>2, <2>1, LenProperties, SeqDef
<1>8. NoAggregateBelowFind => AggregateIsFirst'
  <2>1. tabbed' \/ Len(kinds) <= 2
    <3>1. Len(kinds) > 2 \/ Len(kinds) <= 2
      BY <1>2
    <3> QED
      BY <1>5, <3>1, Zenon
  <2>2. Len(kinds) = 2 => parts'[1].kind = kinds[1] /\ parts'[2].kind = kinds[2]
    BY <1>6
  <2>3. AggregateIsFirst' <=>
          (~tabbed' => /\ Len(parts') <= 2
                       /\ Len(parts') = 2 /\ parts'[2].kind = "aggr" => parts'[1].kind # "find")
    BY DEF AggregateIsFirst
  <2> QED
    BY <1>2, <1>7, <2>1, <2>2, <2>3
<1> QED
  BY <1>2, <1>3, <1>5, <1>6, <1>7, <1>8

\* A part with other documents.
LEMMA UpdatedPart ==
  ASSUME parts \in Seq(Part), NEW k \in DOMAIN parts, NEW n \in Nat, NEW d \in Page,
         parts' = [parts EXCEPT ![k].skip = n, ![k].docs = d]
  PROVE  /\ parts' \in Seq(Part) /\ DOMAIN parts' = DOMAIN parts /\ Len(parts') = Len(parts)
         /\ parts'[k].skip = n /\ parts'[k].docs = d
         /\ \A i \in DOMAIN parts : i # k => parts'[i] = parts[i]
         /\ \A i \in DOMAIN parts :
              parts'[i].src = parts[i].src /\ parts'[i].kind = parts[i].kind
<1>1. /\ DOMAIN parts = 1..Len(parts) /\ Len(parts) \in Nat
      /\ \A i \in DOMAIN parts : parts[i] \in Part
  BY LenProperties, ElementOfSeq
<1>2. PICK p : p = [parts[k] EXCEPT !.skip = n, !.docs = d]
  OBVIOUS
<1>3. p \in Part /\ p.skip = n /\ p.docs = d /\ p.src = parts[k].src /\ p.kind = parts[k].kind
  BY <1>1, <1>2 DEF Part
<1>4. parts' = [parts EXCEPT ![k] = p]
  BY <1>1, <1>2 DEF Part
<1>5. /\ parts' \in Seq(Part) /\ Len(parts') = Len(parts)
      /\ \A i \in 1..Len(parts) : parts'[i] = IF i = k THEN p ELSE parts[i]
  <2>1. /\ [parts EXCEPT ![k] = p] \in Seq(Part) /\ Len([parts EXCEPT ![k] = p]) = Len(parts)
        /\ \A i \in 1..Len(parts) : [parts EXCEPT ![k] = p][i] = IF i = k THEN p ELSE parts[i]
    BY <1>1, <1>3, ExceptSeq
  <2> QED
    BY <1>4, <2>1, Zenon
<1>6. DOMAIN parts' = DOMAIN parts
  BY <1>4
<1> QED
  BY <1>1, <1>3, <1>5, <1>6
-----------------------------------------------------------------------------
LEMMA InitRun == Init => RunInv
<1> SUFFICES ASSUME Init PROVE RunInv
  OBVIOUS
<1>1. /\ replies = <<>> /\ parts = <<>> /\ history = <<>> /\ answered = NoReply
      /\ rushed = FALSE /\ presented = 0 /\ lastQuery = NoScript
  BY DEF Init
<1>2. requests \in Seq(Request) /\ runs \in Nat /\ executing \in BOOLEAN
      /\ ((requests = <<>> /\ OnTheWay = {})
          \/ (Len(requests) = 1 /\ \E s \in Scripts : OnTheWay = {ScriptRequest(1, s)}))
  <2>1. CASE executing = FALSE /\ requests = <<>> /\ runs = 0
    <3>1. DOMAIN requests = {} /\ DOMAIN replies = {} /\ requests \in Seq(Request)
      BY <1>1, <2>1, EmptySeq
    <3>2. OnTheWay = {} /\ runs \in Nat /\ requests \in Seq(Request) /\ executing \in BOOLEAN
      BY <2>1, <3>1 DEF OnTheWay
    <3> QED
      BY <2>1, <3>2
  <2>2. ASSUME NEW s \in Scripts, executing = TRUE, requests = <<ScriptRequest(1, s)>>, runs = 1
        PROVE  /\ requests \in Seq(Request) /\ runs \in Nat /\ executing \in BOOLEAN
               /\ Len(requests) = 1 /\ OnTheWay = {ScriptRequest(1, s)}
    <3>1. ScriptRequest(1, s) \in Request
      BY ScriptRequestFacts
    <3>2. DOMAIN requests = {1} /\ requests[1] = ScriptRequest(1, s) /\ DOMAIN replies = {}
      BY <1>1, <2>2
    <3> QED
      BY <2>2, <3>1, <3>2 DEF OnTheWay
  <2>3. \/ executing = FALSE /\ requests = <<>> /\ runs = 0
        \/ \E s \in Scripts : executing = TRUE /\ requests = <<ScriptRequest(1, s)>> /\ runs = 1
    BY DEF Init
  <2> QED
    BY <2>1, <2>2, <2>3, Zenon
<1>3. TypeOK
  <2>1. /\ popup \in BOOLEAN /\ tabbed \in BOOLEAN /\ crashed \in BOOLEAN /\ rushed \in BOOLEAN
        /\ lastQuery \in Scripts \cup {NoScript} /\ answered \in Reply
    BY <1>1, <1>2, NoReplyFacts, Zenon DEF Init
  <2>2. presented \in Nat /\ current \in Nat /\ pages \in Nat
    BY DEF Init
  <2> QED
    BY <1>1, <1>2, <2>1, <2>2, EmptySeq, Zenon DEF TypeOK
<1>4. \A r \in OnTheWay : r.op = "script" /\ r.script \in Scripts
  BY <1>2, ScriptRequestFacts
<1>5. Len(replies) = 0
  BY <1>1
<1>6. RequestsAreSound /\ OnlyFindsOverlap /\ TextIsOfScript
  BY <1>1, <1>2, <1>4, <1>5 DEF RequestsAreSound, OnlyFindsOverlap, TextIsOfScript
<1>7. RunsAreTold
  BY <1>1 DEF RunsAreTold, HistoryIsOfItsRun, FreshRunRebuilds
<1> QED
  BY <1>3, <1>6, <1>7 DEF RunInv

LEMMA ExecuteRun ==
  ASSUME RunInv, NEW s \in Scripts, Execute(s)
  PROVE  RunInv'
<1> USE DEF RunInv
<1>1. /\ Sends("script") /\ lastQuery' = s /\ executing' = TRUE /\ popup' = TRUE
      /\ runs' = runs + 1 /\ requests' = Append(requests, ScriptRequest(runs + 1, s))
      /\ UNCHANGED <<parts, presented, tabbed, current, replies, pages, history, answered, crashed>>
  BY DEF Execute, viewVars
<1>2. PICK r : r = ScriptRequest(runs + 1, s)
  OBVIOUS
<1>3. r \in Request /\ r.op = "script" /\ r.script = s
  BY <1>2, ScriptRequestFacts DEF TypeOK
<1>4. requests' \in Seq(Request) /\ OnTheWay' = OnTheWay \cup {r}
  BY <1>1, <1>2, <1>3, WaySent
<1>5. /\ RequestsAreSound' /\ OnlyFindsOverlap' /\ rushed' \in BOOLEAN
      /\ ~rushed' => ~rushed /\ OnTheWay = {}
  BY <1>1, <1>2, <1>3, OverlapSent
<1>6. TypeOK'
  BY <1>1, <1>4, <1>5 DEF TypeOK
<1>7. TextIsOfScript'
  BY <1>1, <1>3, <1>4, <1>5 DEF TextIsOfScript
<1>8. RunsAreTold'
  BY <1>1, <1>5 DEF RunsAreTold, HistoryIsOfItsRun, FreshRunRebuilds
<1> QED
  BY <1>5, <1>6, <1>7, <1>8

\* The request for a page.
LEMMA RefreshFacts ==
  ASSUME TypeOK, NEW i \in Nat, NEW skip \in Nat, Refresh(i, skip)
  PROVE  \E r \in Request :
           /\ requests' = Append(requests, r) /\ Sends(r.op)
           /\ i \in DOMAIN parts /\ Visible(i) /\ r.op = parts[i].kind /\ r.op \in {"find", "aggr"}
           /\ r.page.src = parts[i].src /\ r.index = ResultIndex(i)
           /\ r.op = "find" => r.page.skip >= QuerySkip
           /\ parts' \in Seq(Part) /\ DOMAIN parts' = DOMAIN parts /\ Len(parts') = Len(parts)
           /\ \A j \in DOMAIN parts :
                /\ parts'[j].src = parts[j].src /\ parts'[j].kind = parts[j].kind
                /\ parts'[j].docs = parts[j].docs
                /\ parts'[j].skip = parts[j].skip
                   \/ (parts[j].kind = "find" => parts'[j].skip = QuerySkip)
<1> DEFINE wanted == Allowed(parts[i].kind, skip)
           page == [src |-> parts[i].src, skip |-> wanted]
           r == [op |-> parts[i].kind, run |-> MaxRuns + pages + 1, script |-> NoScript,
                 page |-> page, index |-> ResultIndex(i)]
<1>1. /\ i \in DOMAIN parts /\ Visible(i) /\ parts[i].kind \in {"find", "aggr"}
      /\ Sends(parts[i].kind) /\ requests' = Append(requests, r)
  BY DEF Refresh
<1>0. parts' = IF wanted # skip THEN [parts EXCEPT ![i].skip = wanted] ELSE parts
  BY DEF Refresh
<1>2. /\ parts \in Seq(Part) /\ DOMAIN parts = 1..Len(parts) /\ Len(parts) \in Nat
      /\ \A j \in DOMAIN parts : parts[j] \in Part /\ parts[j].docs \in Page /\ parts[j].src \in Source
  <2>1. parts \in Seq(Part)
    BY DEF TypeOK
  <2>2. /\ DOMAIN parts = 1..Len(parts) /\ Len(parts) \in Nat
        /\ \A j \in DOMAIN parts : parts[j] \in Part
    BY <2>1, LenProperties, ElementOfSeq
  <2> QED
    BY <2>1, <2>2 DEF Part
<1>3. /\ wanted \in Nat
      /\ parts[i].kind = "find" => wanted >= QuerySkip
      /\ parts[i].kind = "find" /\ wanted # skip => wanted = QuerySkip
  BY AllowedFacts
<1>4. page \in Page /\ page.src = parts[i].src /\ page.skip = wanted
  <2>1. parts[i].src \in Source /\ wanted \in Nat
    BY <1>1, <1>2, <1>3
  <2> HIDE DEF wanted
  <2> QED
    BY <2>1 DEF Page
<1>5. ResultIndex(i) \in Int /\ MaxRuns + pages + 1 \in Nat
  <2>1. pages \in Nat /\ MaxRuns \in Nat /\ i \in Nat
    BY TabAssumption DEF TypeOK
  <2>2. MaxRuns + pages + 1 \in Nat /\ i - 1 \in Int /\ -1 \in Int
    BY <2>1
  <2> QED
    BY <2>2, Zenon DEF ResultIndex
<1>6. r \in Request /\ r.op = parts[i].kind /\ r.page = page /\ r.index = ResultIndex(i)
  <2> HIDE DEF wanted, page
  <2> QED
    BY <1>1, <1>4, <1>5 DEF Request
<1> HIDE DEF r, page, wanted
<1>7. /\ parts' \in Seq(Part) /\ DOMAIN parts' = DOMAIN parts /\ Len(parts') = Len(parts)
      /\ \A j \in DOMAIN parts :
           /\ parts'[j].src = parts[j].src /\ parts'[j].kind = parts[j].kind
           /\ parts'[j].docs = parts[j].docs
           /\ parts'[j].skip = parts[j].skip
              \/ (parts[j].kind = "find" => parts'[j].skip = QuerySkip)
  <2>1. CASE wanted = skip
    BY <1>0, <1>1, <1>2, <2>1
  <2>2. CASE wanted # skip
    <3>1. parts' = [parts EXCEPT ![i].skip = wanted, ![i].docs = parts[i].docs]
      BY <1>0, <1>1, <1>2, <2>2 DEF Part
    <3>2. /\ parts \in Seq(Part) /\ i \in DOMAIN parts /\ wanted \in Nat /\ parts[i].docs \in Page
          /\ parts[i].kind = "find" => wanted = QuerySkip
      BY <1>1, <1>2, <1>3, <2>2
    <3>3. /\ parts' \in Seq(Part) /\ DOMAIN parts' = DOMAIN parts /\ Len(parts') = Len(parts)
          /\ parts'[i].skip = wanted /\ parts'[i].docs = parts[i].docs
          /\ \A j \in DOMAIN parts : j # i => parts'[j] = parts[j]
          /\ \A j \in DOMAIN parts :
               parts'[j].src = parts[j].src /\ parts'[j].kind = parts[j].kind
      BY <3>1, <3>2, UpdatedPart
    <3> QED
      BY <3>2, <3>3
  <2> QED
    BY <2>1, <2>2
<1>8. r.op = "find" => r.page.skip >= QuerySkip
  BY <1>3, <1>4, <1>6
<1>9. r.page.src = parts[i].src /\ r.op \in {"find", "aggr"} /\ Sends(r.op)
  BY <1>1, <1>4, <1>6
<1> QED
  BY <1>1, <1>6, <1>7, <1>8, <1>9, Zenon

LEMMA RefreshRun ==
  ASSUME RunInv, NEW i \in Nat, NEW skip \in Nat, Refresh(i, skip)
  PROVE  RunInv'
<1> USE DEF RunInv
<1>1. PICK r \in Request :
        /\ requests' = Append(requests, r) /\ Sends(r.op)
        /\ r.op \in {"find", "aggr"}
        /\ r.op = "find" => r.page.skip >= QuerySkip
        /\ parts' \in Seq(Part) /\ DOMAIN parts' = DOMAIN parts
        /\ \A j \in DOMAIN parts : parts'[j].src = parts[j].src
  BY RefreshFacts
<1>2. /\ popup' = TRUE /\ pages' = pages + 1
      /\ UNCHANGED <<executing, lastQuery, presented, tabbed, current, replies, runs, history,
                     answered, crashed>>
  BY DEF Refresh
<1>3. requests' \in Seq(Request) /\ OnTheWay' = OnTheWay \cup {r}
  BY <1>1, <1>2, WaySent
<1>4. /\ RequestsAreSound' /\ OnlyFindsOverlap' /\ rushed' \in BOOLEAN
      /\ ~rushed' => ~rushed /\ (OnTheWay = {} \/ \A q \in OnTheWay : q.op = "find")
  BY <1>1, <1>2, OverlapSent
<1>5. TypeOK'
  BY <1>1, <1>2, <1>3, <1>4 DEF TypeOK
<1>6. TextIsOfScript'
  BY <1>1, <1>2, <1>3, <1>4 DEF TextIsOfScript
<1>7. RunsAreTold'
  BY <1>1, <1>2, <1>4 DEF RunsAreTold, HistoryIsOfItsRun, FreshRunRebuilds
<1> QED
  BY <1>4, <1>5, <1>6, <1>7

LEMMA CloseRun ==
  ASSUME RunInv, NEW i \in Nat, CloseResultTab(i)
  PROVE  RunInv'
<1> USE DEF RunInv
<1>1. /\ i \in DOMAIN parts /\ parts' = RemoveAt(parts, i) /\ answered' = NoReply
      /\ current' = IF i < current \/ current = Len(parts) THEN current - 1 ELSE current
      /\ UNCHANGED <<executing, popup, lastQuery, requests, runs, pages, replies, presented,
                     tabbed, history, crashed, rushed>>
  BY DEF CloseResultTab, requestVars
<1>2. DOMAIN parts = 1..Len(parts) /\ Len(parts) \in Nat /\ parts \in Seq(Part) /\ current \in Nat
  BY LenProperties DEF TypeOK
<1>3. parts' \in Seq(Part)
  BY <1>1, <1>2, RemoveAtFacts
<1>4. current' \in Nat
  <2>1. i \in 1..Len(parts) /\ Len(parts) \in Nat /\ current \in Nat
    BY <1>1, <1>2
  <2>2. (i < current \/ current = Len(parts)) => current - 1 \in Nat
    BY <2>1
  <2> QED
    BY <1>1, <1>2, <2>2, Zenon
<1>5. OnTheWay' = OnTheWay
  BY <1>1 DEF OnTheWay
<1>6. TypeOK'
  BY <1>1, <1>3, <1>4, NoReplyFacts DEF TypeOK
<1>7. RequestsAreSound' /\ OnlyFindsOverlap' /\ TextIsOfScript'
  BY <1>1, <1>5 DEF RequestsAreSound, OnlyFindsOverlap, TextIsOfScript
<1>8. RunsAreTold'
  BY <1>1, NoReplyFacts DEF RunsAreTold, HistoryIsOfItsRun, FreshRunRebuilds
<1> QED
  BY <1>6, <1>7, <1>8

LEMMA AnswerRun ==
  ASSUME RunInv, NEW o \in Outcomes, Answer(o)
  PROVE  RunInv'
<1> USE DEF RunInv
<1>1. /\ requests # <<>> /\ requests' = Tail(requests)
      /\ replies' = Append(replies, [req |-> Head(requests), outcome |-> o])
      /\ UNCHANGED <<executing, popup, lastQuery, parts, presented, tabbed, current, runs, pages,
                     history, answered, crashed, rushed>>
  BY DEF Answer, viewVars
<1>2. /\ requests' \in Seq(Request) /\ replies' \in Seq(Reply) /\ OnTheWay' = OnTheWay
      /\ Len(requests') + Len(replies') = Len(requests) + Len(replies)
  BY <1>1, WayAnswered
<1>3. TypeOK'
  BY <1>1, <1>2 DEF TypeOK
<1>4. RequestsAreSound' /\ OnlyFindsOverlap' /\ TextIsOfScript' /\ RunsAreTold'
  BY <1>1, <1>2 DEF RequestsAreSound, OnlyFindsOverlap, TextIsOfScript, RunsAreTold,
                    HistoryIsOfItsRun, FreshRunRebuilds
<1> QED
  BY <1>3, <1>4
\* The page of an aggregation, whatever its reply says of the place.
LEMMA UpdateAggregateFacts ==
  ASSUME TypeOK, NEW reply \in Reply, UpdateAggregate(reply)
  PROVE  /\ parts' \in Seq(Part) /\ DOMAIN parts' = DOMAIN parts
         /\ Len(parts') = Len(parts) /\ UNCHANGED <<presented, tabbed, current>>
         /\ tabbed => parts' = parts
         /\ \A i \in DOMAIN parts : parts'[i].kind = parts[i].kind
         /\ \A i \in DOMAIN parts : i # 1 => parts'[i] = parts[i]
<1> DEFINE own == [src |-> [run |-> reply.req.run, ix |-> 1], skip |-> 0]
           docs == IF reply.req.op = "aggr" THEN reply.req.page ELSE own
<1>1. /\ UNCHANGED <<presented, tabbed, current>>
      /\ tabbed \/ parts = <<>> => parts' = parts
      /\ ~(tabbed \/ parts = <<>>) => parts' = [parts EXCEPT ![1].skip = 0, ![1].docs = docs]
  BY DEF UpdateAggregate
<1>2. parts \in Seq(Part) /\ DOMAIN parts = 1..Len(parts)
  BY LenProperties DEF TypeOK
<1>3. docs \in Page
  <2>1. reply.req \in Request
    BY DEF Reply
  <2>2. reply.req.run \in Nat /\ reply.req.page \in Page
    BY <2>1 DEF Request
  <2> QED
    BY <2>2 DEF Page, Source
<1> HIDE DEF docs
<1>4. CASE tabbed \/ parts = <<>>
  BY <1>1, <1>2, <1>4
<1>5. CASE ~(tabbed \/ parts = <<>>)
  <2>1. 1 \in DOMAIN parts /\ 0 \in Nat
    BY <1>2, <1>5, EmptySeq
  <2>2. parts' = [parts EXCEPT ![1].skip = 0, ![1].docs = docs]
    BY <1>1, <1>5
  <2>3. /\ parts' \in Seq(Part) /\ DOMAIN parts' = DOMAIN parts /\ Len(parts') = Len(parts)
        /\ \A i \in DOMAIN parts : i # 1 => parts'[i] = parts[i]
        /\ \A i \in DOMAIN parts :
             parts'[i].src = parts[i].src /\ parts'[i].kind = parts[i].kind
    BY <1>2, <1>3, <2>1, <2>2, UpdatedPart
  <2> QED
    BY <1>1, <1>5, <2>3
<1> QED
  BY <1>4, <1>5

LEMMA HandleScriptFacts ==
  ASSUME RunInv, HandleScript
  PROVE  \E reply \in Reply :
           /\ replies # <<>> /\ reply = Head(replies) /\ replies' = Tail(replies)
           /\ reply.req.op \in {"script", "aggr"}
           /\ reply.req.op = "script" => reply.req.script \in Scripts
           /\ history' = IF Recorded(reply)
                         THEN Append(history, [query |-> lastQuery, of |-> reply]) ELSE history
           /\ \/ Present(reply)
              \/ UpdateAggregate(reply) /\ lastQuery = NoScript /\ presented > 0
           /\ answered' = reply /\ lastQuery' = NoScript
           /\ executing' = FALSE /\ popup' = FALSE
           /\ UNCHANGED <<requests, runs, pages, crashed, rushed>>
           /\ replies' \in Seq(Reply) /\ OnTheWay' \subseteq OnTheWay
           /\ ~rushed => OnTheWay' = {} /\ OnTheWay = {reply.req}
<1>1. /\ replies # <<>> /\ replies' = Tail(replies)
      /\ Head(replies).req.op \in {"script", "aggr"}
      /\ history' = IF Recorded(Head(replies))
                    THEN Append(history, [query |-> lastQuery, of |-> Head(replies)]) ELSE history
      /\ \/ Present(Head(replies))
         \/ UpdateAggregate(Head(replies)) /\ lastQuery = NoScript /\ presented > 0
      /\ answered' = Head(replies) /\ lastQuery' = NoScript
      /\ executing' = FALSE /\ popup' = FALSE
      /\ UNCHANGED <<requests, runs, pages, crashed, rushed>>
  BY DEF HandleScript, requestVars
<1>2. /\ Head(replies) \in Reply /\ Head(replies).req \in OnTheWay
      /\ replies' \in Seq(Reply) /\ OnTheWay' \subseteq OnTheWay
      /\ Len(requests) + Len(replies) = 1 =>
           OnTheWay' = {} /\ OnTheWay = {Head(replies).req}
  BY <1>1, WayHandled DEF RunInv
<1>3. Head(replies).req.op = "script" => Head(replies).req.script \in Scripts
  BY <1>2 DEF RunInv, RequestsAreSound
<1>4. ~rushed => Len(requests) + Len(replies) = 1
  BY <1>1, <1>2 DEF RunInv, OnlyFindsOverlap
<1>5. ~rushed => OnTheWay' = {} /\ OnTheWay = {Head(replies).req}
  BY <1>2, <1>4
<1> QED
  BY <1>1, <1>2, <1>3, <1>5, Zenon

LEMMA HandleScriptRun ==
  ASSUME RunInv, HandleScript
  PROVE  RunInv'
<1> USE DEF RunInv
<1>1. PICK reply \in Reply :
        /\ replies # <<>> /\ reply = Head(replies) /\ replies' = Tail(replies)
        /\ reply.req.op \in {"script", "aggr"}
        /\ reply.req.op = "script" => reply.req.script \in Scripts
        /\ history' = IF Recorded(reply)
                      THEN Append(history, [query |-> lastQuery, of |-> reply]) ELSE history
        /\ \/ Present(reply)
           \/ UpdateAggregate(reply) /\ lastQuery = NoScript /\ presented > 0
        /\ answered' = reply /\ lastQuery' = NoScript
        /\ executing' = FALSE /\ popup' = FALSE
        /\ UNCHANGED <<requests, runs, pages, crashed, rushed>>
        /\ replies' \in Seq(Reply) /\ OnTheWay' \subseteq OnTheWay
        /\ ~rushed => OnTheWay' = {} /\ OnTheWay = {reply.req}
  BY HandleScriptFacts
<1>2. parts' \in Seq(Part) /\ presented' \in Nat /\ tabbed' \in BOOLEAN /\ current' \in Nat
  <2>1. CASE Present(reply)
    BY <1>1, <2>1, PresentFacts
  <2>2. CASE UpdateAggregate(reply)
    BY <1>1, <2>2, UpdateAggregateFacts DEF TypeOK
  <2> QED
    BY <1>1, <2>1, <2>2
<1>3. /\ history' \in Seq([query : Scripts, of : Reply])
      /\ ~rushed => HistoryIsOfItsRun'
  <2>0. history \in Seq([query : Scripts, of : Reply]) /\ lastQuery \in Scripts \cup {NoScript}
    BY DEF TypeOK
  <2>1. CASE ~Recorded(reply)
    <3>1. history' = history
      BY <1>1, <2>1
    <3> QED
      BY <1>1, <2>0, <3>1 DEF RunsAreTold, HistoryIsOfItsRun
  <2>2. CASE Recorded(reply)
    <3>1. PICK h : h = [query |-> lastQuery, of |-> reply]
      OBVIOUS
    <3>2. lastQuery \in Scripts
      BY <2>0, <2>2 DEF Recorded
    <3>3. h \in [query : Scripts, of : Reply] /\ h.query = lastQuery /\ h.of = reply
      BY <3>1, <3>2
    <3>4. history' = Append(history, h)
      BY <1>1, <2>2, <3>1
    <3>5. /\ history' \in Seq([query : Scripts, of : Reply])
          /\ DOMAIN history' = 1..(Len(history) + 1) /\ DOMAIN history = 1..Len(history)
          /\ Len(history) \in Nat
          /\ \A i \in 1..Len(history) : history'[i] = history[i]
          /\ history'[Len(history) + 1] = h
      BY <2>0, <3>3, <3>4, AppendProperties, LenProperties
    <3>6. \A i \in DOMAIN history' :
            (i \in DOMAIN history /\ history'[i] = history[i]) \/ history'[i] = h
      BY <3>5
    <3>7. ~rushed => reply.req.script = lastQuery
      BY <1>1, <2>2 DEF TextIsOfScript, Recorded
    <3> QED
      BY <1>1, <3>3, <3>5, <3>6, <3>7 DEF RunsAreTold, HistoryIsOfItsRun
  <2> QED
    BY <2>1, <2>2
<1>4. TypeOK'
  BY <1>1, <1>2, <1>3 DEF TypeOK
<1>5. RequestsAreSound'
  BY <1>1 DEF RequestsAreSound
<1>6. OnlyFindsOverlap' /\ TextIsOfScript'
  BY <1>1 DEF OnlyFindsOverlap, TextIsOfScript
<1>7. FreshRunRebuilds'
  <2> SUFFICES ASSUME ~rushed, reply.req.op = "script"
               PROVE  \A i \in DOMAIN parts' : parts'[i].src.run = reply.req.run
    BY <1>1 DEF FreshRunRebuilds
  <2>1. Present(reply)
    <3>1. lastQuery = NoScript => reply.req.script # lastQuery
      BY <1>1, TabAssumption
    <3>2. ~(lastQuery = NoScript /\ presented > 0)
      BY <1>1, <3>1 DEF TextIsOfScript
    <3> QED
      BY <1>1, <3>2
  <2> QED
    BY <1>1, <2>1, PresentFacts
<1>8. RunsAreTold'
  BY <1>1, <1>3, <1>7 DEF RunsAreTold, HistoryIsOfItsRun
<1> QED
  BY <1>4, <1>5, <1>6, <1>8

\* The page of a find that has arrived: no part takes it, or one whose place is the
\* current tab or the one the request tells.
LEMMA UpdateFindFacts ==
  ASSUME TypeOK, NEW req \in Request, UpdateFind(req)
  PROVE  /\ crashed' \in BOOLEAN
         /\ parts' \in Seq(Part) /\ DOMAIN parts' = DOMAIN parts /\ Len(parts') = Len(parts)
         /\ \A i \in DOMAIN parts :
              parts'[i].src = parts[i].src /\ parts'[i].kind = parts[i].kind
         /\ ~tabbed /\ req.index + 1 \in DOMAIN parts => crashed' = crashed
         /\ \A i \in DOMAIN parts :
              \/ parts'[i] = parts[i]
              \/ /\ parts'[i].skip = req.page.skip /\ parts'[i].docs = req.page
                 /\ ~tabbed => i = req.index + 1
<1>0. /\ parts \in Seq(Part) /\ DOMAIN parts = 1..Len(parts) /\ Len(parts) \in Nat
      /\ req.index \in Int /\ req.page \in Page /\ crashed \in BOOLEAN
  BY LenProperties DEF TypeOK, Request
<1>1. PICK target : target = IF tabbed THEN current ELSE req.index + 1
  OBVIOUS
<1>2. CASE ~tabbed /\ req.index >= Len(parts)
  BY <1>0, <1>2 DEF UpdateFind
<1>3. CASE ~(~tabbed /\ req.index >= Len(parts)) /\ target \notin DOMAIN parts
  <2>1. crashed' = TRUE /\ parts' = parts
    BY <1>1, <1>3 DEF UpdateFind
  <2>2. ~tabbed => req.index + 1 \notin DOMAIN parts
    BY <1>1, <1>3
  <2> QED
    BY <1>0, <2>1, <2>2
<1>4. CASE ~(~tabbed /\ req.index >= Len(parts)) /\ target \in DOMAIN parts
  <2>1. /\ parts' = [parts EXCEPT ![target].skip = req.page.skip, ![target].docs = req.page]
        /\ crashed' = crashed
    BY <1>1, <1>4 DEF UpdateFind
  <2>2. req.page.skip \in Nat
    BY <1>0 DEF Page
  <2>3. /\ parts' \in Seq(Part) /\ DOMAIN parts' = DOMAIN parts /\ Len(parts') = Len(parts)
        /\ parts'[target].skip = req.page.skip /\ parts'[target].docs = req.page
        /\ \A i \in DOMAIN parts : i # target => parts'[i] = parts[i]
        /\ \A i \in DOMAIN parts :
             parts'[i].src = parts[i].src /\ parts'[i].kind = parts[i].kind
    BY <1>0, <1>4, <2>1, <2>2, UpdatedPart
  <2>4. ~tabbed => target = req.index + 1
    BY <1>1
  <2> QED
    BY <1>0, <2>1, <2>3, <2>4
<1> QED
  BY <1>2, <1>3, <1>4

LEMMA HandlePageFacts ==
  ASSUME RunInv, HandlePage
  PROVE  \E reply \in Reply :
           /\ reply.req \in OnTheWay /\ reply.req.op = "find"
           /\ executing' = FALSE /\ popup' = FALSE
           /\ \/ UNCHANGED <<parts, crashed>>
              \/ UpdateFind(reply.req)
           /\ answered' = NoReply
           /\ UNCHANGED <<lastQuery, requests, runs, pages, presented, tabbed, current, history, rushed>>
           /\ replies' \in Seq(Reply) /\ OnTheWay' \subseteq OnTheWay
           /\ Len(requests) + Len(replies) = 1 => OnTheWay' = {}
<1>1. /\ replies # <<>> /\ replies' = Tail(replies)
      /\ Head(replies).req.op = "find"
      /\ executing' = FALSE /\ popup' = FALSE
      /\ \/ UNCHANGED <<parts, crashed>>
         \/ UpdateFind(Head(replies).req)
      /\ answered' = NoReply
      /\ UNCHANGED <<lastQuery, requests, runs, pages, presented, tabbed, current, history, rushed>>
  BY DEF HandlePage, requestVars
<1>2. /\ Head(replies) \in Reply /\ Head(replies).req \in OnTheWay
      /\ replies' \in Seq(Reply) /\ OnTheWay' \subseteq OnTheWay
      /\ Len(requests) + Len(replies) = 1 => OnTheWay' = {}
  BY <1>1, WayHandled DEF RunInv
<1> QED
  BY <1>1, <1>2, Zenon

LEMMA HandlePageRun ==
  ASSUME RunInv, HandlePage
  PROVE  RunInv'
<1> USE DEF RunInv
<1>1. PICK reply \in Reply :
        /\ reply.req \in OnTheWay /\ reply.req.op = "find"
        /\ executing' = FALSE /\ popup' = FALSE
        /\ \/ UNCHANGED <<parts, crashed>>
           \/ UpdateFind(reply.req)
        /\ answered' = NoReply
        /\ UNCHANGED <<lastQuery, requests, runs, pages, presented, tabbed, current, history, rushed>>
        /\ replies' \in Seq(Reply) /\ OnTheWay' \subseteq OnTheWay
        /\ Len(requests) + Len(replies) = 1 => OnTheWay' = {}
  BY HandlePageFacts
<1>2. parts' \in Seq(Part) /\ crashed' \in BOOLEAN
  <2>1. reply.req \in Request
    BY DEF Reply
  <2> QED
    BY <1>1, <2>1, UpdateFindFacts DEF TypeOK
<1>3. TypeOK'
  BY <1>1, <1>2, NoReplyFacts DEF TypeOK
<1>4. RequestsAreSound'
  BY <1>1 DEF RequestsAreSound
<1>5. ~rushed => OnTheWay' = {} \/ \A r \in OnTheWay : r.op = "find"
  BY <1>1 DEF OnlyFindsOverlap
<1>6. OnlyFindsOverlap'
  BY <1>1, <1>5 DEF OnlyFindsOverlap
<1>7. TextIsOfScript'
  <2> SUFFICES ASSUME ~rushed PROVE lastQuery = NoScript /\ \A r \in OnTheWay' : r.op # "script"
    BY <1>1 DEF TextIsOfScript
  <2>1. \A r \in OnTheWay : r.op # "script"
    <3>1. CASE \A r \in OnTheWay : r.op = "find"
      BY <3>1
    <3>2. CASE Len(requests) + Len(replies) = 1
      BY <1>1, <3>2, WayHandled DEF HandlePage, requestVars
    <3> QED
      BY <3>1, <3>2 DEF OnlyFindsOverlap
  <2> QED
    BY <1>1, <2>1 DEF TextIsOfScript
<1>8. RunsAreTold'
  BY <1>1, NoReplyFacts DEF RunsAreTold, HistoryIsOfItsRun, FreshRunRebuilds
<1> QED
  BY <1>3, <1>4, <1>6, <1>7, <1>8

LEMMA StutterRun ==
  ASSUME RunInv, UNCHANGED vars
  PROVE  RunInv'
<1>1. OnTheWay' = OnTheWay
  BY DEF vars, OnTheWay
<1> QED
  BY <1>1 DEF vars, RunInv, TypeOK, RequestsAreSound, OnlyFindsOverlap, TextIsOfScript, RunsAreTold,
              HistoryIsOfItsRun, FreshRunRebuilds

LEMMA RunIsInductive == RunInv /\ [Next]_vars => RunInv'
<1> SUFFICES ASSUME RunInv, [Next]_vars PROVE RunInv'
  OBVIOUS
<1>1. ASSUME NEW o \in Outcomes, Answer(o) PROVE RunInv'
  BY <1>1, AnswerRun
<1>2. CASE HandleScript
  BY <1>2, HandleScriptRun
<1>3. CASE HandlePage
  BY <1>3, HandlePageRun
<1>4. ASSUME NEW s \in Scripts, Execute(s) PROVE RunInv'
  BY <1>4, ExecuteRun
<1>5. ASSUME NEW i \in 1..presented, NEW k \in 0..MaxSkip, Refresh(i, k) PROVE RunInv'
  BY <1>5, RefreshRun
<1>6. ASSUME NEW i \in 1..presented, CloseResultTab(i) PROVE RunInv'
  BY <1>6, CloseRun
<1>7. ASSUME NEW i \in 1..presented, SelectResultTab(i) PROVE RunInv'
  <2>1. /\ i \in Nat /\ current' = i
        /\ UNCHANGED <<executing, popup, lastQuery, requests, runs, pages, replies, parts,
                       presented, tabbed, history, answered, crashed, rushed>>
    BY <1>7 DEF SelectResultTab, requestVars
  <2>2. OnTheWay' = OnTheWay
    BY <2>1 DEF OnTheWay
  <2> QED
    BY <2>1, <2>2 DEF RunInv, TypeOK, RequestsAreSound, OnlyFindsOverlap, TextIsOfScript,
                      RunsAreTold, HistoryIsOfItsRun, FreshRunRebuilds
<1>8. CASE UNCHANGED vars
  BY <1>8, StutterRun
<1> QED
  BY <1>1, <1>2, <1>3, <1>4, <1>5, <1>6, <1>7, <1>8 DEF Next, Worker, Ui, User

\* QueryWidget.cpp:308-327: as long as no script was on its way with another request, a run
\* is recorded under its own text, and its answer rebuilds the view.
THEOREM RunsToldRight == Spec => []RunsAreTold
<1>1. RunInv => RunsAreTold
  BY DEF RunInv
<1> QED
  BY <1>1, InitRun, RunIsInductive, PTL DEF Spec
-----------------------------------------------------------------------------
LEMMA InitPages == Init => PageInv
<1> SUFFICES ASSUME Init PROVE PageInv
  OBVIOUS
<1>1. parts = <<>> /\ crashed = FALSE /\ Len(parts) = 0 /\ DOMAIN parts = {}
  BY DEF Init
<1>2. \A r \in OnTheWay : r.op = "script"
  <2>1. replies = <<>> /\ DOMAIN replies = {}
    BY DEF Init
  <2>2. \A i \in DOMAIN requests : requests[i].op = "script"
    BY DEF Init, ScriptRequest
  <2> QED
    BY <2>1, <2>2 DEF OnTheWay
<1>3. PagesAreAimed
  BY <1>2 DEF PagesAreAimed
<1> QED
  BY <1>1, <1>3 DEF PageInv, AggregateIsFirst, FindPagesReachTheirPart, HeaderIsOfDocuments,
                    NothingSkippedIsShown

\* Nothing that is shown changes, and nothing but scripts comes to be on its way.
LEMMA SamePages ==
  ASSUME PageInv, UNCHANGED <<parts, tabbed, crashed>>,
         rushed' \in BOOLEAN, ~rushed' => ~rushed,
         ~rushed' => \A r \in OnTheWay' : r \in OnTheWay \/ r.op = "script"
  PROVE  PageInv'
<1>1. PagesAreAimed'
  BY DEF PageInv, PagesAreAimed
<1> QED
  BY <1>1 DEF PageInv, AggregateIsFirst, FindPagesReachTheirPart, HeaderIsOfDocuments,
              NothingSkippedIsShown

LEMMA RefreshPages ==
  ASSUME RunInv, PageInv, NEW i \in Nat, NEW skip \in Nat, Refresh(i, skip)
  PROVE  PageInv'
<1> USE DEF RunInv, PageInv
<1>1. PICK r \in Request :
        /\ requests' = Append(requests, r) /\ Sends(r.op)
        /\ i \in DOMAIN parts /\ Visible(i) /\ r.op = parts[i].kind /\ r.op \in {"find", "aggr"}
        /\ r.page.src = parts[i].src /\ r.index = ResultIndex(i)
        /\ r.op = "find" => r.page.skip >= QuerySkip
        /\ parts' \in Seq(Part) /\ DOMAIN parts' = DOMAIN parts /\ Len(parts') = Len(parts)
        /\ \A j \in DOMAIN parts :
             /\ parts'[j].src = parts[j].src /\ parts'[j].kind = parts[j].kind
             /\ parts'[j].docs = parts[j].docs
             /\ parts'[j].skip = parts[j].skip
                \/ (parts[j].kind = "find" => parts'[j].skip = QuerySkip)
  BY RefreshFacts
<1>2. UNCHANGED <<tabbed, crashed, replies>>
  BY DEF Refresh
<1>3. OnTheWay' = OnTheWay \cup {r}
  BY <1>1, <1>2, WaySent
<1>4. ~rushed' => ~rushed
  BY <1>1, <1>2, OverlapSent
<1>5. ~tabbed => r.index + 1 = i
  BY <1>1 DEF ResultIndex
<1>6. PagesAreAimed'
  <2> SUFFICES ASSUME ~rushed, ~tabbed, NEW q \in OnTheWay'
               PROVE  /\ q.op = "find" =>
                           /\ q.index + 1 \in DOMAIN parts'
                           /\ parts'[q.index + 1].kind = "find"
                           /\ parts'[q.index + 1].src = q.page.src
                      /\ q.op = "aggr" => \E j \in DOMAIN parts' : parts'[j].kind = "aggr"
    BY <1>2, <1>4 DEF PagesAreAimed
  <2>1. CASE q = r
    BY <1>1, <1>5, <2>1
  <2>2. CASE q \in OnTheWay
    BY <1>1, <2>2 DEF PagesAreAimed
  <2> QED
    BY <1>3, <2>1, <2>2
<1>7. AggregateIsFirst'
  <2>1. /\ DOMAIN parts = 1..Len(parts) /\ Len(parts) \in Nat
    BY LenProperties DEF TypeOK
  <2>2. Len(parts) = 2 => parts'[1].kind = parts[1].kind /\ parts'[2].kind = parts[2].kind
    BY <1>1, <2>1
  <2> QED
    BY <1>1, <1>2, <2>2 DEF AggregateIsFirst
<1>8. FindPagesReachTheirPart' /\ HeaderIsOfDocuments' /\ NothingSkippedIsShown'
  BY <1>1, <1>2, <1>4 DEF FindPagesReachTheirPart, HeaderIsOfDocuments, NothingSkippedIsShown
<1> QED
  BY <1>6, <1>7, <1>8

LEMMA ClosePages ==
  ASSUME RunInv, PageInv, NEW i \in Nat, CloseResultTab(i)
  PROVE  PageInv'
<1> USE DEF RunInv, PageInv
<1>1. /\ tabbed = TRUE /\ i \in DOMAIN parts /\ parts' = RemoveAt(parts, i)
      /\ UNCHANGED <<tabbed, crashed, rushed>>
  BY DEF CloseResultTab, TypeOK
<1>2. DOMAIN parts = 1..Len(parts) /\ Len(parts) \in Nat /\ parts \in Seq(Part)
  BY LenProperties DEF TypeOK
<1>3. /\ parts' \in Seq(Part) /\ Len(parts') = Len(parts) - 1
      /\ \A j \in 1..(Len(parts) - 1) : parts'[j] = IF j < i THEN parts[j] ELSE parts[j + 1]
  BY <1>1, <1>2, RemoveAtFacts
<1>4. DOMAIN parts' = 1..(Len(parts) - 1)
  BY <1>2, <1>3, LenProperties
<1>5. \A j \in DOMAIN parts' : \E k \in DOMAIN parts : parts'[j] = parts[k]
  <2>1. \A j \in 1..(Len(parts) - 1) : j \in 1..Len(parts) /\ j + 1 \in 1..Len(parts)
    BY <1>2
  <2> QED
    BY <1>2, <1>3, <1>4, <2>1
<1>6. tabbed' = TRUE
  BY <1>1
<1> QED
  BY <1>1, <1>5, <1>6 DEF PagesAreAimed, AggregateIsFirst, FindPagesReachTheirPart,
                          HeaderIsOfDocuments, NothingSkippedIsShown

LEMMA HandleScriptPages ==
  ASSUME NoAggregateBelowFind, RunInv, PageInv, HandleScript
  PROVE  PageInv'
<1> USE DEF RunInv, PageInv
<1>1. PICK reply \in Reply :
        /\ reply.req.op \in {"script", "aggr"}
        /\ reply.req.op = "script" => reply.req.script \in Scripts
        /\ \/ Present(reply)
           \/ UpdateAggregate(reply) /\ lastQuery = NoScript /\ presented > 0
        /\ UNCHANGED <<crashed, rushed>>
        /\ ~rushed => OnTheWay' = {} /\ OnTheWay = {reply.req}
  BY HandleScriptFacts
<1>2. crashed = FALSE
  BY DEF HandleScript, TypeOK
<1>3. PagesAreAimed'
  BY <1>1 DEF PagesAreAimed
<1>4. CASE Present(reply)
  <2>1. /\ \A i \in DOMAIN parts' :
             /\ parts'[i].src.run = reply.req.run
             /\ parts'[i].docs.src = parts'[i].src /\ parts'[i].docs.skip = parts'[i].skip
             /\ parts'[i].kind = "find" => parts'[i].skip = QuerySkip
        /\ AggregateIsFirst'
    BY <1>1, <1>4, PresentFacts
  <2>2. QuerySkip >= QuerySkip
    BY TabAssumption
  <2> QED
    BY <1>1, <1>2, <1>3, <2>1, <2>2
       DEF FindPagesReachTheirPart, HeaderIsOfDocuments, NothingSkippedIsShown
<1>5. CASE UpdateAggregate(reply) /\ lastQuery = NoScript /\ presented > 0
  <2>1. /\ parts' \in Seq(Part) /\ DOMAIN parts' = DOMAIN parts
        /\ Len(parts') = Len(parts) /\ UNCHANGED <<presented, tabbed, current>>
        /\ tabbed => parts' = parts
        /\ \A i \in DOMAIN parts : parts'[i].kind = parts[i].kind
        /\ \A i \in DOMAIN parts : i # 1 => parts'[i] = parts[i]
    BY <1>5, UpdateAggregateFacts
  <2>2. DOMAIN parts = 1..Len(parts) /\ Len(parts) \in Nat
    BY LenProperties DEF TypeOK
  <2>3. AggregateIsFirst'
    <3>1. Len(parts) = 2 => parts'[1].kind = parts[1].kind /\ parts'[2].kind = parts[2].kind
      BY <2>1, <2>2
    <3> QED
      BY <2>1, <3>1 DEF AggregateIsFirst
  <2>4. ~rushed /\ ~tabbed => \A i \in DOMAIN parts : parts[i].kind = "find" => i # 1
    <3> SUFFICES ASSUME ~rushed, ~tabbed, 1 \in DOMAIN parts, parts[1].kind = "find"
                 PROVE  FALSE
      OBVIOUS
    <3>1. reply.req.op = "aggr"
      <4>1. lastQuery = NoScript /\ reply.req.op = "script" => reply.req.script # lastQuery
        BY <1>1, TabAssumption
      <4>2. presented > 0 => presented # 0
        BY DEF TypeOK
      <4> QED
        BY <1>1, <1>5, <4>1, <4>2 DEF TextIsOfScript
    <3>2. PICK j \in DOMAIN parts : parts[j].kind = "aggr"
      BY <1>1, <3>1 DEF PagesAreAimed
    <3>3. j = 2 /\ Len(parts) = 2
      <4>1. j # 1
        BY <3>2
      <4>2. Len(parts) <= 2
        BY DEF AggregateIsFirst
      <4> QED
        BY <2>2, <4>1, <4>2
    <3> QED
      BY <3>2, <3>3 DEF AggregateIsFirst
  <2>5. ~rushed => \A i \in DOMAIN parts : parts[i].kind = "find" => parts'[i] = parts[i]
    BY <2>1, <2>4
  <2> QED
    BY <1>1, <1>2, <1>3, <2>1, <2>3, <2>5
       DEF FindPagesReachTheirPart, HeaderIsOfDocuments, NothingSkippedIsShown
<1> QED
  BY <1>1, <1>4, <1>5

LEMMA HandlePagePages ==
  ASSUME RunInv, PageInv, HandlePage
  PROVE  PageInv'
<1> USE DEF RunInv, PageInv
<1>1. PICK reply \in Reply :
        /\ reply.req \in OnTheWay /\ reply.req.op = "find"
        /\ \/ UNCHANGED <<parts, crashed>>
           \/ UpdateFind(reply.req)
        /\ UNCHANGED <<lastQuery, requests, runs, pages, presented, tabbed, current, history, rushed>>
        /\ OnTheWay' \subseteq OnTheWay
  BY HandlePageFacts
<1>2. CASE UNCHANGED <<parts, crashed>>
  BY <1>1, <1>2, SamePages DEF TypeOK
<1>3. CASE UpdateFind(reply.req)
  <2>1. reply.req \in Request /\ reply.req.page.skip >= QuerySkip
    BY <1>1 DEF Reply, RequestsAreSound
  <2>2. /\ parts' \in Seq(Part) /\ DOMAIN parts' = DOMAIN parts /\ Len(parts') = Len(parts)
        /\ \A i \in DOMAIN parts :
             parts'[i].src = parts[i].src /\ parts'[i].kind = parts[i].kind
        /\ ~tabbed /\ reply.req.index + 1 \in DOMAIN parts => crashed' = crashed
        /\ \A i \in DOMAIN parts :
             \/ parts'[i] = parts[i]
             \/ /\ parts'[i].skip = reply.req.page.skip /\ parts'[i].docs = reply.req.page
                /\ ~tabbed => i = reply.req.index + 1
    BY <1>3, <2>1, UpdateFindFacts
  <2>3. ~rushed /\ ~tabbed =>
          /\ reply.req.index + 1 \in DOMAIN parts
          /\ parts[reply.req.index + 1].src = reply.req.page.src
    BY <1>1 DEF PagesAreAimed
  <2>4. FindPagesReachTheirPart'
    BY <1>1, <2>2, <2>3 DEF FindPagesReachTheirPart
  <2>5. HeaderIsOfDocuments' /\ NothingSkippedIsShown'
    BY <1>1, <2>1, <2>2 DEF HeaderIsOfDocuments, NothingSkippedIsShown
  <2>6. AggregateIsFirst'
    <3>1. DOMAIN parts = 1..Len(parts) /\ Len(parts) \in Nat
      BY LenProperties DEF TypeOK
    <3>2. Len(parts) = 2 => parts'[1].kind = parts[1].kind /\ parts'[2].kind = parts[2].kind
      BY <2>2, <3>1
    <3> QED
      BY <1>1, <2>2, <3>2 DEF AggregateIsFirst
  <2>7. PagesAreAimed'
    BY <1>1, <2>2 DEF PagesAreAimed
  <2> QED
    BY <2>4, <2>5, <2>6, <2>7
<1> QED
  BY <1>1, <1>2, <1>3

LEMMA PagesAreInductive ==
  NoAggregateBelowFind /\ RunInv /\ PageInv /\ [Next]_vars => PageInv'
<1> SUFFICES ASSUME NoAggregateBelowFind, RunInv, PageInv, [Next]_vars PROVE PageInv'
  OBVIOUS
<1>0. rushed \in BOOLEAN /\ TypeOK /\ RequestsAreSound /\ OnlyFindsOverlap
  BY DEF RunInv, TypeOK
<1>1. ASSUME NEW o \in Outcomes, Answer(o) PROVE PageInv'
  <2>1. OnTheWay' = OnTheWay /\ UNCHANGED <<parts, tabbed, crashed, rushed>>
    BY <1>0, <1>1, WayAnswered DEF Answer, viewVars
  <2> QED
    BY <1>0, <2>1, SamePages
<1>2. CASE HandleScript
  BY <1>2, HandleScriptPages
<1>3. CASE HandlePage
  BY <1>3, HandlePagePages
<1>4. ASSUME NEW s \in Scripts, Execute(s) PROVE PageInv'
  <2>1. PICK r : r = ScriptRequest(runs + 1, s)
    OBVIOUS
  <2>2. r \in Request /\ r.op = "script" /\ r.script = s
    BY <1>0, <2>1, ScriptRequestFacts DEF TypeOK
  <2>3. /\ Sends("script") /\ requests' = Append(requests, r)
        /\ UNCHANGED <<replies, parts, tabbed, crashed>>
    BY <1>4, <2>1 DEF Execute, viewVars
  <2>4. OnTheWay' = OnTheWay \cup {r}
    BY <1>0, <2>2, <2>3, WaySent
  <2>5. rushed' \in BOOLEAN /\ (~rushed' => ~rushed)
    BY <1>0, <2>3 DEF Sends
  <2> QED
    BY <2>2, <2>3, <2>4, <2>5, SamePages
<1>5. ASSUME NEW i \in 1..presented, NEW k \in 0..MaxSkip, Refresh(i, k) PROVE PageInv'
  BY <1>5, RefreshPages
<1>6. ASSUME NEW i \in 1..presented, CloseResultTab(i) PROVE PageInv'
  BY <1>6, ClosePages
<1>7. ASSUME NEW i \in 1..presented, SelectResultTab(i) PROVE PageInv'
  <2>1. OnTheWay' = OnTheWay /\ UNCHANGED <<parts, tabbed, crashed, rushed>>
    BY <1>7 DEF SelectResultTab, requestVars, OnTheWay
  <2> QED
    BY <1>0, <2>1, SamePages
<1>8. CASE UNCHANGED vars
  <2>1. OnTheWay' = OnTheWay /\ UNCHANGED <<parts, tabbed, crashed, rushed>>
    BY <1>8 DEF vars, OnTheWay
  <2> QED
    BY <1>0, <2>1, SamePages
<1> QED
  BY <1>1, <1>2, <1>3, <1>4, <1>5, <1>6, <1>7, <1>8 DEF Next, Worker, Ui, User

\* OutputWidget.cpp:108-133, OutputItemContentWidget.cpp:343-347: as long as all that was on
\* its way together were pages of finds, the page of a find in a splitter arrives in its part,
\* its header tells where the documents start, and none the query skips is shown, whatever the
\* user closes, selects and pages meanwhile.  A script that is on its way together with another
\* request (rushed) is outside the theorem, and so is a script whose second result is an
\* aggregation below a find: updatePart(AggrInfo) always takes the first part.
THEOREM PagesShownRight ==
  ASSUME NoAggregateBelowFind
  PROVE  Spec => []PagesAreShownRight
<1>1. RunInv /\ PageInv => PagesAreShownRight
  BY DEF RunInv, PageInv, PagesAreShownRight
<1>2. RunInv /\ PageInv /\ [Next]_vars => RunInv' /\ PageInv'
  BY RunIsInductive, PagesAreInductive
<1> QED
  BY <1>1, <1>2, InitRun, InitPages, PTL DEF Spec
-----------------------------------------------------------------------------
(* The tools. *)

Forms == [checked : SUBSET AllRows, archive : BOOLEAN, json : BOOLEAN,
          source : {"dir", "archive", "json"}, single : BOOLEAN,
          target : Dbs \cup {NoDb}, drop : BOOLEAN]

\* The shape of the variables ToolTypeOK names the parts of.
ToolIsTyped ==
  /\ form \in Forms /\ asked \in Forms
  /\ proc = [tool |-> proc.tool, args |-> proc.args, state |-> proc.state]

\* While a tool runs the plan is that of the form, and the process its current step.
RunIsOfForm ==
  running =>
    /\ form = asked /\ proc.state # "none"
    /\ step \in 1..Len(plan) /\ proc.args = plan[step]
    /\ runner \in {"backup", "restore"}
    /\ (runner = "restore" => plan = <<RestoreArgs>> /\ RestoreIsValid)
    /\ (runner = "backup" /\ form.json => plan = <<ExportArgs>>)
    /\ (runner = "backup" /\ ~form.json => plan = [i \in DOMAIN CheckedDbs |-> DumpArgs(CheckedDbs[i])])

\* The others leave no process, and are the only ones reported complete.
NoRunNoProcess ==
  /\ ~running => proc = NoProcess
  /\ banner = "success" => ~running

\* The steps of a backup that were done hold what they are of.
StepsDone == IF proc.state = "exited" THEN 1..step ELSE 1..(step - 1)
DumpsAreHeld ==
  running /\ runner = "backup" /\ ~form.json /\ proc.state \in {"running", "exited"} =>
    \A j \in StepsDone : DumpOf(plan[j]) \subseteq Held(plan[j].path)

\* The inductive invariant.
ToolInv == ToolIsSound /\ ToolIsTyped /\ RunIsOfForm /\ NoRunNoProcess /\ DumpsAreHeld

LEMMA ToolNow ==
  ASSUME ToolInv
  PROVE  /\ runner \in {"none", "backup", "restore"}
         /\ (form.json => SingleCollection)
         /\ form.checked \subseteq AllRows /\ form.json \in BOOLEAN /\ form.target \in Dbs \cup {NoDb}
         /\ running \in BOOLEAN /\ stopped \in BOOLEAN
         /\ step = 1 \/ step \in 1..Len(plan)
         /\ proc.state \in {"none", "running", "killed", "exited", "failed", "crashed"}
         /\ proc.tool \in Tools \cup {NoTool}
         /\ banner \in {"idle", "running", "success", "error"}
         /\ (\A p \in DOMAIN written : written[p] \subseteq UNION {{d} \X Actual[d] : d \in Dbs})
         /\ data \in [Dbs -> {"old", "restored", "broken"}] /\ toolStarts \in 0..MaxToolStarts
BY DEF ToolInv, ToolIsSound, ToolTypeOK

LEMMA CheckedFacts ==
  /\ CheckedDbs \in Seq(Dbs) /\ DOMAIN CheckedDbs = 1..Len(CheckedDbs) /\ Len(CheckedDbs) \in Nat
  /\ ToSet(CheckedDbs) = {d \in Dbs : CheckedOf(d) # {}}
<1>1. DbOrder \in Seq(Dbs) /\ ToSet(DbOrder) = Dbs
  BY ToolAssumption DEF Dbs
<1>2. /\ CheckedDbs \in Seq(Dbs)
      /\ ToSet(CheckedDbs) = ToSet(DbOrder) \cap {d \in Dbs : BoxOf(d) # "unchecked"}
  BY <1>1, KeepSet DEF CheckedDbs
<1>3. \A d \in Dbs : BoxOf(d) # "unchecked" <=> CheckedOf(d) # {}
  BY DEF BoxOf
<1>4. {d \in Dbs : BoxOf(d) # "unchecked"} = {d \in Dbs : CheckedOf(d) # {}}
  BY <1>3
<1> QED
  BY <1>1, <1>2, <1>4, LenProperties

\* One collection is checked, said of the rows alone.
LEMMA SingleFacts ==
  SingleCollection <=> /\ \A d \in Dbs : form.checked \cap Rows(d) # {} => Loaded[d] # {}
                       /\ Cardinality(form.checked) = 1
BY CheckedFacts DEF SingleCollection, CheckedOf

\* A row that is no whole database is a loaded collection of it.
LEMMA RowFacts ==
  ASSUME NEW d \in Dbs, NEW r \in Rows(d)
  PROVE  /\ r = <<d, r[2]>> /\ r[1] = d
         /\ r[2] = Whole <=> Loaded[d] = {}
         /\ r[2] # Whole => r[2] \in Loaded[d] /\ r[2] \in Actual[d]
         /\ Loaded[d] = {} => Rows(d) = {r}
<1>1. CASE Loaded[d] = {}
  <2>1. Rows(d) = {<<d, Whole>>} /\ r = <<d, Whole>>
    BY <1>1 DEF Rows
  <2> QED
    BY <1>1, <2>1
<1>2. CASE Loaded[d] # {}
  <2>1. r \in {d} \X Loaded[d]
    BY <1>2 DEF Rows
  <2>2. Loaded[d] \subseteq Actual[d] /\ Whole \notin Actual[d]
    BY ToolAssumption
  <2> QED
    BY <1>2, <2>1, <2>2
<1> QED
  BY <1>1, <1>2

\* A run of mongodump is of its database, and of all that is checked of it.
LEMMA DumpFacts ==
  ASSUME form \in Forms, NEW d \in Dbs, CheckedOf(d) # {}
  PROVE  /\ DumpArgs(d).kind = "dump" /\ DumpArgs(d).db = d
         /\ DumpArgs(d).path = IF form.archive THEN ArchiveFor(d, Len(CheckedDbs) > 1) ELSE <<"dir">>
         /\ DumpOf(DumpArgs(d)) \subseteq {d} \X Actual[d]
         /\ Wanted(CheckedOf(d)) \subseteq DumpOf(DumpArgs(d))
<1> DEFINE chosen == {r[2] : r \in CheckedOf(d)}
           split == BoxOf(d) = "partial"
           coll == IF split /\ Cardinality(chosen) = 1 THEN (CHOOSE c \in chosen : TRUE) ELSE NoColl
           exclude == IF split /\ Cardinality(chosen) > 1 THEN Loaded[d] \ chosen ELSE {}
           path == IF form.archive THEN ArchiveFor(d, Len(CheckedDbs) > 1) ELSE <<"dir">>
<1>1. DumpArgs(d) = [kind |-> "dump", db |-> d, coll |-> coll, exclude |-> exclude, path |-> path,
                     drop |-> FALSE]
  <2>1. DumpArgs(d) = [NoArgs EXCEPT !.kind = "dump", !.db = d, !.coll = coll, !.exclude = exclude,
                                     !.path = path]
    BY Zenon DEF DumpArgs
  <2> HIDE DEF coll, exclude, path
  <2> QED
    BY <2>1 DEF NoArgs
<1>2. Loaded[d] \subseteq Actual[d] /\ IsFiniteSet(Loaded[d]) /\ NoColl \notin Actual[d] /\ Whole \notin Actual[d]
  BY ToolAssumption
<1>3. CheckedOf(d) \subseteq Rows(d)
  BY DEF CheckedOf
<1>4. split => chosen \subseteq Loaded[d] /\ chosen # {}
  <2> SUFFICES ASSUME split PROVE chosen \subseteq Loaded[d] /\ chosen # {}
    OBVIOUS
  <2>1. CheckedOf(d) # Rows(d)
    BY DEF BoxOf
  <2>2. PICK r : r \in CheckedOf(d)
    OBVIOUS
  <2>3. Loaded[d] # {}
    BY <1>3, <2>1, <2>2, RowFacts
  <2>4. \A q \in CheckedOf(d) : q[2] \in Loaded[d]
    BY <1>3, <2>3, RowFacts
  <2> QED
    BY <2>2, <2>4
<1> HIDE DEF split
<1>5. coll # NoColl => coll \in Actual[d]
  BY <1>2, <1>4
<1>6. DumpOf(DumpArgs(d)) = {d} \X (IF coll # NoColl THEN {coll} ELSE Actual[d] \ exclude)
  BY <1>1 DEF DumpOf
<1>7. DumpOf(DumpArgs(d)) \subseteq {d} \X Actual[d]
  BY <1>5, <1>6
<1>8. Wanted(CheckedOf(d)) \subseteq DumpOf(DumpArgs(d))
  <2> SUFFICES ASSUME NEW r \in CheckedOf(d),
                      NEW x \in IF r[2] = Whole THEN {r[1]} \X Actual[r[1]] ELSE {r}
               PROVE  x \in {d} \X (IF coll # NoColl THEN {coll} ELSE Actual[d] \ exclude)
    BY <1>6 DEF Wanted
  <2>1. /\ r \in Rows(d) /\ r = <<d, r[2]>> /\ r[1] = d /\ (r[2] = Whole <=> Loaded[d] = {})
        /\ (r[2] # Whole => r[2] \in Loaded[d] /\ r[2] \in Actual[d])
        /\ (Loaded[d] = {} => Rows(d) = {r})
    BY <1>3, RowFacts
  <2>2. r[2] \in chosen
    OBVIOUS
  <2>3. IsFiniteSet(chosen) \/ ~split
    BY <1>2, <1>4, FS_Subset
  <2>4. split /\ Cardinality(chosen) = 1 => chosen = {coll}
    <3> SUFFICES ASSUME split, Cardinality(chosen) = 1 PROVE chosen = {coll}
      OBVIOUS
    <3>1. PICK y : chosen = {y}
      BY <2>3, FS_Singleton
    <3>2. coll \in chosen
      BY <3>1
    <3> QED
      BY <3>1, <3>2
  <2> HIDE DEF chosen, coll, exclude
  <2>5. ~(split /\ Cardinality(chosen) = 1) => coll = NoColl
    BY DEF coll
  <2>6. CASE r[2] = Whole
    <3>1. ~split
      BY <1>4, <2>1, <2>6
    <3>2. coll = NoColl /\ exclude = {}
      BY <3>1 DEF coll, exclude
    <3> QED
      BY <2>1, <2>6, <3>2
  <2>7. CASE r[2] # Whole
    <3>1. x = <<d, r[2]>> /\ r[2] \in Actual[d]
      BY <2>1, <2>7
    <3>2. coll # NoColl => r[2] = coll
      BY <2>2, <2>4, <2>5
    <3>3. r[2] \notin exclude
      BY <2>2 DEF exclude
    <3> QED
      BY <3>1, <3>2, <3>3
  <2> QED
    BY <2>6, <2>7
<1> HIDE DEF coll, exclude
<1>9. DumpArgs(d).kind = "dump" /\ DumpArgs(d).db = d /\ DumpArgs(d).path = path
  BY <1>1
<1> QED
  BY <1>7, <1>8, <1>9

\* Two databases share an output only if it is a folder.
LEMMA PathFacts ==
  ASSUME form \in Forms, NEW d \in Dbs, NEW b \in Dbs, CheckedOf(d) # {}, CheckedOf(b) # {},
         DumpArgs(d).path = DumpArgs(b).path, DumpArgs(d).path # <<"dir">>
  PROVE  d = b \/ Len(CheckedDbs) <= 1
<1>1. /\ DumpArgs(d).path = IF form.archive THEN ArchiveFor(d, Len(CheckedDbs) > 1) ELSE <<"dir">>
      /\ DumpArgs(b).path = IF form.archive THEN ArchiveFor(b, Len(CheckedDbs) > 1) ELSE <<"dir">>
  BY DumpFacts
<1>2. ArchiveFor(d, Len(CheckedDbs) > 1) = ArchiveFor(b, Len(CheckedDbs) > 1)
  BY <1>1
<1>3. CASE Len(CheckedDbs) > 1
  <2>1. <<"archive", d>> = <<"archive", b>>
    BY <1>2, <1>3 DEF ArchiveFor
  <2> QED
    BY <2>1
<1>4. CASE ~(Len(CheckedDbs) > 1)
  BY <1>4, CheckedFacts
<1> QED
  BY <1>3, <1>4

\* The plan of a backup: the databases with something checked.
LEMMA BackupFacts ==
  ASSUME form \in Forms, NEW bs, bs = [i \in DOMAIN CheckedDbs |-> DumpArgs(CheckedDbs[i])]
  PROVE  /\ Len(bs) = Len(CheckedDbs)
         /\ \A i \in 1..Len(bs) : \E d \in Dbs : CheckedOf(d) # {} /\ bs[i] = DumpArgs(d)
         /\ \A d \in Dbs : CheckedOf(d) # {} => \E i \in 1..Len(bs) : bs[i] = DumpArgs(d)
<1>1. /\ CheckedDbs \in Seq(Dbs) /\ DOMAIN CheckedDbs = 1..Len(CheckedDbs) /\ Len(CheckedDbs) \in Nat
      /\ ToSet(CheckedDbs) = {d \in Dbs : CheckedOf(d) # {}}
  BY CheckedFacts
<1>2. PICK n, s : n = Len(CheckedDbs) /\ s = CheckedDbs
  OBVIOUS
<1>3. n \in Nat /\ \A i \in 1..n : s[i] \in Dbs /\ s[i] \in {d \in Dbs : CheckedOf(d) # {}}
  BY <1>1, <1>2 DEF ToSet
<1>4. bs = [i \in 1..n |-> DumpArgs(s[i])]
  BY <1>1, <1>2
<1>5. Len(bs) = n
  <2>1. bs \in [1..n -> {DumpArgs(s[i]) : i \in 1..n}]
    BY <1>4
  <2>2. bs \in Seq({DumpArgs(s[i]) : i \in 1..n})
    BY <1>3, <2>1, SeqDef
  <2> QED
    BY <1>3, <2>1, <2>2, LenProperties
<1>6. \A d \in Dbs : CheckedOf(d) # {} => \E i \in 1..n : s[i] = d
  BY <1>1, <1>2 DEF ToSet
<1> QED
  BY <1>2, <1>3, <1>4, <1>5, <1>6

\* What is made of a form that stays.
LEMMA SameForm ==
  ASSUME form' = form
  PROVE  /\ (SingleCollection' <=> SingleCollection) /\ (RestoreIsValid' <=> RestoreIsValid)
         /\ RestoreArgs' = RestoreArgs /\ ExportArgs' = ExportArgs
         /\ CheckedDbs' = CheckedDbs
         /\ [i \in DOMAIN CheckedDbs |-> DumpArgs(CheckedDbs[i])]'
              = [i \in DOMAIN CheckedDbs |-> DumpArgs(CheckedDbs[i])]
<1>1. CheckedDbs' = CheckedDbs
  BY DEF CheckedDbs, BoxOf, CheckedOf
<1>2. SingleCollection' <=> SingleCollection
  BY <1>1 DEF SingleCollection
<1>3. (RestoreIsValid' <=> RestoreIsValid) /\ RestoreArgs' = RestoreArgs /\ ExportArgs' = ExportArgs
  BY DEF RestoreIsValid, RestoreArgs, ExportArgs
<1>4. [i \in DOMAIN CheckedDbs |-> DumpArgs(CheckedDbs[i])]'
        = [i \in DOMAIN CheckedDbs |-> DumpArgs(CheckedDbs[i])]
  BY <1>1 DEF DumpArgs, BoxOf, CheckedOf
<1> QED
  BY <1>1, <1>2, <1>3, <1>4

\* A run that goes on, with the plan and the form it has.
LEMMA SameRun ==
  ASSUME ToolInv, running', running, UNCHANGED <<form, asked, runner, plan>>,
         proc'.state # "none", step' \in 1..Len(plan), proc'.args = plan[step']
  PROVE  RunIsOfForm'
<1>1. /\ form = asked /\ runner \in {"backup", "restore"}
      /\ (runner = "restore" => plan = <<RestoreArgs>> /\ RestoreIsValid)
      /\ (runner = "backup" /\ form.json => plan = <<ExportArgs>>)
      /\ (runner = "backup" /\ ~form.json => plan = [i \in DOMAIN CheckedDbs |-> DumpArgs(CheckedDbs[i])])
  BY DEF ToolInv, RunIsOfForm
<1>2. PICK bs : bs = [i \in DOMAIN CheckedDbs |-> DumpArgs(CheckedDbs[i])]
  OBVIOUS
<1>3. [i \in DOMAIN CheckedDbs |-> DumpArgs(CheckedDbs[i])]' = bs
  BY <1>2, SameForm
<1>4. (RestoreIsValid' <=> RestoreIsValid) /\ RestoreArgs' = RestoreArgs /\ ExportArgs' = ExportArgs
  BY SameForm
<1> QED
  BY <1>1, <1>2, <1>3, <1>4 DEF RunIsOfForm

\* What the process of a run is given.
LEMMA ArgsFacts ==
  ASSUME ToolInv, running
  PROVE  /\ proc.args.kind = "dump" <=> runner = "backup" /\ ~form.json
         /\ (proc.args.kind = "dump" =>
               /\ proc.args \in {DumpArgs(d) : d \in {b \in Dbs : CheckedOf(b) # {}}}
               /\ DumpOf(proc.args) \subseteq UNION {{d} \X Actual[d] : d \in Dbs})
         /\ (proc.args.kind = "restore" =>
               (proc.args.db # NoDb <=> form.source = "dir" /\ form.single))
<1>1. /\ step \in 1..Len(plan) /\ proc.args = plan[step] /\ runner \in {"backup", "restore"}
      /\ (runner = "restore" => plan = <<RestoreArgs>> /\ RestoreIsValid)
      /\ (runner = "backup" /\ form.json => plan = <<ExportArgs>>)
      /\ (runner = "backup" /\ ~form.json => plan = [i \in DOMAIN CheckedDbs |-> DumpArgs(CheckedDbs[i])])
  BY DEF ToolInv, RunIsOfForm
<1>2. form \in Forms /\ form.json \in BOOLEAN
  BY ToolNow DEF ToolInv, ToolIsTyped
<1>3. CASE runner = "restore"
  <2>0. PICK a : a = RestoreArgs
    OBVIOUS
  <2>4. plan = <<a>> /\ Len(<<a>>) = 1 /\ <<a>>[1] = a
    BY <1>1, <1>3, <2>0
  <2>1. proc.args = RestoreArgs /\ RestoreIsValid
    BY <1>1, <1>3, <2>0, <2>4
  <2>2. RestoreArgs.kind \in {"import", "restore"}
    BY DEF RestoreArgs, NoArgs
  <2>3. RestoreArgs.kind = "restore" => (RestoreArgs.db # NoDb <=> form.source = "dir" /\ form.single)
    BY <2>1 DEF RestoreArgs, NoArgs, RestoreIsValid
  <2> QED
    BY <1>3, <2>1, <2>2, <2>3
<1>4. CASE runner = "backup" /\ form.json
  <2>0. PICK a : a = ExportArgs
    OBVIOUS
  <2>3. plan = <<a>> /\ Len(<<a>>) = 1 /\ <<a>>[1] = a
    BY <1>1, <1>4, <2>0
  <2>1. proc.args = ExportArgs
    BY <1>1, <2>0, <2>3
  <2>2. ExportArgs.kind = "export"
    BY DEF ExportArgs, NoArgs
  <2> QED
    BY <1>2, <1>4, <2>1, <2>2
<1>5. CASE runner = "backup" /\ ~form.json
  <2>1. PICK d \in Dbs : CheckedOf(d) # {} /\ proc.args = DumpArgs(d)
    BY <1>1, <1>2, <1>5, BackupFacts
  <2>2. DumpArgs(d).kind = "dump" /\ DumpOf(DumpArgs(d)) \subseteq {d} \X Actual[d]
    BY <1>2, <2>1, DumpFacts
  <2>3. DumpOf(proc.args) \subseteq UNION {{b} \X Actual[b] : b \in Dbs}
    BY <2>1, <2>2
  <2> QED
    BY <1>5, <2>1, <2>2, <2>3
<1> QED
  BY <1>1, <1>3, <1>4, <1>5

LEMMA ToolInitInv == ToolInit => ToolInv
<1> SUFFICES ASSUME ToolInit PROVE ToolInv
  OBVIOUS
<1>1. /\ runner = "none" /\ form = NoForm /\ running = FALSE
      /\ plan = <<>> /\ step = 1 /\ stopped = FALSE /\ proc = NoProcess /\ banner = "idle"
      /\ written = <<>> /\ data = [d \in Dbs |-> "old"] /\ toolStarts = 0 /\ asked = NoForm
  BY DEF ToolInit
<1>2. NoForm \in Forms
  BY DEF NoForm, Forms
<1>3. ToolIsTyped
  BY <1>1, <1>2 DEF ToolIsTyped, NoProcess
<1>4. ToolTypeOK
  <2>1. form.json = FALSE /\ form.checked = {} /\ form.target \in Dbs \cup {NoDb}
    BY <1>1 DEF NoForm
  <2>2. proc.state = "none" /\ proc.tool = NoTool
    BY <1>1 DEF NoProcess
  <2>3. toolStarts \in 0..MaxToolStarts
    BY <1>1, ToolAssumption
  <2>4. \A p \in DOMAIN written : written[p] \subseteq UNION {{d} \X Actual[d] : d \in Dbs}
    BY <1>1
  <2>5. data \in [Dbs -> {"old", "restored", "broken"}]
    BY <1>1
  <2> QED
    BY <1>1, <2>1, <2>2, <2>3, <2>4, <2>5 DEF ToolTypeOK
<1>5. CompleteMeansWritten /\ NothingRunsUnattended /\ NameOnlyForLooseFiles
  BY <1>1 DEF CompleteMeansWritten, NothingRunsUnattended, NameOnlyForLooseFiles, NoProcess, NoArgs
<1>6. RunIsOfForm /\ NoRunNoProcess /\ DumpsAreHeld
  BY <1>1 DEF RunIsOfForm, NoRunNoProcess, DumpsAreHeld
<1> QED
  BY <1>3, <1>4, <1>5, <1>6 DEF ToolInv, ToolIsSound

\* The form is opened or changed, and nothing runs.
LEMMA FormKeepsInv ==
  ASSUME ToolInv, ~running, form' \in Forms, form'.json => SingleCollection',
         runner' \in {"none", "backup", "restore"},
         banner' = "idle" \/ (banner' = banner /\ runner' = runner),
         UNCHANGED <<running, plan, step, stopped, proc, written, data, toolStarts, asked>>
  PROVE  ToolInv'
<1>1. proc = NoProcess
  BY DEF ToolInv, NoRunNoProcess
<1>2. ToolTypeOK'
  <2>1. form'.checked \subseteq AllRows /\ form'.json \in BOOLEAN /\ form'.target \in Dbs \cup {NoDb}
    BY DEF Forms
  <2>2. banner' \in {"idle", "running", "success", "error"}
    BY ToolNow
  <2> QED
    BY <2>1, <2>2, ToolNow DEF ToolTypeOK
<1>3. ToolIsTyped'
  BY DEF ToolInv, ToolIsTyped
<1>4. CompleteMeansWritten'
  BY DEF ToolInv, ToolIsSound, CompleteMeansWritten
<1>5. NothingRunsUnattended' /\ NameOnlyForLooseFiles'
  BY <1>1 DEF NothingRunsUnattended, NameOnlyForLooseFiles, NoProcess, NoArgs
<1>6. RunIsOfForm' /\ DumpsAreHeld'
  BY DEF RunIsOfForm, DumpsAreHeld
<1>7. NoRunNoProcess'
  BY DEF ToolInv, NoRunNoProcess
<1> QED
  BY <1>2, <1>3, <1>4, <1>5, <1>6, <1>7 DEF ToolInv, ToolIsSound

\* The steps that change the form.
FormStep ==
  \/ \E rows \in SUBSET AllRows : OpenBackup(rows)
  \/ \E d \in Dbs \cup {NoDb} : OpenRestore(d)
  \/ \E r \in AllRows : CheckRow(r)
  \/ \E d \in Dbs : CheckDb(d)
  \/ \E a, j \in BOOLEAN : ChooseFormat(a, j)
  \/ \E s \in {"dir", "archive", "json"}, single \in BOOLEAN : ChooseSource(s, single)
  \/ \E d \in Dbs \cup {NoDb}, drop \in BOOLEAN : EditTarget(d, drop)

LEMMA FormStepKeepsInv ==
  ASSUME ToolInv, FormStep
  PROVE  ToolInv'
<1>1. /\ form \in Forms /\ runner \in {"none", "backup", "restore"}
      /\ form.json => SingleCollection
  BY ToolNow DEF ToolInv, ToolIsTyped
<1>2. runner = "none" => ~running
  BY DEF ToolInv, RunIsOfForm
<1>3. NoForm \in Forms /\ NoForm.json = FALSE
  BY DEF NoForm, Forms
<1>4. (SingleCollection <=> /\ \A d \in Dbs : form.checked \cap Rows(d) # {} => Loaded[d] # {}
                            /\ Cardinality(form.checked) = 1)'
  BY SingleFacts, PTL
<1>5. SingleCollection' <=> /\ \A d \in Dbs : form'.checked \cap Rows(d) # {} => Loaded[d] # {}
                            /\ Cardinality(form'.checked) = 1
  BY <1>4
<1>6. SingleCollection <=> /\ \A d \in Dbs : form.checked \cap Rows(d) # {} => Loaded[d] # {}
                           /\ Cardinality(form.checked) = 1
  BY SingleFacts
<1>7. ASSUME NEW rows \in SUBSET AllRows, OpenBackup(rows) PROVE ToolInv'
  <2>1. /\ runner = "none" /\ runner' = "backup" /\ form' = [NoForm EXCEPT !.checked = rows]
        /\ banner' = "idle"
        /\ UNCHANGED <<running, plan, step, stopped, proc, written, data, toolStarts, asked>>
    BY <1>7 DEF OpenBackup
  <2>2. form' \in Forms /\ form'.json = FALSE
    BY <1>3, <2>1 DEF Forms
  <2> QED
    BY <1>2, <2>1, <2>2, FormKeepsInv
<1>8. ASSUME NEW d \in Dbs \cup {NoDb}, OpenRestore(d) PROVE ToolInv'
  <2>1. /\ runner = "none" /\ runner' = "restore" /\ form' = [NoForm EXCEPT !.target = d]
        /\ banner' = "idle"
        /\ UNCHANGED <<running, plan, step, stopped, proc, written, data, toolStarts, asked>>
    BY <1>8 DEF OpenRestore
  <2>2. form' \in Forms /\ form'.json = FALSE
    BY <1>3, <2>1 DEF Forms
  <2> QED
    BY <1>2, <2>1, <2>2, FormKeepsInv
<1>9. ASSUME NEW f \in Forms, Fill(f), f.json => SingleCollection' PROVE ToolInv'
  <2>1. /\ ~running /\ form' = f
        /\ UNCHANGED <<runner, running, plan, step, stopped, proc, banner, written, data, toolStarts, asked>>
    BY <1>9 DEF Fill
  <2> QED
    BY <1>1, <1>9, <2>1, FormKeepsInv
<1>10. ASSUME NEW g \in Forms, Fill(Formatted(g)) PROVE ToolInv'
  <2>1. PICK b \in BOOLEAN : b = (g.json /\ (\A d \in Dbs : g.checked \cap Rows(d) # {} => Loaded[d] # {})
                                         /\ Cardinality(g.checked) = 1)
    BY DEF Forms
  <2>2. PICK f : f = [g EXCEPT !.json = b]
    OBVIOUS
  <2>3. f \in Forms /\ f.json = b /\ f.checked = g.checked
    BY <2>2 DEF Forms
  <2>4. Formatted(g) = f
    BY <2>1, <2>2 DEF Formatted
  <2>5. Fill(f) /\ form' = f
    BY <1>10, <2>4 DEF Fill
  <2>6. f.json => SingleCollection'
    BY <1>5, <2>1, <2>3, <2>5
  <2> QED
    BY <1>9, <2>3, <2>5, <2>6
<1>11. ASSUME NEW r \in AllRows, CheckRow(r) PROVE ToolInv'
  <2>1. PICK g : g = [form EXCEPT !.checked = SymDiff(@, {r})]
    OBVIOUS
  <2>2. g \in Forms
    BY <1>1, <2>1 DEF Forms, SymDiff
  <2> QED
    BY <1>10, <1>11, <2>1, <2>2 DEF CheckRow
<1>12. ASSUME NEW d \in Dbs, CheckDb(d) PROVE ToolInv'
  <2>1. PICK g : g = [form EXCEPT !.checked = IF BoxOf(d) = "checked" THEN @ \ Rows(d) ELSE @ \cup Rows(d)]
    OBVIOUS
  <2>2. Rows(d) \subseteq AllRows
    BY DEF AllRows
  <2>3. g \in Forms
    BY <1>1, <2>1, <2>2 DEF Forms
  <2> QED
    BY <1>10, <1>12, <2>1, <2>3 DEF CheckDb
<1>13. ASSUME NEW a \in BOOLEAN, NEW j \in BOOLEAN, ChooseFormat(a, j) PROVE ToolInv'
  <2>1. PICK f : f = [form EXCEPT !.archive = a, !.json = j]
    OBVIOUS
  <2>2. f \in Forms /\ f.json = j /\ f.checked = form.checked
    BY <1>1, <2>1 DEF Forms
  <2>3. Fill(f) /\ form' = f /\ (j => SingleCollection)
    BY <1>13, <2>1 DEF ChooseFormat, Fill
  <2>4. f.json => SingleCollection'
    BY <1>5, <1>6, <2>2, <2>3
  <2> QED
    BY <1>9, <2>2, <2>3, <2>4
<1>14. ASSUME NEW s \in {"dir", "archive", "json"}, NEW single \in BOOLEAN, ChooseSource(s, single)
       PROVE  ToolInv'
  <2>1. PICK folder \in Dbs :
          Fill([form EXCEPT !.source = s, !.single = single,
                  !.target = IF s = "dir" /\ single /\ @ = NoDb THEN folder ELSE @])
    BY <1>14 DEF ChooseSource
  <2>2. PICK f : f = [form EXCEPT !.source = s, !.single = single,
                        !.target = IF s = "dir" /\ single /\ @ = NoDb THEN folder ELSE @]
    OBVIOUS
  <2>3. f \in Forms /\ f.json = form.json /\ f.checked = form.checked
    BY <1>1, <2>2 DEF Forms
  <2>4. Fill(f) /\ form' = f
    BY <2>1, <2>2 DEF Fill
  <2>5. f.json => SingleCollection'
    BY <1>1, <1>5, <1>6, <2>3, <2>4
  <2> QED
    BY <1>9, <2>3, <2>4, <2>5
<1>15. ASSUME NEW d \in Dbs \cup {NoDb}, NEW drop \in BOOLEAN, EditTarget(d, drop) PROVE ToolInv'
  <2>1. PICK f : f = [form EXCEPT !.target = d, !.drop = drop]
    OBVIOUS
  <2>2. f \in Forms /\ f.json = form.json /\ f.checked = form.checked
    BY <1>1, <2>1 DEF Forms
  <2>3. Fill(f) /\ form' = f
    BY <1>15, <2>1 DEF EditTarget, Fill
  <2>4. f.json => SingleCollection'
    BY <1>1, <1>5, <1>6, <2>2, <2>3
  <2> QED
    BY <1>9, <2>2, <2>3, <2>4
<1> QED
  BY <1>7, <1>8, <1>11, <1>12, <1>13, <1>14, <1>15 DEF FormStep

\* A run begins: the plan is made of the form.
LEMMA StartKeepsInv ==
  ASSUME ToolInv, NEW confirmed \in BOOLEAN, StartTool(confirmed)
  PROVE  ToolInv'
<1>1. CASE UNCHANGED toolVars
  <2>1. UNCHANGED <<runner, form, running, plan, step, stopped, proc, banner, written, data, toolStarts, asked>>
    BY <1>1 DEF toolVars
  <2>2. form \in Forms /\ (form.json => SingleCollection)
    BY ToolNow DEF ToolInv, ToolIsTyped
  <2>3. form' \in Forms /\ (form'.json => SingleCollection')
    BY <2>1, <2>2, SameForm
  <2>4. CASE ~running
    BY <2>1, <2>3, <2>4, ToolNow, FormKeepsInv
  <2>5. CASE running
    <3>1. RunIsOfForm'
      BY <2>1, <2>5, SameRun DEF ToolInv, RunIsOfForm
    <3>2. ToolTypeOK'
      BY <2>1, <2>3, ToolNow DEF ToolTypeOK
    <3>3. ToolIsTyped' /\ NoRunNoProcess' /\ DumpsAreHeld'
      BY <2>1 DEF ToolInv, ToolIsTyped, NoRunNoProcess, DumpsAreHeld, StepsDone, Held
    <3>4. CompleteMeansWritten' /\ NothingRunsUnattended' /\ NameOnlyForLooseFiles'
      BY <2>1 DEF ToolInv, ToolIsSound, CompleteMeansWritten, NothingRunsUnattended, NameOnlyForLooseFiles
    <3> QED
      BY <3>1, <3>2, <3>3, <3>4 DEF ToolInv, ToolIsSound
  <2> QED
    BY <2>4, <2>5, ToolNow
<1>2. CASE ~UNCHANGED toolVars
  <2>1. /\ runner # "none" /\ ~running /\ toolStarts < MaxToolStarts
        /\ ValidInput /\ Plan # <<>>
        /\ stopped' = FALSE /\ plan' = Plan /\ step' = 1 /\ running' = TRUE
        /\ UNCHANGED <<form, runner, written, data>>
        /\ proc' = [tool |-> ToolPath', args |-> plan'[1], state |-> "running"]
        /\ banner' = "running" /\ toolStarts' = toolStarts + 1 /\ asked' = form
    BY <1>2 DEF StartTool, Launch
  <2>2. form \in Forms /\ (form.json => SingleCollection) /\ form.json \in BOOLEAN
    BY ToolNow DEF ToolInv, ToolIsTyped
  <2>3. runner \in {"backup", "restore"}
    BY <2>1, ToolNow
  <2>4. PICK tool : tool = ToolPath'
    OBVIOUS
  <2>5. tool \in Tools \cup {NoTool}
    BY <2>4 DEF ToolPath, FindTool, Tools
  <2>6. proc' = [tool |-> tool, args |-> plan'[1], state |-> "running"]
    BY <2>1, <2>4
  <2>7. PICK bs : bs = [i \in DOMAIN CheckedDbs |-> DumpArgs(CheckedDbs[i])]
    OBVIOUS
  <2>8. /\ (runner = "restore" => plan' = <<RestoreArgs>> /\ RestoreIsValid)
        /\ (runner = "backup" /\ form.json => plan' = <<ExportArgs>>)
        /\ (runner = "backup" /\ ~form.json => plan' = bs)
    BY <2>1, <2>2, <2>3, <2>7 DEF Plan, BackupPlan, JsonMode, ValidInput
  <2>9. 1 \in 1..Len(plan')
    <3>1. CASE runner = "restore" \/ form.json
      <4>1. PICK a : plan' = <<a>>
        BY <2>3, <2>8, <3>1
      <4> QED
        BY <4>1
    <3>2. CASE runner = "backup" /\ ~form.json
      <4>1. form.checked # {} /\ form.checked \subseteq AllRows
        BY <2>1, <3>2, ToolNow DEF ValidInput
      <4>2. PICK d \in Dbs : CheckedOf(d) # {}
        BY <4>1 DEF AllRows, CheckedOf
      <4>3. \E i \in 1..Len(bs) : bs[i] = DumpArgs(d)
        BY <2>2, <2>7, <4>2, BackupFacts
      <4>4. Len(bs) \in Nat
        BY <2>2, <2>7, BackupFacts, CheckedFacts
      <4> QED
        BY <2>8, <3>2, <4>3, <4>4
    <3> QED
      BY <2>3, <3>1, <3>2
  <2>10. RunIsOfForm'
    <3>1. [i \in DOMAIN CheckedDbs |-> DumpArgs(CheckedDbs[i])]' = bs
      BY <2>1, <2>7, SameForm
    <3>2. (RestoreIsValid' <=> RestoreIsValid) /\ RestoreArgs' = RestoreArgs /\ ExportArgs' = ExportArgs
      BY <2>1, SameForm
    <3>3. proc'.state # "none" /\ proc'.args = plan'[step']
      BY <2>1, <2>6
    <3> QED
      BY <2>1, <2>3, <2>8, <2>9, <3>1, <3>2, <3>3 DEF RunIsOfForm
  <2>11. ToolIsTyped'
    BY <2>1, <2>2, <2>6 DEF ToolIsTyped
  <2>12. ToolTypeOK'
    <3>1. (form'.json => SingleCollection') /\ form' = form
      BY <2>1, <2>2, SameForm
    <3>2. proc'.state = "running" /\ proc'.tool \in Tools \cup {NoTool}
      BY <2>5, <2>6
    <3>3. toolStarts' \in 0..MaxToolStarts
      BY <2>1, ToolNow, ToolAssumption
    <3> QED
      BY <2>1, <3>1, <3>2, <3>3, ToolNow DEF ToolTypeOK
  <2>13. NoRunNoProcess' /\ NothingRunsUnattended' /\ CompleteMeansWritten'
    BY <2>1 DEF NoRunNoProcess, NothingRunsUnattended, CompleteMeansWritten
  <2>14. DumpsAreHeld'
    <3>1. proc'.state = "running" /\ step' = 1
      BY <2>1, <2>6
    <3>2. StepsDone' = {}
      BY <3>1 DEF StepsDone
    <3> QED
      BY <3>2 DEF DumpsAreHeld
  <2>15. NameOnlyForLooseFiles'
    <3>1. proc'.args = plan'[1]
      BY <2>6
    <3>2. CASE runner = "restore"
      <4>1. PICK a : a = RestoreArgs
        OBVIOUS
      <4>2. proc'.args = a
        BY <2>8, <3>1, <3>2, <4>1
      <4>3. a.kind = "restore" => (a.db # NoDb <=> form.source = "dir" /\ form.single)
        BY <2>8, <3>2, <4>1 DEF RestoreArgs, NoArgs, RestoreIsValid
      <4> QED
        BY <2>1, <4>2, <4>3 DEF NameOnlyForLooseFiles
    <3>3. CASE runner = "backup" /\ form.json
      <4>1. PICK a : a = ExportArgs
        OBVIOUS
      <4>2. proc'.args = a
        BY <2>8, <3>1, <3>3, <4>1
      <4>3. a.kind = "export"
        BY <4>1 DEF ExportArgs, NoArgs
      <4> QED
        BY <4>2, <4>3 DEF NameOnlyForLooseFiles
    <3>4. CASE runner = "backup" /\ ~form.json
      <4>1. \E d \in Dbs : CheckedOf(d) # {} /\ proc'.args = DumpArgs(d)
        BY <2>2, <2>7, <2>8, <2>9, <3>1, <3>4, BackupFacts
      <4>2. proc'.args.kind = "dump"
        BY <2>2, <4>1, DumpFacts
      <4> QED
        BY <4>2 DEF NameOnlyForLooseFiles
    <3> QED
      BY <2>3, <3>2, <3>3, <3>4
  <2> QED
    BY <2>10, <2>11, <2>12, <2>13, <2>14, <2>15 DEF ToolInv, ToolIsSound
<1> QED
  BY <1>1, <1>2

\* A tool writes: what other outputs hold stays.
AllOfServer == UNION {{d} \X Actual[d] : d \in Dbs}

LEMMA WriteFacts ==
  ASSUME NEW path, NEW rows \in SUBSET AllOfServer, WriteOut(path, rows),
         \A p \in DOMAIN written : written[p] \subseteq AllOfServer
  PROVE  /\ \A p \in DOMAIN written' : written'[p] \subseteq AllOfServer
         /\ path \in DOMAIN written' /\ written'[path] = rows
         /\ \A p \in DOMAIN written : p \in DOMAIN written' /\ (p # path => written'[p] = written[p])
BY DEF WriteOut

\* What is left of an output that a tool did not finish.
LEMMA BrokenFacts ==
  ASSUME ToolInv, running, proc.args.kind = "dump", NEW rows,
         rows = (IF proc.args.path = <<"dir">> THEN Held(proc.args.path) \ DumpOf(proc.args) ELSE {})
  PROVE  rows \in SUBSET AllOfServer /\ rows \cup DumpOf(proc.args) \in SUBSET AllOfServer
<1>1. \A p \in DOMAIN written : written[p] \subseteq AllOfServer
  BY ToolNow DEF AllOfServer
<1>2. DumpOf(proc.args) \subseteq AllOfServer
  BY ArgsFacts DEF AllOfServer
<1>3. Held(proc.args.path) \subseteq AllOfServer
  BY <1>1 DEF Held
<1> QED
  BY <1>2, <1>3

\* The steps of the process that leave the run as it is, but for what it has written.
LEMMA RunKeepsInv ==
  ASSUME ToolInv, running, NEW state \in {"running", "killed", "exited", "failed", "crashed"},
         proc' = [proc EXCEPT !.state = state],
         UNCHANGED <<runner, form, running, plan, step, toolStarts, asked>>,
         stopped' \in BOOLEAN, banner' = banner \/ banner' = "running",
         data' \in [Dbs -> {"old", "restored", "broken"}],
         \A p \in DOMAIN written' : written'[p] \subseteq AllOfServer,
         DumpsAreHeld'
  PROVE  ToolInv'
<1>1. /\ proc = [tool |-> proc.tool, args |-> proc.args, state |-> proc.state]
      /\ form \in Forms /\ asked \in Forms
  BY DEF ToolInv, ToolIsTyped
<1>2. proc' = [tool |-> proc.tool, args |-> proc.args, state |-> state]
  BY <1>1
<1>3. proc'.tool = proc.tool /\ proc'.args = proc.args /\ proc'.state = state
  BY <1>2
<1>4. /\ step \in 1..Len(plan) /\ proc.args = plan[step] /\ form = asked
      /\ runner \in {"backup", "restore"}
  BY DEF ToolInv, RunIsOfForm
<1>5. RunIsOfForm'
  BY <1>3, <1>4, SameRun
<1>6. ToolIsTyped'
  BY <1>1, <1>2, <1>3 DEF ToolIsTyped
<1>7. ToolTypeOK'
  <2>1. form'.json => SingleCollection'
    BY ToolNow, SameForm
  <2>2. banner' \in {"idle", "running", "success", "error"}
    BY ToolNow
  <2>3. proc'.state \in {"none", "running", "killed", "exited", "failed", "crashed"}
        /\ proc'.tool \in Tools \cup {NoTool}
    BY <1>3, ToolNow
  <2>4. \A p \in DOMAIN written' : written'[p] \subseteq UNION {{d} \X Actual[d] : d \in Dbs}
    BY DEF AllOfServer
  <2> QED
    BY <2>1, <2>2, <2>3, <2>4, ToolNow DEF ToolTypeOK
<1>8. banner' # "success" /\ running'
  BY DEF ToolInv, NoRunNoProcess
<1>9. NoRunNoProcess' /\ NothingRunsUnattended' /\ CompleteMeansWritten'
  BY <1>8 DEF NoRunNoProcess, NothingRunsUnattended, CompleteMeansWritten
<1>10. NameOnlyForLooseFiles'
  BY <1>3, <1>4, ArgsFacts DEF NameOnlyForLooseFiles
<1> QED
  BY <1>5, <1>6, <1>7, <1>9, <1>10 DEF ToolInv, ToolIsSound

LEMMA StopKeepsInv ==
  ASSUME ToolInv, StopTool
  PROVE  ToolInv'
<1>1. PICK state : state = IF proc.state = "running" THEN "killed" ELSE proc.state
  OBVIOUS
<1>2. /\ running /\ proc.state # "none" /\ stopped' = TRUE /\ banner' = "running"
      /\ proc' = [proc EXCEPT !.state = state]
      /\ UNCHANGED <<runner, form, running, plan, step, written, data, toolStarts, asked>>
  BY <1>1 DEF StopTool
<1>3. proc = [tool |-> proc.tool, args |-> proc.args, state |-> proc.state]
  BY DEF ToolInv, ToolIsTyped
<1>7. proc.state \in {"none", "running", "killed", "exited", "failed", "crashed"}
  BY DEF ToolInv, ToolIsSound, ToolTypeOK
<1>4. proc'.state = state /\ state \in {"killed", "exited", "failed", "crashed"}
      /\ (state = "exited" => proc.state = "exited")
  BY <1>1, <1>2, <1>3, <1>7
<1>5. DumpsAreHeld'
  BY <1>1, <1>2, <1>4 DEF ToolInv, DumpsAreHeld, StepsDone, Held
<1>6. /\ data' \in [Dbs -> {"old", "restored", "broken"}]
      /\ \A p \in DOMAIN written' : written'[p] \subseteq AllOfServer
  BY <1>2, ToolNow DEF AllOfServer
<1> QED
  BY <1>2, <1>4, <1>5, <1>6, RunKeepsInv

LEMMA DiesKeepsInv ==
  ASSUME ToolInv, ToolDies
  PROVE  ToolInv'
<1>1. PICK rows : rows = IF proc.args.path = <<"dir">> THEN Held(proc.args.path) \ DumpOf(proc.args) ELSE {}
  OBVIOUS
<1>2. /\ proc.state = "killed" /\ proc' = [proc EXCEPT !.state = "crashed"]
      /\ IF proc.args.kind = "dump" THEN WriteOut(proc.args.path, rows) ELSE UNCHANGED written
      /\ UNCHANGED <<runner, form, running, plan, step, stopped, banner, data, toolStarts, asked>>
  BY <1>1 DEF ToolDies
<1>3. running
  BY <1>2 DEF ToolInv, NoRunNoProcess, NoProcess
<1>4. proc = [tool |-> proc.tool, args |-> proc.args, state |-> proc.state]
  BY DEF ToolInv, ToolIsTyped
<1>5. proc'.state = "crashed"
  BY <1>2, <1>4
<1>6. DumpsAreHeld'
  BY <1>5 DEF DumpsAreHeld
<1>7. \A p \in DOMAIN written : written[p] \subseteq AllOfServer
  BY ToolNow DEF AllOfServer
<1>8. \A p \in DOMAIN written' : written'[p] \subseteq AllOfServer
  <2>1. CASE proc.args.kind = "dump"
    BY <1>1, <1>2, <1>3, <1>7, <2>1, BrokenFacts, WriteFacts
  <2>2. CASE proc.args.kind # "dump"
    BY <1>2, <1>7, <2>2
  <2> QED
    BY <2>1, <2>2
<1> QED
  BY <1>2, <1>3, <1>6, <1>8, ToolNow, RunKeepsInv

\* A step done adds to what its backup holds, and takes nothing from the steps before.
LEMMA ExitsKeepsInv ==
  ASSUME ToolInv, NEW ok \in BOOLEAN, ToolExits(ok)
  PROVE  ToolInv'
<1>1. PICK done \in BOOLEAN : done = (ok /\ (proc.args.kind = "export" => proc.tool = "mongoexport"))
  OBVIOUS
<1>2. PICK rest : rest = IF proc.args.path = <<"dir">> THEN Held(proc.args.path) \ DumpOf(proc.args) ELSE {}
  OBVIOUS
<1>3. PICK rows : rows = rest \cup (IF done THEN DumpOf(proc.args) ELSE {})
  OBVIOUS
<1>4. PICK state : state = IF done THEN "exited" ELSE "failed"
  OBVIOUS
<1>5. /\ proc.state = "running" /\ proc' = [proc EXCEPT !.state = state]
      /\ IF proc.args.kind = "dump" THEN WriteOut(proc.args.path, rows) ELSE UNCHANGED written
      /\ UNCHANGED <<runner, form, running, plan, step, stopped, banner, toolStarts, asked>>
  BY <1>1, <1>2, <1>3, <1>4 DEF ToolExits
<1>6. data' \in [Dbs -> {"old", "restored", "broken"}]
  <2>1. data \in [Dbs -> {"old", "restored", "broken"}]
    BY ToolNow
  <2>2. data' = data \/ data' = [d \in Dbs |-> IF proc.args.db \in {NoDb, d}
                                                THEN IF done THEN "restored" ELSE "broken" ELSE data[d]]
    BY <1>1 DEF ToolExits
  <2> QED
    BY <2>1, <2>2
<1>7. running
  BY <1>5 DEF ToolInv, NoRunNoProcess, NoProcess
<1>8. proc = [tool |-> proc.tool, args |-> proc.args, state |-> proc.state] /\ form \in Forms
  BY DEF ToolInv, ToolIsTyped
<1>9. proc'.state = state
  BY <1>5, <1>8
<1>10. \A p \in DOMAIN written : written[p] \subseteq AllOfServer
  BY ToolNow DEF AllOfServer
<1>11. proc.args.kind = "dump" =>
         /\ \A p \in DOMAIN written' : written'[p] \subseteq AllOfServer
         /\ proc.args.path \in DOMAIN written' /\ written'[proc.args.path] = rows
         /\ \A p \in DOMAIN written : p \in DOMAIN written' /\ (p # proc.args.path => written'[p] = written[p])
  <2> SUFFICES ASSUME proc.args.kind = "dump"
               PROVE  /\ \A p \in DOMAIN written' : written'[p] \subseteq AllOfServer
                      /\ proc.args.path \in DOMAIN written' /\ written'[proc.args.path] = rows
                      /\ \A p \in DOMAIN written : /\ p \in DOMAIN written'
                                                   /\ (p # proc.args.path => written'[p] = written[p])
    OBVIOUS
  <2>1. rest \in SUBSET AllOfServer /\ rest \cup DumpOf(proc.args) \in SUBSET AllOfServer
    BY <1>2, <1>7, BrokenFacts
  <2>2. rows \in SUBSET AllOfServer
    BY <1>3, <2>1
  <2>3. WriteOut(proc.args.path, rows)
    BY <1>5
  <2> QED
    BY <1>10, <2>2, <2>3, WriteFacts
<1>12. \A p \in DOMAIN written' : written'[p] \subseteq AllOfServer
  BY <1>5, <1>10, <1>11
<1>13. DumpsAreHeld'
  <2> SUFFICES ASSUME runner = "backup", ~form.json, state = "exited", NEW j \in 1..step
               PROVE  DumpOf(plan[j]) \subseteq IF plan[j].path \in DOMAIN written'
                                                THEN written'[plan[j].path] ELSE {}
    BY <1>4, <1>5, <1>9 DEF DumpsAreHeld, StepsDone, Held
  <2>1. /\ step \in 1..Len(plan) /\ proc.args = plan[step]
        /\ plan = [i \in DOMAIN CheckedDbs |-> DumpArgs(CheckedDbs[i])]
    BY <1>7 DEF ToolInv, RunIsOfForm
  <2>2. /\ Len(plan) = Len(CheckedDbs)
        /\ \A i \in 1..Len(plan) : \E d \in Dbs : CheckedOf(d) # {} /\ plan[i] = DumpArgs(d)
    BY <1>8, <2>1, BackupFacts
  <2>3. Len(CheckedDbs) \in Nat
    BY CheckedFacts
  <2>4. j \in 1..Len(plan)
    BY <2>1, <2>2, <2>3
  <2>5. proc.args.kind = "dump" /\ rows = rest \cup DumpOf(proc.args)
    BY <1>3, <1>4, <1>7, ArgsFacts
  <2>6. CASE j = step
    BY <1>11, <2>1, <2>5, <2>6
  <2>7. CASE j # step
    <3>1. j \in 1..(step - 1)
      BY <2>1, <2>2, <2>3, <2>7
    <3>2. DumpOf(plan[j]) \subseteq Held(plan[j].path)
      BY <1>5, <1>7, <3>1 DEF ToolInv, DumpsAreHeld, StepsDone
    <3>3. CASE plan[j].path # proc.args.path
      BY <1>11, <2>5, <3>2, <3>3 DEF Held
    <3>4. CASE plan[j].path = proc.args.path /\ proc.args.path = <<"dir">>
      BY <1>2, <1>11, <2>5, <3>2, <3>4
    <3>5. CASE plan[j].path = proc.args.path /\ proc.args.path # <<"dir">>
      <4>1. PICK d \in Dbs, b \in Dbs : /\ CheckedOf(d) # {} /\ plan[j] = DumpArgs(d)
                                        /\ CheckedOf(b) # {} /\ plan[step] = DumpArgs(b)
        BY <2>1, <2>2, <2>4
      <4>2. d = b \/ Len(CheckedDbs) <= 1
        BY <1>8, <2>1, <3>5, <4>1, PathFacts
      <4>3. ~(Len(CheckedDbs) <= 1)
        BY <2>1, <2>2, <2>3, <3>1
      <4>4. plan[j] = proc.args
        BY <2>1, <4>1, <4>2, <4>3
      <4> QED
        BY <1>11, <2>5, <4>4
    <3> QED
      BY <3>3, <3>4, <3>5
  <2> QED
    BY <2>6, <2>7
<1> QED
  BY <1>4, <1>5, <1>6, <1>7, <1>12, <1>13, ToolNow, RunKeepsInv

\* A run ends.
LEMMA EndKeepsInv ==
  ASSUME ToolInv, running, NEW b \in {"idle", "success", "error"},
         running' = FALSE, banner' = b, proc' = NoProcess,
         UNCHANGED <<plan, step, runner, form, stopped, written, data, toolStarts, asked>>,
         b = "success" => CompleteMeansWritten'
  PROVE  ToolInv'
<1>1. form \in Forms /\ asked \in Forms /\ (form.json => SingleCollection)
  BY ToolNow DEF ToolInv, ToolIsTyped
<1>2. ToolTypeOK'
  <2>1. form'.json => SingleCollection'
    BY <1>1, SameForm
  <2>2. proc'.state = "none" /\ proc'.tool = NoTool
    BY DEF NoProcess
  <2> QED
    BY <2>1, <2>2, ToolNow DEF ToolTypeOK
<1>3. ToolIsTyped'
  BY <1>1 DEF ToolIsTyped, NoProcess
<1>4. CompleteMeansWritten'
  BY DEF CompleteMeansWritten
<1>5. NothingRunsUnattended' /\ NameOnlyForLooseFiles'
  BY DEF NothingRunsUnattended, NameOnlyForLooseFiles, NoProcess, NoArgs
<1>6. RunIsOfForm' /\ NoRunNoProcess' /\ DumpsAreHeld'
  BY DEF RunIsOfForm, NoRunNoProcess, DumpsAreHeld
<1> QED
  BY <1>2, <1>3, <1>4, <1>5, <1>6 DEF ToolInv, ToolIsSound

\* All that was checked is written when the last step is done.
LEMMA AllIsWritten ==
  ASSUME ToolInv, running, proc.state = "exited", step = Len(plan), runner = "backup", ~asked.json
  PROVE  Wanted(asked.checked) \subseteq UNION {written[p] : p \in DOMAIN written}
<1>1. /\ form = asked /\ form \in Forms
      /\ (~form.json => plan = [i \in DOMAIN CheckedDbs |-> DumpArgs(CheckedDbs[i])])
  BY DEF ToolInv, RunIsOfForm, ToolIsTyped
<1>2. \A d \in Dbs : CheckedOf(d) # {} => \E i \in 1..Len(plan) : plan[i] = DumpArgs(d)
  BY <1>1, BackupFacts
<1>3. \A j \in 1..Len(plan) : DumpOf(plan[j]) \subseteq Held(plan[j].path)
  BY <1>1 DEF ToolInv, DumpsAreHeld, StepsDone
<1>4. form.checked \subseteq AllRows
  BY ToolNow
<1>5. SUFFICES ASSUME NEW r \in form.checked, NEW x \in IF r[2] = Whole THEN {r[1]} \X Actual[r[1]] ELSE {r}
               PROVE  \E p \in DOMAIN written : x \in written[p]
  BY <1>1 DEF Wanted
<1>6. PICK d \in Dbs : r \in CheckedOf(d)
  BY <1>4 DEF AllRows, CheckedOf
<1>7. x \in Wanted(CheckedOf(d))
  BY <1>6 DEF Wanted
<1>8. x \in DumpOf(DumpArgs(d))
  BY <1>1, <1>6, <1>7, DumpFacts
<1>9. PICK i \in 1..Len(plan) : plan[i] = DumpArgs(d)
  BY <1>2, <1>6
<1>10. x \in Held(plan[i].path)
  BY <1>3, <1>8, <1>9
<1> QED
  BY <1>10 DEF Held

LEMMA FinishedKeepsInv ==
  ASSUME ToolInv, Finished
  PROVE  ToolInv'
<1>1. /\ proc.state \in {"exited", "failed", "crashed"}
      /\ UNCHANGED <<runner, form, stopped, written, data, toolStarts, asked>>
  BY DEF Finished
<1>2. running
  BY <1>1 DEF ToolInv, NoRunNoProcess, NoProcess
<1>3. \/ EndRun("idle") \/ EndRun("error")
      \/ proc.state = "exited" /\ step = Len(plan) /\ EndRun("success")
      \/ /\ proc.state = "exited" /\ step # Len(plan)
         /\ step' = step + 1 /\ UNCHANGED <<plan, running>> /\ Launch(step + 1)
  BY DEF Finished
<1>4. CASE EndRun("idle") \/ EndRun("error")
  BY <1>1, <1>2, <1>4, EndKeepsInv DEF EndRun
<1>5. CASE proc.state = "exited" /\ step = Len(plan) /\ EndRun("success")
  <2>1. CompleteMeansWritten'
    BY <1>1, <1>2, <1>5, AllIsWritten DEF CompleteMeansWritten
  <2> QED
    BY <1>1, <1>2, <1>5, <2>1, EndKeepsInv DEF EndRun
<1>6. CASE /\ proc.state = "exited" /\ step # Len(plan)
           /\ step' = step + 1 /\ UNCHANGED <<plan, running>> /\ Launch(step + 1)
  <2>1. PICK tool : tool = ToolPath'
    OBVIOUS
  <2>2. proc' = [tool |-> tool, args |-> plan[step + 1], state |-> "running"] /\ banner' = "running"
    BY <1>6, <2>1 DEF Launch
  <2>3. tool \in Tools \cup {NoTool}
    BY <2>1 DEF ToolPath, FindTool, Tools
  <2>4. /\ step \in 1..Len(plan) /\ form = asked /\ runner \in {"backup", "restore"}
        /\ (runner = "restore" => plan = <<RestoreArgs>>)
        /\ (runner = "backup" /\ form.json => plan = <<ExportArgs>>)
        /\ (runner = "backup" /\ ~form.json => plan = [i \in DOMAIN CheckedDbs |-> DumpArgs(CheckedDbs[i])])
    BY <1>2 DEF ToolInv, RunIsOfForm
  <2>5. form \in Forms /\ asked \in Forms /\ (form.json => SingleCollection) /\ form.json \in BOOLEAN
    BY ToolNow DEF ToolInv, ToolIsTyped
  <2>6. runner = "backup" /\ ~form.json
    <3>1. ASSUME NEW a, plan = <<a>> PROVE FALSE
      BY <1>6, <2>4, <3>1
    <3> QED
      BY <2>4, <2>5, <3>1
  <2>7. /\ Len(plan) \in Nat
        /\ \A i \in 1..Len(plan) : \E d \in Dbs : CheckedOf(d) # {} /\ plan[i] = DumpArgs(d)
    BY <2>4, <2>5, <2>6, BackupFacts, CheckedFacts
  <2>8. step + 1 \in 1..Len(plan)
    BY <1>6, <2>4, <2>7
  <2>9. proc'.state = "running" /\ proc'.args = plan[step'] /\ proc'.tool = tool
    BY <1>6, <2>2
  <2>10. RunIsOfForm'
    BY <1>1, <1>2, <1>6, <2>8, <2>9, SameRun
  <2>11. ToolIsTyped'
    BY <1>1, <2>2, <2>5 DEF ToolIsTyped
  <2>12. ToolTypeOK'
    <3>1. form'.json => SingleCollection'
      BY <1>1, <2>5, SameForm
    <3>2. step' \in 1..Len(plan')
      BY <1>6, <2>8
    <3> QED
      BY <1>1, <1>6, <2>2, <2>3, <2>9, <3>1, <3>2, ToolNow DEF ToolTypeOK
  <2>13. NoRunNoProcess' /\ NothingRunsUnattended' /\ CompleteMeansWritten'
    BY <1>2, <1>6, <2>2 DEF NoRunNoProcess, NothingRunsUnattended, CompleteMeansWritten
  <2>14. NameOnlyForLooseFiles'
    <3>1. PICK d \in Dbs : CheckedOf(d) # {} /\ proc'.args = DumpArgs(d)
      BY <1>6, <2>7, <2>8, <2>9
    <3>2. proc'.args.kind = "dump"
      BY <2>5, <3>1, DumpFacts
    <3> QED
      BY <3>2 DEF NameOnlyForLooseFiles
  <2>15. DumpsAreHeld'
    <3>1. \A j \in 1..step : DumpOf(plan[j]) \subseteq Held(plan[j].path)
      BY <1>2, <1>6, <2>6 DEF ToolInv, DumpsAreHeld, StepsDone
    <3>2. StepsDone' = 1..step
      <4>1. (step + 1) - 1 = step
        BY <2>4, <2>7
      <4> QED
        BY <1>6, <2>9, <4>1 DEF StepsDone
    <3> QED
      BY <1>1, <1>6, <3>1, <3>2 DEF DumpsAreHeld, Held
  <2> QED
    BY <2>10, <2>11, <2>12, <2>13, <2>14, <2>15 DEF ToolInv, ToolIsSound
<1> QED
  BY <1>3, <1>4, <1>5, <1>6

LEMMA CloseKeepsInv ==
  ASSUME ToolInv, Close
  PROVE  ToolInv'
<1>1. PICK rows : rows = IF proc.args.path = <<"dir">> THEN Held(proc.args.path) \ DumpOf(proc.args) ELSE {}
  OBVIOUS
<1>2. /\ runner' = "none" /\ form' = NoForm /\ running' = FALSE /\ plan' = <<>> /\ step' = 1
      /\ stopped' = FALSE /\ proc' = NoProcess /\ banner' = "idle" /\ asked' = NoForm
      /\ IF proc.state \in {"running", "killed"} /\ proc.args.kind = "dump"
         THEN WriteOut(proc.args.path, rows) ELSE UNCHANGED written
      /\ UNCHANGED <<data, toolStarts>>
  BY <1>1 DEF Close
<1>3. NoForm \in Forms /\ NoForm.json = FALSE /\ NoForm.checked = {} /\ NoForm.target = NoDb
  BY DEF NoForm, Forms
<1>4. \A p \in DOMAIN written : written[p] \subseteq AllOfServer
  BY ToolNow DEF AllOfServer
<1>5. \A p \in DOMAIN written' : written'[p] \subseteq AllOfServer
  <2>1. CASE proc.state \in {"running", "killed"} /\ proc.args.kind = "dump"
    <3>1. running
      BY <2>1 DEF ToolInv, NoRunNoProcess, NoProcess
    <3>2. rows \in SUBSET AllOfServer
      BY <1>1, <2>1, <3>1, BrokenFacts
    <3> QED
      BY <1>2, <1>4, <2>1, <3>2, WriteFacts
  <2>2. CASE ~(proc.state \in {"running", "killed"} /\ proc.args.kind = "dump")
    BY <1>2, <1>4, <2>2
  <2> QED
    BY <2>1, <2>2
<1>6. ToolTypeOK'
  <2>1. proc'.state = "none" /\ proc'.tool = NoTool
    BY <1>2 DEF NoProcess
  <2>2. \A p \in DOMAIN written' : written'[p] \subseteq UNION {{d} \X Actual[d] : d \in Dbs}
    BY <1>5 DEF AllOfServer
  <2> QED
    BY <1>2, <1>3, <2>1, <2>2, ToolNow DEF ToolTypeOK
<1>7. ToolIsTyped'
  BY <1>2, <1>3 DEF ToolIsTyped, NoProcess
<1>8. CompleteMeansWritten' /\ NothingRunsUnattended' /\ NameOnlyForLooseFiles'
  BY <1>2 DEF CompleteMeansWritten, NothingRunsUnattended, NameOnlyForLooseFiles, NoProcess, NoArgs
<1>9. RunIsOfForm' /\ NoRunNoProcess' /\ DumpsAreHeld'
  BY <1>2 DEF RunIsOfForm, NoRunNoProcess, DumpsAreHeld
<1> QED
  BY <1>6, <1>7, <1>8, <1>9 DEF ToolInv, ToolIsSound

LEMMA ToolNextInv == ToolInv /\ [ToolNext]_toolVars => ToolInv'
<1> SUFFICES ASSUME ToolInv, [ToolNext]_toolVars PROVE ToolInv'
  OBVIOUS
<1>1. CASE FormStep
  BY <1>1, FormStepKeepsInv
<1>2. ASSUME NEW c \in BOOLEAN, StartTool(c) PROVE ToolInv'
  BY <1>2, StartKeepsInv
<1>3. CASE StopTool
  BY <1>3, StopKeepsInv
<1>4. CASE Close
  BY <1>4, CloseKeepsInv
<1>5. ASSUME NEW ok \in BOOLEAN, ToolExits(ok) PROVE ToolInv'
  BY <1>5, ExitsKeepsInv
<1>6. CASE ToolDies
  BY <1>6, DiesKeepsInv
<1>7. CASE FailToStart
  <2>1. /\ proc.state = "running" /\ proc' = NoProcess /\ banner' = "error" /\ running' = FALSE
        /\ UNCHANGED <<runner, form, plan, step, stopped, written, data, toolStarts, asked>>
    BY <1>7 DEF FailToStart
  <2>2. running
    BY <2>1 DEF ToolInv, NoRunNoProcess, NoProcess
  <2> QED
    BY <2>1, <2>2, EndKeepsInv
<1>8. CASE Finished
  BY <1>8, FinishedKeepsInv
<1>9. CASE UNCHANGED toolVars
  <2>1. UNCHANGED <<runner, form, running, plan, step, stopped, proc, banner, written, data, toolStarts, asked>>
    BY <1>9 DEF toolVars
  <2>2. form' \in Forms /\ (form'.json => SingleCollection')
    BY <2>1, ToolNow, SameForm DEF ToolInv, ToolIsTyped
  <2>3. CASE ~running
    BY <2>1, <2>2, <2>3, ToolNow, FormKeepsInv
  <2>4. CASE running
    <3>1. proc = [tool |-> proc.tool, args |-> proc.args, state |-> proc.state] /\ proc.state # "none"
      BY <2>4 DEF ToolInv, ToolIsTyped, RunIsOfForm
    <3>2. PICK state : state = proc.state
      OBVIOUS
    <3>3. proc' = [proc EXCEPT !.state = state]
      BY <2>1, <3>1, <3>2
    <3>4. DumpsAreHeld'
      BY <2>1 DEF ToolInv, DumpsAreHeld, StepsDone, Held
    <3>5. \A p \in DOMAIN written' : written'[p] \subseteq AllOfServer
      BY <2>1, ToolNow DEF AllOfServer
    <3> QED
      BY <2>1, <2>4, <3>1, <3>2, <3>3, <3>4, <3>5, ToolNow, RunKeepsInv
  <2> QED
    BY <2>3, <2>4, ToolNow
<1> QED
  BY <1>1, <1>2, <1>3, <1>4, <1>5, <1>6, <1>7, <1>8, <1>9 DEF ToolNext, ToolUser, ToolProcess, FormStep

\* ToolRunnerDialog.cpp:72-234, BackupDialog.cpp:274-335: whatever is checked, started, stopped,
\* closed and fails in between, a backup reported complete holds all that was checked, no
\* process is left unattended, and a restore names a database for loose files only.
THEOREM ToolRunsAreSound == ToolSpec => []ToolIsSound
<1>1. ToolInv => ToolIsSound
  BY DEF ToolInv
<1> QED
  BY <1>1, ToolInitInv, ToolNextInv, PTL DEF ToolSpec

\* ToolRunnerDialog.cpp:102-103, 177-181: once Stop was pressed, the process of the run is the
\* one there was, or none.
THEOREM StopIsFinalAlways == ToolSpec => StopIsFinal
<1>1. ToolInv /\ [ToolNext]_toolVars =>
        [stopped /\ running => proc'.args \in {proc.args, NoArgs}]_toolVars
  <2>1. SUFFICES ASSUME ToolInv, ToolNext, stopped, running
                 PROVE  proc'.args \in {proc.args, NoArgs}
    BY DEF toolVars
  <2>2. proc = [tool |-> proc.tool, args |-> proc.args, state |-> proc.state]
    BY <2>1 DEF ToolInv, ToolIsTyped, RunIsOfForm
  <2>3. NoProcess.args = NoArgs
    BY DEF NoProcess
  <2>4. ASSUME NEW f, Fill(f) PROVE FALSE
    BY <2>1, <2>4 DEF Fill
  <2>5. CASE \E rows \in SUBSET AllRows : OpenBackup(rows)
    BY <2>5 DEF OpenBackup
  <2>6. CASE \E d \in Dbs \cup {NoDb} : OpenRestore(d)
    BY <2>6 DEF OpenRestore
  <2>7. CASE \E r \in AllRows : CheckRow(r)
    BY <2>4, <2>7 DEF CheckRow
  <2>8. CASE \E d \in Dbs : CheckDb(d)
    BY <2>4, <2>8 DEF CheckDb
  <2>9. CASE \E a, j \in BOOLEAN : ChooseFormat(a, j)
    BY <2>4, <2>9 DEF ChooseFormat
  <2>10. CASE \E s \in {"dir", "archive", "json"}, single \in BOOLEAN : ChooseSource(s, single)
    BY <2>4, <2>10 DEF ChooseSource
  <2>11. CASE \E d \in Dbs \cup {NoDb}, drop \in BOOLEAN : EditTarget(d, drop)
    BY <2>4, <2>11 DEF EditTarget
  <2>12. CASE \E c \in BOOLEAN : StartTool(c)
    BY <2>1, <2>12 DEF StartTool
  <2>13. CASE StopTool \/ ToolDies \/ \E ok \in BOOLEAN : ToolExits(ok)
    <3>1. PICK s : proc' = [proc EXCEPT !.state = s]
      BY <2>13 DEF StopTool, ToolDies, ToolExits
    <3> QED
      BY <2>2, <3>1
  <2>14. CASE Close
    BY <2>3, <2>14 DEF Close
  <2>15. CASE FailToStart
    BY <2>3, <2>15 DEF FailToStart
  <2>16. CASE Finished
    BY <2>1, <2>3, <2>16 DEF Finished, EndRun
  <2> QED
    BY <2>1, <2>5, <2>6, <2>7, <2>8, <2>9, <2>10, <2>11, <2>12, <2>13, <2>14, <2>15, <2>16
    DEF ToolNext, ToolUser, ToolProcess
<1> QED
  BY <1>1, ToolInitInv, ToolNextInv, PTL DEF ToolSpec, StopIsFinal
=============================================================================
