------------------------------ MODULE QueryTab ------------------------------
(***************************************************************************)
(* A query tab: the editor and progress popup (gui/widgets/workarea/       *)
(* QueryWidget.cpp), the result parts below it (OutputWidget.cpp,          *)
(* OutputItemContentWidget.cpp), the shell it sends requests with          *)
(* (core/domain/MongoShell.cpp) and the worker that answers them one at a  *)
(* time, in order (core/mongodb/MongoWorker.cpp).  Replies come back       *)
(* through the UI thread's event queue, and the user goes on meanwhile.    *)
(*                                                                         *)
(* Documents are named by where they come from: [src, skip] is the page at *)
(* `skip' of the query behind part ix of run `run' (src = [run, ix]).  The *)
(* fields of the paging bar accept any skip; the limit and the batch size  *)
(* of a page, with 0 and -1 for none, are in ResultViews and left out here.*)
(***************************************************************************)
EXTENDS Naturals, Integers, Sequences, SequencesExt

CONSTANTS Scripts,  \* what the user may execute
          PartsOf,  \* PartsOf[s]: the kinds of the results of s
          NoScript,
          QuerySkip, \* .skip() of every find the user runs
          MaxRuns,  \* bound on the scripts sent
          MaxPages, \* bound on the pages requested
          MaxSkip   \* bound on the skip the user asks for

Kinds == {"find", "aggr", "text", "error"}

ASSUME TabAssumption ==
  /\ NoScript \notin Scripts
  /\ PartsOf \in [Scripts -> Seq(Kinds)]
  /\ QuerySkip \in Nat
  /\ MaxRuns \in Nat /\ MaxPages \in Nat /\ MaxSkip \in Nat

VARIABLES executing, \* QueryWidget::_executing
          popup,     \* the progress popup is visible
          lastQuery, \* _lastExecutedQuery, NoScript when empty
          requests,  \* what waits at the worker, in order
          replies,   \* what the worker has posted to the UI thread
          parts,     \* the parts in the splitter or in the result tabs
          presented, \* _outputItemContentWidgets.size()
          tabbed,    \* _tabbedResults
          current,   \* the current result tab, 0 if there is none
          runs,      \* scripts sent so far
          pages,     \* pages requested so far
          history,   \* what QueryHistoryManager::add() was called with
          answered,  \* the last script reply handled, NoReply after another change of the view
          crashed,   \* updatePart() was called on no widget
          rushed     \* a script and another request were on their way together

requestVars == <<requests, runs, pages>>
viewVars == <<parts, presented, tabbed, current>>
vars == <<executing, popup, lastQuery, requests, replies, parts, presented, tabbed,
          current, runs, pages, history, answered, crashed, rushed>>

Source == [run : Nat, ix : Nat]
Page == [src : Source, skip : Nat]
Part == [src : Source, kind : Kinds, skip : Nat, docs : Page]
\* index is the resultIndex the request carries.
Request == [op : {"script", "aggr", "find"}, run : Nat, script : Scripts \cup {NoScript},
            page : Page, index : Int]
Outcomes == {"ok", "error", "timeout"}
Reply == [req : Request, outcome : Outcomes]

NoPage == [src |-> [run |-> 0, ix |-> 0], skip |-> 0]
ScriptRequest(run, s) ==
  [op |-> "script", run |-> run, script |-> s, page |-> NoPage, index |-> -1]
NoReply == [req |-> ScriptRequest(0, NoScript), outcome |-> "ok"]

\* WorkAreaTabWidget::handle(OpeningShellEvent): the tab is opened idle, or with
\* the script openShell() executes on its own.
Init ==
  /\ \/ /\ executing = FALSE /\ requests = <<>> /\ runs = 0
     \/ \E s \in Scripts : executing = TRUE /\ requests = <<ScriptRequest(1, s)>> /\ runs = 1
  /\ popup = executing
  /\ lastQuery = NoScript
  /\ replies = <<>> /\ parts = <<>> /\ presented = 0 /\ tabbed = FALSE /\ current = 0
  /\ pages = 0 /\ history = <<>> /\ answered = NoReply /\ crashed = FALSE /\ rushed = FALSE

\* What is at the worker or on its way back.  The progress popup keeps the user from
\* nothing.
InFlight == {requests[i].op : i \in DOMAIN requests} \cup {replies[i].req.op : i \in DOMAIN replies}
Sends(op) == rushed' = (rushed \/ ~({op} \cup InFlight \subseteq {"find"} \/ InFlight = {}))

\* QueryWidget::execute(): F5, Ctrl+Enter or a reload of the tab.
Execute(s) ==
  /\ ~crashed /\ runs < MaxRuns
  /\ Sends("script")
  /\ lastQuery' = s
  /\ executing' = TRUE /\ popup' = TRUE
  /\ runs' = runs + 1
  /\ requests' = Append(requests, ScriptRequest(runs + 1, s))
  /\ UNCHANGED <<viewVars, replies, pages, history, answered, crashed>>

Visible(i) == IF tabbed THEN i = current ELSE i \in DOMAIN parts

\* Mutant: the index is counted from one.
ResultIndexFromOne(i) == IF tabbed THEN -1 ELSE i

\* OutputWidget::resultIndex(): the place in the splitter, -1 for a result tab.
ResultIndex(i) == IF tabbed THEN -1 ELSE i - 1

\* OutputItemContentWidget::setup(): _initialSkip of a part.
InitialSkip(kind) == IF kind = "find" THEN QuerySkip ELSE 0

\* The skip a page is asked for with.
Allowed(kind, skip) == IF skip < InitialSkip(kind) THEN InitialSkip(kind) ELSE skip

\* OutputItemContentWidget::refresh(): a page of a find is asked for directly, a
\* page of an aggregation by a new script, a run of its own.  Only the popup is
\* shown; the header changes only where the skip is put right.  The limit of the
\* page is ResultViews' LimitOf: a page with none is asked for and answered too.
Refresh(i, skip) ==
  /\ ~crashed /\ i \in DOMAIN parts /\ Visible(i)
  /\ parts[i].kind \in {"find", "aggr"} /\ pages < MaxPages
  /\ Sends(parts[i].kind)
  /\ popup' = TRUE
  /\ LET asked == Allowed(parts[i].kind, skip)
         page == [src |-> parts[i].src, skip |-> asked] IN
     /\ parts' = IF asked # skip THEN [parts EXCEPT ![i].skip = asked] ELSE parts
     /\ requests' = Append(requests, [op |-> parts[i].kind, run |-> MaxRuns + pages + 1,
                                      script |-> NoScript, page |-> page,
                                      index |-> ResultIndex(i)])
  /\ pages' = pages + 1
  /\ UNCHANGED <<executing, lastQuery, presented, tabbed, current, replies, runs, history,
                 answered, crashed>>

\* OutputWidget::tabCloseRequested(), and Qt's choice of the next current tab.
CloseResultTab(i) ==
  /\ ~crashed /\ tabbed /\ i \in DOMAIN parts
  /\ parts' = RemoveAt(parts, i)
  /\ current' = IF i < current \/ current = Len(parts) THEN current - 1 ELSE current
  /\ answered' = NoReply
  /\ UNCHANGED <<executing, popup, lastQuery, requestVars, replies, presented, tabbed,
                 history, crashed, rushed>>

SelectResultTab(i) ==
  /\ ~crashed /\ tabbed /\ i \in DOMAIN parts
  /\ current' = i
  /\ UNCHANGED <<executing, popup, lastQuery, requestVars, replies, parts, presented,
                 tabbed, history, answered, crashed, rushed>>

\* The worker takes its oldest request and replies exactly once; a find page
\* cannot time out.
Answer(outcome) ==
  /\ ~crashed /\ requests # <<>>
  /\ Head(requests).op = "find" => outcome # "timeout"
  /\ requests' = Tail(requests)
  /\ replies' = Append(replies, [req |-> Head(requests), outcome |-> outcome])
  /\ UNCHANGED <<executing, popup, lastQuery, viewVars, runs, pages, history, answered,
                 crashed, rushed>>

\* The kinds of the results a reply brings: a timeout brings none, and is not an error.
Results(reply) ==
  IF reply.outcome # "ok" THEN <<>>
  ELSE IF reply.req.op = "aggr" THEN <<"aggr">>
  ELSE PartsOf[reply.req.script]

\* The part of a result just presented: its first page.
Fresh(run, i, kind) ==
  [src |-> [run |-> run, ix |-> i], kind |-> kind, skip |-> InitialSkip(kind),
   docs |-> [src |-> [run |-> run, ix |-> i], skip |-> InitialSkip(kind)]]

\* OutputWidget::present(): the parts are rebuilt; three or more go into tabs.
Present(reply) ==
  LET kinds == Results(reply) IN
  /\ parts' = [i \in DOMAIN kinds |-> Fresh(reply.req.run, i, kinds[i])]
  /\ presented' = Len(kinds)
  /\ tabbed' = (Len(kinds) > 2)
  /\ current' = IF Len(kinds) > 2 THEN 1 ELSE 0

\* OutputWidget::updatePart(AggrInfo): the reply's AggrInfo is rebuilt from the
\* output of the page's own script (MongoshEngine::parseExecOutput), so its
\* resultIndex and its skip are 0 whatever the request carried.
UpdateAggregate(reply) ==
  LET own == [src |-> [run |-> reply.req.run, ix |-> 1], skip |-> 0]
      docs == IF reply.req.op = "aggr" THEN reply.req.page ELSE own
  IN /\ IF tabbed \/ parts = <<>> THEN UNCHANGED parts
        ELSE parts' = [parts EXCEPT ![1].skip = 0, ![1].docs = docs]
     /\ UNCHANGED <<presented, tabbed, current>>

\* QueryWidget::recordHistory().
Recorded(reply) ==
  /\ lastQuery # NoScript
  /\ reply.outcome # "error"
  /\ \A i \in DOMAIN Results(reply) : Results(reply)[i] # "error"

\* Mutant: the captured text is not cleared.
HandleScriptKeepsText ==
  /\ ~crashed /\ replies # <<>> /\ Head(replies).req.op \in {"script", "aggr"}
  /\ LET reply == Head(replies)
     IN /\ history' = IF Recorded(reply)
                      THEN Append(history, [query |-> lastQuery, of |-> reply]) ELSE history
        /\ Present(reply)
        /\ answered' = reply
  /\ executing' = FALSE /\ popup' = FALSE
  /\ replies' = Tail(replies)
  /\ UNCHANGED <<lastQuery, requestVars, crashed, rushed>>

\* QueryWidget::handle(ScriptExecutedEvent).
HandleScript ==
  /\ ~crashed /\ replies # <<>> /\ Head(replies).req.op \in {"script", "aggr"}
  /\ LET reply == Head(replies)
         fresh == lastQuery # NoScript
     IN /\ history' = IF Recorded(reply)
                      THEN Append(history, [query |-> lastQuery, of |-> reply]) ELSE history
        /\ IF ~fresh /\ Results(reply) = <<"aggr">> /\ presented > 0
           THEN UpdateAggregate(reply)
           ELSE Present(reply)
        /\ answered' = reply
  /\ lastQuery' = NoScript
  /\ executing' = FALSE /\ popup' = FALSE
  /\ replies' = Tail(replies)
  /\ UNCHANGED <<requestVars, crashed, rushed>>

\* OutputWidget::updatePart(MongoQueryInfo): among result tabs the current one is
\* updated, in the splitter the one at the index, if there is one.
UpdateFind(req) ==
  LET target == IF tabbed THEN current ELSE req.index + 1 IN
  IF ~tabbed /\ req.index >= Len(parts) THEN UNCHANGED <<parts, crashed>>
  ELSE IF target \notin DOMAIN parts THEN crashed' = TRUE /\ UNCHANGED parts
  ELSE /\ parts' = [parts EXCEPT ![target].skip = req.page.skip, ![target].docs = req.page]
       /\ UNCHANGED crashed

\* Mutant: an error is reported before the popup is hidden.
HandlePageErrorFirst ==
  /\ ~crashed /\ replies # <<>> /\ Head(replies).req.op = "find"
  /\ IF Head(replies).outcome = "error" THEN UNCHANGED <<parts, crashed, executing, popup>>
     ELSE UpdateFind(Head(replies).req) /\ executing' = FALSE /\ popup' = FALSE
  /\ replies' = Tail(replies)
  /\ answered' = NoReply
  /\ UNCHANGED <<lastQuery, requestVars, presented, tabbed, current, history, rushed>>

\* QueryWidget::handle(DocumentListLoadedEvent).
HandlePage ==
  /\ ~crashed /\ replies # <<>> /\ Head(replies).req.op = "find"
  /\ executing' = FALSE /\ popup' = FALSE
  /\ IF Head(replies).outcome = "error" THEN UNCHANGED <<parts, crashed>>
     ELSE UpdateFind(Head(replies).req)
  /\ replies' = Tail(replies)
  /\ answered' = NoReply
  /\ UNCHANGED <<lastQuery, requestVars, presented, tabbed, current, history, rushed>>

Worker == \E o \in Outcomes : Answer(o)
Ui == HandleScript \/ HandlePage
User ==
  \/ \E s \in Scripts : Execute(s)
  \/ \E i \in 1..presented :
       \/ \E k \in 0..MaxSkip : Refresh(i, k)
       \/ CloseResultTab(i)
       \/ SelectResultTab(i)

Next == Worker \/ Ui \/ User

\* The worker's and the UI's event loops take what is posted to them, and every
\* handler of the worker has deadlines.
Spec == Init /\ [][Next]_vars /\ WF_vars(Worker) /\ WF_vars(Ui)
-----------------------------------------------------------------------------
\* Every variable stays in its type.
TypeOK ==
  /\ executing \in BOOLEAN /\ popup \in BOOLEAN /\ tabbed \in BOOLEAN /\ crashed \in BOOLEAN
  /\ rushed \in BOOLEAN
  /\ lastQuery \in Scripts \cup {NoScript}
  /\ requests \in Seq(Request) /\ replies \in Seq(Reply)
  /\ parts \in Seq(Part) /\ presented \in Nat /\ current \in Nat
  /\ runs \in Nat /\ pages \in Nat
  /\ history \in Seq([query : Scripts, of : Reply])
  /\ answered \in Reply

\* OutputWidget.cpp:108-133: a page arrives in the part it was asked from, whatever
\* the tab went through while it was on its way.
PagesReachTheirPart == \A i \in DOMAIN parts : parts[i].docs.src = parts[i].src

\* OutputWidget.cpp:118-121: with one or two results, in a splitter, the page of a find
\* arrives in the part it was asked from, though other pages are on their way, as long
\* as no script overtakes them; it never meets a splitter without it.  Scripts with an
\* aggregation below a find are left out (PartsOf gives none): the page of that aggregation
\* is answered with result index 0 (MongoshEngine.cpp:499-506), the part of the find.
FindPagesReachTheirPart ==
  ~tabbed /\ ~rushed =>
    /\ ~crashed
    /\ \A i \in DOMAIN parts : parts[i].kind = "find" => parts[i].docs.src = parts[i].src

\* OutputItemContentWidget.cpp:397-414: the skip in the header of a find is where the
\* documents shown start, for the next and the previous page are computed from it.  The
\* exception is a skip put right to the query's own whose page is not there (yet).
HeaderIsOfDocuments ==
  ~rushed => \A i \in DOMAIN parts :
    parts[i].kind = "find" => parts[i].skip \in {parts[i].docs.skip, QuerySkip}

\* OutputItemContentWidget.cpp:343-347, "Cannot set skip lower than in the text query":
\* whatever skip the user asks for and in whatever order pages arrive, no find shows a
\* document the query skips.
NothingSkippedIsShown ==
  ~rushed =>
    \A i \in DOMAIN parts : parts[i].kind = "find" => parts[i].docs.skip >= QuerySkip

\* QueryWidget.cpp:308-314: a run is recorded under the text that was run, if no other
\* request was on its way with it.
HistoryIsOfItsRun ==
  ~rushed => \A i \in DOMAIN history : history[i].query = history[i].of.req.script

\* QueryWidget.cpp:320-327: "A fresh run must fall through to present() so it rebuilds
\* the view": once the reply of a user's script is handled, the parts are its.
FreshRunRebuilds ==
  ~rushed /\ answered.req.op = "script" /\ answered.req.run > 0 =>
    \A i \in DOMAIN parts : parts[i].src.run = answered.req.run

\* QueryWidget.cpp:284-301: the progress popup goes away.
ProgressEnds == popup ~> ~popup

\* As long as only pages of finds are on their way together: whatever the user closes,
\* selects and pages meanwhile, the documents of a part are those its header tells, and
\* belong to it.
PagesAreShownRight ==
  TypeOK /\ FindPagesReachTheirPart /\ HeaderIsOfDocuments /\ NothingSkippedIsShown

\* A run is recorded under its own text and its answer rebuilds the view.
RunsAreTold == HistoryIsOfItsRun /\ FreshRunRebuilds
=============================================================================
