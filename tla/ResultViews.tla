------------------------------ MODULE ResultViews ------------------------------
(***************************************************************************)
(* One part of the output area: the views of its documents                 *)
(* (gui/widgets/workarea/OutputItemContentWidget.cpp), the paging bar      *)
(* (PagingWidget.cpp, OutputItemHeaderWidget.cpp) and the thread that      *)
(* turns the documents into text (JsonPrepareThread.cpp).  A page replaces *)
(* the documents and the views, while a thread may still be at the ones    *)
(* before.                                                                 *)
(*                                                                         *)
(* Documents are their positions in the collection; which part of the      *)
(* output area a page reaches is in QueryTab.                              *)
(***************************************************************************)
EXTENDS Integers, Sequences, SequencesExt, FiniteSetsExt

CONSTANTS PageSizes,     \* how many documents the collection may have when it is read
          Skips,     \* what the user may enter as skip, and the skip of the query itself
          Batches,   \* what the user may enter as batch size
          MaxPages   \* bound on the pages asked for

ASSUME ViewsAssumption ==
  /\ PageSizes \subseteq Nat /\ Skips \subseteq Nat /\ Batches \subseteq Nat
  /\ \E b \in Batches : b > 0
  /\ MaxPages \in Nat

VARIABLES resultKind,     \* "text": a result without documents; "find"; "stats": db.c.stats()
          query,    \* _initialSkip, _initialLimit
          bar,      \* the skip and the batch size in the paging bar
          asked,    \* requests on their way to the worker and back
          page,     \* the request the documents answer
          docs,     \* _documents
          edition,  \* how often the documents have been replaced
          viewMode, \* _viewMode
          button,   \* the highlighted button of the header
          built,    \* the views that exist, by _is...ModeInitialized
          current,  \* the view on top of the stack
          text,     \* what the text view shows
          rendered, \* _isFirstPartRendered
          newest,   \* _thread, 0 for none
          threads,  \* the documents each thread has still to do and the page they are of
          posted    \* partReady signals not yet delivered

viewVars == <<resultKind, query, bar, asked, page, docs, edition, viewMode, button, built, current, text,
              rendered, newest, threads, posted>>
pagingVars == <<resultKind, query, bar, asked, page, docs, edition>>
threadVars == <<newest, threads, posted>>

Modes == {"text", "tree", "table", "custom"}

\* The views a result can be shown in.
Supported ==
  CASE resultKind = "text" -> {"text"}
    [] resultKind = "find" -> {"text", "tree", "table"}
    [] resultKind = "stats" -> Modes

DefaultBatch == Min(Batches \ {0})
LoadingText == <<<<"Loading...">>>>
NoDocuments == <<<<"// No documents returned.">>>>
Output == <<<<"output">>>>
Part(e, d) == <<"document", e, d>>

\* The documents the driver returns: MongoClient::query().
Found(q, size) ==
  LET to == IF q.limit = 0 THEN size ELSE Min({size, q.skip + q.limit}) IN
  IF q.limit = -1 THEN <<>> ELSE [i \in 1..Max({0, to - q.skip}) |-> q.skip + i]

ViewsInit ==
  /\ resultKind \in {"text", "find", "stats"}
  /\ query \in [skip : Skips, limit : {0}]   \* no result names a limit: MongoWorker.cpp:743
  /\ page = [skip |-> query.skip, limit |-> query.limit, batch |-> DefaultBatch]
  /\ IF resultKind = "find"
     THEN \E size \in PageSizes :
            docs = Found([page EXCEPT !.limit = IF @ = 0 THEN DefaultBatch
                                                 ELSE Min({@, DefaultBatch})], size)
     ELSE docs = IF resultKind = "stats" THEN <<1>> ELSE <<>>
  /\ bar = [skip |-> query.skip, batch |-> DefaultBatch]
  /\ asked = <<>> /\ edition = 1
  /\ viewMode = "none" /\ button = "none" /\ built = {} /\ current = "none"
  /\ text = IF resultKind = "text" THEN Output ELSE <<>>
  /\ rendered = FALSE /\ newest = 0 /\ threads = <<>> /\ posted = <<>>

\* A new text view of documents d: a thread prepares them.
OpenText(e, d) ==
  IF d = <<>> THEN text' = NoDocuments /\ UNCHANGED <<newest, threads>>
  ELSE /\ text' = LoadingText
       /\ threads' = Append(threads, [of |-> e, left |-> d])
       /\ newest' = Len(threads')

\* showTree(), showTable(), showCustom(): a view that is not supported gives way to the
\* next simpler one.
Downgraded(view) ==
  IF view \in Supported THEN view
  ELSE IF view = "custom" /\ "tree" \in Supported THEN "tree" ELSE "text"

\* The view of the documents d that showText() and the others put on top: it is made if
\* those that exist are not enough.
PutOnTop(view, existing, e, d) ==
  /\ button' = view /\ current' = view /\ built' = existing \cup {view}
  /\ IF view # "text" \/ view \in existing \/ resultKind = "text" THEN UNCHANGED <<text, newest, threads>>
     ELSE OpenText(e, d)

\* A button of the header, an entry of the menu, and refreshOutputItem().
ShowView(view) ==
  /\ viewMode' = view
  /\ PutOnTop(Downgraded(view), built, edition, docs)
  /\ UNCHANGED pagingVars /\ UNCHANGED <<rendered, posted>>

\* setup(): the view of the settings.
Present(view) == viewMode = "none" /\ ShowView(view)
Switch(view) == viewMode # "none" /\ view # viewMode /\ ShowView(view)

\* The limit refresh() asks for: -1 if the query's own limit leaves no document.
LimitOf(skip, batch) ==
  IF query.limit = 0 THEN batch
  ELSE LET limit == query.limit - (skip - query.skip) IN
       Min({batch, IF limit <= 0 THEN -1 ELSE limit})

\* refresh().
Refresh(skip, batch) ==
  /\ resultKind = "find" /\ viewMode # "none" /\ edition + Len(asked) <= MaxPages
  /\ LET from == Max({skip, query.skip}) IN
       /\ bar' = [bar EXCEPT !.skip = IF skip < query.skip THEN query.skip ELSE @]
       /\ asked' = Append(asked, [skip |-> from, limit |-> LimitOf(from, batch), batch |-> batch])
  /\ UNCHANGED <<resultKind, query, page, docs, edition, viewMode, button, built, current, text, rendered>>
  /\ UNCHANGED threadVars

\* The arrows of the paging bar, Enter in one of its fields.
PageLeft == Refresh(Max({bar.skip - bar.batch, 0}), bar.batch)
PageRight == Refresh(bar.skip + bar.batch, bar.batch)
EnterPage == Refresh(bar.skip, bar.batch)

EditBar(skip, batch) ==
  /\ resultKind = "find" /\ viewMode # "none" /\ asked = <<>>
  /\ bar = [skip |-> page.skip, batch |-> page.batch]
  /\ bar' = [skip |-> skip, batch |-> batch]
  /\ UNCHANGED <<resultKind, query, asked, page, docs, edition, viewMode, button, built, current, text, rendered>>
  /\ UNCHANGED threadVars

\* The answer: update(), then refreshOutputItem() in the view of the moment.
Update ==
  /\ asked # <<>> /\ asked' = Tail(asked)
  /\ page' = Head(asked)
  /\ \E size \in PageSizes : docs' = Found(Head(asked), size)
  /\ edition' = edition + 1
  /\ bar' = [skip |-> page'.skip, batch |-> IF page'.batch > 0 THEN page'.batch ELSE DefaultBatch]
  /\ rendered' = FALSE
  /\ PutOnTop(Downgraded(viewMode), {}, edition', docs')
  /\ UNCHANGED <<resultKind, query, viewMode, posted>>

\* run() of a thread: one document.
Prepare(t) ==
  /\ t \in DOMAIN threads /\ threads[t].left # <<>>
  /\ posted' = Append(posted, [thread |-> t, part |-> Part(threads[t].of, Head(threads[t].left))])
  /\ threads' = [threads EXCEPT ![t].left = Tail(@)]
  /\ UNCHANGED pagingVars /\ UNCHANGED <<viewMode, button, built, current, text, rendered, newest>>

\* Mutant: whatever thread it comes from.
IsOfAnyone(signal) == TRUE

\* The check of sender() in jsonPartReady().
IsOfNewest(signal) == signal.thread = newest

\* stop() and wait(): _stop is not synchronised, and the thread may be past its last check.
Stop(t) == threads' = [threads EXCEPT ![t].left = <<>>]

\* jsonPartReady().
JsonPartReady ==
  /\ posted # <<>>
  /\ LET signal == Head(posted)
         t == signal.thread IN
       IF IsOfNewest(signal)
       THEN /\ posted' = Tail(posted) /\ threads' = threads
            /\ IF "text" \in built
               THEN text' = (IF rendered THEN text ELSE <<>>) \o <<signal.part>> /\ rendered' = TRUE
               ELSE UNCHANGED <<text, rendered>>
       ELSE /\ Stop(t)
            /\ \/ posted' = Tail(posted)
               \/ /\ threads[t].left # <<>>
                  /\ posted' = Append(Tail(posted), [thread |-> t,
                                          part |-> Part(threads[t].of, Head(threads[t].left))])
            /\ UNCHANGED <<text, rendered>>
  /\ UNCHANGED pagingVars /\ UNCHANGED <<viewMode, button, built, current, newest>>

ViewsUser ==
  \/ \E view \in Modes : Present(view) \/ Switch(view)
  \/ PageLeft \/ PageRight \/ EnterPage
  \/ \E skip \in Skips, batch \in Batches : EditBar(skip, batch)

Preparing == \E t \in DOMAIN threads : Prepare(t)

ViewsNext == ViewsUser \/ Update \/ Preparing \/ JsonPartReady

ViewsSpec ==
  ViewsInit /\ [][ViewsNext]_viewVars /\ WF_viewVars(Preparing) /\ WF_viewVars(JsonPartReady)
-----------------------------------------------------------------------------
PartsOf(e, d) == [i \in 1..Len(d) |-> Part(e, d[i])]

\* Every variable stays in its type; the view on top is one that exists, and its button is
\* the highlighted one.
ViewsTypeOK ==
  /\ viewMode \in Modes \cup {"none"} /\ built \subseteq Modes
  /\ ("custom" \in built => resultKind = "stats") /\ (resultKind = "text" => built \subseteq {"text"})
  /\ (viewMode # "none" => current \in built /\ button = current)
  /\ bar.skip \in Nat /\ bar.batch \in Batches \cup {DefaultBatch}
  /\ edition \in 1 .. MaxPages + 1 /\ newest \in 0..Len(threads)
  /\ rendered \in BOOLEAN
  /\ \A i \in DOMAIN posted : posted[i].thread \in DOMAIN threads

\* OutputItemContentWidget.cpp:568-589: however pages and views are changed while threads
\* are at work, a text view of documents shows the first of them, in order and each once.
\* (A view of no documents may show those of the page before: _thread is not forgotten.)
TextIsOfThePage ==
  "text" \in built /\ docs # <<>> =>
    text = LoadingText \/ IsPrefix(text, PartsOf(edition, docs))

\* ... and all of them in the end.
TextIsPartial == "text" \in built /\ docs # <<>> /\ asked = <<>> /\ text # PartsOf(edition, docs)

\* The views of a part show its page, however late the preparing threads are.
ViewsAreSound == ViewsTypeOK /\ TextIsOfThePage
=============================================================================
