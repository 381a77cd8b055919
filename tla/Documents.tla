------------------------------- MODULE Documents -------------------------------
(***************************************************************************)
(* Deleting, editing and inserting documents from the results              *)
(* (core/domain/Notifier.cpp, gui/dialogs/DocumentTextEditor.cpp).  Each   *)
(* view of a result has a Notifier, which every answer of the server       *)
(* reaches, and which then reads its own query again.  Dialogs run event   *)
(* loops of their own, so answers are handled while one is open.           *)
(*                                                                         *)
(* Every part of a tab is a tree or a table of documents of one            *)
(* collection; the views as text have no Notifier and are left out, and so *)
(* are message boxes and replica sets.                                     *)
(***************************************************************************)
EXTENDS Integers, Sequences, SequencesExt, FiniteSetsExt

CONSTANTS Views,     \* the parts of the output areas of the tabs of one server
          First,     \* the first part of them in one tab
          Tables,    \* those shown as tables
          DocIds,       \* values of _id
          MaxDialogs \* bound on the dialogs the user opens

ASSUME DocumentsAssumption ==
  /\ First \in Views /\ Tables \subseteq Views /\ MaxDialogs \in Nat
  /\ IsFiniteSet(Views) /\ IsFiniteSet(DocIds)

VARIABLES first,    \* the first part of the tab of each view, standing for the tab
          coll,     \* the collection of the query of each view, named for one of the views
          held,   \* what each collection holds
          viewed,    \* the documents a view shows and the view whose query found them
          docRequests, \* to the worker, in order
          docAnswers,  \* of the worker, in order
          dialog,   \* the dialog that is open
          opened,   \* dialogs so far
          front,    \* the tab in front
          waiting, \* tabs with a progress display
          policy,   \* what needs a confirmation: "none", "many", "all"
          spoiled,  \* something failed, or an emptied document was saved
          crashed   \* a view was deleted under its own dialog

docVars == <<first, coll, held, viewed, docRequests, docAnswers, dialog, opened, front, waiting,
             policy, spoiled, crashed>>
fixedVars == <<first, coll>>
serverVars == <<held, viewed, docRequests, docAnswers>>

NoDialog == [step |-> "none"]
Deletes == {"deleteOne", "deleteMany"}

DocumentsInit ==
  /\ first \in {[v \in Views |-> v], [v \in Views |-> First]}
  /\ coll \in [Views -> Views] /\ coll[First] = First
  /\ held = [c \in Views |-> DocIds]
  /\ viewed = [v \in Views |-> [of |-> v, ids |-> DocIds]]
  /\ docRequests = <<>> /\ docAnswers = <<>> /\ dialog = NoDialog /\ opened = 0
  /\ front \in {first[v] : v \in Views} /\ waiting = {}
  /\ policy \in {"many", "all"} /\ spoiled = FALSE /\ crashed = FALSE

\* The user is at a view: its tab is in front and no dialog is open.  The menu of a tree
\* waits for the progress display, its Delete key and a table do not.
IsAt(v) == ~crashed /\ dialog = NoDialog /\ first[v] = front
HasMenu(v) == v \in Tables \/ first[v] \notin waiting

SwitchTab(v) ==
  /\ ~crashed /\ dialog = NoDialog /\ first[v] # front
  /\ front' = first[v]
  /\ UNCHANGED fixedVars /\ UNCHANGED serverVars
  /\ UNCHANGED <<dialog, opened, waiting, policy, spoiled, crashed>>

\* confirmGuardedWrite(): one document is asked about only if the user wants that.
Asks(does) == policy = "all" \/ (policy = "many" /\ does = "deleteMany")

\* Behind the guard, if there is one.
Guarded(d) == IF Asks(d.does) THEN [d EXCEPT !.step = "guard"] ELSE [d EXCEPT !.step = "send"]

Request(op, d, id, index) ==
  [op |-> op, does |-> d.does, coll |-> coll[d.view], id |-> id, index |-> index,
   asked |-> d.asked, of |-> coll[d.of]]

\* deleteDocuments(), saveDocuments(), and the loop of onInsertDocument().
Writes(d) ==
  LET ids == SetToSeq(ToSet(d.ids)) IN
  IF d.does \in Deletes
  THEN [i \in DOMAIN ids |-> Request("remove", d, ids[i], i - 1)]
  ELSE [i \in DOMAIN d.ids |-> Request(IF d.does = "edit" THEN "save" ELSE "insert", d, d.ids[i], 0)]

\* The progress display is shown for an edit even if there is nothing to save.
Sent(d) ==
  /\ dialog' = NoDialog
  /\ docRequests' = docRequests \o Writes(d)
  /\ waiting' = IF d.does = "edit" \/ d.ids # <<>> THEN waiting \cup {front} ELSE waiting
  /\ spoiled' = (spoiled \/ d.ids = <<>>)

\* The next dialog, or the end of the last.
GoOn(d) ==
  IF d.step = "send" THEN Sent(d)
  ELSE dialog' = d /\ UNCHANGED <<docRequests, waiting, spoiled>>

OpenDialog(v, does, ids, step) ==
  /\ opened < MaxDialogs /\ opened' = opened + 1
  /\ dialog' = [step |-> step, does |-> does, view |-> v, of |-> viewed[v].of, ids |-> ids,
                asked |-> FALSE, modified |-> FALSE, valid |-> TRUE]
  /\ UNCHANGED fixedVars /\ UNCHANGED serverVars
  /\ UNCHANGED <<front, waiting, policy, spoiled, crashed>>

\* onDeleteDocument(): the guard comes first, then the question.
DeleteDocument(v, id) ==
  /\ IsAt(v) /\ id \in viewed[v].ids
  /\ v \in Tables => HasMenu(v)
  /\ OpenDialog(v, "deleteOne", <<id>>, IF Asks("deleteOne") THEN "guard" ELSE "question")

\* onDeleteDocuments(): the question comes first, then the guard.
DeleteDocuments(v, ids) ==
  /\ IsAt(v) /\ ids \subseteq viewed[v].ids /\ Cardinality(ids) > 1
  /\ OpenDialog(v, "deleteMany", SetToSeq(ids), "question")

EditDocument(v, id) ==
  /\ IsAt(v) /\ HasMenu(v) /\ id \in viewed[v].ids
  /\ OpenDialog(v, "edit", <<id>>, "editor")

InsertDocument(v) ==
  /\ IsAt(v) /\ HasMenu(v)
  /\ OpenDialog(v, "insert", <<>>, "editor")

\* Any dialog that is closed without a go-ahead.
Abandoned ==
  /\ dialog' = NoDialog
  /\ UNCHANGED fixedVars /\ UNCHANGED serverVars
  /\ UNCHANGED <<opened, front, waiting, policy, spoiled, crashed>>

\* The guard; the user may switch it off for good.
Proceed(never) ==
  /\ ~crashed /\ dialog.step = "guard"
  /\ policy' = IF never THEN "none" ELSE policy
  /\ GoOn([dialog EXCEPT !.asked = TRUE, !.step = IF dialog.does = "deleteOne" THEN "question" ELSE "send"])
  /\ UNCHANGED fixedVars /\ UNCHANGED <<held, viewed, docAnswers, opened, front, crashed>>

Agree ==
  /\ ~crashed /\ dialog.step = "question"
  /\ GoOn(IF dialog.does = "deleteOne" THEN [dialog EXCEPT !.step = "send"] ELSE Guarded(dialog))
  /\ UNCHANGED fixedVars /\ UNCHANGED <<held, viewed, docAnswers, opened, front, policy, crashed>>

Refuse == ~crashed /\ dialog.step \in {"guard", "question"} /\ Abandoned

\* The text becomes some documents, or nothing that parses.
TypeText(ids, valid) ==
  /\ ~crashed /\ dialog.step = "editor"
  /\ dialog' = [dialog EXCEPT !.ids = ids, !.valid = valid, !.modified = TRUE]
  /\ UNCHANGED fixedVars /\ UNCHANGED serverVars
  /\ UNCHANGED <<opened, front, waiting, policy, spoiled, crashed>>

\* accept(), from the editor or from the question of reject(): text that does not parse
\* leaves it open.
SaveEditor ==
  /\ ~crashed /\ dialog.step \in {"editor", "unsaved"}
  /\ GoOn(IF ~dialog.valid THEN [dialog EXCEPT !.step = "editor"]
          ELSE IF dialog.does = "edit" THEN Guarded(dialog) ELSE [dialog EXCEPT !.step = "send"])
  /\ UNCHANGED fixedVars /\ UNCHANGED <<held, viewed, docAnswers, opened, front, policy, crashed>>

\* reject().
Cancel ==
  /\ ~crashed /\ dialog.step = "editor"
  /\ IF dialog.modified
     THEN /\ dialog' = [dialog EXCEPT !.step = "unsaved"]
          /\ UNCHANGED fixedVars /\ UNCHANGED serverVars
          /\ UNCHANGED <<opened, front, waiting, policy, spoiled, crashed>>
     ELSE Abandoned

StayInEditor ==
  /\ ~crashed /\ dialog.step = "unsaved"
  /\ dialog' = [dialog EXCEPT !.step = "editor"]
  /\ UNCHANGED fixedVars /\ UNCHANGED serverVars
  /\ UNCHANGED <<opened, front, waiting, policy, spoiled, crashed>>

\* Discard; and closeEvent(), which asks nothing.
CloseEditor == ~crashed /\ dialog.step \in {"editor", "unsaved"} /\ Abandoned
-----------------------------------------------------------------------------
\* What a write leaves in its collection; saveDocument() inserts what is not there.
WrittenBack(r) == IF r.op = "remove" THEN held[r.coll] \ {r.id} ELSE held[r.coll] \cup {r.id}

\* MongoWorker's handlers; an insertion of an _id that exists fails.  One other failure is
\* enough to spoil a behaviour.
WorkOnDocs ==
  /\ ~crashed /\ docRequests # <<>> /\ docRequests' = Tail(docRequests)
  /\ LET r == Head(docRequests) IN
       \E ok \in BOOLEAN :
         /\ IF r.op = "insert" /\ r.id \in held[r.coll] THEN ~ok ELSE ok \/ ~spoiled
         /\ spoiled' = (spoiled \/ ~ok)
         /\ docAnswers' = Append(docAnswers, [request |-> r, ok |-> ok,
                                        found |-> IF r.op = "query" THEN held[coll[r.view]] ELSE {}])
         /\ held' = IF ok /\ r.op # "query" THEN [held EXCEPT ![r.coll] = WrittenBack(r)] ELSE held
  /\ UNCHANGED fixedVars
  /\ UNCHANGED <<viewed, dialog, opened, front, waiting, policy, crashed>>

\* Mutant: only one view of the server hears of it.
OneListener == {First}

\* The Notifiers subscribed to the server.
Listeners == Views

\* MongoShell::query(0, ...).
QueryOf(v) == [op |-> "query", view |-> v, into |-> first[v]]

\* OutputWidget::present(): a tab of more than two parts shows one of them at a time, which
\* the user selects while no dialog is open.
Tabbed(t) == Cardinality({v \in Views : first[v] = t}) > 2
MayShow(t, v) == first[v] = t /\ (dialog # NoDialog /\ first[dialog.view] = t => v = dialog.view)

\* OutputWidget::updatePart(): the part of the tab with the index asked, or the one it shows.
Into(q) == IF Tabbed(q.into) THEN {v \in Views : MayShow(q.into, v)} ELSE {q.into}

\* hideProgress() of the tab of the query.
ProgressLeft(q) == waiting \ {q.into}

\* update(): the views of the part are deleted, and a dialog of theirs with them.
HandleQuery(a) ==
  /\ waiting' = ProgressLeft(a.request)
  /\ IF a.ok
     THEN \E v \in Into(a.request) :
            /\ viewed' = [viewed EXCEPT ![v] = [of |-> a.request.view, ids |-> a.found]]
            /\ crashed' = (dialog # NoDialog /\ dialog.view = v)
     ELSE UNCHANGED <<viewed, crashed>>
  /\ UNCHANGED docRequests

\* handle(InsertDocumentResponse), handle(RemoveDocumentResponse) of MongoServer, then of
\* every Notifier, in the order they subscribed: of several deletions only the first counts.
HandleWrite(a) ==
  /\ IF a.request.index > 0 THEN UNCHANGED <<docRequests, waiting>>
     ELSE IF a.ok
     THEN /\ \E order \in SetToSeqs(Listeners) :
               docRequests' = docRequests \o [i \in DOMAIN order |-> QueryOf(order[i])]
          /\ waiting' = waiting
     ELSE waiting' = waiting \ {front} /\ docRequests' = docRequests
  /\ UNCHANGED <<viewed, crashed>>

DeliverDocs ==
  /\ ~crashed /\ docAnswers # <<>> /\ docAnswers' = Tail(docAnswers)
  /\ LET a == Head(docAnswers) IN
       IF a.request.op = "query" THEN HandleQuery(a) ELSE HandleWrite(a)
  /\ UNCHANGED fixedVars /\ UNCHANGED <<held, dialog, opened, front, policy, spoiled>>

DocumentsUser ==
  \/ \E v \in Views :
       \/ SwitchTab(v)
       \/ \E id \in DocIds : DeleteDocument(v, id) \/ EditDocument(v, id)
       \/ \E ids \in SUBSET DocIds : DeleteDocuments(v, ids)
       \/ InsertDocument(v)
  \/ \E never \in BOOLEAN : Proceed(never)
  \/ Agree \/ Refuse
  \/ \E ids \in {<<>>} \cup {<<id>> : id \in DocIds}, valid \in BOOLEAN :
       (valid \/ ids = <<>>) /\ TypeText(ids, valid)
  \/ SaveEditor \/ Cancel \/ StayInEditor \/ CloseEditor

DocumentsNext == DocumentsUser \/ WorkOnDocs \/ DeliverDocs

DocumentsSpec == DocumentsInit /\ [][DocumentsNext]_docVars
-----------------------------------------------------------------------------
\* Every variable stays in its type; only the first of one or two parts, or a result tab, can
\* be one that shows what another has found.
DocumentsTypeOK ==
  /\ held \in [Views -> SUBSET DocIds] /\ opened \in 0..MaxDialogs
  /\ \A v \in Views : viewed[v].ids \subseteq DocIds /\ first[viewed[v].of] = first[v]
  /\ \A v \in Views : viewed[v].of # v => first[v] = v \/ Tabbed(first[v])
  /\ dialog.step \in {"none", "guard", "question", "editor", "unsaved"}
  /\ waiting \subseteq Views /\ front \in Views
  /\ spoiled \in BOOLEAN /\ crashed \in BOOLEAN

\* Notifier.cpp:229-288, MongoServer.cpp:273-276: unless something fails, the first of the one
\* or two parts of a tab shows no document that was deleted, once all answers are in: the
\* answer to the first of several deletions is enough to read them all.  (Of more parts, only
\* the one shown at the moment is updated.)
DeletedAreGone ==
  docRequests = <<>> /\ docAnswers = <<>> /\ ~spoiled =>
    \A v \in Views : first[v] = v /\ ~Tabbed(v) => viewed[v].ids \subseteq held[coll[viewed[v].of]]

\* Notifier.cpp:189-199, 411-420: no deletion and no change of a document is sent without
\* the confirmation that the settings ask for.
GuardedAreAsked ==
  [][\A i \in DOMAIN docRequests' :
       i > Len(docRequests) /\ docRequests'[i].op \in {"remove", "save"} /\ Asks(docRequests'[i].does) =>
         docRequests'[i].asked]_docVars

\* Notifier.cpp:229-233, 421: a document is deleted from, and saved to, the collection it is
\* shown from.
\* (The program does not keep this: README.)
WritesReachTheirCollection ==
  \A i \in DOMAIN docRequests :
    docRequests[i].op \in {"remove", "save"} => docRequests[i].coll = docRequests[i].of

\* The same, where every tab has one part.
WritesReachCollectionOfPart == (\A v \in Views : first[v] = v) => WritesReachTheirCollection

\* Notifier.cpp:232, 422, QueryWidget.cpp:284-297: once all answers are in, no tab shows the
\* progress display, unless something failed or an emptied document was saved.
ProgressEnds ==
  docRequests = <<>> /\ docAnswers = <<>> => waiting = {} \/ spoiled \/ crashed

\* BsonTreeView.cpp:51-53: no view is deleted while a dialog it has opened is open.
\* (The program does not keep this: README.)
DialogsKeepTheirView == ~crashed

\* Writes go to the collection of their part, and what they delete is gone from the views.
DocumentsAreSound ==
  DocumentsTypeOK /\ DeletedAreGone /\ WritesReachCollectionOfPart /\ ProgressEnds
=============================================================================
