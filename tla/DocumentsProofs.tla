--------------------------- MODULE DocumentsProofs ---------------------------
(***************************************************************************)
(* Documents, their views, and the bus that brings them.                   *)
(*                                                                         *)
(* Deleting, editing and inserting documents: unless something fails, what *)
(* is deleted is gone from the views once all answers are in, and no tab   *)
(* is left with a progress display; no deletion or change is sent without  *)
(* the confirmation the settings ask for.  The argument is that a write    *)
(* whose answer makes every view read its query again stays ahead of the   *)
(* views that are out of date until the queries are on their way.          *)
(*                                                                         *)
(* The event bus: handlers run at home because dispatchers are found by    *)
(* the address of a thread, which is also what Home compares, and because  *)
(* an event waits in the queue of its receivers' thread.  A subscriber is  *)
(* alive only if unsubscibe() does all of it: a new object at the address  *)
(* has another inc.                                                        *)
(*                                                                         *)
(* The views of a result: the text view has the first documents of its     *)
(* page, the signals on their way count the next ones one by one, and the  *)
(* newest thread has the rest; those of older threads are not looked at.   *)
(***************************************************************************)
EXTENDS EventBus, Documents, ResultViews, SequenceLemmas

\* A request of a write, of a query of a part.
Write == [op : {"remove", "save", "insert"}, does : Deletes \cup {"edit", "insert"}, coll : Views,
          id : DocIds, index : Nat, asked : BOOLEAN, of : Views]
Query == [op : {"query"}, view : Views, into : Views]
Ask == Write \cup Query
Answer == [request : Ask, ok : BOOLEAN, found : SUBSET DocIds]

OnePart == \A v \in Views : first[v] = v

RequestOK(r) ==
  \/ r \in Write /\ (OnePart => r.coll = r.of)
  \/ r \in Query /\ r.into = first[r.view]

\* A dialog at one of the steps.
Dialog(steps) ==
  [step : steps, does : Deletes \cup {"edit", "insert"}, view : Views, of : Views,
   ids : Seq(DocIds), asked : BOOLEAN, modified : BOOLEAN, valid : BOOLEAN]

\* What a dialog says and sends is about the tab it was opened in.
OfItsTab(d) == first[d.of] = first[d.view]

\* The guard of a single deletion comes before its question.
QuestionIsGuarded(d) ==
  /\ d.does \in Deletes
  /\ d.does = "deleteOne" /\ Asks("deleteOne") => d.asked

DialogOK ==
  \/ dialog = NoDialog
  \/ /\ dialog \in Dialog({"guard", "question", "editor", "unsaved"}) /\ OfItsTab(dialog)
     /\ dialog.step = "guard" => dialog.does # "insert"
     /\ dialog.step = "question" => QuestionIsGuarded(dialog)
     /\ dialog.step \in {"editor", "unsaved"} => dialog.does \in {"edit", "insert"}

\* A write whose answer makes every view read its query again.
IsHead(r) == r.op # "query" /\ r.index = 0
HeadPending ==
  \/ \E i \in DOMAIN docRequests : IsHead(docRequests[i])
  \/ \E i \in DOMAIN docAnswers : IsHead(docAnswers[i].request)

Reads(r, v) == r.op = "query" /\ r.into = v
ReadQueued(v) == \E i \in DOMAIN docRequests : Reads(docRequests[i], v)
ReadAnswered(v) == \E i \in DOMAIN docAnswers : Reads(docAnswers[i].request, v)

\* The answers to all but the first of several deletions are ignored: while one of them is
\* still to be done, the first is still to be heard of, or every view reads after it.
TailsAreFollowed ==
  ~spoiled =>
    \A p \in DOMAIN docRequests :
      docRequests[p].op # "query" /\ docRequests[p].index > 0 =>
        \/ HeadPending
        \/ \A v \in Views : \E q \in DOMAIN docRequests : q > p /\ Reads(docRequests[q], first[v])

\* The last answer on its way to a part.
LastRead(i, v) ==
  /\ Reads(docAnswers[i].request, v)
  /\ \A j \in DOMAIN docAnswers : j > i => ~Reads(docAnswers[j].request, v)

\* What an answer has found is there.
FoundIsHeld(a) == a.found \subseteq held[coll[a.request.view]]
ShownIsHeld(v) == viewed[v].ids \subseteq held[coll[viewed[v].of]]

\* A part shows what is there, or will after the last of the answers on their way, unless
\* it is going to be read again.
ComesTrue(v) ==
  \/ HeadPending
  \/ ReadQueued(v)
  \/ \E i \in DOMAIN docAnswers : LastRead(i, v) /\ FoundIsHeld(docAnswers[i])
  \/ ~ReadAnswered(v) /\ ShownIsHeld(v)

\* The page of a result tab goes to the part shown when it comes, of which nothing is said.
ViewsComeTrue == ~spoiled => \A v \in Views : first[v] = v /\ ~Tabbed(v) => ComesTrue(v)

\* A progress display is there for an answer on its way.
WaitingIsFor ==
  \A t \in waiting : spoiled \/ crashed \/ HeadPending \/ ReadQueued(t) \/ ReadAnswered(t)

TabsOK ==
  /\ first \in [Views -> Views] /\ \A v \in Views : first[first[v]] = first[v]
  /\ coll \in [Views -> Views]
  /\ front \in Views /\ first[front] = front
  /\ waiting \subseteq {v \in Views : first[v] = v}
  /\ opened \in 0..MaxDialogs /\ spoiled \in BOOLEAN /\ crashed \in BOOLEAN

ViewsOK ==
  /\ held \in [Views -> SUBSET DocIds]
  /\ viewed \in [Views -> [of : Views, ids : SUBSET DocIds]]
  /\ \A v \in Views : first[viewed[v].of] = first[v] /\ (viewed[v].of # v => first[v] = v \/ Tabbed(first[v]))

QueuesOK ==
  /\ docRequests \in Seq(Ask) /\ \A i \in DOMAIN docRequests : RequestOK(docRequests[i])
  /\ docAnswers \in Seq(Answer)
  /\ \A i \in DOMAIN docAnswers : RequestOK(docAnswers[i].request) /\ (~spoiled => docAnswers[i].ok)

\* The first of several deletions, and every other write, is followed by queries of all
\* views; until they are answered a view may show what is gone.  That the answers to the
\* other deletions are ignored is made up for by the order of the requests.
DocumentsKept ==
  TabsOK /\ ViewsOK /\ QueuesOK /\ DialogOK /\ TailsAreFollowed /\ ViewsComeTrue /\ WaitingIsFor

-----------------------------------------------------------------------------
\* The invariant says what was meant.
LEMMA KeptIsSound ==
  ASSUME DocumentsKept
  PROVE  DocumentsAreSound
<1>1. DocumentsTypeOK
  <2>1. dialog.step \in {"none", "guard", "question", "editor", "unsaved"}
    BY DEF DocumentsKept, DialogOK, Dialog, NoDialog
  <2>2. held \in [Views -> SUBSET DocIds] /\ opened \in 0..MaxDialogs
        /\ waiting \subseteq Views /\ front \in Views /\ spoiled \in BOOLEAN /\ crashed \in BOOLEAN
    BY DEF DocumentsKept, TabsOK, ViewsOK
  <2>3. /\ \A v \in Views : viewed[v].ids \subseteq DocIds /\ first[viewed[v].of] = first[v]
        /\ \A v \in Views : viewed[v].of # v => first[v] = v \/ Tabbed(first[v])
    BY DEF DocumentsKept, ViewsOK
  <2> QED
    BY <2>1, <2>2, <2>3 DEF DocumentsTypeOK
<1>2. DOMAIN <<>> = {}
  OBVIOUS
<1>3. ASSUME docRequests = <<>>, docAnswers = <<>>
      PROVE  /\ ~HeadPending
             /\ \A v : ~ReadQueued(v) /\ ~ReadAnswered(v)
             /\ \A v : ComesTrue(v) => ShownIsHeld(v)
  BY <1>2, <1>3 DEF HeadPending, ReadQueued, ReadAnswered, ComesTrue
<1>4. DeletedAreGone
  BY <1>3, Zenon DEF DocumentsKept, ViewsComeTrue, DeletedAreGone, ShownIsHeld
<1>5. ProgressEnds
  <2> SUFFICES ASSUME docRequests = <<>>, docAnswers = <<>>, ~spoiled, ~crashed, NEW t \in waiting
               PROVE  FALSE
    BY DEF ProgressEnds
  <2> QED
    BY <1>3, Zenon DEF DocumentsKept, WaitingIsFor
<1>6. WritesReachCollectionOfPart
  <2> SUFFICES ASSUME OnePart, NEW i \in DOMAIN docRequests, docRequests[i].op \in {"remove", "save"}
               PROVE  docRequests[i].coll = docRequests[i].of
    BY DEF WritesReachCollectionOfPart, WritesReachTheirCollection, OnePart
  <2>1. RequestOK(docRequests[i])
    BY DEF DocumentsKept, QueuesOK
  <2>2. docRequests[i] \notin Query
    BY DEF Query
  <2> QED
    BY <2>1, <2>2 DEF RequestOK
<1> QED
  BY <1>1, <1>4, <1>5, <1>6 DEF DocumentsAreSound

LEMMA InitKeeps ==
  ASSUME DocumentsInit
  PROVE  DocumentsKept
<1>1. First \in Views /\ MaxDialogs \in Nat
  BY DocumentsAssumption
<1>2. DOMAIN <<>> = {} /\ <<>> \in Seq(Ask) /\ <<>> \in Seq(Answer)
  OBVIOUS
<1>3. first \in [Views -> Views] /\ \A v \in Views : first[first[v]] = first[v]
  <2>1. CASE first = [v \in Views |-> v]
    BY <2>1
  <2>2. CASE first = [v \in Views |-> First]
    BY <1>1, <2>2
  <2> QED
    BY <2>1, <2>2 DEF DocumentsInit
<1>4. front \in Views /\ first[front] = front
  BY <1>3 DEF DocumentsInit
<1>5. TabsOK
  <2>1. opened \in 0..MaxDialogs
    BY <1>1 DEF DocumentsInit
  <2>2. spoiled \in BOOLEAN /\ crashed \in BOOLEAN
    BY DEF DocumentsInit
  <2>3. coll \in [Views -> Views] /\ waiting = {}
    BY DEF DocumentsInit
  <2> QED
    BY <1>3, <1>4, <2>1, <2>2, <2>3 DEF TabsOK
<1>6. ViewsOK
  BY DEF DocumentsInit, ViewsOK
<1>7. QueuesOK
  BY <1>2 DEF DocumentsInit, QueuesOK
<1>8. DialogOK
  BY DEF DocumentsInit, DialogOK
<1>9. TailsAreFollowed /\ WaitingIsFor
  BY <1>2 DEF DocumentsInit, TailsAreFollowed, WaitingIsFor
<1>10. ViewsComeTrue
  BY <1>2, <1>3 DEF DocumentsInit, ViewsComeTrue, Tabbed, ComesTrue, ReadAnswered, ShownIsHeld
<1> QED
  BY <1>5, <1>6, <1>7, <1>8, <1>9, <1>10 DEF DocumentsKept

-----------------------------------------------------------------------------
\* The dialogs.

\* A step that changes neither queues, views nor progress displays.
LEMMA DialogKeeps ==
  ASSUME DocumentsKept, UNCHANGED fixedVars, UNCHANGED serverVars,
         waiting' = waiting, spoiled' = spoiled, crashed' = crashed,
         front' \in Views, first[front'] = front', opened' \in 0..MaxDialogs, DialogOK'
  PROVE  DocumentsKept'
<1>1. /\ first' = first /\ coll' = coll /\ held' = held /\ viewed' = viewed
      /\ docRequests' = docRequests /\ docAnswers' = docAnswers
  BY DEF fixedVars, serverVars
<1>2. TabsOK'
  BY <1>1, Zenon DEF DocumentsKept, TabsOK
<1>3. ViewsOK'
  BY <1>1 DEF DocumentsKept, ViewsOK, Tabbed
<1>4. QueuesOK'
  BY <1>1, Zenon DEF DocumentsKept, QueuesOK, RequestOK, OnePart
<1>5. HeadPending' = HeadPending /\ \A v : ReadQueued(v)' = ReadQueued(v) /\ ReadAnswered(v)' = ReadAnswered(v)
  BY <1>1, Zenon DEF HeadPending, ReadQueued, ReadAnswered
<1>6. TailsAreFollowed'
  BY <1>1, <1>5, Zenon DEF DocumentsKept, TailsAreFollowed
<1>7. ViewsComeTrue'
  BY <1>1, <1>5, Zenon DEF DocumentsKept, ViewsComeTrue, Tabbed, ComesTrue, LastRead, FoundIsHeld, ShownIsHeld
<1>8. WaitingIsFor'
  BY <1>1, <1>5, Zenon DEF DocumentsKept, WaitingIsFor
<1> QED
  BY <1>2, <1>3, <1>4, <1>6, <1>7, <1>8 DEF DocumentsKept

\* A dialog that is closed.
LEMMA AbandonedKeeps ==
  ASSUME DocumentsKept, Abandoned
  PROVE  DocumentsKept'
<1>1. /\ dialog' = NoDialog /\ UNCHANGED fixedVars /\ UNCHANGED serverVars
      /\ UNCHANGED <<opened, front, waiting, policy, spoiled, crashed>>
  BY DEF Abandoned
<1>2. DialogOK'
  BY <1>1 DEF DialogOK, NoDialog
<1>3. front' \in Views /\ first[front'] = front' /\ opened' \in 0..MaxDialogs
  BY <1>1 DEF DocumentsKept, TabsOK
<1> QED
  BY <1>1, <1>2, <1>3, DialogKeeps

\* A dialog that another takes the place of.
LEMMA NextDialogKeeps ==
  ASSUME DocumentsKept, UNCHANGED fixedVars, UNCHANGED serverVars, UNCHANGED <<waiting, spoiled, crashed>>,
         UNCHANGED <<opened, front>>, DialogOK'
  PROVE  DocumentsKept'
<1>1. front' \in Views /\ first[front'] = front' /\ opened' \in 0..MaxDialogs
  BY DEF DocumentsKept, TabsOK
<1> QED
  BY <1>1, DialogKeeps

LEMMA SwitchTabKeeps ==
  ASSUME DocumentsKept, NEW v \in Views, SwitchTab(v)
  PROVE  DocumentsKept'
<1>1. /\ front' = first[v] /\ UNCHANGED fixedVars /\ UNCHANGED serverVars
      /\ UNCHANGED <<dialog, opened, waiting, policy, spoiled, crashed>>
  BY DEF SwitchTab
<1>2. DialogOK'
  BY <1>1 DEF DocumentsKept, DialogOK, OfItsTab, QuestionIsGuarded, Asks, fixedVars
<1>3. front' \in Views /\ first[front'] = front' /\ opened' \in 0..MaxDialogs
  BY <1>1 DEF DocumentsKept, TabsOK
<1> QED
  BY <1>1, <1>2, <1>3, DialogKeeps

\* A dialog that is opened.
LEMMA OpenDialogKeeps ==
  ASSUME DocumentsKept, NEW v \in Views, NEW does \in Deletes \cup {"edit", "insert"},
         NEW ids \in Seq(DocIds), NEW step \in {"guard", "question", "editor"},
         step \in {"guard", "question"} => does \in Deletes,
         step = "editor" => does \in {"edit", "insert"},
         step = "question" /\ does = "deleteOne" => ~Asks("deleteOne"),
         OpenDialog(v, does, ids, step)
  PROVE  DocumentsKept'
<1>1. PICK d : d = [step |-> step, does |-> does, view |-> v, of |-> viewed[v].of, ids |-> ids,
                    asked |-> FALSE, modified |-> FALSE, valid |-> TRUE]
  OBVIOUS
<1>2. /\ opened < MaxDialogs /\ opened' = opened + 1 /\ dialog' = d
      /\ UNCHANGED fixedVars /\ UNCHANGED serverVars
      /\ UNCHANGED <<front, waiting, policy, spoiled, crashed>>
  BY <1>1 DEF OpenDialog
<1>3. viewed[v].of \in Views /\ first[viewed[v].of] = first[v]
  BY DEF DocumentsKept, ViewsOK
<1>4. d \in Dialog({"guard", "question", "editor", "unsaved"})
  BY <1>1, <1>3 DEF Dialog
<1>5. d.step = step /\ d.does = does /\ d.of = viewed[v].of /\ d.view = v
  BY <1>1
<1>6. first' = first /\ policy' = policy
  BY <1>2 DEF fixedVars
<1>7. Asks("deleteOne")' = Asks("deleteOne")
  BY <1>6 DEF Asks
<1>8. DialogOK'
  BY <1>2, <1>3, <1>4, <1>5, <1>6, <1>7 DEF DialogOK, OfItsTab, QuestionIsGuarded, Deletes
<1>9. opened' \in 0..MaxDialogs
  BY <1>2, DocumentsAssumption DEF DocumentsKept, TabsOK
<1>10. front' \in Views /\ first[front'] = front'
  BY <1>2 DEF DocumentsKept, TabsOK
<1> QED
  BY <1>2, <1>8, <1>9, <1>10, DialogKeeps
-----------------------------------------------------------------------------
\* Sending.

\* A dialog that is closed by sending, its guard passed or not asked for.
Sendable(d) ==
  /\ d \in Dialog({"send"}) /\ OfItsTab(d)
  /\ d.does # "insert" /\ Asks(d.does) => d.asked

\* What is sent is about the collection of the dialog's view, starts with what makes all
\* views read again, and is asked about if the dialog was.
LEMMA WritesFacts ==
  ASSUME TabsOK, NEW d, Sendable(d)
  PROVE  /\ Writes(d) \in Seq(Write) /\ Len(Writes(d)) \in Nat
         /\ \A i \in 1..Len(Writes(d)) :
              /\ Writes(d)[i] \in Write /\ RequestOK(Writes(d)[i])
              /\ Writes(d)[i].does = d.does /\ Writes(d)[i].asked = d.asked
              /\ Writes(d)[i].op = "insert" <=> d.does = "insert"
         /\ d.ids # <<>> => 1 \in 1..Len(Writes(d)) /\ IsHead(Writes(d)[1])
<1>1. /\ d.ids \in Seq(DocIds) /\ d.does \in Deletes \cup {"edit", "insert"}
      /\ d.view \in Views /\ d.of \in Views /\ d.asked \in BOOLEAN
      /\ first[d.of] = first[d.view]
  BY DEF Sendable, Dialog, OfItsTab
<1>2. coll[d.view] \in Views /\ coll[d.of] \in Views /\ (OnePart => coll[d.view] = coll[d.of])
  BY <1>1 DEF TabsOK, OnePart
<1>3. ASSUME NEW op \in {"remove", "save", "insert"}, NEW id \in DocIds, NEW index \in Nat
      PROVE  /\ Request(op, d, id, index) \in Write /\ RequestOK(Request(op, d, id, index))
             /\ Request(op, d, id, index).does = d.does /\ Request(op, d, id, index).asked = d.asked
             /\ Request(op, d, id, index).op = op /\ Request(op, d, id, index).index = index
  <2>1. PICK r : r = [op |-> op, does |-> d.does, coll |-> coll[d.view], id |-> id, index |-> index,
                      asked |-> d.asked, of |-> coll[d.of]]
    OBVIOUS
  <2>2. r \in Write
    BY <1>1, <1>2, <2>1 DEF Write
  <2>3. OnePart => r.coll = r.of
    BY <1>2, <2>1
  <2>4. r.does = d.does /\ r.asked = d.asked /\ r.op = op /\ r.index = index
    BY <2>1
  <2> QED
    BY <2>1, <2>2, <2>3, <2>4 DEF Request, RequestOK
<1>4. CASE d.does \in Deletes
  <2>1. PICK ids : ids = SetToSeq(ToSet(d.ids))
    OBVIOUS
  <2>2. DOMAIN d.ids = 1..Len(d.ids) /\ Len(d.ids) \in Nat
        /\ \A i \in 1..Len(d.ids) : d.ids[i] \in DocIds
    BY <1>1, LenProperties, ElementOfSeq
  <2>3. ToSet(d.ids) \subseteq DocIds
    BY <2>2 DEF ToSet
  <2>4. IsFiniteSet(ToSet(d.ids))
    BY <2>3, FS_Subset, DocumentsAssumption
  <2>5. /\ ids \in Seq(ToSet(d.ids)) /\ Len(ids) = Cardinality(ToSet(d.ids)) /\ Len(ids) \in Nat
        /\ DOMAIN ids = 1..Len(ids)
    BY <2>1, <2>4, ListOfSet
  <2>6. \A i \in 1..Len(ids) : ids[i] \in DocIds
    BY <2>3, <2>5, ElementOfSeq
  <2>7. PICK w : w = [i \in DOMAIN ids |-> Request("remove", d, ids[i], i - 1)]
    OBVIOUS
  <2>8. Writes(d) = w
    BY <1>4, <2>1, <2>7 DEF Writes
  <2>9. DOMAIN w = 1..Len(ids) /\ \A i \in 1..Len(ids) : w[i] = Request("remove", d, ids[i], i - 1)
    BY <2>5, <2>7
  <2>10. \A i \in 1..Len(ids) : ids[i] \in DocIds /\ i - 1 \in Nat
    BY <2>6
  <2>11. \A i \in 1..Len(ids) : /\ w[i] \in Write /\ RequestOK(w[i]) /\ w[i].does = d.does
                                /\ w[i].asked = d.asked /\ w[i].op = "remove" /\ w[i].index = i - 1
    BY <1>3, <2>9, <2>10
  <2>12. w = [i \in 1..Len(ids) |-> w[i]]
    BY <2>5, <2>7
  <2>13. w \in Seq(Write) /\ Len(w) = Len(ids)
    BY <2>5, <2>9, <2>11, <2>12, SeqDef, LenProperties
  <2>14. d.ids # <<>> => 1 \in 1..Len(ids)
    <3> SUFFICES ASSUME d.ids # <<>>, Len(ids) = 0
                 PROVE  FALSE
      BY <2>5
    <3>1. ToSet(d.ids) = {}
      BY <2>4, <2>5, FS_EmptySet
    <3>2. 1 \in DOMAIN d.ids
      BY <1>1, <2>2, EmptySeq
    <3> QED
      BY <3>1, <3>2 DEF ToSet
  <2>15. d.ids # <<>> => IsHead(w[1])
    BY <2>11, <2>14 DEF IsHead
  <2> QED
    BY <1>4, <2>5, <2>8, <2>11, <2>13, <2>14, <2>15 DEF Deletes
<1>5. CASE d.does \notin Deletes
  <2>1. PICK op : op = IF d.does = "edit" THEN "save" ELSE "insert"
    OBVIOUS
  <2>2. DOMAIN d.ids = 1..Len(d.ids) /\ Len(d.ids) \in Nat
        /\ \A i \in 1..Len(d.ids) : d.ids[i] \in DocIds
    BY <1>1, LenProperties, ElementOfSeq
  <2>3. op \in {"save", "insert"} /\ (op = "insert" <=> d.does = "insert")
    BY <1>1, <1>5, <2>1
  <2>7. PICK w : w = [i \in DOMAIN d.ids |-> Request(op, d, d.ids[i], 0)]
    OBVIOUS
  <2>8. Writes(d) = w
    BY <1>5, <2>1, <2>7 DEF Writes
  <2>9. DOMAIN w = 1..Len(d.ids) /\ \A i \in 1..Len(d.ids) : w[i] = Request(op, d, d.ids[i], 0)
    BY <2>2, <2>7
  <2>11. \A i \in 1..Len(d.ids) : /\ w[i] \in Write /\ RequestOK(w[i]) /\ w[i].does = d.does
                                  /\ w[i].asked = d.asked /\ w[i].op = op /\ w[i].index = 0
    BY <1>3, <2>2, <2>3, <2>9
  <2>12. w = [i \in 1..Len(d.ids) |-> w[i]]
    BY <2>2, <2>7
  <2>13. w \in Seq(Write) /\ Len(w) = Len(d.ids)
    <3>1. PICK n : n = Len(d.ids)
      OBVIOUS
    <3>2. w \in [1..n -> Write] /\ n \in Nat
      BY <2>2, <2>11, <2>12, <3>1
    <3>3. w \in Seq(Write) /\ Len(w) = n
      BY <3>2, SeqDef, LenProperties
    <3> QED
      BY <3>1, <3>3
  <2>14. d.ids # <<>> => 1 \in 1..Len(d.ids)
    BY <1>1, <2>2, EmptySeq
  <2>15. d.ids # <<>> => IsHead(w[1])
    BY <2>3, <2>11, <2>14 DEF IsHead
  <2> QED
    BY <2>2, <2>3, <2>8, <2>11, <2>13, <2>14, <2>15
<1> QED
  BY <1>4, <1>5

\* Sending leaves nothing to be read that is not read after it.
LEMMA SentKeeps ==
  ASSUME DocumentsKept, NEW d, Sendable(d), Sent(d),
         UNCHANGED fixedVars, UNCHANGED <<held, viewed, docAnswers, opened, front, crashed>>
  PROVE  DocumentsKept'
<1>0. TabsOK /\ ViewsOK /\ QueuesOK
  BY DEF DocumentsKept
<1>1. PICK w : w = Writes(d)
  OBVIOUS
<1>2. /\ dialog' = NoDialog /\ docRequests' = docRequests \o w
      /\ waiting' \subseteq waiting \cup {front}
      /\ spoiled' = (spoiled \/ d.ids = <<>>)
      /\ first' = first /\ coll' = coll
      /\ UNCHANGED <<held, viewed, docAnswers, opened, front, crashed>>
  BY <1>1 DEF Sent, fixedVars
<1>3. /\ w \in Seq(Write) /\ Len(w) \in Nat
      /\ \A i \in 1..Len(w) : w[i] \in Write /\ RequestOK(w[i])
      /\ d.ids # <<>> => 1 \in 1..Len(w) /\ IsHead(w[1])
  BY <1>0, <1>1, WritesFacts
<1>4. /\ docRequests \in Seq(Ask) /\ Len(docRequests) \in Nat /\ DOMAIN docRequests = 1..Len(docRequests)
  BY <1>0, LenProperties DEF QueuesOK
<1>5. w \in Seq(Ask)
  <2>1. \A i \in 1..Len(w) : w[i] \in Ask
    BY <1>3 DEF Ask
  <2> QED
    BY <1>3, <2>1, SeqMonotonic DEF Ask
<1>6. PICK q : q = docRequests'
  OBVIOUS
<1>7. /\ q \in Seq(Ask) /\ Len(q) = Len(docRequests) + Len(w)
      /\ \A i \in 1..(Len(docRequests) + Len(w)) :
           q[i] = IF i <= Len(docRequests) THEN docRequests[i] ELSE w[i - Len(docRequests)]
  BY <1>2, <1>4, <1>5, <1>6, ConcatProperties
<1>8. DOMAIN q = 1..(Len(docRequests) + Len(w))
  BY <1>7, LenProperties
<1>9. \A i \in DOMAIN q : RequestOK(q[i])'
  <2> SUFFICES ASSUME NEW i \in DOMAIN q
               PROVE  RequestOK(q[i])'
    OBVIOUS
  <2>1. RequestOK(q[i])
    <3>1. CASE i <= Len(docRequests)
      BY <1>0, <1>4, <1>7, <1>8, <3>1 DEF QueuesOK
    <3>2. CASE ~(i <= Len(docRequests))
      <4>1. i - Len(docRequests) \in 1..Len(w)
        BY <1>3, <1>4, <1>8, <3>2
      <4> QED
        BY <1>3, <1>7, <1>8, <3>2, <4>1
    <3> QED
      BY <3>1, <3>2
  <2> QED
    BY <1>2, <2>1 DEF RequestOK, OnePart
<1>10. d.ids # <<>> => HeadPending'
  <2> SUFFICES ASSUME d.ids # <<>>
               PROVE  HeadPending'
    OBVIOUS
  <2>1. Len(docRequests) + 1 \in DOMAIN q /\ q[Len(docRequests) + 1] = w[1]
    <3>1. /\ Len(docRequests) + 1 \in 1..(Len(docRequests) + Len(w))
          /\ ~(Len(docRequests) + 1 <= Len(docRequests))
          /\ (Len(docRequests) + 1) - Len(docRequests) = 1
      BY <1>3, <1>4
    <3> QED
      BY <1>7, <1>8, <3>1
  <2>2. IsHead(q[Len(docRequests) + 1])
    BY <1>3, <2>1
  <2> QED
    BY <1>6, <2>1, <2>2 DEF HeadPending
<1>11. spoiled' \/ HeadPending'
  BY <1>2, <1>10
<1>12. TabsOK'
  <2>1. spoiled' \in BOOLEAN /\ crashed' \in BOOLEAN
    BY <1>0, <1>2 DEF TabsOK
  <2>2. waiting' \subseteq {v \in Views : first[v] = v}
    BY <1>0, <1>2 DEF TabsOK
  <2>3. /\ first \in [Views -> Views] /\ \A v \in Views : first[first[v]] = first[v]
        /\ coll \in [Views -> Views] /\ front \in Views /\ first[front] = front
        /\ opened \in 0..MaxDialogs
    BY <1>0 DEF TabsOK
  <2> QED
    BY <1>2, <2>1, <2>2, <2>3 DEF TabsOK
<1>13. ViewsOK'
  BY <1>0, <1>2 DEF ViewsOK, Tabbed
<1>14. QueuesOK'
  <2>1. \A i \in DOMAIN docAnswers : RequestOK(docAnswers[i].request)' /\ (~spoiled' => docAnswers[i].ok)
    <3> SUFFICES ASSUME NEW i \in DOMAIN docAnswers
                 PROVE  RequestOK(docAnswers[i].request)' /\ (~spoiled' => docAnswers[i].ok)
      OBVIOUS
    <3>1. RequestOK(docAnswers[i].request) /\ (~spoiled => docAnswers[i].ok)
      BY <1>0 DEF QueuesOK
    <3>2. ~spoiled' => ~spoiled
      BY <1>2
    <3>3. RequestOK(docAnswers[i].request)'
      BY <1>2, <3>1 DEF RequestOK, OnePart
    <3> QED
      BY <3>1, <3>2, <3>3, Zenon
  <2> QED
    BY <1>0, <1>2, <1>6, <1>7, <1>9, <2>1 DEF QueuesOK
<1>15. DialogOK'
  BY <1>2 DEF DialogOK, NoDialog
<1>16. TailsAreFollowed'
  BY <1>11, Zenon DEF TailsAreFollowed
<1>17. ViewsComeTrue'
  BY <1>11, Zenon DEF ViewsComeTrue, Tabbed, ComesTrue
<1>18. WaitingIsFor'
  BY <1>11, Zenon DEF WaitingIsFor
<1> QED
  BY <1>12, <1>13, <1>14, <1>15, <1>16, <1>17, <1>18 DEF DocumentsKept

\* A dialog gives way to the next, or is sent if it may be.
GoesOn ==
  \E d : /\ GoOn(d)
         /\ d.step = "send" => Sendable(d)
         /\ dialog' = d /\ d.step # "send" => DialogOK'

LEMMA GoOnKeeps ==
  ASSUME DocumentsKept, GoesOn,
         UNCHANGED fixedVars, UNCHANGED <<held, viewed, docAnswers, opened, front, crashed>>
  PROVE  DocumentsKept'
<1>0. PICK d : /\ GoOn(d)
               /\ d.step = "send" => Sendable(d)
               /\ dialog' = d /\ d.step # "send" => DialogOK'
  BY DEF GoesOn
<1>1. CASE d.step = "send"
  BY <1>0, <1>1, SentKeeps DEF GoOn
<1>2. CASE d.step # "send"
  <2>1. dialog' = d /\ UNCHANGED <<docRequests, waiting, spoiled>>
    BY <1>0, <1>2 DEF GoOn
  <2>2. UNCHANGED serverVars
    BY <2>1 DEF serverVars
  <2> QED
    BY <1>0, <1>2, <2>1, <2>2, NextDialogKeeps
<1> QED
  BY <1>1, <1>2

\* The dialog that is open, and one that takes its place.
LEMMA OpenFacts ==
  ASSUME DialogOK, dialog.step # "none"
  PROVE  /\ dialog \in Dialog({"guard", "question", "editor", "unsaved"}) /\ OfItsTab(dialog)
         /\ dialog.step = "guard" => dialog.does # "insert"
         /\ dialog.step = "question" => QuestionIsGuarded(dialog)
         /\ dialog.step \in {"editor", "unsaved"} => dialog.does \in {"edit", "insert"}
         /\ \A t : [dialog EXCEPT !.step = t] \in Dialog({t})
                   /\ OfItsTab([dialog EXCEPT !.step = t])
                   /\ [dialog EXCEPT !.step = t].does = dialog.does
                   /\ [dialog EXCEPT !.step = t].asked = dialog.asked
                   /\ [dialog EXCEPT !.step = t].step = t
<1>1. NoDialog.step = "none"
  BY DEF NoDialog
<1>2. /\ dialog \in Dialog({"guard", "question", "editor", "unsaved"}) /\ OfItsTab(dialog)
      /\ dialog.step = "guard" => dialog.does # "insert"
      /\ dialog.step = "question" => QuestionIsGuarded(dialog)
      /\ dialog.step \in {"editor", "unsaved"} => dialog.does \in {"edit", "insert"}
  BY <1>1 DEF DialogOK
<1>3. ASSUME NEW t
      PROVE  /\ [dialog EXCEPT !.step = t] \in Dialog({t})
             /\ OfItsTab([dialog EXCEPT !.step = t])
             /\ [dialog EXCEPT !.step = t].does = dialog.does
             /\ [dialog EXCEPT !.step = t].asked = dialog.asked
             /\ [dialog EXCEPT !.step = t].step = t
  BY <1>2 DEF Dialog, OfItsTab
<1> QED
  BY <1>2, <1>3

\* A dialog at one of the steps is one at any of more.
LEMMA DialogSteps ==
  ASSUME NEW S, NEW T, S \subseteq T, NEW d \in Dialog(S)
  PROVE  d \in Dialog(T)
BY DEF Dialog

LEMMA ProceedGoesOn ==
  ASSUME DocumentsKept, NEW never \in BOOLEAN, Proceed(never)
  PROVE  GoesOn
<1>1. PICK t : t = IF dialog.does = "deleteOne" THEN "question" ELSE "send"
  OBVIOUS
<1>2. PICK d : d = [dialog EXCEPT !.asked = TRUE, !.step = t]
  OBVIOUS
<1>3. /\ dialog.step = "guard" /\ GoOn(d)
      /\ UNCHANGED fixedVars /\ UNCHANGED <<held, viewed, docAnswers, opened, front, crashed>>
  BY <1>1, <1>2 DEF Proceed
<1>4. DialogOK /\ dialog.step # "none"
  BY <1>3 DEF DocumentsKept
<1>5. dialog \in Dialog({"guard", "question", "editor", "unsaved"}) /\ OfItsTab(dialog) /\ dialog.does # "insert"
  BY <1>3, <1>4, OpenFacts
<1>6. /\ d \in Dialog({t}) /\ OfItsTab(d) /\ d.does = dialog.does /\ d.asked = TRUE /\ d.step = t
  BY <1>2, <1>5 DEF Dialog, OfItsTab
<1>7. d.step = "send" => Sendable(d)
  BY <1>6 DEF Sendable
<1>8. d.step # "send" => d.step = "question" /\ d.does = "deleteOne"
  BY <1>1, <1>6
<1>9. dialog' = d /\ d.step # "send" => DialogOK'
  <2> SUFFICES ASSUME dialog' = d, d.step # "send"
               PROVE  DialogOK'
    OBVIOUS
  <2>1. d \in Dialog({"guard", "question", "editor", "unsaved"})
    BY <1>6, <1>8 DEF Dialog
  <2>2. OfItsTab(d)'
    BY <1>3, <1>6 DEF OfItsTab, fixedVars
  <2>3. QuestionIsGuarded(d)'
    BY <1>6, <1>8 DEF QuestionIsGuarded, Deletes
  <2> QED
    BY <1>8, <2>1, <2>2, <2>3 DEF DialogOK
<1> QED
  BY <1>3, <1>7, <1>9, Zenon DEF GoesOn

\* What Guarded leaves to a guard, or sends because none is asked for.
LEMMA GuardedFacts ==
  ASSUME DialogOK, dialog.step # "none", dialog.does # "insert", UNCHANGED fixedVars
  PROVE  /\ Guarded(dialog).step = "send" => Sendable(Guarded(dialog))
         /\ dialog' = Guarded(dialog) /\ Guarded(dialog).step # "send" => DialogOK'
<1>1. CASE Asks(dialog.does)
  <2>1. PICK d : d = [dialog EXCEPT !.step = "guard"]
    OBVIOUS
  <2>2. Guarded(dialog) = d
    BY <1>1, <2>1 DEF Guarded
  <2>3. d \in Dialog({"guard"}) /\ OfItsTab(d) /\ d.does = dialog.does /\ d.step = "guard"
    BY <2>1, OpenFacts
  <2>4. d \in Dialog({"guard", "question", "editor", "unsaved"})
    BY <2>3 DEF Dialog
  <2>5. OfItsTab(d)'
    BY <2>3 DEF OfItsTab, fixedVars
  <2> QED
    BY <2>2, <2>3, <2>4, <2>5 DEF DialogOK
<1>2. CASE ~Asks(dialog.does)
  <2>1. PICK d : d = [dialog EXCEPT !.step = "send"]
    OBVIOUS
  <2>2. Guarded(dialog) = d
    BY <1>2, <2>1 DEF Guarded
  <2>3. d \in Dialog({"send"}) /\ OfItsTab(d) /\ d.does = dialog.does /\ d.step = "send"
    BY <2>1, OpenFacts
  <2>4. Sendable(d)
    BY <1>2, <2>3 DEF Sendable
  <2> QED
    BY <2>2, <2>3, <2>4
<1> QED
  BY <1>1, <1>2

LEMMA AgreeGoesOn ==
  ASSUME DocumentsKept, Agree
  PROVE  GoesOn
<1>1. /\ dialog.step = "question"
      /\ GoOn(IF dialog.does = "deleteOne" THEN [dialog EXCEPT !.step = "send"] ELSE Guarded(dialog))
      /\ UNCHANGED fixedVars /\ UNCHANGED <<held, viewed, docAnswers, opened, front, policy, crashed>>
  BY DEF Agree
<1>2. DialogOK /\ dialog.step # "none"
  BY <1>1 DEF DocumentsKept
<1>3. QuestionIsGuarded(dialog)
  BY <1>1, <1>2, OpenFacts
<1>4. CASE dialog.does = "deleteOne"
  <2>1. PICK d : d = [dialog EXCEPT !.step = "send"]
    OBVIOUS
  <2>2. GoOn(d)
    BY <1>1, <1>4, <2>1
  <2>3. d \in Dialog({"send"}) /\ OfItsTab(d) /\ d.does = dialog.does /\ d.step = "send" /\ d.asked = dialog.asked
    BY <1>2, <2>1, OpenFacts
  <2>4. Sendable(d)
    BY <1>3, <1>4, <2>3 DEF Sendable, QuestionIsGuarded
  <2> QED
    BY <1>1, <2>2, <2>3, <2>4, Zenon DEF GoesOn
<1>5. CASE dialog.does # "deleteOne"
  <2>1. GoOn(Guarded(dialog)) /\ dialog.does # "insert"
    BY <1>1, <1>3, <1>5 DEF QuestionIsGuarded, Deletes
  <2>2. /\ Guarded(dialog).step = "send" => Sendable(Guarded(dialog))
        /\ dialog' = Guarded(dialog) /\ Guarded(dialog).step # "send" => DialogOK'
    BY <1>1, <1>2, <2>1, GuardedFacts
  <2> QED
    BY <1>1, <2>1, <2>2, Zenon DEF GoesOn
<1> QED
  BY <1>4, <1>5

\* The dialog at another step of the editor.
LEMMA EditorFacts ==
  ASSUME DialogOK, dialog.step \in {"editor", "unsaved"}, UNCHANGED fixedVars,
         NEW t \in {"editor", "unsaved"}
  PROVE  dialog' = [dialog EXCEPT !.step = t] => DialogOK'
<1>1. PICK d : d = [dialog EXCEPT !.step = t]
  OBVIOUS
<1>2. /\ d \in Dialog({t}) /\ OfItsTab(d) /\ d.does = dialog.does /\ d.step = t
      /\ dialog.does \in {"edit", "insert"}
  BY <1>1, OpenFacts
<1>3. d \in Dialog({"guard", "question", "editor", "unsaved"})
  BY <1>2 DEF Dialog
<1>4. OfItsTab(d)'
  BY <1>2 DEF OfItsTab, fixedVars
<1> QED
  BY <1>1, <1>2, <1>3, <1>4 DEF DialogOK

LEMMA SaveEditorGoesOn ==
  ASSUME DocumentsKept, SaveEditor
  PROVE  GoesOn
<1>1. /\ dialog.step \in {"editor", "unsaved"}
      /\ GoOn(IF ~dialog.valid THEN [dialog EXCEPT !.step = "editor"]
              ELSE IF dialog.does = "edit" THEN Guarded(dialog) ELSE [dialog EXCEPT !.step = "send"])
      /\ UNCHANGED fixedVars /\ UNCHANGED <<held, viewed, docAnswers, opened, front, policy, crashed>>
  BY DEF SaveEditor
<1>2. DialogOK /\ dialog.step # "none" /\ dialog.does \in {"edit", "insert"}
  BY <1>1, OpenFacts DEF DocumentsKept
<1>3. CASE ~dialog.valid
  <2>1. PICK d : d = [dialog EXCEPT !.step = "editor"]
    OBVIOUS
  <2>2. GoOn(d) /\ d.step = "editor"
    BY <1>1, <1>2, <1>3, <2>1, OpenFacts
  <2>3. dialog' = d => DialogOK'
    BY <1>1, <1>2, <2>1, EditorFacts
  <2> QED
    BY <1>1, <2>2, <2>3, Zenon DEF GoesOn
<1>4. CASE dialog.valid /\ dialog.does = "edit"
  <2>1. GoOn(Guarded(dialog)) /\ dialog.does # "insert"
    BY <1>1, <1>4
  <2>2. /\ Guarded(dialog).step = "send" => Sendable(Guarded(dialog))
        /\ dialog' = Guarded(dialog) /\ Guarded(dialog).step # "send" => DialogOK'
    BY <1>1, <1>2, <2>1, GuardedFacts
  <2> QED
    BY <1>1, <2>1, <2>2, Zenon DEF GoesOn
<1>5. CASE dialog.valid /\ dialog.does # "edit"
  <2>1. PICK d : d = [dialog EXCEPT !.step = "send"]
    OBVIOUS
  <2>2. GoOn(d)
    BY <1>1, <1>5, <2>1
  <2>3. d \in Dialog({"send"}) /\ OfItsTab(d) /\ d.does = "insert" /\ d.step = "send"
    BY <1>2, <1>5, <2>1, OpenFacts
  <2>4. Sendable(d)
    BY <2>3 DEF Sendable
  <2> QED
    BY <1>1, <2>2, <2>3, <2>4, Zenon DEF GoesOn
<1> QED
  BY <1>3, <1>4, <1>5

LEMMA TypeTextKeeps ==
  ASSUME DocumentsKept, NEW ids \in Seq(DocIds), NEW valid \in BOOLEAN, TypeText(ids, valid)
  PROVE  DocumentsKept'
<1>1. PICK d : d = [dialog EXCEPT !.ids = ids, !.valid = valid, !.modified = TRUE]
  OBVIOUS
<1>2. /\ dialog.step = "editor" /\ dialog' = d
      /\ UNCHANGED fixedVars /\ UNCHANGED serverVars
      /\ UNCHANGED <<opened, front, waiting, policy, spoiled, crashed>>
  BY <1>1 DEF TypeText
<1>3. /\ dialog \in Dialog({"guard", "question", "editor", "unsaved"}) /\ OfItsTab(dialog)
      /\ dialog.does \in {"edit", "insert"}
  BY <1>2, OpenFacts DEF DocumentsKept
<1>4. d \in Dialog({"guard", "question", "editor", "unsaved"}) /\ OfItsTab(d)
      /\ d.does = dialog.does /\ d.step = "editor"
  BY <1>1, <1>2, <1>3 DEF Dialog, OfItsTab
<1>5. OfItsTab(d)'
  BY <1>2, <1>4 DEF OfItsTab, fixedVars
<1>6. DialogOK'
  BY <1>2, <1>3, <1>4, <1>5 DEF DialogOK
<1> QED
  BY <1>2, <1>6, NextDialogKeeps

LEMMA CancelKeeps ==
  ASSUME DocumentsKept, Cancel
  PROVE  DocumentsKept'
<1>1. CASE dialog.modified
  <2>1. /\ dialog.step = "editor" /\ dialog' = [dialog EXCEPT !.step = "unsaved"]
        /\ UNCHANGED fixedVars /\ UNCHANGED serverVars
        /\ UNCHANGED <<opened, front, waiting, policy, spoiled, crashed>>
    BY <1>1 DEF Cancel
  <2>2. DialogOK'
    BY <2>1, EditorFacts DEF DocumentsKept
  <2> QED
    BY <2>1, <2>2, NextDialogKeeps
<1>2. CASE ~dialog.modified
  BY <1>2, AbandonedKeeps DEF Cancel
<1> QED
  BY <1>1, <1>2

LEMMA StayInEditorKeeps ==
  ASSUME DocumentsKept, StayInEditor
  PROVE  DocumentsKept'
<1>1. /\ dialog.step = "unsaved" /\ dialog' = [dialog EXCEPT !.step = "editor"]
      /\ UNCHANGED fixedVars /\ UNCHANGED serverVars
      /\ UNCHANGED <<opened, front, waiting, policy, spoiled, crashed>>
  BY DEF StayInEditor
<1>2. DialogOK'
  BY <1>1, EditorFacts DEF DocumentsKept
<1> QED
  BY <1>1, <1>2, NextDialogKeeps

\* Every step of the user.
LEMMA UserKeeps ==
  ASSUME DocumentsKept, DocumentsUser
  PROVE  DocumentsKept'
<1>1. ASSUME NEW v \in Views, NEW id \in DocIds, DeleteDocument(v, id)
      PROVE  DocumentsKept'
  <2>1. PICK t : t = IF Asks("deleteOne") THEN "guard" ELSE "question"
    OBVIOUS
  <2>2. OpenDialog(v, "deleteOne", <<id>>, t)
    BY <1>1, <2>1 DEF DeleteDocument
  <2>3. t \in {"guard", "question", "editor"} /\ t # "editor" /\ (t = "question" => ~Asks("deleteOne"))
    BY <2>1
  <2>4. <<id>> \in Seq(DocIds) /\ "deleteOne" \in Deletes
    BY DEF Deletes
  <2> QED
    BY <2>2, <2>3, <2>4, OpenDialogKeeps
<1>2. ASSUME NEW v \in Views, NEW ids \in SUBSET DocIds, DeleteDocuments(v, ids)
      PROVE  DocumentsKept'
  <2>1. OpenDialog(v, "deleteMany", SetToSeq(ids), "question")
    BY <1>2 DEF DeleteDocuments
  <2>2. SetToSeq(ids) \in Seq(DocIds)
    <3>1. IsFiniteSet(ids)
      BY FS_Subset, DocumentsAssumption
    <3>2. SetToSeq(ids) \in Seq(ids)
      BY <3>1, ListOfSet
    <3> QED
      BY <3>2, SeqMonotonic
  <2>3. "deleteMany" \in Deletes /\ "deleteMany" # "deleteOne"
    BY DEF Deletes
  <2> QED
    BY <2>1, <2>2, <2>3, OpenDialogKeeps
<1>3. ASSUME NEW v \in Views, NEW id \in DocIds, EditDocument(v, id)
      PROVE  DocumentsKept'
  <2>1. OpenDialog(v, "edit", <<id>>, "editor") /\ <<id>> \in Seq(DocIds)
    BY <1>3 DEF EditDocument
  <2> QED
    BY <2>1, OpenDialogKeeps
<1>4. ASSUME NEW v \in Views, InsertDocument(v)
      PROVE  DocumentsKept'
  <2>1. OpenDialog(v, "insert", <<>>, "editor") /\ <<>> \in Seq(DocIds)
    BY <1>4 DEF InsertDocument
  <2> QED
    BY <2>1, OpenDialogKeeps
<1>5. CASE Refuse
  BY <1>5, AbandonedKeeps DEF Refuse
<1>6. CASE CloseEditor
  BY <1>6, AbandonedKeeps DEF CloseEditor
<1>7. ASSUME NEW ids \in {<<>>} \cup {<<id>> : id \in DocIds}, NEW valid \in BOOLEAN, TypeText(ids, valid)
      PROVE  DocumentsKept'
  <2>1. CASE ids = <<>>
    <3>1. <<>> \in Seq(DocIds)
      OBVIOUS
    <3> QED
      BY <1>7, <2>1, <3>1, TypeTextKeeps
  <2>2. CASE ids # <<>>
    <3>1. PICK id \in DocIds : ids = <<id>>
      BY <2>2
    <3>2. <<id>> \in Seq(DocIds)
      OBVIOUS
    <3> QED
      BY <1>7, <3>1, <3>2, TypeTextKeeps
  <2> QED
    BY <2>1, <2>2
<1>8. ASSUME (\E never \in BOOLEAN : Proceed(never)) \/ Agree \/ SaveEditor
      PROVE  DocumentsKept'
  <2>1. UNCHANGED fixedVars /\ UNCHANGED <<held, viewed, docAnswers, opened, front, crashed>>
    BY <1>8 DEF Proceed, Agree, SaveEditor
  <2>2. GoesOn
    BY <1>8, ProceedGoesOn, AgreeGoesOn, SaveEditorGoesOn
  <2> QED
    BY <2>1, <2>2, GoOnKeeps
<1> QED
  BY <1>1, <1>2, <1>3, <1>4, <1>5, <1>6, <1>7, <1>8, SwitchTabKeeps,
     CancelKeeps, StayInEditorKeeps DEF DocumentsUser
-----------------------------------------------------------------------------
\* The worker.  What it takes from the front of the requests it puts at the end of the
\* answers.
LEMMA WorkOnDocsKeeps ==
  ASSUME DocumentsKept, WorkOnDocs
  PROVE  DocumentsKept'
<1>0. TabsOK /\ ViewsOK /\ QueuesOK /\ TailsAreFollowed /\ ViewsComeTrue /\ WaitingIsFor
  BY DEF DocumentsKept
<1>1. PICK r : r = Head(docRequests)
  OBVIOUS
<1>2. PICK ok \in BOOLEAN :
         /\ spoiled' = (spoiled \/ ~ok)
         /\ docAnswers' = Append(docAnswers, [request |-> r, ok |-> ok,
                                              found |-> IF r.op = "query" THEN held[coll[r.view]] ELSE {}])
         /\ held' = IF ok /\ r.op # "query" THEN [held EXCEPT ![r.coll] = WrittenBack(r)] ELSE held
  BY <1>1 DEF WorkOnDocs
<1>3. /\ docRequests # <<>> /\ docRequests' = Tail(docRequests)
      /\ first' = first /\ coll' = coll
      /\ UNCHANGED <<viewed, dialog, opened, front, waiting, policy, crashed>>
  BY DEF WorkOnDocs, fixedVars
<1>4. PICK a : a = [request |-> r, ok |-> ok, found |-> IF r.op = "query" THEN held[coll[r.view]] ELSE {}]
  OBVIOUS
<1>5. PICK q : q = docRequests'
  OBVIOUS
<1>6. PICK s : s = docAnswers'
  OBVIOUS
<1>7. /\ docRequests \in Seq(Ask) /\ docAnswers \in Seq(Answer)
      /\ Len(docRequests) \in Nat /\ DOMAIN docRequests = 1..Len(docRequests) /\ Len(docRequests) # 0
      /\ Len(docAnswers) \in Nat /\ DOMAIN docAnswers = 1..Len(docAnswers)
  BY <1>0, <1>3, LenProperties, EmptySeq DEF QueuesOK
<1>8. /\ q \in Seq(Ask) /\ Len(q) = Len(docRequests) - 1 /\ DOMAIN q = 1..(Len(docRequests) - 1)
      /\ \A i \in 1..(Len(docRequests) - 1) : q[i] = docRequests[i + 1]
  <2>1. /\ q \in Seq(Ask) /\ Len(q) = Len(docRequests) - 1
        /\ \A i \in 1..Len(q) : q[i] = docRequests[i + 1]
    BY <1>3, <1>5, <1>7, HeadTailProperties
  <2> QED
    BY <2>1, LenProperties
<1>9. r = docRequests[1] /\ 1 \in DOMAIN docRequests /\ r \in Ask /\ RequestOK(r)
  BY <1>0, <1>1, <1>3, <1>7, HeadTailProperties DEF QueuesOK
<1>10. r.op = "query" => r \in Query /\ r.view \in Views /\ r.into \in Views /\ held[coll[r.view]] \subseteq DocIds
  BY <1>0, <1>9 DEF Ask, Write, Query, TabsOK, ViewsOK
<1>11. r.op # "query" => r \in Write /\ r.coll \in Views /\ r.id \in DocIds
  BY <1>9 DEF Ask, Write, Query
<1>12. a \in Answer /\ a.request = r /\ a.ok = ok
       /\ (r.op = "query" => a.found = held[coll[r.view]])
  BY <1>4, <1>9, <1>10 DEF Answer
<1>13. /\ s \in Seq(Answer) /\ DOMAIN s = 1..(Len(docAnswers) + 1) /\ s[Len(docAnswers) + 1] = a
       /\ \A i \in 1..Len(docAnswers) : s[i] = docAnswers[i]
  <2>1. s = Append(docAnswers, a)
    BY <1>2, <1>4, <1>6
  <2>2. /\ s \in Seq(Answer) /\ Len(s) = Len(docAnswers) + 1 /\ s[Len(docAnswers) + 1] = a
        /\ \A i \in 1..Len(docAnswers) : s[i] = docAnswers[i]
    BY <1>7, <1>12, <2>1, AppendProperties
  <2> QED
    BY <2>2, LenProperties
<1>14. ~spoiled' => ~spoiled /\ ok
  BY <1>2
<1>15. held' \in [Views -> SUBSET DocIds]
  <2>1. r.op # "query" => WrittenBack(r) \subseteq DocIds
    BY <1>0, <1>11 DEF WrittenBack, ViewsOK, Tabbed
  <2> QED
    BY <1>0, <1>2, <1>11, <2>1 DEF ViewsOK, Tabbed
\* Every request but the first is still there, and the first is answered.
<1>16. \A i \in DOMAIN docRequests : i # 1 => i - 1 \in DOMAIN q /\ q[i - 1] = docRequests[i]
  BY <1>7, <1>8
<1>17. \A i \in DOMAIN docAnswers : i \in DOMAIN s /\ s[i] = docAnswers[i]
  BY <1>7, <1>13
<1>18. Len(docAnswers) + 1 \in DOMAIN s /\ s[Len(docAnswers) + 1].request = r
  BY <1>7, <1>12, <1>13
<1>19. HeadPending => HeadPending'
  <2>1. ASSUME NEW i \in DOMAIN docRequests, IsHead(docRequests[i])
        PROVE  HeadPending'
    <3>1. CASE i = 1
      BY <1>6, <1>9, <1>18, <2>1, <3>1 DEF HeadPending
    <3>2. CASE i # 1
      BY <1>5, <1>16, <2>1, <3>2 DEF HeadPending
    <3> QED
      BY <3>1, <3>2
  <2>2. ASSUME NEW i \in DOMAIN docAnswers, IsHead(docAnswers[i].request)
        PROVE  HeadPending'
    BY <1>6, <1>17, <2>2 DEF HeadPending
  <2> QED
    BY <2>1, <2>2 DEF HeadPending
<1>20. IsHead(r) => HeadPending'
  BY <1>6, <1>18 DEF HeadPending
<1>21. \A v : ReadQueued(v) => ReadQueued(v)' \/ Reads(r, v)
  <2> SUFFICES ASSUME NEW v, NEW i \in DOMAIN docRequests, Reads(docRequests[i], v), ~Reads(r, v)
               PROVE  ReadQueued(v)'
    BY DEF ReadQueued
  <2>1. i # 1
    BY <1>9
  <2> QED
    BY <1>5, <1>16, <2>1 DEF ReadQueued
<1>22. \A v : ReadAnswered(v) => ReadAnswered(v)'
  BY <1>6, <1>17 DEF ReadAnswered
<1>23. \A v : Reads(r, v) => ReadAnswered(v)'
  BY <1>6, <1>18 DEF ReadAnswered
<1>24. TailsAreFollowed'
  <2> SUFFICES ASSUME ~spoiled', NEW p \in DOMAIN q, q[p].op # "query", q[p].index > 0, ~HeadPending', NEW v \in Views
               PROVE  \E k \in DOMAIN q : k > p /\ Reads(q[k], first[v])
    BY <1>3, <1>5, Zenon DEF TailsAreFollowed
  <2>1. p + 1 \in DOMAIN docRequests /\ q[p] = docRequests[p + 1]
    BY <1>7, <1>8
  <2>2. PICK k \in DOMAIN docRequests : k > p + 1 /\ Reads(docRequests[k], first[v])
    BY <1>0, <1>14, <1>19, <2>1, Zenon DEF TailsAreFollowed
  <2>3. k # 1 /\ k - 1 > p
    BY <1>7, <1>8, <2>2
  <2> QED
    BY <1>16, <2>2, <2>3
<1>25. ViewsComeTrue'
  <2> SUFFICES ASSUME ~spoiled', NEW v \in Views, first[v] = v, ~Tabbed(v)
               PROVE  ComesTrue(v)'
    BY <1>3 DEF ViewsComeTrue, Tabbed
  <2>0. ComesTrue(v)
    BY <1>0, <1>14 DEF ViewsComeTrue
  <2>1. CASE Reads(r, v)
    <3>1. PICK i : i = Len(docAnswers) + 1
      OBVIOUS
    <3>2. i \in DOMAIN s /\ Reads(s[i].request, v) /\ \A j \in DOMAIN s : ~(j > i)
      BY <1>7, <1>13, <1>18, <2>1, <3>1
    <3>3. LastRead(i, v)'
      BY <1>6, <3>2 DEF LastRead
    <3>4. r.op = "query"
      BY <2>1 DEF Reads
    <3>5. FoundIsHeld(s[i])'
      BY <1>2, <1>3, <1>12, <1>13, <3>1, <3>4 DEF FoundIsHeld
    <3> QED
      BY <1>6, <3>2, <3>3, <3>5, Zenon DEF ComesTrue
  <2>2. CASE ~Reads(r, v) /\ r.op = "query"
    <3>1. held' = held
      BY <1>2, <2>2
    <3>2. \A i \in DOMAIN s : i \in DOMAIN docAnswers \/ i = Len(docAnswers) + 1
      BY <1>7, <1>13
    <3>3. ASSUME NEW i \in DOMAIN docAnswers, LastRead(i, v), FoundIsHeld(docAnswers[i])
          PROVE  ComesTrue(v)'
      <4>1. i \in DOMAIN s /\ s[i] = docAnswers[i]
        BY <1>17
      <4>2. \A j \in DOMAIN s : j > i => ~Reads(s[j].request, v)
        BY <1>17, <1>18, <2>2, <3>2, <3>3 DEF LastRead
      <4>3. LastRead(i, v)'
        BY <1>6, <3>3, <4>1, <4>2 DEF LastRead
      <4>4. FoundIsHeld(s[i])'
        BY <1>3, <3>1, <3>3, <4>1 DEF FoundIsHeld
      <4> QED
        BY <1>6, <4>1, <4>3, <4>4, Zenon DEF ComesTrue
    <3>4. ASSUME ~ReadAnswered(v), ShownIsHeld(v)
          PROVE  ComesTrue(v)'
      <4>1. ~ReadAnswered(v)'
        BY <1>6, <1>17, <1>18, <2>2, <3>2, <3>4 DEF ReadAnswered
      <4>2. ShownIsHeld(v)'
        BY <1>3, <3>1, <3>4 DEF ShownIsHeld
      <4> QED
        BY <4>1, <4>2 DEF ComesTrue
    <3>5. HeadPending \/ ReadQueued(v) => ComesTrue(v)'
      BY <1>19, <1>21, <2>2 DEF ComesTrue
    <3> QED
      BY <2>0, <3>3, <3>4, <3>5 DEF ComesTrue
  <2>3. CASE r.op # "query"
    <3>1. CASE r.index = 0
      BY <1>20, <2>3, <3>1 DEF IsHead, ComesTrue
    <3>2. CASE r.index # 0
      <4>1. r.index > 0
        BY <1>11, <2>3, <3>2 DEF Write
      <4>2. HeadPending \/ \E k \in DOMAIN docRequests : k > 1 /\ Reads(docRequests[k], v)
        BY <1>0, <1>9, <1>14, <2>3, <4>1 DEF TailsAreFollowed
      <4>3. HeadPending \/ ReadQueued(v)
        BY <4>2 DEF ReadQueued
      <4>4. ~Reads(r, v)
        BY <2>3 DEF Reads
      <4> QED
        BY <1>19, <1>21, <4>3, <4>4 DEF ComesTrue
    <3> QED
      BY <3>1, <3>2
  <2> QED
    BY <2>1, <2>2, <2>3
<1>26. WaitingIsFor'
  <2> SUFFICES ASSUME NEW t \in waiting, ~spoiled', ~crashed'
               PROVE  HeadPending' \/ ReadQueued(t)' \/ ReadAnswered(t)'
    BY <1>3, Zenon DEF WaitingIsFor
  <2>1. HeadPending \/ ReadQueued(t) \/ ReadAnswered(t)
    BY <1>0, <1>3, <1>14 DEF WaitingIsFor
  <2> QED
    BY <1>19, <1>21, <1>22, <1>23, <2>1
<1>27. TabsOK'
  <2>1. spoiled' \in BOOLEAN /\ crashed' \in BOOLEAN
    BY <1>0, <1>2, <1>3 DEF TabsOK
  <2>2. /\ first \in [Views -> Views] /\ \A v \in Views : first[first[v]] = first[v]
        /\ coll \in [Views -> Views] /\ front \in Views /\ first[front] = front
        /\ waiting \subseteq {v \in Views : first[v] = v} /\ opened \in 0..MaxDialogs
    BY <1>0 DEF TabsOK
  <2> QED
    BY <1>3, <2>1, <2>2 DEF TabsOK
<1>28. ViewsOK'
  BY <1>0, <1>3, <1>15 DEF ViewsOK, Tabbed
<1>29. QueuesOK'
  <2>1. \A x : RequestOK(x)' <=> RequestOK(x)
    BY <1>3 DEF RequestOK, OnePart
  <2>2. \A i \in DOMAIN q : RequestOK(q[i])
    <3> SUFFICES ASSUME NEW i \in DOMAIN q
                 PROVE  RequestOK(q[i])
      OBVIOUS
    <3>1. i + 1 \in DOMAIN docRequests /\ q[i] = docRequests[i + 1]
      BY <1>7, <1>8
    <3> QED
      BY <1>0, <3>1 DEF QueuesOK
  <2>3. \A i \in DOMAIN s : RequestOK(s[i].request) /\ (~spoiled' => s[i].ok)
    <3> SUFFICES ASSUME NEW i \in DOMAIN s
                 PROVE  RequestOK(s[i].request) /\ (~spoiled' => s[i].ok)
      OBVIOUS
    <3>1. CASE i \in DOMAIN docAnswers
      <4>1. RequestOK(docAnswers[i].request) /\ (~spoiled => docAnswers[i].ok)
        BY <1>0, <3>1 DEF QueuesOK
      <4> QED
        BY <1>14, <1>17, <3>1, <4>1, Zenon
    <3>2. CASE i \notin DOMAIN docAnswers
      <4>1. s[i] = a
        BY <1>7, <1>13, <3>2
      <4>2. RequestOK(s[i].request)
        BY <1>9, <1>12, <4>1
      <4>3. ~spoiled' => s[i].ok
        BY <1>12, <1>14, <4>1, Zenon
      <4> QED
        BY <4>2, <4>3
    <3> QED
      BY <3>1, <3>2
  <2>4. (\A i \in DOMAIN docRequests : RequestOK(docRequests[i]))'
    BY <1>5, <2>1, <2>2
  <2>5. (\A i \in DOMAIN docAnswers : RequestOK(docAnswers[i].request) /\ (~spoiled => docAnswers[i].ok))'
    BY <1>6, <2>1, <2>3, Zenon
  <2> QED
    BY <1>5, <1>6, <1>8, <1>13, <2>4, <2>5, Zenon DEF QueuesOK
<1>30. DialogOK'
  BY <1>3 DEF DocumentsKept, DialogOK, OfItsTab, QuestionIsGuarded, Asks
<1> QED
  BY <1>24, <1>25, <1>26, <1>27, <1>28, <1>29, <1>30 DEF DocumentsKept
-----------------------------------------------------------------------------
\* The answers.  What the UI thread takes from their front was the oldest.
LEMMA TakenFacts ==
  ASSUME DocumentsKept, docAnswers # <<>>, docAnswers' = Tail(docAnswers)
  PROVE  /\ Head(docAnswers) \in Answer /\ RequestOK(Head(docAnswers).request)
         /\ ~spoiled => Head(docAnswers).ok
         /\ docAnswers' \in Seq(Answer) /\ Head(docAnswers) = docAnswers[1] /\ 1 \in DOMAIN docAnswers
         /\ \A i \in DOMAIN docAnswers' : /\ i + 1 \in DOMAIN docAnswers /\ i + 1 # 1 /\ i \in Nat
                                          /\ docAnswers'[i] = docAnswers[i + 1]
         /\ \A i \in DOMAIN docAnswers : i # 1 => /\ i - 1 \in DOMAIN docAnswers' /\ i \in Nat
                                                  /\ docAnswers'[i - 1] = docAnswers[i]
<1>1. docAnswers \in Seq(Answer) /\ Len(docAnswers) \in Nat /\ Len(docAnswers) # 0
      /\ DOMAIN docAnswers = 1..Len(docAnswers)
      /\ \A i \in DOMAIN docAnswers : RequestOK(docAnswers[i].request) /\ (~spoiled => docAnswers[i].ok)
  BY LenProperties, EmptySeq DEF DocumentsKept, QueuesOK
<1>2. PICK s : s = docAnswers'
  OBVIOUS
<1>3. /\ s \in Seq(Answer) /\ Len(s) = Len(docAnswers) - 1
      /\ \A i \in 1..Len(s) : s[i] = docAnswers[i + 1]
      /\ Head(docAnswers) \in Answer /\ Head(docAnswers) = docAnswers[1]
  BY <1>1, <1>2, HeadTailProperties
<1>4. DOMAIN s = 1..(Len(docAnswers) - 1)
  BY <1>3, LenProperties
<1>5. 1 \in DOMAIN docAnswers
  BY <1>1
<1>6. ~spoiled => Head(docAnswers).ok
  BY <1>1, <1>3, <1>5, Zenon
<1>7. \A i \in DOMAIN s : i + 1 \in DOMAIN docAnswers /\ i + 1 # 1 /\ i \in Nat /\ s[i] = docAnswers[i + 1]
  BY <1>1, <1>3, <1>4
<1>8. \A i \in DOMAIN docAnswers : i # 1 => i - 1 \in DOMAIN s /\ i \in Nat /\ s[i - 1] = docAnswers[i]
  BY <1>1, <1>3, <1>4
<1> QED
  BY <1>1, <1>2, <1>3, <1>5, <1>6, <1>7, <1>8

\* An answer that is no answer to a query of the part v leaves what v is waiting for.
LEMMA TakenLeaves ==
  ASSUME DocumentsKept, docAnswers # <<>>, docAnswers' = Tail(docAnswers)
  PROVE  /\ ~IsHead(Head(docAnswers).request) => (HeadPending /\ docRequests' = docRequests => HeadPending')
         /\ \A v : ~Reads(Head(docAnswers).request, v) => (ReadAnswered(v) <=> ReadAnswered(v)')
         /\ \A v, i : i \in DOMAIN docAnswers /\ i # 1 /\ LastRead(i, v) => LastRead(i - 1, v)'
         /\ \A v : LastRead(1, v) => ~ReadAnswered(v)'
<1>1. /\ Head(docAnswers) = docAnswers[1] /\ 1 \in DOMAIN docAnswers
      /\ \A i \in DOMAIN docAnswers' : /\ i + 1 \in DOMAIN docAnswers /\ i + 1 # 1 /\ i \in Nat
                                       /\ docAnswers'[i] = docAnswers[i + 1]
      /\ \A i \in DOMAIN docAnswers : i # 1 => /\ i - 1 \in DOMAIN docAnswers' /\ i \in Nat
                                               /\ docAnswers'[i - 1] = docAnswers[i]
  BY TakenFacts
<1>2. PICK s : s = docAnswers'
  OBVIOUS
<1>3. ASSUME ~IsHead(Head(docAnswers).request), HeadPending, docRequests' = docRequests
      PROVE  HeadPending'
  <2>1. ASSUME NEW i \in DOMAIN docAnswers, IsHead(docAnswers[i].request)
        PROVE  HeadPending'
    <3>1. i # 1
      BY <1>1, <1>3, <2>1
    <3>2. i - 1 \in DOMAIN s /\ s[i - 1] = docAnswers[i]
      BY <1>1, <1>2, <3>1
    <3> QED
      BY <1>2, <2>1, <3>2 DEF HeadPending
  <2> QED
    BY <1>3, <2>1 DEF HeadPending
<1>4. ASSUME NEW v, ~Reads(Head(docAnswers).request, v)
      PROVE  ReadAnswered(v) <=> ReadAnswered(v)'
  <2>1. ASSUME NEW i \in DOMAIN docAnswers, Reads(docAnswers[i].request, v)
        PROVE  ReadAnswered(v)'
    <3>1. i # 1
      BY <1>1, <1>4, <2>1
    <3>2. i - 1 \in DOMAIN s /\ s[i - 1] = docAnswers[i]
      BY <1>1, <1>2, <3>1
    <3> QED
      BY <1>2, <2>1, <3>2 DEF ReadAnswered
  <2>2. ASSUME NEW i \in DOMAIN s, Reads(s[i].request, v)
        PROVE  ReadAnswered(v)
    <3>1. i + 1 \in DOMAIN docAnswers /\ s[i] = docAnswers[i + 1]
      BY <1>1, <1>2
    <3> QED
      BY <2>2, <3>1 DEF ReadAnswered
  <2> QED
    BY <1>2, <2>1, <2>2 DEF ReadAnswered
<1>5. ASSUME NEW v, NEW i \in DOMAIN docAnswers, i # 1, LastRead(i, v)
      PROVE  LastRead(i - 1, v)'
  <2>1. i - 1 \in DOMAIN s /\ s[i - 1] = docAnswers[i] /\ i \in Nat
    BY <1>1, <1>2, <1>5
  <2>2. Reads(s[i - 1].request, v)
    BY <1>5, <2>1 DEF LastRead
  <2>3. ASSUME NEW j \in DOMAIN s, j > i - 1
        PROVE  ~Reads(s[j].request, v)
    <3>1. j + 1 \in DOMAIN docAnswers /\ s[j] = docAnswers[j + 1] /\ j \in Nat
      BY <1>1, <1>2
    <3>2. j + 1 > i
      BY <2>1, <2>3, <3>1
    <3> QED
      BY <1>5, <3>1, <3>2 DEF LastRead
  <2> QED
    BY <1>2, <2>2, <2>3 DEF LastRead
<1>6. ASSUME NEW v, LastRead(1, v)
      PROVE  ~ReadAnswered(v)'
  <2> SUFFICES ASSUME NEW i \in DOMAIN s, Reads(s[i].request, v)
               PROVE  FALSE
    BY <1>2 DEF ReadAnswered
  <2>1. i + 1 \in DOMAIN docAnswers /\ s[i] = docAnswers[i + 1] /\ i + 1 > 1
    BY <1>1, <1>2
  <2> QED
    BY <1>6, <2>1 DEF LastRead
<1> QED
  BY <1>3, <1>4, <1>5, <1>6

\* A step that takes an answer and leaves dialogs, tabs and requests as they are.
LEMMA TakenKeeps ==
  ASSUME DocumentsKept, docAnswers # <<>>, docAnswers' = Tail(docAnswers),
         UNCHANGED fixedVars, UNCHANGED <<held, dialog, opened, front, policy, spoiled>>,
         docRequests' = docRequests \/
           (docRequests' \in Seq(Ask) /\ \A i \in DOMAIN docRequests' : RequestOK(docRequests'[i])),
         waiting' \subseteq waiting, crashed' \in BOOLEAN
  PROVE  TabsOK' /\ QueuesOK' /\ DialogOK'
<1>0. TabsOK /\ QueuesOK /\ first' = first /\ coll' = coll
  BY DEF DocumentsKept, fixedVars
<1>1. \A x : RequestOK(x)' <=> RequestOK(x)
  BY <1>0 DEF RequestOK, OnePart
<1>2. TabsOK'
  BY <1>0, Zenon DEF TabsOK
<1>3. DialogOK'
  BY <1>0 DEF DocumentsKept, DialogOK, OfItsTab, QuestionIsGuarded, Asks
<1>4. PICK s : s = docAnswers'
  OBVIOUS
<1>5. /\ s \in Seq(Answer)
      /\ \A i \in DOMAIN s : i + 1 \in DOMAIN docAnswers /\ s[i] = docAnswers[i + 1]
  BY <1>4, TakenFacts
<1>6. \A i \in DOMAIN s : RequestOK(s[i].request) /\ (~spoiled => s[i].ok)
  BY <1>0, <1>5, Zenon DEF QueuesOK
<1>7. PICK q : q = docRequests'
  OBVIOUS
<1>8. q \in Seq(Ask) /\ \A i \in DOMAIN q : RequestOK(q[i])
  BY <1>0, <1>7 DEF QueuesOK
<1>9. (\A i \in DOMAIN docRequests : RequestOK(docRequests[i]))'
  BY <1>1, <1>7, <1>8
<1>10. (\A i \in DOMAIN docAnswers : RequestOK(docAnswers[i].request) /\ (~spoiled => docAnswers[i].ok))'
  BY <1>1, <1>4, <1>6, Zenon
<1> QED
  BY <1>2, <1>3, <1>4, <1>5, <1>7, <1>8, <1>9, <1>10, Zenon DEF QueuesOK

\* The answer to a query: the part shows what was found, and no later answer will change
\* that, or one will.
LEMMA HandleQueryKeeps ==
  ASSUME DocumentsKept, DeliverDocs, Head(docAnswers).request.op = "query"
  PROVE  DocumentsKept'
<1>0. ViewsOK /\ TabsOK /\ TailsAreFollowed /\ ViewsComeTrue /\ WaitingIsFor
  BY DEF DocumentsKept
<1>1. PICK a : a = Head(docAnswers)
  OBVIOUS
<1>2. /\ docAnswers # <<>> /\ docAnswers' = Tail(docAnswers) /\ ~crashed
      /\ HandleQuery(a) /\ UNCHANGED fixedVars /\ UNCHANGED <<held, dialog, opened, front, policy, spoiled>>
  BY <1>1 DEF DeliverDocs
<1>3. /\ a \in Answer /\ RequestOK(a.request) /\ (~spoiled => a.ok) /\ a = docAnswers[1]
      /\ 1 \in DOMAIN docAnswers /\ a.request.op = "query"
  BY <1>1, <1>2, TakenFacts
<1>4. /\ a.request \in Query /\ a.request.into = first[a.request.view]
      /\ a.request.view \in Views /\ a.request.into \in Views /\ a.found \subseteq DocIds
  BY <1>3 DEF RequestOK, Write, Query, Answer
<1>5. PICK v : v = a.request.into
  OBVIOUS
<1>22. PICK p : p \in Views /\ first[p] = v /\ (~Tabbed(v) => p = v)
                /\ (a.ok => /\ viewed' = [viewed EXCEPT ![p] = [of |-> a.request.view, ids |-> a.found]]
                            /\ crashed' = (dialog # NoDialog /\ dialog.view = p))
  <2>1. CASE a.ok
    <3>1. PICK p \in Into(a.request) :
             /\ viewed' = [viewed EXCEPT ![p] = [of |-> a.request.view, ids |-> a.found]]
             /\ crashed' = (dialog # NoDialog /\ dialog.view = p)
      BY <1>2, <2>1 DEF HandleQuery
    <3>2. p \in Views /\ first[p] = v /\ (~Tabbed(v) => p = v)
      BY <1>0, <1>4, <1>5 DEF Into, MayShow, TabsOK
    <3> QED
      BY <3>1, <3>2
  <2>2. CASE ~a.ok
    BY <1>0, <1>4, <1>5, <2>2 DEF TabsOK
  <2> QED
    BY <2>1, <2>2
<1>6. /\ waiting' = waiting \ {v} /\ docRequests' = docRequests
      /\ IF a.ok
         THEN /\ viewed' = [viewed EXCEPT ![p] = [of |-> a.request.view, ids |-> a.found]]
              /\ crashed' = (dialog # NoDialog /\ dialog.view = p)
         ELSE UNCHANGED <<viewed, crashed>>
      /\ first' = first /\ coll' = coll /\ held' = held /\ spoiled' = spoiled
      /\ \A t : Tabbed(t)' = Tabbed(t)
  <2>1. waiting' = waiting \ {v} /\ docRequests' = docRequests
        /\ (~a.ok => UNCHANGED <<viewed, crashed>>)
    BY <1>2, <1>5 DEF HandleQuery, ProgressLeft
  <2>2. first' = first /\ coll' = coll /\ held' = held /\ spoiled' = spoiled
    BY <1>2 DEF fixedVars
  <2>3. \A t : Tabbed(t)' = Tabbed(t)
    BY <2>2 DEF Tabbed
  <2> QED
    BY <1>22, <2>1, <2>2, <2>3
<1>7. v \in Views /\ first[v] = v /\ first[a.request.view] = v
  BY <1>0, <1>4, <1>5 DEF TabsOK
<1>8. crashed' \in BOOLEAN
  BY <1>0, <1>6 DEF TabsOK
<1>9. TabsOK' /\ QueuesOK' /\ DialogOK'
  BY <1>2, <1>6, <1>8, TakenKeeps
<1>10. ViewsOK'
  <2>1. CASE a.ok
    <3>1. viewed' = [viewed EXCEPT ![p] = [of |-> a.request.view, ids |-> a.found]]
      BY <1>6, <2>1
    <3>2. held' \in [Views -> SUBSET DocIds] /\ viewed' \in [Views -> [of : Views, ids : SUBSET DocIds]]
      BY <1>0, <1>4, <1>6, <1>22, <3>1 DEF ViewsOK
    <3>3. ASSUME NEW t \in Views
          PROVE  first[viewed'[t].of] = first[t] /\ (viewed'[t].of # t => first[t] = t \/ Tabbed(first[t]))
      <4>1. CASE t = p
        <5>1. viewed'[t].of = a.request.view
          BY <1>0, <1>22, <3>1, <4>1 DEF ViewsOK
        <5> QED
          BY <1>7, <1>22, <4>1, <5>1
      <4>2. CASE t # p
        BY <1>0, <3>1, <4>2 DEF ViewsOK
      <4> QED
        BY <4>1, <4>2
    <3> QED
      BY <1>6, <3>2, <3>3 DEF ViewsOK
  <2>2. CASE ~a.ok
    <3>1. viewed' = viewed
      BY <1>6, <2>2
    <3> QED
      BY <1>0, <1>6, <3>1 DEF ViewsOK
  <2> QED
    BY <2>1, <2>2
<1>11. ~IsHead(a.request) /\ Reads(a.request, v) /\ \A t : t # v => ~Reads(a.request, t)
  BY <1>3, <1>5 DEF IsHead, Reads
<1>12. /\ HeadPending => HeadPending'
       /\ \A t : t # v => (ReadAnswered(t) <=> ReadAnswered(t)')
       /\ \A t, i : i \in DOMAIN docAnswers /\ i # 1 /\ LastRead(i, t) => LastRead(i - 1, t)'
       /\ \A t : LastRead(1, t) => ~ReadAnswered(t)'
  BY <1>1, <1>2, <1>6, <1>11, TakenLeaves
<1>13. \A t : ReadQueued(t)' <=> ReadQueued(t)
  BY <1>6 DEF ReadQueued
<1>14. TailsAreFollowed'
  BY <1>0, <1>6, <1>12, Zenon DEF TailsAreFollowed
<1>15. WaitingIsFor'
  <2> SUFFICES ASSUME NEW t \in waiting, t # v, ~spoiled
               PROVE  HeadPending' \/ ReadQueued(t)' \/ ReadAnswered(t)'
    BY <1>6, Zenon DEF WaitingIsFor
  <2>1. HeadPending \/ ReadQueued(t) \/ ReadAnswered(t)
    BY <1>0, <1>2 DEF WaitingIsFor
  <2> QED
    BY <1>12, <1>13, <2>1
<1>16. ViewsComeTrue'
  <2> SUFFICES ASSUME ~spoiled, NEW t \in Views, first[t] = t, ~Tabbed(t)
               PROVE  ComesTrue(t)'
    BY <1>6 DEF ViewsComeTrue
  <2>1. ComesTrue(t)
    BY <1>0 DEF ViewsComeTrue
  <2>2. viewed' = [viewed EXCEPT ![p] = [of |-> a.request.view, ids |-> a.found]]
    BY <1>3, <1>6
  <2>6. (t = v => p = v) /\ (t # v => t # p)
    BY <1>22
  <2>3. HeadPending \/ ReadQueued(t) => ComesTrue(t)'
    BY <1>12, <1>13 DEF ComesTrue
  <2>4. ASSUME NEW i \in DOMAIN docAnswers, LastRead(i, t), FoundIsHeld(docAnswers[i])
        PROVE  ComesTrue(t)'
    <3>1. CASE i = 1
      <4>1. t = v
        BY <1>3, <1>11, <2>4, <3>1 DEF LastRead
      <4>2. viewed'[t] = [of |-> a.request.view, ids |-> a.found]
        BY <1>0, <2>2, <2>6, <4>1 DEF ViewsOK
      <4>3. ShownIsHeld(t)'
        BY <1>3, <1>6, <2>4, <3>1, <4>2 DEF ShownIsHeld, FoundIsHeld
      <4>4. ~ReadAnswered(t)'
        BY <1>12, <2>4, <3>1
      <4> QED
        BY <4>3, <4>4 DEF ComesTrue
    <3>2. CASE i # 1
      <4>1. LastRead(i - 1, t)'
        BY <1>12, <2>4, <3>2
      <4>2. i - 1 \in DOMAIN docAnswers' /\ docAnswers'[i - 1] = docAnswers[i]
        BY <1>2, <3>2, TakenFacts
      <4>3. (\E j \in DOMAIN docAnswers : LastRead(j, t) /\ FoundIsHeld(docAnswers[j]))'
        <5>1. docAnswers'[i - 1].found \subseteq held'[coll'[docAnswers'[i - 1].request.view]]
          BY <1>6, <2>4, <4>2 DEF FoundIsHeld
        <5> QED
          BY <4>1, <4>2, <5>1 DEF FoundIsHeld
      <4> QED
        BY <4>3, Zenon DEF ComesTrue
    <3> QED
      BY <3>1, <3>2
  <2>5. ASSUME ~ReadAnswered(t), ShownIsHeld(t)
        PROVE  ComesTrue(t)'
    <3>1. t # v
      BY <1>3, <1>11, <2>5 DEF ReadAnswered
    <3>2. viewed'[t] = viewed[t]
      BY <1>0, <2>2, <2>6, <3>1 DEF ViewsOK
    <3>3. ShownIsHeld(t)'
      BY <1>6, <2>5, <3>2 DEF ShownIsHeld
    <3>4. ~ReadAnswered(t)'
      BY <1>12, <2>5, <3>1
    <3> QED
      BY <3>3, <3>4 DEF ComesTrue
  <2> QED
    BY <2>1, <2>3, <2>4, <2>5 DEF ComesTrue
<1> QED
  BY <1>9, <1>10, <1>14, <1>15, <1>16 DEF DocumentsKept

\* The queries that follow a write: one of every view, whatever their order.
LEMMA QueriesFacts ==
  ASSUME TabsOK, NEW order \in SetToSeqs(Listeners),
         NEW w, w = [i \in DOMAIN order |-> QueryOf(order[i])]
  PROVE  /\ w \in Seq(Ask) /\ Len(w) \in Nat /\ DOMAIN w = 1..Len(w)
         /\ \A i \in 1..Len(w) : RequestOK(w[i]) /\ w[i].op = "query"
         /\ \A v \in Views : \E i \in 1..Len(w) : Reads(w[i], first[v])
<1>1. IsFiniteSet(Views) /\ order \in SetToSeqs(Views)
  BY DocumentsAssumption DEF Listeners
<1>2. PICK n : n = Cardinality(Views)
  OBVIOUS
<1>3. /\ n \in Nat /\ order \in Seq(Views) /\ DOMAIN order = 1..n
      /\ \A v \in Views : \E i \in 1..n : order[i] = v
  BY <1>1, <1>2, ListsOfSet
<1>4. \A i \in 1..n : order[i] \in Views
  BY <1>3, LenProperties, ElementOfSeq
<1>5. ASSUME NEW v \in Views
      PROVE  /\ QueryOf(v) \in Query /\ RequestOK(QueryOf(v)) /\ QueryOf(v).op = "query"
             /\ Reads(QueryOf(v), first[v])
  <2>1. first[v] \in Views
    BY DEF TabsOK
  <2>2. PICK r : r = [op |-> "query", view |-> v, into |-> first[v]]
    OBVIOUS
  <2>3. r \in Query /\ r.into = first[v] /\ r.view = v /\ r.op = "query"
    BY <2>1, <2>2 DEF Query
  <2> QED
    BY <2>2, <2>3 DEF QueryOf, RequestOK, Reads
<1>6. \A i \in 1..n : w[i] = QueryOf(order[i])
  BY <1>3
<1>7. /\ \A i \in 1..n : w[i] \in Ask /\ RequestOK(w[i]) /\ w[i].op = "query"
      /\ \A v \in Views : \E i \in 1..n : Reads(w[i], first[v])
  BY <1>3, <1>4, <1>5, <1>6 DEF Ask
<1>8. w \in [1..n -> Ask]
  <2>1. w = [i \in 1..n |-> w[i]]
    BY <1>3
  <2> QED
    BY <1>7, <2>1
<1>9. w \in Seq(Ask) /\ Len(w) = n /\ DOMAIN w = 1..n
  BY <1>3, <1>8, SeqDef, LenProperties
<1> QED
  BY <1>3, <1>7, <1>9

\* The answer to a write: to the first of several, and then every view reads again; to
\* another, and then nothing; or a failure.
LEMMA HandleWriteKeeps ==
  ASSUME DocumentsKept, DeliverDocs, Head(docAnswers).request.op # "query"
  PROVE  DocumentsKept'
<1>0. ViewsOK /\ TabsOK /\ TailsAreFollowed /\ ViewsComeTrue /\ WaitingIsFor /\ QueuesOK
  BY DEF DocumentsKept
<1>1. PICK a : a = Head(docAnswers)
  OBVIOUS
<1>2. /\ docAnswers # <<>> /\ docAnswers' = Tail(docAnswers) /\ ~crashed
      /\ HandleWrite(a) /\ UNCHANGED fixedVars /\ UNCHANGED <<held, dialog, opened, front, policy, spoiled>>
  BY <1>1 DEF DeliverDocs
<1>3. /\ RequestOK(a.request) /\ (~spoiled => a.ok) /\ a = docAnswers[1]
      /\ 1 \in DOMAIN docAnswers /\ a.request.op # "query"
  BY <1>1, <1>2, TakenFacts
<1>4. a.request.index \in Nat
  BY <1>3 DEF RequestOK, Write, Query
<1>5. /\ first' = first /\ coll' = coll /\ held' = held /\ spoiled' = spoiled
      /\ viewed' = viewed /\ crashed' = crashed
  BY <1>2 DEF HandleWrite, fixedVars
<1>6. ViewsOK'
  BY <1>0, <1>5 DEF ViewsOK, Tabbed
<1>7. \A t : ~Reads(a.request, t)
  BY <1>3 DEF Reads
<1>8. /\ ~IsHead(a.request) => (HeadPending /\ docRequests' = docRequests => HeadPending')
      /\ \A t : ReadAnswered(t) <=> ReadAnswered(t)'
      /\ \A t, i : i \in DOMAIN docAnswers /\ i # 1 /\ LastRead(i, t) => LastRead(i - 1, t)'
  BY <1>1, <1>2, <1>7, TakenLeaves
<1>9. crashed' \in BOOLEAN
  BY <1>0, <1>5 DEF TabsOK
<1>10. CASE a.request.index > 0
  <2>1. docRequests' = docRequests /\ waiting' = waiting
    BY <1>2, <1>10 DEF HandleWrite
  <2>2. TabsOK' /\ QueuesOK' /\ DialogOK'
    BY <1>2, <1>9, <2>1, TakenKeeps
  <2>3. HeadPending => HeadPending'
    BY <1>8, <1>10, <2>1 DEF IsHead
  <2>4. \A t : ReadQueued(t)' <=> ReadQueued(t)
    BY <2>1 DEF ReadQueued
  <2>5. TailsAreFollowed'
    BY <1>0, <1>5, <2>1, <2>3, Zenon DEF TailsAreFollowed
  <2>6. WaitingIsFor'
    <3> SUFFICES ASSUME NEW t \in waiting, ~spoiled
                 PROVE  HeadPending' \/ ReadQueued(t)' \/ ReadAnswered(t)'
      BY <1>5, <2>1, Zenon DEF WaitingIsFor
    <3>1. HeadPending \/ ReadQueued(t) \/ ReadAnswered(t)
      BY <1>0, <1>2 DEF WaitingIsFor
    <3> QED
      BY <1>8, <2>3, <2>4, <3>1
  <2>7. ViewsComeTrue'
    <3> SUFFICES ASSUME ~spoiled, NEW t \in Views, first[t] = t, ~Tabbed(t)
                 PROVE  ComesTrue(t)'
      BY <1>5 DEF ViewsComeTrue, Tabbed
    <3>1. ComesTrue(t)
      BY <1>0 DEF ViewsComeTrue
    <3>2. HeadPending \/ ReadQueued(t) => ComesTrue(t)'
      BY <2>3, <2>4 DEF ComesTrue
    <3>3. ASSUME NEW i \in DOMAIN docAnswers, LastRead(i, t), FoundIsHeld(docAnswers[i])
          PROVE  ComesTrue(t)'
      <4>1. i # 1
        BY <1>3, <1>7, <3>3 DEF LastRead
      <4>2. LastRead(i - 1, t)'
        BY <1>8, <3>3, <4>1
      <4>3. i - 1 \in DOMAIN docAnswers' /\ docAnswers'[i - 1] = docAnswers[i]
        BY <1>2, <4>1, TakenFacts
      <4>4. (\E j \in DOMAIN docAnswers : LastRead(j, t) /\ FoundIsHeld(docAnswers[j]))'
        <5>1. docAnswers'[i - 1].found \subseteq held'[coll'[docAnswers'[i - 1].request.view]]
          BY <1>5, <3>3, <4>3 DEF FoundIsHeld
        <5> QED
          BY <4>2, <4>3, <5>1 DEF FoundIsHeld
      <4> QED
        BY <4>4, Zenon DEF ComesTrue
    <3>4. ASSUME ~ReadAnswered(t), ShownIsHeld(t)
          PROVE  ComesTrue(t)'
      <4>1. ~ReadAnswered(t)' /\ ShownIsHeld(t)'
        BY <1>5, <1>8, <3>4 DEF ShownIsHeld
      <4> QED
        BY <4>1 DEF ComesTrue
    <3> QED
      BY <3>1, <3>2, <3>3, <3>4 DEF ComesTrue
  <2> QED
    BY <1>6, <2>2, <2>5, <2>6, <2>7 DEF DocumentsKept
<1>11. CASE ~(a.request.index > 0) /\ ~a.ok
  <2>1. docRequests' = docRequests /\ waiting' \subseteq waiting /\ spoiled
    BY <1>2, <1>3, <1>11 DEF HandleWrite
  <2>2. TabsOK' /\ QueuesOK' /\ DialogOK'
    BY <1>2, <1>9, <2>1, TakenKeeps
  <2>3. spoiled'
    BY <1>5, <2>1
  <2>4. TailsAreFollowed' /\ ViewsComeTrue' /\ WaitingIsFor'
    BY <2>3, Zenon DEF TailsAreFollowed, ViewsComeTrue, Tabbed, WaitingIsFor
  <2> QED
    BY <1>6, <2>2, <2>4 DEF DocumentsKept
<1>12. CASE ~(a.request.index > 0) /\ a.ok
  <2>1. PICK order \in SetToSeqs(Listeners) :
           docRequests' = docRequests \o [i \in DOMAIN order |-> QueryOf(order[i])]
    BY <1>2, <1>12 DEF HandleWrite
  <2>2. waiting' = waiting
    BY <1>2, <1>12 DEF HandleWrite
  <2>3. PICK w : w = [i \in DOMAIN order |-> QueryOf(order[i])]
    OBVIOUS
  <2>4. /\ w \in Seq(Ask) /\ Len(w) \in Nat /\ DOMAIN w = 1..Len(w)
        /\ \A i \in 1..Len(w) : RequestOK(w[i]) /\ w[i].op = "query"
        /\ \A v \in Views : \E i \in 1..Len(w) : Reads(w[i], first[v])
    BY <1>0, <2>3, QueriesFacts
  <2>5. PICK q : q = docRequests'
    OBVIOUS
  <2>6. docRequests \in Seq(Ask) /\ Len(docRequests) \in Nat /\ DOMAIN docRequests = 1..Len(docRequests)
        /\ \A i \in DOMAIN docRequests : RequestOK(docRequests[i])
    BY <1>0, LenProperties DEF QueuesOK
  <2>7. /\ q \in Seq(Ask) /\ Len(q) = Len(docRequests) + Len(w)
        /\ \A i \in 1..(Len(docRequests) + Len(w)) :
             q[i] = IF i <= Len(docRequests) THEN docRequests[i] ELSE w[i - Len(docRequests)]
    BY <2>1, <2>3, <2>4, <2>5, <2>6, ConcatProperties
  <2>8. DOMAIN q = 1..(Len(docRequests) + Len(w))
    BY <2>7, LenProperties
  <2>9. \A i \in DOMAIN q : \/ i \in DOMAIN docRequests /\ q[i] = docRequests[i]
                            \/ RequestOK(q[i]) /\ q[i].op = "query"
    <3> SUFFICES ASSUME NEW i \in DOMAIN q, i \notin DOMAIN docRequests
                 PROVE  RequestOK(q[i]) /\ q[i].op = "query"
      BY <2>6, <2>7, <2>8
    <3>1. i - Len(docRequests) \in 1..Len(w) /\ q[i] = w[i - Len(docRequests)]
      BY <2>4, <2>6, <2>7, <2>8
    <3> QED
      BY <2>4, <3>1
  <2>10. \A i \in 1..Len(w) : /\ i + Len(docRequests) \in DOMAIN q /\ q[i + Len(docRequests)] = w[i]
                              /\ \A p \in DOMAIN docRequests : i + Len(docRequests) > p
    <3> SUFFICES ASSUME NEW i \in 1..Len(w)
                 PROVE  /\ i + Len(docRequests) \in DOMAIN q /\ q[i + Len(docRequests)] = w[i]
                        /\ \A p \in DOMAIN docRequests : i + Len(docRequests) > p
      OBVIOUS
    <3>1. \A m, n \in Nat : \A j \in 1..n :
             /\ j + m \in 1..(m + n) /\ ~(j + m <= m) /\ j + m - m = j
             /\ \A p \in 1..m : j + m > p
      OBVIOUS
    <3>2. /\ i + Len(docRequests) \in 1..(Len(docRequests) + Len(w)) /\ ~(i + Len(docRequests) <= Len(docRequests))
          /\ i + Len(docRequests) - Len(docRequests) = i
          /\ \A p \in 1..Len(docRequests) : i + Len(docRequests) > p
      BY <2>4, <2>6, <3>1
    <3>3. q[i + Len(docRequests)] = w[i]
      BY <2>7, <3>2
    <3> QED
      BY <2>6, <2>8, <3>2, <3>3
  <2>11. q \in Seq(Ask) /\ \A i \in DOMAIN q : RequestOK(q[i])
    BY <2>6, <2>7, <2>9
  <2>12. TabsOK' /\ QueuesOK' /\ DialogOK'
    BY <1>2, <1>9, <2>2, <2>5, <2>11, TakenKeeps
  <2>13. ASSUME NEW t \in Views, first[t] = t
         PROVE  ReadQueued(t)'
    <3>1. PICK i \in 1..Len(w) : Reads(w[i], t)
      BY <2>4, <2>13
    <3> QED
      BY <2>5, <2>10, <3>1 DEF ReadQueued
  <2>14. TailsAreFollowed'
    <3> SUFFICES ASSUME NEW p \in DOMAIN q, q[p].op # "query", NEW v \in Views
                 PROVE  \E k \in DOMAIN q : k > p /\ Reads(q[k], first[v])
      BY <1>5, <2>5, Zenon DEF TailsAreFollowed
    <3>1. p \in DOMAIN docRequests
      BY <2>9
    <3>2. PICK i \in 1..Len(w) : Reads(w[i], first[v])
      BY <2>4
    <3> QED
      BY <2>10, <3>1, <3>2
  <2>15. ViewsComeTrue'
    <3> SUFFICES ASSUME NEW t \in Views, first[t] = t
                 PROVE  ComesTrue(t)'
      BY <1>5 DEF ViewsComeTrue, Tabbed
    <3>1. ReadQueued(t)'
      BY <2>13
    <3> QED
      BY <3>1 DEF ComesTrue
  <2>16. WaitingIsFor'
    <3> SUFFICES ASSUME NEW t \in waiting
                 PROVE  ReadQueued(t)'
      BY <2>2, Zenon DEF WaitingIsFor
    <3>1. t \in Views /\ first[t] = t
      BY <1>0 DEF TabsOK
    <3> QED
      BY <2>13, <3>1
  <2> QED
    BY <1>6, <2>12, <2>14, <2>15, <2>16 DEF DocumentsKept
<1> QED
  BY <1>10, <1>11, <1>12
-----------------------------------------------------------------------------
LEMMA NextKeeps ==
  ASSUME DocumentsKept, [DocumentsNext]_docVars
  PROVE  DocumentsKept'
<1>1. CASE DocumentsUser
  BY <1>1, UserKeeps
<1>2. CASE WorkOnDocs
  BY <1>2, WorkOnDocsKeeps
<1>3. CASE DeliverDocs
  BY <1>3, HandleQueryKeeps, HandleWriteKeeps
<1>4. CASE UNCHANGED docVars
  <2>1. /\ UNCHANGED <<first, coll, held, viewed, docRequests, docAnswers, dialog, opened, front, waiting,
                       policy, spoiled, crashed>>
    BY <1>4 DEF docVars
  <2>2. UNCHANGED fixedVars /\ UNCHANGED serverVars
    BY <2>1 DEF fixedVars, serverVars
  <2>3. DialogOK'
    BY <2>1 DEF DocumentsKept, DialogOK, OfItsTab, QuestionIsGuarded, Asks
  <2> QED
    BY <2>1, <2>2, <2>3, NextDialogKeeps
<1> QED
  BY <1>1, <1>2, <1>3, <1>4 DEF DocumentsNext

\* Notifier.cpp:229-288, MongoServer.cpp:273-276, QueryWidget.cpp:284-297: however deletions,
\* edits, insertions and their answers interleave, unless something fails the first of the one
\* or two parts of a tab shows no document that was deleted once all answers are in, no tab is
\* left with a progress display, and where every tab has one part a write goes to the collection
\* its document was shown from.  A tab of more parts puts the answer into the one that is shown
\* (OutputWidget.cpp:115-116) and is not claimed to follow.
THEOREM ViewsFollowWrites == DocumentsSpec => []DocumentsAreSound
<1>1. DocumentsInit => DocumentsKept
  BY InitKeeps
<1>2. DocumentsKept /\ [DocumentsNext]_docVars => DocumentsKept'
  BY NextKeeps
<1>3. DocumentsKept => DocumentsAreSound
  BY KeptIsSound
<1> QED
  BY <1>1, <1>2, <1>3, PTL DEF DocumentsSpec
-----------------------------------------------------------------------------
\* What a step adds to the requests: what a dialog sends, or queries.
LEMMA AddedAreAsked ==
  ASSUME DocumentsKept, [DocumentsNext]_docVars,
         NEW i \in DOMAIN docRequests', i > Len(docRequests),
         docRequests'[i].op \in {"remove", "save"}, Asks(docRequests'[i].does)
  PROVE  docRequests'[i].asked
<1>0. TabsOK /\ QueuesOK
  BY DEF DocumentsKept
<1>1. docRequests \in Seq(Ask) /\ Len(docRequests) \in Nat /\ DOMAIN docRequests = 1..Len(docRequests)
  BY <1>0, LenProperties DEF QueuesOK
<1>2. docRequests' # docRequests
  BY <1>1
<1>3. PICK q : q = docRequests'
  OBVIOUS
<1>4. ASSUME NEW w \in Seq(Ask), q = docRequests \o w
      PROVE  i - Len(docRequests) \in 1..Len(w) /\ q[i] = w[i - Len(docRequests)]
  <2>1. /\ q \in Seq(Ask) /\ Len(q) = Len(docRequests) + Len(w) /\ Len(w) \in Nat
        /\ \A j \in 1..(Len(docRequests) + Len(w)) :
             q[j] = IF j <= Len(docRequests) THEN docRequests[j] ELSE w[j - Len(docRequests)]
    BY <1>1, <1>4, ConcatProperties, LenProperties
  <2>2. i \in 1..(Len(docRequests) + Len(w))
    BY <1>3, <2>1, LenProperties
  <2> QED
    BY <1>1, <2>1, <2>2
<1>5. ASSUME GoesOn
      PROVE  docRequests'[i].asked
  <2>1. PICK d : GoOn(d) /\ (d.step = "send" => Sendable(d))
    BY <1>5, Zenon DEF GoesOn
  <2>2. d.step = "send"
    BY <1>2, <2>1 DEF GoOn
  <2>3. Sendable(d) /\ Sent(d)
    BY <2>1, <2>2 DEF GoOn
  <2>4. PICK w : w = Writes(d)
    OBVIOUS
  <2>5. /\ w \in Seq(Write)
        /\ \A j \in 1..Len(w) : /\ w[j].does = d.does /\ w[j].asked = d.asked
                                /\ w[j].op = "insert" <=> d.does = "insert"
    BY <1>0, <2>3, <2>4, WritesFacts
  <2>6. q = docRequests \o w
    BY <1>3, <2>3, <2>4 DEF Sent
  <2>7. w \in Seq(Ask)
    BY <2>5, SeqMonotonic DEF Ask
  <2>8. PICK j \in 1..Len(w) : docRequests'[i] = w[j]
    BY <1>3, <1>4, <2>6, <2>7
  <2>9. d.does # "insert" /\ Asks(d.does)
    BY <2>5, <2>8
  <2>10. d.asked
    BY <2>3, <2>9 DEF Sendable
  <2> QED
    BY <2>5, <2>8, <2>10, Zenon
<1>6. CASE DocumentsUser
  <2>1. \/ \E never \in BOOLEAN : Proceed(never)
        \/ Agree \/ SaveEditor
    BY <1>2, <1>6 DEF DocumentsUser, SwitchTab, DeleteDocument, DeleteDocuments, EditDocument, InsertDocument,
       OpenDialog, Refuse, TypeText, Cancel, StayInEditor, CloseEditor, Abandoned, serverVars
  <2>2. GoesOn
    BY <2>1, ProceedGoesOn, AgreeGoesOn, SaveEditorGoesOn
  <2> QED
    BY <1>5, <2>2
<1>7. CASE WorkOnDocs
  <2>1. docRequests # <<>> /\ docRequests' = Tail(docRequests)
    BY <1>7 DEF WorkOnDocs
  <2>2. q \in Seq(Ask) /\ Len(q) = Len(docRequests) - 1
    BY <1>1, <1>3, <2>1, HeadTailProperties
  <2>3. DOMAIN q = 1..(Len(docRequests) - 1)
    BY <2>2, LenProperties
  <2> QED
    BY <1>1, <1>3, <2>3
<1>8. CASE DeliverDocs
  <2>1. \/ HandleQuery(Head(docAnswers))
        \/ HandleWrite(Head(docAnswers))
    BY <1>8 DEF DeliverDocs
  <2>2. PICK order \in SetToSeqs(Listeners) :
           docRequests' = docRequests \o [k \in DOMAIN order |-> QueryOf(order[k])]
    BY <1>2, <2>1 DEF HandleQuery, HandleWrite
  <2>3. PICK w : w = [k \in DOMAIN order |-> QueryOf(order[k])]
    OBVIOUS
  <2>4. w \in Seq(Ask) /\ \A j \in 1..Len(w) : w[j].op = "query"
    BY <1>0, <2>3, QueriesFacts
  <2>5. docRequests'[i].op = "query"
    BY <1>3, <1>4, <2>2, <2>3, <2>4
  <2> QED
    BY <2>5
<1>9. CASE UNCHANGED docVars
  BY <1>2, <1>9 DEF docVars
<1> QED
  BY <1>6, <1>7, <1>8, <1>9 DEF DocumentsNext

\* Notifier.cpp:189-199, 411-420: no deletion and no change of a document is sent without the
\* confirmation that the settings ask for at that time, though the guard of one dialog comes
\* before its question, that of another after it, and can be switched off in between.
THEOREM WritesAreConfirmed == DocumentsSpec => GuardedAreAsked
<1>1. DocumentsInit => DocumentsKept
  BY InitKeeps
<1>2. DocumentsKept /\ [DocumentsNext]_docVars => DocumentsKept'
  BY NextKeeps
<1>3. DocumentsKept /\ [DocumentsNext]_docVars =>
        \A i \in DOMAIN docRequests' :
          i > Len(docRequests) /\ docRequests'[i].op \in {"remove", "save"} /\ Asks(docRequests'[i].does) =>
            docRequests'[i].asked
  BY AddedAreAsked, Zenon
<1> QED
  BY <1>1, <1>2, <1>3, PTL DEF DocumentsSpec, GuardedAreAsked
-----------------------------------------------------------------------------
(* The event bus. *)

\* The receivers of one event: at least one, all of the thread t.
AtHome(t, receivers) == \A j \in DOMAIN receivers : Home(receivers[j].obj) = t

\* No event without a receiver is posted.
PostedHaveReceivers ==
  \A t \in Threads : \A i \in DOMAIN queue[t] : queue[t][i] # <<>>

\* The inductive invariant.
BusSafe == BusOK /\ HandlersRunAtHome /\ PostedHaveReceivers

\* The handlers a thread is in are those of its receivers.
StackAtHome == \A t \in Threads : \A i \in DOMAIN stack[t] : AtHome(t, stack[t][i].rem)
QueueAtHome == \A t \in Threads : \A i \in DOMAIN queue[t] : AtHome(t, queue[t][i])

LEMMA HomeParts == HandlersRunAtHome <=> StackAtHome /\ QueueAtHome
BY DEF HandlersRunAtHome, StackAtHome, QueueAtHome, AtHome

LEMMA HomeIsThread == \A o \in Addresses : Home(o) \in Threads
BY DEF Home, Addresses, Threads

LEMMA ObjsLiveInMain == \A o \in Objs : Home(o) = Main /\ o \in Addresses
BY BusAssumption DEF Home, Addresses

LEMMA InitSafe == Init => BusSafe
<1> SUFFICES ASSUME Init PROVE BusSafe
  OBVIOUS
<1>1. /\ DOMAIN subs = {} /\ subs \in Seq(Subscription)
      /\ \A t \in Threads : DOMAIN queue[t] = {} /\ DOMAIN stack[t] = {}
      /\ queue \in [Threads -> Seq(Seq(Receiver))] /\ stack \in [Threads -> Seq(Frame)]
  BY DEF Init
<1>2. TypeOK
  BY <1>1 DEF Init, TypeOK
<1> QED
  BY <1>1, <1>2 DEF BusSafe, BusOK, SubscribersAreAlive, HandlersRunAtHome, PostedHaveReceivers
-----------------------------------------------------------------------------
\* A handler is called: the event is of the thread's own receivers.
LEMMA EnterSafe ==
  ASSUME TypeOK, StackAtHome,
         NEW t \in Threads, NEW receivers \in Seq(Receiver), receivers # <<>>,
         NEW locked \in BOOLEAN, AtHome(t, receivers), Enter(t, receivers, locked)
  PROVE  /\ stack' \in [Threads -> Seq(Frame)] /\ stray' \in BOOLEAN
         /\ StackAtHome'
<1> DEFINE frame == [rem |-> receivers, locked |-> locked]
<1>1. /\ stack' = [stack EXCEPT ![t] = Append(@, frame)]
      /\ stray' = (stray \/ ~Current(Head(receivers)))
  BY DEF Enter
<1>2. frame \in Frame /\ frame.rem = receivers
  BY DEF Frame
<1> HIDE DEF frame
<1>3. stack \in [Threads -> Seq(Frame)] /\ stray \in BOOLEAN
  BY DEF TypeOK
<1>4. stack[t] \in Seq(Frame)
  BY <1>3
<1>5. /\ Append(stack[t], frame) \in Seq(Frame)
      /\ \A i \in 1..Len(stack[t]) : Append(stack[t], frame)[i] = stack[t][i]
      /\ Append(stack[t], frame)[Len(stack[t]) + 1] = frame
      /\ DOMAIN Append(stack[t], frame) = 1..(Len(stack[t]) + 1)
      /\ DOMAIN stack[t] = 1..Len(stack[t]) /\ Len(stack[t]) \in Nat
  BY <1>2, <1>4, AppendProperties, LenProperties
<1>6. stack' \in [Threads -> Seq(Frame)]
  BY <1>1, <1>3, <1>5
<1>7. stack'[t] = Append(stack[t], frame) /\ \A u \in Threads : u # t => stack'[u] = stack[u]
  BY <1>1, <1>3
<1>8. ASSUME NEW u \in Threads, NEW i \in DOMAIN stack'[u]
      PROVE  AtHome(u, stack'[u][i].rem)
  <2>1. CASE u # t
    BY <1>7, <2>1 DEF StackAtHome
  <2>2. CASE u = t /\ i \in 1..Len(stack[t])
    BY <1>5, <1>7, <2>2 DEF StackAtHome
  <2>3. CASE u = t /\ i = Len(stack[t]) + 1
    BY <1>2, <1>5, <1>7, <2>3
  <2>4. u = t => i \in 1..Len(stack[t]) \/ i = Len(stack[t]) + 1
    BY <1>5, <1>7
  <2> QED
    BY <2>1, <2>2, <2>3, <2>4
<1>9. StackAtHome'
  BY <1>8 DEF StackAtHome, AtHome
<1>10. stray' \in BOOLEAN
  BY <1>1
<1> QED
  BY <1>6, <1>9, <1>10

\* An event is called or posted: in both cases it ends up with its own thread.
LEMMA SendEventSafe ==
  ASSUME BusSafe, NEW t \in Threads, NEW to \in Threads, NEW d,
         NEW receivers \in Seq(Receiver), receivers # <<>>,
         NEW locked \in BOOLEAN, AtHome(to, receivers),
         SendEvent(t, to, d, receivers, locked)
  PROVE  /\ stack' \in [Threads -> Seq(Frame)] /\ stray' \in BOOLEAN
         /\ queue' \in [Threads -> Seq(Seq(Receiver))]
         /\ HandlersRunAtHome' /\ PostedHaveReceivers'
<1>1. TypeOK /\ StackAtHome /\ QueueAtHome /\ PostedHaveReceivers
  BY HomeParts DEF BusSafe, BusOK
<1>2. /\ stack \in [Threads -> Seq(Frame)] /\ stray \in BOOLEAN
      /\ queue \in [Threads -> Seq(Seq(Receiver))]
  BY <1>1 DEF TypeOK
<1>3. CASE t = to /\ Enter(t, receivers, locked) /\ UNCHANGED queue
  <2>1. stack' \in [Threads -> Seq(Frame)] /\ stray' \in BOOLEAN /\ StackAtHome'
    BY <1>1, <1>3, EnterSafe
  <2>2. QueueAtHome' /\ PostedHaveReceivers'
    BY <1>1, <1>3 DEF QueueAtHome, PostedHaveReceivers, AtHome
  <2>3. HandlersRunAtHome'
    BY <2>1, <2>2 DEF HandlersRunAtHome, StackAtHome, QueueAtHome, AtHome
  <2> QED
    BY <1>2, <1>3, <2>1, <2>2, <2>3
<1>4. CASE /\ queue' = [queue EXCEPT ![to] = Append(@, receivers)]
           /\ UNCHANGED <<stack, stray>>
  <2>1. queue[to] \in Seq(Seq(Receiver))
    BY <1>2
  <2>2. /\ Append(queue[to], receivers) \in Seq(Seq(Receiver))
        /\ \A i \in 1..Len(queue[to]) : Append(queue[to], receivers)[i] = queue[to][i]
        /\ Append(queue[to], receivers)[Len(queue[to]) + 1] = receivers
        /\ DOMAIN Append(queue[to], receivers) = 1..(Len(queue[to]) + 1)
        /\ DOMAIN queue[to] = 1..Len(queue[to]) /\ Len(queue[to]) \in Nat
    BY <2>1, AppendProperties, LenProperties
  <2>3. /\ queue'[to] = Append(queue[to], receivers)
        /\ \A u \in Threads : u # to => queue'[u] = queue[u]
    BY <1>2, <1>4
  <2>4. queue' \in [Threads -> Seq(Seq(Receiver))]
    BY <1>2, <1>4, <2>2
  <2>5. ASSUME NEW u \in Threads, NEW i \in DOMAIN queue'[u]
        PROVE  AtHome(u, queue'[u][i]) /\ queue'[u][i] # <<>>
    <3>1. CASE u # to
      BY <1>1, <2>3, <3>1 DEF QueueAtHome, PostedHaveReceivers
    <3>2. CASE u = to /\ i \in 1..Len(queue[to])
      BY <1>1, <2>2, <2>3, <3>2 DEF QueueAtHome, PostedHaveReceivers
    <3>3. CASE u = to /\ i = Len(queue[to]) + 1
      BY <2>2, <2>3, <3>3
    <3>4. u = to => i \in 1..Len(queue[to]) \/ i = Len(queue[to]) + 1
      BY <2>2, <2>3
    <3> QED
      BY <3>1, <3>2, <3>3, <3>4
  <2>6. StackAtHome' /\ QueueAtHome' /\ PostedHaveReceivers'
    BY <1>1, <1>4, <2>5 DEF StackAtHome, QueueAtHome, PostedHaveReceivers, AtHome
  <2>7. HandlersRunAtHome'
    BY <2>6 DEF HandlersRunAtHome, StackAtHome, QueueAtHome, AtHome
  <2> QED
    BY <1>2, <1>4, <2>4, <2>6, <2>7
<1> QED
  BY <1>3, <1>4 DEF SendEvent

\* A published event goes to objects of the UI thread.
LEMMA SnapshotIsOfMain ==
  ASSUME TypeOK, NEW type, NEW sender
  PROVE  Snapshot(type, sender) \in Seq(Receiver) /\ AtHome(Main, Snapshot(type, sender))
<1> DEFINE hit == Keep(subs, {s \in ToSet(subs) : Matches(s, type, sender)})
<1>1. hit \in Seq(Subscription)
  BY KeepSet DEF TypeOK
<1>2. Snapshot(type, sender) = [i \in DOMAIN hit |-> [obj |-> hit[i].obj, inc |-> hit[i].inc]]
  BY DEF Snapshot
<1> HIDE DEF hit
<1>3. /\ Len(hit) \in Nat /\ DOMAIN hit = 1..Len(hit)
      /\ \A i \in 1..Len(hit) : hit[i] \in Subscription
  BY <1>1, LenProperties, ElementOfSeq
<1>4. \A i \in 1..Len(hit) :
        /\ [obj |-> hit[i].obj, inc |-> hit[i].inc] \in Receiver
        /\ [obj |-> hit[i].obj, inc |-> hit[i].inc].obj \in Objs
  BY <1>3, ObjsLiveInMain DEF Subscription, Receiver
<1>5. \A i \in 1..Len(hit) : Home(Snapshot(type, sender)[i].obj) = Main
  BY <1>2, <1>3, <1>4, ObjsLiveInMain
<1>6. Snapshot(type, sender) \in [1..Len(hit) -> Receiver]
  BY <1>2, <1>3, <1>4
<1> QED
  BY <1>3, <1>5, <1>6, SeqDef DEF AtHome

LEMMA PublishSafe ==
  ASSUME BusSafe, NEW type, NEW sender, Publish(type, sender)
  PROVE  BusSafe'
<1>1. /\ Snapshot(type, sender) # <<>>
      /\ SendEvent(Main, Main, disp[Main], Snapshot(type, sender), FALSE)
      /\ UNCHANGED <<alive, inc, subs, disp>>
  BY DEF Publish
<1>2. TypeOK /\ SubscribersAreAlive /\ Main \in Threads
  BY DEF BusSafe, BusOK, Threads
<1>3. PICK receivers : receivers = Snapshot(type, sender)
  OBVIOUS
<1>4. receivers \in Seq(Receiver) /\ AtHome(Main, receivers) /\ receivers # <<>>
  BY <1>1, <1>2, <1>3, SnapshotIsOfMain
<1>d. PICK d : d = disp[Main]
  OBVIOUS
<1>5. SendEvent(Main, Main, d, receivers, FALSE)
  BY <1>1, <1>3, <1>d
<1>6. /\ stack' \in [Threads -> Seq(Frame)] /\ stray' \in BOOLEAN
      /\ queue' \in [Threads -> Seq(Seq(Receiver))]
      /\ HandlersRunAtHome' /\ PostedHaveReceivers'
  BY <1>2, <1>4, <1>5, SendEventSafe
<1> QED
  BY <1>1, <1>2, <1>6 DEF BusSafe, BusOK, TypeOK, SubscribersAreAlive, Current

LEMMA SendSafe ==
  ASSUME BusSafe, NEW t \in Threads, NEW o \in Addresses, Send(t, o)
  PROVE  BusSafe'
<1>1. /\ disp' = [disp EXCEPT ![Home(o)] = DispatcherOf(Home(o))]
      /\ SendEvent(t, Home(o), DispatcherOf(Home(o)), <<Ref(o)>>, TRUE)
      /\ UNCHANGED <<alive, inc, subs>>
  BY DEF Send
<1>2. TypeOK /\ SubscribersAreAlive
  BY DEF BusSafe, BusOK
<1>3. PICK to \in Threads : to = Home(o)
  BY HomeIsThread
<1>4. PICK receivers : receivers = <<Ref(o)>>
  OBVIOUS
<1>5. inc \in [Addresses \cup {Main} -> Nat] /\ disp \in [Threads -> Nat]
  BY <1>2 DEF TypeOK
<1>6. PICK d : d = DispatcherOf(to)
  OBVIOUS
<1>7. d \in Nat
  <2>1. to \in Addresses \cup {Main}
    BY DEF Threads, Addresses
  <2> QED
    BY <1>5, <1>6, <2>1 DEF DispatcherOf
<1>8. Ref(o) \in Receiver /\ Ref(o).obj = o
  BY <1>5 DEF Ref, Receiver
<1>9. receivers \in Seq(Receiver) /\ receivers # <<>> /\ AtHome(to, receivers)
  BY <1>3, <1>4, <1>8 DEF AtHome
<1>10. SendEvent(t, to, d, receivers, TRUE)
  BY <1>1, <1>3, <1>4, <1>6
<1>11. /\ stack' \in [Threads -> Seq(Frame)] /\ stray' \in BOOLEAN
       /\ queue' \in [Threads -> Seq(Seq(Receiver))]
       /\ HandlersRunAtHome' /\ PostedHaveReceivers'
  BY <1>9, <1>10, SendEventSafe
<1>12. disp' \in [Threads -> Nat]
  BY <1>1, <1>3, <1>5, <1>6, <1>7
<1> QED
  BY <1>1, <1>2, <1>11, <1>12 DEF BusSafe, BusOK, TypeOK, SubscribersAreAlive, Current

LEMMA DeliverSafe ==
  ASSUME BusSafe, NEW t \in Threads, Deliver(t)
  PROVE  BusSafe'
<1>1. /\ queue[t] # <<>> /\ Enter(t, Head(queue[t]), FALSE)
      /\ queue' = [queue EXCEPT ![t] = Tail(@)]
      /\ UNCHANGED <<alive, inc, subs, disp>>
  BY DEF Deliver
<1>2. /\ TypeOK /\ SubscribersAreAlive /\ StackAtHome /\ QueueAtHome /\ PostedHaveReceivers
      /\ queue \in [Threads -> Seq(Seq(Receiver))]
  BY HomeParts DEF BusSafe, BusOK, TypeOK
<1>3. PICK receivers : receivers = Head(queue[t])
  OBVIOUS
<1>4. /\ queue[t] \in Seq(Seq(Receiver)) /\ Len(queue[t]) \in Nat
      /\ DOMAIN queue[t] = 1..Len(queue[t]) /\ Len(queue[t]) # 0
  BY <1>1, <1>2, LenProperties, EmptySeq
<1>5. /\ receivers \in Seq(Receiver) /\ Tail(queue[t]) \in Seq(Seq(Receiver))
      /\ \A i \in 1..Len(Tail(queue[t])) : Tail(queue[t])[i] = queue[t][i + 1]
      /\ Len(Tail(queue[t])) = Len(queue[t]) - 1
      /\ DOMAIN Tail(queue[t]) = 1..Len(Tail(queue[t]))
  BY <1>1, <1>3, <1>4, HeadTailProperties, LenProperties
<1>6. receivers # <<>> /\ AtHome(t, receivers)
  <2>1. receivers = queue[t][1] /\ 1 \in DOMAIN queue[t]
    BY <1>3, <1>4
  <2> QED
    BY <1>2, <2>1 DEF QueueAtHome, PostedHaveReceivers
<1>7. stack' \in [Threads -> Seq(Frame)] /\ stray' \in BOOLEAN /\ StackAtHome'
  BY <1>1, <1>2, <1>3, <1>5, <1>6, EnterSafe
<1>8. /\ queue'[t] = Tail(queue[t]) /\ \A u \in Threads : u # t => queue'[u] = queue[u]
      /\ queue' \in [Threads -> Seq(Seq(Receiver))]
  BY <1>1, <1>2, <1>5
<1>9. ASSUME NEW i \in DOMAIN queue'[t]
      PROVE  AtHome(t, queue'[t][i]) /\ queue'[t][i] # <<>>
  <2>1. queue'[t][i] = Tail(queue[t])[i] /\ i \in 1..Len(Tail(queue[t]))
    BY <1>5, <1>8
  <2>2. queue'[t][i] = queue[t][i + 1] /\ i + 1 \in DOMAIN queue[t]
    BY <1>4, <1>5, <2>1
  <2> QED
    BY <1>2, <2>2 DEF QueueAtHome, PostedHaveReceivers
<1>10. QueueAtHome' /\ PostedHaveReceivers'
  <2>1. ASSUME NEW u \in Threads, NEW i \in DOMAIN queue'[u]
        PROVE  AtHome(u, queue'[u][i]) /\ queue'[u][i] # <<>>
    BY <1>2, <1>8, <1>9 DEF QueueAtHome, PostedHaveReceivers
  <2> QED
    BY <2>1 DEF QueueAtHome, PostedHaveReceivers, AtHome
<1>11. HandlersRunAtHome'
  BY <1>7, <1>10 DEF HandlersRunAtHome, StackAtHome, QueueAtHome, AtHome
<1> QED
  BY <1>1, <1>2, <1>7, <1>8, <1>10, <1>11
     DEF BusSafe, BusOK, TypeOK, SubscribersAreAlive, Current

LEMMA ReturnSafe ==
  ASSUME BusSafe, NEW t \in Threads, Return(t)
  PROVE  BusSafe'
<1>t. PICK top : top = Last(stack[t])
  OBVIOUS
<1>r. PICK rest : rest = Tail(top.rem)
  OBVIOUS
<1> DEFINE frame == [top EXCEPT !.rem = rest]
<1>1. /\ stack[t] # <<>>
      /\ IF rest = <<>>
         THEN stack' = [stack EXCEPT ![t] = Front(@)] /\ UNCHANGED stray
         ELSE /\ stack' = [stack EXCEPT ![t] = Append(Front(@), frame)]
              /\ stray' = (stray \/ ~Current(Head(rest)))
      /\ UNCHANGED <<alive, inc, subs, disp, queue>>
  BY <1>t, <1>r DEF Return
<1>2. /\ TypeOK /\ SubscribersAreAlive /\ StackAtHome /\ QueueAtHome /\ PostedHaveReceivers
      /\ stack \in [Threads -> Seq(Frame)] /\ stray \in BOOLEAN
  BY HomeParts DEF BusSafe, BusOK, TypeOK
<1>3. /\ stack[t] \in Seq(Frame) /\ Len(stack[t]) \in Nat \ {0}
      /\ DOMAIN stack[t] = 1..Len(stack[t])
      /\ Front(stack[t]) \in Seq(Frame) /\ Len(Front(stack[t])) = Len(stack[t]) - 1
      /\ \A i \in 1..(Len(stack[t]) - 1) : Front(stack[t])[i] = stack[t][i]
      /\ DOMAIN Front(stack[t]) = 1..Len(Front(stack[t]))
      /\ top \in Frame /\ top = stack[t][Len(stack[t])]
  <2>1. stack[t] \in Seq(Frame)
    BY <1>2
  <2> QED
    BY <1>1, <1>t, <2>1, FrontLastFacts, LenProperties
<1>4. /\ top.rem \in Seq(Receiver) /\ top.rem # <<>> /\ top.locked \in BOOLEAN
      /\ AtHome(t, top.rem)
  <2>1. Len(stack[t]) \in DOMAIN stack[t]
    BY <1>3
  <2> QED
    BY <1>2, <1>3, <2>1 DEF StackAtHome, Frame
<1>5. rest \in Seq(Receiver) /\ AtHome(t, rest)
  <2>1. /\ rest \in Seq(Receiver) /\ Len(rest) = Len(top.rem) - 1
        /\ \A i \in 1..Len(rest) : rest[i] = top.rem[i + 1]
    BY <1>r, <1>4, HeadTailProperties
  <2>2. DOMAIN rest = 1..Len(rest) /\ DOMAIN top.rem = 1..Len(top.rem) /\ Len(top.rem) \in Nat
    BY <1>4, <2>1, LenProperties
  <2>3. \A i \in DOMAIN rest : i + 1 \in DOMAIN top.rem /\ rest[i] = top.rem[i + 1]
    BY <2>1, <2>2
  <2> QED
    BY <1>4, <2>1, <2>3 DEF AtHome
<1>6. rest # <<>> => frame \in Frame /\ frame.rem = rest
  BY <1>3, <1>5 DEF Frame
<1> HIDE DEF frame
<1>7. /\ stack' \in [Threads -> Seq(Frame)] /\ stray' \in BOOLEAN
      /\ \A u \in Threads : u # t => stack'[u] = stack[u]
      /\ \A i \in DOMAIN stack'[t] : \/ i \in DOMAIN stack[t] /\ stack'[t][i] = stack[t][i]
                                     \/ stack'[t][i].rem = rest
  <2>1. CASE rest = <<>>
    <3>1. stack' = [stack EXCEPT ![t] = Front(stack[t])] /\ stray' = stray
      BY <1>1, <2>1
    <3>2. stack'[t] = Front(stack[t])
      BY <1>2, <3>1
    <3>3. \A i \in DOMAIN stack'[t] : i \in DOMAIN stack[t] /\ stack'[t][i] = stack[t][i]
      BY <1>3, <3>2
    <3> QED
      BY <1>2, <1>3, <3>1, <3>3
  <2>2. CASE rest # <<>>
    <3> DEFINE new == Append(Front(stack[t]), frame)
    <3>1. stack' = [stack EXCEPT ![t] = new] /\ stray' \in BOOLEAN
      BY <1>1, <2>2
    <3>2. /\ new \in Seq(Frame) /\ Len(new) = Len(Front(stack[t])) + 1
          /\ \A i \in 1..Len(Front(stack[t])) : new[i] = Front(stack[t])[i]
          /\ new[Len(Front(stack[t])) + 1] = frame
      BY <1>3, <1>6, <2>2, AppendProperties
    <3>3. DOMAIN new = 1..Len(new)
      BY <3>2, LenProperties
    <3> HIDE DEF new
    <3>4. stack'[t] = new /\ \A u \in Threads : u # t => stack'[u] = stack[u]
      BY <1>2, <3>1
    <3>5. stack' \in [Threads -> Seq(Frame)]
      BY <1>2, <3>1, <3>2
    <3>6. \A i \in DOMAIN new : \/ i \in DOMAIN stack[t] /\ new[i] = stack[t][i]
                                \/ new[i] = frame
      BY <1>3, <3>2, <3>3
    <3> QED
      BY <1>6, <2>2, <3>1, <3>4, <3>5, <3>6
  <2> QED
    BY <2>1, <2>2
<1>8. StackAtHome'
  <2>1. ASSUME NEW u \in Threads, NEW i \in DOMAIN stack'[u]
        PROVE  AtHome(u, stack'[u][i].rem)
    BY <1>2, <1>5, <1>7 DEF StackAtHome
  <2> QED
    BY <2>1 DEF StackAtHome, AtHome
<1>9. HandlersRunAtHome' /\ PostedHaveReceivers'
  BY <1>1, <1>2, <1>8
     DEF HandlersRunAtHome, StackAtHome, QueueAtHome, AtHome, PostedHaveReceivers
<1> QED
  BY <1>1, <1>2, <1>7, <1>9 DEF BusSafe, BusOK, TypeOK, SubscribersAreAlive, Current

LEMMA SubscribeSafe ==
  ASSUME BusSafe, NEW o \in Objs, NEW type \in Types, NEW sender \in Objs \cup {AnySender},
         Subscribe(o, type, sender)
  PROVE  BusSafe'
<1> DEFINE new == [obj |-> o, inc |-> inc[o], type |-> type, sender |-> sender]
<1>1. /\ o \in alive
      /\ disp' = [disp EXCEPT ![Main] = DispatcherOf(Main)]
      /\ subs' = Append(subs, new)
      /\ UNCHANGED <<alive, inc, queue, stack, stray>>
  BY DEF Subscribe
<1>2. /\ TypeOK /\ SubscribersAreAlive
      /\ inc \in [Addresses \cup {Main} -> Nat] /\ disp \in [Threads -> Nat]
      /\ subs \in Seq(Subscription) /\ Main \in Threads
  BY DEF BusSafe, BusOK, TypeOK, Threads
<1>3. new \in Subscription /\ new.obj = o /\ new.inc = inc[o]
  BY <1>2, ObjsLiveInMain DEF Subscription
<1> HIDE DEF new
<1>4. /\ subs' \in Seq(Subscription)
      /\ \A i \in 1..Len(subs) : subs'[i] = subs[i]
      /\ subs'[Len(subs) + 1] = new
      /\ DOMAIN subs' = 1..(Len(subs) + 1) /\ DOMAIN subs = 1..Len(subs) /\ Len(subs) \in Nat
  BY <1>1, <1>2, <1>3, AppendProperties, LenProperties
<1>5. \A i \in DOMAIN subs' : (i \in DOMAIN subs /\ subs'[i] = subs[i]) \/ subs'[i] = new
  BY <1>4
<1>6. SubscribersAreAlive'
  BY <1>1, <1>2, <1>3, <1>5 DEF SubscribersAreAlive, Current
<1>7. disp' \in [Threads -> Nat]
  <2>1. DispatcherOf(Main) \in Nat
    BY <1>2 DEF DispatcherOf
  <2> QED
    BY <1>1, <1>2, <2>1
<1> QED
  BY <1>1, <1>2, <1>4, <1>6, <1>7
     DEF BusSafe, BusOK, TypeOK, HandlersRunAtHome, PostedHaveReceivers

\* An object comes to be at a free address: nobody who subscribed lived there.
LEMMA BirthSafe ==
  ASSUME BusSafe, NEW a \in Addresses, a \notin alive,
         alive' = alive \cup {a}, inc' = [inc EXCEPT ![a] = @ + 1],
         UNCHANGED <<subs, disp, queue, stack, stray>>
  PROVE  BusSafe'
<1>1. /\ TypeOK /\ SubscribersAreAlive
      /\ inc \in [Addresses \cup {Main} -> Nat] /\ alive \subseteq Addresses
  BY DEF BusSafe, BusOK, TypeOK
<1>2. inc' \in [Addresses \cup {Main} -> Nat] /\ alive' \subseteq Addresses
  BY <1>1
<1>3. \A b \in alive : b \in alive' /\ inc'[b] = inc[b]
  BY <1>1
<1>4. SubscribersAreAlive'
  BY <1>1, <1>3 DEF SubscribersAreAlive, Current
<1> QED
  BY <1>1, <1>2, <1>4 DEF BusSafe, BusOK, TypeOK, HandlersRunAtHome, PostedHaveReceivers

LEMMA DestroySafe ==
  ASSUME BusSafe, NEW o \in Objs, Destroy(o)
  PROVE  BusSafe'
<1>1. /\ alive' = alive \ {o} /\ subs' = Keep(subs, {s \in ToSet(subs) : s.obj # o})
      /\ UNCHANGED <<inc, disp, queue, stack, stray>>
  BY DEF Destroy, Unsubscibe
<1>2. TypeOK /\ SubscribersAreAlive /\ subs \in Seq(Subscription)
  BY DEF BusSafe, BusOK, TypeOK
<1>3. subs' \in Seq(Subscription) /\ ToSet(subs') = ToSet(subs) \cap {s \in ToSet(subs) : s.obj # o}
  BY <1>1, <1>2, KeepSet
<1>4. \A i \in DOMAIN subs' : \E j \in DOMAIN subs : subs'[i] = subs[j] /\ subs[j].obj # o
  BY <1>3 DEF ToSet
<1>5. SubscribersAreAlive'
  BY <1>1, <1>2, <1>4 DEF SubscribersAreAlive, Current
<1>6. alive' \subseteq Addresses
  BY <1>1, <1>2 DEF TypeOK
<1> QED
  BY <1>1, <1>2, <1>3, <1>5, <1>6
     DEF BusSafe, BusOK, TypeOK, HandlersRunAtHome, PostedHaveReceivers

\* A worker never subscribes: when it ends, the list has nothing of it.
LEMMA FinishThreadSafe ==
  ASSUME BusSafe, NEW a \in Slots, FinishThread(a)
  PROVE  BusSafe'
<1>1. alive' = alive \ {a} /\ UNCHANGED <<inc, subs, disp, queue, stack, stray>>
  BY DEF FinishThread
<1>2. TypeOK /\ SubscribersAreAlive /\ subs \in Seq(Subscription)
  BY DEF BusSafe, BusOK, TypeOK
<1>3. \A i \in DOMAIN subs : subs[i].obj \in Objs
  <2>1. DOMAIN subs = 1..Len(subs) /\ \A i \in 1..Len(subs) : subs[i] \in Subscription
    BY <1>2, LenProperties, ElementOfSeq
  <2> QED
    BY <2>1 DEF Subscription
<1>4. SubscribersAreAlive'
  BY <1>1, <1>2, <1>3, BusAssumption DEF SubscribersAreAlive, Current
<1> QED
  BY <1>1, <1>2, <1>4 DEF BusSafe, BusOK, TypeOK, HandlersRunAtHome, PostedHaveReceivers
-----------------------------------------------------------------------------
LEMMA NextSafe == BusSafe /\ [Next]_vars => BusSafe'
<1> SUFFICES ASSUME BusSafe, [Next]_vars PROVE BusSafe'
  OBVIOUS
<1>1. ASSUME NEW t \in Threads, NEW o \in Addresses, Send(t, o) PROVE BusSafe'
  BY <1>1, SendSafe
<1>2. ASSUME NEW t \in Threads, Deliver(t) PROVE BusSafe'
  BY <1>2, DeliverSafe
<1>3. ASSUME NEW t \in Threads, Return(t) PROVE BusSafe'
  BY <1>3, ReturnSafe
<1>4. ASSUME NEW o \in Objs, Create(o) PROVE BusSafe'
  BY <1>4, BirthSafe, ObjsLiveInMain DEF Create
<1>5. ASSUME NEW o \in Objs, Destroy(o) PROVE BusSafe'
  BY <1>5, DestroySafe
<1>6. ASSUME NEW o \in Objs, NEW type \in Types, Publish(type, o) PROVE BusSafe'
  BY <1>6, PublishSafe
<1>7. ASSUME NEW o \in Objs, NEW type \in Types, NEW s \in Objs \cup {AnySender},
             Subscribe(o, type, s)
      PROVE  BusSafe'
  BY <1>7, SubscribeSafe
<1>8. ASSUME NEW a \in Slots, StartThread(a) PROVE BusSafe'
  BY <1>8, BirthSafe DEF StartThread, Addresses
<1>9. ASSUME NEW a \in Slots, FinishThread(a) PROVE BusSafe'
  BY <1>9, FinishThreadSafe
<1>10. CASE UNCHANGED vars
  BY <1>10 DEF vars, BusSafe, BusOK, TypeOK, SubscribersAreAlive, Current,
               HandlersRunAtHome, PostedHaveReceivers
<1> QED
  BY <1>1, <1>2, <1>3, <1>4, <1>5, <1>6, <1>7, <1>8, <1>9, <1>10 DEF Next

\* EventBus.cpp:96-97 and 164: the handlers a thread is in, and the events that
\* wait for it, are of receivers that live in that thread, for every history of
\* addresses that are used again.
THEOREM HandlersAtHome == Spec => []HandlersRunAtHome
<1>1. BusSafe => HandlersRunAtHome
  BY DEF BusSafe
<1> QED
  BY <1>1, InitSafe, NextSafe, PTL DEF Spec

\* EventBus.cpp:95-138: the variables stay typed, and the bus keeps no subscription but
\* those of living objects that made them themselves, also where an address is used again.
\* Of the receivers publish() has collected and calls after unlocking (line 89) it says nothing.
THEOREM BusIsOK == Spec => []BusOK
<1>1. BusSafe => BusOK
  BY DEF BusSafe
<1> QED
  BY <1>1, InitSafe, NextSafe, PTL DEF Spec
-----------------------------------------------------------------------------
(* The views of a result. *)
\* What a text view is made of.
Words == {<<"Loading...">>, <<"// No documents returned.">>, <<"output">>}
Parts == {Part(e, d) : e \in Nat, d \in Nat}
Items == Words \cup Parts
Signal == [thread : Nat, part : Items]
Thread == [of : Nat, left : Seq(Nat)]
PageAsked == [skip : Nat, limit : Int, batch : Batches \cup {DefaultBatch}]

\* The types of what ViewsTypeOK leaves out, and how they go together.
ViewsAreTyped ==
  /\ docs \in Seq(Nat) /\ text \in Seq(Items)
  /\ resultKind \in {"text", "find", "stats"}
  /\ threads \in Seq(Thread) /\ posted \in Seq(Signal) /\ asked \in Seq(PageAsked)
  /\ query.skip \in Nat /\ query.limit = 0
  /\ bar \in [skip : Nat, batch : Batches \cup {DefaultBatch}]
  /\ edition + Len(asked) <= MaxPages + 1
  /\ asked # <<>> => resultKind = "find"
  /\ resultKind = "text" => docs = <<>>
  /\ rendered => "text" \in built

\* The signals ps count the documents d of page e that the thread w has sent: f[i] after
\* the i-th, from m, which the view has, to k, which the thread has done.
Counts(f, ps, w, e, d, m, k) ==
  /\ f \in [0..Len(ps) -> 0..Len(d)] /\ f[0] = m /\ f[Len(ps)] = k
  /\ \A i \in 1..Len(ps) :
       IF ps[i].thread = w THEN f[i] = f[i - 1] + 1 /\ ps[i].part = Part(e, d[f[i]])
       ELSE f[i] = f[i - 1]

\* The text x of the documents d of page e, which the thread t prepares: the view has the first
\* documents (none before it is rendered, r), the signals ps on their way have the next ones,
\* and the thread has the rest.
TextIsComing(t, ths, e, d, ps, r, x) ==
  /\ t \in DOMAIN ths /\ ths[t].of = e
  /\ ~r => x = LoadingText
  /\ r => \A j \in 1..Len(x) : x[j] = Part(e, d[j])
  /\ \E f, k :
       /\ Counts(f, ps, t, e, d, IF r THEN Len(x) ELSE 0, k)
       /\ Len(ths[t].left) = Len(d) - k
       /\ \A j \in 1..Len(ths[t].left) : ths[t].left[j] = d[k + j]

TextGoesOn ==
  "text" \in built /\ docs # <<>> => TextIsComing(newest, threads, edition, docs, posted, rendered, text)

\* The inductive invariant.
ViewsInv == ViewsTypeOK /\ ViewsAreTyped /\ TextGoesOn

\* A signal more.
LEMMA CountsPosted ==
  ASSUME NEW T, NEW ps \in Seq(T), NEW d, Len(d) \in Nat, NEW s \in T,
         NEW f, NEW w, NEW e, NEW m, NEW k, Counts(f, ps, w, e, d, m, k),
         IF s.thread = w THEN k < Len(d) /\ s.part = Part(e, d[k + 1]) ELSE TRUE
  PROVE  \E g : Counts(g, Append(ps, s), w, e, d, m, IF s.thread = w THEN k + 1 ELSE k)
<1> DEFINE l == IF s.thread = w THEN k + 1 ELSE k
           q == Append(ps, s)
           n == Len(ps)
           g == [i \in 0..(n + 1) |-> IF i = n + 1 THEN l ELSE f[i]]
<1>1. /\ Len(q) = n + 1 /\ n \in Nat
      /\ \A i \in 1..n : q[i] = ps[i]
      /\ q[n + 1] = s
  BY AppendProperties, LenProperties
<1>2. /\ f \in [0..n -> 0..Len(d)] /\ f[0] = m /\ f[n] = k
      /\ \A i \in 1..n :
           IF ps[i].thread = w THEN f[i] = f[i - 1] + 1 /\ ps[i].part = Part(e, d[f[i]])
           ELSE f[i] = f[i - 1]
  BY DEF Counts
<1>3. k \in 0..Len(d) /\ l \in 0..Len(d)
  <2>1. k \in 0..Len(d)
    BY <1>1, <1>2
  <2>2. s.thread = w => k < Len(d)
    OBVIOUS
  <2>3. k < Len(d) => k + 1 \in 0..Len(d)
    BY <2>1
  <2> QED
    BY <2>1, <2>2, <2>3
<1> HIDE DEF l, q
<1>4. g \in [0..(n + 1) -> 0..Len(d)] /\ g[0] = m /\ g[n + 1] = l
  BY <1>1, <1>2, <1>3
<1>5. \A i \in 1..n : g[i] = f[i] /\ g[i - 1] = f[i - 1]
  BY <1>1
<1>6. g[n] = k
  BY <1>1, <1>2
<1> HIDE DEF g
<1>7. \A i \in 1..n :
        IF q[i].thread = w THEN g[i] = g[i - 1] + 1 /\ q[i].part = Part(e, d[g[i]])
        ELSE g[i] = g[i - 1]
  BY <1>1, <1>2, <1>5
<1>8. IF s.thread = w THEN g[n + 1] = g[n] + 1 /\ s.part = Part(e, d[g[n + 1]])
      ELSE g[n + 1] = g[n]
  BY <1>4, <1>6 DEF l
<1>9. (n + 1) - 1 = n /\ \A i \in 1..(n + 1) : i \in 1..n \/ i = n + 1
  BY <1>1
<1>10. \A i \in 1..(n + 1) :
         IF q[i].thread = w THEN g[i] = g[i - 1] + 1 /\ q[i].part = Part(e, d[g[i]])
         ELSE g[i] = g[i - 1]
  <2> SUFFICES ASSUME NEW i \in 1..(n + 1)
               PROVE  IF q[i].thread = w THEN g[i] = g[i - 1] + 1 /\ q[i].part = Part(e, d[g[i]])
                      ELSE g[i] = g[i - 1]
    OBVIOUS
  <2>1. CASE i \in 1..n
    BY <1>7, <2>1
  <2>2. CASE i = n + 1
    BY <1>1, <1>8, <1>9, <2>2
  <2> QED
    BY <1>9, <2>1, <2>2
<1>11. Counts(g, q, w, e, d, m, l)
  BY <1>1, <1>4, <1>10 DEF Counts
<1> QED
  BY <1>11 DEF q, l

\* The first signal is taken.
LEMMA CountsTaken ==
  ASSUME NEW T, NEW ps \in Seq(T), ps # <<>>, NEW d, Len(d) \in Nat,
         NEW f, NEW w, NEW e, NEW m, NEW k, Counts(f, ps, w, e, d, m, k)
  PROVE  /\ \E g : Counts(g, Tail(ps), w, e, d, IF Head(ps).thread = w THEN m + 1 ELSE m, k)
         /\ Head(ps).thread = w =>
              m \in Nat /\ m + 1 \in 1..Len(d) /\ Head(ps).part = Part(e, d[m + 1])
<1> DEFINE l == IF Head(ps).thread = w THEN m + 1 ELSE m
           q == Tail(ps)
           n == Len(q)
           g == [i \in 0..n |-> f[i + 1]]
<1>1. /\ Len(ps) = n + 1 /\ n \in Nat /\ Head(ps) = ps[1]
      /\ \A i \in 1..n : q[i] = ps[i + 1]
  BY HeadTailProperties, LenProperties, EmptySeq
<1>2. /\ f \in [0..(n + 1) -> 0..Len(d)] /\ f[0] = m /\ f[n + 1] = k
      /\ \A i \in 1..(n + 1) :
           IF ps[i].thread = w THEN f[i] = f[i - 1] + 1 /\ ps[i].part = Part(e, d[f[i]])
           ELSE f[i] = f[i - 1]
  BY <1>1 DEF Counts
<1> HIDE DEF q, n
<1>3. 1 \in 1..(n + 1) /\ 1 - 1 = 0 /\ 0 \in 0..(n + 1) /\ 1 \in 0..(n + 1)
  BY <1>1
<1>4. /\ IF ps[1].thread = w THEN f[1] = f[0] + 1 /\ ps[1].part = Part(e, d[f[1]]) ELSE f[1] = f[0]
      /\ f[0] \in 0..Len(d) /\ f[1] \in 0..Len(d)
  BY <1>2, <1>3
<1>5. f[1] = l /\ (Head(ps).thread = w =>
                     m \in Nat /\ m + 1 \in 1..Len(d) /\ Head(ps).part = Part(e, d[m + 1]))
  BY <1>1, <1>2, <1>4
<1> HIDE DEF l
<1>6. \A i \in 0..n : i + 1 \in 0..(n + 1)
  BY <1>1
<1>7. g \in [0..n -> 0..Len(d)] /\ g[0] = l /\ g[n] = k
  BY <1>1, <1>2, <1>5, <1>6
<1>8. \A i \in 1..n : /\ g[i] = f[i + 1] /\ g[i - 1] = f[i] /\ i + 1 \in 1..(n + 1)
                      /\ (i + 1) - 1 = i
  BY <1>1
<1> HIDE DEF g
<1>9. \A i \in 1..n :
        IF q[i].thread = w THEN g[i] = g[i - 1] + 1 /\ q[i].part = Part(e, d[g[i]])
        ELSE g[i] = g[i - 1]
  <2> SUFFICES ASSUME NEW i \in 1..n
               PROVE  IF q[i].thread = w THEN g[i] = g[i - 1] + 1 /\ q[i].part = Part(e, d[g[i]])
                      ELSE g[i] = g[i - 1]
    OBVIOUS
  <2>1. PICK j : j = i + 1
    OBVIOUS
  <2>2. j \in 1..(n + 1) /\ j - 1 = i /\ q[i] = ps[j] /\ g[i] = f[j] /\ g[i - 1] = f[j - 1]
    BY <1>1, <1>8, <2>1
  <2> QED
    BY <1>2, <2>2
<1>10. Counts(g, q, w, e, d, l, k)
  BY <1>7, <1>9 DEF Counts, n
<1> QED
  BY <1>5, <1>10 DEF l, q

LEMMA PairFacts ==
  ASSUME NEW a \in Int, NEW b \in Int
  PROVE  /\ Max({a, b}) \in {a, b} /\ Max({a, b}) >= a /\ Max({a, b}) >= b
         /\ Min({a, b}) \in {a, b} /\ Min({a, b}) <= a /\ Min({a, b}) <= b
<1>1. \E x \in {a, b} : \A y \in {a, b} : x >= y
  <2>1. CASE a >= b
    BY <2>1
  <2>2. CASE b >= a
    BY <2>2
  <2> QED
    BY <2>1, <2>2
<1>2. \E x \in {a, b} : \A y \in {a, b} : x <= y
  <2>1. CASE a >= b
    BY <2>1
  <2>2. CASE b >= a
    BY <2>2
  <2> QED
    BY <2>1, <2>2
<1>3. Max({a, b}) \in {a, b} /\ \A y \in {a, b} : Max({a, b}) >= y
  BY <1>1 DEF Max
<1>4. Min({a, b}) \in {a, b} /\ \A y \in {a, b} : Min({a, b}) <= y
  BY <1>2 DEF Min
<1> QED
  BY <1>3, <1>4

LEMMA BatchIsNat == DefaultBatch \in Nat /\ \A b \in Batches \cup {DefaultBatch} : b \in Nat
<1>1. Batches \ {0} \subseteq Nat /\ Batches \ {0} # {}
  BY ViewsAssumption
<1>2. Min(Batches \ {0}) \in Batches \ {0}
  BY <1>1, MinOfSet
<1> QED
  BY <1>1, <1>2, ViewsAssumption DEF DefaultBatch

LEMMA FoundFacts ==
  ASSUME NEW q, q.skip \in Nat, q.limit \in Int, NEW total \in Nat
  PROVE  Found(q, total) \in Seq(Nat)
<1> DEFINE to == IF q.limit = 0 THEN total ELSE Min({total, q.skip + q.limit})
           n == Max({0, to - q.skip})
<1>1. to \in Int
  <2>1. q.skip + q.limit \in Int /\ total \in Int
    OBVIOUS
  <2>2. Min({total, q.skip + q.limit}) \in {total, q.skip + q.limit}
    BY <2>1, PairFacts
  <2> QED
    BY <2>1, <2>2
<1> HIDE DEF to
<1>2. n \in Nat
  <2>1. to - q.skip \in Int /\ 0 \in Int
    BY <1>1
  <2>2. Max({0, to - q.skip}) \in {0, to - q.skip} /\ Max({0, to - q.skip}) >= 0
    BY <2>1, PairFacts
  <2> QED
    BY <2>1, <2>2
<1>3. Found(q, total) = IF q.limit = -1 THEN <<>> ELSE [i \in 1..n |-> q.skip + i]
  BY DEF Found, to
<1> HIDE DEF n
<1>4. [i \in 1..n |-> q.skip + i] \in [1..n -> Nat]
  BY <1>2
<1>5. [i \in 1..n |-> q.skip + i] \in Seq(Nat)
  BY <1>2, <1>4, SeqDef
<1>6. <<>> \in Seq(Nat)
  BY EmptySeq
<1> QED
  BY <1>3, <1>5, <1>6

LEMMA ItemsFacts ==
  /\ LoadingText \in Seq(Items) /\ NoDocuments \in Seq(Items) /\ Output \in Seq(Items)
  /\ <<>> \in Seq(Items)
  /\ \A e, d \in Nat : Part(e, d) \in Items
<1>1. PICK a : a = <<"Loading...">>
  OBVIOUS
<1>2. PICK b : b = <<"// No documents returned.">>
  OBVIOUS
<1>3. PICK c : c = <<"output">>
  OBVIOUS
<1>4. Words = {a, b, c}
  BY <1>1, <1>2, <1>3, Zenon DEF Words
<1>5. a \in Items /\ b \in Items /\ c \in Items
  BY <1>4 DEF Items
<1>9. \A e, d \in Nat : Part(e, d) \in Items
  BY DEF Items, Parts
<1>6. LoadingText = <<a>> /\ NoDocuments = <<b>> /\ Output = <<c>>
  BY <1>1, <1>2, <1>3, Zenon DEF LoadingText, NoDocuments, Output
<1>7. <<>> \in Seq(Items)
  BY EmptySeq
<1>8. <<a>> \in Seq(Items) /\ <<b>> \in Seq(Items) /\ <<c>> \in Seq(Items)
  BY <1>5
<1> QED
  BY <1>6, <1>7, <1>8, <1>9, Zenon

LEMMA ViewsNow ==
  ASSUME ViewsInv
  PROVE  /\ viewMode \in Modes \cup {"none"} /\ built \subseteq Modes
         /\ ("custom" \in built => resultKind = "stats")
         /\ (resultKind = "text" => built \subseteq {"text"})
         /\ (viewMode # "none" => current \in built /\ button = current)
         /\ bar.skip \in Nat /\ bar.batch \in Batches \cup {DefaultBatch}
         /\ edition \in 1 .. MaxPages + 1 /\ newest \in 0..Len(threads)
         /\ rendered \in BOOLEAN
         /\ \A i \in DOMAIN posted : posted[i].thread \in DOMAIN threads
BY DEF ViewsInv, ViewsTypeOK

\* The view that is chosen is supported.
LEMMA DowngradedFacts ==
  ASSUME resultKind \in {"text", "find", "stats"}, NEW view \in Modes \cup {"none"}
  PROVE  /\ Downgraded(view) \in Modes
         /\ Downgraded(view) = "custom" => resultKind = "stats"
         /\ resultKind = "text" => Downgraded(view) = "text"
<1>1. CASE resultKind = "text"
  <2>1. Supported = {"text"}
    BY <1>1 DEF Supported
  <2>2. Downgraded(view) = "text"
    BY <2>1 DEF Downgraded
  <2> QED
    BY <1>1, <2>2 DEF Modes
<1>2. CASE resultKind = "find"
  <2>1. Supported = {"text", "tree", "table"}
    BY <1>2 DEF Supported
  <2>2. Downgraded(view) \in {"text", "tree", "table"}
    BY <2>1 DEF Downgraded
  <2> QED
    BY <1>2, <2>2 DEF Modes
<1>3. CASE resultKind = "stats"
  <2>1. Supported = Modes
    BY <1>3 DEF Supported
  <2>2. Downgraded(view) \in Modes
    BY <2>1 DEF Downgraded, Modes
  <2> QED
    BY <1>3, <2>2
<1> QED
  BY <1>1, <1>2, <1>3

\* A view is put on top: nothing else changes, or a thread starts on all the documents d.
LEMMA PutOnTopFacts ==
  ASSUME ViewsAreTyped, NEW view, NEW existing, NEW e \in Nat, NEW d \in Seq(Nat),
         newest \in 0..Len(threads), PutOnTop(view, existing, e, d)
  PROVE  /\ button' = view /\ current' = view /\ built' = existing \cup {view}
         /\ text' \in Seq(Items) /\ threads' \in Seq(Thread) /\ newest' \in 0..Len(threads')
         /\ DOMAIN threads \subseteq DOMAIN threads'
         /\ \/ /\ UNCHANGED <<newest, threads>>
               /\ (view # "text" \/ view \in existing \/ resultKind = "text" => UNCHANGED text)
               /\ view # "text" \/ view \in existing \/ resultKind = "text" \/ d = <<>>
            \/ /\ "text" \notin existing /\ d # <<>> /\ text' = LoadingText
               /\ newest' \in DOMAIN threads' /\ newest' \notin DOMAIN threads
               /\ threads'[newest'].of = e /\ threads'[newest'].left = d
<1>1. /\ button' = view /\ current' = view /\ built' = existing \cup {view}
      /\ \/ /\ view # "text" \/ view \in existing \/ resultKind = "text"
            /\ UNCHANGED <<text, newest, threads>>
         \/ view = "text" /\ view \notin existing /\ resultKind # "text" /\ OpenText(e, d)
  BY DEF PutOnTop
<1>2. threads \in Seq(Thread) /\ text \in Seq(Items) /\ DOMAIN threads = 1..Len(threads) /\ Len(threads) \in Nat
  BY LenProperties DEF ViewsAreTyped
<1>3. CASE /\ view # "text" \/ view \in existing \/ resultKind = "text"
           /\ UNCHANGED <<text, newest, threads>>
  BY <1>1, <1>2, <1>3
<1>4. CASE view = "text" /\ view \notin existing /\ resultKind # "text" /\ OpenText(e, d)
  <2>1. CASE d = <<>>
    <3>1. text' = NoDocuments /\ UNCHANGED <<newest, threads>>
      BY <1>4, <2>1 DEF OpenText
    <3>2. text' \in Seq(Items)
      BY <3>1, ItemsFacts
    <3> QED
      BY <1>1, <1>2, <1>4, <2>1, <3>1, <3>2
  <2>2. CASE d # <<>>
    <3>1. PICK h : h = [of |-> e, left |-> d]
      OBVIOUS
    <3>2. text' = LoadingText /\ threads' = Append(threads, h) /\ newest' = Len(threads')
      BY <1>4, <2>2, <3>1 DEF OpenText
    <3>3. h \in Thread /\ h.of = e /\ h.left = d
      BY <3>1 DEF Thread
    <3>4. /\ threads' \in Seq(Thread) /\ Len(threads') = Len(threads) + 1
          /\ threads'[Len(threads) + 1] = h /\ DOMAIN threads' = 1..(Len(threads) + 1)
      BY <1>2, <3>2, <3>3, AppendProperties, LenProperties
    <3>5. text' \in Seq(Items)
      BY <3>2, ItemsFacts
    <3>6. newest' = Len(threads) + 1 /\ newest' \in 0..Len(threads')
      BY <1>2, <3>2, <3>4
    <3>7. newest' \in DOMAIN threads' /\ newest' \notin DOMAIN threads
      BY <1>2, <3>4, <3>6
    <3>8. threads'[newest'].of = e /\ threads'[newest'].left = d
      BY <3>3, <3>4, <3>6
    <3>9. DOMAIN threads \subseteq DOMAIN threads'
      BY <1>2, <3>4
    <3> QED
      BY <1>1, <1>4, <2>2, <3>2, <3>4, <3>5, <3>6, <3>7, <3>8, <3>9
  <2> QED
    BY <2>1, <2>2
<1> QED
  BY <1>1, <1>3, <1>4

\* A thread that starts has all the documents to do, and no signal is of it.
LEMMA StartedGoesOn ==
  ASSUME NEW T, NEW ps \in Seq(T), NEW t, NEW ths, NEW e, NEW d \in Seq(Nat),
         t \in DOMAIN ths, ths[t].of = e, ths[t].left = d,
         \A i \in DOMAIN ps : ps[i].thread # t
  PROVE  TextIsComing(t, ths, e, d, ps, FALSE, LoadingText)
<1> DEFINE f == [i \in 0..Len(ps) |-> 0]
<1>1. Len(ps) \in Nat /\ DOMAIN ps = 1..Len(ps) /\ Len(d) \in Nat
  BY LenProperties
<1>2. f \in [0..Len(ps) -> 0..Len(d)] /\ f[0] = 0 /\ f[Len(ps)] = 0
  BY <1>1
<1>3. \A i \in 1..Len(ps) : f[i] = f[i - 1] /\ ps[i].thread # t
  BY <1>1
<1> HIDE DEF f
<1>4. Counts(f, ps, t, e, d, 0, 0)
  BY <1>2, <1>3 DEF Counts
<1>5. Len(d) = Len(d) - 0 /\ \A j \in 1..Len(d) : d[j] = d[0 + j]
  BY <1>1
<1> QED
  BY <1>4, <1>5 DEF TextIsComing

\* The signals on their way are of threads that exist.
LEMMA TextGoesOnTop ==
  ASSUME ViewsInv, NEW view, NEW existing, NEW e \in Nat, NEW d \in Seq(Nat),
         e = edition', d = docs', built' = existing \cup {view},
         \/ /\ UNCHANGED <<newest, threads>>
            /\ (view # "text" \/ view \in existing \/ resultKind = "text" => UNCHANGED text)
            /\ view # "text" \/ view \in existing \/ resultKind = "text" \/ d = <<>>
         \/ /\ "text" \notin existing /\ d # <<>> /\ text' = LoadingText
            /\ newest' \in DOMAIN threads' /\ newest' \notin DOMAIN threads
            /\ threads'[newest'].of = e /\ threads'[newest'].left = d,
         UNCHANGED <<posted, resultKind>>,
         resultKind = "text" => d = <<>>,
         "text" \notin existing => rendered' = FALSE,
         "text" \in existing => existing = built /\ UNCHANGED <<edition, docs, rendered>>
  PROVE  TextGoesOn'
<1>1. /\ built' = existing \cup {view}
      /\ \/ /\ UNCHANGED <<newest, threads>>
            /\ (view # "text" \/ view \in existing \/ resultKind = "text" => UNCHANGED text)
            /\ view # "text" \/ view \in existing \/ resultKind = "text" \/ d = <<>>
         \/ /\ "text" \notin existing /\ d # <<>> /\ text' = LoadingText
            /\ newest' \in DOMAIN threads' /\ newest' \notin DOMAIN threads
            /\ threads'[newest'].of = e /\ threads'[newest'].left = d
  OBVIOUS
<1>2. SUFFICES ASSUME "text" \in built', docs' # <<>>
               PROVE  TextIsComing(newest', threads', edition', docs', posted', rendered', text')
  BY DEF TextGoesOn
<1>3. CASE /\ "text" \notin existing /\ d # <<>> /\ text' = LoadingText
           /\ newest' \in DOMAIN threads' /\ newest' \notin DOMAIN threads
           /\ threads'[newest'].of = e /\ threads'[newest'].left = d
  <2>1. \A i \in DOMAIN posted : posted[i].thread # newest'
    BY <1>3, ViewsNow
  <2>2. posted \in Seq(Signal) /\ rendered' = FALSE /\ posted' = posted
    BY <1>3 DEF ViewsInv, ViewsAreTyped
  <2>3. TextIsComing(newest', threads', e, d, posted, FALSE, LoadingText)
    BY <1>3, <2>1, <2>2, StartedGoesOn
  <2> QED
    BY <1>3, <2>2, <2>3
<1>4. CASE /\ UNCHANGED <<newest, threads>>
           /\ (view # "text" \/ view \in existing \/ resultKind = "text" => UNCHANGED text)
           /\ view # "text" \/ view \in existing \/ resultKind = "text" \/ d = <<>>
  <2>1. "text" \in existing
    BY <1>1, <1>2, <1>4
  <2>2. /\ "text" \in built /\ docs # <<>>
        /\ UNCHANGED <<newest, threads, edition, docs, rendered, text, posted>>
    BY <1>1, <1>2, <1>4, <2>1
  <2>3. TextIsComing(newest, threads, edition, docs, posted, rendered, text)
    BY <2>2 DEF ViewsInv, TextGoesOn
  <2> QED
    BY <2>2, <2>3
<1> QED
  BY <1>1, <1>3, <1>4

\* A step that leaves the text, its documents, its thread and the signals alone.
LEMMA TextStays ==
  ASSUME ViewsInv, UNCHANGED <<built, docs, newest, threads, edition, posted, rendered, text>>
  PROVE  TextGoesOn'
BY DEF ViewsInv, TextGoesOn

\* A thread has other documents to do.
LEMMA LeftFacts ==
  ASSUME NEW ths \in Seq(Thread), NEW t \in DOMAIN ths, NEW r \in Thread, NEW hs,
         hs = [ths EXCEPT ![t] = r]
  PROVE  /\ hs \in Seq(Thread) /\ DOMAIN hs = DOMAIN ths /\ Len(hs) = Len(ths) /\ hs[t] = r
         /\ \A i \in DOMAIN ths : i # t => hs[i] = ths[i]
<1>1. DOMAIN ths = 1..Len(ths)
  BY LenProperties
<1>2. /\ [ths EXCEPT ![t] = r] \in Seq(Thread) /\ Len([ths EXCEPT ![t] = r]) = Len(ths)
      /\ [ths EXCEPT ![t] = r][t] = r
      /\ \A i \in DOMAIN ths : i # t => [ths EXCEPT ![t] = r][i] = ths[i]
  BY <1>1, ExceptSeq
<1>3. hs \in Seq(Thread) /\ Len(hs) = Len(ths) /\ hs[t] = r
      /\ \A i \in DOMAIN ths : i # t => hs[i] = ths[i]
  BY <1>2, Zenon
<1>4. DOMAIN hs = 1..Len(hs)
  BY <1>3, LenProperties
<1> QED
  BY <1>1, <1>3, <1>4

LEMMA ViewsInitInv == ViewsInit => ViewsInv
<1> SUFFICES ASSUME ViewsInit PROVE ViewsInv
  OBVIOUS
<1>1. /\ resultKind \in {"text", "find", "stats"}
      /\ query \in [skip : Skips, limit : {0}]
      /\ page = [skip |-> query.skip, limit |-> query.limit, batch |-> DefaultBatch]
      /\ bar = [skip |-> query.skip, batch |-> DefaultBatch]
      /\ asked = <<>> /\ edition = 1
      /\ viewMode = "none" /\ button = "none" /\ built = {} /\ current = "none"
      /\ text = IF resultKind = "text" THEN Output ELSE <<>>
      /\ rendered = FALSE /\ newest = 0 /\ threads = <<>> /\ posted = <<>>
  BY DEF ViewsInit
<1>2. query.skip \in Nat /\ query.limit = 0 /\ MaxPages \in Nat
  BY <1>1, ViewsAssumption
<1>3. docs \in Seq(Nat) /\ (resultKind = "text" => docs = <<>>)
  <2>1. CASE resultKind = "find"
    <3>1. PICK total \in PageSizes :
            docs = Found([page EXCEPT !.limit = IF @ = 0 THEN DefaultBatch
                                                 ELSE Min({@, DefaultBatch})], total)
      BY <2>1 DEF ViewsInit
    <3>2. PICK q : q = [page EXCEPT !.limit = IF @ = 0 THEN DefaultBatch
                                                 ELSE Min({@, DefaultBatch})]
      OBVIOUS
    <3>3. q.skip \in Nat /\ q.limit \in Int
      BY <1>1, <1>2, <3>2, BatchIsNat
    <3>4. total \in Nat
      BY ViewsAssumption
    <3>5. Found(q, total) \in Seq(Nat)
      BY <3>3, <3>4, FoundFacts
    <3> QED
      BY <2>1, <3>1, <3>2, <3>5
  <2>2. CASE resultKind # "find"
    <3>1. docs = IF resultKind = "stats" THEN <<1>> ELSE <<>>
      BY <2>2 DEF ViewsInit
    <3>2. <<1>> \in Seq(Nat) /\ <<>> \in Seq(Nat)
      OBVIOUS
    <3> QED
      BY <3>1, <3>2
  <2> QED
    BY <2>1, <2>2
<1>4. ViewsTypeOK
  <2>1. newest \in 0..Len(threads) /\ edition \in 1 .. MaxPages + 1
    BY <1>1, <1>2
  <2>2. \A i \in DOMAIN posted : posted[i].thread \in DOMAIN threads
    BY <1>1
  <2>3. bar.skip \in Nat /\ bar.batch \in Batches \cup {DefaultBatch}
    BY <1>1, <1>2
  <2> QED
    BY <1>1, <2>1, <2>2, <2>3 DEF ViewsTypeOK
<1>5. ViewsAreTyped
  <2>1. text \in Seq(Items)
    BY <1>1, ItemsFacts
  <2>2. threads \in Seq(Thread) /\ posted \in Seq(Signal) /\ asked \in Seq(PageAsked)
    BY <1>1
  <2>3. edition + Len(asked) <= MaxPages + 1
    BY <1>1, <1>2
  <2>4. bar \in [skip : Nat, batch : Batches \cup {DefaultBatch}]
    BY <1>1, <1>2
  <2> QED
    BY <1>1, <1>2, <1>3, <2>1, <2>2, <2>3, <2>4 DEF ViewsAreTyped
<1>6. TextGoesOn
  BY <1>1 DEF TextGoesOn
<1> QED
  BY <1>4, <1>5, <1>6 DEF ViewsInv

\* A view is shown: of the same documents.
LEMMA ShowKeepsInv ==
  ASSUME ViewsInv, NEW view \in Modes, ShowView(view)
  PROVE  ViewsInv'
<1>1. PICK v : v = Downgraded(view)
  OBVIOUS
<1>2. PICK e, d : e = edition /\ d = docs
  OBVIOUS
<1>3. viewMode' = view /\ UNCHANGED pagingVars /\ UNCHANGED <<rendered, posted>>
  BY DEF ShowView
<1>4. UNCHANGED <<resultKind, query, bar, asked, page, docs, edition, rendered, posted>>
  BY <1>3 DEF pagingVars
<1>5. ViewsAreTyped /\ newest \in 0..Len(threads)
  BY ViewsNow DEF ViewsInv
<1>6. e \in Nat /\ d \in Seq(Nat)
  BY <1>2, <1>5, ViewsNow DEF ViewsAreTyped
<1>7. PutOnTop(v, built, e, d)
  BY <1>1, <1>2 DEF ShowView
<1>8. /\ button' = v /\ current' = v /\ built' = built \cup {v}
      /\ text' \in Seq(Items) /\ threads' \in Seq(Thread) /\ newest' \in 0..Len(threads')
      /\ DOMAIN threads \subseteq DOMAIN threads'
      /\ \/ /\ UNCHANGED <<newest, threads>>
            /\ (v # "text" \/ v \in built \/ resultKind = "text" => UNCHANGED text)
            /\ v # "text" \/ v \in built \/ resultKind = "text" \/ d = <<>>
         \/ /\ "text" \notin built /\ d # <<>> /\ text' = LoadingText
            /\ newest' \in DOMAIN threads' /\ newest' \notin DOMAIN threads
            /\ threads'[newest'].of = e /\ threads'[newest'].left = d
  BY <1>5, <1>6, <1>7, PutOnTopFacts
<1>9. v \in Modes /\ (v = "custom" => resultKind = "stats") /\ (resultKind = "text" => v = "text")
  BY <1>1, <1>5, DowngradedFacts DEF ViewsAreTyped
<1>10. ViewsTypeOK'
  <2>1. \A i \in DOMAIN posted' : posted'[i].thread \in DOMAIN threads'
    BY <1>4, <1>8, ViewsNow
  <2> QED
    BY <1>3, <1>4, <1>8, <1>9, <2>1, ViewsNow DEF ViewsTypeOK
<1>11. ViewsAreTyped'
  BY <1>4, <1>5, <1>8 DEF ViewsAreTyped
<1>12. TextGoesOn'
  <2>1. /\ resultKind = "text" => d = <<>>
        /\ "text" \notin built => rendered' = FALSE
    BY <1>2, <1>4, <1>5, ViewsNow DEF ViewsAreTyped
  <2>2. e = edition' /\ d = docs'
    BY <1>2, <1>4
  <2> QED
    BY <1>4, <1>6, <1>8, <2>1, <2>2, TextGoesOnTop
<1> QED
  BY <1>10, <1>11, <1>12 DEF ViewsInv

\* A page is asked for.
LEMMA RefreshKeepsInv ==
  ASSUME ViewsInv, NEW skip \in Nat, NEW batch \in Batches \cup {DefaultBatch}, Refresh(skip, batch)
  PROVE  ViewsInv'
<1>1. PICK from : from = Max({skip, query.skip})
  OBVIOUS
<1>2. PICK r : r = [skip |-> from, limit |-> LimitOf(from, batch), batch |-> batch]
  OBVIOUS
<1>3. /\ resultKind = "find" /\ edition + Len(asked) <= MaxPages
      /\ bar' = [bar EXCEPT !.skip = IF skip < query.skip THEN query.skip ELSE @]
      /\ asked' = Append(asked, r)
      /\ UNCHANGED <<resultKind, query, page, docs, edition, viewMode, button, built, current, text, rendered>>
      /\ UNCHANGED <<newest, threads, posted>>
  BY <1>1, <1>2 DEF Refresh, threadVars
<1>4. ViewsAreTyped
  BY DEF ViewsInv
<1>5. query.skip \in Nat /\ query.limit = 0
  BY <1>4 DEF ViewsAreTyped
<1>6. from \in Nat
  <2>0. skip \in Int /\ query.skip \in Int
    BY <1>5
  <2>1. from \in {skip, query.skip} /\ from >= query.skip
    BY <1>1, <2>0, PairFacts
  <2> QED
    BY <1>5, <2>1
<1>7. r \in PageAsked
  <2>1. LimitOf(from, batch) = batch
    BY <1>5 DEF LimitOf
  <2>2. batch \in Int
    BY BatchIsNat
  <2> QED
    BY <1>2, <1>6, <2>1, <2>2 DEF PageAsked
<1>8. asked' \in Seq(PageAsked) /\ Len(asked') = Len(asked) + 1 /\ Len(asked) \in Nat
  BY <1>3, <1>4, <1>7, AppendProperties, LenProperties DEF ViewsAreTyped
<1>9. bar' \in [skip : Nat, batch : Batches \cup {DefaultBatch}]
  <2>1. PICK s : s = IF skip < query.skip THEN query.skip ELSE bar.skip
    OBVIOUS
  <2>2. bar \in [skip : Nat, batch : Batches \cup {DefaultBatch}]
    BY <1>4 DEF ViewsAreTyped
  <2>3. s \in Nat /\ bar' = [bar EXCEPT !.skip = s]
    BY <1>3, <1>5, <2>1, <2>2
  <2> QED
    BY <2>2, <2>3
<1>10. ViewsTypeOK'
  <2>1. bar'.skip \in Nat /\ bar'.batch \in Batches \cup {DefaultBatch}
    BY <1>9
  <2> QED
    BY <1>3, <2>1, ViewsNow DEF ViewsTypeOK
<1>11. ViewsAreTyped'
  <2>1. edition' + Len(asked') <= MaxPages + 1
    <3>1. edition \in Int /\ MaxPages \in Int
      BY ViewsNow, ViewsAssumption
    <3> QED
      BY <1>3, <1>8, <3>1
  <2> QED
    BY <1>3, <1>4, <1>8, <1>9, <2>1 DEF ViewsAreTyped
<1>12. TextGoesOn'
  BY <1>3, TextStays
<1> QED
  BY <1>10, <1>11, <1>12 DEF ViewsInv

\* The paging bar is edited.
LEMMA EditKeepsInv ==
  ASSUME ViewsInv, NEW skip \in Skips, NEW batch \in Batches, EditBar(skip, batch)
  PROVE  ViewsInv'
<1>1. /\ bar' = [skip |-> skip, batch |-> batch]
      /\ UNCHANGED <<resultKind, query, asked, page, docs, edition, viewMode, button, built, current, text, rendered>>
      /\ UNCHANGED <<newest, threads, posted>>
  BY DEF EditBar, threadVars
<1>2. bar' \in [skip : Nat, batch : Batches \cup {DefaultBatch}]
  BY <1>1, ViewsAssumption
<1>3. ViewsTypeOK'
  BY <1>1, <1>2, ViewsNow DEF ViewsTypeOK
<1>4. ViewsAreTyped'
  BY <1>1, <1>2 DEF ViewsInv, ViewsAreTyped
<1>5. TextGoesOn'
  BY <1>1, TextStays
<1> QED
  BY <1>3, <1>4, <1>5 DEF ViewsInv

\* The answer: other documents, and the view of the moment made of them.
LEMMA UpdateKeepsInv ==
  ASSUME ViewsInv, Update
  PROVE  ViewsInv'
<1>1. PICK v, e, d, p : v = Downgraded(viewMode) /\ e = edition' /\ d = docs' /\ p = Head(asked)
  OBVIOUS
<1>2. /\ asked # <<>> /\ asked' = Tail(asked) /\ page' = p
      /\ edition' = edition + 1 /\ rendered' = FALSE
      /\ bar' = [skip |-> p.skip, batch |-> IF p.batch > 0 THEN p.batch ELSE DefaultBatch]
      /\ UNCHANGED <<resultKind, query, viewMode, posted>>
  BY <1>1 DEF Update
<1>3. ViewsAreTyped /\ newest \in 0..Len(threads)
  BY ViewsNow DEF ViewsInv
<1>4. asked \in Seq(PageAsked)
  BY <1>3 DEF ViewsAreTyped
<1>5. /\ p \in PageAsked /\ asked' \in Seq(PageAsked) /\ Len(asked') = Len(asked) - 1
      /\ Len(asked) \in Nat /\ Len(asked) >= 1
  BY <1>1, <1>2, <1>4, HeadTailProperties, LenProperties, EmptySeq
<1>6. p.skip \in Nat /\ p.limit \in Int /\ p.batch \in Batches \cup {DefaultBatch}
  BY <1>5 DEF PageAsked
<1>7. d \in Seq(Nat)
  <2>1. PICK total \in PageSizes : d = Found(p, total)
    BY <1>1 DEF Update
  <2>2. total \in Nat
    BY ViewsAssumption
  <2> QED
    BY <1>6, <2>1, <2>2, FoundFacts
<1>8. e \in Nat /\ edition' \in 1 .. MaxPages + 1 /\ edition' + Len(asked') <= MaxPages + 1
  <2>1. edition \in 1 .. MaxPages + 1 /\ MaxPages \in Nat /\ edition + Len(asked) <= MaxPages + 1
    BY <1>3, ViewsNow, ViewsAssumption DEF ViewsAreTyped
  <2> QED
    BY <1>1, <1>2, <1>5, <2>1
<1>9. PutOnTop(v, {}, e, d)
  BY <1>1 DEF Update, PutOnTop, OpenText
<1>10. /\ button' = v /\ current' = v /\ built' = {} \cup {v}
       /\ text' \in Seq(Items) /\ threads' \in Seq(Thread) /\ newest' \in 0..Len(threads')
       /\ DOMAIN threads \subseteq DOMAIN threads'
       /\ \/ /\ UNCHANGED <<newest, threads>>
             /\ (v # "text" \/ v \in {} \/ resultKind = "text" => UNCHANGED text)
             /\ v # "text" \/ v \in {} \/ resultKind = "text" \/ d = <<>>
          \/ /\ "text" \notin {} /\ d # <<>> /\ text' = LoadingText
             /\ newest' \in DOMAIN threads' /\ newest' \notin DOMAIN threads
             /\ threads'[newest'].of = e /\ threads'[newest'].left = d
  BY <1>3, <1>7, <1>8, <1>9, PutOnTopFacts
<1>11. resultKind = "find"
  BY <1>2, <1>3 DEF ViewsAreTyped
<1>12. v \in Modes /\ v # "custom"
  <2>1. viewMode \in Modes \cup {"none"}
    BY ViewsNow
  <2> QED
    BY <1>1, <1>11, <2>1, DowngradedFacts
<1>13. bar' \in [skip : Nat, batch : Batches \cup {DefaultBatch}]
  BY <1>2, <1>6
<1>14. ViewsTypeOK'
  <2>1. \A i \in DOMAIN posted' : posted'[i].thread \in DOMAIN threads'
    BY <1>2, <1>10, ViewsNow
  <2>2. bar'.skip \in Nat /\ bar'.batch \in Batches \cup {DefaultBatch}
    BY <1>13
  <2>3. /\ built' \subseteq Modes /\ "custom" \notin built' /\ resultKind' # "text"
        /\ current' \in built' /\ button' = current' /\ viewMode' \in Modes \cup {"none"}
    BY <1>2, <1>10, <1>11, <1>12, ViewsNow
  <2> QED
    BY <1>2, <1>8, <1>10, <2>1, <2>2, <2>3 DEF ViewsTypeOK
<1>15. ViewsAreTyped'
  BY <1>1, <1>2, <1>3, <1>5, <1>7, <1>8, <1>10, <1>11, <1>13 DEF ViewsAreTyped
<1>16. TextGoesOn'
  BY <1>1, <1>2, <1>7, <1>8, <1>10, <1>11, TextGoesOnTop
<1> QED
  BY <1>14, <1>15, <1>16 DEF ViewsInv

\* A thread that makes one document more into text.
LEMMA PrepareKeepsInv ==
  ASSUME ViewsInv, NEW t \in DOMAIN threads, Prepare(t)
  PROVE  ViewsInv'
<1>1. PICK w : w = threads[t]
  OBVIOUS
<1>2. PICK s : s = [thread |-> t, part |-> Part(w.of, Head(w.left))]
  OBVIOUS
<1>3. /\ w.left # <<>> /\ posted' = Append(posted, s)
      /\ threads' = [threads EXCEPT ![t].left = Tail(w.left)]
      /\ UNCHANGED <<resultKind, query, bar, asked, page, docs, edition>>
      /\ UNCHANGED <<viewMode, button, built, current, text, rendered, newest>>
  BY <1>1, <1>2 DEF Prepare, pagingVars
<1>4. /\ ViewsAreTyped /\ threads \in Seq(Thread) /\ posted \in Seq(Signal) /\ docs \in Seq(Nat)
      /\ DOMAIN threads = 1..Len(threads) /\ Len(threads) \in Nat
  BY LenProperties DEF ViewsInv, ViewsAreTyped
<1>5. w \in Thread /\ w.of \in Nat /\ w.left \in Seq(Nat) /\ t \in Nat
  <2>1. w \in Thread /\ t \in Nat
    BY <1>1, <1>4
  <2> QED
    BY <2>1 DEF Thread
<1>6. /\ Tail(w.left) \in Seq(Nat) /\ Head(w.left) \in Nat /\ Head(w.left) = w.left[1]
      /\ Len(w.left) \in Nat /\ Len(w.left) >= 1 /\ Len(Tail(w.left)) = Len(w.left) - 1
      /\ \A j \in 1..Len(Tail(w.left)) : Tail(w.left)[j] = w.left[j + 1]
  BY <1>3, <1>5, HeadTailProperties, LenProperties, EmptySeq
<1>7. s \in Signal /\ s.thread = t /\ s.part = Part(w.of, Head(w.left))
  <2>1. Part(w.of, Head(w.left)) \in Items
    BY <1>5, <1>6, ItemsFacts
  <2> QED
    BY <1>2, <1>5, <2>1 DEF Signal
<1>8. /\ threads' \in Seq(Thread) /\ DOMAIN threads' = DOMAIN threads /\ Len(threads') = Len(threads)
      /\ threads'[t].of = w.of /\ threads'[t].left = Tail(w.left)
      /\ \A i \in DOMAIN threads : i # t => threads'[i] = threads[i]
  <2>1. PICK r, hs : r = [w EXCEPT !.left = Tail(w.left)] /\ hs = threads'
    OBVIOUS
  <2>2. r \in Thread /\ r.of = w.of /\ r.left = Tail(w.left)
    BY <1>5, <1>6, <2>1 DEF Thread
  <2>3. threads' = [threads EXCEPT ![t] = r]
    BY <1>1, <1>3, <2>1
  <2>4. /\ hs \in Seq(Thread) /\ DOMAIN hs = DOMAIN threads /\ Len(hs) = Len(threads) /\ hs[t] = r
        /\ \A i \in DOMAIN threads : i # t => hs[i] = threads[i]
    BY <1>4, <2>1, <2>2, <2>3, LeftFacts
  <2> QED
    BY <2>1, <2>2, <2>4
<1>9. /\ posted' \in Seq(Signal)
      /\ \A i \in DOMAIN posted' : posted'[i].thread \in DOMAIN threads'
  <2>1. /\ posted' \in Seq(Signal) /\ Len(posted') = Len(posted) + 1 /\ Len(posted) \in Nat
        /\ \A i \in 1..Len(posted) : posted'[i] = posted[i]
        /\ posted'[Len(posted) + 1] = s
        /\ DOMAIN posted' = 1..(Len(posted) + 1) /\ DOMAIN posted = 1..Len(posted)
    BY <1>3, <1>4, <1>7, AppendProperties, LenProperties
  <2>2. \A i \in DOMAIN posted' : i \in DOMAIN posted \/ i = Len(posted) + 1
    BY <2>1
  <2> QED
    BY <1>7, <1>8, <2>1, <2>2, ViewsNow
<1>10. ViewsTypeOK'
  BY <1>3, <1>8, <1>9, ViewsNow DEF ViewsTypeOK
<1>11. ViewsAreTyped'
  BY <1>3, <1>4, <1>8, <1>9 DEF ViewsAreTyped
<1>12. TextGoesOn'
  <2> SUFFICES ASSUME "text" \in built, docs # <<>>
               PROVE  TextIsComing(newest, threads', edition, docs, posted', rendered, text)
    BY <1>3 DEF TextGoesOn
  <2>1. TextIsComing(newest, threads, edition, docs, posted, rendered, text)
    BY DEF ViewsInv, TextGoesOn
  <2>2. PICK m : m = IF rendered THEN Len(text) ELSE 0
    OBVIOUS
  <2>3. PICK f, k : /\ Counts(f, posted, newest, edition, docs, m, k)
                    /\ Len(threads[newest].left) = Len(docs) - k
                    /\ \A j \in 1..Len(threads[newest].left) : threads[newest].left[j] = docs[k + j]
    BY <2>1, <2>2 DEF TextIsComing
  <2>4. /\ newest \in DOMAIN threads /\ threads[newest].of = edition
        /\ ~rendered => text = LoadingText
        /\ rendered => \A j \in 1..Len(text) : text[j] = Part(edition, docs[j])
    BY <2>1 DEF TextIsComing
  <2>5. Len(docs) \in Nat
    BY <1>4, LenProperties
  <2>6. CASE t = newest
    <3>1. Len(w.left) = Len(docs) - k /\ \A j \in 1..Len(w.left) : w.left[j] = docs[k + j]
      BY <1>1, <2>3, <2>6
    <3>2. k \in Int
      <4>1. Len(posted) \in Nat /\ Len(posted) \in 0..Len(posted)
        BY <1>4, LenProperties
      <4> QED
        BY <2>3, <2>5, <4>1 DEF Counts
    <3>3. k < Len(docs) /\ Head(w.left) = docs[k + 1] /\ w.of = edition
      BY <1>1, <1>6, <2>4, <2>5, <2>6, <3>1, <3>2
    <3>4. PICK g : Counts(g, Append(posted, s), newest, edition, docs, m, k + 1)
      BY <1>4, <1>7, <2>3, <2>5, <2>6, <3>3, CountsPosted
    <3>5. Len(threads'[newest].left) = Len(docs) - (k + 1)
      <4>1. Len(threads'[newest].left) = Len(Tail(w.left))
        BY <1>8, <2>6
      <4>2. Len(Tail(w.left)) = Len(w.left) - 1
        BY <1>6
      <4>3. Len(w.left) = Len(docs) - k
        BY <3>1
      <4> QED
        BY <2>5, <3>2, <4>1, <4>2, <4>3
    <3>6. \A j \in 1..Len(threads'[newest].left) : threads'[newest].left[j] = docs[(k + 1) + j]
      <4> SUFFICES ASSUME NEW j \in 1..Len(Tail(w.left))
                   PROVE  Tail(w.left)[j] = docs[(k + 1) + j]
        BY <1>8, <2>6
      <4>1. Tail(w.left)[j] = w.left[j + 1] /\ j + 1 \in 1..Len(w.left)
        BY <1>6
      <4>2. k + (j + 1) = (k + 1) + j
        BY <3>2
      <4> QED
        BY <3>1, <4>1, <4>2
    <3>7. newest \in DOMAIN threads' /\ threads'[newest].of = edition
      BY <1>8, <2>4, <2>6, <3>3
    <3> QED
      BY <1>3, <2>2, <2>4, <3>4, <3>5, <3>6, <3>7 DEF TextIsComing
  <2>7. CASE t # newest
    <3>1. PICK g : Counts(g, Append(posted, s), newest, edition, docs, m, k)
      BY <1>4, <1>7, <2>3, <2>5, <2>7, CountsPosted
    <3>2. threads'[newest] = threads[newest] /\ newest \in DOMAIN threads'
      BY <1>8, <2>4, <2>7
    <3>3. Counts(g, posted', newest, edition, docs, IF rendered THEN Len(text) ELSE 0, k)
      BY <1>3, <2>2, <3>1
    <3>4. /\ Len(threads'[newest].left) = Len(docs) - k
          /\ \A j \in 1..Len(threads'[newest].left) : threads'[newest].left[j] = docs[k + j]
      BY <2>3, <3>2
    <3> QED
      BY <2>4, <3>2, <3>3, <3>4, Zenon DEF TextIsComing
  <2> QED
    BY <2>6, <2>7
<1> QED
  BY <1>10, <1>11, <1>12 DEF ViewsInv

\* The document that the newest thread has made into text is put into the view.
LEMMA TakenKeepsInv ==
  ASSUME ViewsInv, posted # <<>>, Head(posted).thread = newest, posted' = Tail(posted),
         threads' = threads,
         IF "text" \in built
         THEN text' = (IF rendered THEN text ELSE <<>>) \o <<Head(posted).part>> /\ rendered' = TRUE
         ELSE UNCHANGED <<text, rendered>>,
         UNCHANGED <<resultKind, query, bar, asked, page, docs, edition, viewMode, button, built,
                     current, newest>>
  PROVE  ViewsInv'
<1>1. PICK s : s = Head(posted)
  OBVIOUS
<1>2. PICK x : x = IF rendered THEN text ELSE <<>>
  OBVIOUS
<1>3. ViewsAreTyped /\ posted \in Seq(Signal) /\ docs \in Seq(Nat) /\ text \in Seq(Items)
  BY DEF ViewsInv, ViewsAreTyped
<1>4. /\ s \in Signal /\ posted' \in Seq(Signal) /\ Len(posted') = Len(posted) - 1 /\ Len(posted) \in Nat
      /\ \A i \in 1..Len(posted') : posted'[i] = posted[i + 1]
      /\ DOMAIN posted' = 1..Len(posted') /\ DOMAIN posted = 1..Len(posted)
  BY <1>1, <1>3, HeadTailProperties, LenProperties, EmptySeq
<1>5. s.part \in Items /\ x \in Seq(Items)
  BY <1>2, <1>3, <1>4, ItemsFacts DEF Signal
<1>6. /\ x \o <<s.part>> \in Seq(Items) /\ Len(x \o <<s.part>>) = Len(x) + 1 /\ Len(x) \in Nat
      /\ \A j \in 1..Len(x) : (x \o <<s.part>>)[j] = x[j]
      /\ (x \o <<s.part>>)[Len(x) + 1] = s.part
  BY <1>5
<1>7. "text" \in built => text' = x \o <<s.part>> /\ rendered' = TRUE
  BY <1>1, <1>2
<1>8. text' \in Seq(Items) /\ rendered' \in BOOLEAN /\ (rendered' => "text" \in built)
  <2>1. rendered \in BOOLEAN /\ (rendered => "text" \in built)
    BY <1>3, ViewsNow DEF ViewsAreTyped
  <2>2. CASE "text" \in built
    BY <1>6, <1>7, <2>2
  <2>3. CASE "text" \notin built
    BY <1>3, <2>1, <2>3
  <2> QED
    BY <2>2, <2>3
<1>9. ViewsTypeOK'
  <2>1. \A i \in DOMAIN posted' : i + 1 \in DOMAIN posted /\ posted'[i] = posted[i + 1]
    BY <1>4
  <2>2. \A i \in DOMAIN posted' : posted'[i].thread \in DOMAIN threads'
    BY <2>1, ViewsNow
  <2> QED
    BY <1>8, <2>2, ViewsNow DEF ViewsTypeOK
<1>10. ViewsAreTyped'
  BY <1>3, <1>4, <1>8 DEF ViewsAreTyped
<1>11. TextGoesOn'
  <2> SUFFICES ASSUME "text" \in built, docs # <<>>
               PROVE  TextIsComing(newest, threads, edition, docs, posted', TRUE, text')
    BY <1>7 DEF TextGoesOn
  <2>1. TextIsComing(newest, threads, edition, docs, posted, rendered, text)
    BY DEF ViewsInv, TextGoesOn
  <2>2. PICK m : m = IF rendered THEN Len(text) ELSE 0
    OBVIOUS
  <2>3. PICK f, k : /\ Counts(f, posted, newest, edition, docs, m, k)
                    /\ Len(threads[newest].left) = Len(docs) - k
                    /\ \A j \in 1..Len(threads[newest].left) : threads[newest].left[j] = docs[k + j]
    BY <2>1, <2>2 DEF TextIsComing
  <2>4. /\ newest \in DOMAIN threads /\ threads[newest].of = edition
        /\ rendered => \A j \in 1..Len(text) : text[j] = Part(edition, docs[j])
    BY <2>1 DEF TextIsComing
  <2>5. Len(docs) \in Nat
    BY <1>3, LenProperties
  <2>6. /\ \E g : Counts(g, Tail(posted), newest, edition, docs, m + 1, k)
        /\ s.part = Part(edition, docs[m + 1])
    BY <1>1, <1>3, <2>3, <2>5, CountsTaken
  <2>7. m = Len(x) /\ \A j \in 1..Len(x) : x[j] = Part(edition, docs[j])
    <3>1. CASE rendered
      BY <1>2, <2>2, <2>4, <3>1
    <3>2. CASE ~rendered
      BY <1>2, <2>2, <3>2
    <3> QED
      BY <3>1, <3>2
  <2>8. Len(text') = m + 1
    BY <1>6, <1>7, <2>7
  <2>9. \A j \in 1..Len(text') : text'[j] = Part(edition, docs[j])
    <3> SUFFICES ASSUME NEW j \in 1..(m + 1)
                 PROVE  (x \o <<s.part>>)[j] = Part(edition, docs[j])
      BY <1>7, <2>8
    <3>1. CASE j \in 1..m
      BY <1>6, <2>7, <3>1
    <3>2. CASE j = m + 1
      BY <1>6, <2>6, <2>7, <3>2
    <3>3. j \in 1..m \/ j = m + 1
      BY <1>6, <2>7
    <3> QED
      BY <3>1, <3>2, <3>3
  <2>10. PICK r : r = TRUE
    OBVIOUS
  <2>11. PICK g : Counts(g, posted', newest, edition, docs, IF r THEN Len(text') ELSE 0, k)
    BY <2>6, <2>8, <2>10
  <2>12. TextIsComing(newest, threads, edition, docs, posted', r, text')
    BY <2>3, <2>4, <2>9, <2>10, <2>11 DEF TextIsComing
  <2> QED
    BY <2>10, <2>12
<1> QED
  BY <1>9, <1>10, <1>11 DEF ViewsInv

\* A signal of a thread before is dropped, and its thread is told to stop; it may be past its
\* last check.
LEMMA DroppedKeepsInv ==
  ASSUME ViewsInv, posted # <<>>, Head(posted).thread # newest, Stop(Head(posted).thread),
         \/ posted' = Tail(posted)
         \/ /\ threads[Head(posted).thread].left # <<>>
            /\ posted' = Append(Tail(posted), [thread |-> Head(posted).thread,
                                    part |-> Part(threads[Head(posted).thread].of,
                                                  Head(threads[Head(posted).thread].left))]),
         UNCHANGED <<resultKind, query, bar, asked, page, docs, edition, viewMode, button, built,
                     current, newest, text, rendered>>
  PROVE  ViewsInv'
<1>1. PICK t : t = Head(posted).thread
  OBVIOUS
<1>2. PICK w : w = threads[t]
  OBVIOUS
<1>3. PICK s, q : s = [thread |-> t, part |-> Part(w.of, Head(w.left))] /\ q = Tail(posted)
  OBVIOUS
<1>4. /\ t # newest /\ threads' = [threads EXCEPT ![t].left = <<>>]
      /\ posted' = q \/ (w.left # <<>> /\ posted' = Append(q, s))
  BY <1>1, <1>2, <1>3 DEF Stop
<1>5. /\ ViewsAreTyped /\ threads \in Seq(Thread) /\ posted \in Seq(Signal) /\ docs \in Seq(Nat)
      /\ DOMAIN threads = 1..Len(threads) /\ Len(threads) \in Nat
  BY LenProperties DEF ViewsInv, ViewsAreTyped
<1>6. /\ q \in Seq(Signal) /\ Len(q) = Len(posted) - 1 /\ Len(posted) \in Nat
      /\ \A i \in 1..Len(q) : q[i] = posted[i + 1]
      /\ DOMAIN q = 1..Len(q) /\ DOMAIN posted = 1..Len(posted)
      /\ Head(posted) = posted[1] /\ Len(posted) >= 1
  BY <1>3, <1>5, HeadTailProperties, LenProperties, EmptySeq
<1>7. t \in DOMAIN threads
  BY <1>1, <1>6, ViewsNow
<1>8. w \in Thread /\ w.of \in Nat /\ w.left \in Seq(Nat) /\ t \in Nat
  <2>1. w \in Thread /\ t \in Nat
    BY <1>2, <1>5, <1>7
  <2> QED
    BY <2>1 DEF Thread
<1>9. w.left # <<>> => s \in Signal /\ s.thread = t
  <2> SUFFICES ASSUME w.left # <<>> PROVE s \in Signal /\ s.thread = t
    OBVIOUS
  <2>1. Head(w.left) \in Nat
    BY <1>8, HeadTailProperties, EmptySeq
  <2>2. Part(w.of, Head(w.left)) \in Items
    BY <1>8, <2>1, ItemsFacts
  <2> QED
    BY <1>3, <1>8, <2>2 DEF Signal
<1>10. /\ threads' \in Seq(Thread) /\ DOMAIN threads' = DOMAIN threads /\ Len(threads') = Len(threads)
       /\ \A i \in DOMAIN threads : i # t => threads'[i] = threads[i]
  <2>1. PICK r, hs : r = [w EXCEPT !.left = <<>>] /\ hs = threads'
    OBVIOUS
  <2>2. r \in Thread
    <3>1. <<>> \in Seq(Nat)
      BY EmptySeq
    <3> QED
      BY <1>8, <2>1, <3>1 DEF Thread
  <2>3. threads' = [threads EXCEPT ![t] = r]
    BY <1>2, <1>4, <2>1
  <2>4. /\ hs \in Seq(Thread) /\ DOMAIN hs = DOMAIN threads /\ Len(hs) = Len(threads)
        /\ \A i \in DOMAIN threads : i # t => hs[i] = threads[i]
    BY <1>5, <1>7, <2>1, <2>2, <2>3, LeftFacts
  <2> QED
    BY <2>1, <2>4
<1>11. \A i \in DOMAIN q : q[i].thread \in DOMAIN threads
  <2>1. \A i \in DOMAIN q : i + 1 \in DOMAIN posted /\ q[i] = posted[i + 1]
    BY <1>6
  <2> QED
    BY <2>1, ViewsNow
<1>12. posted' \in Seq(Signal) /\ \A i \in DOMAIN posted' : posted'[i].thread \in DOMAIN threads'
  <2>1. CASE posted' = q
    BY <1>6, <1>10, <1>11, <2>1
  <2>2. CASE w.left # <<>> /\ posted' = Append(q, s)
    <3>1. /\ posted' \in Seq(Signal) /\ Len(posted') = Len(q) + 1 /\ Len(q) \in Nat
          /\ \A i \in 1..Len(q) : posted'[i] = q[i]
          /\ posted'[Len(q) + 1] = s
          /\ DOMAIN posted' = 1..(Len(q) + 1)
      BY <1>6, <1>9, <2>2, AppendProperties, LenProperties
    <3>2. \A i \in DOMAIN posted' : i \in DOMAIN q \/ i = Len(q) + 1
      BY <1>6, <3>1
    <3> QED
      BY <1>6, <1>7, <1>9, <1>10, <1>11, <2>2, <3>1, <3>2
  <2> QED
    BY <1>4, <2>1, <2>2
<1>13. ViewsTypeOK'
  BY <1>10, <1>12, ViewsNow DEF ViewsTypeOK
<1>14. ViewsAreTyped'
  BY <1>5, <1>10, <1>12 DEF ViewsAreTyped
<1>15. TextGoesOn'
  <2> SUFFICES ASSUME "text" \in built, docs # <<>>
               PROVE  TextIsComing(newest, threads', edition, docs, posted', rendered, text)
    BY DEF TextGoesOn
  <2>1. TextIsComing(newest, threads, edition, docs, posted, rendered, text)
    BY DEF ViewsInv, TextGoesOn
  <2>2. PICK m : m = IF rendered THEN Len(text) ELSE 0
    OBVIOUS
  <2>3. PICK f, k : /\ Counts(f, posted, newest, edition, docs, m, k)
                    /\ Len(threads[newest].left) = Len(docs) - k
                    /\ \A j \in 1..Len(threads[newest].left) : threads[newest].left[j] = docs[k + j]
    BY <2>1, <2>2 DEF TextIsComing
  <2>4. /\ newest \in DOMAIN threads /\ threads[newest].of = edition
        /\ ~rendered => text = LoadingText
        /\ rendered => \A j \in 1..Len(text) : text[j] = Part(edition, docs[j])
    BY <2>1 DEF TextIsComing
  <2>5. Len(docs) \in Nat
    BY <1>5, LenProperties
  <2>6. PICK g : Counts(g, q, newest, edition, docs, m, k)
    BY <1>1, <1>3, <1>4, <1>5, <2>3, <2>5, CountsTaken
  <2>7. \E h : Counts(h, posted', newest, edition, docs, m, k)
    <3>1. CASE posted' = q
      BY <2>6, <3>1
    <3>2. CASE w.left # <<>> /\ posted' = Append(q, s)
      <4>1. s \in Signal /\ s.thread # newest
        BY <1>4, <1>9, <3>2
      <4>2. \E h : Counts(h, Append(q, s), newest, edition, docs, m, k)
        BY <1>6, <2>5, <2>6, <4>1, CountsPosted
      <4> QED
        BY <3>2, <4>2
    <3> QED
      BY <1>4, <3>1, <3>2
  <2>8. \E h : Counts(h, posted', newest, edition, docs, IF rendered THEN Len(text) ELSE 0, k)
    BY <2>2, <2>7
  <2>9. threads'[newest] = threads[newest] /\ newest \in DOMAIN threads'
    BY <1>4, <1>10, <2>4
  <2>10. /\ Len(threads'[newest].left) = Len(docs) - k
         /\ \A j \in 1..Len(threads'[newest].left) : threads'[newest].left[j] = docs[k + j]
    BY <2>3, <2>9
  <2> QED
    BY <2>4, <2>8, <2>9, <2>10, Zenon DEF TextIsComing
<1> QED
  BY <1>13, <1>14, <1>15 DEF ViewsInv

LEMMA ViewsNextInv == ViewsInv /\ [ViewsNext]_viewVars => ViewsInv'
<1> SUFFICES ASSUME ViewsInv, [ViewsNext]_viewVars PROVE ViewsInv'
  OBVIOUS
<1>0. bar.skip \in Nat /\ bar.batch \in Batches \cup {DefaultBatch}
  BY ViewsNow
<1>1. ASSUME NEW view \in Modes, Present(view) \/ Switch(view) PROVE ViewsInv'
  BY <1>1, ShowKeepsInv DEF Present, Switch
<1>2. CASE PageLeft
  <2>1. PICK n : n = Max({bar.skip - bar.batch, 0})
    OBVIOUS
  <2>2. bar.skip - bar.batch \in Int /\ 0 \in Int
    BY <1>0, BatchIsNat
  <2>3. PICK z : z = bar.skip - bar.batch
    OBVIOUS
  <2>4. z \in Int /\ n = Max({z, 0})
    BY <2>1, <2>2, <2>3
  <2>5. n \in {z, 0} /\ n >= 0
    BY <2>2, <2>4, PairFacts
  <2>6. n \in Nat
    BY <2>4, <2>5
  <2> QED
    BY <1>0, <1>2, <2>1, <2>6, RefreshKeepsInv DEF PageLeft
<1>3. CASE PageRight
  <2>1. bar.skip + bar.batch \in Nat
    BY <1>0, BatchIsNat
  <2> QED
    BY <1>0, <1>3, <2>1, RefreshKeepsInv DEF PageRight
<1>4. CASE EnterPage
  BY <1>0, <1>4, RefreshKeepsInv DEF EnterPage
<1>5. ASSUME NEW skip \in Skips, NEW batch \in Batches, EditBar(skip, batch) PROVE ViewsInv'
  BY <1>5, EditKeepsInv
<1>6. CASE Update
  BY <1>6, UpdateKeepsInv
<1>7. ASSUME NEW t \in DOMAIN threads, Prepare(t) PROVE ViewsInv'
  BY <1>7, PrepareKeepsInv
<1>8. CASE JsonPartReady
  <2>1. posted # <<>>
    BY <1>8 DEF JsonPartReady
  <2>2. UNCHANGED <<resultKind, query, bar, asked, page, docs, edition, viewMode, button, built,
                    current, newest>>
    BY <1>8 DEF JsonPartReady, pagingVars
  <2>3. CASE Head(posted).thread = newest
    <3>1. /\ posted' = Tail(posted) /\ threads' = threads
          /\ IF "text" \in built
             THEN text' = (IF rendered THEN text ELSE <<>>) \o <<Head(posted).part>> /\ rendered' = TRUE
             ELSE UNCHANGED <<text, rendered>>
      BY <1>8, <2>3 DEF JsonPartReady, IsOfNewest
    <3> QED
      BY <2>1, <2>2, <2>3, <3>1, TakenKeepsInv
  <2>4. CASE Head(posted).thread # newest
    <3>1. /\ Stop(Head(posted).thread)
          /\ \/ posted' = Tail(posted)
             \/ /\ threads[Head(posted).thread].left # <<>>
                /\ posted' = Append(Tail(posted), [thread |-> Head(posted).thread,
                                        part |-> Part(threads[Head(posted).thread].of,
                                                      Head(threads[Head(posted).thread].left))])
          /\ UNCHANGED <<text, rendered>>
      BY <1>8, <2>4 DEF JsonPartReady, IsOfNewest
    <3> QED
      BY <2>1, <2>2, <2>4, <3>1, DroppedKeepsInv
  <2> QED
    BY <2>3, <2>4
<1>9. CASE UNCHANGED viewVars
  <2>1. UNCHANGED <<resultKind, query, bar, asked, page, docs, edition, viewMode, button, built, current,
                    text, rendered, newest, threads, posted>>
    BY <1>9 DEF viewVars
  <2>2. ViewsTypeOK'
    BY <2>1, ViewsNow DEF ViewsTypeOK
  <2>3. ViewsAreTyped'
    BY <2>1 DEF ViewsInv, ViewsAreTyped
  <2>4. TextGoesOn'
    BY <2>1, TextStays
  <2> QED
    BY <2>2, <2>3, <2>4 DEF ViewsInv
<1> QED
  BY <1>1, <1>2, <1>3, <1>4, <1>5, <1>6, <1>7, <1>8, <1>9 DEF ViewsNext, ViewsUser, Preparing

\* The invariant says of the text what it should.
LEMMA ViewsInvMeans == ViewsInv => ViewsAreSound
<1> SUFFICES ASSUME ViewsInv, "text" \in built, docs # <<>>
             PROVE  text = LoadingText \/ IsPrefix(text, PartsOf(edition, docs))
  BY DEF ViewsInv, ViewsAreSound, TextIsOfThePage
<1>1. TextIsComing(newest, threads, edition, docs, posted, rendered, text)
  BY DEF ViewsInv, TextGoesOn
<1>2. CASE ~rendered
  BY <1>1, <1>2 DEF TextIsComing
<1>3. CASE rendered
  <2>1. /\ \A j \in 1..Len(text) : text[j] = Part(edition, docs[j])
        /\ \E f, k : Counts(f, posted, newest, edition, docs, Len(text), k)
    BY <1>1, <1>3 DEF TextIsComing
  <2>2. posted \in Seq(Signal) /\ docs \in Seq(Nat) /\ text \in Seq(Items)
    BY DEF ViewsInv, ViewsAreTyped
  <2>3. Len(text) \in 0..Len(docs) /\ Len(docs) \in Nat /\ Len(text) \in Nat
    <3>1. Len(posted) \in Nat /\ 0 \in 0..Len(posted) /\ Len(docs) \in Nat /\ Len(text) \in Nat
      BY <2>2, LenProperties
    <3> QED
      BY <2>1, <3>1 DEF Counts
  <2>4. PICK p : p = PartsOf(edition, docs)
    OBVIOUS
  <2>5. /\ p \in Seq(Items) /\ Len(p) = Len(docs)
        /\ \A j \in 1..Len(docs) : p[j] = Part(edition, docs[j])
    <3>1. PICK n : n = Len(docs)
      OBVIOUS
    <3>2. \A j \in 1..n : Part(edition, docs[j]) \in Items
      <4>1. edition \in Nat /\ \A j \in 1..n : docs[j] \in Nat
        BY <2>2, <3>1, ViewsNow, ElementOfSeq
      <4> QED
        BY <4>1, ItemsFacts
    <3>3. p = [j \in 1..n |-> Part(edition, docs[j])]
      BY <2>4, <3>1 DEF PartsOf
    <3>4. p \in [1..n -> Items] /\ n \in Nat
      BY <2>3, <3>1, <3>2, <3>3
    <3>5. p \in Seq(Items) /\ Len(p) = n
      BY <3>4, SeqDef, LenProperties
    <3> QED
      BY <3>1, <3>3, <3>5
  <2>6. SubSeq(text, 1, Len(text)) = SubSeq(p, 1, Len(text))
    BY <2>1, <2>2, <2>3, <2>5
  <2> QED
    BY <2>3, <2>4, <2>5, <2>6 DEF IsPrefix
<1> QED
  BY <1>2, <1>3

\* OutputItemContentWidget.cpp:568-589, JsonPrepareThread.cpp: however pages are asked for and
\* answered, views switched and signals of old threads late, the text view of documents shows
\* the first of its page, in order and each once; the view on top exists and its button is lit.
THEOREM ViewsShowTheirPage == ViewsSpec => []ViewsAreSound
<1>1. ViewsInv => ViewsAreSound
  BY ViewsInvMeans
<1> QED
  BY <1>1, ViewsInitInv, ViewsNextInv, PTL DEF ViewsSpec
=============================================================================
