------------------------------ MODULE DriverOps ------------------------------
(***************************************************************************)
(* The operations a worker carries out through the driver: MongoClient and *)
(* the handlers of MongoWorker that call it, with the dialogs that ask for *)
(* a copy or an export. An operation is a list of calls to the server. Any *)
(* call may fail, other clients write between two calls, and the program   *)
(* may be killed between two calls.                                        *)
(***************************************************************************)
EXTENDS Naturals, Sequences, FiniteSets

CONSTANTS
  Docs,         \* documents, by _id
  Aliased,      \* the two connections reach one server
  MaxJobs,      \* bound: operations asked for
  MaxOthers     \* bound: writes of other clients

ASSUME OpsBoundsAssumption == MaxJobs \in Nat /\ MaxOthers \in Nat
ASSUME DocsAssumption == IsFiniteSet(Docs) /\ Docs # {}
ASSUME AliasedAssumption == Aliased \in BOOLEAN

VARIABLES
  colls,         \* the collections of each server: their documents and indexes
  fns,          \* system.js of the database of the first connection
  users,        \* its users
  exportFile,         \* the file an export is written to
  job,          \* the operation the worker carries out, or its answer
  progress,     \* the progress dialog of a copy or an export, which has no cancel
  jobs, others  \* counters

opsVars == <<colls, fns, users, exportFile, job, progress, jobs, others>>

Conns == {"here", "there"}                \* open connections, of distinct uuid
Host(c) == IF Aliased THEN "here" ELSE c
Colls == {"x", "y", "temp"}
IxNames == {"i", "j"}                     \* index names; _id_ is left out
Defs == {1, 2}                            \* definitions; 0: none
FnNames == {"f", "g"}
Codes == {"old", "new"}
Nothing == "none"

NoCollection == [exists |-> FALSE, docs |-> {}, ix |-> [n \in IxNames |-> 0]]
Holding(docs) == [NoCollection EXCEPT !.exists = TRUE, !.docs = docs]
Collections == [exists : BOOLEAN, docs : SUBSET Docs, ix : [IxNames -> {0} \cup Defs]]

NoJob == [op |-> Nothing, state |-> "idle", todo |-> <<>>, rescue |-> <<>>, a |-> <<>>,
          left |-> {}, names |-> {}, matched |-> {}, copied |-> 0, skipped |-> 0,
          fails |-> 0, failed |-> FALSE, broke |-> Nothing, before |-> <<>>]

OpsTypeOK ==
  /\ colls \in [Conns -> [Colls -> Collections]]
  /\ \A h \in Conns, c \in Colls : ~colls[h][c].exists => colls[h][c] = NoCollection
  /\ fns \in [FnNames -> Codes \cup {Nothing}] /\ users \in BOOLEAN
  /\ exportFile \in {"previous", "partial", "whole"}
  /\ job.state \in {"idle", "running", "answered", "killed"}
  /\ job.left \subseteq job.matched /\ job.names \subseteq IxNames
  /\ job.copied + job.skipped + Cardinality(job.left) = Cardinality(job.matched)
  /\ progress => job.op \in {"copy", "export"}
  /\ jobs \in 0..MaxJobs /\ others \in 0..MaxOthers

(* What the target of a copy may be: not there, empty, holding a document,  *)
(* holding one under an index of its own, which may be unique.              *)
Targets == LET one == Holding({CHOOSE d \in Docs : TRUE})
           IN {NoCollection, Holding({}), one, [one EXCEPT !.ix = [i |-> 1, j |-> 0]]}

OpsInit ==
  /\ \E target \in Targets, second \in {0, 1} :
       colls = [h \in Conns |-> [c \in Colls |->
                 IF c = "x" /\ h = "here" THEN [Holding(Docs) EXCEPT !.ix = [i |-> 1, j |-> second]]
                 ELSE IF c = "x" \/ (c = "y" /\ h = "here") THEN target ELSE NoCollection]]
  /\ fns \in [FnNames -> {"old", Nothing}] /\ users = FALSE
  /\ exportFile = "previous"
  /\ job = NoJob /\ progress = FALSE /\ jobs = 0 /\ others = 0

(***************************************************************************)
(* Calls                                                                   *)
(***************************************************************************)
Call(k, h, c) == [k |-> k, h |-> h, c |-> c]
Ix(k, h, c, n, d) == [k |-> k, h |-> h, c |-> c, n |-> n, d |-> d]
Fn(k, n, code) == [k |-> k, h |-> "here", c |-> "x", n |-> n, code |-> code]
Doc(k, h, c, d) == [k |-> k, h |-> h, c |-> c, d |-> d]

(* What the code, or the server, answers with an error.                     *)
Refused(q) ==
  LET coll == colls[q.h][q.c] IN
  \/ q.k \in {"mustNotExist", "create"} /\ coll.exists
  \/ q.k \in {"mustExist", "rename"} /\ ~coll.exists
  \/ q.k = "rename" /\ colls[q.h][q.to].exists
  \/ q.k = "insert" /\ q.d \in coll.docs
  \/ q.k = "dropIndex" /\ coll.ix[q.n] = 0
  \/ q.k = "createIndex" /\ coll.ix[q.n] \notin {0, q.d}
  \/ q.k = "insertFn" /\ fns[q.n] # Nothing
  \/ q.k = "refuse"
  \/ q.k = "createUser" /\ users
  \/ q.k = "dropUser" /\ ~users

(* What a call leaves of the collection it is made on.                      *)
After(q) ==
  LET coll == colls[q.h][q.c]
      there == [coll EXCEPT !.exists = TRUE]
  IN CASE q.k = "create" -> there
       [] q.k \in {"dropColl", "dropDb", "rename"} -> NoCollection
       [] q.k \in {"insert", "replace"} -> [there EXCEPT !.docs = @ \cup {q.d}]
       [] q.k = "remove" -> [coll EXCEPT !.docs = @ \ q.d]
       [] q.k = "dropIndex" -> [coll EXCEPT !.ix[q.n] = 0]
       [] q.k = "createIndex" -> [there EXCEPT !.ix[q.n] = q.d]
       [] OTHER -> coll

ServerDoes(q) ==
  /\ colls' = [colls EXCEPT ![q.h] =
       [c \in Colls |-> IF c = q.c THEN After(q)
                        ELSE IF q.k = "dropDb" THEN NoCollection
                        ELSE IF q.k = "rename" /\ c = q.to THEN @[q.c]
                        ELSE IF q.k = "outStage" /\ c = "y" THEN Holding(@["x"].docs)
                        ELSE @[c]]]
  /\ fns' = IF q.k \in {"insertFn", "replaceFn"} THEN [fns EXCEPT ![q.n] = q.code]
            ELSE IF q.k = "deleteFn" THEN [fns EXCEPT ![q.n] = Nothing]
            ELSE IF q.k = "dropDb" THEN [n \in FnNames |-> Nothing]
            ELSE fns
  /\ users' = (q.k = "createUser" \/ (users /\ q.k # "dropUser"))
  /\ exportFile' = IF q.k = "openFile" THEN "partial" ELSE IF q.k = "writeFile" THEN "whole" ELSE exportFile

(***************************************************************************)
(* The operations, as the calls they make, in order                        *)
(***************************************************************************)
CreateDatabase(a) == <<Call("mustNotExist", "here", "temp"), Doc("insert", "here", "temp", a.d),
                       Call("dropColl", "here", "temp")>>
DropDatabase(a) == <<Call("dropDb", "here", "temp")>>
CreateCollection(a) == <<Call("mustNotExist", "here", a.c), Call("create", "here", a.c)>>
DropCollection(a) == <<Call("mustExist", "here", a.c), Call("dropColl", "here", a.c)>>
RenameCollection(a) == <<[k |-> "rename", h |-> "here", c |-> a.c, to |-> a.to]>>

DuplicateCollection(a) ==
  <<Call("mustNotExist", "here", a.to), Call("create", "here", a.to), Call("open", "here", a.c),
    Call("insertEach", "here", a.to)>>

CopyDocuments(a) ==
  LET h == Host(a.to.conn) IN
    (IF a.dropFirst THEN <<Call("dropColl", h, a.to.c)>> ELSE <<>>)
    \o <<Call("open", "here", a.c), Call("insertEach", h, a.to.c)>>
    \o (IF a.copyIndexes THEN <<[k |-> "listIndexes", h |-> h, c |-> a.to.c, from |-> a.c],
                                [k |-> "createEach", h |-> h, c |-> a.to.c, from |-> a.c]>> ELSE <<>>)

SaveDocument(a) == <<Doc(IF a.overwrite THEN "replace" ELSE "insert", "here", a.c, a.d)>>
RemoveDocuments(a) == <<Doc("remove", "here", a.c, a.which)>>
Query(a) == <<Call("read", "here", a.c)>>

DropIndex(a) == <<[k |-> "dropIndex", h |-> "here", c |-> a.c, n |-> a.old]>>
AddEditIndex(a) == (IF a.old # Nothing THEN DropIndex(a) ELSE <<>>)
                   \o <<Ix("createIndex", "here", a.c, a.new, 2)>>
(* Run when a call of AddEditIndex fails, its own failures swallowed. The   *)
(* drop is outside of the try block, so nothing follows its failure.        *)
RecreateIndex(a) == IF a.old = Nothing THEN <<>> ELSE <<Ix("createIndex", "here", a.c, a.old, 1)>>

SaveFunctionDeletesFirst(a) ==            \* mutant
  IF a.modern \/ a.old = a.new THEN <<Fn("replaceFn", a.new, "new")>>
  ELSE IF a.old = Nothing THEN <<Fn("insertFn", a.new, "new")>>
  ELSE <<Fn("deleteFn", a.old, Nothing), Fn("insertFn", a.new, "new")>>
SaveFunction(a) ==
  IF a.modern \/ a.old = a.new THEN <<Fn("replaceFn", a.new, "new")>>
  ELSE IF a.old = Nothing THEN <<Fn("insertFn", a.new, "new")>>
  ELSE <<Fn("insertFn", a.new, "new"), Fn("deleteFn", a.old, Nothing)>>
DropFunction(a) == <<Fn("deleteFn", a.old, Nothing)>>
CreateUser(a) == <<Call("createUser", "here", "x")>>
DropUser(a) == <<Call("dropUser", "here", "x")>>

(* A pipeline that ends in $out is refused before anything is read.         *)
PipelineCheck(a) == IF a.pipeline = "out" THEN <<Call("refuse", "here", "x")>> ELSE <<>>
Export(a) ==
  PipelineCheck(a)
  \o <<Call(IF a.pipeline = "out" THEN "outStage" ELSE "read", "here", "x"),
       Call("openFile", "here", "x"), Call("writeFile", "here", "x")>>

(***************************************************************************)
(* Asking                                                                  *)
(***************************************************************************)
(* The guard is the modal progress dialog of a copy or an export; the other *)
(* operations wait behind the running one in the queue of the worker.       *)
Free == job.state # "running" /\ ~progress /\ jobs < MaxJobs
StartJob(op, a, calls, rescue) ==
  /\ jobs' = jobs + 1
  /\ job' = [NoJob EXCEPT !.op = op, !.state = "running", !.a = a, !.todo = calls, !.rescue = rescue,
                          !.before = [colls |-> colls, fns |-> fns]]
  /\ progress' = (op \in {"copy", "export"})
  /\ UNCHANGED <<colls, fns, users, exportFile, others>>

AskDatabase ==
  /\ Free
  /\ \/ \E d \in Docs : StartJob("createDb", [d |-> d], CreateDatabase([d |-> d]), <<>>)
     \/ StartJob("dropDb", <<>>, DropDatabase(<<>>), <<>>)

AskCollection ==
  /\ Free
  /\ \E c \in {"x", "y"}, to \in {"x", "y"} :
       LET a == [c |-> c, to |-> to] IN
         \/ c = to /\ \/ StartJob("create", a, CreateCollection(a), <<>>)
                      \/ StartJob("drop", a, DropCollection(a), <<>>)
         \/ c # to /\ \/ StartJob("rename", a, RenameCollection(a), <<>>)
                      \/ StartJob("duplicate", a, DuplicateCollection(a), <<>>)

AskDocument ==
  /\ Free
  /\ \E d \in Docs, overwrite \in BOOLEAN, which \in SUBSET Docs :
       LET a == [c |-> "x", d |-> d, overwrite |-> overwrite, which |-> which] IN
         \/ which = {} /\ StartJob("save", a, SaveDocument(a), <<>>)
         \/ which # {} /\ ~overwrite /\ StartJob("remove", a, RemoveDocuments(a), <<>>)
         \/ which = {} /\ ~overwrite /\ StartJob("query", a, Query(a), <<>>)

AskIndex ==
  /\ Free
  /\ \E old \in IxNames \cup {Nothing}, new \in IxNames :
       LET a == [c |-> "x", old |-> old, new |-> new] IN
         \/ /\ old # Nothing => colls["here"]["x"].ix[old] = 1      \* the dialog shows its definition
            /\ StartJob("index", a, AddEditIndex(a), RecreateIndex(a))
         \/ old = new /\ StartJob("dropIndex", a, DropIndex(a), <<>>)

AskFunction ==
  /\ Free
  /\ \E old \in FnNames \cup {Nothing}, new \in FnNames, modern \in BOOLEAN :
       LET a == [old |-> old, new |-> new, modern |-> modern] IN
         /\ old # Nothing => fns[old] # Nothing
         /\ \/ StartJob("function", a, SaveFunction(a), <<>>)
            \/ old = new /\ StartJob("dropFunction", a, DropFunction(a), <<>>)

AskUser ==
  /\ Free
  /\ \/ StartJob("createUser", <<>>, CreateUser(<<>>), <<>>)
     \/ StartJob("dropUser", <<>>, DropUser(<<>>), <<>>)

(* CopyResultsDialog::validate: what the dialog accepts as a target.        *)
Accepts(c, to) == ~(to.conn = "here" /\ to.c = c)

AskCopy ==
  /\ Free
  /\ \E to \in [conn : Conns, c : {"x", "y"}], dropFirst \in BOOLEAN, copyIndexes \in BOOLEAN :
       LET a == [c |-> "x", to |-> to, dropFirst |-> dropFirst, copyIndexes |-> copyIndexes] IN
         /\ colls["here"]["x"].exists /\ Accepts("x", to)
         /\ StartJob("copy", a, CopyDocuments(a), <<>>)

AskExport ==
  /\ Free
  /\ \E pipeline \in {"find", "aggregate", "out"} :
       StartJob("export", [pipeline |-> pipeline], Export([pipeline |-> pipeline]), <<>>)

(***************************************************************************)
(* The worker                                                              *)
(***************************************************************************)
Next1(j) == [j EXCEPT !.todo = Tail(@)]
Streams(q) == q.k \in {"insertEach", "createEach"}

(* An exception: the rest is given up, and an index edit puts back what it  *)
(* has dropped; a failure of that is swallowed.                             *)
Thrown(j) ==
  [j EXCEPT !.fails = @ + 1, !.failed = TRUE,
            !.broke = IF j.failed THEN @ ELSE Head(j.todo).k,
            !.todo = IF j.failed THEN Tail(@) ELSE IF Head(@).k = "dropIndex" THEN <<>> ELSE j.rescue]

(* One document of a cursor. The server refuses it with E11000 when its     *)
(* _id is there, and may when another document has its value of a unique    *)
(* index; the values of fields are left out.                                *)
Duplicate(q, d) == d \in colls[q.h][q.c].docs
MayClash(q, d) ==
  LET coll == colls[q.h][q.c] IN coll.docs \ {d} # {} /\ \E n \in IxNames : coll.ix[n] # 0
Inserted(q, d) == [colls EXCEPT ![q.h][q.c] = After(Doc("insert", q.h, q.c, d))]

(* The connection breaks, the server refuses: the call throws, and has done *)
(* nothing, or all that it does, or one more document of its cursor.        *)
JobFails ==
  /\ job.state = "running" /\ job.todo # <<>>
  /\ job' = Thrown(job)
  /\ LET q == Head(job.todo) IN
       \/ UNCHANGED <<colls, fns, users, exportFile>>
       \/ ~Streams(q) /\ ~Refused(q) /\ ServerDoes(q)
       \/ /\ q.k = "insertEach"
          /\ \E d \in job.left : ~Duplicate(q, d) /\ colls' = Inserted(q, d)
          /\ UNCHANGED <<fns, users, exportFile>>
  /\ UNCHANGED <<progress, jobs, others>>

Calls ==
  /\ job.state = "running" /\ job.todo # <<>>
  /\ LET q == Head(job.todo) IN
       /\ ~Streams(q) /\ ~Refused(q)
       /\ ServerDoes(q)
       /\ \/ /\ q.k = "open"               \* any filter, any limit
             /\ \E match \in SUBSET colls[q.h][q.c].docs :
                  job' = [Next1(job) EXCEPT !.left = match, !.matched = match]
          \/ /\ q.k = "listIndexes"
             /\ job' = [Next1(job) EXCEPT !.names =
                          {n \in IxNames : colls["here"][q.from].ix[n] # 0 /\ colls[q.h][q.c].ix[n] = 0}]
          \/ q.k \notin {"open", "listIndexes"} /\ job' = Next1(job)
  /\ UNCHANGED <<progress, jobs, others>>

(* A document of the cursor; E11000, of whichever index, is skipped and     *)
(* counted by a copy, and ends a duplication.                               *)
InsertNext ==
  /\ job.state = "running" /\ job.todo # <<>>
  /\ LET q == Head(job.todo) IN
       /\ q.k = "insertEach"
       /\ IF job.left = {} THEN job' = Next1(job) /\ UNCHANGED colls
          ELSE \E d \in job.left :
            \/ /\ ~Duplicate(q, d)
               /\ colls' = Inserted(q, d)
               /\ job' = [job EXCEPT !.left = @ \ {d}, !.copied = @ + 1]
            \/ /\ Duplicate(q, d) \/ MayClash(q, d)
               /\ job' = IF job.op = "copy" THEN [job EXCEPT !.left = @ \ {d}, !.skipped = @ + 1]
                         ELSE Thrown(job)
               /\ UNCHANGED colls
  /\ UNCHANGED <<fns, users, exportFile, progress, jobs, others>>

(* One index of the source, best effort: not created, the copy goes on.     *)
CreateNext ==
  /\ job.state = "running" /\ job.todo # <<>>
  /\ LET q == Head(job.todo) IN
       /\ q.k = "createEach"
       /\ IF job.names = {} THEN job' = Next1(job) /\ UNCHANGED colls
          ELSE \E n \in job.names :
            /\ job' = [job EXCEPT !.names = @ \ {n}]
            /\ \/ LET d == colls["here"][q.from].ix[n] IN
                    /\ d # 0
                    /\ colls' = [colls EXCEPT ![q.h][q.c] = After(Ix("createIndex", q.h, q.c, n, d))]
               \/ UNCHANGED colls
  /\ UNCHANGED <<fns, users, exportFile, progress, jobs, others>>

(* The answer, good or bad, reaches the widget, which closes the progress.  *)
Reply ==
  /\ job.state = "running" /\ job.todo = <<>>
  /\ job' = [job EXCEPT !.state = "answered"] /\ progress' = FALSE
  /\ UNCHANGED <<colls, fns, users, exportFile, jobs, others>>

(* The program is killed between two calls, and started again.              *)
Killed ==
  /\ job.state = "running"
  /\ job' = [job EXCEPT !.state = "killed"] /\ progress' = FALSE
  /\ UNCHANGED <<colls, fns, users, exportFile, jobs, others>>

(* Another client, while the operation runs: inserts, or creates.           *)
Other ==
  /\ job.state = "running" /\ others < MaxOthers
  /\ others' = others + 1
  /\ \E h \in Conns, c \in {"x", "y"}, docs \in {{}} \cup {{d} : d \in Docs} :
       /\ h = Host(h)
       /\ colls' = [colls EXCEPT ![h][c].exists = TRUE, ![h][c].docs = @ \cup docs]
  /\ UNCHANGED <<fns, users, exportFile, job, progress, jobs>>

Ask == AskDatabase \/ AskCollection \/ AskDocument \/ AskIndex \/ AskFunction \/ AskUser
       \/ AskCopy \/ AskExport
DoJob == JobFails \/ Calls \/ InsertNext \/ CreateNext \/ Reply
OpsNext == Ask \/ DoJob \/ Killed \/ Other

OpsSpec == OpsInit /\ [][OpsNext]_opsVars

(***************************************************************************)
(* Properties                                                              *)
(***************************************************************************)
JobDone == job.state = "answered" /\ ~job.failed

(* An answer without an error is about an operation whose every call        *)
(* succeeded: a duplication has brought every document of its cursor, and   *)
(* no more of a copy's documents are missing in its target than the answer  *)
(* counts as skipped; an edited index has its new definition and no other   *)
(* name, a renamed function has left its old name on the servers whose      *)
(* functions the driver writes, an export is whole.                         *)
AnswerIsTrue ==
  /\ job.state = "answered" => job.failed = (job.fails > 0)
  /\ JobDone /\ job.op \in {"copy", "duplicate"} =>
       LET to == job.a.to
           coll == IF job.op = "copy" THEN colls[Host(to.conn)][to.c] ELSE colls["here"][to]
           missing == job.matched \ coll.docs
       IN /\ job.left = {} /\ Cardinality(missing) <= job.skipped
          /\ job.op = "duplicate" => missing = {}
  /\ JobDone /\ job.op = "index" =>
       LET ix == colls["here"]["x"].ix IN
         ix[job.a.new] = 2 /\ (job.a.old \notin {Nothing, job.a.new} => ix[job.a.old] = 0)
  /\ JobDone /\ job.op = "function" =>
       /\ fns[job.a.new] = "new"
       /\ ~job.a.modern /\ job.a.old \notin {Nothing, job.a.new} => fns[job.a.old] = Nothing
  /\ JobDone /\ job.op = "createDb" => ~colls["here"]["temp"].exists
  /\ JobDone /\ job.op = "export" => exportFile = "whole"

(* A function that is renamed is there under one of its two names at every  *)
(* moment, for another client and after a crash: createFunction inserts     *)
(* before it deletes.                                                       *)
FunctionNeverVanishes ==
  job.op = "function" /\ job.a.old # Nothing =>
    fns[job.a.old] # Nothing \/ fns[job.a.new] = "new"

(* When the user hears of an index edit, the collection has the old or the  *)
(* new index, unless the edit and the attempt to put the old one back have  *)
(* both failed, or the drop itself, which is outside of the try block, has  *)
(* answered with an error: the server may have done it all the same.        *)
IndexSurvivesEdit ==
  job.op = "index" /\ job.state = "answered" /\ job.a.old # Nothing =>
    LET ix == colls["here"]["x"].ix IN
      ix[job.a.old] # 0 \/ ix[job.a.new] # 0 \/ job.fails >= 2 \/ job.broke = "dropIndex"

(* Whatever fails, a copy leaves the documents and indexes of its source,   *)
(* unless the two connections reach one server and the target is the source *)
(* itself: the dialog compares the identity of connections, not of servers. *)
OntoItself(a) == Host(a.to.conn) = "here" /\ a.to.c = a.c
SourceStays ==
  LET before == job.before.colls["here"]["x"]
      now == colls["here"]["x"]
  IN before.docs \subseteq now.docs /\ before.ix = now.ix
SourceIsKept == job.op = "copy" /\ ~OntoItself(job.a) => SourceStays

(* "The source is never modified" (the note of CopyResultsDialog), of every *)
(* copy: one onto another connection to the same server drops the source.   *)
(* (The program does not keep this: README.)                                *)
SourceIsNeverModified == job.op = "copy" => SourceStays

(* "duplicate key - already present" (MongoClient::copyDocuments): what a   *)
(* copy counts as skipped is in the target. E11000 of a unique index of the *)
(* target is about another document.                                        *)
(* (The program does not keep this: README.)                                *)
SkippedArePresent ==
  JobDone /\ job.op = "copy" => job.matched \subseteq colls[Host(job.a.to.conn)][job.a.to.c].docs

(* An export runs its query or pipeline again, and that writes nothing to   *)
(* the server.                                                              *)
ExportOnlyReads == job.op = "export" /\ others = 0 => colls = job.before.colls

(* The progress dialog of a copy or an export blocks the whole program and  *)
(* cannot be cancelled; it never outlives its operation, whatever fails.    *)
ProgressCloses == progress => job.state = "running"

(* Whatever call fails, whoever else writes and whenever the process ends,  *)
(* an operation loses nothing and answers what happened.                    *)
OpsAreSound ==
  /\ OpsTypeOK
  /\ AnswerIsTrue /\ FunctionNeverVanishes /\ IndexSurvivesEdit /\ SourceIsKept /\ ExportOnlyReads
  /\ ProgressCloses
=============================================================================
