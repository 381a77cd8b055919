---------------------------- MODULE ExplorerTree ----------------------------
(***************************************************************************)
(* The explorer: one connection, the database objects it owns, the tree    *)
(* items that show them, and the requests of the tree to the worker of the *)
(* connection. The worker serves them in order and posts its answers to    *)
(* the object that asked; an answer may delete objects and items that are  *)
(* the senders of requests still under way.                                *)
(*                                                                         *)
(* One database is followed. The others, which always exist, only keep the *)
(* list of databases from being empty.                                     *)
(***************************************************************************)
EXTENDS Naturals, Sequences, FiniteSets, Functions

CONSTANTS
  Names,        \* names of collections, users and functions
  MaxAsks       \* bound: operations of the user

ASSUME AsksAssumption == MaxAsks \in Nat

VARIABLES
  kind,         \* the connection: a single server or a replica set
  part,         \* what the server has: the names in each folder
  indexed,      \* what the server has: the collections with a second index
  created,      \* the database is in MongoWorker::_createdDbs
  requests,     \* posted to the worker
  answers,      \* posted to the UI thread
  objects,      \* MongoServer::_databases, by identity
  dbItems,        \* the tree items of the database, by the object they show
  label,        \* the text of the server item
  setLabel,     \* the text of the replica set folder
  wasLost,         \* _primaryWasUnreachable
  fresh,        \* next identity
  asks,         \* operations so far
  toldOf,         \* parts whose last operation failed, and the user was told
  dangling,     \* an answer met a deleted object
  made          \* history: created here, and without a collection ever since

server == <<part, indexed, created, made>>
tree == <<objects, dbItems, label, setLabel, wasLost, fresh, toldOf>>
treeVars == <<kind, server, requests, answers, tree, asks, dangling>>

Folders == {"Collections", "Functions", "Users"}
Labels == {"plain", "loading", "counted"}
None == "none"
Server == 0                               \* the MongoServer, never deleted here

(* The user is told of an operation by the part it was on: the list of      *)
(* databases, a folder, or a collection.                                    *)
ASSUME NamesAssumption == Names \cap (Folders \cup {"Databases"}) = {}

(* What a folder, and the index folder of a collection, show.               *)
NewItem ==
  [label |-> [f \in Folders |-> "plain"], shown |-> [f \in Folders |-> {}],
   batch |-> 0,                           \* the collection items, by identity; 0: none
   ilabel |-> [n \in Names |-> "plain"], ishown |-> {},
   gutted |-> FALSE]                      \* the folder items are deleted

Exists == part["Collections"] \cup part["Functions"] # {}
(* The operations, by the families of their request and answer events.      *)
SetOps == {"connect", "folder"}
DatabaseOps == {"createDb", "dropDb"}
NameOps == {"create", "drop", "rename", "duplicate"}
IndexOps == {"indexes", "addIndex", "editIndex", "dropIndex"}
TreeOps == {"databases", "load"} \cup SetOps \cup DatabaseOps \cup NameOps \cup IndexOps

AskOf(op, from, f, n, m) == [op |-> op, from |-> from, f |-> f, n |-> n, m |-> m]
AnswerTo(r, ok, data) == [op |-> r.op, from |-> r.from, f |-> r.f, n |-> r.n, ok |-> ok, data |-> data]

Item == [label : [Folders -> Labels], shown : [Folders -> SUBSET Names], batch : Nat,
         ilabel : [Names -> Labels], ishown : SUBSET Names, gutted : BOOLEAN]
TreeAsk == [op : TreeOps, from : Nat, f : Folders \cup {None}, n : Names \cup {None}, m : Names \cup {None}]

TreeTypeOK ==
  /\ kind \in {"single", "set"}
  /\ part \in [Folders -> SUBSET Names] /\ indexed \subseteq Names /\ created \in BOOLEAN
  /\ requests \in Seq(TreeAsk)
  /\ objects \subseteq Nat \ {Server} /\ fresh \in Nat \ {Server}
  /\ dbItems \in [DOMAIN dbItems -> Item]
  /\ label \in Labels \cup {"offline"} /\ setLabel \in Labels
  /\ wasLost \in BOOLEAN /\ (wasLost => kind = "set")
  /\ asks \in 0..MaxAsks /\ toldOf \subseteq Folders \cup Names \cup {"Databases"}
  /\ dangling \in BOOLEAN /\ made \in BOOLEAN

(* The explorer after the first connection: a set lists its databases at    *)
(* once, a single server when its item is expanded; or later, when the user *)
(* has expanded everything.                                                 *)
Opened == [NewItem EXCEPT !.label = [f \in Folders |-> "counted"], !.shown = part,
                          !.batch = 2, !.ilabel = [n \in Names |-> "counted"], !.ishown = indexed]

TreeInit ==
  /\ kind \in {"single", "set"}
  /\ \E n \in Names : part \in {[f \in Folders |-> {}], [f \in Folders |-> IF f = "Collections" THEN {n} ELSE {}]}
  /\ indexed \in SUBSET part["Collections"] /\ created = FALSE
  /\ requests = <<>> /\ answers = <<>>
  /\ objects = IF Exists THEN {1} ELSE {}
  /\ \/ /\ dbItems = (IF kind = "set" THEN [o \in objects |-> NewItem] ELSE <<>>)
        /\ label = IF kind = "set" THEN "counted" ELSE "plain"
     \/ Exists /\ dbItems = [o \in objects |-> Opened] /\ label = "counted"
  /\ setLabel = "plain" /\ wasLost = FALSE /\ fresh = 3
  /\ asks = 0 /\ toldOf = {} /\ dangling = FALSE /\ made = FALSE

-----------------------------------------------------------------------------
(* What the menus and the expansion of an item offer.                       *)

ServerOffers == {"refresh"} \cup (IF kind = "set" /\ wasLost THEN {} ELSE {"createDb"})
DatabaseOffers(o) == IF dbItems[o].gutted THEN {} ELSE {"load", "dropDb"}
FolderOffers(o, f) == IF dbItems[o].gutted THEN {} ELSE {"load", "create"}
NameOffers(o, f, n) ==
  IF dbItems[o].gutted \/ n \notin dbItems[o].shown[f] THEN {}
  ELSE CASE f = "Collections" -> {"drop", "rename", "duplicate", "indexes", "addIndex"}
         [] f = "Functions" -> {"drop", "rename"}
         [] f = "Users" -> {"drop"}
IndexOffers(o, n) ==
  IF n \in dbItems[o].ishown /\ ~dbItems[o].gutted THEN {"dropIndex", "editIndex"} ELSE {}

(* The user may act: the model's bound, and the program has not run into a  *)
(* deleted object.                                                          *)
MayAsk == asks < MaxAsks /\ ~dangling /\ asks' = asks + 1
PostAsk(r) == requests' = Append(requests, r)
Idle == UNCHANGED <<kind, server, answers, dangling>>

(* MongoServer::loadDatabases: the item shows "..." and the worker is asked *)
(* for the names, or, for a set, to connect again.                         *)
LoadDatabases ==
  /\ label' = "loading"
  /\ PostAsk(AskOf(IF kind = "set" THEN "connect" ELSE "databases", Server, None, None, None))

RefreshServer ==
  /\ MayAsk /\ "refresh" \in ServerOffers /\ LoadDatabases
  /\ Idle /\ UNCHANGED <<objects, dbItems, setLabel, wasLost, fresh, toldOf>>

RefreshSetFolder ==
  /\ MayAsk /\ kind = "set"
  /\ setLabel' = "loading" /\ PostAsk(AskOf("folder", Server, None, None, None))
  /\ Idle /\ UNCHANGED <<objects, dbItems, label, wasLost, fresh, toldOf>>

(* A single server is asked to create the database; for a set the object    *)
(* and its item are made on the spot, and nothing is sent.                  *)
AskCreateDatabase ==
  /\ MayAsk /\ "createDb" \in ServerOffers /\ Idle /\ UNCHANGED <<setLabel, wasLost, toldOf>>
  /\ IF kind = "single"
     THEN PostAsk(AskOf("createDb", Server, None, None, None)) /\ UNCHANGED <<objects, dbItems, label, fresh>>
     ELSE /\ objects' = objects \cup {fresh} /\ fresh' = fresh + 1 /\ label' = "counted"
          /\ dbItems' = [o \in DOMAIN dbItems \cup {fresh} |-> IF o = fresh THEN NewItem ELSE dbItems[o]]
          /\ UNCHANGED requests

AskDropDatabase(o) ==
  /\ MayAsk /\ "dropDb" \in DatabaseOffers(o)
  /\ PostAsk(AskOf("dropDb", Server, None, None, None)) /\ Idle /\ UNCHANGED tree

(* MongoDatabase::loadCollections, loadUsers, loadFunctions: the item that  *)
(* shows the object puts "..." on the folder.                               *)
Loading(o, f) == [dbItems EXCEPT ![o].label[f] = "loading"]

LoadFolder(o, f) ==
  /\ MayAsk /\ "load" \in FolderOffers(o, f)
  /\ dbItems' = Loading(o, f) /\ PostAsk(AskOf("load", o, f, None, None))
  /\ Idle /\ UNCHANGED <<objects, label, setLabel, wasLost, fresh, toldOf>>

Create(o, f, n) ==
  /\ MayAsk /\ "create" \in FolderOffers(o, f)
  /\ PostAsk(AskOf("create", o, f, n, None)) /\ Idle /\ UNCHANGED tree

(* The operations on a shown name: drop, rename, duplicate.                 *)
Change(o, op, f, n, m) ==
  /\ MayAsk /\ op \in NameOffers(o, f, n) \cap (NameOps \ {"create"})
  /\ IF op = "drop" THEN m = n ELSE TRUE
  /\ PostAsk(AskOf(op, o, f, n, m)) /\ Idle /\ UNCHANGED tree

(* The requests of a collection item name the item itself as their sender.  *)
ExpandIndexes(o, n) ==
  /\ MayAsk /\ "indexes" \in NameOffers(o, "Collections", n)
  /\ dbItems' = [dbItems EXCEPT ![o].ilabel[n] = "loading"]
  /\ PostAsk(AskOf("indexes", dbItems[o].batch, "Collections", n, None))
  /\ Idle /\ UNCHANGED <<objects, label, setLabel, wasLost, fresh, toldOf>>

ChangeIndex(o, op, n) ==
  /\ MayAsk /\ op \in IndexOffers(o, n) \cup (NameOffers(o, "Collections", n) \cap {"addIndex"})
  /\ PostAsk(AskOf(op, dbItems[o].batch, "Collections", n, None)) /\ Idle /\ UNCHANGED tree

-----------------------------------------------------------------------------
(* The worker. An outcome is what the server has afterwards and the answers *)
(* posted; every call to the server may fail.                               *)

Outcome(p, i, c, as) == [part |-> p, indexed |-> i, created |-> c, answers |-> as]
Same(as) == Outcome(part, indexed, created, as)
Fails(r) == {Same(<<AnswerTo(r, FALSE, {})>>)}
Done(r, p, i) == {Outcome(p, i, created, <<AnswerTo(r, TRUE, {})>>)}

(* getDatabaseNamesSafe swallows a failed listing: the databases known by   *)
(* other means (those created here, the authentication database) remain,    *)
(* and without any the answer is an error.                                  *)
ListDatabases(r) ==
  {Outcome(part, indexed, created /\ ~Exists, <<AnswerTo(r, TRUE, Exists \/ created)>>),
   Same(<<AnswerTo(r, TRUE, created)>>)}
  \cup (IF created THEN {} ELSE Fails(r))

(* A set connects again; here the created databases are not added.          *)
Reconnect(r) == {Same(<<AnswerTo(r, TRUE, Exists)>>), Same(<<AnswerTo(r, TRUE, FALSE)>>)} \cup Fails(r)

CreateIn(r) ==
  IF r.n \in part[r.f] /\ r.f # "Functions" THEN {}
  ELSE Done(r, [part EXCEPT ![r.f] = @ \cup {r.n}], indexed)

DropIn(r) ==
  IF r.n \notin part[r.f] /\ r.f # "Functions" THEN {}
  ELSE Done(r, [part EXCEPT ![r.f] = @ \ {r.n}],
            IF r.f = "Collections" THEN indexed \ {r.n} ELSE indexed)

(* renameCollection moves the indexes along and does not replace a target;  *)
(* an edited function is saved under its new name and the old one stays.    *)
RenameIn(r) ==
  CASE r.f = "Functions" -> Done(r, [part EXCEPT ![r.f] = @ \cup {r.m}], indexed)
    [] r.f # "Functions" /\ r.n \in part[r.f] /\ r.m \notin part[r.f] ->
         Done(r, [part EXCEPT ![r.f] = (@ \ {r.n}) \cup {r.m}],
              IF r.n \in indexed THEN (indexed \ {r.n}) \cup {r.m} ELSE indexed)
    [] OTHER -> {}

(* The new collection is created before the documents are copied.           *)
DuplicateIn(r) ==
  IF r.m \in part[r.f] THEN {}
  ELSE LET p == [part EXCEPT ![r.f] = @ \cup {r.m}] IN
       Done(r, p, indexed) \cup {Outcome(p, indexed, created, <<AnswerTo(r, FALSE, {})>>)}

(* The answer to an index change is followed by the list of the indexes, or *)
(* by a second answer that says the list failed.                            *)
Indexes(r, i) == [op |-> "indexes", from |-> r.from, f |-> r.f, n |-> r.n, ok |-> TRUE,
                  data |-> r.n \in i]
IndexMade(r, i) ==
  LET p == [part EXCEPT !["Collections"] = @ \cup {r.n}] IN
  {Outcome(p, i, created, <<AnswerTo(r, TRUE, {}), Indexes(r, i)>>),
   Outcome(p, i, created, <<AnswerTo(r, TRUE, {}), AnswerTo(r, FALSE, {})>>)}

(* The old index is dropped first and, when the new one cannot be created,  *)
(* created again if that works.                                             *)
EditIndex(r) ==
  IF r.n \notin indexed THEN {}
  ELSE IndexMade(r, indexed) \cup {Outcome(part, indexed \ {r.n}, created, <<AnswerTo(r, FALSE, {})>>)}

AskOutcomes(r) ==
  CASE r.op = "databases" -> ListDatabases(r)
    [] r.op = "connect" -> Reconnect(r)
    [] r.op = "folder" -> Done(r, part, indexed) \cup Fails(r)
    [] r.op = "createDb" -> {Outcome(part, indexed, TRUE, <<AnswerTo(r, TRUE, {})>>)} \cup Fails(r)
    [] r.op = "dropDb" ->
         {Outcome([f \in Folders |-> IF f = "Users" THEN part[f] ELSE {}], {}, FALSE, <<AnswerTo(r, TRUE, {})>>)}
         \cup Fails(r)
    [] r.op = "load" -> {Same(<<AnswerTo(r, TRUE, part[r.f])>>)} \cup Fails(r)
    [] r.op = "create" -> CreateIn(r) \cup Fails(r)
    [] r.op = "drop" -> DropIn(r) \cup Fails(r)
    [] r.op = "rename" -> RenameIn(r) \cup Fails(r)
    [] r.op = "duplicate" -> DuplicateIn(r) \cup Fails(r)
    [] r.op = "indexes" -> {Same(<<Indexes(r, indexed)>>)} \cup Fails(r)
    [] r.op = "addIndex" -> IndexMade(r, indexed \cup {r.n}) \cup Fails(r)
    [] r.op = "editIndex" -> EditIndex(r) \cup Fails(r)
    [] r.op = "dropIndex" ->
         (IF r.n \in indexed THEN Done(r, part, indexed \ {r.n}) ELSE {}) \cup Fails(r)

Work ==
  /\ requests # <<>> /\ ~dangling
  /\ \E out \in AskOutcomes(Head(requests)) :
       /\ part' = out.part /\ indexed' = out.indexed /\ created' = out.created
       /\ answers' = answers \o out.answers
       /\ made' = LET r == Head(requests)  ok == out.answers[1].ok IN
                  IF r.op = "createDb" /\ ok THEN ~Exists
                  ELSE made /\ ~(r.op = "dropDb" /\ ok) /\ \A f \in Folders \ {"Users"} : out.part[f] = {}
  /\ requests' = Tail(requests)
  /\ UNCHANGED <<kind, tree, asks, dangling>>

-----------------------------------------------------------------------------
(* The answers, one UI event each.                                          *)

Tell(p) == toldOf' = toldOf \cup {p}
Calm(p) == toldOf' = toldOf \ {p}
SenderOf(a) ==                            \* the items whose object, or whose collection items, asked
  {o \in DOMAIN dbItems : IF a.op \in IndexOps
                        THEN dbItems[o].batch = a.from /\ ~dbItems[o].gutted
                        ELSE o = a.from}
IsAlive(a) == a.from = Server \/ IF a.op \in IndexOps THEN SenderOf(a) # {} ELSE a.from \in objects

(* clearDatabases and, as its answer is published, databaseRefreshed or     *)
(* buildReplicaSetServerItem: all objects and items are made anew.          *)
Rebuild(listed) ==
  /\ objects' = IF listed THEN {fresh} ELSE {}
  /\ dbItems' = [o \in (IF listed THEN {fresh} ELSE {}) |-> NewItem]
  /\ label' = "counted" /\ fresh' = (IF listed THEN fresh + 1 ELSE fresh)

(* replicaSetPrimaryUnreachable: the children of the database items are     *)
(* deleted; the items stay, disabled.                                       *)
Unreachable ==
  /\ wasLost' = TRUE /\ label' = "offline" /\ setLabel' = "plain"
  /\ dbItems' = [o \in DOMAIN dbItems |->
                 [dbItems[o] EXCEPT !.gutted = TRUE, !.batch = 0]]
  /\ UNCHANGED <<objects, fresh>>

DatabasesListed(a) ==
  /\ UNCHANGED <<requests, setLabel, wasLost>>
  /\ IF a.ok THEN Rebuild(a.data) /\ Calm("Databases")
     ELSE label' = "plain" /\ Tell("Databases") /\ UNCHANGED <<objects, dbItems, fresh>>

Reconnected(a) ==
  /\ UNCHANGED requests
  /\ IF a.ok THEN Rebuild(a.data) /\ wasLost' = FALSE /\ setLabel' = "plain" /\ Calm("Databases")
     ELSE Unreachable /\ Tell("Databases")

(* The set is loaded again when its primary was unreachable before.         *)
SetFolderRefreshed(a) ==
  IF ~a.ok THEN Unreachable /\ Tell("Databases") /\ UNCHANGED requests
  ELSE /\ setLabel' = "plain" /\ wasLost' = FALSE
       /\ IF wasLost THEN LoadDatabases ELSE UNCHANGED <<requests, label>>
       /\ UNCHANGED <<objects, dbItems, fresh, toldOf>>

DatabaseChanged(a) ==
  /\ IF a.ok THEN LoadDatabases /\ UNCHANGED toldOf
     ELSE Tell("Databases") /\ UNCHANGED <<requests, label>>
  /\ UNCHANGED <<objects, dbItems, fresh, setLabel, wasLost>>

(* A list of a folder. The collection items are made anew.                  *)
Loaded(item, f, names) ==
  LET it == [item EXCEPT !.label[f] = "counted", !.shown[f] = names] IN
  IF f # "Collections" THEN it
  ELSE [it EXCEPT !.batch = IF names = {} THEN 0 ELSE fresh,
                  !.ilabel = NewItem.ilabel, !.ishown = {}]

FolderLoaded(a) ==
  /\ UNCHANGED <<requests, objects, label, setLabel, wasLost>>
  /\ IF a.ok
     THEN /\ dbItems' = [o \in DOMAIN dbItems |-> IF o = a.from THEN Loaded(dbItems[o], a.f, a.data) ELSE dbItems[o]]
          /\ fresh' = (IF a.f = "Collections" /\ a.data # {} THEN fresh + 1 ELSE fresh)
          /\ Calm(a.f)
     ELSE /\ dbItems' = [o \in DOMAIN dbItems |->
                         IF o = a.from THEN [dbItems[o] EXCEPT !.label[a.f] = "plain"] ELSE dbItems[o]]
          /\ UNCHANGED fresh /\ Tell(a.f)

(* A folder changed: it is loaded again. Mutant: not the functions.         *)
FolderChangedLazily(a) ==
  /\ UNCHANGED <<objects, label, setLabel, wasLost, fresh>>
  /\ IF a.ok /\ a.f # "Functions"
     THEN /\ dbItems' = Loading(a.from, a.f) /\ UNCHANGED toldOf
          /\ PostAsk(AskOf("load", a.from, a.f, None, None))
     ELSE UNCHANGED <<requests, dbItems>> /\ IF a.ok THEN UNCHANGED toldOf ELSE Tell(a.f)

FolderChanged(a) ==
  /\ UNCHANGED <<objects, label, setLabel, wasLost, fresh>>
  /\ IF a.ok
     THEN /\ dbItems' = Loading(a.from, a.f) /\ UNCHANGED toldOf
          /\ PostAsk(AskOf("load", a.from, a.f, None, None))
     ELSE UNCHANGED <<requests, dbItems>> /\ Tell(a.f)

(* The index folder of a collection item: a list, or the end of a change.   *)
IndexesListed(item, a) ==
  [item EXCEPT !.ilabel[a.n] = IF a.ok THEN "counted" ELSE "plain",
               !.ishown = IF a.ok /\ a.data THEN @ \cup {a.n} ELSE @ \ {a.n}]

IndexDropped(item, a) ==
  [item EXCEPT !.ilabel[a.n] = "counted", !.ishown = @ \ {a.n}]

IndexAnswered(a) ==
  /\ UNCHANGED <<requests, objects, label, setLabel, wasLost, fresh>>
  /\ dbItems' = [o \in DOMAIN dbItems |->
                 IF o \notin SenderOf(a) THEN dbItems[o]
                 ELSE IF a.op = "indexes" THEN IndexesListed(dbItems[o], a)
                 ELSE IF a.op = "dropIndex" /\ a.ok THEN IndexDropped(dbItems[o], a)
                 ELSE dbItems[o]]
  /\ CASE ~a.ok -> Tell(a.n)
       [] a.ok /\ a.op = "indexes" -> Calm(a.n)
       [] OTHER -> UNCHANGED toldOf

(* An answer whose sender is deleted, or that makes a database item write   *)
(* through a pointer to a deleted folder item: anything may follow.         *)
Dangles(a) == ~IsAlive(a) \/ \E o \in SenderOf(a) : dbItems[o].gutted

Handle(a) ==
  CASE a.op = "databases" -> DatabasesListed(a)
    [] a.op = "connect" -> Reconnected(a)
    [] a.op = "folder" -> SetFolderRefreshed(a)
    [] a.op \in DatabaseOps -> DatabaseChanged(a)
    [] a.op = "load" -> FolderLoaded(a)
    [] a.op \in NameOps -> FolderChanged(a)
    [] OTHER -> IndexAnswered(a)

Deliver ==
  /\ answers # <<>> /\ ~dangling /\ answers' = Tail(answers)
  /\ UNCHANGED <<kind, server, asks>>
  /\ IF Dangles(Head(answers))
     THEN dangling' = TRUE /\ UNCHANGED <<requests, tree>>
     ELSE Handle(Head(answers)) /\ UNCHANGED dangling

TreeNext ==
  \/ RefreshServer \/ RefreshSetFolder \/ AskCreateDatabase
  \/ \E o \in DOMAIN dbItems :
       \/ AskDropDatabase(o)
       \/ \E f \in Folders : LoadFolder(o, f)
       \/ \E f \in Folders, n \in Names : Create(o, f, n)
       \/ \E f \in Folders, n, m \in Names, op \in NameOps : Change(o, op, f, n, m)
       \/ \E n \in Names : ExpandIndexes(o, n)
       \/ \E n \in Names, op \in IndexOps \ {"indexes"} : ChangeIndex(o, op, n)
  \/ Work \/ Deliver

(* The worker and the UI thread serve their queues.                         *)
TreeSpec == TreeInit /\ [][TreeNext]_treeVars /\ WF_treeVars(Work) /\ WF_treeVars(Deliver)

-----------------------------------------------------------------------------
Quiet == requests = <<>> /\ answers = <<>> /\ ~dangling

(* What the tree shows is what the user's own operations made of the        *)
(* server: with nothing under way, a folder and an index folder that show a *)
(* count list exactly what the server has, unless the user was told that    *)
(* the last operation on them failed. (Of a set whose database was created  *)
(* twice in the tree, only the item used is up to date.)                    *)
OwnWritesAreShown ==
  Quiet /\ "Databases" \notin toldOf /\ Cardinality(objects) = 1 =>
    \A o \in DOMAIN dbItems : ~dbItems[o].gutted =>
      /\ \A f \in Folders \ toldOf : dbItems[o].label[f] = "counted" => dbItems[o].shown[f] = part[f]
      /\ \A n \in dbItems[o].shown["Collections"] \ toldOf :
           "Collections" \notin toldOf /\ dbItems[o].ilabel[n] = "counted"
             => (n \in dbItems[o].ishown <=> n \in indexed)

(* A database created here stays listed until it is dropped, also while it  *)
(* has no collection and the server does not know it.                       *)
CreatedIsListed ==
  Quiet /\ kind = "single" /\ made /\ label = "counted" /\ "Databases" \notin toldOf => objects # {}

(* No item outlives the database object it works on: the operations of an   *)
(* item read the object without a check.                                    *)
ItemsHaveObjects == ~dangling => DOMAIN dbItems \subseteq objects

(* With nothing under way a replica set is shown offline, all its databases *)
(* disabled, exactly while its primary is known to be unreachable.          *)
OfflineIsShown ==
  Quiet => /\ wasLost <=> (label = "offline")
           /\ \A o \in DOMAIN dbItems : wasLost <=> dbItems[o].gutted

(* Every "..." gives way to a count or to the plain name: IsLoading ends.   *)
Dots == label = "loading" \/ setLabel = "loading"
        \/ \E o \in DOMAIN dbItems : ~dbItems[o].gutted /\
             (\/ "loading" \in Range(dbItems[o].label) \/ "loading" \in Range(dbItems[o].ilabel))
IsLoading == Dots /\ ~dangling

(* An answer finds the object it was asked for. ExplorerServerTreeItem.cpp  *)
(* warns: "If we delete these UI objects, response will crash the app".     *)
(* The program does not keep this (README).                                *)
AnswersFindTheirSender == ~dangling

(* The tree shows what the server has, and its items have their objects.    *)
TreeIsSound == TreeTypeOK /\ OwnWritesAreShown /\ CreatedIsListed /\ ItemsHaveObjects /\ OfflineIsShown
=============================================================================
