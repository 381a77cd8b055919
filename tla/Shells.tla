------------------------------- MODULE Shells -------------------------------
(***************************************************************************)
(* The query tabs of App (core/domain/App.cpp): which secondary connection *)
(* (and so which worker and mongosh process) a tab gets, when that         *)
(* connection is closed, and in which database and on which host the       *)
(* worker runs what a tab sends (core/domain/MongoShell.cpp,               *)
(* core/mongodb/MongoWorker.cpp).                                          *)
(*                                                                         *)
(* A connection is known by its uuid; the shells of a replica set's member *)
(* use a copy of its settings that keeps the uuid and names another host   *)
(* (gui/widgets/explorer/ExplorerReplicaSetTreeItem.cpp).                  *)
(***************************************************************************)
EXTENDS Naturals, Sequences, SequencesExt, FiniteSetsExt

CONSTANTS Conns,    \* connections
          Hosts,    \* hosts a connection's shells may be opened on
          Dbs, NoDb,
          ConfigDb, \* the default database the user configured
          Sharing,  \* the user may switch on one shell process per connection
          MaxTabs,  \* bound on the tabs opened
          MaxRuns   \* bound on the scripts sent

ASSUME ShellsAssumption ==
  /\ ConfigDb \in Dbs /\ NoDb \notin Dbs
  /\ Sharing \in BOOLEAN
  /\ MaxTabs \in Nat /\ MaxRuns \in Nat

VARIABLES share,   \* shareShellPerConnection()
          record,  \* the default database of the settings the explorer holds
          servers, \* the secondary MongoServers made for tabs
          tabs,    \* the tabs opened, in order
          queue,   \* the requests the worker of a server has
          sent,    \* scripts sent so far
          ran      \* what the workers have run

vars == <<share, record, servers, tabs, queue, sent, ran>>

\* workerDb is the default database of the worker's own copy of the settings.
Server == [conn : Conns, host : Hosts, db : Dbs, workerDb : Dbs, open : BOOLEAN]
\* db is ScriptInfo::dbname(), shown the database of the last result.
Tab == [server : Nat, host : Hosts, db : Dbs \cup {NoDb}, shown : Dbs \cup {NoDb}, open : BOOLEAN]
Request == [tab : Nat, db : Dbs \cup {NoDb}]
Run == [tab : Nat, in : Dbs, on : Hosts]

Init ==
  /\ share = FALSE
  /\ record = [c \in Conns |-> [h \in Hosts |-> ConfigDb]]
  /\ servers = <<>> /\ tabs = <<>>
  /\ queue = [s \in 1..MaxTabs |-> <<>>]
  /\ sent = 0 /\ ran = <<>>

OpenTabs == {t \in DOMAIN tabs : tabs[t].open}
TabsOf(s) == {t \in OpenTabs : tabs[t].server = s}

Ask(t, s, db) ==
  /\ queue' = [queue EXCEPT ![s] = Append(@, [tab |-> t, db |-> db])]
  /\ sent' = sent + 1

\* App::openShell(): with sharing on, the server of the first tab of the same
\* connection is used, else a new one is made from the settings given.
OpenOn(conn, host, default, db, execute) ==
  LET same == {t \in OpenTabs : servers[tabs[t].server].conn = conn}
      reused == share /\ same # {}
      s == IF reused THEN tabs[Min(same)].server ELSE Len(servers) + 1
      t == Len(tabs) + 1
  IN /\ Len(tabs) < MaxTabs
     /\ servers' = IF reused THEN servers
                   ELSE Append(servers, [conn |-> conn, host |-> host, db |-> default,
                                         workerDb |-> default, open |-> TRUE])
     /\ tabs' = Append(tabs, [server |-> s, host |-> host, db |-> db, shown |-> NoDb, open |-> TRUE])
     /\ IF execute THEN sent < MaxRuns /\ Ask(t, s, db) ELSE UNCHANGED <<queue, sent>>

\* Mutant: setDefaultDatabase() is not called.
OpenTabElsewhere(c, h, db, execute) ==
  /\ OpenOn(c, h, record[c][h], db, execute)
  /\ UNCHANGED <<share, record, ran>>

\* From the explorer: opening a database's or a collection's shell makes it the
\* default database of the explorer's settings.
OpenTab(c, h, db, execute) ==
  LET default == IF db = NoDb THEN record[c][h] ELSE db IN
  /\ OpenOn(c, h, default, db, execute)
  /\ record' = [record EXCEPT ![c][h] = default]
  /\ UNCHANGED <<share, ran>>

\* QueryWidget::openNewTab(): the same with the settings of the tab's own server
\* and the database of the tab's last result.
DuplicateTab(t, execute) ==
  LET old == servers[tabs[t].server]
      default == IF tabs[t].shown = NoDb THEN old.db ELSE tabs[t].shown
  IN /\ t \in OpenTabs
     /\ OpenOn(old.conn, old.host, default, tabs[t].shown, execute)
     /\ UNCHANGED <<share, record, ran>>

\* QueryWidget::execute(), MongoShell::open(): no database is sent along.
Execute(t) ==
  /\ t \in OpenTabs /\ sent < MaxRuns
  /\ Ask(t, tabs[t].server, NoDb)
  /\ UNCHANGED <<share, record, servers, tabs, ran>>

\* App::closeShell(): the server is closed with its last tab; its worker stops.
CloseTab(t) ==
  /\ t \in OpenTabs
  /\ tabs' = [tabs EXCEPT ![t].open = FALSE]
  /\ LET s == tabs[t].server IN
     IF TabsOf(s) = {t}
     THEN /\ servers' = [servers EXCEPT ![s].open = FALSE]
          /\ queue' = [queue EXCEPT ![s] = <<>>]
     ELSE UNCHANGED <<servers, queue>>
  /\ UNCHANGED <<share, record, sent, ran>>

\* The preference takes effect for new tabs.
ToggleShare ==
  /\ Sharing
  /\ share' = ~share
  /\ UNCHANGED <<record, servers, tabs, queue, sent, ran>>

\* MongoWorker::handle(ExecuteScriptRequest): the worker's default database stands
\* in for a missing one.
ServedDb(s, request) == IF request.db = NoDb THEN servers[s].workerDb ELSE request.db

\* Mutant: a script whose tab is not the first of its server is not answered.
ServeFirstTab(s) ==
  /\ queue[s] # <<>> /\ Head(queue[s]).tab = Min(TabsOf(s))
  /\ queue' = [queue EXCEPT ![s] = Tail(@)]
  /\ ran' = Append(ran, [tab |-> Head(queue[s]).tab, in |-> servers[s].workerDb, on |-> servers[s].host])
  /\ UNCHANGED <<share, record, servers, tabs, sent>>

\* The worker of s runs its oldest request; the tab, when it is still there, gets
\* the result.
Serve(s) ==
  /\ queue[s] # <<>>
  /\ queue' = [queue EXCEPT ![s] = Tail(@)]
  /\ LET request == Head(queue[s])
         db == ServedDb(s, request)
     IN /\ ran' = Append(ran, [tab |-> request.tab, in |-> db, on |-> servers[s].host])
        /\ tabs' = IF tabs[request.tab].open THEN [tabs EXCEPT ![request.tab].shown = db] ELSE tabs
  /\ UNCHANGED <<share, record, servers, sent>>

Next ==
  \/ \E c \in Conns, h \in Hosts, db \in Dbs \cup {NoDb}, x \in BOOLEAN : OpenTab(c, h, db, x)
  \/ \E t \in 1..MaxTabs :
       \/ \E x \in BOOLEAN : DuplicateTab(t, x)
       \/ Execute(t)
       \/ CloseTab(t)
       \/ Serve(t)
  \/ ToggleShare

\* A worker's event loop runs, and a script ends by its timeout at the latest.
Spec == Init /\ [][Next]_vars /\ \A s \in 1..MaxTabs : WF_vars(Serve(s))
-----------------------------------------------------------------------------
\* Every variable stays in its type.
TypeOK ==
  /\ share \in BOOLEAN
  /\ record \in [Conns -> [Hosts -> Dbs]]
  /\ servers \in Seq(Server) /\ tabs \in Seq(Tab)
  /\ queue \in [1..MaxTabs -> Seq(Request)]
  /\ sent \in Nat /\ ran \in Seq(Run)

\* App.cpp:275-278: "one server backs several tabs, so it must outlive all but the
\* last": whatever is opened, shared, duplicated and closed, a tab's server is there.
ServersOutliveTabs == \A t \in OpenTabs : servers[tabs[t].server].open

\* App.cpp:262-283: no mongosh process stays when its last tab is closed.
NoIdleServer == \A s \in DOMAIN servers : servers[s].open => TabsOf(s) # {}

\* App.cpp:218-222: "execution serializes across them": what a tab sends is run, unless
\* the tab is closed; closing a sibling tab does not lose it.
EveryScriptRuns ==
  \A s, t \in 1..MaxTabs :
    (\E i \in DOMAIN queue[s] : queue[s][i].tab = t) ~>
      (t \notin OpenTabs \/ \A i \in DOMAIN queue[s] : queue[s][i].tab # t)

\* MongoShell.cpp:42-45: "so a server shared across tabs (shareShellPerConnection) runs
\* each query against the right db".
\* (The program does not keep this: README.)
RunsInTabDb == \A i \in DOMAIN ran : tabs[ran[i].tab].db \in {NoDb, ran[i].in}

\* App.cpp:216-256 and 192-202: a tab that has its server to itself runs in its own
\* database and on the host it was opened on, whatever other tabs did to the settings.
UnsharedRunsAreRight ==
  \A i \in DOMAIN ran :
    LET tab == tabs[ran[i].tab] IN
    (\A t \in DOMAIN tabs : tabs[t].server = tab.server => t = ran[i].tab) =>
      tab.db \in {NoDb, ran[i].in} /\ tab.host = ran[i].on

\* A server lives exactly as long as a tab uses it, and a tab that has it alone
\* runs in its own database and on its own host.
TabsAreServed == TypeOK /\ ServersOutliveTabs /\ NoIdleServer /\ UnsharedRunsAreRight
=============================================================================
