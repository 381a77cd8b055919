---------------------------- MODULE Connections ----------------------------
(***************************************************************************)
(* Opening, refreshing and closing connections: App (core/domain/App.cpp), *)
(* MongoServer (core/domain/MongoServer.cpp), the worker's answer to an    *)
(* EstablishConnectionRequest (core/mongodb/MongoWorker.cpp), the SSH      *)
(* tunnel in front of it (core/mongodb/SshTunnelWorker.cpp), and the three *)
(* listeners of the outcome: the explorer (gui/widgets/explorer/           *)
(* ExplorerWidget.cpp), the main window's error box (gui/MainWindow.cpp)   *)
(* and the connection test dialog (gui/dialogs/                            *)
(* ConnectionDiagnosticDialog.cpp).                                        *)
(*                                                                         *)
(* Workers post their answers to the UI thread, which handles them in      *)
(* order.  A connection is known by its handle, its place in `opened'.     *)
(***************************************************************************)
EXTENDS Naturals, Sequences, FiniteSets, SequencesExt, Keeping

CONSTANTS Ways,      \* how connections reach their server: subset of {"direct", "ssh", "set"}
          Uses,      \* what they are opened for: subset of {"Primary", "Secondary", "Test"}
          MaxHandles,\* bound on the connections opened
          MaxRefresh \* bound on the refreshes in progress

ASSUME ConnectionsAssumption ==
  /\ Ways \subseteq {"direct", "ssh", "set"}
  /\ Uses \subseteq {"Primary", "Secondary", "Test"}
  /\ MaxHandles \in Nat /\ MaxRefresh \in Nat

VARIABLES opened,   \* the connections opened, [way, use]; Len is _lastServerHandle
          servers,  \* _servers: handles, 0 for a null pointer
          type,     \* _connectionType of a server
          connected,\* servers whose _isConnected is set
          tunnel,   \* what the SshTunnelWorker of a connection is doing
          asked,    \* EstablishConnectionRequests the workers have, [h, type]
          posted,   \* answers posted to the UI thread, [from, h, type, ok]
          items,    \* handles with a server item in the explorer
          progress, \* ExplorerWidget::_progress
          failures, \* handles a ConnectionFailedEvent was published for
          shown,    \* handles whose failure the main window has shown
          dialog,   \* the test dialog's _serverHandle, 0 when no dialog is open
          adopted   \* the test dialog's _server, 0 for none

vars == <<opened, servers, type, connected, tunnel, asked, posted, items, progress,
          failures, shown, dialog, adopted>>

Types == {"Primary", "Secondary", "Test", "Refresh"}
Handles == 1..MaxHandles
Connection == [way : {"direct", "ssh", "set"}, use : {"Primary", "Secondary", "Test"}]
Ask == [h : Handles, type : Types]
Answers == [from : {"tunnel", "channel", "mongo"}, h : Handles, type : Types, ok : BOOLEAN]

Init ==
  /\ opened = <<>> /\ servers = <<>>
  /\ type = [h \in Handles |-> "Primary"]
  /\ tunnel = [h \in Handles |-> "none"]
  /\ connected = {} /\ asked = {} /\ posted = <<>>
  /\ items = {} /\ progress = 0 /\ failures = {} /\ shown = {}
  /\ dialog = 0 /\ adopted = 0

Open == 1..Len(opened)
Owned(h) == \E i \in DOMAIN servers : servers[i] = h
Closed(h) == Keep(servers, (0..MaxHandles) \ {h})

AtLeast0(n) == IF n < 0 THEN 0 ELSE n

\* App::continueOpenServer(): the server is created and its worker asked to connect.
ContinueOpen(h, use) ==
  /\ type' = [type EXCEPT ![h] = use]
  /\ asked' = asked \cup {[h |-> h, type |-> use]}

\* App::openServerInternal() and openServer(): behind a tunnel no server exists
\* yet, and the null pointer returned for it is kept in _servers.
OpenServer(way, use) ==
  /\ Len(opened) < MaxHandles
  /\ use = "Test" => dialog = 0               \* the dialog is modal
  /\ use = "Secondary" => way # "ssh" /\ items # {}
  /\ LET h == Len(opened) + 1 IN
     /\ opened' = Append(opened, [way |-> way, use |-> use])
     /\ progress' = progress + (IF use = "Primary" THEN 1 ELSE 0)
     /\ IF way = "ssh"
        THEN /\ tunnel' = [tunnel EXCEPT ![h] = "establishing"]
             /\ servers' = Append(servers, 0)
             /\ UNCHANGED <<type, asked>>
        ELSE /\ ContinueOpen(h, use)
             /\ servers' = Append(servers, h)
             /\ UNCHANGED tunnel
     /\ dialog' = IF use = "Test" THEN h ELSE dialog
     /\ adopted' = IF use = "Test" THEN 0 ELSE adopted
  /\ UNCHANGED <<connected, posted, items, failures, shown>>

\* ConnectionDiagnosticDialog::~ConnectionDiagnosticDialog().
CloseDialog ==
  /\ dialog # 0
  /\ dialog' = 0 /\ adopted' = 0
  /\ servers' = IF adopted # 0 THEN Closed(adopted) ELSE servers
  /\ asked' = {a \in asked : adopted = 0 \/ a.h # adopted}
  /\ UNCHANGED <<opened, type, connected, tunnel, posted, items, progress, failures, shown>>

\* ExplorerServerTreeItem::ui_disconnectServer(): its worker stops answering.
Disconnect(h) ==
  /\ h \in items
  /\ items' = items \ {h}
  /\ servers' = Closed(h)
  /\ asked' = {a \in asked : a.h # h}
  /\ UNCHANGED <<opened, type, connected, tunnel, posted, progress, failures, shown, dialog, adopted>>

InProgress ==
  Cardinality({a \in asked : a.type = "Refresh"})
  + Cardinality({i \in DOMAIN posted : posted[i].type = "Refresh"})

\* MongoServer::tryRefreshReplicaSetConnection() from the explorer.
Refresh(h) ==
  /\ h \in items /\ opened[h].way = "set"
  /\ InProgress < MaxRefresh
  /\ asked' = asked \cup {[h |-> h, type |-> "Refresh"]}
  /\ UNCHANGED <<opened, servers, type, connected, tunnel, posted, items, progress,
                 failures, shown, dialog, adopted>>
-----------------------------------------------------------------------------
\* The workers.

Post(from, h, use, ok) ==
  posted' = Append(posted, [from |-> from, h |-> h, type |-> use, ok |-> ok])

\* SshTunnelWorker::handle(EstablishSshConnectionRequest).
TunnelAnswers(h, ok) ==
  /\ tunnel[h] = "establishing"
  /\ tunnel' = [tunnel EXCEPT ![h] = IF ok THEN "up" ELSE "gone"]
  /\ Post("tunnel", h, opened[h].use, ok)
  /\ UNCHANGED <<opened, servers, type, connected, asked, items, progress, failures, shown,
                 dialog, adopted>>

\* SshTunnelWorker::handle(ListenSshConnectionRequest) returns: the tunnel broke,
\* or its last connection was closed.
TunnelEnds(h, ok) ==
  /\ tunnel[h] = "listening"
  /\ tunnel' = [tunnel EXCEPT ![h] = "gone"]
  /\ IF ok THEN UNCHANGED posted ELSE Post("channel", h, opened[h].use, FALSE)
  /\ UNCHANGED <<opened, servers, type, connected, asked, items, progress, failures, shown,
                 dialog, adopted>>

\* MongoWorker::handle(EstablishConnectionRequest).
MongoAnswers(a, ok) ==
  /\ a \in asked
  /\ asked' = asked \ {a}
  /\ Post("mongo", a.h, a.type, ok)
  /\ UNCHANGED <<opened, servers, type, connected, tunnel, items, progress, failures, shown,
                 dialog, adopted>>
-----------------------------------------------------------------------------
\* The UI thread.

\* ConnectionFailedEvent published `times' times: the explorer counts down whatever
\* the connection was for, the main window shows a primary's failure unless one of
\* the same or a later connection was shown before.
PublishFailure(h, use, times) ==
  /\ failures' = failures \cup {h}
  /\ progress' = AtLeast0(progress - times)
  /\ shown' = IF use = "Primary" /\ \A s \in shown : s < h THEN shown \cup {h} ELSE shown

Take(from, ok) ==
  /\ posted # <<>>
  /\ Head(posted).from = from /\ Head(posted).ok = ok
  /\ posted' = Tail(posted)

\* Mutant: the server behind the tunnel is created but not asked to connect.
HandleTunnelUpOnly ==
  /\ Take("tunnel", TRUE)
  /\ LET m == Head(posted) IN
     /\ servers' = Append(servers, m.h)
     /\ tunnel' = [tunnel EXCEPT ![m.h] = "listening"]
  /\ UNCHANGED <<opened, type, asked, connected, items, progress, failures, shown, dialog, adopted>>

\* App::handle(EstablishSshConnectionResponse).
HandleTunnelUp ==
  /\ Take("tunnel", TRUE)
  /\ LET m == Head(posted) IN
     /\ ContinueOpen(m.h, m.type)
     /\ servers' = Append(servers, m.h)
     /\ tunnel' = [tunnel EXCEPT ![m.h] = "listening"]
  /\ UNCHANGED <<opened, connected, items, progress, failures, shown, dialog, adopted>>

\* The same handler and handle(ListenSshConnectionResponse), on an error.
HandleTunnelFailure ==
  /\ Take("tunnel", FALSE) \/ Take("channel", FALSE)
  /\ PublishFailure(Head(posted).h, Head(posted).type, 1)
  /\ UNCHANGED <<opened, servers, type, connected, tunnel, asked, items, dialog, adopted>>

\* MongoServer::handle(EstablishConnectionResponse) on success: the explorer gets an
\* item for a primary connection, the test dialog takes any connection made for a test.
HandleConnected ==
  /\ Take("mongo", TRUE)
  /\ LET m == Head(posted) IN
     IF ~Owned(m.h) THEN UNCHANGED <<type, connected, items, progress, adopted>>
     ELSE /\ type' = [type EXCEPT ![m.h] = m.type]
          /\ connected' = connected \cup {m.h}
          /\ IF m.type = "Primary"
             THEN items' = items \cup {m.h} /\ progress' = AtLeast0(progress - 1)
             ELSE UNCHANGED <<items, progress>>
          /\ adopted' = IF m.type = "Test" /\ dialog # 0 THEN m.h ELSE adopted
  /\ UNCHANGED <<opened, servers, tunnel, asked, failures, shown, dialog>>

\* Mutant: a server is closed whatever its failed connection was for.
HandleNotConnectedCloses ==
  /\ Take("mongo", FALSE)
  /\ LET m == Head(posted) IN
     IF ~Owned(m.h) THEN UNCHANGED <<servers, type, connected, progress, failures, shown>>
     ELSE /\ type' = [type EXCEPT ![m.h] = m.type]
          /\ connected' = connected \ {m.h}
          /\ PublishFailure(m.h, m.type, IF opened[m.h].way = "set" THEN 2 ELSE 1)
          /\ servers' = Closed(m.h)
  /\ UNCHANGED <<opened, tunnel, asked, items, dialog, adopted>>

\* MongoServer::handleConnectionFailure(): a replica set's failure is published twice
\* and its server kept, another server is closed unless it is behind a tab.
HandleNotConnected ==
  /\ Take("mongo", FALSE)
  /\ LET m == Head(posted)
         set == opened[m.h].way = "set"
     IN
     IF ~Owned(m.h) THEN UNCHANGED <<servers, type, connected, progress, failures, shown>>
     ELSE /\ type' = [type EXCEPT ![m.h] = m.type]
          /\ connected' = connected \ {m.h}
          /\ PublishFailure(m.h, m.type, IF set THEN 2 ELSE 1)
          /\ servers' = IF ~set /\ m.type \in {"Primary", "Test"} THEN Closed(m.h) ELSE servers
  /\ UNCHANGED <<opened, tunnel, asked, items, dialog, adopted>>

User ==
  \/ \E w \in Ways, u \in Uses : OpenServer(w, u)
  \/ CloseDialog
  \/ \E h \in Handles : Disconnect(h) \/ Refresh(h)

Tunnels == \E h \in Handles : \E ok \in BOOLEAN : TunnelAnswers(h, ok)
TunnelsEnd == \E h \in Handles : \E ok \in BOOLEAN : TunnelEnds(h, ok)
Workers == \E a \in asked : \E ok \in BOOLEAN : MongoAnswers(a, ok)
Ui == HandleTunnelUp \/ HandleTunnelFailure \/ HandleConnected \/ HandleNotConnected

Next == User \/ Tunnels \/ TunnelsEnd \/ Workers \/ Ui

\* The UI's event loop runs, and a worker's blocking connect ends: the driver has a
\* server selection timeout, the SSH library a socket that fails.
Spec ==
  /\ Init /\ [][Next]_vars
  /\ WF_vars(Ui)
  /\ \A h \in Handles :
       /\ WF_vars(\E ok \in BOOLEAN : TunnelAnswers(h, ok))
       /\ WF_vars(\E a \in asked : a.h = h /\ \E ok \in BOOLEAN : MongoAnswers(a, ok))
-----------------------------------------------------------------------------
\* Every variable stays in its type: handles, addresses of requests and answers.
TypeOK ==
  /\ opened \in Seq(Connection) /\ Len(opened) <= MaxHandles
  /\ servers \in Seq(0..MaxHandles)
  /\ type \in [Handles -> Types]
  /\ connected \subseteq Handles /\ items \subseteq Handles
  /\ tunnel \in [Handles -> {"none", "establishing", "up", "listening", "gone"}]
  /\ asked \subseteq Ask /\ posted \in Seq(Answers)
  /\ progress \in Nat
  /\ failures \subseteq Handles /\ shown \subseteq Handles
  /\ dialog \in 0..MaxHandles /\ adopted \in 0..MaxHandles

\* A connection for the explorer that has neither succeeded nor failed yet.
Connecting(h) ==
  /\ h \in Open /\ opened[h].use = "Primary"
  /\ \/ tunnel[h] \in {"establishing", "up"}
     \/ [h |-> h, type |-> "Primary"] \in asked
     \/ \E i \in DOMAIN posted : posted[i].h = h /\ posted[i].from = "mongo" /\ posted[i].type = "Primary"
     \/ \E i \in DOMAIN posted : posted[i].h = h /\ posted[i].from = "tunnel"

\* App.cpp:92-116 and 285-330, MongoServer.cpp:163-224: whatever the tunnel and the
\* worker answer, and in whatever order, every connection for the explorer ends with
\* an item in it or with a failure.
ConnectingEnds == \A h \in Handles : Connecting(h) ~> (h \in items \/ h \in failures)

\* MongoServer.cpp:412-478, App.cpp:175-179: an item of the explorer is backed by a
\* server the application owns, and exactly one.
ItemsAreOwned ==
  \A h \in items : Cardinality({i \in DOMAIN servers : servers[i] = h}) = 1

\* MongoServer.cpp:468-476: "When connection cannot be established, we should cleanup
\* this instance of MongoServer": a server that failed does not stay among the servers,
\* unless it is a replica set's or a tunnel that breaks later is what failed.
FailedAreClosed ==
  \A h \in failures : opened[h] \in [way : {"direct"}, use : {"Primary", "Test"}] => ~Owned(h)

\* ExplorerWidget.cpp:92-132: the label goes away.
ProgressEnds == progress > 0 ~> progress = 0

\* ConnectionDiagnosticDialog.cpp:246-247: "Remember in order to delete on dialog close":
\* a connection made for a test does not outlive its dialog.
\* (The program does not keep this: README.)
TestsEndWithDialog ==
  \A h \in connected : Owned(h) /\ opened[h].use = "Test" => dialog = h

\* Explorer items and servers belong together, and what failed is closed.
ServersAreOwned == TypeOK /\ ItemsAreOwned /\ FailedAreClosed

\* Every attempt for the explorer ends, and so does its progress label.
AttemptsEnd == ConnectingEnds /\ ProgressEnds
=============================================================================
