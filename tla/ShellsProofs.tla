----------------------------- MODULE ShellsProofs -----------------------------
(***************************************************************************)
(* The connections a user keeps, and the shells opened on them.            *)
(*                                                                         *)
(* TabsAreServed of Shells, for every number of connections, hosts, tabs   *)
(* and scripts: a server lives exactly as long as a tab uses it, and a tab *)
(* that has its server to itself runs in its own database on its own host. *)
(* The four properties are not inductive by themselves: which run is right *)
(* is decided when the script waits in the queue, and which database the   *)
(* worker has when the tab is opened.  Served adds these earlier facts.    *)
(*                                                                         *)
(* SettingsAreSound and SettingsSurvive of Settings, for every list of     *)
(* version directories and every number of connections and starts.  What   *)
(* the next start finds is decided by what it will read: the file, else    *)
(* the newest directory, else the list of Robo 3T, with the key there is.  *)
(* SettingsInv says that everything known to be saved is in that source,   *)
(* under that key; the rest of it tells the connections apart.             *)
(***************************************************************************)
EXTENDS Shells, Settings, SequenceLemmas

\* Servers are made for tabs, and there is room for the requests of each.
TabsHaveServers ==
  /\ \A t \in DOMAIN tabs : tabs[t].server \in DOMAIN servers
  /\ Len(servers) <= Len(tabs) /\ Len(tabs) <= MaxTabs

\* A request waits at the server of its tab, and names no database or the tab's.
RequestsAreOfTabs ==
  \A s \in 1..MaxTabs : \A i \in DOMAIN queue[s] :
    LET request == queue[s][i] IN
    /\ request.tab \in DOMAIN tabs /\ tabs[request.tab].server = s
    /\ request.db \in {NoDb, tabs[request.tab].db}

\* What was run was sent by a tab.
RunsAreOfTabs == \A i \in DOMAIN ran : ran[i].tab \in DOMAIN tabs

\* No other tab, open or closed, was ever served by the server of t.
Alone(t) == \A u \in DOMAIN tabs : tabs[u].server = tabs[t].server => u = t

\* The worker of a tab that is alone has the tab's database and host.
AloneOnOwnServer ==
  \A t \in DOMAIN tabs :
    Alone(t) =>
      /\ tabs[t].db \in {NoDb, servers[tabs[t].server].workerDb}
      /\ tabs[t].host = servers[tabs[t].server].host

\* The inductive invariant.
Served ==
  /\ TabsAreServed
  /\ TabsHaveServers /\ RequestsAreOfTabs /\ RunsAreOfTabs /\ AloneOnOwnServer
-----------------------------------------------------------------------------
\* The sequences of a typed state have the indices 1..Len.
LEMMA Domains ==
  ASSUME TypeOK
  PROVE  /\ Len(tabs) \in Nat /\ DOMAIN tabs = 1..Len(tabs)
         /\ Len(servers) \in Nat /\ DOMAIN servers = 1..Len(servers)
         /\ Len(ran) \in Nat /\ DOMAIN ran = 1..Len(ran)
         /\ \A s \in 1..MaxTabs :
              /\ queue[s] \in Seq(Request)
              /\ Len(queue[s]) \in Nat /\ DOMAIN queue[s] = 1..Len(queue[s])
         /\ \A t \in 1..Len(tabs) : tabs[t] \in Tab
         /\ \A s \in 1..Len(servers) : servers[s] \in Server
<1>1. /\ Len(tabs) \in Nat /\ DOMAIN tabs = 1..Len(tabs)
      /\ \A t \in 1..Len(tabs) : tabs[t] \in Tab
  BY LenProperties, ElementOfSeq DEF TypeOK
<1>2. /\ Len(servers) \in Nat /\ DOMAIN servers = 1..Len(servers)
      /\ \A s \in 1..Len(servers) : servers[s] \in Server
  BY LenProperties, ElementOfSeq DEF TypeOK
<1>3. Len(ran) \in Nat /\ DOMAIN ran = 1..Len(ran)
  BY LenProperties DEF TypeOK
<1>4. \A s \in 1..MaxTabs :
        /\ queue[s] \in Seq(Request)
        /\ Len(queue[s]) \in Nat /\ DOMAIN queue[s] = 1..Len(queue[s])
  <2> TAKE s \in 1..MaxTabs
  <2>1. queue[s] \in Seq(Request)
    BY DEF TypeOK
  <2> QED
    BY <2>1, LenProperties
<1> QED
  BY <1>1, <1>2, <1>3, <1>4

LEMMA InitServed == Init => Served
<1> SUFFICES ASSUME Init PROVE Served
  OBVIOUS
<1>0. ConfigDb \in Dbs /\ MaxTabs \in Nat
  BY ShellsAssumption
<1>1. DOMAIN servers = {} /\ DOMAIN tabs = {} /\ DOMAIN ran = {}
      /\ Len(tabs) = 0 /\ Len(servers) = 0
  BY DEF Init
<1>2. \A s \in 1..MaxTabs : queue[s] = <<>>
  BY DEF Init
<1>3. TypeOK
  <2>1. servers \in Seq(Server) /\ tabs \in Seq(Tab) /\ ran \in Seq(Run)
    BY DEF Init
  <2>2. queue \in [1..MaxTabs -> Seq(Request)]
    BY DEF Init
  <2>3. record \in [Conns -> [Hosts -> Dbs]]
    BY <1>0 DEF Init
  <2> QED
    BY <2>1, <2>2, <2>3 DEF Init, TypeOK
<1>4. TabsAreServed
  BY <1>1, <1>3 DEF TabsAreServed, ServersOutliveTabs, NoIdleServer, UnsharedRunsAreRight, OpenTabs
<1>5. TabsHaveServers /\ RunsAreOfTabs /\ AloneOnOwnServer
  BY <1>0, <1>1 DEF TabsHaveServers, RunsAreOfTabs, AloneOnOwnServer
<1>6. RequestsAreOfTabs
  <2>1. \A s \in 1..MaxTabs : DOMAIN queue[s] = {}
    BY <1>2
  <2> QED
    BY <2>1 DEF RequestsAreOfTabs
<1> QED
  BY <1>4, <1>5, <1>6 DEF Served
-----------------------------------------------------------------------------
\* What openShell() is told to open: the settings' default database is the tab's
\* database when the tab has one.
LEMMA OpenOnServed ==
  ASSUME Served,
         NEW conn \in Conns, NEW host \in Hosts, NEW default \in Dbs,
         NEW db \in {NoDb, default}, NEW execute \in BOOLEAN,
         OpenOn(conn, host, default, db, execute),
         share' = share, record' \in [Conns -> [Hosts -> Dbs]], ran' = ran
  PROVE  Served'
<1> DEFINE same == {u \in OpenTabs : servers[tabs[u].server].conn = conn}
           server == [conn |-> conn, host |-> host, db |-> default,
                      workerDb |-> default, open |-> TRUE]
<1>r. PICK reused \in BOOLEAN : reused = (share /\ same # {})
  OBVIOUS
<1>s. PICK s : s = IF reused THEN tabs[Min(same)].server ELSE Len(servers) + 1
  OBVIOUS
<1>t. PICK t : t = Len(tabs) + 1
  OBVIOUS
<1> DEFINE tab == [server |-> s, host |-> host, db |-> db, shown |-> NoDb, open |-> TRUE]
<1>1. /\ Len(tabs) < MaxTabs
      /\ servers' = IF reused THEN servers ELSE Append(servers, server)
      /\ tabs' = Append(tabs, tab)
      /\ IF execute THEN sent < MaxRuns /\ Ask(t, s, db) ELSE UNCHANGED <<queue, sent>>
  BY <1>r, <1>s, <1>t DEF OpenOn
<1>2. TypeOK /\ MaxTabs \in Nat
  BY ShellsAssumption DEF Served, TabsAreServed
<1>3. /\ Len(tabs) \in Nat /\ DOMAIN tabs = 1..Len(tabs)
      /\ Len(servers) \in Nat /\ DOMAIN servers = 1..Len(servers)
      /\ DOMAIN ran = 1..Len(ran)
      /\ \A q \in 1..MaxTabs :
           /\ queue[q] \in Seq(Request)
           /\ Len(queue[q]) \in Nat /\ DOMAIN queue[q] = 1..Len(queue[q])
  BY <1>2, Domains
<1>4. /\ \A u \in 1..Len(tabs) : tabs[u].server \in 1..Len(servers)
      /\ Len(servers) <= Len(tabs)
  BY <1>3 DEF Served, TabsHaveServers
<1> DEFINE u0 == Min(same)
<1>5. reused => /\ u0 \in 1..Len(tabs) /\ tabs[u0].open /\ s = tabs[u0].server
                /\ servers[s].open
  <2> SUFFICES ASSUME reused
               PROVE  /\ u0 \in 1..Len(tabs) /\ tabs[u0].open /\ s = tabs[u0].server
                      /\ servers[s].open
    OBVIOUS
  <2>1. same \subseteq OpenTabs /\ OpenTabs \subseteq 1..Len(tabs) /\ 1..Len(tabs) \subseteq Nat
    BY <1>3 DEF OpenTabs
  <2>2. u0 \in same
    BY <1>r, <2>1, MinOfSet
  <2>3. s = tabs[u0].server
    BY <1>s
  <2>4. u0 \in OpenTabs
    BY <2>1, <2>2
  <2> QED
    BY <2>1, <2>3, <2>4 DEF Served, TabsAreServed, ServersOutliveTabs, OpenTabs
<1>6. s \in Nat /\ s \in 1..Len(tabs) + 1 /\ s \in 1..MaxTabs
  <2>1. CASE reused
    <3>1. s \in 1..Len(servers)
      BY <1>4, <1>5, <2>1
    <3> QED
      BY <1>1, <1>2, <1>3, <1>4, <3>1
  <2>2. CASE ~reused
    BY <1>1, <1>2, <1>3, <1>4, <1>s, <2>2
  <2> QED
    BY <2>1, <2>2
<1> HIDE DEF u0
<1>7. /\ tab \in Tab
      /\ tab.server = s /\ tab.host = host /\ tab.db = db /\ tab.open
  BY <1>6 DEF Tab
<1>8. /\ server \in Server /\ server.conn = conn /\ server.host = host
      /\ server.workerDb = default /\ server.open
  BY DEF Server
<1> HIDE DEF tab, server
<1>9. /\ tabs' \in Seq(Tab) /\ Len(tabs') = Len(tabs) + 1 /\ DOMAIN tabs' = 1..(Len(tabs) + 1)
      /\ \A u \in 1..Len(tabs) : tabs'[u] = tabs[u]
      /\ tabs'[t] = tab
  <2>1. tabs \in Seq(Tab)
    BY <1>2 DEF TypeOK
  <2>2. /\ tabs' \in Seq(Tab) /\ Len(tabs') = Len(tabs) + 1
        /\ \A u \in 1..Len(tabs) : tabs'[u] = tabs[u]
        /\ tabs'[Len(tabs) + 1] = tab
    BY <1>1, <1>7, <2>1, AppendProperties
  <2> QED
    BY <1>t, <2>2, LenProperties
<1>10. /\ servers' \in Seq(Server) /\ DOMAIN servers' = 1..Len(servers')
       /\ \A q \in 1..Len(servers) : servers'[q] = servers[q]
       /\ Len(servers') = IF reused THEN Len(servers) ELSE Len(servers) + 1
       /\ ~reused => s = Len(servers) + 1 /\ servers'[s] = server
       /\ s \in 1..Len(servers') /\ servers'[s].open
  <2>1. servers \in Seq(Server)
    BY <1>2 DEF TypeOK
  <2>2. CASE reused
    <3>1. servers' = servers
      BY <1>1, <2>2
    <3>2. s \in 1..Len(servers)
      BY <1>4, <1>5, <2>2
    <3> QED
      BY <1>3, <1>5, <2>1, <2>2, <3>1, <3>2
  <2>3. CASE ~reused
    <3>1. servers' = Append(servers, server) /\ s = Len(servers) + 1
      BY <1>1, <1>s, <2>3
    <3>2. /\ servers' \in Seq(Server) /\ Len(servers') = Len(servers) + 1
          /\ \A q \in 1..Len(servers) : servers'[q] = servers[q]
          /\ servers'[Len(servers) + 1] = server
      BY <1>8, <2>1, <3>1, AppendProperties
    <3>3. DOMAIN servers' = 1..Len(servers')
      BY <3>2, LenProperties
    <3> QED
      BY <1>3, <1>8, <2>3, <3>1, <3>2, <3>3
  <2> QED
    BY <2>2, <2>3
<1>11. \A u \in 1..(Len(tabs) + 1) : u = t \/ u \in 1..Len(tabs)
  BY <1>3, <1>t
<1>12. t \in 1..(Len(tabs) + 1) /\ t \notin 1..Len(tabs) /\ 1..Len(tabs) \subseteq 1..(Len(tabs) + 1)
  BY <1>3, <1>t
<1>13. /\ queue' \in [1..MaxTabs -> Seq(Request)] /\ sent' \in Nat
       /\ \A q \in 1..MaxTabs : \A i \in DOMAIN queue'[q] :
            \/ i \in DOMAIN queue[q] /\ queue'[q][i] = queue[q][i]
            \/ q = s /\ queue'[q][i].tab = t /\ queue'[q][i].db = db
  <2>1. CASE ~execute
    BY <1>1, <1>2, <2>1 DEF TypeOK
  <2>2. CASE execute
    <3> DEFINE request == [tab |-> t, db |-> db]
    <3>1. queue' = [queue EXCEPT ![s] = Append(@, request)] /\ sent' = sent + 1
      BY <1>1, <2>2 DEF Ask
    <3>2. request \in Request /\ request.tab = t /\ request.db = db
      BY <1>3, <1>t DEF Request
    <3> HIDE DEF request
    <3>3. /\ Append(queue[s], request) \in Seq(Request)
          /\ Len(Append(queue[s], request)) = Len(queue[s]) + 1
          /\ \A i \in 1..Len(queue[s]) : Append(queue[s], request)[i] = queue[s][i]
          /\ Append(queue[s], request)[Len(queue[s]) + 1] = request
      BY <1>3, <1>6, <3>2, AppendProperties
    <3>4. DOMAIN Append(queue[s], request) = 1..(Len(queue[s]) + 1)
      BY <3>3, LenProperties
    <3>5. queue' \in [1..MaxTabs -> Seq(Request)] /\ sent' \in Nat
      <4>1. queue \in [1..MaxTabs -> Seq(Request)] /\ sent \in Nat
        BY <1>2 DEF TypeOK
      <4>2. [queue EXCEPT ![s] = Append(queue[s], request)] \in [1..MaxTabs -> Seq(Request)]
        BY <3>3, <4>1
      <4> QED
        BY <3>1, <4>1, <4>2
    <3>6. /\ queue'[s] = Append(queue[s], request)
          /\ \A q \in 1..MaxTabs : q # s => queue'[q] = queue[q]
      BY <1>2, <1>6, <3>1 DEF TypeOK
    <3>7. \A i \in DOMAIN queue'[s] : \/ i \in DOMAIN queue[s] /\ queue'[s][i] = queue[s][i]
                                      \/ queue'[s][i] = request
      BY <1>3, <1>6, <3>3, <3>4, <3>6
    <3> QED
      BY <3>2, <3>5, <3>6, <3>7
  <2> QED
    BY <2>1, <2>2
<1>14. TypeOK'
  BY <1>2, <1>9, <1>10, <1>13 DEF TypeOK
<1>15. /\ OpenTabs' = OpenTabs \cup {t}
       /\ \A q : TabsOf(q) \subseteq TabsOf(q)' /\ t \in TabsOf(s)'
  BY <1>3, <1>7, <1>9, <1>11, <1>12 DEF OpenTabs, TabsOf
<1>16. ServersOutliveTabs'
  <2> SUFFICES ASSUME NEW u \in OpenTabs \cup {t}
               PROVE  servers'[tabs'[u].server].open
    BY <1>15 DEF ServersOutliveTabs
  <2>1. CASE u = t
    BY <1>7, <1>9, <1>10, <2>1
  <2>2. CASE u \in OpenTabs
    <3>1. u \in 1..Len(tabs) /\ tabs'[u] = tabs[u]
      BY <1>3, <1>9, <2>2 DEF OpenTabs
    <3>2. servers[tabs[u].server].open /\ tabs[u].server \in 1..Len(servers)
      BY <1>3, <1>4, <2>2, <3>1 DEF Served, TabsAreServed, ServersOutliveTabs
    <3> QED
      BY <1>10, <3>1, <3>2
  <2> QED
    BY <2>1, <2>2
<1>17. NoIdleServer'
  BY <1>3, <1>10, <1>15 DEF Served, TabsAreServed, NoIdleServer
<1>18. TabsHaveServers'
  <2>1. \A u \in DOMAIN tabs' : tabs'[u].server \in DOMAIN servers'
    BY <1>3, <1>4, <1>7, <1>9, <1>10, <1>11
  <2>2. Len(servers') <= Len(tabs') /\ Len(tabs') <= MaxTabs
    BY <1>1, <1>2, <1>3, <1>4, <1>9, <1>10
  <2> QED
    BY <2>1, <2>2 DEF TabsHaveServers
<1>19. RequestsAreOfTabs'
  <2>1. ASSUME NEW q \in 1..MaxTabs, NEW i \in DOMAIN queue'[q]
        PROVE  LET request == queue'[q][i] IN
               /\ request.tab \in DOMAIN tabs' /\ tabs'[request.tab].server = q
               /\ request.db \in {NoDb, tabs'[request.tab].db}
    <3>1. CASE i \in DOMAIN queue[q] /\ queue'[q][i] = queue[q][i]
      <4>1. /\ queue[q][i].tab \in 1..Len(tabs) /\ tabs[queue[q][i].tab].server = q
            /\ queue[q][i].db \in {NoDb, tabs[queue[q][i].tab].db}
        BY <1>3, <3>1 DEF Served, RequestsAreOfTabs
      <4> QED
        BY <1>9, <1>12, <3>1, <4>1
    <3>2. CASE q = s /\ queue'[q][i].tab = t /\ queue'[q][i].db = db
      BY <1>7, <1>9, <1>12, <3>2
    <3> QED
      BY <1>13, <3>1, <3>2
  <2> QED
    BY <2>1 DEF RequestsAreOfTabs
<1>20. RunsAreOfTabs'
  BY <1>3, <1>9, <1>12 DEF Served, RunsAreOfTabs
<1>21. \A u \in 1..Len(tabs) : Alone(u)' => Alone(u)
  BY <1>3, <1>9, <1>12 DEF Alone
<1>22. UnsharedRunsAreRight'
  BY <1>3, <1>9, <1>20, <1>21
     DEF Served, TabsAreServed, UnsharedRunsAreRight, RunsAreOfTabs, Alone
<1>23. AloneOnOwnServer'
  <2>1. ASSUME NEW u \in 1..Len(tabs), Alone(u)'
        PROVE  /\ tabs'[u].db \in {NoDb, servers'[tabs'[u].server].workerDb}
               /\ tabs'[u].host = servers'[tabs'[u].server].host
    BY <1>3, <1>4, <1>9, <1>10, <1>21, <2>1 DEF Served, AloneOnOwnServer
  <2>2. Alone(t)' => ~reused
    BY <1>5, <1>7, <1>9, <1>12 DEF Alone
  <2>3. ~reused => /\ tabs'[t].db \in {NoDb, servers'[tabs'[t].server].workerDb}
                   /\ tabs'[t].host = servers'[tabs'[t].server].host
    BY <1>7, <1>8, <1>9, <1>10
  <2> QED
    BY <1>9, <1>11, <2>1, <2>2, <2>3 DEF AloneOnOwnServer
<1> QED
  BY <1>14, <1>16, <1>17, <1>18, <1>19, <1>20, <1>22, <1>23 DEF Served, TabsAreServed
-----------------------------------------------------------------------------
LEMMA ExecuteServed ==
  ASSUME Served, NEW t \in 1..MaxTabs, Execute(t)
  PROVE  Served'
<1> DEFINE s == tabs[t].server
           request == [tab |-> t, db |-> NoDb]
<1>1. /\ t \in DOMAIN tabs /\ tabs[t].open
      /\ queue' = [queue EXCEPT ![s] = Append(@, request)] /\ sent' = sent + 1
      /\ UNCHANGED <<share, record, servers, tabs, ran>>
  BY DEF Execute, Ask, OpenTabs
<1>2. TypeOK /\ MaxTabs \in Nat
  BY ShellsAssumption DEF Served, TabsAreServed
<1>3. /\ Len(tabs) \in Nat /\ Len(servers) \in Nat /\ DOMAIN servers = 1..Len(servers)
      /\ \A q \in 1..MaxTabs :
           /\ queue[q] \in Seq(Request)
           /\ Len(queue[q]) \in Nat /\ DOMAIN queue[q] = 1..Len(queue[q])
  BY <1>2, Domains
<1>4. s \in 1..MaxTabs
  BY <1>1, <1>2, <1>3 DEF Served, TabsHaveServers
<1>5. request \in Request /\ request.tab = t /\ request.db = NoDb
  BY <1>2 DEF Request
<1> HIDE DEF request, s
<1>6. /\ Append(queue[s], request) \in Seq(Request)
      /\ Len(Append(queue[s], request)) = Len(queue[s]) + 1
      /\ \A i \in 1..Len(queue[s]) : Append(queue[s], request)[i] = queue[s][i]
      /\ Append(queue[s], request)[Len(queue[s]) + 1] = request
      /\ DOMAIN Append(queue[s], request) = 1..(Len(queue[s]) + 1)
  BY <1>3, <1>4, <1>5, AppendProperties, LenProperties
<1>7. queue \in [1..MaxTabs -> Seq(Request)] /\ sent \in Nat
  BY <1>2 DEF TypeOK
<1>8. TypeOK'
  <2>1. [queue EXCEPT ![s] = Append(queue[s], request)] \in [1..MaxTabs -> Seq(Request)]
    BY <1>6, <1>7
  <2> QED
    BY <1>1, <1>2, <1>7, <2>1 DEF TypeOK
<1>9. RequestsAreOfTabs'
  <2>1. ASSUME NEW q \in 1..MaxTabs, NEW i \in DOMAIN queue'[q]
        PROVE  LET r == queue'[q][i] IN
               /\ r.tab \in DOMAIN tabs /\ tabs[r.tab].server = q
               /\ r.db \in {NoDb, tabs[r.tab].db}
    <3>1. CASE i \in DOMAIN queue[q] /\ queue'[q][i] = queue[q][i]
      BY <3>1 DEF Served, RequestsAreOfTabs
    <3>2. CASE q = s /\ queue'[q][i] = request
      BY <1>1, <1>5, <3>2 DEF s
    <3>3. q # s => queue'[q] = queue[q]
      BY <1>1, <1>7
    <3>4. q = s => queue'[q] = Append(queue[s], request)
      BY <1>1, <1>4, <1>7
    <3>5. q = s => i \in 1..Len(queue[s]) \/ i = Len(queue[s]) + 1
      BY <1>3, <1>4, <1>6, <3>4
    <3> QED
      BY <1>3, <1>6, <3>1, <3>2, <3>3, <3>4, <3>5
  <2> QED
    BY <1>1, <2>1 DEF RequestsAreOfTabs
<1> QED
  BY <1>1, <1>8, <1>9
     DEF Served, TabsAreServed, ServersOutliveTabs, NoIdleServer, UnsharedRunsAreRight,
         TabsHaveServers, RunsAreOfTabs, AloneOnOwnServer, Alone, OpenTabs, TabsOf

LEMMA CloseTabServed ==
  ASSUME Served, NEW t \in 1..MaxTabs, CloseTab(t)
  PROVE  Served'
<1>s. PICK s : s = tabs[t].server
  OBVIOUS
<1>1. /\ t \in DOMAIN tabs /\ tabs[t].open
      /\ tabs' = [tabs EXCEPT ![t].open = FALSE]
      /\ IF TabsOf(s) = {t}
         THEN /\ servers' = [servers EXCEPT ![s].open = FALSE]
              /\ queue' = [queue EXCEPT ![s] = <<>>]
         ELSE UNCHANGED <<servers, queue>>
      /\ UNCHANGED <<share, record, sent, ran>>
  BY <1>s DEF CloseTab, OpenTabs
<1>2. TypeOK /\ MaxTabs \in Nat
  BY ShellsAssumption DEF Served, TabsAreServed
<1>3. /\ Len(tabs) \in Nat /\ DOMAIN tabs = 1..Len(tabs)
      /\ Len(servers) \in Nat /\ DOMAIN servers = 1..Len(servers)
      /\ DOMAIN ran = 1..Len(ran)
      /\ \A u \in 1..Len(tabs) : tabs[u] \in Tab
      /\ \A q \in 1..Len(servers) : servers[q] \in Server
  BY <1>2, Domains
<1>4. s \in 1..Len(servers) /\ s \in 1..MaxTabs
  BY <1>s, <1>1, <1>2, <1>3 DEF Served, TabsHaveServers
<1>5. /\ tabs' \in Seq(Tab) /\ Len(tabs') = Len(tabs) /\ DOMAIN tabs' = DOMAIN tabs
      /\ \A u \in DOMAIN tabs :
           /\ tabs'[u].server = tabs[u].server /\ tabs'[u].host = tabs[u].host
           /\ tabs'[u].db = tabs[u].db
           /\ tabs'[u].open = (tabs[u].open /\ u # t)
  <2> DEFINE tab == [tabs[t] EXCEPT !.open = FALSE]
  <2>1. tab \in Tab
    BY <1>1, <1>3 DEF Tab
  <2>2. tabs' = [tabs EXCEPT ![t] = tab]
    BY <1>1
  <2>3. /\ tab.server = tabs[t].server /\ tab.host = tabs[t].host /\ tab.db = tabs[t].db
        /\ tab.open = FALSE
    BY <1>1, <1>3 DEF Tab
  <2> HIDE DEF tab
  <2>4. tabs' \in Seq(Tab) /\ Len(tabs') = Len(tabs)
    <3>1. t \in 1..Len(tabs) /\ tabs \in Seq(Tab)
      BY <1>1, <1>2, <1>3 DEF TypeOK
    <3> QED
      BY <2>1, <2>2, <3>1, ExceptSeq
  <2>5. \A u \in DOMAIN tabs : tabs'[u] = IF u = t THEN tab ELSE tabs[u]
    BY <1>1, <2>2
  <2>6. \A u \in DOMAIN tabs : tabs[u].open \in BOOLEAN
    BY <1>3 DEF Tab
  <2> QED
    BY <1>3, <2>2, <2>3, <2>4, <2>5, <2>6
<1>6. /\ OpenTabs' = OpenTabs \ {t}
      /\ \A u \in OpenTabs' : u # t /\ u \in OpenTabs /\ u \in DOMAIN tabs
  BY <1>5 DEF OpenTabs
<1>7. /\ servers' \in Seq(Server) /\ Len(servers') = Len(servers)
      /\ DOMAIN servers' = DOMAIN servers
      /\ \A q \in DOMAIN servers :
           /\ servers'[q].host = servers[q].host /\ servers'[q].workerDb = servers[q].workerDb
           /\ servers'[q].open = (servers[q].open /\ ~(q = s /\ TabsOf(s) = {t}))
      /\ queue' \in [1..MaxTabs -> Seq(Request)]
      /\ \A q \in 1..MaxTabs : queue'[q] = queue[q] \/ queue'[q] = <<>>
  <2>1. CASE TabsOf(s) # {t}
    <3>1. \A q \in DOMAIN servers : servers[q].open \in BOOLEAN
      BY <1>3 DEF Server
    <3> QED
      BY <1>1, <1>2, <2>1, <3>1 DEF TypeOK
  <2>2. CASE TabsOf(s) = {t}
    <3> DEFINE server == [servers[s] EXCEPT !.open = FALSE]
    <3>1. server \in Server
      BY <1>3, <1>4 DEF Server
    <3>2. servers' = [servers EXCEPT ![s] = server] /\ queue' = [queue EXCEPT ![s] = <<>>]
      BY <1>1, <2>2
    <3>3. /\ server.host = servers[s].host /\ server.workerDb = servers[s].workerDb
          /\ server.open = FALSE
      BY <1>3, <1>4 DEF Server
    <3> HIDE DEF server
    <3>4. servers' \in Seq(Server) /\ Len(servers') = Len(servers)
      BY <1>2, <1>4, <3>1, <3>2, ExceptSeq DEF TypeOK
    <3>5. \A q \in DOMAIN servers : servers'[q] = IF q = s THEN server ELSE servers[q]
      BY <3>2
    <3>6. \A q \in DOMAIN servers : servers[q].open \in BOOLEAN
      BY <1>3 DEF Server
    <3>7. queue \in [1..MaxTabs -> Seq(Request)] /\ <<>> \in Seq(Request)
      BY <1>2 DEF TypeOK
    <3>8. /\ queue' \in [1..MaxTabs -> Seq(Request)]
          /\ \A q \in 1..MaxTabs : queue'[q] = queue[q] \/ queue'[q] = <<>>
      BY <3>2, <3>7
    <3>9. DOMAIN servers' = DOMAIN servers
      BY <3>2
    <3>10. \A q \in DOMAIN servers :
             /\ servers'[q].host = servers[q].host /\ servers'[q].workerDb = servers[q].workerDb
             /\ servers'[q].open = (servers[q].open /\ ~(q = s /\ TabsOf(s) = {t}))
      BY <2>2, <3>3, <3>5, <3>6
    <3> QED
      BY <3>4, <3>8, <3>9, <3>10
  <2> QED
    BY <2>1, <2>2
<1>8. TypeOK'
  BY <1>1, <1>2, <1>5, <1>7 DEF TypeOK
<1>9. ServersOutliveTabs'
  <2> SUFFICES ASSUME NEW u \in OpenTabs'
               PROVE  servers'[tabs'[u].server].open
    BY DEF ServersOutliveTabs
  <2>1. /\ u # t /\ u \in OpenTabs /\ u \in DOMAIN tabs /\ tabs'[u].server = tabs[u].server
        /\ tabs[u].server \in DOMAIN servers
    BY <1>5, <1>6 DEF Served, TabsHaveServers
  <2>2. servers[tabs[u].server].open
    BY <2>1 DEF Served, TabsAreServed, ServersOutliveTabs
  <2>3. ~(tabs[u].server = s /\ TabsOf(s) = {t})
    BY <2>1 DEF TabsOf
  <2> QED
    BY <1>7, <2>1, <2>2, <2>3
<1>10. NoIdleServer'
  <2> SUFFICES ASSUME NEW q \in DOMAIN servers', servers'[q].open
               PROVE  TabsOf(q)' # {}
    BY DEF NoIdleServer
  <2>1. servers[q].open /\ ~(q = s /\ TabsOf(s) = {t}) /\ q \in DOMAIN servers
    BY <1>7
  <2>2. TabsOf(q) # {} /\ TabsOf(q) # {t}
    <3>1. t \in TabsOf(q) => q = s
      BY <1>s DEF TabsOf
    <3> QED
      BY <2>1, <3>1 DEF Served, TabsAreServed, NoIdleServer
  <2>3. PICK u \in TabsOf(q) : u # t
    BY <2>2
  <2>4. u \in OpenTabs /\ u \in DOMAIN tabs /\ tabs[u].server = q
    BY <2>3 DEF TabsOf, OpenTabs
  <2> QED
    BY <1>5, <1>6, <2>3, <2>4 DEF TabsOf
<1>11. TabsHaveServers'
  BY <1>5, <1>7 DEF Served, TabsHaveServers
<1>12. RequestsAreOfTabs'
  <2>1. ASSUME NEW q \in 1..MaxTabs, NEW i \in DOMAIN queue'[q]
        PROVE  LET request == queue'[q][i] IN
               /\ request.tab \in DOMAIN tabs' /\ tabs'[request.tab].server = q
               /\ request.db \in {NoDb, tabs'[request.tab].db}
    <3>1. queue'[q] = queue[q] /\ i \in DOMAIN queue[q]
      BY <1>7
    <3>2. /\ queue[q][i].tab \in DOMAIN tabs /\ tabs[queue[q][i].tab].server = q
          /\ queue[q][i].db \in {NoDb, tabs[queue[q][i].tab].db}
      BY <3>1 DEF Served, RequestsAreOfTabs
    <3> QED
      BY <1>5, <3>1, <3>2
  <2> QED
    BY <2>1 DEF RequestsAreOfTabs
<1>13. RunsAreOfTabs'
  BY <1>1, <1>5 DEF Served, RunsAreOfTabs
<1>14. \A u \in DOMAIN tabs : Alone(u)' => Alone(u)
  BY <1>5 DEF Alone
<1>15. UnsharedRunsAreRight'
  BY <1>1, <1>5, <1>14
     DEF Served, TabsAreServed, UnsharedRunsAreRight, RunsAreOfTabs, Alone
<1>16. AloneOnOwnServer'
  BY <1>5, <1>7, <1>14 DEF Served, AloneOnOwnServer, TabsHaveServers
<1> QED
  BY <1>8, <1>9, <1>10, <1>11, <1>12, <1>13, <1>15, <1>16 DEF Served, TabsAreServed

LEMMA ServeServed ==
  ASSUME Served, NEW s \in 1..MaxTabs, Serve(s)
  PROVE  Served'
<1>r. PICK request : request = Head(queue[s])
  OBVIOUS
<1>d. PICK db : db = ServedDb(s, request)
  OBVIOUS
<1> DEFINE now == [tab |-> request.tab, in |-> db, on |-> servers[s].host]
<1>1. /\ queue[s] # <<>> /\ queue' = [queue EXCEPT ![s] = Tail(@)]
      /\ ran' = Append(ran, now)
      /\ tabs' = IF tabs[request.tab].open THEN [tabs EXCEPT ![request.tab].shown = db] ELSE tabs
      /\ UNCHANGED <<share, record, servers, sent>>
  BY <1>r, <1>d DEF Serve
<1>2. TypeOK
  BY DEF Served, TabsAreServed
<1>3. /\ Len(tabs) \in Nat /\ DOMAIN tabs = 1..Len(tabs)
      /\ Len(servers) \in Nat /\ DOMAIN servers = 1..Len(servers)
      /\ Len(ran) \in Nat /\ DOMAIN ran = 1..Len(ran)
      /\ \A u \in 1..Len(tabs) : tabs[u] \in Tab
      /\ \A q \in 1..Len(servers) : servers[q] \in Server
      /\ queue[s] \in Seq(Request) /\ Len(queue[s]) \in Nat /\ DOMAIN queue[s] = 1..Len(queue[s])
  BY <1>2, Domains
<1>4. /\ request \in Request /\ request = queue[s][1] /\ 1 \in DOMAIN queue[s]
      /\ Tail(queue[s]) \in Seq(Request) /\ Len(Tail(queue[s])) = Len(queue[s]) - 1
      /\ \A i \in 1..Len(Tail(queue[s])) : Tail(queue[s])[i] = queue[s][i + 1]
      /\ DOMAIN Tail(queue[s]) = 1..Len(Tail(queue[s]))
  <2>1. /\ Head(queue[s]) \in Request /\ Tail(queue[s]) \in Seq(Request)
        /\ Len(Tail(queue[s])) = Len(queue[s]) - 1
        /\ \A i \in 1..Len(Tail(queue[s])) : Tail(queue[s])[i] = queue[s][i + 1]
    BY <1>1, <1>3, HeadTailProperties
  <2>2. DOMAIN Tail(queue[s]) = 1..Len(Tail(queue[s]))
    BY <2>1, LenProperties
  <2>3. Len(queue[s]) # 0
    BY <1>1, <1>3, EmptySeq
  <2> QED
    BY <1>r, <1>3, <2>1, <2>2, <2>3
<1>5. /\ request.tab \in DOMAIN tabs /\ tabs[request.tab].server = s
      /\ request.db \in {NoDb, tabs[request.tab].db}
      /\ s \in DOMAIN servers
  BY <1>4 DEF Served, RequestsAreOfTabs, TabsHaveServers
<1>6. db \in Dbs /\ now \in Run /\ now.tab = request.tab /\ now.in = db /\ now.on = servers[s].host
  <2>1. db \in Dbs
    BY <1>d, <1>3, <1>4, <1>5 DEF ServedDb, Server, Request
  <2> QED
    BY <1>3, <1>4, <1>5, <2>1 DEF Run, Server, Request
<1> HIDE DEF now
<1>7. /\ tabs' \in Seq(Tab) /\ Len(tabs') = Len(tabs) /\ DOMAIN tabs' = DOMAIN tabs
      /\ \A u \in DOMAIN tabs :
           /\ tabs'[u].server = tabs[u].server /\ tabs'[u].host = tabs[u].host
           /\ tabs'[u].db = tabs[u].db /\ tabs'[u].open = tabs[u].open
  <2>1. CASE ~tabs[request.tab].open
    BY <1>1, <1>2, <2>1 DEF TypeOK
  <2>2. CASE tabs[request.tab].open
    <3> DEFINE u0 == request.tab
               tab == [tabs[u0] EXCEPT !.shown = db]
    <3>1. tab \in Tab
      BY <1>3, <1>5, <1>6 DEF Tab
    <3>2. tabs' = [tabs EXCEPT ![u0] = tab]
      BY <1>1, <2>2
    <3>3. /\ tab.server = tabs[u0].server /\ tab.host = tabs[u0].host
          /\ tab.db = tabs[u0].db /\ tab.open = tabs[u0].open
      BY <1>3, <1>5 DEF Tab
    <3> HIDE DEF tab
    <3>4. tabs' \in Seq(Tab) /\ Len(tabs') = Len(tabs)
      <4>1. u0 \in 1..Len(tabs) /\ tabs \in Seq(Tab)
        BY <1>2, <1>3, <1>5 DEF TypeOK
      <4> QED
        BY <3>1, <3>2, <4>1, ExceptSeq
    <3>5. \A u \in DOMAIN tabs : tabs'[u] = IF u = u0 THEN tab ELSE tabs[u]
      BY <3>2
    <3>6. DOMAIN tabs' = DOMAIN tabs
      BY <3>2
    <3> QED
      BY <3>3, <3>4, <3>5, <3>6
  <2> QED
    BY <2>1, <2>2
<1>8. /\ ran' \in Seq(Run) /\ DOMAIN ran' = 1..(Len(ran) + 1)
      /\ \A i \in 1..Len(ran) : ran'[i] = ran[i]
      /\ ran'[Len(ran) + 1] = now
  <2>1. ran \in Seq(Run)
    BY <1>2 DEF TypeOK
  <2>2. /\ ran' \in Seq(Run) /\ Len(ran') = Len(ran) + 1
        /\ \A i \in 1..Len(ran) : ran'[i] = ran[i]
        /\ ran'[Len(ran) + 1] = now
    BY <1>1, <1>6, <2>1, AppendProperties
  <2> QED
    BY <2>2, LenProperties
<1>9. \A i \in DOMAIN ran' : (i \in DOMAIN ran /\ ran'[i] = ran[i]) \/ ran'[i] = now
  BY <1>3, <1>8
<1>10. /\ queue' \in [1..MaxTabs -> Seq(Request)]
       /\ \A q \in 1..MaxTabs : \A i \in DOMAIN queue'[q] :
            \E j \in DOMAIN queue[q] : queue'[q][i] = queue[q][j]
  <2>1. queue \in [1..MaxTabs -> Seq(Request)]
    BY <1>2 DEF TypeOK
  <2>2. queue' \in [1..MaxTabs -> Seq(Request)]
    BY <1>1, <1>4, <2>1
  <2>3. queue'[s] = Tail(queue[s]) /\ \A q \in 1..MaxTabs : q # s => queue'[q] = queue[q]
    BY <1>1, <2>1
  <2>4. \A i \in DOMAIN queue'[s] : i + 1 \in DOMAIN queue[s] /\ queue'[s][i] = queue[s][i + 1]
    BY <1>3, <1>4, <2>3
  <2> QED
    BY <2>2, <2>3, <2>4
<1>11. TypeOK'
  BY <1>1, <1>2, <1>7, <1>8, <1>10 DEF TypeOK
<1>12. OpenTabs' = OpenTabs /\ \A q : TabsOf(q)' = TabsOf(q)
  BY <1>7 DEF OpenTabs, TabsOf
<1>13. ServersOutliveTabs' /\ NoIdleServer'
  BY <1>1, <1>7, <1>12
     DEF Served, TabsAreServed, ServersOutliveTabs, NoIdleServer, OpenTabs
<1>14. TabsHaveServers'
  BY <1>1, <1>7 DEF Served, TabsHaveServers
<1>15. RequestsAreOfTabs'
  <2>1. ASSUME NEW q \in 1..MaxTabs, NEW i \in DOMAIN queue'[q]
        PROVE  LET r == queue'[q][i] IN
               /\ r.tab \in DOMAIN tabs' /\ tabs'[r.tab].server = q
               /\ r.db \in {NoDb, tabs'[r.tab].db}
    <3>1. PICK j \in DOMAIN queue[q] : queue'[q][i] = queue[q][j]
      BY <1>10
    <3>2. /\ queue[q][j].tab \in DOMAIN tabs /\ tabs[queue[q][j].tab].server = q
          /\ queue[q][j].db \in {NoDb, tabs[queue[q][j].tab].db}
      BY DEF Served, RequestsAreOfTabs
    <3> QED
      BY <1>7, <3>1, <3>2
  <2> QED
    BY <2>1 DEF RequestsAreOfTabs
<1>16. RunsAreOfTabs'
  BY <1>5, <1>6, <1>7, <1>9 DEF Served, RunsAreOfTabs
<1>17. \A u \in DOMAIN tabs : Alone(u)' = Alone(u)
  BY <1>7 DEF Alone
<1>18. AloneOnOwnServer'
  BY <1>1, <1>7, <1>17 DEF Served, AloneOnOwnServer
<1>19. UnsharedRunsAreRight'
  <2>1. ASSUME NEW i \in DOMAIN ran', Alone(ran'[i].tab)
        PROVE  tabs[ran'[i].tab].db \in {NoDb, ran'[i].in} /\ tabs[ran'[i].tab].host = ran'[i].on
    <3>1. CASE i \in DOMAIN ran /\ ran'[i] = ran[i]
      BY <2>1, <3>1 DEF Served, TabsAreServed, UnsharedRunsAreRight, Alone
    <3>2. CASE ran'[i] = now
      <4>1. Alone(request.tab)
        BY <1>6, <2>1, <3>2
      <4>2. /\ tabs[request.tab].db \in {NoDb, servers[s].workerDb}
            /\ tabs[request.tab].host = servers[s].host
        BY <1>5, <4>1 DEF Served, AloneOnOwnServer
      <4>3. tabs[request.tab].db \in {NoDb, db}
        BY <1>d, <1>5, <4>2 DEF ServedDb
      <4> QED
        BY <1>6, <3>2, <4>2, <4>3
    <3> QED
      BY <1>9, <3>1, <3>2
  <2>2. \A i \in DOMAIN ran' : ran'[i].tab \in DOMAIN tabs
    BY <1>7, <1>16 DEF RunsAreOfTabs
  <2> QED
    BY <1>7, <2>1, <2>2 DEF UnsharedRunsAreRight, Alone
<1> QED
  BY <1>11, <1>13, <1>14, <1>15, <1>16, <1>18, <1>19 DEF Served, TabsAreServed
-----------------------------------------------------------------------------
LEMMA NextServed == Served /\ [Next]_vars => Served'
<1> SUFFICES ASSUME Served, [Next]_vars PROVE Served'
  OBVIOUS
<1>0. TypeOK
  BY DEF Served, TabsAreServed
<1>1. ASSUME NEW c \in Conns, NEW h \in Hosts, NEW db \in Dbs \cup {NoDb}, NEW x \in BOOLEAN,
             OpenTab(c, h, db, x)
      PROVE  Served'
  <2>d. PICK default : default = IF db = NoDb THEN record[c][h] ELSE db
    OBVIOUS
  <2>1. record \in [Conns -> [Hosts -> Dbs]]
    BY <1>0 DEF TypeOK
  <2>2. default \in Dbs /\ db \in {NoDb, default}
    BY <2>d, <2>1
  <2>3. /\ OpenOn(c, h, default, db, x)
        /\ record' = [record EXCEPT ![c][h] = default] /\ UNCHANGED <<share, ran>>
    BY <1>1, <2>d DEF OpenTab
  <2>4. record' \in [Conns -> [Hosts -> Dbs]]
    BY <2>1, <2>2, <2>3
  <2> QED
    BY <2>2, <2>3, <2>4, OpenOnServed
<1>2. ASSUME NEW t \in 1..MaxTabs, NEW x \in BOOLEAN, DuplicateTab(t, x)
      PROVE  Served'
  <2>o. PICK old : old = servers[tabs[t].server]
    OBVIOUS
  <2>d. PICK default : default = IF tabs[t].shown = NoDb THEN old.db ELSE tabs[t].shown
    OBVIOUS
  <2>1. /\ t \in DOMAIN tabs
        /\ OpenOn(old.conn, old.host, default, tabs[t].shown, x)
        /\ UNCHANGED <<share, record, ran>>
    BY <1>2, <2>o, <2>d DEF DuplicateTab, OpenTabs
  <2>2. tabs[t] \in Tab /\ old \in Server
    BY <1>0, <2>o, <2>1, Domains DEF Served, TabsHaveServers
  <2>3. /\ old.conn \in Conns /\ old.host \in Hosts /\ default \in Dbs
        /\ tabs[t].shown \in {NoDb, default}
    BY <2>d, <2>2 DEF Tab, Server
  <2>4. record' \in [Conns -> [Hosts -> Dbs]]
    BY <1>0, <2>1 DEF TypeOK
  <2>5. PICK db : db = tabs[t].shown
    OBVIOUS
  <2> QED
    BY <2>1, <2>3, <2>4, <2>5, OpenOnServed
<1>3. CASE ToggleShare
  BY <1>0, <1>3
     DEF ToggleShare, Served, TabsAreServed, TypeOK, ServersOutliveTabs, NoIdleServer,
         UnsharedRunsAreRight, TabsHaveServers, RequestsAreOfTabs, RunsAreOfTabs,
         AloneOnOwnServer, Alone, OpenTabs, TabsOf
<1>4. CASE UNCHANGED vars
  BY <1>4
     DEF vars, Served, TabsAreServed, TypeOK, ServersOutliveTabs, NoIdleServer,
         UnsharedRunsAreRight, TabsHaveServers, RequestsAreOfTabs, RunsAreOfTabs,
         AloneOnOwnServer, Alone, OpenTabs, TabsOf
<1> QED
  BY <1>1, <1>2, <1>3, <1>4, ExecuteServed, CloseTabServed, ServeServed DEF Next

\* App.cpp:216-283: whatever tabs are opened, duplicated and closed, with sharing
\* switched on and off between, a server is open exactly as long as an open tab uses
\* it, and a tab that never shared its server ran in its own database and on its
\* own host.
THEOREM TabsServed == Spec => []TabsAreServed
<1>1. Served => TabsAreServed
  BY DEF Served
<1> QED
  BY <1>1, InitServed, NextServed, PTL DEF Spec

-----------------------------------------------------------------------------
(* The settings. *)

Keys == 0..(1 + MaxStarts)
OnDisk == [id : Nat, uuid : Nat, pw : Keys]
InMemory == [id : Nat, uuid : Nat, pw : BOOLEAN]
Saved == [is : {"config"}, schema : Nat, conns : Seq(OnDisk), imported : BOOLEAN,
          eula : SUBSET {"old", CurrentEula}]

\* The connection of Robo 3T.
OfRobo == Conn(1, 1, 1)

\* Connections are told apart by their ids, and by their uuids where they have one.
Apart(conns) ==
  \A i, j \in DOMAIN conns : i # j =>
    conns[i].id # conns[j].id /\ (conns[i].uuid # 0 => conns[i].uuid # conns[j].uuid)

\* When n is the last id given and u the last uuid, no connection is ahead of them, and
\* that of Robo 3T is there only when it was imported.
IdsUpTo(n) == 1..n \cup Range(DirOrder)
Given(conns, imported, n, u) ==
  \A i \in DOMAIN conns :
    /\ conns[i].id \in IdsUpTo(n) /\ conns[i].uuid \in 0..u
    /\ ~imported => conns[i].id # 1 /\ conns[i].uuid # 1

WellFormed(c, n, u) == c \in Saved /\ Apart(c.conns) /\ Given(c.conns, c.imported, n, u)

CountersOK ==
  /\ ids \in Nat /\ uuids \in Nat /\ ids >= 2 /\ uuids >= 200 /\ (ids <= MaxConns \/ ids = 2)
  /\ starts \in 0..MaxStarts /\ key \in Keys /\ keyFile \in Keys /\ oldKey \in {0, 1}
  /\ run \in {"off", "eula", "on"} /\ (run # "off" => key # 0)

\* The files: this program's, those of the version directories, of Robo 3T and of the backup.
FilesOK ==
  /\ file \in {NoFile, Torn} \/ WellFormed(file, ids, uuids)
  /\ DOMAIN dirs \subseteq Range(DirOrder)
  /\ \A v \in DOMAIN dirs : WellFormed(dirs[v], ids, uuids)
  /\ robo \in {NoFile, Torn} \/ robo = Config(2, <<OfRobo>>, TRUE, {})
  /\ bak = firstNewer /\ (bak = NoFile \/ bak \in Saved)

HeldOK(m, n, u) ==
  /\ m = [conns |-> m.conns, imported |-> m.imported, eula |-> m.eula]
  /\ m.conns \in Seq(InMemory) /\ m.imported \in BOOLEAN /\ m.eula \subseteq {"old", CurrentEula}
  /\ Apart(m.conns) /\ Given(m.conns, m.imported, n, u)
MemoryOK == HeldOK(mem, ids, uuids) /\ (run = "off" => mem = Defaults)

\* The items of the dialog are the connections it has shown, each once.
ItemsOK(d, conns, n) ==
  /\ d = [open |-> d.open, items |-> d.items, freed |-> d.freed]
  /\ d.items \in Seq(IdsUpTo(n)) /\ d.freed \subseteq DOMAIN d.items
  /\ \A i, j \in DOMAIN d.items : i # j => d.items[i] # d.items[j]
  /\ d.open => Ids(conns) = {d.items[i] : i \in DOMAIN d.items \ d.freed}
DialogOK == ItemsOK(dialog, mem.conns, ids) /\ (dialog.open => run = "on")

\* What the next start will read, and with which key.
Source ==
  IF file.is = "config" THEN file
  ELSE IF DOMAIN dirs # {} THEN dirs[NewestDir] ELSE Config(CurrentConfigSchema, <<>>, FALSE, {})
Found(c) == Range(c.conns) \cup IF ~c.imported /\ robo.is = "config" THEN Range(robo.conns) ELSE {}
NextKey == IF keyFile # 0 THEN keyFile ELSE oldKey
Accepted(c) == IF c.schema < 3 THEN c.eula # {} ELSE CurrentEula \in c.eula

SourceIsSafe ==
  ~lost =>
    /\ file.is # "torn"
    /\ accepted => Accepted(Source)
    /\ \A s \in safe : \E c \in Found(Source) : c.id = s.id /\ (s.pw => c.pw = NextKey /\ c.pw # 0)

\* The inductive invariant.
SettingsInv == CountersOK /\ FilesOK /\ MemoryOK /\ DialogOK /\ SourceIsSafe /\ AskedOnce

-----------------------------------------------------------------------------
\* The members of a set of numbers up to each of them are one more each time.
LEMMA CountsUpTo ==
  ASSUME NEW n \in Nat, NEW E \in SUBSET (1..n)
  PROVE  /\ IsFiniteSet(E) /\ Cardinality(E) \in Nat
         /\ \A i \in E : Cardinality({j \in E : j <= i}) \in 1..Cardinality(E)
         /\ \A i, j \in E : i < j => Cardinality({k \in E : k <= i}) < Cardinality({k \in E : k <= j})
<1>1. IsFiniteSet(1..n)
  BY FS_Interval
<1>2. IsFiniteSet(E) /\ Cardinality(E) \in Nat
  BY <1>1, FS_Subset, FS_CardinalityType
<1>3. \A F \in SUBSET E : IsFiniteSet(F) /\ Cardinality(F) \in Nat /\ Cardinality(F) <= Cardinality(E)
  BY <1>2, FS_Subset, FS_CardinalityType
<1>4. ASSUME NEW i \in E PROVE Cardinality({j \in E : j <= i}) \in 1..Cardinality(E)
  <2>1. PICK F \in SUBSET E : F = {j \in E : j <= i}
    OBVIOUS
  <2>2. i \in F
    BY <2>1
  <2>3. Cardinality(F) # 0
    BY <1>3, <2>2, FS_EmptySet
  <2> QED
    BY <1>2, <1>3, <2>1, <2>3
<1>5. ASSUME NEW i \in E, NEW j \in E, i < j
      PROVE  Cardinality({k \in E : k <= i}) < Cardinality({k \in E : k <= j})
  <2>1. PICK F \in SUBSET E : F = {k \in E : k <= i}
    OBVIOUS
  <2>2. PICK G \in SUBSET E : G = {k \in E : k <= j}
    OBVIOUS
  <2>6. i \in Nat /\ j \in Nat /\ \A m \in E : m \in Nat
    OBVIOUS
  <2>3. j \notin F /\ F \cup {j} \subseteq G
    <3>1. j \notin F
      BY <1>5, <2>1, <2>6
    <3>2. \A m \in F : m <= j
      BY <1>5, <2>1, <2>6
    <3>3. j <= j
      BY <2>6
    <3> QED
      BY <2>1, <2>2, <3>1, <3>2, <3>3
  <2>4. Cardinality(F \cup {j}) = Cardinality(F) + 1
    BY <1>3, <2>3, FS_AddElement
  <2>5. Cardinality(F \cup {j}) <= Cardinality(G)
    BY <1>3, <2>3, FS_Subset
  <2> QED
    BY <1>3, <2>1, <2>2, <2>4, <2>5
<1> QED
  BY <1>2, <1>4, <1>5

\* The fields of a connection in memory and on the disk.
LEMMA ConnOf ==
  ASSUME NEW a, NEW b, NEW p
  PROVE  /\ Conn(a, b, p).id = a /\ Conn(a, b, p).uuid = b /\ Conn(a, b, p).pw = p
         /\ a \in Nat /\ b \in Nat /\ p \in BOOLEAN => Conn(a, b, p) \in InMemory
         /\ a \in Nat /\ b \in Nat /\ p \in Keys => Conn(a, b, p) \in OnDisk
BY DEF Conn, InMemory, OnDisk

\* What a connection on the disk, and one in memory, is made of.
LEMMA ConnFields ==
  /\ \A c \in OnDisk : c.id \in Nat /\ c.uuid \in Nat /\ c.pw \in Keys
  /\ \A c \in InMemory : c.id \in Nat /\ c.uuid \in Nat /\ c.pw \in BOOLEAN
BY DEF OnDisk, InMemory

\* What is read from a list on the disk: the same connections, the uuids that were missing
\* given, and the passwords that the key opens.
LEMMA ReadBack ==
  ASSUME NEW conns \in Seq(OnDisk), Apart(conns), NEW k \in Keys, NEW u \in Nat,
         \A i \in DOMAIN conns : conns[i].uuid <= u,
         NEW r, r = FromVariant(conns, k, u), NEW e, e = Cardinality(Empties(conns))
  PROVE  /\ e \in Nat /\ r \in Seq(InMemory) /\ DOMAIN r = DOMAIN conns /\ Apart(r)
         /\ \A i \in DOMAIN conns :
              /\ r[i].id = conns[i].id /\ r[i].uuid \in 1..(u + e)
              /\ conns[i].uuid # 0 => r[i].uuid = conns[i].uuid
              /\ conns[i].uuid = 0 => r[i].uuid > u
              /\ conns[i].pw # 0 /\ conns[i].pw = k => r[i].pw
<1>1. PICK n \in Nat : n = Len(conns)
  BY LenProperties
<1>2. DOMAIN conns = 1..n /\ \A i \in 1..n : conns[i] \in OnDisk
  BY <1>1, LenProperties, ElementOfSeq
<1>3. \A i \in 1..n : conns[i].id \in Nat /\ conns[i].uuid \in Nat /\ conns[i].pw \in Keys
  BY <1>2, ConnFields
<1>4. PICK E \in SUBSET (1..n) : E = Empties(conns)
  BY <1>2 DEF Empties
<1>5. PICK c : c = [i \in E |-> Cardinality({j \in E : j <= i})]
  OBVIOUS
<1>6. /\ IsFiniteSet(E) /\ Cardinality(E) \in Nat
      /\ \A i \in E : c[i] \in 1..Cardinality(E)
      /\ \A i, j \in E : i < j => c[i] < c[j]
  BY <1>5, CountsUpTo
<1>7. r = FromVariant(conns, k, u) /\ e = Cardinality(E)
  BY <1>4
<1>8. DOMAIN r = 1..n /\ r = [i \in 1..n |-> r[i]]
  BY <1>2, <1>7 DEF FromVariant
<1>9. ASSUME NEW i \in 1..n
      PROVE  \E p \in BOOLEAN, w \in 1..(u + Cardinality(E)) :
               /\ r[i] = Conn(conns[i].id, w, p)
               /\ w = IF conns[i].uuid # 0 THEN conns[i].uuid ELSE u + c[i]
               /\ conns[i].pw # 0 /\ conns[i].pw = k => p
  <2>1. PICK p : p = Decrypt(conns[i].pw, k)
    OBVIOUS
  <2>2. p \in BOOLEAN /\ (conns[i].pw # 0 /\ conns[i].pw = k => p)
    BY <2>1, Zenon DEF Decrypt
  <2>3. PICK w : w = IF conns[i].uuid # 0 THEN conns[i].uuid ELSE u + c[i]
    OBVIOUS
  <2>4. w \in 1..(u + Cardinality(E))
    <3>1. CASE conns[i].uuid # 0
      BY <1>2, <1>3, <1>6, <2>3, <3>1
    <3>2. CASE conns[i].uuid = 0
      <4>1. i \in E
        BY <1>2, <1>4, <3>2 DEF Empties
      <4> QED
        BY <1>6, <2>3, <3>2, <4>1
    <3> QED
      BY <3>1, <3>2
  <2>5. r[i] = [id |-> conns[i].id, pw |-> p, uuid |-> w]
    <3>1. r[i] = [id |-> conns[i].id, pw |-> Decrypt(conns[i].pw, k),
                  uuid |-> IF conns[i].uuid # 0 THEN conns[i].uuid
                           ELSE u + Cardinality({j \in Empties(conns) : j <= i})]
      BY <1>2, <1>7 DEF FromVariant
    <3>2. conns[i].uuid = 0 => c[i] = Cardinality({j \in Empties(conns) : j <= i})
      BY <1>2, <1>4, <1>5 DEF Empties
    <3> QED
      BY <2>1, <2>3, <3>1, <3>2
  <2> QED
    BY <2>2, <2>3, <2>4, <2>5 DEF Conn
<1>10. ASSUME NEW i \in 1..n
       PROVE  /\ r[i] \in InMemory /\ r[i].id = conns[i].id
              /\ r[i].uuid \in 1..(u + Cardinality(E))
              /\ r[i].uuid = IF conns[i].uuid # 0 THEN conns[i].uuid ELSE u + c[i]
              /\ (conns[i].pw # 0 /\ conns[i].pw = k => r[i].pw)
  <2>1. PICK p \in BOOLEAN, w \in 1..(u + Cardinality(E)) :
               /\ r[i] = Conn(conns[i].id, w, p)
               /\ w = IF conns[i].uuid # 0 THEN conns[i].uuid ELSE u + c[i]
               /\ conns[i].pw # 0 /\ conns[i].pw = k => p
    BY <1>9
  <2>2. w \in Nat
    BY <1>6
  <2> QED
    BY <1>3, <2>1, <2>2, ConnOf
<1>11. r \in Seq(InMemory)
  BY <1>8, <1>10, SeqDef
<1>12. Apart(r)
  <2> SUFFICES ASSUME NEW i \in 1..n, NEW j \in 1..n, i # j
               PROVE  r[i].id # r[j].id /\ (r[i].uuid # 0 => r[i].uuid # r[j].uuid)
    BY <1>8 DEF Apart
  <2>1. r[i].id # r[j].id
    BY <1>2, <1>10 DEF Apart
  <2>2. CASE conns[i].uuid = 0 /\ conns[j].uuid = 0
    <3>1. i \in E /\ j \in E
      BY <1>2, <1>4, <2>2 DEF Empties
    <3>2. c[i] # c[j] /\ c[i] \in Nat /\ c[j] \in Nat
      BY <1>6, <3>1
    <3>3. r[i].uuid = u + c[i] /\ r[j].uuid = u + c[j]
      BY <1>10, <2>2
    <3> QED
      BY <2>1, <3>2, <3>3
  <2>3. CASE conns[i].uuid # 0 /\ conns[j].uuid # 0
    <3>1. conns[i].uuid # conns[j].uuid
      BY <1>2, <2>3 DEF Apart
    <3> QED
      BY <1>10, <2>1, <2>3, <3>1
  <2>4. CASE conns[i].uuid # 0 /\ conns[j].uuid = 0
    <3>1. j \in E /\ r[j].uuid = u + c[j] /\ r[i].uuid = conns[i].uuid /\ conns[i].uuid <= u
      BY <1>2, <1>4, <1>10, <2>4 DEF Empties
    <3> QED
      BY <1>3, <1>6, <2>1, <3>1
  <2>5. CASE conns[i].uuid = 0 /\ conns[j].uuid # 0
    <3>1. i \in E /\ r[i].uuid = u + c[i] /\ r[j].uuid = conns[j].uuid /\ conns[j].uuid <= u
      BY <1>2, <1>4, <1>10, <2>5 DEF Empties
    <3> QED
      BY <1>3, <1>6, <2>1, <3>1
  <2> QED
    BY <2>2, <2>3, <2>4, <2>5
<1>13. ASSUME NEW i \in 1..n, conns[i].uuid = 0 PROVE r[i].uuid > u
  <2>1. i \in E /\ r[i].uuid = u + c[i]
    BY <1>2, <1>4, <1>10, <1>13 DEF Empties
  <2> QED
    BY <1>6, <2>1
<1> QED
  BY <1>2, <1>4, <1>6, <1>7, <1>8, <1>10, <1>11, <1>12, <1>13

\* What is written: the same connections, a password as the key that opens it.
LEMMA Written ==
  ASSUME NEW conns \in Seq(InMemory), NEW k \in Keys
  PROVE  /\ ToVariant(conns, k) \in Seq(OnDisk) /\ DOMAIN ToVariant(conns, k) = DOMAIN conns
         /\ \A i \in DOMAIN conns :
              /\ ToVariant(conns, k)[i].id = conns[i].id /\ ToVariant(conns, k)[i].uuid = conns[i].uuid
              /\ conns[i].pw => ToVariant(conns, k)[i].pw = k
<1>1. PICK n \in Nat : n = Len(conns)
  BY LenProperties
<1>2. DOMAIN conns = 1..n /\ \A i \in 1..n : conns[i] \in InMemory
  BY <1>1, LenProperties, ElementOfSeq
<1>3. PICK r : r = ToVariant(conns, k)
  OBVIOUS
<1>4. DOMAIN r = 1..n /\ r = [i \in 1..n |-> r[i]]
  BY <1>2, <1>3 DEF ToVariant
<1>5. ASSUME NEW i \in 1..n
      PROVE  r[i] \in OnDisk /\ r[i].id = conns[i].id /\ r[i].uuid = conns[i].uuid
             /\ (conns[i].pw => r[i].pw = k)
  <2>1. PICK p : p = Encrypt(conns[i].pw, k)
    OBVIOUS
  <2>2. p \in Keys /\ (conns[i].pw => p = k)
    <3>1. 0 \in Keys
      BY BoundsAssumption DEF Keys
    <3> QED
      BY <2>1, <3>1 DEF Encrypt
  <2>3. r[i] = [conns[i] EXCEPT !.pw = p]
    BY <1>2, <1>3, <2>1 DEF ToVariant
  <2> QED
    BY <1>2, <2>2, <2>3 DEF InMemory, OnDisk
<1>6. r \in Seq(OnDisk)
  BY <1>4, <1>5, SeqDef
<1> QED
  BY <1>2, <1>3, <1>4, <1>5, <1>6

\* The list of Robo 3T has its one connection.
LEMMA RoboList ==
  ASSUME CountersOK
  PROVE  /\ <<OfRobo>> \in Seq(OnDisk) /\ DOMAIN <<OfRobo>> = {1} /\ <<OfRobo>>[1] = OfRobo
         /\ OfRobo.id = 1 /\ OfRobo.uuid = 1 /\ OfRobo.pw = 1 /\ OfRobo \in OnDisk
         /\ Apart(<<OfRobo>>) /\ 1 \in IdsUpTo(ids) /\ 0 \in Keys /\ 1 \in Keys
<1>1. 0 \in Keys /\ 1 \in Keys
  BY BoundsAssumption DEF Keys
<1>2. OfRobo.id = 1 /\ OfRobo.uuid = 1 /\ OfRobo.pw = 1 /\ OfRobo \in OnDisk
  BY <1>1, ConnOf DEF OfRobo
<1>3. PICK r : r = OfRobo
  OBVIOUS
<1>4. <<r>> \in Seq(OnDisk) /\ DOMAIN <<r>> = {1} /\ <<r>>[1] = r
  BY <1>2, <1>3
<1>5. Apart(<<r>>)
  BY <1>4 DEF Apart
<1>6. 1 \in IdsUpTo(ids)
  BY DEF CountersOK, IdsUpTo
<1> QED
  BY <1>1, <1>2, <1>3, <1>4, <1>5, <1>6

\* The fields of a configuration.
LEMMA SavedFields ==
  ASSUME NEW c \in Saved
  PROVE  /\ c = [is |-> "config", schema |-> c.schema, conns |-> c.conns, imported |-> c.imported, eula |-> c.eula]
         /\ c.schema \in Nat /\ c.conns \in Seq(OnDisk) /\ c.imported \in BOOLEAN
         /\ c.eula \subseteq {"old", CurrentEula}
BY DEF Saved

\* A configuration of an older schema, brought to this one.
LEMMA MigratedFacts ==
  ASSUME NEW c \in Saved
  PROVE  LET m == IF c.schema < CurrentConfigSchema THEN MigrateMap(c) ELSE c IN
           /\ m.conns = c.conns /\ m.imported = c.imported /\ m.eula \subseteq {"old", CurrentEula}
           /\ Accepted(c) => CurrentEula \in m.eula
<1>1. /\ c = [is |-> "config", schema |-> c.schema, conns |-> c.conns, imported |-> c.imported, eula |-> c.eula]
      /\ c.schema \in Nat /\ c.eula \subseteq {"old", CurrentEula}
  BY SavedFields
<1>2. CurrentConfigSchema = 3
  BY DEF CurrentConfigSchema
<1>3. CASE c.schema < 3
  <2>1. PICK e : e = IF c.eula # {} THEN c.eula \union {CurrentEula} ELSE c.eula
    OBVIOUS
  <2>2. MigrateMap(c) = [is |-> "config", schema |-> 3, conns |-> c.conns, imported |-> c.imported, eula |-> e]
    <3>1. PICK a, b, f, s : a = c.conns /\ b = c.imported /\ f = c.eula /\ s = c.schema
      OBVIOUS
    <3>2. c = [is |-> "config", schema |-> s, conns |-> a, imported |-> b, eula |-> f]
      BY <1>1, <3>1
    <3>6. [c EXCEPT !.schema = 3]
            = [is |-> "config", schema |-> 3, conns |-> a, imported |-> b, eula |-> f]
      BY <3>2
    <3>7. PICK d : d = [c EXCEPT !.schema = 3]
      OBVIOUS
    <3>8. [d EXCEPT !.eula = e]
            = [is |-> "config", schema |-> 3, conns |-> a, imported |-> b, eula |-> e]
      <4>1. d = [is |-> "config", schema |-> 3, conns |-> a, imported |-> b, eula |-> f]
        BY <3>6, <3>7
      <4> QED
        BY <4>1
    <3>9. [c EXCEPT !.schema = 3, !.eula = e] = [d EXCEPT !.eula = e]
      BY <3>7
    <3>3. [c EXCEPT !.schema = 3, !.eula = e]
            = [is |-> "config", schema |-> 3, conns |-> a, imported |-> b, eula |-> e]
      BY <3>8, <3>9
    <3>4. (IF c.schema < 3 /\ c.eula # {} THEN c.eula \union {CurrentEula} ELSE c.eula) = e
      BY <1>3, <2>1
    <3>5. MigrateMap(c) = [c EXCEPT !.schema = 3, !.eula = e]
      BY <1>2, <3>4, Zenon DEF MigrateMap
    <3> QED
      BY <3>1, <3>3, <3>5
  <2>3. PICK m : m = MigrateMap(c)
    OBVIOUS
  <2>4. m.conns = c.conns /\ m.imported = c.imported /\ m.eula = e
    BY <2>2, <2>3
  <2>5. Accepted(c) => CurrentEula \in e
    BY <1>3, <2>1 DEF Accepted
  <2>6. e \subseteq {"old", CurrentEula}
    BY <1>1, <2>1
  <2> QED
    BY <1>2, <1>3, <2>3, <2>4, <2>5, <2>6
<1>4. CASE ~(c.schema < 3)
  BY <1>1, <1>2, <1>4 DEF Accepted
<1> QED
  BY <1>3, <1>4

\* What memory holds after a configuration was loaded: all of its connections, and that of
\* Robo 3T when it had not been imported.
LEMMA Loaded3 ==
  ASSUME CountersOK, FilesOK, NEW c, WellFormed(c, ids, uuids), NEW k \in Keys,
         NEW m, m = LoadFromMap(c, k, uuids),
         NEW u, u = uuids + Cardinality(Empties(c.conns))
  PROVE  /\ Cardinality(Empties(c.conns)) \in Nat /\ u \in Nat /\ u >= uuids
         /\ HeldOK(m, ids, u)
         /\ \A d \in Found(c) : \E i \in DOMAIN m.conns :
              m.conns[i].id = d.id /\ (d.pw # 0 /\ d.pw = k => m.conns[i].pw)
         /\ Accepted(c) => CurrentEula \in m.eula
<1>1. /\ c \in Saved /\ Apart(c.conns) /\ c.conns \in Seq(OnDisk) /\ c.imported \in BOOLEAN
      /\ uuids \in Nat /\ uuids >= 200
      /\ \A i \in DOMAIN c.conns :
            /\ c.conns[i].id \in IdsUpTo(ids) /\ c.conns[i].uuid \in 0..uuids
            /\ ~c.imported => c.conns[i].id # 1 /\ c.conns[i].uuid # 1
  BY SavedFields DEF WellFormed, Given, CountersOK
<1>2. \A i \in DOMAIN c.conns : c.conns[i].uuid <= uuids
  BY <1>1
<1>3. PICK own : own = FromVariant(c.conns, k, uuids)
  OBVIOUS
<1>4. PICK fresh : fresh = Cardinality(Empties(c.conns))
  OBVIOUS
<1>5. /\ fresh \in Nat /\ own \in Seq(InMemory) /\ DOMAIN own = DOMAIN c.conns /\ Apart(own)
      /\ \A i \in DOMAIN c.conns :
            /\ own[i].id = c.conns[i].id /\ own[i].uuid \in 1..(uuids + fresh)
            /\ c.conns[i].uuid # 0 => own[i].uuid = c.conns[i].uuid
            /\ c.conns[i].uuid = 0 => own[i].uuid > uuids
            /\ c.conns[i].pw # 0 /\ c.conns[i].pw = k => own[i].pw
  <2>1. PICK s : s = c.conns
    OBVIOUS
  <2>2. s \in Seq(OnDisk) /\ Apart(s) /\ \A i \in DOMAIN s : s[i].uuid <= uuids
    BY <1>1, <1>2, <2>1
  <2>3. own = FromVariant(s, k, uuids) /\ fresh = Cardinality(Empties(s))
    BY <1>3, <1>4, <2>1
  <2>4. /\ fresh \in Nat /\ own \in Seq(InMemory) /\ DOMAIN own = DOMAIN s /\ Apart(own)
        /\ \A i \in DOMAIN s :
              /\ own[i].id = s[i].id /\ own[i].uuid \in 1..(uuids + fresh)
              /\ s[i].uuid # 0 => own[i].uuid = s[i].uuid
              /\ s[i].uuid = 0 => own[i].uuid > uuids
              /\ s[i].pw # 0 /\ s[i].pw = k => own[i].pw
    BY <1>1, <2>2, <2>3, ReadBack
  <2> QED
    BY <2>1, <2>4
<1>6. u \in Nat /\ u >= uuids /\ u = uuids + fresh
  BY <1>1, <1>4, <1>5
<1>7. \A i \in DOMAIN own :
         /\ own[i].id \in IdsUpTo(ids) /\ own[i].uuid \in 0..u
         /\ ~c.imported => own[i].id # 1 /\ own[i].uuid # 1
  <2> SUFFICES ASSUME NEW i \in DOMAIN own
               PROVE  /\ own[i].id \in IdsUpTo(ids) /\ own[i].uuid \in 0..u
                      /\ ~c.imported => own[i].id # 1 /\ own[i].uuid # 1
    OBVIOUS
  <2>1. own[i].uuid \in 1..u /\ own[i].id = c.conns[i].id
    BY <1>5, <1>6
  <2>2. c.conns[i].uuid = 0 => own[i].uuid # 1
    BY <1>1, <1>5, <1>6, <2>1
  <2> QED
    BY <1>1, <1>5, <1>6, <2>1, <2>2
<1>20. Given(own, c.imported, ids, u)
  BY <1>7, Zenon DEF Given
<1>21. Given(own, TRUE, ids, u)
  <2>1. \A i \in DOMAIN own : own[i].id \in IdsUpTo(ids) /\ own[i].uuid \in 0..u
    BY <1>7, Zenon
  <2> QED
    BY <2>1, Zenon DEF Given
<1>8. PICK g : g = IF c.schema < CurrentConfigSchema THEN MigrateMap(c) ELSE c
  OBVIOUS
<1>9. /\ g.conns = c.conns /\ g.imported = c.imported /\ g.eula \subseteq {"old", CurrentEula}
      /\ (Accepted(c) => CurrentEula \in g.eula)
  BY <1>1, <1>8, MigratedFacts
<1>10. PICK h : h = [conns |-> own, imported |-> c.imported, eula |-> g.eula]
  OBVIOUS
<1>11. m = ImportFromOldVersion(h, k, u)
  BY <1>3, <1>4, <1>6, <1>8, <1>9, <1>10 DEF LoadFromMap
<1>12. h.conns = own /\ h.imported = c.imported /\ h.eula = g.eula
  BY <1>10
<1>13. ASSUME NEW d \in Range(c.conns)
       PROVE  \E i \in DOMAIN own : own[i].id = d.id /\ (d.pw # 0 /\ d.pw = k => own[i].pw)
  <2>1. PICK i \in DOMAIN c.conns : d = c.conns[i]
    BY DEF Range
  <2> QED
    BY <1>5, <2>1
<1>14. CASE c.imported \/ robo.is = "none"
  <2>1. m = h
    BY <1>11, <1>12, <1>14, Zenon DEF ImportFromOldVersion
  <2>2. m.conns = own /\ m.imported = c.imported /\ m.eula = g.eula
        /\ m = [conns |-> m.conns, imported |-> m.imported, eula |-> m.eula]
    BY <1>10, <1>12, <2>1
  <2>3. Found(c) = Range(c.conns)
    BY <1>14 DEF Found
  <2>4. Given(m.conns, m.imported, ids, u)
    BY <1>20, <2>2
  <2>5. HeldOK(m, ids, u)
    BY <1>1, <1>5, <1>9, <2>2, <2>4 DEF HeldOK
  <2> QED
    BY <1>4, <1>5, <1>6, <1>9, <1>13, <2>2, <2>3, <2>5
<1>15. CASE ~c.imported /\ robo = Torn
  <2>1. robo.is = "torn"
    BY <1>15 DEF Torn
  <2>2. m = [h EXCEPT !.imported = TRUE]
    BY <1>11, <1>12, <1>15, <2>1 DEF ImportFromOldVersion, ImportFromFile
  <2>3. m = [conns |-> own, imported |-> TRUE, eula |-> g.eula]
    BY <1>10, <2>2
  <2>4. m.conns = own /\ m.imported = TRUE /\ m.eula = g.eula
        /\ m = [conns |-> m.conns, imported |-> m.imported, eula |-> m.eula]
    BY <2>3
  <2>5. Found(c) = Range(c.conns)
    BY <2>1 DEF Found
  <2>6. Given(m.conns, m.imported, ids, u)
    BY <1>21, <2>4
  <2>7. m.imported \in BOOLEAN
    BY <2>4, Zenon
  <2>8. \A d \in Found(c) : \E i \in DOMAIN m.conns :
          m.conns[i].id = d.id /\ (d.pw # 0 /\ d.pw = k => m.conns[i].pw)
    BY <1>13, <2>4, <2>5
  <2>9. m.eula \subseteq {"old", CurrentEula} /\ (Accepted(c) => CurrentEula \in m.eula)
    BY <1>9, <2>4
  <2>10. m.conns \in Seq(InMemory) /\ Apart(m.conns)
    BY <1>5, <2>4
  <2> QED
    <3>1. HeldOK(m, ids, u)
      BY <2>4, <2>6, <2>7, <2>9, <2>10, Zenon DEF HeldOK
    <3> QED
      BY <1>1, <1>4, <1>5, <1>6, <2>8, <2>9, <3>1, Zenon
<1>16. CASE ~c.imported /\ robo = Config(2, <<OfRobo>>, TRUE, {})
  <2>1. robo.is = "config" /\ robo.conns = <<OfRobo>>
    BY <1>16 DEF Config
  <2>2. /\ <<OfRobo>> \in Seq(OnDisk) /\ DOMAIN <<OfRobo>> = {1} /\ <<OfRobo>>[1] = OfRobo
        /\ OfRobo.id = 1 /\ OfRobo.uuid = 1 /\ OfRobo.pw = 1 /\ Apart(<<OfRobo>>) /\ 1 \in IdsUpTo(ids)
    BY RoboList
  <2>3. PICK one : one = <<OfRobo>>
    OBVIOUS
  <2>4. PICK r : r = FromVariant(one, k, u)
    OBVIOUS
  <2>5. /\ r \in Seq(InMemory) /\ DOMAIN r = {1} /\ r[1].id = 1 /\ r[1].uuid = 1
        /\ (k = 1 => r[1].pw)
    <3>1. one \in Seq(OnDisk) /\ Apart(one) /\ DOMAIN one = {1} /\ one[1].id = 1 /\ one[1].uuid = 1
          /\ one[1].pw = 1
      BY <2>2, <2>3
    <3>2. \A i \in DOMAIN one : one[i].uuid <= u
      BY <1>1, <1>6, <3>1
    <3>4. PICK e : e = Cardinality(Empties(one))
      OBVIOUS
    <3>3. /\ r \in Seq(InMemory) /\ DOMAIN r = DOMAIN one
          /\ \A i \in DOMAIN one :
               /\ r[i].id = one[i].id
               /\ one[i].uuid # 0 => r[i].uuid = one[i].uuid
               /\ one[i].pw # 0 /\ one[i].pw = k => r[i].pw
      BY <1>6, <2>4, <3>1, <3>2, <3>4, ReadBack
    <3> QED
      BY <3>1, <3>3
  <2>6. m = [[h EXCEPT !.conns = own \o r] EXCEPT !.imported = TRUE]
    BY <1>11, <1>12, <1>16, <2>1, <2>3, <2>4 DEF ImportFromOldVersion, ImportFromFile
  <2>7. PICK all : all = own \o r
    OBVIOUS
  <2>8. m = [conns |-> all, imported |-> TRUE, eula |-> g.eula]
    BY <1>10, <2>6, <2>7
  <2>9. m.conns = all /\ m.imported = TRUE /\ m.eula = g.eula
        /\ m = [conns |-> m.conns, imported |-> m.imported, eula |-> m.eula]
    BY <2>8
  <2>10. PICK n \in Nat : n = Len(own) /\ DOMAIN own = 1..n
    BY <1>5, LenProperties
  <2>11. Len(r) = 1
    BY <2>5, LenProperties
  <2>12. /\ all \in Seq(InMemory) /\ DOMAIN all = 1..(n + 1)
         /\ \A i \in 1..n : all[i] = own[i]
         /\ all[n + 1] = r[1]
    <3>5. /\ all \in Seq(InMemory) /\ Len(all) = Len(own) + Len(r)
          /\ \A i \in 1..(Len(own) + Len(r)) : all[i] = IF i <= Len(own) THEN own[i] ELSE r[i - Len(own)]
      BY <1>5, <2>5, <2>7, ConcatProperties
    <3>1. /\ all \in Seq(InMemory) /\ Len(all) = n + 1
          /\ \A i \in 1..(n + 1) : all[i] = IF i <= n THEN own[i] ELSE r[i - n]
      BY <3>5, <2>10, <2>11
    <3>2. DOMAIN all = 1..(n + 1)
      BY <3>1, LenProperties
    <3>3. n + 1 - n = 1 /\ ~(n + 1 <= n) /\ n + 1 \in 1..(n + 1)
      OBVIOUS
    <3>4. all[n + 1] = r[n + 1 - n]
      BY <3>1, <3>3
    <3> QED
      BY <3>1, <3>2, <3>3, <3>4
  <2>13. Given(all, TRUE, ids, u)
    <3> SUFFICES ASSUME NEW i \in 1..(n + 1) PROVE all[i].id \in IdsUpTo(ids) /\ all[i].uuid \in 0..u
      BY <2>12 DEF Given
    <3>1. CASE i = n + 1
      BY <1>1, <1>6, <2>2, <2>5, <2>12, <3>1
    <3>2. CASE i \in 1..n
      <4>1. all[i] = own[i] /\ i \in DOMAIN own
        BY <2>10, <2>12, <3>2
      <4> QED
        BY <1>7, <4>1
    <3> QED
      BY <3>1, <3>2
  <2>14. Apart(all)
    <3> SUFFICES ASSUME NEW i \in 1..(n + 1), NEW j \in 1..(n + 1), i # j
                 PROVE  all[i].id # all[j].id /\ (all[i].uuid # 0 => all[i].uuid # all[j].uuid)
      BY <2>12 DEF Apart
    <3>1. CASE i \in 1..n /\ j \in 1..n
      <4>1. own[i].id # own[j].id /\ (own[i].uuid # 0 => own[i].uuid # own[j].uuid)
        BY <1>5, <2>10, <3>1 DEF Apart
      <4>2. all[i] = own[i] /\ all[j] = own[j]
        BY <2>12, <3>1
      <4> QED
        BY <4>1, <4>2
    <3>4. \A l \in 1..n : all[l] = own[l] /\ own[l].id # 1 /\ own[l].uuid # 1
      BY <1>7, <1>16, <2>10, <2>12
    <3>5. all[n + 1].id = 1 /\ all[n + 1].uuid = 1
      BY <2>5, <2>12
    <3>2. CASE i = n + 1 /\ j \in 1..n
      BY <3>2, <3>4, <3>5
    <3>3. CASE j = n + 1 /\ i \in 1..n
      BY <3>3, <3>4, <3>5
    <3> QED
      BY <3>1, <3>2, <3>3
  <2>15. ASSUME NEW d \in Found(c)
         PROVE  \E i \in DOMAIN all : all[i].id = d.id /\ (d.pw # 0 /\ d.pw = k => all[i].pw)
    <3>1. CASE d \in Range(c.conns)
      <4>1. PICK i \in 1..n : own[i].id = d.id /\ (d.pw # 0 /\ d.pw = k => own[i].pw)
        BY <1>13, <2>10, <3>1
      <4>2. i \in DOMAIN all /\ all[i] = own[i]
        BY <2>12
      <4> QED
        BY <4>1, <4>2
    <3>2. CASE d \notin Range(c.conns)
      <4>1. d \in Range(robo.conns)
        BY <2>15, <3>2 DEF Found
      <4>2. d = OfRobo
        BY <2>1, <2>2, <4>1 DEF Range
      <4>3. n + 1 \in DOMAIN all /\ all[n + 1].id = d.id /\ (d.pw # 0 /\ d.pw = k => all[n + 1].pw)
        BY <2>2, <2>5, <2>12, <4>2
      <4> QED
        BY <4>3
    <3> QED
      BY <3>1, <3>2
  <2>16. m.imported \in BOOLEAN
    BY <2>9, Zenon
  <2>17. m.eula \subseteq {"old", CurrentEula} /\ (Accepted(c) => CurrentEula \in m.eula)
    BY <1>9, <2>9
  <2>18. HeldOK(m, ids, u)
    <3>1. m.conns \in Seq(InMemory) /\ Apart(m.conns) /\ Given(m.conns, m.imported, ids, u)
      BY <2>9, <2>12, <2>13, <2>14, Zenon
    <3> QED
      BY <2>9, <2>16, <2>17, <3>1, Zenon DEF HeldOK
  <2>19. \A d \in Found(c) : \E i \in DOMAIN m.conns :
           m.conns[i].id = d.id /\ (d.pw # 0 /\ d.pw = k => m.conns[i].pw)
    BY <2>9, <2>15, Zenon
  <2> QED
    BY <1>4, <1>5, <1>6, <2>17, <2>18, <2>19, Zenon
<1>17. robo \in {NoFile, Torn} \/ robo = Config(2, <<OfRobo>>, TRUE, {})
  BY DEF FilesOK
<1>18. robo = NoFile => robo.is = "none"
  BY DEF NoFile
<1> QED
  BY <1>14, <1>15, <1>16, <1>17, <1>18

\* The numbers that name connections: the next one is new while the bound allows it.
LEMMA IdsFacts ==
  ASSUME NEW n \in Nat
  PROVE  /\ IdsUpTo(n) \subseteq Nat
         /\ \A k \in Nat : k >= n => IdsUpTo(n) \subseteq IdsUpTo(k)
         /\ n + 1 \in IdsUpTo(n + 1)
         /\ n < MaxConns => n + 1 \notin IdsUpTo(n)
<1>1. Range(DirOrder) \subseteq 3..199 /\ \A v \in Range(DirOrder) : v > MaxConns
  BY DirOrderAssumption, RangeOfSeq
<1>2. MaxConns \in Nat
  BY BoundsAssumption
<1>3. IdsUpTo(n) \subseteq Nat
  BY <1>1 DEF IdsUpTo
<1>4. ASSUME n < MaxConns PROVE n + 1 \notin IdsUpTo(n)
  BY <1>1, <1>2, <1>4 DEF IdsUpTo
<1> QED
  BY <1>3, <1>4 DEF IdsUpTo

\* What holds of the counters holds of later ones.
LEMMA Later ==
  ASSUME NEW n \in Nat, NEW u \in Nat, NEW k \in Nat, NEW w \in Nat, k >= n, w >= u
  PROVE  /\ \A s, b : Given(s, b, n, u) => Given(s, b, k, w)
         /\ \A m : HeldOK(m, n, u) => HeldOK(m, k, w)
         /\ \A c : WellFormed(c, n, u) => WellFormed(c, k, w)
         /\ \A d, s : ItemsOK(d, s, n) => ItemsOK(d, s, k)
<1>1. IdsUpTo(n) \subseteq IdsUpTo(k) /\ 0..u \subseteq 0..w
  BY IdsFacts
<1>2. ASSUME NEW s, NEW b, Given(s, b, n, u) PROVE Given(s, b, k, w)
  <2> SUFFICES ASSUME NEW i \in DOMAIN s
               PROVE  /\ s[i].id \in IdsUpTo(k) /\ s[i].uuid \in 0..w
                      /\ ~b => s[i].id # 1 /\ s[i].uuid # 1
    BY Zenon DEF Given
  <2>1. /\ s[i].id \in IdsUpTo(n) /\ s[i].uuid \in 0..u
        /\ ~b => s[i].id # 1 /\ s[i].uuid # 1
    BY <1>2, Zenon DEF Given
  <2> QED
    BY <1>1, <2>1, Zenon
<1>3. \A m : HeldOK(m, n, u) => HeldOK(m, k, w)
  BY <1>2, Zenon DEF HeldOK
<1>4. \A c : WellFormed(c, n, u) => WellFormed(c, k, w)
  BY <1>2, Zenon DEF WellFormed
<1>5. \A items : items \in Seq(IdsUpTo(n)) => items \in Seq(IdsUpTo(k))
  BY <1>1
<1>6. \A d, s : ItemsOK(d, s, n) => ItemsOK(d, s, k)
  BY <1>5, Zenon DEF ItemsOK
<1> QED
  BY <1>2, <1>3, <1>4, <1>6

\* Some connections of a list, each once and in any order, are as well told apart.
LEMMA Picked ==
  ASSUME NEW s, NEW t, NEW p \in [DOMAIN t -> DOMAIN s], Apart(s),
         \A j \in DOMAIN t : t[j] = s[p[j]],
         \A i, j \in DOMAIN t : i # j => p[i] # p[j]
  PROVE  /\ Apart(t)
         /\ \A b, n, u : Given(s, b, n, u) => Given(t, b, n, u)
<1>1. Apart(t)
  BY DEF Apart
<1>2. ASSUME NEW b, NEW n, NEW u, Given(s, b, n, u) PROVE Given(t, b, n, u)
  <2>1. ASSUME NEW i \in DOMAIN t
        PROVE  t[i].id \in IdsUpTo(n) /\ t[i].uuid \in 0..u /\ (~b => t[i].id # 1 /\ t[i].uuid # 1)
    <3>1. p[i] \in DOMAIN s /\ t[i] = s[p[i]]
      OBVIOUS
    <3>2. /\ s[p[i]].id \in IdsUpTo(n) /\ s[p[i]].uuid \in 0..u
          /\ ~b => s[p[i]].id # 1 /\ s[p[i]].uuid # 1
      BY <1>2, <3>1, Zenon DEF Given
    <3> QED
      BY <3>1, <3>2, Zenon
  <2> QED
    BY <2>1, Zenon DEF Given
<1> QED
  BY <1>1, <1>2

\* A connection of a new id, and of a new uuid if it has one, at the end of a list.
Fits(c, n, u) == c.id \in IdsUpTo(n) /\ c.uuid \in 0..u /\ c.id # 1 /\ c.uuid # 1
NewTo(s, c) == \A i \in DOMAIN s : s[i].id # c.id /\ (c.uuid # 0 => s[i].uuid # c.uuid)
IsLonger(t, s, c) == t = Append(s, c)

LEMMA LongerFacts ==
  ASSUME NEW S, NEW s \in Seq(S), NEW c \in S, NEW t, IsLonger(t, s, c), NEW k \in Nat, k = Len(s)
  PROVE  /\ t \in Seq(S) /\ DOMAIN s = 1..k /\ DOMAIN t = 1..(k + 1)
         /\ \A i \in 1..k : t[i] = s[i]
         /\ t[k + 1] = c
BY AppendProperties, LenProperties DEF IsLonger

\* A list with one more connection, which is new to it.
LEMMA AddedConn ==
  ASSUME NEW S, NEW s \in Seq(S), NEW c \in S, Apart(s), NewTo(s, c), NEW t, IsLonger(t, s, c)
  PROVE  /\ t \in Seq(S) /\ Apart(t)
         /\ Ids(t) = Ids(s) \cup {c.id} /\ Range(t) = Range(s) \cup {c}
         /\ \A b, n, u : Given(s, b, n, u) /\ Fits(c, n, u) => Given(t, b, n, u)
<1>1. PICK k \in Nat : k = Len(s)
  BY LenProperties
<1>2. /\ t \in Seq(S) /\ DOMAIN s = 1..k /\ DOMAIN t = 1..(k + 1)
      /\ \A i \in 1..k : t[i] = s[i]
      /\ t[k + 1] = c
  BY <1>1, LongerFacts
<1>3. Apart(t)
  <2> SUFFICES ASSUME NEW i \in 1..(k + 1), NEW j \in 1..(k + 1), i # j
               PROVE  t[i].id # t[j].id /\ (t[i].uuid # 0 => t[i].uuid # t[j].uuid)
    BY <1>2 DEF Apart
  <2>1. CASE i \in 1..k /\ j \in 1..k
    <3>1. s[i].id # s[j].id /\ (s[i].uuid # 0 => s[i].uuid # s[j].uuid)
      BY <1>2, <2>1 DEF Apart
    <3> QED
      BY <1>2, <2>1, <3>1
  <2>4. \A l \in 1..k : s[l].id # c.id /\ (c.uuid # 0 => s[l].uuid # c.uuid)
    BY <1>2 DEF NewTo
  <2>2. CASE i = k + 1 /\ j \in 1..k
    BY <1>2, <2>2, <2>4
  <2>3. CASE j = k + 1 /\ i \in 1..k
    BY <1>2, <2>3, <2>4
  <2> QED
    <3> i \in 1..k \/ i = k + 1
      BY <1>1
    <3> j \in 1..k \/ j = k + 1
      BY <1>1
    <3> QED
      BY <1>1, <2>1, <2>2, <2>3
<1>4. ASSUME NEW b, NEW n, NEW u, Given(s, b, n, u), Fits(c, n, u) PROVE Given(t, b, n, u)
  <2> SUFFICES ASSUME NEW i \in 1..(k + 1)
               PROVE  /\ t[i].id \in IdsUpTo(n) /\ t[i].uuid \in 0..u
                      /\ ~b => t[i].id # 1 /\ t[i].uuid # 1
    BY <1>2, Zenon DEF Given
  <2>1. CASE i \in 1..k
    BY <1>2, <1>4, <2>1, Zenon DEF Given
  <2>2. CASE i = k + 1
    BY <1>2, <1>4, <2>2, Zenon DEF Fits
  <2> QED
    <3> i \in 1..k \/ i = k + 1
      BY <1>1
    <3> QED
      BY <2>1, <2>2
<1>5. Ids(t) = Ids(s) \cup {c.id}
  BY <1>1, <1>2 DEF Ids
<1>6. Range(t) = Range(s) \cup {c}
  BY <1>1, <1>2 DEF Range
<1> QED
  BY <1>2, <1>3, <1>4, <1>5, <1>6

\* A connection taken from a list.
LEMMA RemovedConn ==
  ASSUME NEW S, NEW s \in Seq(S), Apart(s), NEW i \in DOMAIN s, NEW t, t = RemoveAt(s, i)
  PROVE  /\ t \in Seq(S) /\ Apart(t) /\ Ids(t) = Ids(s) \ {s[i].id}
         /\ \A b, n, u : Given(s, b, n, u) => Given(t, b, n, u)
<1>1. PICK k \in Nat : k = Len(s) /\ DOMAIN s = 1..k
  BY LenProperties
<1>2. /\ t \in Seq(S) /\ Len(t) = k - 1
      /\ \A j \in 1..(k - 1) : t[j] = IF j < i THEN s[j] ELSE s[j + 1]
  BY <1>1, RemoveAtFacts
<1>3. DOMAIN t = 1..(k - 1)
  BY <1>2, LenProperties
<1>4. PICK p : p = [j \in 1..(k - 1) |-> IF j < i THEN j ELSE j + 1]
  OBVIOUS
<1>5. /\ p \in [1..(k - 1) -> 1..k]
      /\ \A j \in 1..(k - 1) : p[j] = IF j < i THEN j ELSE j + 1
  BY <1>1, <1>4
<1>6. \A j, l \in 1..(k - 1) : j # l => p[j] # p[l]
  BY <1>1, <1>5
<1>7. \A j \in 1..(k - 1) : t[j] = s[p[j]]
  BY <1>2, <1>5
<1>8. Apart(t) /\ \A b, n, u : Given(s, b, n, u) => Given(t, b, n, u)
  <2>1. /\ p \in [DOMAIN t -> DOMAIN s]
        /\ \A j \in DOMAIN t : t[j] = s[p[j]]
        /\ \A j, l \in DOMAIN t : j # l => p[j] # p[l]
    BY <1>1, <1>3, <1>5, <1>6, <1>7, Zenon
  <2> QED
    BY <2>1, Picked
<1>9. ASSUME NEW l \in 1..k, l # i PROVE \E j \in 1..(k - 1) : p[j] = l
  <2>1. CASE l < i
    <3>1. l \in 1..(k - 1) /\ p[l] = l
      BY <1>1, <1>5, <2>1
    <3> QED
      BY <3>1
  <2>2. CASE ~(l < i)
    <3>1. l - 1 \in 1..(k - 1) /\ p[l - 1] = l
      BY <1>1, <1>5, <1>9, <2>2
    <3> QED
      BY <3>1
  <2> QED
    BY <2>1, <2>2
<1>10. \A j \in 1..(k - 1) : p[j] # i
  BY <1>1, <1>5
<1>11. Ids(t) = Ids(s) \ {s[i].id}
  <2>1. ASSUME NEW x \in Ids(t) PROVE x \in Ids(s) \ {s[i].id}
    <3>1. PICK j \in 1..(k - 1) : x = t[j].id
      BY <1>3 DEF Ids
    <3>2. p[j] \in DOMAIN s /\ p[j] # i /\ t[j] = s[p[j]]
      BY <1>1, <1>5, <1>7, <1>10
    <3> QED
      BY <3>1, <3>2 DEF Ids, Apart
  <2>2. ASSUME NEW x \in Ids(s), x # s[i].id PROVE x \in Ids(t)
    <3>1. PICK l \in 1..k : x = s[l].id
      BY <1>1 DEF Ids
    <3>2. l # i
      BY <2>2, <3>1
    <3>3. PICK j \in 1..(k - 1) : p[j] = l
      BY <1>9, <3>2
    <3> QED
      BY <1>3, <1>7, <3>1, <3>3 DEF Ids
  <2> QED
    BY <2>1, <2>2
<1> QED
  BY <1>2, <1>8, <1>11

\* A connection moved to the front of a list.
LEMMA MovedConn ==
  ASSUME NEW S, NEW s \in Seq(S), Apart(s), NEW i \in DOMAIN s,
         NEW t, t = InsertAt(RemoveAt(s, i), 1, s[i])
  PROVE  /\ t \in Seq(S) /\ Apart(t) /\ Ids(t) = Ids(s)
         /\ \A b, n, u : Given(s, b, n, u) => Given(t, b, n, u)
<1>1. PICK k \in Nat : k = Len(s) /\ DOMAIN s = 1..k
  BY LenProperties
<1>2. PICK r : r = RemoveAt(s, i)
  OBVIOUS
<1>3. /\ r \in Seq(S) /\ Len(r) = k - 1
      /\ \A j \in 1..(k - 1) : r[j] = IF j < i THEN s[j] ELSE s[j + 1]
  BY <1>1, <1>2, RemoveAtFacts
<1>4. PICK x : x = s[i]
  OBVIOUS
<1>5. x \in S
  BY <1>4, ElementOfSeq, LenProperties
<1>6. SubSeq(r, 1, 1 - 1) = <<>> /\ SubSeq(r, 1, Len(r)) = r
  BY <1>3
<1>7. t = (<<>> \o <<x>>) \o r
  BY <1>2, <1>4, <1>6 DEF InsertAt
<1>8. <<>> \o <<x>> = <<x>> /\ <<x>> \in Seq(S) /\ Len(<<x>>) = 1 /\ <<x>>[1] = x
  BY <1>5
<1>9. t = <<x>> \o r
  BY <1>7, <1>8
<1>10. /\ t \in Seq(S) /\ Len(t) = 1 + (k - 1)
       /\ \A j \in 1..(1 + (k - 1)) : t[j] = IF j <= 1 THEN <<x>>[j] ELSE r[j - 1]
  <2>1. /\ <<x>> \o r \in Seq(S) /\ Len(<<x>> \o r) = Len(<<x>>) + Len(r)
        /\ \A j \in 1..(Len(<<x>>) + Len(r)) :
             (<<x>> \o r)[j] = IF j <= Len(<<x>>) THEN <<x>>[j] ELSE r[j - Len(<<x>>)]
    BY <1>3, <1>8, ConcatProperties
  <2> QED
    <3>1. Len(<<x>>) + Len(r) = 1 + (k - 1)
      BY <1>3, <1>8
    <3>2. \A j \in 1..(1 + (k - 1)) :
            (<<x>> \o r)[j] = IF j <= 1 THEN <<x>>[j] ELSE r[j - 1]
      BY <1>8, <2>1, <3>1
    <3>3. PICK q : q = <<x>> \o r
      OBVIOUS
    <3>4. q \in Seq(S) /\ Len(q) = 1 + (k - 1)
      BY <2>1, <3>1, <3>3
    <3>5. \A j \in 1..(1 + (k - 1)) : q[j] = IF j <= 1 THEN <<x>>[j] ELSE r[j - 1]
      BY <3>2, <3>3, Zenon
    <3>6. t = q
      BY <1>9, <3>3
    <3>7. t \in Seq(S) /\ Len(t) = 1 + (k - 1)
      BY <3>4, <3>6
    <3>8. ASSUME NEW j \in 1..(1 + (k - 1)) PROVE t[j] = IF j <= 1 THEN <<x>>[j] ELSE r[j - 1]
      BY <3>5, <3>6
    <3> QED
      BY <3>7, <3>8
<1>11. DOMAIN t = 1..k
  BY <1>1, <1>10, LenProperties
<1>12. PICK p : p = [j \in 1..k |-> IF j = 1 THEN i ELSE IF j - 1 < i THEN j - 1 ELSE j]
  OBVIOUS
<1>13. /\ p \in [1..k -> 1..k]
       /\ \A j \in 1..k : p[j] = IF j = 1 THEN i ELSE IF j - 1 < i THEN j - 1 ELSE j
  BY <1>1, <1>12
<1>14. \A j, l \in 1..k : j # l => p[j] # p[l]
  BY <1>1, <1>13
<1>15. ASSUME NEW j \in 1..k PROVE t[j] = s[p[j]]
  <2>1. CASE j = 1
    BY <1>1, <1>4, <1>8, <1>10, <1>13, <2>1
  <2>2. CASE j # 1
    <3>1. j - 1 \in 1..(k - 1) /\ t[j] = r[j - 1]
      BY <1>1, <1>10, <2>2
    <3>2. r[j - 1] = IF j - 1 < i THEN s[j - 1] ELSE s[(j - 1) + 1]
      BY <1>3, <3>1
    <3>3. (j - 1) + 1 = j
      OBVIOUS
    <3> QED
      BY <1>13, <2>2, <3>1, <3>2, <3>3
  <2> QED
    BY <2>1, <2>2
<1>16. Apart(t) /\ \A b, n, u : Given(s, b, n, u) => Given(t, b, n, u)
  <2>1. p \in [DOMAIN t -> DOMAIN s] /\ \A j \in DOMAIN t : t[j] = s[p[j]]
    BY <1>1, <1>11, <1>13, <1>15
  <2>2. \A j, l \in DOMAIN t : j # l => p[j] # p[l]
    BY <1>11, <1>14
  <2> QED
    BY <2>1, <2>2, Picked
<1>17. ASSUME NEW l \in 1..k PROVE \E j \in 1..k : p[j] = l
  <2>1. CASE l = i
    BY <1>13, <2>1
  <2>2. CASE l < i
    <3>1. l + 1 \in 1..k /\ p[l + 1] = l
      BY <1>1, <1>13, <2>2
    <3> QED
      BY <3>1
  <2>3. CASE l > i
    <3>1. l \in 1..k /\ p[l] = l
      BY <1>1, <1>13, <2>3
    <3> QED
      BY <3>1
  <2> QED
    BY <1>1, <2>1, <2>2, <2>3
<1>18. Ids(t) = Ids(s)
  <2>1. ASSUME NEW y \in Ids(t) PROVE y \in Ids(s)
    <3>1. PICK j \in 1..k : y = t[j].id
      BY <1>11 DEF Ids
    <3>2. p[j] \in DOMAIN s /\ t[j] = s[p[j]]
      BY <1>1, <1>13, <1>15
    <3> QED
      BY <3>1, <3>2 DEF Ids
  <2>2. ASSUME NEW y \in Ids(s) PROVE y \in Ids(t)
    <3>1. PICK l \in 1..k : y = s[l].id
      BY <1>1 DEF Ids
    <3>2. PICK j \in 1..k : p[j] = l
      BY <1>17
    <3> QED
      BY <1>11, <1>15, <3>1, <3>2 DEF Ids
  <2> QED
    BY <2>1, <2>2
<1> QED
  BY <1>10, <1>16, <1>18

\* A connection that was given a password.
LEMMA PasswordGiven ==
  ASSUME NEW s \in Seq(InMemory), NEW i \in DOMAIN s, NEW c, c = [s[i] EXCEPT !.pw = TRUE],
         NEW t, t = [s EXCEPT ![i] = c]
  PROVE  /\ t \in Seq(InMemory) /\ DOMAIN t = DOMAIN s
         /\ \A j \in DOMAIN s : t[j].id = s[j].id /\ t[j].uuid = s[j].uuid
<1>1. PICK k \in Nat : k = Len(s) /\ DOMAIN s = 1..k /\ \A j \in 1..k : s[j] \in InMemory
  BY LenProperties, ElementOfSeq
<1>3. c \in InMemory /\ c.id = s[i].id /\ c.uuid = s[i].uuid
  <2>1. s[i] \in InMemory
    BY <1>1
  <2>2. PICK e \in InMemory : e = s[i]
    BY <2>1
  <2>3. c = [id |-> e.id, uuid |-> e.uuid, pw |-> TRUE]
    BY <2>2 DEF InMemory
  <2>4. c.id = e.id /\ c.uuid = e.uuid
    BY <2>3
  <2>5. TRUE \in BOOLEAN /\ e.id \in Nat /\ e.uuid \in Nat
    BY ConnFields
  <2>6. c \in InMemory
    <3>1. c = Conn(e.id, e.uuid, TRUE)
      BY <2>3 DEF Conn
    <3>2. PICK p \in BOOLEAN : p = TRUE
      BY Zenon
    <3>3. c = Conn(e.id, e.uuid, p)
      BY <3>1, <3>2, Zenon
    <3>4. Conn(e.id, e.uuid, p) \in InMemory
      BY <2>5, ConnOf
    <3> QED
      BY <3>3, <3>4, Zenon
  <2> QED
    BY <2>2, <2>4, <2>6
<1>5. DOMAIN t = 1..k /\ \A j \in 1..k : t[j] = IF j = i THEN c ELSE s[j]
  BY <1>1
<1>6. t \in Seq(InMemory)
  <2>1. t = [j \in 1..k |-> t[j]]
    BY <1>1
  <2>2. \A j \in 1..k : t[j] \in InMemory
    BY <1>1, <1>3, <1>5
  <2>3. t \in [1..k -> InMemory]
    BY <2>1, <2>2
  <2> QED
    BY <2>3, SeqDef
<1>7. \A j \in 1..k : t[j].id = s[j].id /\ t[j].uuid = s[j].uuid
  BY <1>3, <1>5
<1> QED
  BY <1>1, <1>5, <1>6, <1>7

\* Lists of the same ids and uuids.
LEMMA SameNames ==
  ASSUME NEW s, NEW t, DOMAIN t = DOMAIN s, Apart(s),
         \A j \in DOMAIN s : t[j].id = s[j].id /\ t[j].uuid = s[j].uuid
  PROVE  Apart(t) /\ Ids(t) = Ids(s) /\ \A b, n, u : Given(s, b, n, u) => Given(t, b, n, u)
<1>1. Apart(t)
  BY DEF Apart
<1>2. Ids(t) = Ids(s)
  BY DEF Ids
<1>3. ASSUME NEW b, NEW n, NEW u, Given(s, b, n, u) PROVE Given(t, b, n, u)
  BY <1>3, Zenon DEF Given
<1> QED
  BY <1>1, <1>2, <1>3

\* The configuration that memory makes: as it is, in this schema.
LEMMA ConfigMade ==
  ASSUME NEW m, NEW n, NEW u, HeldOK(m, n, u), NEW k \in Keys, NEW c, c = ConvertToMap(m, k)
  PROVE  /\ WellFormed(c, n, u) /\ c.is = "config" /\ c.schema = CurrentConfigSchema /\ c.eula = m.eula
         /\ (c.imported <=> m.imported)
         /\ \A i \in DOMAIN m.conns : \E d \in Range(c.conns) : d.id = m.conns[i].id /\ (m.conns[i].pw => d.pw = k)
<1>1. PICK s : s = m.conns
  OBVIOUS
<1>2. s \in Seq(InMemory) /\ Apart(s) /\ Given(s, m.imported, n, u)
      /\ m.imported \in BOOLEAN /\ m.eula \subseteq {"old", CurrentEula}
  BY <1>1 DEF HeldOK
<1>3. PICK w : w = ToVariant(s, k)
  OBVIOUS
<1>4. /\ w \in Seq(OnDisk) /\ DOMAIN w = DOMAIN s
      /\ \A i \in DOMAIN s :
           /\ w[i].id = s[i].id /\ w[i].uuid = s[i].uuid
           /\ s[i].pw => w[i].pw = k
  BY <1>2, <1>3, Written
<1>5. PICK b, e : b = m.imported /\ e = m.eula
  OBVIOUS
<1>6. c = [is |-> "config", schema |-> 3, conns |-> w, imported |-> b, eula |-> e]
  BY <1>1, <1>3, <1>5, Zenon DEF ConvertToMap, Config, CurrentConfigSchema
<1>7. c.is = "config" /\ c.schema = 3 /\ c.conns = w /\ c.imported = b /\ c.eula = e
  BY <1>6
<1>8. c \in Saved
  <2>1. b \in BOOLEAN /\ e \in SUBSET {"old", CurrentEula} /\ 3 \in Nat
    BY <1>2, <1>5, Zenon
  <2> QED
    BY <1>4, <1>6, <2>1 DEF Saved
<1>9. Apart(w) /\ Given(w, b, n, u)
  <2>1. Apart(w)
    BY <1>2, <1>4 DEF Apart
  <2>2. Given(s, b, n, u)
    BY <1>2, <1>5, Zenon
  <2>3. Given(w, b, n, u)
    BY <1>4, <2>2, Zenon DEF Given
  <2> QED
    BY <2>1, <2>3
<1>10. WellFormed(c, n, u)
  BY <1>7, <1>8, <1>9, Zenon DEF WellFormed
<1>11. ASSUME NEW i \in DOMAIN s
       PROVE  \E d \in Range(c.conns) : d.id = s[i].id /\ (s[i].pw => d.pw = k)
  <2>1. w[i] \in Range(c.conns)
    BY <1>4, <1>7 DEF Range
  <2> QED
    BY <1>4, <2>1
<1> QED
  BY <1>1, <1>5, <1>7, <1>10, <1>11, Zenon DEF CurrentConfigSchema

\* The files are as they were, whatever was given since.
LEMMA FilesLater ==
  ASSUME CountersOK, FilesOK, ids' \in Nat, uuids' \in Nat, ids' >= ids, uuids' >= uuids,
         UNCHANGED <<dirs, robo, bak, firstNewer>>,
         file' \in {NoFile, Torn} \/ file' = file \/ WellFormed(file', ids', uuids')
  PROVE  FilesOK'
<1>1. ids \in Nat /\ uuids \in Nat
  BY DEF CountersOK
<1>2. PICK n, u : n = ids' /\ u = uuids'
  OBVIOUS
<1>3. n \in Nat /\ u \in Nat /\ n >= ids /\ u >= uuids
  BY <1>2
<1>4. \A c : WellFormed(c, ids, uuids) => WellFormed(c, n, u)
  BY <1>1, <1>3, Later
<1>5. file' \in {NoFile, Torn} \/ WellFormed(file', n, u)
  BY <1>2, <1>4, Zenon DEF FilesOK
<1>6. \A v \in DOMAIN dirs : WellFormed(dirs[v], n, u)
  BY <1>4, Zenon DEF FilesOK
<1> QED
  BY <1>2, <1>5, <1>6, Zenon DEF FilesOK

\* What the next start reads is as it was.
LEMMA SourceStays ==
  ASSUME SourceIsSafe, UNCHANGED <<file, dirs, robo, keyFile, oldKey, safe, lost, accepted>>
  PROVE  SourceIsSafe'
<1>1. Source' = Source /\ NextKey' = NextKey
  BY Zenon DEF Source, NextKey, NewestDir
<1>2. \A c : Found(c)' = Found(c)
  BY Zenon DEF Found
<1> QED
  BY <1>1, <1>2, Zenon DEF SourceIsSafe

\* A save leaves the files as they should be: what is known to be on the disk is there, with
\* the passwords that the next start will open.
LEMMA SaveKeeps ==
  ASSUME SettingsInv, run # "off", NEW m, HeldOK(m, ids, uuids), Save(m), UNCHANGED <<ids, uuids>>, run' = "on"
  PROVE  CountersOK' /\ FilesOK' /\ SourceIsSafe' /\ AskedOnce'
<1>1. CountersOK /\ FilesOK /\ SourceIsSafe /\ key \in Keys /\ key # 0 /\ keyFile \in Keys /\ oldKey \in {0, 1}
  BY DEF SettingsInv, CountersOK
<1>2. UNCHANGED <<bak, keyFile, dirs, robo, oldKey, key, starts, newer, firstNewer>>
  BY DEF Save, world
<1>3. CountersOK'
  BY <1>1, <1>2 DEF CountersOK
<1>4. AskedOnce'
  BY DEF AskedOnce
<1>5. PICK c : c = ConvertToMap(m, key)
  OBVIOUS
<1>6. /\ WellFormed(c, ids, uuids) /\ c.is = "config" /\ c.schema = CurrentConfigSchema /\ c.eula = m.eula
      /\ \A i \in DOMAIN m.conns : \E d \in Range(c.conns) : d.id = m.conns[i].id /\ (m.conns[i].pw => d.pw = key)
  BY <1>1, <1>5, ConfigMade
<1>7. \/ /\ file' = c /\ lost' = FALSE /\ accepted' = (CurrentEula \in m.eula)
         /\ safe' = {[d EXCEPT !.pw = @ /\ Readable] : d \in Known(m.conns)}
      \/ file' = Torn /\ lost' = TRUE /\ UNCHANGED <<safe, accepted>>
      \/ UNCHANGED <<file, safe, lost, accepted>>
  BY <1>5, Zenon DEF Save
<1>8. FilesOK'
  <2>1. file' \in {NoFile, Torn} \/ file' = file \/ WellFormed(file', ids', uuids')
    BY <1>6, <1>7, Zenon
  <2>2. ids' \in Nat /\ uuids' \in Nat /\ ids' >= ids /\ uuids' >= uuids
    BY <1>1 DEF CountersOK
  <2> QED
    BY <1>1, <1>2, <2>1, <2>2, FilesLater
<1>9. CASE UNCHANGED <<file, safe, lost, accepted>>
  <2>1. SourceIsSafe'
    BY <1>1, <1>2, <1>9, SourceStays
  <2> QED
    BY <1>3, <1>4, <1>8, <2>1
<1>10. CASE file' = Torn /\ lost' = TRUE /\ UNCHANGED <<safe, accepted>>
  <2>1. SourceIsSafe'
    BY <1>10, Zenon DEF SourceIsSafe
  <2> QED
    BY <1>3, <1>4, <1>8, <2>1
<1>11. CASE /\ file' = c /\ lost' = FALSE /\ accepted' = (CurrentEula \in m.eula)
            /\ safe' = {[d EXCEPT !.pw = @ /\ Readable] : d \in Known(m.conns)}
  <2>1. Source' = c
    BY <1>6, <1>11, Zenon DEF Source
  <2>2. accepted' => Accepted(c)
    <3>1. ~(c.schema < 3)
      BY <1>6 DEF CurrentConfigSchema
    <3> QED
      BY <1>6, <1>11, <3>1, Zenon DEF Accepted
  <2>3. c.is # "torn"
    BY <1>6
  <2>4. PICK k : k = NextKey'
    OBVIOUS
  <2>5. Readable => k = key
    BY <1>1, <1>2, <2>4 DEF Readable, NextKey
  <2>6. ASSUME NEW s \in safe'
        PROVE  \E d \in Range(c.conns) : d.id = s.id /\ (s.pw => d.pw = k /\ d.pw # 0)
    <3>6. PICK f \in Known(m.conns) : s = [f EXCEPT !.pw = f.pw /\ Readable]
      BY <1>11, Zenon
    <3>1. PICK i \in DOMAIN m.conns : f = [id |-> m.conns[i].id, pw |-> m.conns[i].pw]
      BY DEF Known
    <3>2. PICK a, p : a = m.conns[i].id /\ p = m.conns[i].pw
      OBVIOUS
    <3>3. s = [[id |-> a, pw |-> p] EXCEPT !.pw = p /\ Readable]
      <4>1. f = [id |-> a, pw |-> p]
        BY <3>1, <3>2, Zenon
      <4>2. f.pw = p
        BY <4>1
      <4> QED
        BY <3>6, <4>1, <4>2, Zenon
    <3>4. s.id = a /\ (s.pw => p /\ Readable)
      <4>1. PICK q : q = (p /\ Readable)
        OBVIOUS
      <4>2. s = [[id |-> a, pw |-> p] EXCEPT !.pw = q]
        BY <3>3, <4>1, Zenon
      <4>3. s.id = a /\ s.pw = q
        BY <4>2
      <4> QED
        BY <4>1, <4>3, Zenon
    <3>5. PICK d \in Range(c.conns) : d.id = m.conns[i].id /\ (m.conns[i].pw => d.pw = key)
      BY <1>6
    <3> QED
      BY <1>1, <2>5, <3>2, <3>4, <3>5, Zenon
  <2>7. \A d \in Range(c.conns) : d \in Found(c)'
    BY DEF Found
  <2>8. SourceIsSafe'
    BY <1>11, <2>1, <2>2, <2>3, <2>4, <2>6, <2>7, Zenon DEF SourceIsSafe
  <2> QED
    BY <1>3, <1>4, <1>8, <2>8
<1> QED
  BY <1>7, <1>9, <1>10, <1>11, Zenon

\* A step of the dialog changes memory and its items alone.
LEMMA DialogStepKeepsInv ==
  ASSUME SettingsInv, DialogStep, run' = run, ids' \in {ids, ids + 1}, ids' = ids \/ ids < MaxConns,
         uuids' \in {uuids, uuids + 1}, HeldOK(mem', ids', uuids'), ItemsOK(dialog', mem'.conns, ids')
  PROVE  SettingsInv'
<1>1. /\ CountersOK /\ FilesOK /\ SourceIsSafe /\ run = "on" /\ ids \in Nat /\ uuids \in Nat
      /\ MaxConns \in Nat
  BY BoundsAssumption DEF SettingsInv, CountersOK, DialogStep
<1>2. UNCHANGED <<file, bak, keyFile, dirs, robo, oldKey, key, starts, newer, safe, lost, accepted, firstNewer>>
  BY DEF DialogStep, disk, world, history
<1>3. ids' \in Nat /\ uuids' \in Nat /\ ids' >= ids /\ uuids' >= uuids
  BY <1>1
<1>4. CountersOK'
  BY <1>1, <1>2, <1>3 DEF CountersOK
<1>5. FilesOK'
  BY <1>1, <1>2, <1>3, FilesLater
<1>6. SourceIsSafe'
  BY <1>1, <1>2, SourceStays
<1>7. MemoryOK' /\ DialogOK' /\ AskedOnce'
  BY <1>1 DEF MemoryOK, DialogOK, AskedOnce
<1> QED
  BY <1>4, <1>5, <1>6, <1>7 DEF SettingsInv

\* Nothing is held, and nothing is shown.
NoItems == [open |-> FALSE, items |-> <<>>, freed |-> {}]

LEMMA NothingHeld ==
  ASSUME NEW n \in Nat, NEW u \in Nat
  PROVE  /\ HeldOK(Defaults, n, u) /\ Defaults.conns = <<>> /\ Defaults.eula = {} /\ Defaults.imported = FALSE
         /\ \A s : ItemsOK(NoItems, s, n)
<1>1. Defaults.conns = <<>> /\ Defaults.imported = FALSE /\ Defaults.eula = {}
  BY DEF Defaults
<1>2. <<>> \in Seq(InMemory) /\ DOMAIN <<>> = {} /\ <<>> \in Seq(IdsUpTo(n))
  OBVIOUS
<1>3. HeldOK(Defaults, n, u)
  <2>1. Apart(<<>>) /\ Given(<<>>, FALSE, n, u)
    BY <1>2, Zenon DEF Apart, Given
  <2>2. Defaults = [conns |-> Defaults.conns, imported |-> Defaults.imported, eula |-> Defaults.eula]
    BY DEF Defaults
  <2>3. FALSE \in BOOLEAN /\ {} \subseteq {"old", CurrentEula}
    OBVIOUS
  <2> QED
    BY <1>1, <1>2, <2>1, <2>2, <2>3, Zenon DEF HeldOK
<1>4. ASSUME NEW s PROVE ItemsOK(NoItems, s, n)
  <2>1. NoItems.open = FALSE /\ NoItems.items = <<>> /\ NoItems.freed = {}
    BY DEF NoItems
  <2>2. NoItems = [open |-> NoItems.open, items |-> NoItems.items, freed |-> NoItems.freed]
    BY DEF NoItems
  <2> QED
    BY <1>2, <2>1, <2>2, Zenon DEF ItemsOK
<1> QED
  BY <1>1, <1>3, <1>4

\* The program ends, with the file as it was or cut.
LEMMA ForgetKeepsInv ==
  ASSUME SettingsInv, Forget, UNCHANGED <<bak, keyFile, world, ids, uuids, starts, newer, safe, accepted, firstNewer>>,
         UNCHANGED <<file, lost>> \/ (file' = Torn /\ lost' = TRUE)
  PROVE  SettingsInv'
<1>1. /\ CountersOK /\ FilesOK /\ SourceIsSafe /\ ids \in Nat /\ uuids \in Nat /\ ids >= ids /\ uuids >= uuids
      /\ 0 \in Keys
  BY BoundsAssumption DEF SettingsInv, CountersOK, Keys
<1>2. mem' = Defaults /\ key' = 0 /\ run' = "off" /\ dialog' = NoItems
  BY DEF Forget, NoItems
<1>3. UNCHANGED <<bak, keyFile, dirs, robo, oldKey, ids, uuids, starts, newer, safe, accepted, firstNewer>>
  BY DEF world
<1>4. CountersOK'
  BY <1>1, <1>2, <1>3 DEF CountersOK
<1>5. FilesOK'
  <2>1. file' \in {NoFile, Torn} \/ file' = file
    BY Zenon
  <2> QED
    BY <1>1, <1>3, <2>1, FilesLater
<1>6. SourceIsSafe'
  <2>1. CASE UNCHANGED <<file, lost>>
    BY <1>1, <1>3, <2>1, SourceStays
  <2>2. CASE file' = Torn /\ lost' = TRUE
    BY <2>2, Zenon DEF SourceIsSafe
  <2> QED
    BY <2>1, <2>2
<1>7. MemoryOK'
  BY <1>1, <1>2, <1>3, NothingHeld DEF MemoryOK
<1>8. DialogOK'
  <2>1. NoItems.open = FALSE
    BY DEF NoItems
  <2>2. ItemsOK(NoItems, mem'.conns, ids)
    BY <1>1, NothingHeld
  <2> QED
    BY <1>2, <1>3, <2>1, <2>2, Zenon DEF DialogOK
<1>9. AskedOnce'
  BY <1>2 DEF AskedOnce
<1> QED
  BY <1>4, <1>5, <1>6, <1>7, <1>8, <1>9 DEF SettingsInv

-----------------------------------------------------------------------------
(* One lemma per action: it keeps the invariant of the settings. *)
LEMMA StopKeepsInv == ASSUME SettingsInv, Stop PROVE SettingsInv'
BY ForgetKeepsInv DEF Stop, disk, history

LEMMA CutKeepsInv == ASSUME SettingsInv, Cut PROVE SettingsInv'
BY ForgetKeepsInv DEF Cut

LEMMA EditAfterRemoveKeepsInv == ASSUME SettingsInv, EditAfterRemove PROVE SettingsInv'
BY ForgetKeepsInv DEF EditAfterRemove, disk, history

LEMMA AcceptEulaKeepsInv == ASSUME SettingsInv, AcceptEula PROVE SettingsInv'
<1>1. /\ run = "eula" /\ run' = "on" /\ mem' = [mem EXCEPT !.eula = @ \union {CurrentEula}]
      /\ Save(mem') /\ UNCHANGED <<dialog, ids, uuids>>
  BY DEF AcceptEula
<1>2. PICK s, b, e : s = mem.conns /\ b = mem.imported /\ e = mem.eula \cup {CurrentEula}
  OBVIOUS
<1>3. /\ mem = [conns |-> s, imported |-> b, eula |-> mem.eula]
      /\ s \in Seq(InMemory) /\ b \in BOOLEAN /\ e \subseteq {"old", CurrentEula}
      /\ Apart(s) /\ Given(s, b, ids, uuids)
  BY <1>2 DEF SettingsInv, MemoryOK, HeldOK
<1>4. mem' = [conns |-> s, imported |-> b, eula |-> e]
  BY <1>1, <1>2, <1>3
<1>5. mem'.conns = s /\ mem'.imported = b /\ mem'.eula = e
  BY <1>4
<1>6. HeldOK(mem', ids, uuids)
  BY <1>3, <1>4, <1>5, Zenon DEF HeldOK
<1>7. CountersOK' /\ FilesOK' /\ SourceIsSafe' /\ AskedOnce'
  BY <1>1, <1>6, SaveKeeps
<1>8. MemoryOK'
  BY <1>1, <1>6 DEF MemoryOK
<1>9. DialogOK'
  BY <1>1, <1>2, <1>5 DEF DialogOK, SettingsInv
<1> QED
  BY <1>7, <1>8, <1>9 DEF SettingsInv

LEMMA SaveNowKeepsInv == ASSUME SettingsInv, SaveNow PROVE SettingsInv'
<1>1. run = "on" /\ Save(mem) /\ UNCHANGED <<run, mem, dialog, ids, uuids>> /\ HeldOK(mem, ids, uuids)
  BY DEF SaveNow, SettingsInv, MemoryOK
<1>2. CountersOK' /\ FilesOK' /\ SourceIsSafe' /\ AskedOnce'
  BY <1>1, SaveKeeps
<1>3. MemoryOK' /\ DialogOK'
  BY <1>1 DEF MemoryOK, DialogOK, SettingsInv
<1> QED
  BY <1>2, <1>3 DEF SettingsInv

LEMMA CloseDialogKeepsInv == ASSUME SettingsInv, CloseDialog PROVE SettingsInv'
<1>1. /\ run = "on" /\ Save(mem) /\ UNCHANGED <<run, mem, ids, uuids>> /\ HeldOK(mem, ids, uuids)
      /\ dialog' = NoItems /\ ids \in Nat /\ uuids \in Nat
  BY DEF CloseDialog, SettingsInv, MemoryOK, NoItems, CountersOK
<1>2. CountersOK' /\ FilesOK' /\ SourceIsSafe' /\ AskedOnce'
  BY <1>1, SaveKeeps
<1>3. MemoryOK'
  BY <1>1 DEF MemoryOK
<1>4. DialogOK'
  <2>1. NoItems.open = FALSE
    BY DEF NoItems
  <2>2. ItemsOK(NoItems, mem'.conns, ids)
    BY <1>1, NothingHeld
  <2> QED
    BY <1>1, <2>1, <2>2, Zenon DEF DialogOK
<1> QED
  BY <1>2, <1>3, <1>4 DEF SettingsInv

LEMMA OpenDialogKeepsInv == ASSUME SettingsInv, OpenDialog PROVE SettingsInv'
<1>1. PICK s : s = mem.conns
  OBVIOUS
<1>2. PICK t : t = [i \in DOMAIN s |-> s[i].id]
  OBVIOUS
<1>3. /\ run = "on" /\ dialog' = [open |-> TRUE, items |-> t, freed |-> {}]
      /\ UNCHANGED <<file, bak, keyFile, dirs, robo, oldKey, run, mem, key, ids, uuids, starts, newer,
                     safe, lost, accepted, firstNewer>>
  BY <1>1, <1>2 DEF OpenDialog, disk, world, history
<1>4. /\ s \in Seq(InMemory) /\ Apart(s) /\ \A i \in DOMAIN s : s[i].id \in IdsUpTo(ids)
      /\ ids \in Nat /\ uuids \in Nat /\ ids >= ids /\ uuids >= uuids
  BY <1>1 DEF SettingsInv, MemoryOK, HeldOK, Given, CountersOK
<1>5. PICK k \in Nat : k = Len(s) /\ DOMAIN s = 1..k
  BY <1>4, LenProperties
<1>6. DOMAIN t = 1..k /\ t = [i \in 1..k |-> t[i]] /\ \A i \in 1..k : t[i] = s[i].id
  BY <1>2, <1>5
<1>7. t \in Seq(IdsUpTo(ids))
  <2>1. \A i \in 1..k : t[i] \in IdsUpTo(ids)
    BY <1>4, <1>5, <1>6
  <2>2. t \in [1..k -> IdsUpTo(ids)]
    BY <1>6, <2>1, Zenon
  <2> QED
    BY <2>2, SeqDef
<1>8. PICK d : d = dialog'
  OBVIOUS
<1>9. d = [open |-> TRUE, items |-> t, freed |-> {}]
  BY <1>3, <1>8
<1>10. d.open = TRUE /\ d.items = t /\ d.freed = {}
  BY <1>9
<1>11. d = [open |-> d.open, items |-> d.items, freed |-> d.freed]
  BY <1>9, <1>10, Zenon
<1>12. \A i, j \in DOMAIN t : i # j => t[i] # t[j]
  BY <1>4, <1>5, <1>6 DEF Apart
<1>13. Ids(s) = {t[i] : i \in DOMAIN t \ {}}
  BY <1>5, <1>6 DEF Ids
<1>14. ItemsOK(d, s, ids)
  <2>1. {} \subseteq DOMAIN t
    OBVIOUS
  <2> QED
    BY <1>7, <1>10, <1>11, <1>12, <1>13, <2>1, Zenon DEF ItemsOK
<1>15. DialogOK'
  BY <1>1, <1>3, <1>8, <1>14 DEF DialogOK
<1>16. CountersOK' /\ MemoryOK' /\ AskedOnce'
  BY <1>3 DEF CountersOK, MemoryOK, AskedOnce, SettingsInv
<1>17. FilesOK'
  BY <1>3, <1>4, FilesLater DEF SettingsInv
<1>18. SourceIsSafe'
  BY <1>3, SourceStays DEF SettingsInv
<1> QED
  BY <1>15, <1>16, <1>17, <1>18 DEF SettingsInv

\* Memory with another list of connections, and the dialog with other items.
HasConns(x, m, s) == x = [m EXCEPT !.conns = s]
HasItems(x, d, l) == x = [d EXCEPT !.items = l]

LEMMA HeldList ==
  ASSUME NEW n, NEW u, NEW m, HeldOK(m, n, u), NEW s, NEW x, HasConns(x, m, s), NEW k, NEW w,
         s \in Seq(InMemory), Apart(s), Given(s, m.imported, k, w)
  PROVE  HeldOK(x, k, w) /\ x.conns = s
<1>1. PICK c, b, e : c = m.conns /\ b = m.imported /\ e = m.eula
  OBVIOUS
<1>2. m = [conns |-> c, imported |-> b, eula |-> e] /\ b \in BOOLEAN /\ e \subseteq {"old", CurrentEula}
  BY <1>1 DEF HeldOK
<1>3. x = [conns |-> s, imported |-> b, eula |-> e]
  BY <1>2 DEF HasConns
<1>4. x.conns = s /\ x.imported = b /\ x.eula = e
  BY <1>3
<1> QED
  BY <1>1, <1>2, <1>3, <1>4, Zenon DEF HeldOK

\* One more item for a connection of a new id.
LEMMA ItemAdded ==
  ASSUME NEW n \in Nat, n < MaxConns, NEW d, NEW s, ItemsOK(d, s, n), d.open,
         NEW v, v = n + 1, NEW t, Ids(t) = Ids(s) \cup {v},
         NEW a, IsLonger(a, d.items, v), NEW x, HasItems(x, d, a)
  PROVE  ItemsOK(x, t, v)
<1>1. PICK o, i, f : o = d.open /\ i = d.items /\ f = d.freed
  OBVIOUS
<1>2. /\ d = [open |-> o, items |-> i, freed |-> f]
      /\ i \in Seq(IdsUpTo(n)) /\ f \subseteq DOMAIN i
      /\ \A j, l \in DOMAIN i : j # l => i[j] # i[l]
      /\ Ids(s) = {i[j] : j \in DOMAIN i \ f}
  BY <1>1 DEF ItemsOK
<1>3. IsLonger(a, i, v)
  BY <1>1
<1>4. x = [open |-> o, items |-> a, freed |-> f]
  BY <1>2 DEF HasItems
<1>5. x.open = o /\ x.items = a /\ x.freed = f
  BY <1>4
<1>6. IdsUpTo(n) \subseteq IdsUpTo(v) /\ v \in IdsUpTo(v) /\ v \notin IdsUpTo(n)
  BY IdsFacts
<1>7. PICK k \in Nat : k = Len(i) /\ DOMAIN i = 1..k
  BY <1>2, LenProperties
<1>8. i \in Seq(IdsUpTo(v)) /\ v \in IdsUpTo(v) /\ \A j \in 1..k : i[j] \in IdsUpTo(n)
  BY <1>2, <1>6, <1>7, ElementOfSeq
<1>9. /\ a \in Seq(IdsUpTo(v)) /\ DOMAIN a = 1..(k + 1)
      /\ \A j \in 1..k : a[j] = i[j]
      /\ a[k + 1] = v
  <2>1. PICK S : S = IdsUpTo(v)
    OBVIOUS
  <2>2. i \in Seq(S) /\ v \in S
    BY <1>8, <2>1
  <2>3. a \in Seq(S) /\ DOMAIN a = 1..(k + 1) /\ (\A j \in 1..k : a[j] = i[j]) /\ a[k + 1] = v
    BY <1>3, <1>7, <2>2, LongerFacts
  <2> QED
    BY <2>1, <2>3
<1>10. ASSUME NEW j \in 1..(k + 1), NEW l \in 1..(k + 1), j # l PROVE a[j] # a[l]
  <2>1. CASE j \in 1..k /\ l \in 1..k
    <3>1. i[j] # i[l]
      BY <1>2, <1>7, <1>10, <2>1
    <3> QED
      BY <1>9, <2>1, <3>1
  <2>2. CASE j = k + 1 /\ l \in 1..k
    BY <1>6, <1>8, <1>9, <2>2
  <2>3. CASE l = k + 1 /\ j \in 1..k
    BY <1>6, <1>8, <1>9, <2>3
  <2>4. (j \in 1..k \/ j = k + 1) /\ (l \in 1..k \/ l = k + 1)
    BY <1>7
  <2> QED
    BY <1>10, <2>1, <2>2, <2>3, <2>4
<1>11. Ids(t) = {a[j] : j \in DOMAIN a \ f}
  <2>1. DOMAIN a \ f = (1..k \ f) \cup {k + 1}
    BY <1>2, <1>7, <1>9
  <2>2. ASSUME NEW y \in Ids(t) PROVE \E j \in DOMAIN a \ f : y = a[j]
    <3>1. CASE y \in Ids(s)
      <4>1. PICK j \in 1..k \ f : y = i[j]
        BY <1>2, <1>7, <3>1
      <4> QED
        BY <1>9, <2>1, <4>1
    <3>2. CASE y = v
      BY <1>9, <2>1, <3>2
    <3> QED
      BY <3>1, <3>2
  <2>3. ASSUME NEW j \in DOMAIN a \ f PROVE a[j] \in Ids(t)
    <3>1. CASE j \in 1..k
      <4>1. i[j] \in Ids(s)
        BY <1>2, <1>7, <3>1
      <4> QED
        BY <1>9, <3>1, <4>1
    <3>2. CASE j = k + 1
      BY <1>9, <3>2
    <3> QED
      BY <2>1, <3>1, <3>2
  <2>4. \A y : y \in {a[j] : j \in DOMAIN a \ f} <=> \E j \in DOMAIN a \ f : y = a[j]
    BY Zenon
  <2> QED
    BY <2>2, <2>3, <2>4, Zenon
<1>12. f \subseteq DOMAIN a
  BY <1>2, <1>7, <1>9
<1>13. \A j, l \in DOMAIN a : j # l => a[j] # a[l]
  BY <1>9, <1>10
<1>14. x = [open |-> x.open, items |-> x.items, freed |-> x.freed]
  BY <1>4, <1>5, Zenon
<1>15. x.items \in Seq(IdsUpTo(v)) /\ x.freed \subseteq DOMAIN x.items
  BY <1>5, <1>9, <1>12, Zenon
<1>16. \A j, l \in DOMAIN x.items : j # l => x.items[j] # x.items[l]
  BY <1>5, <1>13
<1>17. Ids(t) = {x.items[j] : j \in DOMAIN x.items \ x.freed}
  BY <1>5, <1>11, Zenon
<1> QED
  BY <1>14, <1>15, <1>16, <1>17, Zenon DEF ItemsOK

\* What the dialog's steps start from.
LEMMA InDialog ==
  ASSUME SettingsInv, DialogStep
  PROVE  /\ HeldOK(mem, ids, uuids) /\ ItemsOK(dialog, mem.conns, ids) /\ run = "on" /\ dialog.open
         /\ ids \in Nat /\ uuids \in Nat /\ ids >= 2 /\ uuids >= 200
         /\ mem.conns \in Seq(InMemory) /\ Apart(mem.conns) /\ Given(mem.conns, mem.imported, ids, uuids)
         /\ Ids(mem.conns) = {dialog.items[i] : i \in DOMAIN dialog.items \ dialog.freed}
BY DEF SettingsInv, DialogStep, MemoryOK, HeldOK, DialogOK, ItemsOK, CountersOK

\* A connection of the next id, and of the next uuid or none, may be added.
LEMMA FreshConn ==
  ASSUME NEW n \in Nat, NEW u \in Nat, n >= 2, u >= 200, n < MaxConns,
         NEW s, NEW b, Given(s, b, n, u),
         NEW c, c.id = n + 1, c.uuid = 0 \/ c.uuid = u + 1
  PROVE  /\ NewTo(s, c) /\ Given(s, b, n + 1, u + 1) /\ Fits(c, n + 1, u + 1)
         /\ c.uuid = 0 => Given(s, b, n + 1, u) /\ Fits(c, n + 1, u)
<1>1. PICK k \in Nat, w \in Nat : k = n + 1 /\ w = u + 1
  OBVIOUS
<1>2. Given(s, b, k, w) /\ Given(s, b, k, u)
  BY <1>1, Later
<1>3. k \in IdsUpTo(k) /\ k \notin IdsUpTo(n)
  BY <1>1, IdsFacts
<1>4. Fits(c, k, w)
  BY <1>1, <1>3 DEF Fits
<1>5. ASSUME NEW i \in DOMAIN s PROVE s[i].id # c.id /\ (c.uuid # 0 => s[i].uuid # c.uuid)
  <2>1. s[i].id \in IdsUpTo(n) /\ s[i].uuid \in 0..u
    BY DEF Given
  <2> QED
    BY <1>1, <1>3, <2>1
<1>6. NewTo(s, c)
  BY <1>5 DEF NewTo
<1>7. c.uuid = 0 => Fits(c, k, u)
  BY <1>1, <1>3 DEF Fits
<1> QED
  BY <1>1, <1>2, <1>4, <1>6, <1>7

\* A connection is added, or a copy of one.
LEMMA AddingKeepsInv ==
  ASSUME SettingsInv, DialogStep, run' = run, ids < MaxConns, ids' = ids + 1, uuids' \in {uuids, uuids + 1},
         NEW c \in InMemory, c.id = ids + 1, c.uuid = 0 \/ (c.uuid = uuids + 1 /\ uuids' = uuids + 1),
         NEW t, IsLonger(t, mem.conns, c), HasConns(mem', mem, t),
         NEW k, k = ids + 1, NEW l, IsLonger(l, dialog.items, k), HasItems(dialog', dialog, l)
  PROVE  SettingsInv'
<1>1. /\ HeldOK(mem, ids, uuids) /\ ItemsOK(dialog, mem.conns, ids) /\ dialog.open
      /\ ids \in Nat /\ uuids \in Nat /\ ids >= 2 /\ uuids >= 200
      /\ mem.conns \in Seq(InMemory) /\ Apart(mem.conns) /\ Given(mem.conns, mem.imported, ids, uuids)
  BY InDialog
<1>2. PICK n, u, w, s, b : n = ids /\ u = uuids /\ w = uuids' /\ s = mem.conns /\ b = mem.imported
  OBVIOUS
<1>3. /\ n \in Nat /\ u \in Nat /\ n >= 2 /\ u >= 200 /\ n < MaxConns /\ (w = u \/ w = u + 1)
      /\ c.id = n + 1 /\ (c.uuid = 0 \/ (c.uuid = u + 1 /\ w = u + 1)) /\ k = n + 1 /\ k = ids'
  BY <1>1, <1>2
<1>4. s \in Seq(InMemory) /\ Apart(s) /\ Given(s, b, n, u) /\ IsLonger(t, s, c)
  BY <1>1, <1>2
<1>5. t \in Seq(InMemory) /\ Apart(t) /\ Given(t, b, k, w) /\ Ids(t) = Ids(s) \cup {k}
  <2>1. NewTo(s, c) /\ Given(s, b, n + 1, w) /\ Fits(c, n + 1, w)
    BY <1>3, <1>4, FreshConn
  <2>2. Given(s, b, k, w) /\ Fits(c, k, w)
    BY <1>3, <2>1
  <2>3. /\ t \in Seq(InMemory) /\ Apart(t) /\ Ids(t) = Ids(s) \cup {c.id}
        /\ \A bb, nn, uu : Given(s, bb, nn, uu) /\ Fits(c, nn, uu) => Given(t, bb, nn, uu)
    BY <1>4, <2>1, AddedConn
  <2>4. Given(t, b, k, w)
    BY <2>2, <2>3, Zenon
  <2>5. c.id = k
    BY <1>3
  <2> QED
    BY <2>3, <2>4, <2>5
<1>6. HeldOK(mem', k, w) /\ mem'.conns = t
  <2>1. HeldOK(mem, n, u) /\ Given(t, mem.imported, k, w)
    BY <1>1, <1>2, <1>5
  <2> QED
    BY <1>5, <2>1, HeldList
<1>7. ItemsOK(dialog', t, k)
  <2>1. ItemsOK(dialog, s, n)
    BY <1>1, <1>2
  <2> QED
    BY <1>1, <1>3, <1>5, <2>1, ItemAdded
<1>8. HeldOK(mem', ids', uuids') /\ ItemsOK(dialog', mem'.conns, ids')
  BY <1>2, <1>3, <1>6, <1>7
<1> QED
  BY <1>1, <1>3, <1>8, DialogStepKeepsInv

LEMMA AddKeepsInv == ASSUME SettingsInv, Add PROVE SettingsInv'
<1>1. /\ DialogStep /\ ids < MaxConns /\ ids' = ids + 1 /\ UNCHANGED <<run, uuids>>
      /\ \E pw \in BOOLEAN : mem' = [mem EXCEPT !.conns = Append(@, Conn(ids', 0, pw))]
      /\ dialog' = [dialog EXCEPT !.items = Append(@, ids')]
  BY DEF Add
<1>2. PICK pw \in BOOLEAN : mem' = [mem EXCEPT !.conns = Append(@, Conn(ids + 1, 0, pw))]
  BY <1>1
<1>3. PICK c : c = Conn(ids + 1, 0, pw)
  OBVIOUS
<1>4. ids + 1 \in Nat /\ 0 \in Nat
  BY <1>1, InDialog
<1>5. c \in InMemory /\ c.id = ids + 1 /\ c.uuid = 0
  BY <1>3, <1>4, ConnOf
<1>6. PICK t, k, l : t = Append(mem.conns, c) /\ k = ids + 1 /\ l = Append(dialog.items, k)
  OBVIOUS
<1>10. IsLonger(t, mem.conns, c) /\ IsLonger(l, dialog.items, k) /\ k = ids + 1
  BY <1>6 DEF IsLonger
<1>7. HasConns(mem', mem, t) /\ HasItems(dialog', dialog, l)
  BY <1>1, <1>2, <1>3, <1>6, Zenon DEF HasConns, HasItems
<1>8. DialogStep /\ ids < MaxConns /\ ids' = ids + 1 /\ run' = run /\ uuids' = uuids
  BY <1>1
<1> QED
  BY <1>5, <1>7, <1>8, <1>10, AddingKeepsInv

LEMMA CloneKeepsInv == ASSUME SettingsInv, Clone PROVE SettingsInv'
<1>1. /\ DialogStep /\ ids < MaxConns /\ ids' = ids + 1 /\ uuids' = uuids + 1 /\ run' = run
      /\ \E i \in DOMAIN mem.conns :
           mem' = [mem EXCEPT !.conns = Append(@, [mem.conns[i] EXCEPT !.id = ids', !.uuid = uuids'])]
      /\ dialog' = [dialog EXCEPT !.items = Append(@, ids')]
  BY DEF Clone
<1>2. PICK i \in DOMAIN mem.conns :
        mem' = [mem EXCEPT !.conns = Append(@, [mem.conns[i] EXCEPT !.id = ids + 1, !.uuid = uuids + 1])]
  BY <1>1
<1>3. PICK c : c = [mem.conns[i] EXCEPT !.id = ids + 1, !.uuid = uuids + 1]
  OBVIOUS
<1>4. mem.conns \in Seq(InMemory) /\ ids \in Nat /\ uuids \in Nat
  BY <1>1, InDialog
<1>5. PICK e \in InMemory : e = mem.conns[i]
  BY <1>4, ElementOfSeq, LenProperties
<1>6. c \in InMemory /\ c.id = ids + 1 /\ c.uuid = uuids + 1
  <2>1. PICK p : p = e.pw
    OBVIOUS
  <2>2. p \in BOOLEAN
    BY <2>1, ConnFields
  <2>3. e = [id |-> e.id, uuid |-> e.uuid, pw |-> p]
    BY <2>1 DEF InMemory
  <2>7. PICK d : d = [e EXCEPT !.id = ids + 1]
    OBVIOUS
  <2>8. d = [id |-> ids + 1, uuid |-> e.uuid, pw |-> p]
    BY <2>3, <2>7
  <2>9. c = [d EXCEPT !.uuid = uuids + 1]
    BY <1>3, <1>5, <2>7
  <2>4. c = [id |-> ids + 1, uuid |-> uuids + 1, pw |-> p]
    BY <2>8, <2>9
  <2>5. c = Conn(ids + 1, uuids + 1, p)
    BY <2>4 DEF Conn
  <2>6. ids + 1 \in Nat /\ uuids + 1 \in Nat
    BY <1>4
  <2> QED
    BY <2>2, <2>5, <2>6, ConnOf
<1>7. PICK t, k, l : t = Append(mem.conns, c) /\ k = ids + 1 /\ l = Append(dialog.items, k)
  OBVIOUS
<1>10. IsLonger(t, mem.conns, c) /\ IsLonger(l, dialog.items, k) /\ k = ids + 1
  BY <1>7 DEF IsLonger
<1>8. HasConns(mem', mem, t) /\ HasItems(dialog', dialog, l)
  BY <1>1, <1>2, <1>3, <1>7, Zenon DEF HasConns, HasItems
<1>9. DialogStep /\ ids < MaxConns /\ ids' = ids + 1 /\ uuids' = uuids + 1 /\ run' = run
  BY <1>1
<1> QED
  BY <1>6, <1>8, <1>9, <1>10, AddingKeepsInv

\* A list of the same ids, with the items as they are.
LEMMA SameIdsKeepInv ==
  ASSUME SettingsInv, DialogStep, UNCHANGED <<run, dialog, ids, uuids>>,
         NEW t \in Seq(InMemory), Apart(t), Given(t, mem.imported, ids, uuids), Ids(t) = Ids(mem.conns),
         HasConns(mem', mem, t)
  PROVE  SettingsInv'
<1>1. HeldOK(mem, ids, uuids) /\ ItemsOK(dialog, mem.conns, ids) /\ ids \in Nat /\ uuids \in Nat
  BY InDialog
<1>2. HeldOK(mem', ids, uuids) /\ mem'.conns = t
  BY <1>1, HeldList
<1>3. ItemsOK(dialog, t, ids)
  BY <1>1, Zenon DEF ItemsOK
<1> QED
  BY <1>1, <1>2, <1>3, DialogStepKeepsInv

LEMMA EditKeepsInv == ASSUME SettingsInv, Edit PROVE SettingsInv'
<1>1. /\ DialogStep /\ UNCHANGED <<run, dialog, ids, uuids>>
      /\ \E i \in DOMAIN mem.conns : mem' = [mem EXCEPT !.conns[i].pw = TRUE]
  BY DEF Edit
<1>2. PICK s : s = mem.conns
  OBVIOUS
<1>3. PICK i \in DOMAIN s : mem' = [mem EXCEPT !.conns[i].pw = TRUE]
  BY <1>1, <1>2
<1>8. PICK c : c = [s[i] EXCEPT !.pw = TRUE]
  OBVIOUS
<1>4. PICK t : t = [s EXCEPT ![i] = c]
  OBVIOUS
<1>5. s \in Seq(InMemory) /\ Apart(s) /\ Given(s, mem.imported, ids, uuids)
  BY <1>1, <1>2, InDialog
<1>6. t \in Seq(InMemory) /\ Apart(t) /\ Ids(t) = Ids(s) /\ Given(t, mem.imported, ids, uuids)
  <2>1. t \in Seq(InMemory) /\ DOMAIN t = DOMAIN s
        /\ \A j \in DOMAIN s : t[j].id = s[j].id /\ t[j].uuid = s[j].uuid
    <3>1. t \in Seq(InMemory)
      BY <1>4, <1>5, <1>8, PasswordGiven
    <3>2. DOMAIN t = DOMAIN s
      BY <1>4, <1>5, <1>8, PasswordGiven
    <3>3. \A j \in DOMAIN s : t[j].id = s[j].id /\ t[j].uuid = s[j].uuid
      BY <1>4, <1>5, <1>8, PasswordGiven
    <3> QED
      BY <3>1, <3>2, <3>3
  <2> QED
    BY <1>5, <2>1, SameNames
<1>7. HasConns(mem', mem, t)
  BY <1>2, <1>3, <1>4, <1>8 DEF HasConns
<1> QED
  BY <1>1, <1>2, <1>6, <1>7, SameIdsKeepInv

LEMMA ReorderKeepsInv == ASSUME SettingsInv, Reorder PROVE SettingsInv'
<1>1. /\ DialogStep /\ UNCHANGED <<run, dialog, ids, uuids>>
      /\ \E i \in DOMAIN mem.conns : i > 1 /\
           mem' = [mem EXCEPT !.conns = InsertAt(RemoveAt(@, i), 1, @[i])]
  BY DEF Reorder
<1>2. PICK s : s = mem.conns
  OBVIOUS
<1>3. PICK i \in DOMAIN s : mem' = [mem EXCEPT !.conns = InsertAt(RemoveAt(s, i), 1, s[i])]
  BY <1>1, <1>2
<1>4. PICK t : t = InsertAt(RemoveAt(s, i), 1, s[i])
  OBVIOUS
<1>5. s \in Seq(InMemory) /\ Apart(s) /\ Given(s, mem.imported, ids, uuids)
  BY <1>1, <1>2, InDialog
<1>6. t \in Seq(InMemory) /\ Apart(t) /\ Ids(t) = Ids(s) /\ Given(t, mem.imported, ids, uuids)
  BY <1>4, <1>5, MovedConn
<1>7. HasConns(mem', mem, t)
  BY <1>3, <1>4 DEF HasConns
<1> QED
  BY <1>1, <1>2, <1>6, <1>7, SameIdsKeepInv

LEMMA RemoveConnKeepsInv == ASSUME SettingsInv, RemoveConn PROVE SettingsInv'
<1>1. /\ DialogStep /\ UNCHANGED <<run, ids, uuids>>
      /\ \E i \in DOMAIN mem.conns, n \in DOMAIN dialog.items :
           /\ dialog.items[n] = mem.conns[i].id /\ n \notin dialog.freed
           /\ mem' = [mem EXCEPT !.conns = RemoveAt(@, i)]
           /\ dialog' = [dialog EXCEPT !.freed = @ \union {n}]
  BY DEF RemoveConn
<1>2. PICK s, l, f : s = mem.conns /\ l = dialog.items /\ f = dialog.freed
  OBVIOUS
<1>3. PICK i \in DOMAIN s, n \in DOMAIN l :
        /\ l[n] = s[i].id /\ n \notin f
        /\ mem' = [mem EXCEPT !.conns = RemoveAt(s, i)]
        /\ dialog' = [dialog EXCEPT !.freed = f \union {n}]
  BY <1>1, <1>2
<1>4. /\ s \in Seq(InMemory) /\ Apart(s) /\ Given(s, mem.imported, ids, uuids) /\ ids \in Nat /\ uuids \in Nat
      /\ HeldOK(mem, ids, uuids) /\ Ids(s) = {l[j] : j \in DOMAIN l \ f}
  BY <1>1, <1>2, InDialog
<1>5. PICK t : t = RemoveAt(s, i)
  OBVIOUS
<1>6. t \in Seq(InMemory) /\ Apart(t) /\ Ids(t) = Ids(s) \ {s[i].id} /\ Given(t, mem.imported, ids, uuids)
  BY <1>4, <1>5, RemovedConn
<1>7. HasConns(mem', mem, t)
  BY <1>3, <1>5 DEF HasConns
<1>8. HeldOK(mem', ids, uuids) /\ mem'.conns = t
  BY <1>4, <1>6, <1>7, HeldList
<1>9. PICK o : o = dialog.open
  OBVIOUS
<1>10. /\ dialog = [open |-> o, items |-> l, freed |-> f]
       /\ l \in Seq(IdsUpTo(ids)) /\ f \subseteq DOMAIN l
       /\ \A j, k \in DOMAIN l : j # k => l[j] # l[k]
  BY <1>1, <1>2, <1>9, InDialog DEF ItemsOK
<1>11. PICK x : x = dialog'
  OBVIOUS
<1>12. x = [open |-> o, items |-> l, freed |-> f \cup {n}]
  BY <1>3, <1>10, <1>11
<1>13. x.open = o /\ x.items = l /\ x.freed = f \cup {n}
  BY <1>12
<1>14. Ids(t) = {l[j] : j \in DOMAIN l \ (f \cup {n})}
  <2>1. \A j \in DOMAIN l : j # n => l[j] # s[i].id
    BY <1>3, <1>10
  <2> QED
    BY <1>3, <1>4, <1>6, <2>1
<1>15. f \cup {n} \subseteq DOMAIN l
  BY <1>10
<1>16. ItemsOK(x, t, ids)
  BY <1>10, <1>12, <1>13, <1>14, <1>15, Zenon DEF ItemsOK
<1> QED
  BY <1>1, <1>4, <1>8, <1>11, <1>16, DialogStepKeepsInv

\* So does a newer build that writes the file between two starts.
LEMMA NewerBuildKeepsInv == ASSUME SettingsInv, NewerBuild PROVE SettingsInv'
<1>1. PICK c, t, e : c = Conn(ids + 1, uuids + 1, keyFile) /\ t = Append(file.conns, c) /\ e = file.eula \cup {CurrentEula}
  OBVIOUS
<1>2. /\ run = "off" /\ file.is = "config" /\ ids < MaxConns /\ keyFile # 0
      /\ ids' = ids + 1 /\ uuids' = uuids + 1
      /\ file' = Config(4, t, file.imported, e)
      /\ safe' = {[id |-> d.id, pw |-> d.pw = keyFile] : d \in Range(file'.conns)}
      /\ lost' = FALSE /\ accepted' = TRUE
      /\ UNCHANGED <<bak, keyFile, dirs, robo, oldKey, run, mem, key, dialog, starts, firstNewer>>
  <2>1. file' = Config(4, t, file.imported, e)
    BY <1>1, Zenon DEF NewerBuild
  <2> QED
    BY <2>1, Zenon DEF NewerBuild, world
<1>3. /\ CountersOK /\ FilesOK /\ MemoryOK /\ DialogOK
      /\ ids \in Nat /\ uuids \in Nat /\ ids >= 2 /\ uuids >= 200 /\ keyFile \in Keys /\ MaxConns \in Nat
  BY BoundsAssumption DEF SettingsInv, CountersOK
<1>4. WellFormed(file, ids, uuids)
  <2>1. NoFile.is # "config" /\ Torn.is # "config"
    BY DEF NoFile, Torn
  <2> QED
    BY <1>2, <1>3, <2>1, Zenon DEF FilesOK
<1>5. PICK s, b : s = file.conns /\ b = file.imported
  OBVIOUS
<1>6. s \in Seq(OnDisk) /\ Apart(s) /\ Given(s, b, ids, uuids) /\ b \in BOOLEAN /\ e \subseteq {"old", CurrentEula}
  BY <1>1, <1>4, <1>5, SavedFields DEF WellFormed
<1>7. c.id = ids + 1 /\ c.uuid = uuids + 1 /\ c.pw = keyFile /\ c \in OnDisk
  <2>1. ids + 1 \in Nat /\ uuids + 1 \in Nat
    BY <1>3
  <2> QED
    BY <1>1, <1>3, <2>1, ConnOf
<1>8. NewTo(s, c) /\ Given(s, b, ids + 1, uuids + 1) /\ Fits(c, ids + 1, uuids + 1)
  BY <1>2, <1>3, <1>6, <1>7, FreshConn
<1>9. IsLonger(t, s, c)
  BY <1>1, <1>5 DEF IsLonger
<1>10. /\ t \in Seq(OnDisk) /\ Apart(t) /\ Range(t) = Range(s) \cup {c}
       /\ \A bb, nn, uu : Given(s, bb, nn, uu) /\ Fits(c, nn, uu) => Given(t, bb, nn, uu)
  BY <1>6, <1>7, <1>8, <1>9, AddedConn
<1>11. Given(t, b, ids', uuids')
  BY <1>2, <1>8, <1>10, Zenon
<1>12. PICK f : f = file'
  OBVIOUS
<1>13. f = [is |-> "config", schema |-> 4, conns |-> t, imported |-> b, eula |-> e]
  BY <1>2, <1>5, <1>12, Zenon DEF Config
<1>14. f.is = "config" /\ f.schema = 4 /\ f.conns = t /\ f.imported = b /\ f.eula = e
  BY <1>13
<1>15. WellFormed(f, ids', uuids')
  <2>1. f \in Saved
    BY <1>6, <1>10, <1>13 DEF Saved
  <2> QED
    BY <1>10, <1>11, <1>14, <2>1, Zenon DEF WellFormed
<1>16. ids' \in Nat /\ uuids' \in Nat /\ ids' >= ids /\ uuids' >= uuids
  BY <1>2, <1>3
<1>17. FilesOK'
  BY <1>2, <1>3, <1>12, <1>15, <1>16, FilesLater
<1>18. CountersOK'
  BY <1>2, <1>3 DEF CountersOK
<1>19. PICK n, u : n = ids' /\ u = uuids'
  OBVIOUS
<1>20. HeldOK(mem, n, u) /\ ItemsOK(dialog, mem.conns, n)
  <2>1. n \in Nat /\ u \in Nat /\ n >= ids /\ u >= uuids
    BY <1>16, <1>19
  <2> QED
    BY <1>3, <2>1, Later DEF MemoryOK, DialogOK
<1>21. MemoryOK' /\ DialogOK' /\ AskedOnce'
  BY <1>2, <1>3, <1>19, <1>20 DEF MemoryOK, DialogOK, AskedOnce
<1>22. SourceIsSafe'
  <2>1. Source' = f
    BY <1>12, <1>14, Zenon DEF Source
  <2>2. Accepted(f)
    <3>1. ~(f.schema < 3) /\ CurrentEula \in f.eula
      BY <1>1, <1>14
    <3> QED
      BY <3>1, Zenon DEF Accepted
  <2>3. NextKey' = keyFile
    BY <1>2 DEF NextKey
  <2>4. ASSUME NEW x \in safe'
        PROVE  \E d \in Range(f.conns) : d.id = x.id /\ (x.pw => d.pw = keyFile /\ d.pw # 0)
    <3>1. PICK d \in Range(f.conns) : x = [id |-> d.id, pw |-> d.pw = keyFile]
      BY <1>2, <1>12
    <3>2. PICK a, q : a = d.id /\ q = (d.pw = keyFile)
      OBVIOUS
    <3>3. x = [id |-> a, pw |-> q]
      BY <3>1, <3>2, Zenon
    <3>4. x.id = a /\ x.pw = q
      BY <3>3
    <3> QED
      BY <1>2, <3>2, <3>4, Zenon
  <2>5. \A d \in Range(f.conns) : d \in Found(f)'
    BY DEF Found
  <2> QED
    BY <1>12, <1>14, <2>1, <2>2, <2>3, <2>4, <2>5, Zenon DEF SourceIsSafe
<1> QED
  BY <1>17, <1>18, <1>21, <1>22 DEF SettingsInv

\* The configuration that a start reads: this program's, else that of the newest version,
\* else a new one.
KeyNow == InitKey.key
KeyToWrite == InitKey.write

LEMMA KeyFacts ==
  ASSUME CountersOK, starts < MaxStarts
  PROVE  /\ KeyNow \in Keys /\ KeyNow # 0 /\ KeyToWrite \in Keys
         /\ NextKey # 0 => KeyNow = NextKey
         /\ KeyToWrite # 0 => keyFile = 0 /\ KeyToWrite = KeyNow
         /\ KeyToWrite # 0 /\ NextKey # 0 => KeyToWrite = NextKey
<1>1. /\ MaxStarts \in Nat /\ starts \in Nat /\ starts < MaxStarts /\ keyFile \in Keys /\ oldKey \in {0, 1}
      /\ 0 \in Keys
  BY BoundsAssumption DEF CountersOK, Keys
<1>2. 1 \in Keys /\ 2 + starts \in Keys /\ 2 + starts # 0
  BY <1>1 DEF Keys
<1>3. CASE keyFile # 0
  <2>1. InitKey = [key |-> keyFile, write |-> 0]
    BY <1>3 DEF InitKey
  <2> QED
    BY <1>1, <1>3, <2>1 DEF KeyNow, KeyToWrite, NextKey
<1>4. CASE keyFile = 0 /\ oldKey # 0
  <2>1. InitKey = [key |-> oldKey, write |-> oldKey]
    BY <1>4 DEF InitKey
  <2> QED
    BY <1>1, <1>2, <1>4, <2>1 DEF KeyNow, KeyToWrite, NextKey
<1>5. CASE keyFile = 0 /\ oldKey = 0
  <2>1. InitKey = [key |-> 2 + starts, write |-> 2 + starts]
    BY <1>5 DEF InitKey
  <2> QED
    BY <1>1, <1>2, <1>5, <2>1 DEF KeyNow, KeyToWrite, NextKey
<1> QED
  BY <1>3, <1>4, <1>5

\* The newest version directory, where there is one.
LEMMA NewestFacts ==
  ASSUME FilesOK
  PROVE  /\ DOMAIN dirs = {} => NewestDir = 0
         /\ DOMAIN dirs # {} => NewestDir # 0 /\ NewestDir \in DOMAIN dirs /\ \A v \in DOMAIN dirs : v <= NewestDir
<1>1. DOMAIN dirs \subseteq 3..199
  BY DirOrderAssumption, RangeOfSeq DEF FilesOK
<1>2. ASSUME DOMAIN dirs # {}
      PROVE  NewestDir # 0 /\ NewestDir \in DOMAIN dirs /\ \A v \in DOMAIN dirs : v <= NewestDir
  <2>1. PICK T : T = DOMAIN dirs
    OBVIOUS
  <2>2. T \subseteq 0..199 /\ T # {} /\ 199 \in Nat
    BY <1>1, <1>2, <2>1
  <2>3. Max(T) \in T /\ \A m \in T : Max(T) >= m
    BY <2>2, MaxOfSet
  <2>4. NewestDir = Max(T)
    BY <1>2, <2>1 DEF NewestDir
  <2> QED
    BY <1>1, <2>1, <2>3, <2>4
<1> QED
  BY <1>2 DEF NewestDir

\* A configuration is one, and what is not has not its mark.
LEMMA Marks ==
  ASSUME NEW n, NEW u
  PROVE  /\ NoFile.is = "none" /\ Torn.is = "torn"
         /\ \A c : WellFormed(c, n, u) => c.is = "config" /\ c \in Saved
BY DEF NoFile, Torn, WellFormed, Saved

\* A first configuration has no connection.
LEMMA FirstConfig ==
  ASSUME NEW k \in Keys
  PROVE  ConvertToMap(Defaults, k) = Config(CurrentConfigSchema, <<>>, FALSE, {})
<1>1. Defaults.conns = <<>> /\ Defaults.imported = FALSE /\ Defaults.eula = {}
  BY DEF Defaults
<1>2. PICK s : s = <<>>
  OBVIOUS
<1>3. s \in Seq(InMemory) /\ DOMAIN s = {}
  BY <1>2
<1>4. PICK w : w = ToVariant(s, k)
  OBVIOUS
<1>5. w \in Seq(OnDisk) /\ DOMAIN w = {}
  BY <1>3, <1>4, Written
<1>6. w = <<>>
  BY <1>5, EmptySeq, LenProperties
<1> QED
  BY <1>1, <1>2, <1>4, <1>6, Zenon DEF ConvertToMap

\* What a start does: it reads a configuration, or it could write none.
Loads(g) ==
  /\ WellFormed(g, ids, uuids) /\ file' = g /\ mem' = LoadFromMap(g, KeyNow, uuids)
  /\ uuids' = uuids + Cardinality(Empties(g.conns))
  /\ ~lost' => ~lost /\ g = Source
Fails == file' \in {NoFile, Torn} /\ mem' = Defaults /\ uuids' = uuids /\ lost'

LEMMA StartFacts ==
  ASSUME SettingsInv, Start
  PROVE  /\ run = "off" /\ starts < MaxStarts /\ starts' = starts + 1 /\ key' = KeyNow
         /\ keyFile' = keyFile \/ (KeyToWrite # 0 /\ keyFile' = KeyToWrite)
         /\ bak' = firstNewer' /\ (bak' = NoFile \/ bak' \in Saved)
         /\ run' = IF CurrentEula \in mem'.eula THEN "on" ELSE "eula"
         /\ UNCHANGED <<dirs, robo, oldKey, dialog, ids, newer, safe, accepted>>
         /\ (\E g : Loads(g)) \/ Fails
<1>1. /\ run = "off" /\ starts < MaxStarts /\ starts' = starts + 1
      /\ run' = IF CurrentEula \in mem'.eula THEN "on" ELSE "eula"
      /\ UNCHANGED <<dirs, robo, oldKey, dialog, ids, newer, safe, accepted>>
  BY Zenon DEF Start, world
<1>20. PICK bad :
         LET copies == file.is = "none" /\ NewestDir # 0
             f == IF copies /\ bad # "copy" THEN dirs[NewestDir] ELSE file
             g == IF f.is = "config" THEN f
                  ELSE IF bad = "save" THEN NoFile ELSE ConvertToMap(Defaults, KeyNow)
             fresh == IF g.is = "config" THEN Cardinality(Empties(g.conns)) ELSE 0
         IN /\ key' = KeyNow
            /\ keyFile' = IF KeyToWrite # 0 /\ bad # "key" THEN KeyToWrite ELSE keyFile
            /\ file' = IF g.is = "config" THEN g ELSE f
            /\ bak' = IF f.is = "config" THEN GuardDowngrade(f, bad # "backup") ELSE bak
            /\ mem' = IF g.is = "config" THEN LoadFromMap(g, KeyNow, uuids) ELSE Defaults
            /\ uuids' = uuids + fresh
            /\ lost' = (lost \/ (copies /\ bad = "copy") \/ g.is # "config")
            /\ firstNewer' = IF /\ f.is = "config" /\ f.schema > CurrentConfigSchema
                                /\ firstNewer.is = "none" /\ bad # "backup"
                             THEN f ELSE firstNewer
  BY Zenon DEF Start, KeyNow, KeyToWrite
<1>21. PICK copies, f, g, fresh :
        /\ copies = (file.is = "none" /\ NewestDir # 0)
        /\ f = IF copies /\ bad # "copy" THEN dirs[NewestDir] ELSE file
        /\ g = IF f.is = "config" THEN f
               ELSE IF bad = "save" THEN NoFile ELSE ConvertToMap(Defaults, KeyNow)
        /\ fresh = IF g.is = "config" THEN Cardinality(Empties(g.conns)) ELSE 0
  BY Zenon
<1>2. /\ copies = (file.is = "none" /\ NewestDir # 0)
      /\ f = IF copies /\ bad # "copy" THEN dirs[NewestDir] ELSE file
      /\ g = IF f.is = "config" THEN f
         ELSE IF bad = "save" THEN NoFile ELSE ConvertToMap(Defaults, KeyNow)
      /\ fresh = IF g.is = "config" THEN Cardinality(Empties(g.conns)) ELSE 0
      /\ key' = KeyNow
      /\ keyFile' = IF KeyToWrite # 0 /\ bad # "key" THEN KeyToWrite ELSE keyFile
      /\ file' = IF g.is = "config" THEN g ELSE f
      /\ bak' = IF f.is = "config" THEN GuardDowngrade(f, bad # "backup") ELSE bak
      /\ mem' = IF g.is = "config" THEN LoadFromMap(g, KeyNow, uuids) ELSE Defaults
      /\ uuids' = uuids + fresh
      /\ lost' = (lost \/ (copies /\ bad = "copy") \/ g.is # "config")
      /\ firstNewer' = IF /\ f.is = "config" /\ f.schema > CurrentConfigSchema
                          /\ firstNewer.is = "none" /\ bad # "backup"
         THEN f ELSE firstNewer
  BY <1>20, <1>21, Zenon
<1>3. CountersOK /\ FilesOK /\ SourceIsSafe /\ KeyNow \in Keys /\ ids \in Nat /\ uuids \in Nat
  BY <1>1, KeyFacts DEF SettingsInv, CountersOK
<1>4. keyFile' = keyFile \/ (KeyToWrite # 0 /\ keyFile' = KeyToWrite)
  BY <1>2, Zenon
<1>5. f \in {NoFile, Torn} \/ WellFormed(f, ids, uuids)
  BY <1>2, <1>3, NewestFacts, Zenon DEF FilesOK
<1>6. WellFormed(f, ids, uuids) <=> f.is = "config"
  BY <1>5, Marks
<1>7. bak' = firstNewer' /\ (bak' = NoFile \/ bak' \in Saved)
  <2>1. bak = firstNewer /\ (bak = NoFile \/ bak \in Saved)
    BY <1>3 DEF FilesOK
  <2>2. CASE f.is = "config"
    <3>1. f \in Saved
      BY <1>6, <2>2, Marks
    <3> QED
      BY <1>2, <2>1, <2>2, <3>1, Zenon DEF GuardDowngrade
  <2>3. CASE f.is # "config"
    BY <1>2, <2>1, <2>3, Zenon
  <2> QED
    BY <2>2, <2>3
<1>8. CASE g.is = "config"
  <2>1. WellFormed(g, ids, uuids)
    <3>1. CASE f.is = "config"
      BY <1>2, <1>6, <3>1, Zenon
    <3>2. CASE f.is # "config"
      <4>1. g = ConvertToMap(Defaults, KeyNow)
        BY <1>2, <1>8, <3>2, Marks, Zenon
      <4>2. HeldOK(Defaults, ids, uuids)
        BY <1>3, NothingHeld
      <4> QED
        BY <1>3, <4>1, <4>2, ConfigMade
    <3> QED
      BY <3>1, <3>2
  <2>2. ASSUME ~lost' PROVE ~lost /\ g = Source
    <3>1. ~lost /\ ~(copies /\ bad = "copy")
      BY <1>2, <2>2, Zenon
    <3>2. file.is # "torn"
      BY <1>3, <3>1, Zenon DEF SourceIsSafe
    <3>3. file = NoFile \/ WellFormed(file, ids, uuids)
      BY <1>3, <3>2, Marks, Zenon DEF FilesOK
    <3>4. CASE file.is = "config"
      BY <1>2, <3>1, <3>4, Zenon DEF Source
    <3>5. CASE file = NoFile /\ DOMAIN dirs # {}
      <4>1. NewestDir # 0 /\ NewestDir \in DOMAIN dirs
        BY <1>3, <3>5, NewestFacts
      <4>2. file.is = "none" /\ file.is # "config"
        BY <3>5, Marks
      <4>3. copies
        BY <1>2, <4>1, <4>2, Zenon
      <4>4. f = dirs[NewestDir]
        BY <1>2, <3>1, <4>3, Zenon
      <4>5. f.is = "config"
        BY <1>3, <4>1, <4>4, Marks DEF FilesOK
      <4>6. g = dirs[NewestDir]
        BY <1>2, <4>4, <4>5, Zenon
      <4>7. Source = dirs[NewestDir]
        BY <3>5, <4>2, Zenon DEF Source
      <4> QED
        BY <3>1, <4>6, <4>7
    <3>6. CASE file = NoFile /\ DOMAIN dirs = {}
      <4>1. file.is = "none" /\ file.is # "config" /\ NewestDir = 0
        BY <1>3, <3>6, Marks, NewestFacts
      <4>2. ~copies
        BY <1>2, <4>1, Zenon
      <4>3. f = file
        BY <1>2, <4>2, Zenon
      <4>4. g = ConvertToMap(Defaults, KeyNow)
        BY <1>2, <1>8, <4>1, <4>3, Marks, Zenon
      <4>5. Source = Config(CurrentConfigSchema, <<>>, FALSE, {})
        BY <3>6, <4>1, Zenon DEF Source
      <4> QED
        BY <1>3, <3>1, <4>4, <4>5, FirstConfig, Zenon
    <3> QED
      BY <3>3, <3>4, <3>5, <3>6, Marks, Zenon
  <2>3. Loads(g)
    BY <1>2, <1>8, <2>1, <2>2, Zenon DEF Loads
  <2> QED
    BY <1>1, <1>2, <1>4, <1>7, <2>3, Zenon
<1>9. CASE g.is # "config"
  <2>1. f.is # "config"
    BY <1>2, <1>9, Zenon
  <2>2. f \in {NoFile, Torn} /\ file' = f
    BY <1>2, <1>5, <1>6, <1>9, <2>1, Zenon
  <2>3. uuids' = uuids
    BY <1>2, <1>3, <1>9
  <2>4. lost' /\ mem' = Defaults
    BY <1>2, <1>9, Zenon
  <2>5. Fails
    BY <2>2, <2>3, <2>4, Zenon DEF Fails
  <2> QED
    BY <1>1, <1>2, <1>4, <1>7, <2>5, Zenon
<1> QED
  BY <1>8, <1>9

\* What memory holds after a start that lost nothing: everything known to be on the disk,
\* with the passwords.
LEMMA StartFinds ==
  ASSUME SettingsInv, Start, ~lost'
  PROVE  /\ \A s \in safe : s.id \in Ids(mem'.conns)
         /\ \A c \in Range(mem'.conns) : [id |-> c.id, pw |-> TRUE] \in safe => c.pw
         /\ accepted => CurrentEula \in mem'.eula
<1>1. PICK g : Loads(g)
  BY StartFacts, Zenon DEF Fails
<1>2. CountersOK /\ FilesOK /\ SourceIsSafe /\ ~lost /\ g = Source /\ starts < MaxStarts
  BY <1>1, StartFacts, Zenon DEF SettingsInv, Loads
<1>3. KeyNow \in Keys /\ (NextKey # 0 => KeyNow = NextKey)
  BY <1>2, KeyFacts
<1>4. PICK m, k, u, v : m = mem' /\ k = KeyNow /\ u = uuids' /\ v = uuids
  OBVIOUS
<1>5. WellFormed(g, ids, uuids) /\ m = LoadFromMap(g, k, uuids) /\ u = uuids + Cardinality(Empties(g.conns))
  BY <1>1, <1>4, Zenon DEF Loads
<1>6. /\ Apart(m.conns)
      /\ \A d \in Found(g) : \E i \in DOMAIN m.conns :
           m.conns[i].id = d.id /\ (d.pw # 0 /\ d.pw = k => m.conns[i].pw)
      /\ Accepted(g) => CurrentEula \in m.eula
  BY <1>2, <1>3, <1>4, <1>5, Loaded3 DEF HeldOK
<1>7. /\ accepted => Accepted(g)
      /\ \A s \in safe : \E d \in Found(g) : d.id = s.id /\ (s.pw => d.pw = NextKey /\ d.pw # 0)
  BY <1>2, Zenon DEF SourceIsSafe
<1>8. ASSUME NEW s \in safe PROVE \E i \in DOMAIN m.conns : m.conns[i].id = s.id /\ (s.pw => m.conns[i].pw)
  <2>1. PICK d \in Found(g) : d.id = s.id /\ (s.pw => d.pw = NextKey /\ d.pw # 0)
    BY <1>7, Zenon
  <2>2. PICK i \in DOMAIN m.conns : m.conns[i].id = d.id /\ (d.pw # 0 /\ d.pw = k => m.conns[i].pw)
    BY <1>6, Zenon
  <2>3. s.pw => d.pw # 0 /\ d.pw = k
    BY <1>3, <1>4, <2>1, Zenon
  <2> QED
    BY <2>1, <2>2, <2>3, Zenon
<1>9. \A s \in safe : s.id \in Ids(m.conns)
  BY <1>8, Zenon DEF Ids
<1>10. ASSUME NEW c \in Range(m.conns), [id |-> c.id, pw |-> TRUE] \in safe PROVE c.pw
  <2>1. PICK j \in DOMAIN m.conns : c = m.conns[j]
    BY DEF Range
  <2>2. PICK a, s : a = c.id /\ s = [id |-> c.id, pw |-> TRUE]
    OBVIOUS
  <2>3. s = [id |-> a, pw |-> TRUE]
    BY <2>2, Zenon
  <2>4. s.id = a /\ s.pw = TRUE
    BY <2>3
  <2>5. s \in safe
    BY <1>10, <2>2, Zenon
  <2>6. PICK i \in DOMAIN m.conns : m.conns[i].id = s.id /\ (s.pw => m.conns[i].pw)
    BY <1>8, <2>5, Zenon
  <2>7. i = j
    BY <1>6, <2>1, <2>2, <2>4, <2>6 DEF Apart
  <2> QED
    BY <2>1, <2>4, <2>6, <2>7, Zenon
<1> QED
  BY <1>4, <1>6, <1>7, <1>9, <1>10, Zenon

\* A start keeps the invariant: what it reads is what was known to be on the disk.
LEMMA StartKeepsInv == ASSUME SettingsInv, Start PROVE SettingsInv'
<1>1. /\ run = "off" /\ starts < MaxStarts /\ starts' = starts + 1 /\ key' = KeyNow
      /\ keyFile' = keyFile \/ (KeyToWrite # 0 /\ keyFile' = KeyToWrite)
      /\ bak' = firstNewer' /\ (bak' = NoFile \/ bak' \in Saved)
      /\ run' = IF CurrentEula \in mem'.eula THEN "on" ELSE "eula"
      /\ UNCHANGED <<dirs, robo, oldKey, dialog, ids, newer, safe, accepted>>
      /\ (\E g : Loads(g)) \/ Fails
  BY StartFacts
<1>2. CountersOK /\ FilesOK /\ MemoryOK /\ DialogOK /\ SourceIsSafe /\ ids \in Nat /\ uuids \in Nat /\ uuids >= 200
  BY DEF SettingsInv, CountersOK
<1>3. /\ KeyNow \in Keys /\ KeyNow # 0 /\ KeyToWrite \in Keys
      /\ KeyToWrite # 0 /\ NextKey # 0 => KeyToWrite = NextKey
  BY <1>1, <1>2, KeyFacts
<1>4. run' \in {"off", "eula", "on"}
  BY <1>1
<1>5. /\ uuids' \in Nat /\ uuids' >= uuids /\ HeldOK(mem', ids, uuids')
      /\ file' \in {NoFile, Torn} \/ WellFormed(file', ids, uuids)
  <2>1. ASSUME NEW g, Loads(g)
        PROVE  /\ uuids' \in Nat /\ uuids' >= uuids /\ HeldOK(mem', ids, uuids')
               /\ WellFormed(file', ids, uuids)
    <3>1. PICK m, k, u : m = mem' /\ k = KeyNow /\ u = uuids'
      OBVIOUS
    <3>2. WellFormed(g, ids, uuids) /\ m = LoadFromMap(g, k, uuids) /\ u = uuids + Cardinality(Empties(g.conns))
          /\ file' = g
      BY <2>1, <3>1, Zenon DEF Loads
    <3>3. u \in Nat /\ u >= uuids /\ HeldOK(m, ids, u)
      BY <1>2, <1>3, <3>1, <3>2, Loaded3
    <3> QED
      BY <3>1, <3>2, <3>3
  <2>2. ASSUME Fails
        PROVE  uuids' \in Nat /\ uuids' >= uuids /\ HeldOK(mem', ids, uuids') /\ file' \in {NoFile, Torn}
    <3>1. file' \in {NoFile, Torn} /\ mem' = Defaults /\ uuids' = uuids
      BY <2>2, Zenon DEF Fails
    <3>2. uuids' \in Nat /\ uuids' >= uuids
      BY <1>2, <3>1
    <3>3. HeldOK(Defaults, ids, uuids)
      BY <1>2, NothingHeld
    <3> QED
      BY <3>1, <3>2, <3>3, Zenon
  <2> QED
    BY <1>1, <2>1, <2>2, Zenon
<1>6. CountersOK'
  <2>1. /\ ids \in Nat /\ ids >= 2 /\ (ids <= MaxConns \/ ids = 2) /\ starts \in 0..MaxStarts
        /\ keyFile \in Keys /\ oldKey \in {0, 1}
    BY <1>2, Zenon DEF CountersOK
  <2>2. starts' \in 0..MaxStarts
    BY <1>1, <2>1, BoundsAssumption
  <2>3. uuids' \in Nat /\ uuids' >= 200
    BY <1>2, <1>5
  <2>4. key' \in Keys /\ key' # 0 /\ keyFile' \in Keys
    BY <1>1, <1>3, <2>1, Zenon
  <2> QED
    BY <1>1, <1>4, <2>1, <2>2, <2>3, <2>4, Zenon DEF CountersOK
<1>7. FilesOK'
  <2>1. PICK u : u = uuids'
    OBVIOUS
  <2>2. \A c : WellFormed(c, ids, uuids) => WellFormed(c, ids, u)
    <3>1. u \in Nat /\ u >= uuids /\ ids >= ids
      BY <1>2, <1>5, <2>1
    <3> QED
      BY <1>2, <3>1, Later
  <2>3. file' \in {NoFile, Torn} \/ WellFormed(file', ids, u)
    BY <1>5, <2>2, Zenon
  <2>4. /\ DOMAIN dirs \subseteq Range(DirOrder) /\ \A v \in DOMAIN dirs : WellFormed(dirs[v], ids, u)
        /\ robo \in {NoFile, Torn} \/ robo = Config(2, <<OfRobo>>, TRUE, {})
    BY <1>2, <2>2, Zenon DEF FilesOK
  <2> QED
    BY <1>1, <2>1, <2>3, <2>4, Zenon DEF FilesOK
<1>8. MemoryOK'
  <2>1. run' # "off"
    BY <1>1
  <2> QED
    BY <1>1, <1>5, <2>1, Zenon DEF MemoryOK
<1>9. DialogOK'
  <2>1. ~dialog.open
    BY <1>1, <1>2 DEF DialogOK
  <2>2. ItemsOK(dialog, mem.conns, ids)
    BY <1>2 DEF DialogOK
  <2>3. \A s : ItemsOK(dialog, s, ids)
    BY <2>1, <2>2, Zenon DEF ItemsOK
  <2> QED
    BY <1>1, <2>1, <2>3, Zenon DEF DialogOK
<1>10. SourceIsSafe'
  <2>1. CASE lost'
    BY <2>1, Zenon DEF SourceIsSafe
  <2>2. ASSUME ~lost' PROVE SourceIsSafe'
    <3>1. PICK g : Loads(g)
      BY <1>1, <2>2, Zenon DEF Fails
    <3>2. ~lost /\ g = Source /\ file' = g /\ g.is = "config"
      BY <2>2, <3>1, Marks, Zenon DEF Loads
    <3>3. Source' = g
      BY <3>2, Zenon DEF Source
    <3>4. PICK q : q = NextKey'
      OBVIOUS
    <3>5. NextKey # 0 => q = NextKey
      BY <1>1, <1>3, <3>4 DEF NextKey
    <3>6. /\ accepted => Accepted(g)
          /\ \A s \in safe : \E d \in Found(g) : d.id = s.id /\ (s.pw => d.pw = NextKey /\ d.pw # 0)
      BY <1>2, <3>2, Zenon DEF SourceIsSafe
    <3>7. \A d \in Found(g) : d \in Found(g)'
      BY <1>1, Zenon DEF Found
    <3>8. \A s \in safe : \E d \in Found(g) : d.id = s.id /\ (s.pw => d.pw = q /\ d.pw # 0)
      BY <3>5, <3>6, Zenon
    <3>9. file'.is # "torn"
      BY <3>2
    <3> QED
      BY <1>1, <3>3, <3>4, <3>6, <3>7, <3>8, <3>9, Zenon DEF SourceIsSafe
  <2> QED
    BY <2>1, <2>2
<1>11. AskedOnce'
  <2>1. ASSUME run' = "eula", accepted, ~lost' PROVE FALSE
    <3>1. CurrentEula \in mem'.eula
      BY <2>1, StartFinds
    <3>2. run' = "on"
      BY <1>1, <3>1
    <3> QED
      BY <2>1, <3>2
  <2> QED
    BY <1>1, <2>1, Zenon DEF AskedOnce
<1> QED
  BY <1>6, <1>7, <1>8, <1>9, <1>10, <1>11 DEF SettingsInv

\* A list of one connection, alone or after another.
LEMMA ShortLists ==
  ASSUME NEW S, NEW c \in S, NEW r \in S
  PROVE  /\ <<c>> \in Seq(S) /\ DOMAIN <<c>> = {1} /\ <<c>>[1] = c
         /\ <<r, c>> \in Seq(S) /\ DOMAIN <<r, c>> = {1, 2} /\ <<r, c>>[1] = r /\ <<r, c>>[2] = c
         /\ <<>> \o <<c>> = <<c>> /\ <<r>> \o <<c>> = <<r, c>>
<1>1. <<c>> \in Seq(S) /\ DOMAIN <<c>> = {1} /\ <<c>>[1] = c
  OBVIOUS
<1>2. <<r, c>> \in Seq(S) /\ DOMAIN <<r, c>> = 1..2 /\ <<r, c>>[1] = r /\ <<r, c>>[2] = c
  OBVIOUS
<1>3. <<>> \o <<c>> = <<c>>
  OBVIOUS
<1>4. <<r>> \o <<c>> = <<r, c>>
  <2>1. PICK a, b : a = <<r>> /\ b = <<c>>
    OBVIOUS
  <2>2. a \in Seq(S) /\ Len(a) = 1 /\ a[1] = r /\ b \in Seq(S) /\ Len(b) = 1 /\ b[1] = c
    BY <2>1
  <2>3. PICK t, u : t = a \o b /\ u = <<r, c>>
    OBVIOUS
  <2>4. /\ t \in Seq(S) /\ Len(t) = Len(a) + Len(b)
        /\ \A i \in 1..(Len(a) + Len(b)) : t[i] = IF i <= Len(a) THEN a[i] ELSE b[i - Len(a)]
    BY <2>2, <2>3, ConcatProperties
  <2>5. Len(t) = 2 /\ t[1] = r /\ t[2] = c
    BY <2>2, <2>4
  <2>6. u \in Seq(S) /\ Len(u) = 2 /\ u[1] = r /\ u[2] = c
    BY <2>3
  <2>7. \A i \in 1..Len(t) : t[i] = u[i]
    BY <2>5, <2>6
  <2>8. t = u
    BY <2>4, <2>5, <2>6, <2>7, SeqEqual
  <2> QED
    BY <2>1, <2>3, <2>8
<1> QED
  BY <1>1, <1>2, <1>3, <1>4

\* The list of a version directory: its own connection, after that of Robo 3T if it was
\* imported.
LEMMA DirList ==
  ASSUME NEW v \in Range(DirOrder), NEW s, s = <<>> \/ s = <<OfRobo>>, NEW t, t = s \o <<Conn(v, 0, 1)>>
  PROVE  /\ t \in Seq(OnDisk) /\ Apart(t) /\ Given(t, TRUE, 2, 200)
         /\ \A i \in DOMAIN t : t[i].pw = 1
<1>1. v \in Nat /\ v # 1 /\ v \in IdsUpTo(2) /\ 1 \in IdsUpTo(2) /\ 1 \in Keys /\ 0 \in 0..200 /\ 1 \in 0..200
  <2>1. v \in 3..199
    BY DirOrderAssumption, RangeOfSeq
  <2> QED
    BY <2>1, BoundsAssumption DEF IdsUpTo, Keys
<1>2. PICK c, r : c = Conn(v, 0, 1) /\ r = OfRobo
  OBVIOUS
<1>3. /\ c.id = v /\ c.uuid = 0 /\ c.pw = 1 /\ c \in OnDisk
      /\ r.id = 1 /\ r.uuid = 1 /\ r.pw = 1 /\ r \in OnDisk
  <2>1. /\ Conn(v, 0, 1).id = v /\ Conn(v, 0, 1).uuid = 0 /\ Conn(v, 0, 1).pw = 1
        /\ Conn(v, 0, 1) \in OnDisk
    BY <1>1, ConnOf
  <2>2. OfRobo.id = 1 /\ OfRobo.uuid = 1 /\ OfRobo.pw = 1 /\ OfRobo \in OnDisk
    BY <1>1, ConnOf DEF OfRobo
  <2> QED
    BY <1>2, <2>1, <2>2, Zenon
<1>4. /\ t \in Seq(OnDisk)
      /\ \/ DOMAIN t = {1} /\ t[1] = c
         \/ DOMAIN t = {1, 2} /\ t[1] = r /\ t[2] = c
  <2>1. t = <<>> \o <<c>> \/ t = <<r>> \o <<c>>
    BY <1>2, Zenon
  <2>2. PICK S : S = OnDisk
    OBVIOUS
  <2>3. c \in S /\ r \in S
    BY <1>3, <2>2
  <2>4. /\ <<c>> \in Seq(S) /\ DOMAIN <<c>> = {1} /\ <<c>>[1] = c
        /\ <<r, c>> \in Seq(S) /\ DOMAIN <<r, c>> = {1, 2} /\ <<r, c>>[1] = r /\ <<r, c>>[2] = c
        /\ <<>> \o <<c>> = <<c>> /\ <<r>> \o <<c>> = <<r, c>>
    BY <2>3, ShortLists
  <2> QED
    BY <2>1, <2>2, <2>4, Zenon
<1>5. \A i \in DOMAIN t : t[i] = r \/ t[i] = c
  BY <1>4, Zenon
<1>6. Given(t, TRUE, 2, 200)
  BY <1>1, <1>3, <1>5, Zenon DEF Given
<1>7. Apart(t)
  <2>1. ASSUME NEW i \in DOMAIN t, NEW j \in DOMAIN t, i # j
        PROVE  (t[i] = r /\ t[j] = c) \/ (t[i] = c /\ t[j] = r)
    BY <1>4, <2>1, Zenon
  <2>2. r.id # c.id /\ r.uuid # c.uuid
    BY <1>1, <1>3
  <2> QED
    BY <2>1, <2>2, Zenon DEF Apart
<1> QED
  BY <1>3, <1>4, <1>5, <1>6, <1>7, Zenon

\* What is known to be on the disk of a list that is there.
LEMMA KnownOf ==
  ASSUME NEW s \in Seq(OnDisk), NEW x \in Known(Openable(s))
  PROVE  \E c \in Range(s) : c.id = x.id /\ (x.pw => c.pw # 0)
<1>1. PICK t : t = Openable(s)
  OBVIOUS
<1>2. PICK i \in DOMAIN s : x = [id |-> t[i].id, pw |-> t[i].pw]
  <2>1. DOMAIN t = DOMAIN s
    BY <1>1, Zenon DEF Openable
  <2>2. PICK i \in DOMAIN t : x = [id |-> t[i].id, pw |-> t[i].pw]
    BY <1>1, Zenon DEF Known
  <2> QED
    BY <2>1, <2>2
<1>3. PICK c, d : c = s[i] /\ d = t[i]
  OBVIOUS
<1>4. c \in OnDisk /\ c \in Range(s)
  BY <1>3 DEF Range
<1>5. d = [c EXCEPT !.pw = @ # 0]
  BY <1>1, <1>3, Zenon DEF Openable
<1>6. PICK a, b, p : c = [id |-> a, uuid |-> b, pw |-> p] /\ p \in Nat
  <2>1. \A z \in Keys : z \in Nat
    BY BoundsAssumption DEF Keys
  <2> QED
    BY <1>4, <2>1 DEF OnDisk
<1>7. PICK q : q = (p # 0)
  OBVIOUS
<1>8. d = [id |-> a, uuid |-> b, pw |-> q]
  <2>1. c.pw = p
    BY <1>6
  <2>2. d = [c EXCEPT !.pw = q]
    BY <1>5, <1>7, <2>1, Zenon
  <2> QED
    BY <1>6, <2>2
<1>9. d.id = a /\ d.pw = q /\ c.id = a /\ c.pw = p
  BY <1>6, <1>8
<1>10. x = [id |-> a, pw |-> q]
  BY <1>2, <1>3, <1>9, Zenon
<1>11. x.id = a /\ x.pw = q
  BY <1>10
<1> QED
  BY <1>4, <1>7, <1>9, <1>11, Zenon

\* The first start finds what it should, whatever earlier builds left.
LEMMA SettingsInitInv == ASSUME SettingsInit PROVE SettingsInv
<1>1. PICK r : /\ r \in {NoFile, Torn, Config(2, <<Conn(1, 1, 1)>>, TRUE, {})}
               /\ robo = r /\ oldKey = IF r.is = "none" THEN 0 ELSE 1
  BY Zenon DEF SettingsInit
<1>2. PICK vs \in {{}, Range(DirOrder)} :
        dirs = [v \in vs |-> Config(2, (IF robo.is = "config" THEN <<Conn(1, 1, 1)>> ELSE <<>>)
                                         \o <<Conn(v, 0, 1)>>, TRUE, {"old"})]
  BY Zenon DEF SettingsInit
<1>3. /\ keyFile = IF dirs = <<>> THEN 0 ELSE 1
      /\ file = NoFile /\ bak = NoFile /\ run = "off" /\ mem = Defaults /\ key = 0
      /\ dialog = NoItems /\ ids = 2 /\ uuids = 200 /\ starts = 0 /\ newer = 0
      /\ lost = FALSE /\ firstNewer = NoFile
  BY Zenon DEF SettingsInit, NoItems
<1>4. PICK first : first = FoundFirst
  OBVIOUS
<1>4a. safe = Known(Openable(first.conns)) /\ accepted = (first.eula # {})
  BY <1>4, Zenon DEF SettingsInit
<1>5. PICK s : s = IF robo.is = "config" THEN <<Conn(1, 1, 1)>> ELSE <<>>
  OBVIOUS
<1>6. s = <<>> \/ s = <<OfRobo>>
  BY <1>5, Zenon DEF OfRobo
<1>7. DOMAIN dirs = vs /\ vs \subseteq Range(DirOrder)
      /\ \A v \in vs : dirs[v] = Config(2, s \o <<Conn(v, 0, 1)>>, TRUE, {"old"})
  BY <1>2, <1>5, Zenon
<1>8. DOMAIN dirs = {} <=> dirs = <<>>
  <2>1. ASSUME DOMAIN dirs = {} PROVE dirs = <<>>
    <3>1. dirs \in [vs -> Range(dirs)]
      BY <1>2, <1>7 DEF Range
    <3>2. vs = {}
      BY <1>7, <2>1
    <3> QED
      BY <3>1, <3>2
  <2>2. ASSUME dirs = <<>> PROVE DOMAIN dirs = {}
    BY <2>2
  <2> QED
    BY <2>1, <2>2
<1>9. CountersOK
  <2>1. MaxStarts \in Nat /\ 0 \in Keys /\ 1 \in Keys
    BY BoundsAssumption DEF Keys
  <2>2. oldKey \in {0, 1} /\ keyFile \in {0, 1}
    BY <1>1, <1>3, Zenon
  <2>3. 0 \in 0..MaxStarts
    BY <2>1
  <2> QED
    BY <1>3, <2>1, <2>2, <2>3 DEF CountersOK
<1>10. ASSUME NEW v \in DOMAIN dirs
       PROVE  /\ WellFormed(dirs[v], 2, 200) /\ dirs[v].is = "config" /\ dirs[v].conns \in Seq(OnDisk)
              /\ Accepted(dirs[v]) /\ \A c \in Range(dirs[v].conns) : c.pw = 1
  <2>1. PICK t : t = s \o <<Conn(v, 0, 1)>>
    OBVIOUS
  <2>2. PICK c : c = dirs[v]
    OBVIOUS
  <2>3. c = [is |-> "config", schema |-> 2, conns |-> t, imported |-> TRUE, eula |-> {"old"}]
    BY <1>7, <2>1, <2>2, Zenon DEF Config
  <2>4. v \in Range(DirOrder)
    BY <1>7, Zenon
  <2>5. t \in Seq(OnDisk) /\ Apart(t) /\ Given(t, TRUE, 2, 200) /\ \A i \in DOMAIN t : t[i].pw = 1
    BY <1>6, <2>1, <2>4, DirList
  <2>6. c.is = "config" /\ c.schema = 2 /\ c.conns = t /\ c.imported = TRUE /\ c.eula = {"old"}
    BY <2>3
  <2>7. c \in Saved
    <3>1. "old" \in {"old", CurrentEula}
      OBVIOUS
    <3> HIDE DEF OnDisk
    <3> QED
      BY <2>3, <2>5, <3>1 DEF Saved
  <2>8. Accepted(c)
    <3>1. c.schema < 3 /\ c.eula # {}
      BY <2>6
    <3> QED
      BY <3>1, Zenon DEF Accepted
  <2>9. \A d \in Range(t) : d.pw = 1
    BY <2>5 DEF Range
  <2> QED
    BY <2>2, <2>5, <2>6, <2>7, <2>8, <2>9, Zenon DEF WellFormed
<1>11. robo \in {NoFile, Torn} \/ (robo = Config(2, <<OfRobo>>, TRUE, {}) /\ oldKey = 1)
  <2>1. NoFile.is = "none" /\ Torn.is = "torn" /\ Config(2, <<OfRobo>>, TRUE, {}).is = "config"
    BY DEF NoFile, Torn, Config
  <2>2. r \in {NoFile, Torn} \/ r = Config(2, <<OfRobo>>, TRUE, {})
    BY <1>1, Zenon DEF OfRobo
  <2>3. "config" # "none"
    OBVIOUS
  <2> QED
    BY <1>1, <2>1, <2>2, <2>3, Zenon
<1>12. FilesOK
  BY <1>3, <1>7, <1>10, <1>11, Zenon DEF FilesOK
<1>13. MemoryOK /\ DialogOK /\ AskedOnce
  <2>1. HeldOK(Defaults, 2, 200) /\ \A l : ItemsOK(NoItems, l, 2)
    <3>1. 2 \in Nat /\ 200 \in Nat
      OBVIOUS
    <3> QED
      BY <3>1, NothingHeld, Zenon
  <2>2. NoItems.open = FALSE /\ "off" # "eula"
    BY DEF NoItems
  <2> QED
    BY <1>3, <2>1, <2>2, Zenon DEF MemoryOK, DialogOK, AskedOnce
<1>14. file.is # "torn" /\ file.is # "config"
  BY <1>3 DEF NoFile
<1>15. first.conns \in Seq(OnDisk) =>
         \A x \in safe : \E c \in Range(first.conns) : c.id = x.id /\ (x.pw => c.pw # 0)
  BY <1>4a, KnownOf
<1>16. CASE DOMAIN dirs # {}
  <2>1. first = dirs[NewestDir] /\ NewestDir \in DOMAIN dirs
    <3>1. NewestDir \in DOMAIN dirs /\ \A v \in DOMAIN dirs : v <= NewestDir
      BY <1>12, <1>16, NewestFacts
    <3>2. PICK w : w = CHOOSE v \in DOMAIN dirs : \A o \in DOMAIN dirs : o <= v
      OBVIOUS
    <3>3. w \in DOMAIN dirs /\ \A v \in DOMAIN dirs : v <= w
      BY <3>1, <3>2, Zenon
    <3>4. \A v \in DOMAIN dirs : v \in Nat
      <4>1. \A v \in Range(DirOrder) : v \in 3..199
        BY DirOrderAssumption, RangeOfSeq
      <4>2. \A v \in 3..199 : v \in Nat
        OBVIOUS
      <4> QED
        BY <1>7, <4>1, <4>2, Zenon
    <3>5. w <= NewestDir /\ NewestDir <= w /\ w \in Nat /\ NewestDir \in Nat
      BY <3>1, <3>3, <3>4, Zenon
    <3>6. w = NewestDir
      BY <3>5
    <3> QED
      BY <1>4, <1>8, <1>16, <3>1, <3>2, <3>6, Zenon DEF FoundFirst
  <2>2. Source = first
    BY <1>14, <1>16, <2>1, Zenon DEF Source
  <2>3. NextKey = 1
    BY <1>3, <1>8, <1>16 DEF NextKey
  <2>4. Accepted(first) /\ first.conns \in Seq(OnDisk) /\ \A c \in Range(first.conns) : c.pw = 1
    BY <1>10, <2>1, Zenon
  <2>5. \A c \in Range(first.conns) : c \in Found(first)
    BY Zenon DEF Found
  <2> QED
    BY <1>9, <1>12, <1>13, <1>14, <1>15, <2>2, <2>3, <2>4, <2>5, Zenon DEF SettingsInv, SourceIsSafe
<1>17. CASE DOMAIN dirs = {}
  <2>1. Source = Config(3, <<>>, FALSE, {})
    BY <1>14, <1>17, Zenon DEF Source, CurrentConfigSchema
  <2>2. Source.imported = FALSE /\ Source.eula = {}
    BY <2>1 DEF Config
  <2>3. first = IF robo.is = "config" THEN robo ELSE Config(3, <<>>, FALSE, {})
    BY <1>4, <1>8, <1>17, Zenon DEF FoundFirst
  <2>4. CASE robo.is = "config"
    <3>1. robo = Config(2, <<OfRobo>>, TRUE, {}) /\ oldKey = 1
      BY <1>11, <2>4, Marks, Zenon
    <3>2. robo.conns = <<OfRobo>> /\ robo.eula = {}
      BY <3>1 DEF Config
    <3>3. <<OfRobo>> \in Seq(OnDisk) /\ DOMAIN <<OfRobo>> = {1} /\ <<OfRobo>>[1] = OfRobo /\ OfRobo.pw = 1
      BY <1>9, RoboList
    <3>4. \A c \in Range(<<OfRobo>>) : c.pw = 1
      BY <3>3, Zenon DEF Range
    <3>5. NextKey = 1
      BY <1>3, <1>8, <1>17, <3>1 DEF NextKey
    <3>6. \A c \in Range(<<OfRobo>>) : c \in Found(Source)
      BY <2>2, <2>4, <3>2, Zenon DEF Found
    <3>7. ~accepted
      BY <1>4a, <2>3, <2>4, <3>2, Zenon
    <3>8. \A x \in safe : \E c \in Range(<<OfRobo>>) : c.id = x.id /\ (x.pw => c.pw # 0)
      BY <1>15, <2>3, <2>4, <3>2, <3>3, Zenon
    <3> QED
      BY <1>9, <1>12, <1>13, <1>14, <3>4, <3>5, <3>6, <3>7, <3>8, Zenon DEF SettingsInv, SourceIsSafe
  <2>5. CASE robo.is # "config"
    <3>1. PICK e : e = <<>>
      OBVIOUS
    <3>2. e \in Seq(OnDisk) /\ Range(e) = {}
      BY <3>1 DEF Range
    <3>3. first = Config(3, e, FALSE, {})
      BY <2>3, <2>5, <3>1, Zenon
    <3>4. first.conns = e /\ first.eula = {}
      BY <3>3 DEF Config
    <3>5. ~accepted
      BY <1>4a, <3>4, Zenon
    <3>6. safe = {}
      BY <1>15, <3>2, <3>4, Zenon
    <3> QED
      BY <1>9, <1>12, <1>13, <1>14, <3>5, <3>6, Zenon DEF SettingsInv, SourceIsSafe
  <2> QED
    BY <2>4, <2>5
<1> QED
  BY <1>16, <1>17

\* Nothing that the invariant speaks of changes.
LEMMA SettingsStutter == ASSUME SettingsInv, UNCHANGED settingsVars PROVE SettingsInv'
<1>1. UNCHANGED <<file, dirs, robo, bak, keyFile, oldKey, run, mem, key, dialog,
                  ids, uuids, starts, newer, safe, lost, accepted, firstNewer>>
  BY DEF settingsVars
<1>2. CountersOK' /\ FilesOK' /\ MemoryOK' /\ DialogOK'
  <2>1. CountersOK'
    BY <1>1, Zenon DEF SettingsInv, CountersOK
  <2>2. FilesOK'
    BY <1>1, Zenon DEF SettingsInv, FilesOK
  <2>3. MemoryOK' /\ DialogOK'
    BY <1>1, Zenon DEF SettingsInv, MemoryOK, DialogOK
  <2> QED
    BY <2>1, <2>2, <2>3
<1>3. Source' = Source /\ NextKey' = NextKey /\ \A c : Found(c)' = Found(c)
  <2>1. NewestDir' = NewestDir
    BY <1>1 DEF NewestDir
  <2> QED
    BY <1>1, <2>1 DEF Source, NextKey, Found
<1>4. SourceIsSafe'
  BY <1>1, <1>3 DEF SettingsInv, SourceIsSafe
<1>5. AskedOnce'
  BY <1>1 DEF SettingsInv, AskedOnce
<1> QED
  BY <1>2, <1>4, <1>5 DEF SettingsInv

\* Each step keeps the invariant.
LEMMA SettingsNextInv == ASSUME SettingsInv, [SettingsNext]_settingsVars PROVE SettingsInv'
<1>1. CASE Start
  BY <1>1, StartKeepsInv
<1>2. CASE Stop
  BY <1>2, StopKeepsInv
<1>3. CASE Cut
  BY <1>3, CutKeepsInv
<1>4. CASE AcceptEula
  BY <1>4, AcceptEulaKeepsInv
<1>5. CASE SaveNow
  BY <1>5, SaveNowKeepsInv
<1>6. CASE OpenDialog
  BY <1>6, OpenDialogKeepsInv
<1>7. CASE Add
  BY <1>7, AddKeepsInv
<1>8. CASE Edit
  BY <1>8, EditKeepsInv
<1>9. CASE Clone
  BY <1>9, CloneKeepsInv
<1>10. CASE RemoveConn
  BY <1>10, RemoveConnKeepsInv
<1>11. CASE EditAfterRemove
  BY <1>11, EditAfterRemoveKeepsInv
<1>12. CASE Reorder
  BY <1>12, ReorderKeepsInv
<1>13. CASE CloseDialog
  BY <1>13, CloseDialogKeepsInv
<1>14. CASE NewerBuild
  BY <1>14, NewerBuildKeepsInv
<1>15. CASE UNCHANGED settingsVars
  BY <1>15, SettingsStutter
<1> QED
  BY <1>1, <1>2, <1>3, <1>4, <1>5, <1>6, <1>7, <1>8, <1>9, <1>10, <1>11, <1>12, <1>13, <1>14, <1>15, Zenon
     DEF SettingsNext

\* The invariant gives the four properties.
LEMMA SettingsInvSound == ASSUME SettingsInv PROVE SettingsAreSound
<1>1. CountersOK /\ FilesOK /\ MemoryOK /\ DialogOK /\ AskedOnce
  BY DEF SettingsInv
<1>2. /\ NoFile.is = "none" /\ Torn.is = "torn"
      /\ \A c : c \in Saved => c.is = "config" /\ c.conns \in Seq(OnDisk)
  BY SavedFields, Zenon DEF NoFile, Torn, Saved
<1>3. \A c \in {file, bak, firstNewer, robo} : c \in {NoFile, Torn} \/ c \in Saved
  <2>1. file \in {NoFile, Torn} \/ file \in Saved
    BY <1>1, Zenon DEF FilesOK, WellFormed
  <2>2. bak = firstNewer /\ (bak = NoFile \/ bak \in Saved)
    BY <1>1 DEF FilesOK
  <2>3. robo \in {NoFile, Torn} \/ robo \in Saved
    <3>1. CASE robo = Config(2, <<OfRobo>>, TRUE, {})
      <4>1. <<OfRobo>> \in Seq(OnDisk)
        BY <1>1, RoboList
      <4>2. PICK l : l = <<OfRobo>>
        OBVIOUS
      <4>3. robo = [is |-> "config", schema |-> 2, conns |-> l, imported |-> TRUE, eula |-> {}]
        BY <3>1, <4>2, Zenon DEF Config
      <4> QED
        BY <4>1, <4>2, <4>3 DEF Saved
    <3> QED
      BY <1>1, <3>1, Zenon DEF FilesOK
  <2> QED
    BY <2>1, <2>2, <2>3, Zenon
<1>4. \A c \in {file, bak, firstNewer, robo} : c.is \in {"none", "torn", "config"}
  BY <1>2, <1>3, Zenon
<1>5. ASSUME NEW c \in Configs, NEW d \in Range(c.conns) PROVE d.pw \in 0..(1 + MaxStarts) /\ d.uuid \in Nat
  <2>1. "config" # "none" /\ "config" # "torn"
    OBVIOUS
  <2>2. c \in Saved
    BY <1>2, <1>3, <2>1, Zenon DEF Configs
  <2>3. d \in OnDisk
    BY <1>2, <2>2, RangeOfSeq
  <2> QED
    BY <2>3, ConnFields DEF Keys
<1>6. \A c \in Range(mem.conns) : c.pw \in BOOLEAN /\ c.uuid \in Nat
  <2>1. mem.conns \in Seq(InMemory)
    BY <1>1, Zenon DEF MemoryOK, HeldOK
  <2> QED
    BY <2>1, RangeOfSeq, ConnFields
<1>7. /\ dialog.freed \subseteq DOMAIN dialog.items
      /\ dialog.open => Ids(mem.conns) = {dialog.items[n] : n \in DOMAIN dialog.items \ dialog.freed}
  BY <1>1, Zenon DEF DialogOK, ItemsOK
<1>8. SettingsTypeOK
  BY <1>1, <1>4, <1>5, <1>6, <1>7, Zenon DEF SettingsTypeOK, CountersOK, MemoryOK
<1>9. UuidsIdentify
  <2>1. Apart(mem.conns)
    BY <1>1, Zenon DEF MemoryOK, HeldOK
  <2> QED
    BY <2>1, Zenon DEF Apart, UuidsIdentify
<1>10. NewerIsBackedUp
  BY <1>1, Zenon DEF FilesOK, NewerIsBackedUp
<1> QED
  BY <1>1, <1>8, <1>9, <1>10, Zenon DEF SettingsAreSound

\* SettingsManager.cpp, ConnectionsDialog.cpp: through any number of starts, kills, failed writes,
\* edits of the list and rewrites by a newer build, connections that have an identifier have
\* one of their own, who accepted the agreement is not asked again unless a write was lost,
\* and the backup keeps the first configuration of a newer build whose copy did not fail.
THEOREM SettingsAreKept == SettingsSpec => []SettingsAreSound
<1>1. SettingsInit => SettingsInv
  BY SettingsInitInv
<1>2. SettingsInv /\ [SettingsNext]_settingsVars => SettingsInv'
  BY SettingsNextInv
<1>3. SettingsInv => SettingsAreSound
  BY SettingsInvSound
<1> QED
  BY <1>1, <1>2, <1>3, PTL DEF SettingsSpec

\* Only a start takes the program from off to running.
LEMMA OnlyStartStarts ==
  ASSUME [SettingsNext]_settingsVars, run = "off", run' # "off"
  PROVE  Start
<1>1. ~UNCHANGED settingsVars
  BY DEF settingsVars
<1>2. SettingsNext
  BY <1>1
<1>3. "off" # "on" /\ "off" # "eula"
  OBVIOUS
<1>4. ~(Stop \/ Cut \/ AcceptEula \/ SaveNow \/ OpenDialog \/ EditAfterRemove \/ CloseDialog)
  BY <1>3, Zenon DEF Stop, Cut, AcceptEula, SaveNow, OpenDialog, EditAfterRemove, CloseDialog
<1>5. ~(Add \/ Edit \/ Clone \/ RemoveConn \/ Reorder)
  BY <1>3, Zenon DEF Add, Edit, Clone, RemoveConn, Reorder, DialogStep
<1>6. ~NewerBuild
  BY Zenon DEF NewerBuild
<1> QED
  BY <1>2, <1>4, <1>5, <1>6, Zenon DEF SettingsNext

\* SettingsManager.cpp, DocutazCrypt.cpp: what was saved is found at the next start, with its
\* passwords, unless a write was cut or failed since: also what only a version directory or
\* Robo 3T has, what a newer build wrote, and whichever file the key comes from.
THEOREM NothingIsLost == SettingsSpec => SettingsSurvive
<1>1. SettingsInv /\ [SettingsNext]_settingsVars
        => [run = "off" /\ run' # "off" /\ ~lost'
              => \A c \in safe : c.id \in Ids(mem'.conns)]_settingsVars
  BY OnlyStartStarts, StartFinds, Zenon
<1>2. SettingsInv /\ [SettingsNext]_settingsVars
        => [run = "off" /\ run' # "off" /\ ~lost'
              => \A c \in Range(mem'.conns) : [id |-> c.id, pw |-> TRUE] \in safe => c.pw]_settingsVars
  BY OnlyStartStarts, StartFinds, Zenon
<1>3. SettingsInit => SettingsInv
  BY SettingsInitInv
<1>4. SettingsInv /\ [SettingsNext]_settingsVars => SettingsInv'
  BY SettingsNextInv
<1>5. SettingsSpec => []SettingsInv
  BY <1>3, <1>4, PTL DEF SettingsSpec
<1>6. SettingsSpec => NothingIsForgotten
  BY <1>1, <1>5, PTL DEF SettingsSpec, NothingIsForgotten
<1>7. SettingsSpec => PasswordsSurvive
  BY <1>2, <1>5, PTL DEF SettingsSpec, PasswordsSurvive
<1> QED
  BY <1>6, <1>7, PTL DEF SettingsSurvive
===============================================================================
