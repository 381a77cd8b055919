--------------------------- MODULE ConnectionsProofs ---------------------------
(***************************************************************************)
(* Whatever the order of the answers of tunnels and workers, an item of    *)
(* the explorer is backed by exactly one server the application owns, and  *)
(* a direct connection that failed leaves no server behind. And the tree   *)
(* of a connection shows what the user's own operations made of the        *)
(* server, once every answer about them has come.                          *)
(***************************************************************************)
EXTENDS Connections, ExplorerTree, SequenceLemmas

\* The tunnel of h is not there yet, or the UI thread does not know of it yet.
Attempting(h) == tunnel[h] \in {"establishing", "up"}

\* m answers the request that opened a connection, no later refresh.
IsFirst(m) == m.from = "mongo" /\ m.type # "Refresh"
\* m tells that a tunnel is there.
IsUp(m) == m.from = "tunnel" /\ m.ok

\* Both tell the same of the same connection.
Clash(m, n) == m.h = n.h /\ ((IsFirst(m) /\ IsFirst(n)) \/ (IsUp(m) /\ IsUp(n)))

NoClash(s) == \A i, j \in DOMAIN s : Clash(s[i], s[j]) => i = j

\* Only null pointers are in s more than once.
NoTwice(s) == \A i, j \in DOMAIN s : s[i] = s[j] /\ s[i] # 0 => i = j

AskOK(a) ==
  /\ a.h \in Open
  /\ a.type = "Refresh" => opened[a.h].way = "set"
  /\ a.type # "Refresh" => a.type = opened[a.h].use /\ ~Attempting(a.h)

PostOK(m) ==
  /\ m.h \in Open
  /\ m.type = "Refresh" => m.from = "mongo" /\ opened[m.h].way = "set"
  /\ m.type # "Refresh" => m.type = opened[m.h].use
  /\ m.from # "mongo" => opened[m.h].way = "ssh"
  /\ IsUp(m) => tunnel[m.h] = "up"
  /\ IsFirst(m) => ~Attempting(m.h) /\ [h |-> m.h, type |-> m.type] \notin asked

TunnelOK(h) ==
  /\ tunnel[h] # "none" => h \in Open /\ opened[h].way = "ssh"
  /\ Attempting(h) => h \notin ToSet(servers)

ItemOK(h) ==
  /\ h \in Open /\ opened[h].use = "Primary" /\ h \in ToSet(servers)
  /\ [h |-> h, type |-> "Primary"] \notin asked
  /\ \A m \in ToSet(posted) : m.h = h => ~IsFirst(m)

\* A direct connection to the server h failed.
Failed(h) == h \in failures /\ opened[h].way = "direct" /\ opened[h].use # "Secondary"

ServersOK ==
  /\ ToSet(servers) \subseteq 0..Len(opened) /\ NoTwice(servers)
  /\ failures \subseteq Open
  /\ \A h \in Open : Failed(h) => h \notin ToSet(servers)

\* One attempt at a time is made for a connection: by its tunnel, then by the worker,
\* then its answer waits; a server is made once, when the tunnel is there, and an item
\* when the attempt is over, so that no answer is left that could close its server.
ConnectionsKept ==
  /\ TypeOK /\ ServersOK
  /\ NoClash(posted) /\ \A m \in ToSet(posted) : PostOK(m)
  /\ \A h \in Handles : TunnelOK(h)
  /\ \A a \in asked : AskOK(a)
  /\ \A h \in items : ItemOK(h)
  /\ adopted # 0 => adopted \in Open /\ opened[adopted].use = "Test"

-----------------------------------------------------------------------------
\* The sequences: answers in their order, and servers.

LEMMA ClashAppend ==
  ASSUME NEW s \in Seq(Answers), NoClash(s), NEW m \in Answers,
         \A x \in ToSet(s) : ~Clash(x, m)
  PROVE  /\ NoClash(Append(s, m))
         /\ ToSet(Append(s, m)) = ToSet(s) \cup {m}
         /\ Append(s, m) \in Seq(Answers)
<1> DEFINE q == Append(s, m)
<1>1. /\ Len(q) = Len(s) + 1 /\ q \in Seq(Answers)
      /\ \A i \in 1..Len(s) : q[i] = s[i]
      /\ q[Len(s) + 1] = m
  BY AppendProperties
<1>2. ToSet(q) = ToSet(s) \cup {m}
  BY ToSetAppend
<1> HIDE DEF q
<1>3. DOMAIN q = 1..(Len(s) + 1) /\ DOMAIN s = 1..Len(s) /\ Len(s) \in Nat
  BY <1>1, LenProperties
<1>4. \A i \in 1..Len(s) : s[i] \in ToSet(s)
  BY <1>3 DEF ToSet
<1>5. ASSUME NEW x \in ToSet(s)
      PROVE  ~Clash(m, x)
  <2>1. ~Clash(x, m)
    OBVIOUS
  <2> QED
    BY <2>1, Zenon DEF Clash
<1>6. ASSUME NEW i \in 1..(Len(s) + 1), NEW j \in 1..(Len(s) + 1), Clash(q[i], q[j])
      PROVE  i = j
  <2>1. CASE i = Len(s) + 1 /\ j # Len(s) + 1
    <3>1. j \in 1..Len(s)
      BY <1>3, <2>1
    <3> QED
      BY <1>1, <1>4, <1>5, <1>6, <2>1, <3>1
  <2>2. CASE i # Len(s) + 1 /\ j = Len(s) + 1
    <3>1. i \in 1..Len(s)
      BY <1>3, <2>2
    <3> QED
      BY <1>1, <1>4, <1>6, <2>2, <3>1
  <2>3. CASE i # Len(s) + 1 /\ j # Len(s) + 1
    <3>1. i \in 1..Len(s) /\ j \in 1..Len(s)
      BY <1>3, <2>3
    <3> QED
      BY <1>1, <1>3, <1>6, <3>1 DEF NoClash
  <2> QED
    BY <2>1, <2>2, <2>3
<1> QED
  BY <1>1, <1>2, <1>3, <1>6 DEF NoClash, q

LEMMA ClashTail ==
  ASSUME NEW s \in Seq(Answers), NoClash(s), s # <<>>
  PROVE  /\ Head(s) \in Answers /\ Head(s) \in ToSet(s)
         /\ Tail(s) \in Seq(Answers) /\ NoClash(Tail(s))
         /\ ToSet(Tail(s)) \subseteq ToSet(s)
         /\ \A x \in ToSet(Tail(s)) : ~Clash(x, Head(s))
<1> DEFINE q == Tail(s)
<1>1. /\ Head(s) \in Answers /\ q \in Seq(Answers) /\ Len(q) = Len(s) - 1
      /\ \A i \in 1..Len(q) : q[i] = s[i + 1]
  BY HeadTailProperties
<1>2. Head(s) = s[1]
  OBVIOUS
<1> HIDE DEF q
<1>3. DOMAIN q = 1..Len(q) /\ DOMAIN s = 1..Len(s) /\ Len(s) \in Nat /\ Len(s) # 0
  BY <1>1, LenProperties, EmptySeq
<1>4. /\ \A i \in 1..Len(q) : i + 1 \in DOMAIN s /\ i + 1 # 1 /\ q[i] = s[i + 1]
      /\ \A i, j \in 1..Len(q) : i + 1 = j + 1 => i = j
      /\ 1 \in DOMAIN s
  BY <1>1, <1>3
<1>5. NoClash(q)
  BY <1>3, <1>4, Zenon DEF NoClash
<1>6. \A i \in 1..Len(q) : ~Clash(q[i], s[1])
  BY <1>4, Zenon DEF NoClash
<1>7. ToSet(q) \subseteq ToSet(s) /\ s[1] \in ToSet(s)
  BY <1>3, <1>4, Zenon DEF ToSet
<1>8. \A x \in ToSet(q) : ~Clash(x, s[1])
  BY <1>3, <1>6, Zenon DEF ToSet
<1> QED
  BY <1>1, <1>2, <1>5, <1>7, <1>8 DEF q

LEMMA TwiceAppend ==
  ASSUME NEW s \in Seq(0..MaxHandles), NoTwice(s), NEW x \in 0..MaxHandles,
         x = 0 \/ x \notin ToSet(s)
  PROVE  /\ NoTwice(Append(s, x))
         /\ ToSet(Append(s, x)) = ToSet(s) \cup {x}
         /\ Append(s, x) \in Seq(0..MaxHandles)
<1> DEFINE q == Append(s, x)
<1>1. /\ Len(q) = Len(s) + 1 /\ q \in Seq(0..MaxHandles)
      /\ \A i \in 1..Len(s) : q[i] = s[i]
      /\ q[Len(s) + 1] = x
  BY AppendProperties
<1> HIDE DEF q
<1>3. DOMAIN q = 1..(Len(s) + 1) /\ DOMAIN s = 1..Len(s) /\ Len(s) \in Nat
  BY <1>1, LenProperties
<1>2. ToSet(q) = ToSet(s) \cup {x}
  BY <1>1, <1>3 DEF ToSet
<1>4. \A i \in 1..Len(s) : s[i] \in ToSet(s)
  BY <1>3 DEF ToSet
<1>5. ASSUME NEW i \in 1..(Len(s) + 1), NEW j \in 1..(Len(s) + 1), q[i] = q[j], q[i] # 0
      PROVE  i = j
  <2>1. i # Len(s) + 1 => i \in 1..Len(s)
    BY <1>3
  <2>2. j # Len(s) + 1 => j \in 1..Len(s)
    BY <1>3
  <2> QED
    BY <1>1, <1>3, <1>4, <1>5, <2>1, <2>2 DEF NoTwice
<1> QED
  BY <1>1, <1>2, <1>3, <1>5 DEF NoTwice, q

LEMMA TwiceKeep ==
  ASSUME NEW T, NEW s \in Seq(T), NoTwice(s), NEW S
  PROVE  NoTwice(Keep(s, S))
<1> DEFINE r == Keep(s, S)
<1>0. r \in Seq(T) /\ \E g : Picks(s, S, Len(s), r, g)
  BY KeepFacts
<1> HIDE DEF r
<1>1. PICK g : Picks(s, S, Len(s), r, g)
  BY <1>0
<1>2. /\ g \in [1..Len(r) -> {i \in 1..Len(s) : s[i] \in S}]
      /\ \A k, l \in 1..Len(r) : k < l => g[k] < g[l]
      /\ \A k \in 1..Len(r) : r[k] = s[g[k]]
  BY <1>1 DEF Picks
<1>3. DOMAIN r = 1..Len(r) /\ DOMAIN s = 1..Len(s) /\ Len(r) \in Nat /\ Len(s) \in Nat
  BY <1>0, LenProperties
<1>4. ASSUME NEW k \in 1..Len(r), NEW l \in 1..Len(r), r[k] = r[l], r[k] # 0
      PROVE  k = l
  <2>1. g[k] \in 1..Len(s) /\ g[l] \in 1..Len(s)
    BY <1>2
  <2>2. g[k] = g[l]
    BY <1>2, <1>3, <1>4, <2>1 DEF NoTwice
  <2>3. ~(k < l) /\ ~(l < k)
    BY <1>2, <1>3, <2>1, <2>2
  <2> QED
    BY <1>3, <2>3
<1> QED
  BY <1>3, <1>4 DEF NoTwice, r

\* What closing a server leaves.
LEMMA ClosedFacts ==
  ASSUME TypeOK, ServersOK, NEW x \in Handles
  PROVE  /\ Closed(x) \in Seq(0..MaxHandles) /\ NoTwice(Closed(x))
         /\ ToSet(Closed(x)) = ToSet(servers) \ {x}
<1>1. servers \in Seq(0..MaxHandles) /\ NoTwice(servers)
  BY DEF TypeOK, ServersOK
<1>2. Closed(x) \in Seq(0..MaxHandles) /\ NoTwice(Closed(x))
      /\ ToSet(Closed(x)) = ToSet(servers) \cap ((0..MaxHandles) \ {x})
  BY <1>1, TwiceKeep, KeepSet DEF Closed
<1>3. ToSet(servers) \subseteq 0..MaxHandles
  <2>1. DOMAIN servers = 1..Len(servers) /\ \A i \in 1..Len(servers) : servers[i] \in 0..MaxHandles
    BY <1>1, LenProperties, ElementOfSeq
  <2> QED
    BY <2>1 DEF ToSet
<1> QED
  BY <1>2, <1>3

LEMMA OwnedIs ==
  ASSUME NEW h
  PROVE  Owned(h) <=> h \in ToSet(servers)
BY DEF Owned, ToSet

LEMMA HandlesFacts ==
  ASSUME TypeOK
  PROVE  /\ Open \subseteq Handles /\ Len(opened) \in Nat /\ DOMAIN opened = Open
         /\ \A h \in Open : /\ opened[h].way \in {"direct", "ssh", "set"}
                            /\ opened[h].use \in {"Primary", "Secondary", "Test"}
                            /\ h # 0
<1>1. opened \in Seq(Connection) /\ Len(opened) <= MaxHandles
  BY DEF TypeOK
<1>2. Len(opened) \in Nat /\ DOMAIN opened = 1..Len(opened) /\ \A h \in 1..Len(opened) : opened[h] \in Connection
  BY <1>1, LenProperties, ElementOfSeq
<1>3. \A h \in 1..Len(opened) : h \in 1..MaxHandles /\ h # 0
  BY <1>1, <1>2, ConnectionsAssumption
<1> QED
  BY <1>2, <1>3 DEF Open, Handles, Connection

-----------------------------------------------------------------------------
LEMMA InitKeeps ==
  ASSUME Init
  PROVE  ConnectionsKept
<1>1. ToSet(<<>>) = {} /\ NoTwice(<<>>) /\ NoClash(<<>>)
  BY DEF ToSet, NoTwice, NoClash
<1>2. TypeOK
  BY ConnectionsAssumption DEF Init, TypeOK, Types
<1>3. ServersOK
  BY <1>1 DEF Init, ServersOK
<1>4. \A h \in Handles : TunnelOK(h)
  BY DEF Init, TunnelOK, Attempting
<1> QED
  BY <1>1, <1>2, <1>3, <1>4 DEF Init, ConnectionsKept

\* Opening a connection: its handle is new to every part of the state.
LEMMA OpenServerKeeps ==
  ASSUME ConnectionsKept, NEW way \in Ways, NEW use \in Uses, OpenServer(way, use)
  PROVE  ConnectionsKept'
<1>0. PICK h : h = Len(opened) + 1
  OBVIOUS
<1>1. TypeOK /\ ServersOK /\ Open \subseteq Handles /\ Len(opened) \in Nat /\ DOMAIN opened = Open
      /\ Len(opened) < MaxHandles /\ MaxHandles \in Nat
  BY HandlesFacts, ConnectionsAssumption DEF ConnectionsKept, OpenServer
<1>2. h \in Handles /\ h \notin Open /\ h # 0 /\ 1..h = Open \cup {h} /\ h \in 0..MaxHandles
  BY <1>0, <1>1 DEF Open, Handles
<1>3. [way |-> way, use |-> use] \in Connection
  BY ConnectionsAssumption DEF Connection
<1>4. /\ opened' = Append(opened, [way |-> way, use |-> use])
      /\ progress' = progress + (IF use = "Primary" THEN 1 ELSE 0)
      /\ IF way = "ssh"
         THEN /\ tunnel' = [tunnel EXCEPT ![h] = "establishing"]
              /\ servers' = Append(servers, 0)
              /\ type' = type /\ asked' = asked
         ELSE /\ type' = [type EXCEPT ![h] = use]
              /\ asked' = asked \cup {[h |-> h, type |-> use]}
              /\ servers' = Append(servers, h)
              /\ tunnel' = tunnel
      /\ dialog' = IF use = "Test" THEN h ELSE dialog
      /\ adopted' = IF use = "Test" THEN 0 ELSE adopted
      /\ UNCHANGED <<connected, posted, items, failures, shown>>
  BY <1>0 DEF OpenServer, ContinueOpen
<1>5. /\ opened' \in Seq(Connection) /\ Len(opened') = h /\ Open' = Open \cup {h}
      /\ \A x \in Open : opened'[x] = opened[x]
      /\ opened'[h] = [way |-> way, use |-> use]
  <2>1. opened \in Seq(Connection)
    BY <1>1 DEF TypeOK
  <2> QED
    BY <1>0, <1>1, <1>2, <1>3, <1>4, <2>1, AppendProperties DEF Open
<1>6. ToSet(servers) \subseteq {0} \cup Open /\ NoTwice(servers) /\ servers \in Seq(0..MaxHandles)
  BY <1>1 DEF ServersOK, TypeOK, Open
<1>7. /\ servers' \in Seq(0..MaxHandles) /\ NoTwice(servers')
      /\ ToSet(servers') = ToSet(servers) \cup {IF way = "ssh" THEN 0 ELSE h}
  <2>1. 0 \in 0..MaxHandles /\ h \notin ToSet(servers)
    BY <1>1, <1>2, <1>6
  <2>2. CASE way = "ssh"
    <3>1. servers' = Append(servers, 0)
      BY <1>4, <2>2
    <3>2. /\ NoTwice(Append(servers, 0)) /\ ToSet(Append(servers, 0)) = ToSet(servers) \cup {0}
          /\ Append(servers, 0) \in Seq(0..MaxHandles)
      BY <1>6, <2>1, TwiceAppend
    <3> QED
      BY <1>6, <2>1, <2>2, <3>1, <3>2
  <2>3. CASE way # "ssh"
    <3>1. servers' = Append(servers, h)
      BY <1>4, <2>3
    <3>2. /\ NoTwice(Append(servers, h)) /\ ToSet(Append(servers, h)) = ToSet(servers) \cup {h}
          /\ Append(servers, h) \in Seq(0..MaxHandles)
      BY <1>2, <1>6, <2>1, TwiceAppend
    <3> QED
      BY <2>3, <3>1, <3>2
  <2> QED
    BY <2>2, <2>3
<1>8. use \in {"Primary", "Secondary", "Test"}
  BY ConnectionsAssumption
<1>9. TypeOK'
  <2>1. type' \in [Handles -> Types] /\ asked' \subseteq Ask
    BY <1>1, <1>2, <1>4, <1>8 DEF TypeOK, Types, Ask
  <2>2. tunnel' \in [Handles -> {"none", "establishing", "up", "listening", "gone"}]
    BY <1>1, <1>2, <1>4 DEF TypeOK
  <2>3. progress' \in Nat /\ dialog' \in 0..MaxHandles /\ adopted' \in 0..MaxHandles /\ Len(opened') <= MaxHandles
    BY <1>1, <1>2, <1>4, <1>5 DEF TypeOK, Handles
  <2>4. posted' \in Seq(Answers) /\ connected' \subseteq Handles /\ items' \subseteq Handles
        /\ failures' \subseteq Handles /\ shown' \subseteq Handles
    BY <1>1, <1>4 DEF TypeOK
  <2> QED
    BY <1>5, <1>7, <2>1, <2>2, <2>3, <2>4 DEF TypeOK
<1>10. ServersOK'
  <2>1. ToSet(servers)' \subseteq 0..Len(opened')
    BY <1>1, <1>2, <1>5, <1>6, <1>7 DEF Open
  <2>2. \A x \in Open' : Failed(x)' => x \notin ToSet(servers)'
    BY <1>1, <1>2, <1>4, <1>5, <1>7 DEF ServersOK, Failed, Open
  <2>3. failures' \subseteq Open'
    BY <1>1, <1>4, <1>5 DEF ServersOK
  <2> QED
    BY <1>7, <2>1, <2>2, <2>3 DEF ServersOK
<1>11. \A a \in asked : AskOK(a)' 
  <2> SUFFICES ASSUME NEW a \in asked
               PROVE  AskOK(a)'
    OBVIOUS
  <2>1. AskOK(a) /\ a.h \in Open /\ a.h # h /\ a.h \in Handles
    BY <1>1, <1>2 DEF ConnectionsKept, AskOK
  <2>2. tunnel'[a.h] = tunnel[a.h]
    BY <1>1, <1>4, <2>1 DEF TypeOK
  <2> QED
    BY <1>5, <2>1, <2>2 DEF AskOK, Attempting
<1>12. \A m \in ToSet(posted) : PostOK(m)'
  <2> SUFFICES ASSUME NEW m \in ToSet(posted)
               PROVE  PostOK(m)'
    OBVIOUS
  <2>1. PostOK(m) /\ m.h \in Open /\ m.h # h /\ m.h \in Handles
    BY <1>1, <1>2 DEF ConnectionsKept, PostOK
  <2>2. tunnel'[m.h] = tunnel[m.h]
    BY <1>1, <1>4, <2>1 DEF TypeOK
  <2>3. [h |-> m.h, type |-> m.type] \notin asked => [h |-> m.h, type |-> m.type] \notin asked'
    BY <1>4, <2>1
  <2> QED
    BY <1>5, <2>1, <2>2, <2>3 DEF PostOK, Attempting
<1>13. \A x \in Handles : TunnelOK(x)'
  <2> SUFFICES ASSUME NEW x \in Handles
               PROVE  TunnelOK(x)'
    OBVIOUS
  <2>1. TunnelOK(x) /\ tunnel \in [Handles -> {"none", "establishing", "up", "listening", "gone"}]
    BY <1>1 DEF ConnectionsKept, TypeOK
  <2>2. CASE x = h
    <3>1. tunnel[x] = "none" /\ x \notin ToSet(servers) /\ x # 0
      BY <1>2, <1>6, <2>1, <2>2 DEF TunnelOK
    <3>2. CASE way = "ssh"
      BY <1>4, <1>5, <1>7, <2>1, <2>2, <3>1, <3>2 DEF TunnelOK
    <3>3. CASE way # "ssh"
      BY <1>4, <3>1, <3>3 DEF TunnelOK, Attempting
    <3> QED
      BY <3>2, <3>3
  <2>3. CASE x # h
    <3>1. tunnel'[x] = tunnel[x]
      BY <1>4, <2>1, <2>3
    <3>2. x \in ToSet(servers') => x \in ToSet(servers)
      BY <1>7, <2>3 DEF Handles
    <3> QED
      BY <1>5, <2>1, <3>1, <3>2 DEF TunnelOK, Attempting
  <2> QED
    BY <2>2, <2>3
<1>14. \A x \in items : ItemOK(x)'
  <2> SUFFICES ASSUME NEW x \in items
               PROVE  ItemOK(x)'
    OBVIOUS
  <2>1. ItemOK(x) /\ x \in Open /\ x # h
    BY <1>2 DEF ConnectionsKept, ItemOK
  <2>2. [h |-> x, type |-> "Primary"] \notin asked'
    BY <1>4, <2>1 DEF ItemOK
  <2> QED
    BY <1>4, <1>5, <1>7, <2>1, <2>2 DEF ItemOK
<1>15. \A a \in asked' : AskOK(a)'
  <2>1. ASSUME way # "ssh"
        PROVE  AskOK([h |-> h, type |-> use])'
    <3>1. ~Attempting(h)'
      <4>1. tunnel'[h] = tunnel[h] /\ TunnelOK(h)
        BY <1>2, <1>4, <2>1 DEF ConnectionsKept
      <4> QED
        BY <1>2, <4>1 DEF TunnelOK, Attempting
    <3> QED
      BY <1>5, <1>8, <3>1 DEF AskOK
  <2> QED
    BY <1>4, <1>11, <2>1
<1>16. adopted' # 0 => adopted' \in Open' /\ opened'[adopted'].use = "Test"
  BY <1>4, <1>5 DEF ConnectionsKept
<1> QED
  BY <1>4, <1>9, <1>10, <1>12, <1>13, <1>14, <1>15, <1>16 DEF ConnectionsKept

\* A step that opens nothing and starts no tunnel.
LEMMA StepKeeps ==
  ASSUME ConnectionsKept, TypeOK', opened' = opened, tunnel' = tunnel,
         NoTwice(servers'), ToSet(servers') \subseteq ToSet(servers),
         \A a \in asked' \ asked : a.h \in Open /\ a.type = "Refresh" /\ opened[a.h].way = "set",
         NoClash(posted'), ToSet(posted') \subseteq ToSet(posted),
         failures' \subseteq Open,
         \A h \in Open : Failed(h)' => h \notin ToSet(servers'),
         \A h \in items' : h \in ToSet(servers') /\ (h \in items \/ ItemOK(h)'),
         adopted' # 0 => adopted' \in Open /\ opened[adopted'].use = "Test"
  PROVE  ConnectionsKept'
<1>1. Open' = Open
  BY DEF Open
<1>2. ServersOK'
  BY <1>1 DEF ConnectionsKept, ServersOK
<1>3. \A m \in ToSet(posted') : PostOK(m)'
  <2> SUFFICES ASSUME NEW m \in ToSet(posted')
               PROVE  PostOK(m)'
    OBVIOUS
  <2>1. PostOK(m)
    BY DEF ConnectionsKept
  <2>2. m.type # "Refresh" /\ [h |-> m.h, type |-> m.type] \notin asked
        => [h |-> m.h, type |-> m.type] \notin asked'
    OBVIOUS
  <2>3. IsFirst(m) => m.type # "Refresh"
    BY DEF IsFirst
  <2> QED
    BY <1>1, <2>1, <2>2, <2>3 DEF PostOK, Attempting
<1>4. \A h \in Handles : TunnelOK(h)'
  BY <1>1 DEF ConnectionsKept, TunnelOK, Attempting
<1>5. \A a \in asked' : AskOK(a)'
  <2> SUFFICES ASSUME NEW a \in asked'
               PROVE  AskOK(a)'
    OBVIOUS
  <2>1. CASE a \in asked
    BY <1>1, <2>1 DEF ConnectionsKept, AskOK, Attempting
  <2>2. CASE a \notin asked
    BY <1>1, <2>2 DEF AskOK
  <2> QED
    BY <2>1, <2>2
<1>6. \A h \in items' : ItemOK(h)'
  <2> SUFFICES ASSUME NEW h \in items', h \in items
               PROVE  ItemOK(h)'
    OBVIOUS
  <2>1. ItemOK(h) /\ h \in ToSet(servers')
    BY DEF ConnectionsKept
  <2>2. [h |-> h, type |-> "Primary"] \notin asked'
    BY <2>1 DEF ItemOK
  <2> QED
    BY <1>1, <2>1, <2>2 DEF ItemOK
<1>7. adopted' # 0 => adopted' \in Open' /\ opened'[adopted'].use = "Test"
  BY <1>1
<1> QED
  BY <1>2, <1>3, <1>4, <1>5, <1>6, <1>7 DEF ConnectionsKept

\* The handles there are, and what a failed connection did not leave, in a step that
\* publishes no failure.
LEMMA NoFailure ==
  ASSUME ConnectionsKept, opened' = opened, failures' = failures,
         ToSet(servers') \subseteq ToSet(servers)
  PROVE  /\ failures' \subseteq Open
         /\ \A h \in Open : Failed(h)' => h \notin ToSet(servers')
BY DEF ConnectionsKept, ServersOK, Failed

LEMMA CloseDialogKeeps ==
  ASSUME ConnectionsKept, CloseDialog
  PROVE  ConnectionsKept'
<1>1. TypeOK /\ ServersOK /\ NoTwice(servers) /\ NoClash(posted) /\ servers \in Seq(0..MaxHandles)
  BY DEF ConnectionsKept, ServersOK, TypeOK
<1>2. /\ dialog' = 0 /\ adopted' = 0
      /\ servers' = IF adopted # 0 THEN Closed(adopted) ELSE servers
      /\ asked' \subseteq asked
      /\ UNCHANGED <<opened, type, connected, tunnel, posted, items, progress, failures, shown>>
  BY DEF CloseDialog
<1>3. /\ servers' \in Seq(0..MaxHandles) /\ NoTwice(servers') /\ ToSet(servers') \subseteq ToSet(servers)
      /\ \A h \in items : h \in ToSet(servers')
  <2>1. CASE adopted = 0
    BY <1>1, <1>2, <2>1 DEF ConnectionsKept, ItemOK
  <2>2. CASE adopted # 0
    <3>1. adopted \in Handles /\ opened[adopted].use = "Test"
      BY <1>1, <2>2, HandlesFacts DEF ConnectionsKept
    <3>2. /\ Closed(adopted) \in Seq(0..MaxHandles) /\ NoTwice(Closed(adopted))
          /\ ToSet(Closed(adopted)) = ToSet(servers) \ {adopted}
      BY <1>1, <3>1, ClosedFacts
    <3>3. \A h \in items : h \in ToSet(servers) /\ h # adopted
      BY <3>1 DEF ConnectionsKept, ItemOK
    <3> QED
      BY <1>2, <2>2, <3>2, <3>3
  <2> QED
    BY <2>1, <2>2
<1>4. TypeOK'
  BY <1>1, <1>2, <1>3, ConnectionsAssumption DEF TypeOK
<1> QED
  BY <1>1, <1>2, <1>3, <1>4, StepKeeps, NoFailure

LEMMA DisconnectKeeps ==
  ASSUME ConnectionsKept, NEW h \in Handles, Disconnect(h)
  PROVE  ConnectionsKept'
<1>1. TypeOK /\ ServersOK /\ NoClash(posted)
  BY DEF ConnectionsKept
<1>2. /\ items' = items \ {h} /\ servers' = Closed(h) /\ asked' \subseteq asked
      /\ UNCHANGED <<opened, type, connected, tunnel, posted, progress, failures, shown, dialog, adopted>>
  BY DEF Disconnect
<1>3. /\ servers' \in Seq(0..MaxHandles) /\ NoTwice(servers')
      /\ ToSet(servers') = ToSet(servers) \ {h}
  BY <1>1, <1>2, ClosedFacts
<1>4. \A x \in items' : x \in items /\ x \in ToSet(servers')
  BY <1>2, <1>3 DEF ConnectionsKept, ItemOK
<1>5. TypeOK'
  BY <1>1, <1>2, <1>3 DEF TypeOK
<1>6. adopted' # 0 => adopted' \in Open /\ opened[adopted'].use = "Test"
  BY <1>2 DEF ConnectionsKept
<1> QED
  BY <1>1, <1>2, <1>3, <1>4, <1>5, <1>6, StepKeeps, NoFailure

LEMMA RefreshKeeps ==
  ASSUME ConnectionsKept, NEW h \in Handles, Refresh(h)
  PROVE  ConnectionsKept'
<1>1. TypeOK /\ ServersOK /\ NoTwice(servers) /\ NoClash(posted) /\ h \in Open
  BY DEF ConnectionsKept, ServersOK, Refresh, ItemOK
<1>2. /\ opened[h].way = "set" /\ asked' = asked \cup {[h |-> h, type |-> "Refresh"]}
      /\ UNCHANGED <<opened, servers, type, connected, tunnel, posted, items, progress,
                     failures, shown, dialog, adopted>>
  BY DEF Refresh
<1>3. \A a \in asked' \ asked : a.h \in Open /\ a.type = "Refresh" /\ opened[a.h].way = "set"
  BY <1>1, <1>2
<1>4. \A x \in items' : x \in items /\ x \in ToSet(servers')
  BY <1>2 DEF ConnectionsKept, ItemOK
<1>5. TypeOK'
  <2>1. asked' \subseteq Ask
    BY <1>1, <1>2 DEF TypeOK, Ask, Types
  <2> QED
    BY <1>1, <1>2, <2>1 DEF TypeOK
<1>6. adopted' # 0 => adopted' \in Open /\ opened[adopted'].use = "Test"
  BY <1>2 DEF ConnectionsKept
<1> QED
  BY <1>1, <1>2, <1>3, <1>4, <1>5, <1>6, StepKeeps, NoFailure
-----------------------------------------------------------------------------
\* The workers: an answer is posted once, and the attempt it answers is over.

\* A tunnel's answer.
LEMMA TunnelAnswersKeeps ==
  ASSUME ConnectionsKept, NEW h \in Handles, NEW ok \in BOOLEAN, TunnelAnswers(h, ok)
  PROVE  ConnectionsKept'
<1>1. PICK m : m = [from |-> "tunnel", h |-> h, type |-> opened[h].use, ok |-> ok]
  OBVIOUS
<1>2. PICK t : t = IF ok THEN "up" ELSE "gone"
  OBVIOUS
<1>3. /\ tunnel[h] = "establishing"
      /\ tunnel' = [tunnel EXCEPT ![h] = t]
      /\ posted' = Append(posted, m)
      /\ UNCHANGED <<opened, servers, type, connected, asked, items, progress, failures, shown,
                     dialog, adopted>>
  BY <1>1, <1>2 DEF TunnelAnswers, Post
<1>4. /\ TypeOK /\ ServersOK /\ NoClash(posted) /\ posted \in Seq(Answers)
      /\ tunnel \in [Handles -> {"none", "establishing", "up", "listening", "gone"}]
  BY DEF ConnectionsKept, TypeOK
<1>5. /\ h \in Open /\ opened[h].way = "ssh" /\ h \notin ToSet(servers)
      /\ opened[h].use \in {"Primary", "Secondary", "Test"} /\ opened[h].use # "Refresh"
  BY <1>3, <1>4, HandlesFacts DEF ConnectionsKept, TunnelOK, Attempting
<1>6. m \in Answers
  BY <1>1, <1>5 DEF Answers, Types
<1>7. \A x \in ToSet(posted) : x.h = h => ~IsUp(x) /\ ~IsFirst(x)
  BY <1>3 DEF ConnectionsKept, PostOK, Attempting
<1>8. \A x \in ToSet(posted) : ~Clash(x, m)
  BY <1>1, <1>7 DEF Clash
<1>9. NoClash(posted') /\ ToSet(posted') = ToSet(posted) \cup {m} /\ posted' \in Seq(Answers)
  BY <1>3, <1>4, <1>6, <1>8, ClashAppend
<1>10. \A x \in Handles : tunnel'[x] = IF x = h THEN t ELSE tunnel[x]
  BY <1>3, <1>4
<1>11. TypeOK'
  <2>1. tunnel' \in [Handles -> {"none", "establishing", "up", "listening", "gone"}]
    BY <1>2, <1>3, <1>4
  <2> QED
    BY <1>3, <1>4, <1>9, <2>1 DEF TypeOK
<1>12. ServersOK' /\ Open' = Open /\ Open \subseteq Handles
  BY <1>3, <1>4, HandlesFacts DEF ServersOK, Open, Failed
<1>13. \A x \in Handles : Attempting(x)' => Attempting(x)
  BY <1>3, <1>10 DEF Attempting
<1>14. \A x \in ToSet(posted) : PostOK(x)'
  <2> SUFFICES ASSUME NEW x \in ToSet(posted)
               PROVE  PostOK(x)'
    OBVIOUS
  <2>1. PostOK(x) /\ x.h \in Handles
    BY <1>12 DEF ConnectionsKept, PostOK
  <2>2. IsUp(x) => tunnel'[x.h] = "up"
    BY <1>7, <1>10, <2>1 DEF PostOK
  <2> QED
    BY <1>3, <1>12, <1>13, <2>1, <2>2 DEF PostOK
<1>15. PostOK(m)'
  <2>1. m.h = h /\ m.type = opened[h].use /\ m.from = "tunnel" /\ ~IsFirst(m)
    BY <1>1 DEF IsFirst
  <2>2. IsUp(m) => tunnel'[h] = "up"
    BY <1>1, <1>2, <1>10 DEF IsUp
  <2> QED
    BY <1>3, <1>5, <1>12, <2>1, <2>2 DEF PostOK
<1>16. \A x \in Handles : TunnelOK(x)'
  <2> SUFFICES ASSUME NEW x \in Handles
               PROVE  TunnelOK(x)'
    OBVIOUS
  <2>1. TunnelOK(x)
    BY DEF ConnectionsKept
  <2> QED
    BY <1>3, <1>5, <1>10, <1>12, <1>13, <2>1 DEF TunnelOK
<1>17. \A a \in asked' : AskOK(a)'
  BY <1>3, <1>12, <1>13 DEF ConnectionsKept, AskOK
<1>18. \A x \in items' : ItemOK(x)'
  <2>1. ~IsFirst(m)
    BY <1>1 DEF IsFirst
  <2> QED
    BY <1>3, <1>9, <1>12, <2>1 DEF ConnectionsKept, ItemOK
<1>19. adopted' # 0 => adopted' \in Open' /\ opened'[adopted'].use = "Test"
  BY <1>3, <1>12 DEF ConnectionsKept
<1> QED
  BY <1>9, <1>11, <1>12, <1>14, <1>15, <1>16, <1>17, <1>18, <1>19 DEF ConnectionsKept

\* The end of a tunnel, told or not.
LEMMA TunnelEndsKeeps ==
  ASSUME ConnectionsKept, NEW h \in Handles, NEW ok \in BOOLEAN, TunnelEnds(h, ok)
  PROVE  ConnectionsKept'
<1>1. PICK m : m = [from |-> "channel", h |-> h, type |-> opened[h].use, ok |-> FALSE]
  OBVIOUS
<1>3. /\ tunnel[h] = "listening"
      /\ tunnel' = [tunnel EXCEPT ![h] = "gone"]
      /\ posted' = posted \/ posted' = Append(posted, m)
      /\ UNCHANGED <<opened, servers, type, connected, asked, items, progress, failures, shown,
                     dialog, adopted>>
  BY <1>1 DEF TunnelEnds, Post
<1>4. /\ TypeOK /\ ServersOK /\ NoClash(posted) /\ posted \in Seq(Answers)
      /\ tunnel \in [Handles -> {"none", "establishing", "up", "listening", "gone"}]
  BY DEF ConnectionsKept, TypeOK
<1>5. /\ h \in Open /\ opened[h].way = "ssh"
      /\ opened[h].use \in {"Primary", "Secondary", "Test"} /\ opened[h].use # "Refresh"
  BY <1>3, <1>4, HandlesFacts DEF ConnectionsKept, TunnelOK
<1>6. m \in Answers /\ m.h = h /\ ~IsUp(m) /\ ~IsFirst(m)
  BY <1>1, <1>5 DEF Answers, Types, IsUp, IsFirst
<1>7. \A x \in ToSet(posted) : x.h = h => ~IsUp(x)
  BY <1>3 DEF ConnectionsKept, PostOK
<1>8. \A x \in ToSet(posted) : ~Clash(x, m)
  BY <1>6 DEF Clash
<1>9. NoClash(posted') /\ ToSet(posted') \subseteq ToSet(posted) \cup {m} /\ posted' \in Seq(Answers)
  <2>1. CASE posted' = posted
    BY <1>4, <2>1
  <2>2. CASE posted' = Append(posted, m)
    BY <1>4, <1>6, <1>8, <2>2, ClashAppend
  <2> QED
    BY <1>3, <2>1, <2>2
<1>10. \A x \in Handles : tunnel'[x] = IF x = h THEN "gone" ELSE tunnel[x]
  BY <1>3, <1>4
<1>11. TypeOK'
  <2>1. tunnel' \in [Handles -> {"none", "establishing", "up", "listening", "gone"}]
    BY <1>3, <1>4
  <2> QED
    BY <1>3, <1>4, <1>9, <2>1 DEF TypeOK
<1>12. ServersOK' /\ Open' = Open /\ Open \subseteq Handles
  BY <1>3, <1>4, HandlesFacts DEF ServersOK, Open, Failed
<1>13. \A x \in Handles : Attempting(x)' => Attempting(x)
  BY <1>10 DEF Attempting
<1>14. \A x \in ToSet(posted) : PostOK(x)'
  <2> SUFFICES ASSUME NEW x \in ToSet(posted)
               PROVE  PostOK(x)'
    OBVIOUS
  <2>1. PostOK(x) /\ x.h \in Handles
    BY <1>12 DEF ConnectionsKept, PostOK
  <2>2. IsUp(x) => tunnel'[x.h] = "up"
    BY <1>7, <1>10, <2>1 DEF PostOK
  <2> QED
    BY <1>3, <1>12, <1>13, <2>1, <2>2 DEF PostOK
<1>15. PostOK(m)'
  <2>1. m.h = h /\ m.type = opened[h].use
    BY <1>1
  <2> QED
    BY <1>3, <1>5, <1>6, <1>12, <2>1 DEF PostOK
<1>16. \A x \in Handles : TunnelOK(x)'
  <2> SUFFICES ASSUME NEW x \in Handles
               PROVE  TunnelOK(x)'
    OBVIOUS
  <2>1. TunnelOK(x)
    BY DEF ConnectionsKept
  <2> QED
    BY <1>3, <1>5, <1>10, <1>12, <1>13, <2>1 DEF TunnelOK
<1>17. \A a \in asked' : AskOK(a)'
  BY <1>3, <1>12, <1>13 DEF ConnectionsKept, AskOK
<1>18. \A x \in items' : ItemOK(x)'
  BY <1>3, <1>6, <1>9, <1>12 DEF ConnectionsKept, ItemOK
<1>19. adopted' # 0 => adopted' \in Open' /\ opened'[adopted'].use = "Test"
  BY <1>3, <1>12 DEF ConnectionsKept
<1> QED
  BY <1>9, <1>11, <1>12, <1>14, <1>15, <1>16, <1>17, <1>18, <1>19 DEF ConnectionsKept

\* A worker's answer: the request it answers was the only one of its kind.
LEMMA MongoAnswersKeeps ==
  ASSUME ConnectionsKept, NEW a \in asked, NEW ok \in BOOLEAN, MongoAnswers(a, ok)
  PROVE  ConnectionsKept'
<1>1. PICK m : m = [from |-> "mongo", h |-> a.h, type |-> a.type, ok |-> ok]
  OBVIOUS
<1>3. /\ asked' = asked \ {a}
      /\ posted' = Append(posted, m)
      /\ UNCHANGED <<opened, servers, type, connected, tunnel, items, progress, failures, shown,
                     dialog, adopted>>
  BY <1>1 DEF MongoAnswers, Post
<1>4. TypeOK /\ ServersOK /\ NoClash(posted) /\ posted \in Seq(Answers) /\ AskOK(a) /\ a \in Ask
  BY DEF ConnectionsKept, TypeOK
<1>5. a.h \in Handles /\ a.type \in Types /\ a = [h |-> a.h, type |-> a.type]
  BY <1>4 DEF Ask
<1>6. m \in Answers /\ m.h = a.h /\ m.type = a.type /\ ~IsUp(m) /\ (IsFirst(m) <=> a.type # "Refresh")
  BY <1>1, <1>5 DEF Answers, IsUp, IsFirst
<1>7. \A x \in ToSet(posted) : ~Clash(x, m)
  <2> SUFFICES ASSUME NEW x \in ToSet(posted), x.h = a.h, IsFirst(x), a.type # "Refresh"
               PROVE  FALSE
    BY <1>6 DEF Clash
  <2>1. PostOK(x) /\ x.type # "Refresh"
    BY DEF ConnectionsKept, IsFirst
  <2>2. x.type = opened[x.h].use /\ a.type = opened[a.h].use
    BY <1>4, <2>1 DEF PostOK, AskOK
  <2>3. [h |-> x.h, type |-> x.type] \notin asked
    BY <2>1 DEF PostOK
  <2> QED
    BY <1>5, <2>2, <2>3
<1>9. NoClash(posted') /\ ToSet(posted') = ToSet(posted) \cup {m} /\ posted' \in Seq(Answers)
  BY <1>3, <1>4, <1>6, <1>7, ClashAppend
<1>11. TypeOK'
  BY <1>3, <1>4, <1>9 DEF TypeOK
<1>12. ServersOK' /\ Open' = Open /\ Open \subseteq Handles
  BY <1>3, <1>4, HandlesFacts DEF ServersOK, Open, Failed
<1>14. \A x \in ToSet(posted) : PostOK(x)'
  <2> SUFFICES ASSUME NEW x \in ToSet(posted)
               PROVE  PostOK(x)'
    OBVIOUS
  <2>1. PostOK(x)
    BY DEF ConnectionsKept
  <2>2. [h |-> x.h, type |-> x.type] \notin asked => [h |-> x.h, type |-> x.type] \notin asked'
    BY <1>3
  <2> QED
    BY <1>3, <1>12, <2>1, <2>2 DEF PostOK, Attempting
<1>15. PostOK(m)'
  <2>1. [h |-> m.h, type |-> m.type] \notin asked'
    BY <1>3, <1>5, <1>6
  <2>2. m.from = "mongo"
    BY <1>1
  <2> QED
    BY <1>3, <1>4, <1>6, <1>12, <2>1, <2>2 DEF PostOK, AskOK, Attempting
<1>16. \A x \in Handles : TunnelOK(x)'
  BY <1>3, <1>12 DEF ConnectionsKept, TunnelOK, Attempting
<1>17. \A x \in asked' : AskOK(x)'
  BY <1>3, <1>12 DEF ConnectionsKept, AskOK, Attempting
<1>18. \A x \in items' : ItemOK(x)'
  <2> SUFFICES ASSUME NEW x \in items
               PROVE  ItemOK(x)'
    BY <1>3
  <2>1. ItemOK(x)
    BY DEF ConnectionsKept
  <2>2. m.h = x => ~IsFirst(m)
    BY <1>4, <1>5, <1>6, <2>1 DEF ItemOK, AskOK
  <2> QED
    BY <1>3, <1>9, <1>12, <2>1, <2>2 DEF ItemOK
<1>19. adopted' # 0 => adopted' \in Open' /\ opened'[adopted'].use = "Test"
  BY <1>3, <1>12 DEF ConnectionsKept
<1> QED
  BY <1>9, <1>11, <1>12, <1>14, <1>15, <1>16, <1>17, <1>18, <1>19 DEF ConnectionsKept
-----------------------------------------------------------------------------
\* The UI thread takes the oldest answer; none of those left tells the same.
LEMMA TakeFacts ==
  ASSUME ConnectionsKept, NEW from, NEW ok, Take(from, ok)
  PROVE  /\ Head(posted) \in Answers /\ Head(posted) \in ToSet(posted) /\ PostOK(Head(posted))
         /\ Head(posted).h \in Open /\ Head(posted).h \in Handles
         /\ Head(posted).type \in Types
         /\ Head(posted).from = from /\ Head(posted).ok = ok
         /\ posted' \in Seq(Answers) /\ NoClash(posted') /\ ToSet(posted') \subseteq ToSet(posted)
         /\ \A x \in ToSet(posted') : ~Clash(x, Head(posted))
<1>1. /\ posted # <<>> /\ Head(posted).from = from /\ Head(posted).ok = ok
      /\ posted' = Tail(posted) /\ posted \in Seq(Answers) /\ NoClash(posted) /\ TypeOK
  BY DEF Take, ConnectionsKept, TypeOK
<1>2. /\ Head(posted) \in Answers /\ Head(posted) \in ToSet(posted)
      /\ posted' \in Seq(Answers) /\ NoClash(posted') /\ ToSet(posted') \subseteq ToSet(posted)
      /\ \A x \in ToSet(posted') : ~Clash(x, Head(posted))
  BY <1>1, ClashTail
<1>3. PostOK(Head(posted)) /\ Head(posted).h \in Open
  BY <1>2 DEF ConnectionsKept, PostOK
<1>4. Head(posted).h \in Handles /\ Head(posted).type \in Types
  BY <1>2 DEF Answers
<1> QED
  BY <1>1, <1>2, <1>3, <1>4

\* The server behind a tunnel is made: no server and no request was there for it.
LEMMA TunnelUpKeeps ==
  ASSUME ConnectionsKept, HandleTunnelUp
  PROVE  ConnectionsKept'
<1>1. PICK m : m = Head(posted)
  OBVIOUS
<1>2. PICK h : h = m.h
  OBVIOUS
<1>3. /\ Take("tunnel", TRUE)
      /\ type' = [type EXCEPT ![h] = m.type]
      /\ asked' = asked \cup {[h |-> h, type |-> m.type]}
      /\ servers' = Append(servers, h)
      /\ tunnel' = [tunnel EXCEPT ![h] = "listening"]
      /\ UNCHANGED <<opened, connected, items, progress, failures, shown, dialog, adopted>>
  BY <1>1, <1>2 DEF HandleTunnelUp, ContinueOpen
<1>4. /\ m \in ToSet(posted) /\ PostOK(m) /\ h \in Open /\ h \in Handles /\ m.type \in Types
      /\ m.from = "tunnel" /\ m.ok = TRUE
      /\ posted' \in Seq(Answers) /\ NoClash(posted') /\ ToSet(posted') \subseteq ToSet(posted)
      /\ \A x \in ToSet(posted') : ~Clash(x, m)
  BY <1>1, <1>2, <1>3, TakeFacts
<1>5. /\ TypeOK /\ ServersOK /\ servers \in Seq(0..MaxHandles) /\ NoTwice(servers)
      /\ tunnel \in [Handles -> {"none", "establishing", "up", "listening", "gone"}]
  BY DEF ConnectionsKept, TypeOK, ServersOK
<1>6. IsUp(m) /\ tunnel[h] = "up" /\ m.type # "Refresh" /\ m.type = opened[h].use /\ opened[h].way = "ssh"
      /\ m.h = h
  BY <1>2, <1>4 DEF IsUp, PostOK
<1>7. Attempting(h) /\ h \notin ToSet(servers) /\ h \in 0..MaxHandles
  BY <1>4, <1>6 DEF ConnectionsKept, TunnelOK, Attempting, Handles
<1>8. NoTwice(servers') /\ ToSet(servers') = ToSet(servers) \cup {h} /\ servers' \in Seq(0..MaxHandles)
  BY <1>3, <1>5, <1>7, TwiceAppend
<1>10. \A x \in Handles : tunnel'[x] = IF x = h THEN "listening" ELSE tunnel[x]
  BY <1>3, <1>5
<1>11. TypeOK'
  <2>1. tunnel' \in [Handles -> {"none", "establishing", "up", "listening", "gone"}]
    BY <1>3, <1>5
  <2>2. type' \in [Handles -> Types] /\ asked' \subseteq Ask
    BY <1>3, <1>4, <1>5 DEF TypeOK, Ask
  <2> QED
    BY <1>3, <1>4, <1>5, <1>8, <2>1, <2>2 DEF TypeOK
<1>12. Open' = Open /\ Open \subseteq Handles
  BY <1>3, <1>5, HandlesFacts DEF Open
<1>13. ServersOK'
  <2>1. ToSet(servers') \subseteq 0..Len(opened')
    <3>1. h \in 0..Len(opened)
      BY <1>4 DEF Open
    <3> QED
      BY <1>3, <1>5, <1>8, <3>1 DEF ServersOK
  <2>2. \A x \in Open : Failed(x)' => x \notin ToSet(servers')
    BY <1>3, <1>5, <1>6, <1>8 DEF ServersOK, Failed
  <2> QED
    BY <1>3, <1>5, <1>8, <1>12, <2>1, <2>2 DEF ServersOK
<1>14. \A x \in Handles : Attempting(x)' => Attempting(x) /\ x # h
  BY <1>10 DEF Attempting
<1>15. \A x \in ToSet(posted') : PostOK(x)'
  <2> SUFFICES ASSUME NEW x \in ToSet(posted')
               PROVE  PostOK(x)'
    OBVIOUS
  <2>1. PostOK(x) /\ x.h \in Handles /\ ~Clash(x, m)
    BY <1>4, <1>12 DEF ConnectionsKept, PostOK
  <2>2. IsUp(x) => x.h # h
    BY <1>6, <2>1 DEF Clash
  <2>3. IsFirst(x) => x.h # h
    BY <1>7, <2>1 DEF PostOK
  <2>4. IsFirst(x) => [h |-> x.h, type |-> x.type] \notin asked'
    BY <1>3, <2>1, <2>3 DEF PostOK
  <2>5. IsUp(x) => tunnel'[x.h] = "up"
    BY <1>10, <2>1, <2>2 DEF PostOK
  <2> QED
    BY <1>3, <1>12, <1>14, <2>1, <2>4, <2>5 DEF PostOK
<1>16. \A x \in Handles : TunnelOK(x)'
  <2> SUFFICES ASSUME NEW x \in Handles
               PROVE  TunnelOK(x)'
    OBVIOUS
  <2>1. TunnelOK(x)
    BY DEF ConnectionsKept
  <2>2. tunnel'[x] # "none" => x \in Open /\ opened[x].way = "ssh"
    BY <1>4, <1>6, <1>10, <2>1 DEF TunnelOK
  <2> QED
    BY <1>3, <1>8, <1>12, <1>14, <2>1, <2>2 DEF TunnelOK
<1>17. \A a \in asked' : AskOK(a)'
  <2>1. \A a \in asked : AskOK(a)'
    BY <1>3, <1>12, <1>14 DEF ConnectionsKept, AskOK
  <2>2. ~Attempting(h)'
    BY <1>4, <1>14
  <2>3. ASSUME NEW a \in asked', a \notin asked
        PROVE  AskOK(a)'
    <3>1. a.h = h /\ a.type = m.type
      BY <1>3, <2>3
    <3> QED
      BY <1>3, <1>4, <1>6, <1>12, <2>2, <3>1 DEF AskOK
  <2> QED
    BY <2>1, <2>3
<1>18. \A x \in items' : ItemOK(x)'
  <2> SUFFICES ASSUME NEW x \in items
               PROVE  ItemOK(x)'
    BY <1>3
  <2>1. ItemOK(x) /\ x # h
    BY <1>7 DEF ConnectionsKept, ItemOK
  <2>2. [h |-> x, type |-> "Primary"] \notin asked'
    BY <1>3, <2>1 DEF ItemOK
  <2> QED
    BY <1>3, <1>4, <1>8, <1>12, <2>1, <2>2 DEF ItemOK
<1>19. adopted' # 0 => adopted' \in Open' /\ opened'[adopted'].use = "Test"
  BY <1>3, <1>12 DEF ConnectionsKept
<1> QED
  BY <1>4, <1>11, <1>13, <1>15, <1>16, <1>17, <1>18, <1>19 DEF ConnectionsKept

\* What publishing a failure does to the types.
LEMMA PublishFacts ==
  ASSUME TypeOK, NEW h \in Handles, NEW use, NEW n \in Nat, PublishFailure(h, use, n)
  PROVE  /\ failures' = failures \cup {h}
         /\ failures' \subseteq Handles /\ shown' \subseteq Handles /\ progress' \in Nat
<1>1. \A k \in Nat : AtLeast0(k - n) \in Nat
  BY DEF AtLeast0
<1> QED
  BY <1>1 DEF TypeOK, PublishFailure

\* A tunnel's failure: there is no server to close, and the connection is no direct one.
LEMMA TunnelFailureKeeps ==
  ASSUME ConnectionsKept, HandleTunnelFailure
  PROVE  ConnectionsKept'
<1>1. PICK m : m = Head(posted)
  OBVIOUS
<1>2. PICK from : from \in {"tunnel", "channel"} /\ Take(from, FALSE)
  BY DEF HandleTunnelFailure
<1>3. /\ PublishFailure(m.h, m.type, 1)
      /\ UNCHANGED <<opened, servers, type, connected, tunnel, asked, items, dialog, adopted>>
  BY <1>1 DEF HandleTunnelFailure
<1>4. /\ PostOK(m) /\ m.h \in Open /\ m.h \in Handles /\ m.from = from
      /\ posted' \in Seq(Answers) /\ NoClash(posted') /\ ToSet(posted') \subseteq ToSet(posted)
  BY <1>1, <1>2, TakeFacts
<1>5. TypeOK /\ ServersOK /\ NoTwice(servers)
  BY DEF ConnectionsKept, ServersOK
<1>6. /\ failures' = failures \cup {m.h}
      /\ failures' \subseteq Handles /\ shown' \subseteq Handles /\ progress' \in Nat
  BY <1>3, <1>4, <1>5, PublishFacts
<1>7. TypeOK'
  BY <1>3, <1>4, <1>5, <1>6 DEF TypeOK
<1>8. opened[m.h].way = "ssh"
  BY <1>2, <1>4 DEF PostOK
<1>9. /\ failures' \subseteq Open
      /\ \A h \in Open : Failed(h)' => h \notin ToSet(servers')
  BY <1>3, <1>4, <1>5, <1>6, <1>8 DEF ServersOK, Failed
<1>10. \A x \in items' : x \in items /\ x \in ToSet(servers')
  BY <1>3 DEF ConnectionsKept, ItemOK
<1>11. adopted' # 0 => adopted' \in Open /\ opened[adopted'].use = "Test"
  BY <1>3 DEF ConnectionsKept
<1> QED
  BY <1>3, <1>4, <1>5, <1>7, <1>9, <1>10, <1>11, StepKeeps

\* A success: the item the explorer gets is of a server the application still owns.
LEMMA ConnectedKeeps ==
  ASSUME ConnectionsKept, HandleConnected
  PROVE  ConnectionsKept'
<1>1. PICK m : m = Head(posted)
  OBVIOUS
<1>2. PICK h : h = m.h
  OBVIOUS
<1>3. /\ Take("mongo", TRUE)
      /\ IF ~Owned(h) THEN UNCHANGED <<type, connected, items, progress, adopted>>
         ELSE /\ type' = [type EXCEPT ![h] = m.type]
              /\ connected' = connected \cup {h}
              /\ IF m.type = "Primary"
                 THEN items' = items \cup {h} /\ progress' = AtLeast0(progress - 1)
                 ELSE UNCHANGED <<items, progress>>
              /\ adopted' = IF m.type = "Test" /\ dialog # 0 THEN h ELSE adopted
      /\ UNCHANGED <<opened, servers, tunnel, asked, failures, shown, dialog>>
  BY <1>1, <1>2 DEF HandleConnected
<1>4. /\ PostOK(m) /\ h \in Open /\ h \in Handles /\ m.type \in Types /\ m.from = "mongo"
      /\ posted' \in Seq(Answers) /\ NoClash(posted') /\ ToSet(posted') \subseteq ToSet(posted)
      /\ \A x \in ToSet(posted') : ~Clash(x, m)
  BY <1>1, <1>2, <1>3, TakeFacts
<1>5. TypeOK /\ ServersOK /\ NoTwice(servers)
  BY DEF ConnectionsKept, ServersOK
<1>6. /\ items' \subseteq items \cup {h}
      /\ h \in items' => h \in items \/ (m.type = "Primary" /\ Owned(h))
      /\ adopted' = adopted \/ (adopted' = h /\ m.type = "Test")
  BY <1>3
<1>7. TypeOK'
  <2>1. progress' \in Nat
    <3>1. \A k \in Nat : AtLeast0(k - 1) \in Nat
      BY DEF AtLeast0
    <3> QED
      BY <1>3, <1>5, <3>1 DEF TypeOK
  <2>2. type' \in [Handles -> Types]
    BY <1>3, <1>4, <1>5 DEF TypeOK
  <2>3. connected' \subseteq Handles /\ items' \subseteq Handles
    BY <1>3, <1>4, <1>5 DEF TypeOK
  <2>4. adopted' \in 0..MaxHandles
    BY <1>4, <1>5, <1>6 DEF TypeOK, Handles
  <2> QED
    BY <1>3, <1>4, <1>5, <2>1, <2>2, <2>3, <2>4 DEF TypeOK
<1>8. m.type # "Refresh" => m.type = opened[h].use
  BY <1>2, <1>4 DEF PostOK
<1>9. \A x \in items' : x \in ToSet(servers') /\ (x \in items \/ ItemOK(x)')
  <2> SUFFICES ASSUME NEW x \in items'
               PROVE  x \in ToSet(servers') /\ (x \in items \/ ItemOK(x)')
    OBVIOUS
  <2>1. CASE x \in items
    BY <1>3, <2>1 DEF ConnectionsKept, ItemOK
  <2>2. CASE x \notin items
    <3>1. x = h /\ m.type = "Primary" /\ h \in ToSet(servers)
      BY <1>6, <2>2, OwnedIs
    <3>2. IsFirst(m) /\ opened[h].use = "Primary"
      BY <1>4, <1>8, <3>1 DEF IsFirst
    <3>3. [h |-> h, type |-> "Primary"] \notin asked
      BY <1>2, <1>4, <3>1, <3>2 DEF PostOK
    <3>4. \A y \in ToSet(posted') : y.h = h => ~IsFirst(y)
      BY <1>2, <1>4, <3>2 DEF Clash
    <3>5. h \in Open'
      BY <1>3, <1>4 DEF Open
    <3> QED
      BY <1>3, <3>1, <3>2, <3>3, <3>4, <3>5 DEF ItemOK
  <2> QED
    BY <2>1, <2>2
<1>10. adopted' # 0 => adopted' \in Open /\ opened[adopted'].use = "Test"
  BY <1>4, <1>6, <1>8 DEF ConnectionsKept
<1> QED
  BY <1>3, <1>4, <1>5, <1>7, <1>9, <1>10, StepKeeps, NoFailure

\* A failure: the server of a first attempt is closed, and has no item yet.
LEMMA NotConnectedKeeps ==
  ASSUME ConnectionsKept, HandleNotConnected
  PROVE  ConnectionsKept'
<1>1. PICK m : m = Head(posted)
  OBVIOUS
<1>2. PICK h : h = m.h
  OBVIOUS
<1>3. /\ Take("mongo", FALSE)
      /\ IF ~Owned(h) THEN UNCHANGED <<servers, type, connected, progress, failures, shown>>
         ELSE /\ type' = [type EXCEPT ![h] = m.type]
              /\ connected' = connected \ {h}
              /\ PublishFailure(h, m.type, IF opened[h].way = "set" THEN 2 ELSE 1)
              /\ servers' = IF opened[h].way # "set" /\ m.type \in {"Primary", "Test"}
                            THEN Closed(h) ELSE servers
      /\ UNCHANGED <<opened, tunnel, asked, items, dialog, adopted>>
  BY <1>1, <1>2 DEF HandleNotConnected
<1>4. /\ PostOK(m) /\ m \in ToSet(posted) /\ h \in Open /\ h \in Handles /\ m.type \in Types /\ m.from = "mongo"
      /\ posted' \in Seq(Answers) /\ NoClash(posted') /\ ToSet(posted') \subseteq ToSet(posted)
  BY <1>1, <1>2, <1>3, TakeFacts
<1>5. TypeOK /\ ServersOK /\ NoTwice(servers) /\ servers \in Seq(0..MaxHandles)
  BY DEF ConnectionsKept, ServersOK, TypeOK
<1>6. adopted' # 0 => adopted' \in Open /\ opened[adopted'].use = "Test"
  BY <1>3 DEF ConnectionsKept
<1>7. \A x \in items : x \in ToSet(servers)
  BY DEF ConnectionsKept, ItemOK
<1>8. CASE ~Owned(h)
  <2>1. UNCHANGED <<servers, type, connected, progress, failures, shown>>
    BY <1>3, <1>8
  <2>2. TypeOK'
    BY <1>3, <1>4, <1>5, <2>1 DEF TypeOK
  <2> QED
    BY <1>3, <1>4, <1>5, <1>6, <1>7, <2>1, <2>2, StepKeeps, NoFailure
<1>9. CASE Owned(h)
  <2>1. /\ type' = [type EXCEPT ![h] = m.type]
        /\ connected' = connected \ {h}
        /\ PublishFailure(h, m.type, IF opened[h].way = "set" THEN 2 ELSE 1)
        /\ servers' = IF opened[h].way # "set" /\ m.type \in {"Primary", "Test"}
                      THEN Closed(h) ELSE servers
    BY <1>3, <1>9
  <2>2. PICK n \in Nat : PublishFailure(h, m.type, n)
    BY <2>1
  <2>3. /\ failures' = failures \cup {h}
        /\ failures' \subseteq Handles /\ shown' \subseteq Handles /\ progress' \in Nat
    BY <1>4, <1>5, <2>2, PublishFacts
  <2>4. Closed(h) \in Seq(0..MaxHandles) /\ NoTwice(Closed(h)) /\ ToSet(Closed(h)) = ToSet(servers) \ {h}
    BY <1>4, <1>5, ClosedFacts
  <2>5. /\ servers' \in Seq(0..MaxHandles) /\ NoTwice(servers') /\ ToSet(servers') \subseteq ToSet(servers)
        /\ \A x \in ToSet(servers) : x # h => x \in ToSet(servers')
    BY <1>5, <2>1, <2>4
  <2>6. TypeOK'
    <3>1. type' \in [Handles -> Types] /\ connected' \subseteq Handles
      BY <1>4, <1>5, <2>1 DEF TypeOK
    <3> QED
      BY <1>3, <1>4, <1>5, <2>3, <2>5, <3>1 DEF TypeOK
  <2>7. Failed(h)' => h \notin ToSet(servers')
    <3> SUFFICES ASSUME Failed(h)'
                 PROVE  h \notin ToSet(servers')
      OBVIOUS
    <3>1. opened[h].way = "direct" /\ opened[h].use # "Secondary"
      BY <1>3 DEF Failed
    <3>2. opened[h].use \in {"Primary", "Secondary", "Test"}
      BY <1>4, <1>5, HandlesFacts
    <3>3. m.type = opened[h].use
      BY <1>2, <1>4, <3>1 DEF PostOK
    <3> QED
      BY <2>1, <2>4, <3>1, <3>2, <3>3
  <2>8. /\ failures' \subseteq Open
        /\ \A x \in Open : Failed(x)' => x \notin ToSet(servers')
    BY <1>3, <1>4, <1>5, <2>3, <2>5, <2>7 DEF ServersOK, Failed
  <2>9. \A x \in items' : x \in items /\ x \in ToSet(servers')
    <3>1. CASE h \in items
      <4>1. ~IsFirst(m)
        BY <1>2, <1>4, <3>1 DEF ConnectionsKept, ItemOK
      <4>2. m.type = "Refresh"
        BY <1>4, <4>1 DEF IsFirst
      <4> QED
        BY <1>3, <1>7, <2>1, <4>2
    <3>2. CASE h \notin items
      BY <1>3, <1>7, <2>5, <3>2
    <3> QED
      BY <3>1, <3>2
  <2> QED
    BY <1>3, <1>4, <1>6, <2>5, <2>6, <2>8, <2>9, StepKeeps
<1> QED
  BY <1>8, <1>9
-----------------------------------------------------------------------------
LEMMA NextKeeps ==
  ASSUME ConnectionsKept, [Next]_vars
  PROVE  ConnectionsKept'
<1>1. CASE User
  BY <1>1, OpenServerKeeps, CloseDialogKeeps, DisconnectKeeps, RefreshKeeps DEF User
<1>2. CASE Tunnels
  BY <1>2, TunnelAnswersKeeps DEF Tunnels
<1>3. CASE TunnelsEnd
  BY <1>3, TunnelEndsKeeps DEF TunnelsEnd
<1>4. CASE Workers
  BY <1>4, MongoAnswersKeeps DEF Workers
<1>5. CASE Ui
  BY <1>5, TunnelUpKeeps, TunnelFailureKeeps, ConnectedKeeps, NotConnectedKeeps DEF Ui
<1>6. CASE UNCHANGED vars
  <2>1. UNCHANGED <<opened, servers, type, connected, tunnel, asked, posted, items, progress,
                    failures, shown, dialog, adopted>>
    BY <1>6 DEF vars
  <2>2. TypeOK'
    BY <2>1 DEF ConnectionsKept, TypeOK
  <2>3. NoTwice(servers) /\ NoClash(posted) /\ \A x \in items : x \in ToSet(servers)
    BY DEF ConnectionsKept, ServersOK, ItemOK
  <2>4. adopted' # 0 => adopted' \in Open /\ opened[adopted'].use = "Test"
    BY <2>1 DEF ConnectionsKept
  <2> QED
    BY <2>1, <2>2, <2>3, <2>4, StepKeeps, NoFailure
<1> QED
  BY <1>1, <1>2, <1>3, <1>4, <1>5, <1>6 DEF Next

\* The invariant says what was meant.
LEMMA KeptAreOwned ==
  ASSUME ConnectionsKept
  PROVE  ServersAreOwned
<1>1. TypeOK /\ ServersOK
  BY DEF ConnectionsKept
<1>2. ASSUME NEW h \in items
      PROVE  Cardinality({i \in DOMAIN servers : servers[i] = h}) = 1
  <2>1. ItemOK(h) /\ h # 0
    BY <1>1, HandlesFacts DEF ConnectionsKept, ItemOK
  <2>2. PICK i \in DOMAIN servers : servers[i] = h
    BY <2>1 DEF ItemOK, ToSet
  <2>3. {j \in DOMAIN servers : servers[j] = h} = {i}
    BY <1>1, <2>1, <2>2 DEF ServersOK, NoTwice
  <2> QED
    BY <2>3, FS_Singleton
<1>3. ASSUME NEW h \in failures, opened[h] \in [way : {"direct"}, use : {"Primary", "Test"}]
      PROVE  ~Owned(h)
  <2>1. opened[h].way = "direct" /\ opened[h].use # "Secondary"
    BY <1>3
  <2> QED
    BY <1>1, <2>1, OwnedIs DEF ServersOK, Failed
<1> QED
  BY <1>1, <1>2, <1>3 DEF ServersAreOwned, ItemsAreOwned, FailedAreClosed

\* MongoServer.cpp:412-478, App.cpp:92-179 and 285-330: whatever is opened, in which
\* way and for what, and in whatever order tunnels and workers answer, an item of the
\* explorer is backed by exactly one server the application owns, and a direct
\* connection that failed leaves no server behind.
THEOREM ServersAreKept == Spec => []ServersAreOwned
<1>1. Init => ConnectionsKept
  BY InitKeeps
<1>2. ConnectionsKept /\ [Next]_vars => ConnectionsKept'
  BY NextKeeps
<1>3. ConnectionsKept => ServersAreOwned
  BY KeptAreOwned
<1> QED
  BY <1>1, <1>2, <1>3, PTL DEF Spec

-----------------------------------------------------------------------------
\* The explorer tree.  What an answer says, beside what its request asked for.
Answer == [op : TreeOps, from : Nat, f : Folders \cup {None}, n : Names \cup {None}, ok : BOOLEAN,
           data : BOOLEAN \cup SUBSET Names]
RenewingOps == {"databases", "connect"} \cup DatabaseOps

\* A message is of an object, or of collection items, made before.
MessageOK(m) ==
  /\ m.from < fresh
  /\ m.op \in SetOps => kind = "set"
  /\ m.op \in {"databases", "createDb"} => kind = "single"
  /\ m.op \in {"load"} \cup NameOps => m.f \in Folders /\ m.from # Server
  /\ m.op \in NameOps \cup IndexOps => m.n \in Names
  /\ m.op = "rename" => m.f # "Users"
  /\ m.op \in IndexOps => m.f = "Collections" /\ m.from # Server
AskOfTree(r) == MessageOK(r) /\ (r.op \in {"rename", "duplicate"} => r.m \in Names)
AnswerOfTree(a) ==
  /\ MessageOK(a)
  /\ a.ok /\ a.op = "load" => a.data \subseteq Names
  /\ a.ok /\ a.op \in {"databases", "connect", "indexes"} => a.data \in BOOLEAN

AsksKept == \A i \in DOMAIN requests : AskOfTree(requests[i])
AnswersKept == answers \in Seq(Answer) /\ \A i \in DOMAIN answers : AnswerOfTree(answers[i])
ObjectsKept ==
  /\ IsFiniteSet(objects) /\ \A o \in objects : o < fresh
  /\ DOMAIN dbItems \subseteq objects
  /\ \A o \in DOMAIN dbItems : dbItems[o].batch < fresh

\* The indexes that are shown, or asked for by collection items, are of collections that are
\* shown; the collection items of two objects are not the same.
IndexesAreOfShown(it) ==
  /\ it.ishown \subseteq it.shown["Collections"]
  /\ it.shown["Collections"] # {} => it.batch # 0
  /\ \A i \in DOMAIN requests :
       requests[i].op \in IndexOps /\ requests[i].from = it.batch => requests[i].n \in it.shown["Collections"]
  /\ \A i \in DOMAIN answers :
       answers[i].op \in IndexOps /\ answers[i].from = it.batch => answers[i].n \in it.shown["Collections"]
IndexesKept ==
  /\ \A o \in DOMAIN dbItems : ~dbItems[o].gutted => IndexesAreOfShown(dbItems[o])
  /\ \A o, p \in DOMAIN dbItems : dbItems[o].batch = dbItems[p].batch /\ dbItems[o].batch # 0 => o = p

TreeTyped == TreeTypeOK /\ AsksKept /\ AnswersKept /\ ObjectsKept /\ IndexesKept

\* The connection of a set is made again.
ConnectPends == \/ \E i \in DOMAIN requests : requests[i].op = "connect"
                \/ \E i \in DOMAIN answers : answers[i].op = "connect"

\* A primary that was lost is shown, or found again as soon as the answer comes.
OfflineKept ==
  /\ label = "offline" => wasLost
  /\ wasLost => label = "offline" \/ ConnectPends
  /\ \A o \in DOMAIN dbItems : wasLost => dbItems[o].gutted
  /\ ConnectPends \/ \A o \in DOMAIN dbItems : dbItems[o].gutted => wasLost

\* All lists of databases after the k-th answer, which says that it was created, hold it;
\* if no such answer is to come, the tree shows it or asks for the list.
ListsHoldIt(k) ==
  /\ k = 0 \/ (answers[k].op = "createDb" /\ answers[k].ok)
  /\ \A j \in DOMAIN answers : j > k /\ answers[j].op = "databases" /\ answers[j].ok => answers[j].data
  /\ k = 0 /\ label = "counted" => objects # {}
CreatedKept ==
  kind = "single" /\ made => created /\ ~Exists /\ \E k \in 0..Len(answers) : ListsHoldIt(k)

\* What is shown of x, a folder or the indexes of a collection, is of the folder:
Folder(x) == IF x \in Names THEN "Collections" ELSE x

\* The message m will replace what is shown of x, or say that it may be stale; b are the
\* collection items shown, the sender of other index requests is deleted.
Revises(m, x, b) ==
  \/ m.op \in RenewingOps
  \/ m.op \in NameOps \cup {"load"} /\ m.f = Folder(x)
  \/ m.op \in IndexOps /\ Folder(x) = "Collections" /\ m.from # b
AskRevises(r, x, b) == Revises(r, x, b) \/ (r.op \in IndexOps /\ r.n = x)

\* The same of an answer; the sender of an index request is deleted too when a list of the
\* collections comes first.
ListsCollections(a) == a.op = "load" /\ a.ok /\ a.f = "Collections"
AnswerRevises(j, x, b) ==
  LET a == answers[j] IN
  \/ Revises(a, x, b)
  \/ a.op \in IndexOps /\ Folder(x) = "Collections" /\ \E k \in 1..(j - 1) : ListsCollections(answers[k])
  \/ a.op \in IndexOps /\ a.n = x /\ ~(a.ok /\ a.op \in {"addIndex", "editIndex"})
Revised(x, b, i) ==
  \/ \E j \in DOMAIN requests : AskRevises(requests[j], x, b)
  \/ \E j \in DOMAIN answers : j > i /\ AnswerRevises(j, x, b)

\* The list a that is on its way to the object o, or to the collection items b.
ListsFolder(a, o, f) == a.op = "load" /\ a.ok /\ a.f = f /\ a.from = o
ListsIndexes(a, b, n) == a.op \in {"indexes", "dropIndex"} /\ a.ok /\ a.n = n /\ a.from = b

\* What a folder of the item it of o shows is what the server has, or it is revised.
FolderShown(it, f) ==
  it.label[f] = "counted" /\ f \notin toldOf /\ "Databases" \notin toldOf
    => it.shown[f] = part[f] \/ Revised(f, it.batch, 0)
FolderListed(it, o, f) ==
  \A i \in DOMAIN answers :
    ListsFolder(answers[i], o, f) => answers[i].data = part[f] \/ Revised(f, it.batch, i)

IndexShown(it, n) ==
  n \in it.shown["Collections"] /\ it.ilabel[n] = "counted"
  /\ n \notin toldOf /\ "Collections" \notin toldOf /\ "Databases" \notin toldOf
    => (n \in it.ishown <=> n \in indexed) \/ Revised(n, it.batch, 0)
IndexListed(it, n) ==
  \A i \in DOMAIN answers :
    ListsIndexes(answers[i], it.batch, n) =>
      \/ n \in indexed <=> (answers[i].op = "indexes" /\ answers[i].data)
      \/ Revised(n, it.batch, i)

ItemKept(it, o) ==
  /\ \A f \in Folders : FolderShown(it, f) /\ FolderListed(it, o, f)
  /\ \A n \in Names : IndexShown(it, n) /\ IndexListed(it, n)

\* The only object of the database has an item whose folders are there.
IsShown(o) == objects = {o} /\ o \in DOMAIN dbItems /\ ~dbItems[o].gutted
ContentsKept == \A o \in objects : IsShown(o) => ItemKept(dbItems[o], o)
TreeInv == TreeTyped /\ (~dangling => OfflineKept /\ CreatedKept /\ ContentsKept)
-----------------------------------------------------------------------------
\* The user's steps: a request is posted, and dots may be shown.
OnlyDots(it, jt) ==
  /\ jt.shown = it.shown /\ jt.batch = it.batch /\ jt.ishown = it.ishown /\ jt.gutted = it.gutted
  /\ \A f \in Folders : jt.label[f] = "counted" => it.label[f] = "counted"
  /\ \A n \in Names : jt.ilabel[n] = "counted" => it.ilabel[n] = "counted"
Asked(r) ==
  /\ r \in TreeAsk /\ AskOfTree(r)
  /\ \A o \in DOMAIN dbItems :
       ~dbItems[o].gutted /\ r.op \in IndexOps /\ r.from = dbItems[o].batch => r.n \in dbItems[o].shown["Collections"]
  /\ requests' = Append(requests, r)
  /\ UNCHANGED <<kind, part, indexed, created, made, answers, objects, wasLost, fresh, toldOf, dangling>>
  /\ asks' \in 0..MaxAsks
  /\ dbItems' \in [DOMAIN dbItems -> Item] /\ \A o \in DOMAIN dbItems : OnlyDots(dbItems[o], dbItems'[o])
  /\ label' \in Labels \cup {"offline"} /\ (label' # label => label' = "loading" /\ r.op \in {"databases", "connect"})
  /\ setLabel' \in Labels

LEMMA ItemFields ==
  ASSUME NEW it \in Item
  PROVE  /\ it = [label |-> it.label, shown |-> it.shown, batch |-> it.batch,
                  ilabel |-> it.ilabel, ishown |-> it.ishown, gutted |-> it.gutted]
         /\ it.label \in [Folders -> Labels] /\ it.shown \in [Folders -> SUBSET Names] /\ it.batch \in Nat
         /\ it.ilabel \in [Names -> Labels] /\ it.ishown \subseteq Names /\ it.gutted \in BOOLEAN
BY DEF Item

LEMMA SameDots ==
  ASSUME NEW it \in Item PROVE OnlyDots(it, it)
BY DEF OnlyDots

\* Dots on a folder.
LEMMA FolderDots ==
  ASSUME NEW it \in Item, NEW f \in Folders, NEW jt, jt = [it EXCEPT !.label[f] = "loading"]
  PROVE  jt \in Item /\ OnlyDots(it, jt) /\ jt.label[f] = "loading"
<1>1. /\ jt.label = [it.label EXCEPT ![f] = "loading"] /\ jt.shown = it.shown /\ jt.batch = it.batch
      /\ jt.ilabel = it.ilabel /\ jt.ishown = it.ishown /\ jt.gutted = it.gutted
  BY DEF Item
<1>2. jt = [label |-> jt.label, shown |-> jt.shown, batch |-> jt.batch,
            ilabel |-> jt.ilabel, ishown |-> jt.ishown, gutted |-> jt.gutted]
  BY DEF Item
<1>3. jt.label \in [Folders -> Labels]
  BY <1>1, ItemFields DEF Labels
<1>4. jt \in Item
  BY <1>1, <1>2, <1>3, ItemFields DEF Item
<1> QED
  BY <1>1, <1>4, ItemFields DEF OnlyDots

\* Dots on the indexes of a collection.
LEMMA IndexDots ==
  ASSUME NEW it \in Item, NEW n \in Names, NEW jt, jt = [it EXCEPT !.ilabel[n] = "loading"]
  PROVE  jt \in Item /\ OnlyDots(it, jt)
<1>1. /\ jt.ilabel = [it.ilabel EXCEPT ![n] = "loading"] /\ jt.shown = it.shown /\ jt.batch = it.batch
      /\ jt.label = it.label /\ jt.ishown = it.ishown /\ jt.gutted = it.gutted
  BY DEF Item
<1>2. jt = [label |-> jt.label, shown |-> jt.shown, batch |-> jt.batch,
            ilabel |-> jt.ilabel, ishown |-> jt.ishown, gutted |-> jt.gutted]
  BY DEF Item
<1>3. jt.ilabel \in [Names -> Labels]
  BY <1>1, ItemFields DEF Labels
<1>4. jt \in Item
  BY <1>1, <1>2, <1>3, ItemFields DEF Item
<1> QED
  BY <1>1, <1>4, ItemFields DEF OnlyDots

LEMMA AllSameDots ==
  ASSUME TreeTypeOK, dbItems' = dbItems
  PROVE  dbItems' \in [DOMAIN dbItems -> Item] /\ \A o \in DOMAIN dbItems : OnlyDots(dbItems[o], dbItems'[o])
<1>1. \A o \in DOMAIN dbItems : dbItems[o] \in Item
  BY DEF TreeTypeOK
<1> QED
  BY <1>1, SameDots DEF TreeTypeOK

\* Dots put on the folder of an item, if the object has one.
LEMMA LoadingDots ==
  ASSUME TreeTypeOK, NEW o, NEW f \in Folders, dbItems' = Loading(o, f)
  PROVE  /\ dbItems' \in [DOMAIN dbItems -> Item]
         /\ \A p \in DOMAIN dbItems : OnlyDots(dbItems[p], dbItems'[p])
<1>1. \A p \in DOMAIN dbItems : dbItems[p] \in Item
  BY DEF TreeTypeOK
<1>2. dbItems' = [p \in DOMAIN dbItems |-> IF p = o THEN [dbItems[p] EXCEPT !.label[f] = "loading"] ELSE dbItems[p]]
  BY DEF Loading, TreeTypeOK
<1>3. ASSUME NEW p \in DOMAIN dbItems
      PROVE  dbItems'[p] \in Item /\ OnlyDots(dbItems[p], dbItems'[p])
  <2>1. PICK it \in Item : it = dbItems[p]
    BY <1>1
  <2>2. CASE p = o
    <3>1. dbItems'[p] = [it EXCEPT !.label[f] = "loading"]
      BY <1>2, <2>1, <2>2
    <3> QED
      BY <2>1, <3>1, FolderDots
  <2>3. CASE p # o
    <3>1. dbItems'[p] = it
      BY <1>2, <2>1, <2>3
    <3> QED
      BY <2>1, <3>1, SameDots
  <2> QED
    BY <2>2, <2>3
<1>4. DOMAIN dbItems' = DOMAIN dbItems /\ dbItems' = [p \in DOMAIN dbItems |-> dbItems'[p]]
  BY <1>2
<1> QED
  BY <1>3, <1>4

LEMMA AskIsRecord ==
  ASSUME NEW op \in TreeOps, NEW from \in Nat, NEW f \in Folders \cup {None}, NEW n \in Names \cup {None},
         NEW m \in Names \cup {None}, NEW r, r = AskOf(op, from, f, n, m)
  PROVE  r \in TreeAsk /\ r.op = op /\ r.from = from /\ r.f = f /\ r.n = n /\ r.m = m
BY DEF AskOf, TreeAsk

\* The request to list the databases again.
LEMMA ListAsk ==
  ASSUME TreeTypeOK, NEW r,
         r = AskOf(IF kind = "set" THEN "connect" ELSE "databases", Server, None, None, None)
  PROVE  /\ r \in TreeAsk /\ AskOfTree(r) /\ r.op \in {"databases", "connect"}
         /\ r.op = (IF kind = "set" THEN "connect" ELSE "databases")
<1>1. PICK op \in TreeOps : op = IF kind = "set" THEN "connect" ELSE "databases"
  BY DEF TreeOps, SetOps
<1>2. r \in TreeAsk /\ r.op = op /\ r.from = Server
  <2>1. r = AskOf(op, Server, None, None, None) /\ Server \in Nat
    BY <1>1 DEF Server
  <2> QED
    BY <2>1, AskIsRecord
<1> QED
  BY <1>1, <1>2 DEF AskOfTree, MessageOK, TreeTypeOK, Server, SetOps, NameOps, IndexOps

\* A step that posts r and shows no dots on the items.
LEMMA PlainAsk ==
  ASSUME TreeTypeOK, NEW r \in TreeAsk, AskOfTree(r), MayAsk, Idle, PostAsk(r), UNCHANGED tree,
         \A o \in DOMAIN dbItems : ~dbItems[o].gutted /\ r.op \in IndexOps /\ r.from = dbItems[o].batch
                                  => r.n \in dbItems[o].shown["Collections"]
  PROVE  Asked(r)
<1>1. asks' \in 0..MaxAsks
  BY AsksAssumption DEF MayAsk, TreeTypeOK
<1>2. UNCHANGED <<kind, part, indexed, created, made, answers, dangling>>
  BY DEF Idle, server
<1>3. UNCHANGED <<objects, dbItems, label, setLabel, wasLost, fresh, toldOf>>
  BY DEF tree
<1>4. requests' = Append(requests, r)
  BY DEF PostAsk
<1>5. dbItems' \in [DOMAIN dbItems -> Item] /\ \A o \in DOMAIN dbItems : OnlyDots(dbItems[o], dbItems'[o])
  BY <1>3, AllSameDots
<1>6. label' \in Labels \cup {"offline"} /\ setLabel' \in Labels
  BY <1>3 DEF TreeTypeOK
<1> QED
  BY <1>1, <1>2, <1>3, <1>4, <1>5, <1>6 DEF Asked

LEMMA RefreshAsks ==
  ASSUME TreeInv, RefreshServer \/ RefreshSetFolder
  PROVE  \E r \in TreeAsk : Asked(r)
<1>1. TreeTypeOK
  BY DEF TreeInv, TreeTyped
<1>2. MayAsk /\ Idle /\ UNCHANGED <<objects, dbItems, wasLost, fresh, toldOf>>
  BY DEF RefreshServer, RefreshSetFolder
<1>3. asks' \in 0..MaxAsks
  BY <1>1, <1>2, AsksAssumption DEF MayAsk, TreeTypeOK
<1>4. UNCHANGED <<kind, part, indexed, created, made, answers, dangling>>
  BY <1>2 DEF Idle, server
<1>5. dbItems' \in [DOMAIN dbItems -> Item] /\ \A o \in DOMAIN dbItems : OnlyDots(dbItems[o], dbItems'[o])
  BY <1>1, <1>2, AllSameDots
<1>6. CASE RefreshServer
  <2>1. PICK r : r = AskOf(IF kind = "set" THEN "connect" ELSE "databases", Server, None, None, None)
    OBVIOUS
  <2>2. requests' = Append(requests, r) /\ label' = "loading" /\ setLabel' = setLabel
    BY <1>6, <2>1 DEF RefreshServer, LoadDatabases, PostAsk
  <2>3. r \in TreeAsk /\ AskOfTree(r) /\ r.op \in {"databases", "connect"}
    BY <1>1, <2>1, ListAsk
  <2>4. label' \in Labels \cup {"offline"} /\ setLabel' \in Labels
    BY <1>1, <2>2 DEF TreeTypeOK, Labels
  <2>5. Asked(r)
    BY <1>2, <1>3, <1>4, <1>5, <2>2, <2>3, <2>4 DEF Asked, IndexOps
  <2> QED
    BY <2>3, <2>5
<1>7. CASE RefreshSetFolder
  <2>1. PICK r : r = AskOf("folder", Server, None, None, None)
    OBVIOUS
  <2>2. requests' = Append(requests, r) /\ label' = label /\ setLabel' = "loading" /\ kind = "set"
    BY <1>7, <2>1 DEF RefreshSetFolder, PostAsk
  <2>3. r \in TreeAsk /\ r.op = "folder" /\ r.from = Server
    BY <2>1, AskIsRecord DEF TreeOps, SetOps, Server
  <2>4. AskOfTree(r)
    BY <1>1, <2>2, <2>3 DEF AskOfTree, MessageOK, TreeTypeOK, Server, NameOps, IndexOps
  <2>5. label' \in Labels \cup {"offline"} /\ setLabel' \in Labels
    BY <1>1, <2>2 DEF TreeTypeOK, Labels
  <2>6. Asked(r)
    BY <1>2, <1>3, <1>4, <1>5, <2>2, <2>3, <2>4, <2>5 DEF Asked, IndexOps
  <2> QED
    BY <2>3, <2>6
<1> QED
  BY <1>6, <1>7

LEMMA DatabaseAsks ==
  ASSUME TreeInv, \/ AskCreateDatabase /\ kind = "single"
                  \/ \E o \in DOMAIN dbItems : AskDropDatabase(o)
  PROVE  \E r \in TreeAsk : Asked(r)
<1>1. TreeTypeOK
  BY DEF TreeInv, TreeTyped
<1>2. PICK op \in {"createDb", "dropDb"} :
         /\ op = "createDb" => kind = "single"
         /\ MayAsk /\ Idle /\ PostAsk(AskOf(op, Server, None, None, None)) /\ UNCHANGED tree
  <2>1. CASE AskCreateDatabase /\ kind = "single"
    BY <2>1 DEF AskCreateDatabase, tree
  <2>2. CASE \E o \in DOMAIN dbItems : AskDropDatabase(o)
    BY <2>2 DEF AskDropDatabase
  <2> QED
    BY <2>1, <2>2
<1>3. PICK r : r = AskOf(op, Server, None, None, None)
  OBVIOUS
<1>4. r \in TreeAsk /\ r.op = op /\ r.from = Server
  <2>1. op \in TreeOps
    BY DEF TreeOps, DatabaseOps
  <2> QED
    BY <1>3, <2>1, AskIsRecord DEF Server
<1>5. AskOfTree(r) /\ r.op \notin IndexOps
  BY <1>1, <1>2, <1>4 DEF AskOfTree, MessageOK, TreeTypeOK, Server, SetOps, NameOps, IndexOps
<1>6. Asked(r)
  BY <1>1, <1>2, <1>3, <1>4, <1>5, PlainAsk
<1> QED
  BY <1>4, <1>6

\* The sender of a request of an item is there.
LEMMA ItemIsOld ==
  ASSUME TreeTyped, NEW o \in DOMAIN dbItems
  PROVE  /\ o \in Nat /\ o # Server /\ o < fresh /\ fresh \in Nat /\ fresh # Server
         /\ dbItems[o] \in Item /\ dbItems[o].batch < fresh
BY DEF TreeTyped, ObjectsKept, TreeTypeOK

LEMMA LoadAsks ==
  ASSUME TreeInv, NEW o \in DOMAIN dbItems, NEW f \in Folders, LoadFolder(o, f)
  PROVE  \E r \in TreeAsk : Asked(r)
<1>1. TreeTyped /\ TreeTypeOK
  BY DEF TreeInv, TreeTyped
<1>2. /\ MayAsk /\ Idle /\ UNCHANGED <<objects, label, setLabel, wasLost, fresh, toldOf>>
      /\ dbItems' = Loading(o, f)
  BY DEF LoadFolder
<1>3. asks' \in 0..MaxAsks
  BY <1>1, <1>2, AsksAssumption DEF MayAsk, TreeTypeOK
<1>4. UNCHANGED <<kind, part, indexed, created, made, answers, dangling>>
  BY <1>2 DEF Idle, server
<1>5. dbItems' \in [DOMAIN dbItems -> Item] /\ \A p \in DOMAIN dbItems : OnlyDots(dbItems[p], dbItems'[p])
  BY <1>1, <1>2, LoadingDots
<1>6. PICK r : r = AskOf("load", o, f, None, None)
  OBVIOUS
<1>7. requests' = Append(requests, r)
  BY <1>6 DEF LoadFolder, PostAsk
<1>8. r \in TreeAsk /\ r.op = "load" /\ r.from = o /\ r.f = f
  <2>1. "load" \in TreeOps /\ o \in Nat
    BY <1>1, ItemIsOld DEF TreeOps
  <2> QED
    BY <1>6, <2>1, AskIsRecord
<1>9. AskOfTree(r)
  BY <1>1, <1>8, ItemIsOld DEF AskOfTree, MessageOK, SetOps, NameOps, IndexOps
<1>10. label' \in Labels \cup {"offline"} /\ setLabel' \in Labels /\ label' = label
  BY <1>1, <1>2 DEF TreeTypeOK
<1>11. Asked(r)
  BY <1>2, <1>3, <1>4, <1>5, <1>7, <1>8, <1>9, <1>10 DEF Asked, IndexOps
<1> QED
  BY <1>8, <1>11

LEMMA NameAsks ==
  ASSUME TreeInv, NEW o \in DOMAIN dbItems,
         \/ \E f \in Folders, n \in Names : Create(o, f, n)
         \/ \E f \in Folders, n, m \in Names, op \in NameOps : Change(o, op, f, n, m)
  PROVE  \E r \in TreeAsk : Asked(r)
<1>1. TreeTyped /\ TreeTypeOK
  BY DEF TreeInv, TreeTyped
<1>2. PICK f \in Folders, n \in Names, m \in Names \cup {None}, op \in NameOps :
         /\ op = "rename" => f # "Users"
         /\ op \in {"rename", "duplicate"} => m \in Names
         /\ MayAsk /\ Idle /\ PostAsk(AskOf(op, o, f, n, m)) /\ UNCHANGED tree
  <2>1. CASE \E f \in Folders, n \in Names : Create(o, f, n)
    BY <2>1 DEF Create, NameOps
  <2>2. CASE \E f \in Folders, n, m \in Names, op \in NameOps : Change(o, op, f, n, m)
    <3>1. PICK f \in Folders, n \in Names, m \in Names, op \in NameOps : Change(o, op, f, n, m)
      BY <2>2
    <3>2. op \in NameOffers(o, f, n)
      BY <3>1 DEF Change
    <3>3. f = "Users" => op # "rename"
      BY <3>2 DEF NameOffers
    <3> QED
      BY <3>1, <3>3 DEF Change
  <2> QED
    BY <2>1, <2>2
<1>3. PICK r : r = AskOf(op, o, f, n, m)
  OBVIOUS
<1>4. r \in TreeAsk /\ r.op = op /\ r.from = o /\ r.f = f /\ r.n = n /\ r.m = m
  <2>1. op \in TreeOps /\ o \in Nat
    BY <1>1, ItemIsOld DEF TreeOps
  <2> QED
    BY <1>3, <2>1, AskIsRecord
<1>5. AskOfTree(r) /\ r.op \notin IndexOps
  BY <1>1, <1>2, <1>4, ItemIsOld DEF AskOfTree, MessageOK, SetOps, NameOps, IndexOps
<1>6. Asked(r)
  BY <1>1, <1>2, <1>3, <1>4, <1>5, PlainAsk
<1> QED
  BY <1>4, <1>6

\* The indexes asked for are of a collection that is shown.
LEMMA IndexAskAims ==
  ASSUME TreeTyped, NEW o \in DOMAIN dbItems, NEW n \in Names, NEW op \in IndexOps,
         op \in IndexOffers(o, n) \/ op \in NameOffers(o, "Collections", n),
         NEW r, r = AskOf(op, dbItems[o].batch, "Collections", n, None)
  PROVE  /\ r \in TreeAsk /\ r.op = op /\ AskOfTree(r)
         /\ \A p \in DOMAIN dbItems : ~dbItems[p].gutted /\ r.op \in IndexOps /\ r.from = dbItems[p].batch
                                     => r.n \in dbItems[p].shown["Collections"]
<1>1. PICK b \in Nat : b = dbItems[o].batch /\ b < fresh
  BY ItemIsOld, ItemFields
<1>2. ~dbItems[o].gutted /\ n \in dbItems[o].shown["Collections"] \cup dbItems[o].ishown
  <2>1. CASE op \in IndexOffers(o, n)
    BY <2>1 DEF IndexOffers
  <2>2. CASE op \in NameOffers(o, "Collections", n)
    BY <2>2 DEF NameOffers
  <2> QED
    BY <2>1, <2>2
<1>3. n \in dbItems[o].shown["Collections"] /\ b # Server
  BY <1>1, <1>2 DEF TreeTyped, IndexesKept, IndexesAreOfShown, Server
<1>4. r \in TreeAsk /\ r.op = op /\ r.from = b /\ r.f = "Collections" /\ r.n = n
  <2>1. op \in TreeOps
    BY DEF TreeOps
  <2> QED
    BY <1>1, <2>1, AskIsRecord DEF Folders
<1>5. AskOfTree(r)
  BY <1>1, <1>3, <1>4 DEF AskOfTree, MessageOK, SetOps, NameOps, IndexOps
<1>6. ASSUME NEW p \in DOMAIN dbItems, r.from = dbItems[p].batch PROVE p = o
  BY <1>1, <1>3, <1>4, <1>6 DEF TreeTyped, IndexesKept, Server
<1> QED
  BY <1>3, <1>4, <1>5, <1>6

LEMMA IndexAsks ==
  ASSUME TreeInv, NEW o \in DOMAIN dbItems, NEW n \in Names,
         ExpandIndexes(o, n) \/ \E op \in IndexOps \ {"indexes"} : ChangeIndex(o, op, n)
  PROVE  \E r \in TreeAsk : Asked(r)
<1>1. TreeTyped /\ TreeTypeOK
  BY DEF TreeInv, TreeTyped
<1>2. CASE ExpandIndexes(o, n)
  <2>1. /\ MayAsk /\ Idle /\ UNCHANGED <<objects, label, setLabel, wasLost, fresh, toldOf>>
        /\ dbItems' = [dbItems EXCEPT ![o].ilabel[n] = "loading"]
        /\ "indexes" \in NameOffers(o, "Collections", n)
    BY <1>2 DEF ExpandIndexes
  <2>2. asks' \in 0..MaxAsks
    BY <1>1, <2>1, AsksAssumption DEF MayAsk, TreeTypeOK
  <2>3. UNCHANGED <<kind, part, indexed, created, made, answers, dangling>>
    BY <2>1 DEF Idle, server
  <2>4. PICK r : r = AskOf("indexes", dbItems[o].batch, "Collections", n, None)
    OBVIOUS
  <2>5. requests' = Append(requests, r)
    BY <1>2, <2>4 DEF ExpandIndexes, PostAsk
  <2>6. /\ r \in TreeAsk /\ r.op = "indexes" /\ AskOfTree(r)
        /\ \A p \in DOMAIN dbItems : ~dbItems[p].gutted /\ r.op \in IndexOps /\ r.from = dbItems[p].batch
                                    => r.n \in dbItems[p].shown["Collections"]
    <3>1. "indexes" \in IndexOps
      BY DEF IndexOps
    <3> QED
      BY <1>1, <2>1, <2>4, <3>1, IndexAskAims
  <2>7. dbItems' \in [DOMAIN dbItems -> Item] /\ \A p \in DOMAIN dbItems : OnlyDots(dbItems[p], dbItems'[p])
    <3>1. \A p \in DOMAIN dbItems : dbItems[p] \in Item
      BY <1>1 DEF TreeTypeOK
    <3>2. dbItems' = [p \in DOMAIN dbItems |->
                        IF p = o THEN [dbItems[p] EXCEPT !.ilabel[n] = "loading"] ELSE dbItems[p]]
      BY <1>1, <2>1 DEF TreeTypeOK
    <3>3. ASSUME NEW p \in DOMAIN dbItems
          PROVE  dbItems'[p] \in Item /\ OnlyDots(dbItems[p], dbItems'[p])
      <4>1. PICK it \in Item : it = dbItems[p]
        BY <3>1
      <4>2. CASE p = o
        <5>1. dbItems'[p] = [it EXCEPT !.ilabel[n] = "loading"]
          BY <3>2, <4>1, <4>2
        <5> QED
          BY <4>1, <5>1, IndexDots
      <4>3. CASE p # o
        <5>1. dbItems'[p] = it
          BY <3>2, <4>1, <4>3
        <5> QED
          BY <4>1, <5>1, SameDots
      <4> QED
        BY <4>2, <4>3
    <3>4. DOMAIN dbItems' = DOMAIN dbItems /\ dbItems' = [p \in DOMAIN dbItems |-> dbItems'[p]]
      BY <3>2
    <3> QED
      BY <3>3, <3>4
  <2>8. label' \in Labels \cup {"offline"} /\ setLabel' \in Labels /\ label' = label
    BY <1>1, <2>1 DEF TreeTypeOK
  <2>9. Asked(r)
    BY <2>1, <2>2, <2>3, <2>5, <2>6, <2>7, <2>8 DEF Asked
  <2> QED
    BY <2>6, <2>9
<1>3. CASE \E op \in IndexOps \ {"indexes"} : ChangeIndex(o, op, n)
  <2>1. PICK op \in IndexOps : ChangeIndex(o, op, n)
    BY <1>3
  <2>2. PICK r : r = AskOf(op, dbItems[o].batch, "Collections", n, None)
    OBVIOUS
  <2>3. /\ MayAsk /\ Idle /\ PostAsk(r) /\ UNCHANGED tree
        /\ op \in IndexOffers(o, n) \/ op \in NameOffers(o, "Collections", n)
    BY <2>1, <2>2 DEF ChangeIndex
  <2>4. /\ r \in TreeAsk /\ AskOfTree(r)
        /\ \A p \in DOMAIN dbItems : ~dbItems[p].gutted /\ r.op \in IndexOps /\ r.from = dbItems[p].batch
                                    => r.n \in dbItems[p].shown["Collections"]
    BY <1>1, <2>2, <2>3, IndexAskAims
  <2>5. Asked(r)
    BY <1>1, <2>3, <2>4, PlainAsk
  <2> QED
    BY <2>4, <2>5
<1> QED
  BY <1>2, <1>3

-----------------------------------------------------------------------------
\* A message that was in order stays so.
LEMMA MessageStays ==
  ASSUME NEW m, kind' = kind, fresh \in Nat, fresh' \in Nat, fresh' >= fresh, m.from \in Nat
  PROVE  /\ MessageOK(m) => MessageOK(m)'
         /\ AskOfTree(m) => AskOfTree(m)'
         /\ AnswerOfTree(m) => AnswerOfTree(m)'
<1>1. m.from < fresh => m.from < fresh'
  OBVIOUS
<1>2. MessageOK(m) => MessageOK(m)'
  BY <1>1 DEF MessageOK
<1> QED
  BY <1>2 DEF AskOfTree, AnswerOfTree

\* A request that is posted.
LEMMA PostedAsk ==
  ASSUME TreeTyped, NEW r \in TreeAsk, AskOfTree(r), requests' = Append(requests, r)
  PROVE  /\ requests' \in Seq(TreeAsk) /\ Len(requests) \in Nat /\ DOMAIN requests = 1..Len(requests)
         /\ DOMAIN requests' = 1..(Len(requests) + 1)
         /\ \A i \in 1..Len(requests) : requests'[i] = requests[i]
         /\ requests'[Len(requests) + 1] = r
<1>1. requests \in Seq(TreeAsk)
  BY DEF TreeTyped, TreeTypeOK
<1> QED
  BY <1>1, AppendProperties, LenProperties

LEMMA AsksSame ==
  ASSUME TreeTyped, requests' = requests, kind' = kind, fresh' \in Nat, fresh' >= fresh
  PROVE  requests' \in Seq(TreeAsk) /\ AsksKept'
<1>1. requests \in Seq(TreeAsk) /\ fresh \in Nat /\ AsksKept
  BY DEF TreeTyped, TreeTypeOK
<1>2. ASSUME NEW q \in TreeAsk, AskOfTree(q) PROVE AskOfTree(q)'
  BY <1>1, <1>2, MessageStays DEF TreeAsk
<1>3. \A i \in DOMAIN requests' : AskOfTree(requests[i])'
  BY <1>1, <1>2, ElementOfSeq, LenProperties DEF AsksKept
<1> QED
  BY <1>1, <1>3 DEF AsksKept, AskOfTree, MessageOK

LEMMA AnswersSame ==
  ASSUME TreeTyped, answers' = answers, kind' = kind, fresh' \in Nat, fresh' >= fresh
  PROVE  AnswersKept'
<1>1. answers \in Seq(Answer) /\ fresh \in Nat /\ AnswersKept
  BY DEF TreeTyped, TreeTypeOK, AnswersKept
<1>2. ASSUME NEW q \in Answer, AnswerOfTree(q) PROVE AnswerOfTree(q)'
  BY <1>1, <1>2, MessageStays DEF Answer
<1>3. \A i \in DOMAIN answers' : AnswerOfTree(answers[i])'
  BY <1>1, <1>2, ElementOfSeq, LenProperties DEF AnswersKept
<1> QED
  BY <1>1, <1>3 DEF AnswersKept, AnswerOfTree, MessageOK

LEMMA AsksStay ==
  ASSUME TreeTyped, NEW r \in TreeAsk, AskOfTree(r), requests' = requests \/ requests' = Append(requests, r),
         kind' = kind, fresh' \in Nat, fresh' >= fresh
  PROVE  requests' \in Seq(TreeAsk) /\ AsksKept'
<1>1. requests \in Seq(TreeAsk) /\ fresh \in Nat /\ AsksKept
  BY DEF TreeTyped, TreeTypeOK
<1>2. ASSUME NEW q \in TreeAsk, AskOfTree(q) PROVE AskOfTree(q)'
  BY <1>1, <1>2, MessageStays DEF TreeAsk
<1>3. CASE requests' = requests
  BY <1>3, AsksSame
<1>4. CASE requests' = Append(requests, r)
  <2>1. /\ requests' \in Seq(TreeAsk) /\ Len(requests) \in Nat /\ DOMAIN requests = 1..Len(requests)
        /\ DOMAIN requests' = 1..(Len(requests) + 1)
        /\ \A i \in 1..Len(requests) : requests'[i] = requests[i]
        /\ requests'[Len(requests) + 1] = r
    BY <1>4, PostedAsk
  <2>2. ASSUME NEW i \in DOMAIN requests' PROVE \E q \in TreeAsk : q = requests'[i] /\ AskOfTree(q)
    <3>1. CASE i \in 1..Len(requests)
      <4>1. requests[i] \in TreeAsk /\ AskOfTree(requests[i]) /\ requests'[i] = requests[i]
        BY <1>1, <2>1, <3>1, ElementOfSeq DEF AsksKept
      <4> QED
        BY <4>1
    <3>2. CASE i = Len(requests) + 1
      BY <2>1, <3>2
    <3> QED
      BY <2>1, <3>1, <3>2
  <2>3. ASSUME NEW i \in DOMAIN requests' PROVE AskOfTree(requests[i])'
    <3>1. PICK q \in TreeAsk : q = requests'[i] /\ AskOfTree(q)
      BY <2>2
    <3>2. AskOfTree(q)'
      BY <1>2, <3>1
    <3> QED
      BY <3>1, <3>2 DEF AskOfTree, MessageOK
  <2> QED
    BY <2>1, <2>3 DEF AsksKept
<1> QED
  BY <1>3, <1>4

\* What revises goes on doing so when a request is posted.
LEMMA PostedRevised ==
  ASSUME TreeTyped, NEW r \in TreeAsk, AskOfTree(r), requests' = Append(requests, r), answers' = answers,
         NEW x, NEW b, NEW i
  PROVE  /\ Revised(x, b, i) => Revised(x, b, i)'
         /\ AskRevises(r, x, b) => Revised(x, b, i)'
<1>1. /\ Len(requests) \in Nat /\ DOMAIN requests = 1..Len(requests)
      /\ DOMAIN requests' = 1..(Len(requests) + 1)
      /\ \A j \in 1..Len(requests) : requests'[j] = requests[j]
      /\ requests'[Len(requests) + 1] = r
  BY PostedAsk
<1>2. ASSUME NEW j \in DOMAIN requests, AskRevises(requests[j], x, b) PROVE Revised(x, b, i)'
  <2>1. j \in DOMAIN requests' /\ requests'[j] = requests[j]
    BY <1>1
  <2>2. AskRevises(requests'[j], x, b)
    BY <1>2, <2>1
  <2> QED
    BY <2>1, <2>2 DEF Revised, AskRevises, Revises
<1>3. ASSUME NEW j \in DOMAIN answers, j > i, AnswerRevises(j, x, b) PROVE Revised(x, b, i)'
  <2>1. AnswerRevises(j, x, b)'
    BY <1>3 DEF AnswerRevises, Revises, ListsCollections
  <2> QED
    BY <1>3, <2>1 DEF Revised
<1>4. ASSUME AskRevises(r, x, b) PROVE Revised(x, b, i)'
  <2>1. Len(requests) + 1 \in DOMAIN requests' /\ AskRevises(requests'[Len(requests) + 1], x, b)
    BY <1>1, <1>4
  <2> QED
    BY <2>1 DEF Revised, AskRevises, Revises
<1> QED
  BY <1>2, <1>3, <1>4 DEF Revised

LEMMA AskedTyped ==
  ASSUME TreeTyped, NEW r \in TreeAsk, Asked(r)
  PROVE  TreeTyped'
<1>1. TreeTypeOK /\ AsksKept /\ AnswersKept /\ ObjectsKept /\ IndexesKept
  BY DEF TreeTyped
<1>2. /\ AskOfTree(r) /\ requests' = Append(requests, r)
      /\ UNCHANGED <<kind, part, indexed, created, made, answers, objects, wasLost, fresh, toldOf, dangling>>
      /\ asks' \in 0..MaxAsks /\ label' \in Labels \cup {"offline"} /\ setLabel' \in Labels
      /\ dbItems' \in [DOMAIN dbItems -> Item] /\ DOMAIN dbItems' = DOMAIN dbItems
      /\ \A o \in DOMAIN dbItems : OnlyDots(dbItems[o], dbItems'[o])
  BY DEF Asked
<1>3. fresh' \in Nat /\ fresh' >= fresh /\ fresh \in Nat
  BY <1>1, <1>2 DEF TreeTypeOK
<1>4. requests' \in Seq(TreeAsk) /\ AsksKept'
  BY <1>2, <1>3, AsksStay
<1>5. TreeTypeOK'
  BY <1>1, <1>2, <1>4, Zenon DEF TreeTypeOK
<1>6. AnswersKept'
  BY <1>1, <1>2, Zenon DEF AnswersKept, AnswerOfTree, MessageOK
<1>7. \A o \in DOMAIN dbItems : /\ dbItems'[o].batch = dbItems[o].batch /\ dbItems'[o].shown = dbItems[o].shown
                               /\ dbItems'[o].ishown = dbItems[o].ishown /\ dbItems'[o].gutted = dbItems[o].gutted
  BY <1>2 DEF OnlyDots
<1>8. ObjectsKept'
  BY <1>1, <1>2, <1>7 DEF ObjectsKept
<1>9. IndexesKept'
  <2>1. \A o, p \in DOMAIN dbItems' : dbItems'[o].batch = dbItems'[p].batch /\ dbItems'[o].batch # 0 => o = p
    BY <1>1, <1>2, <1>7 DEF IndexesKept
  <2>2. ASSUME NEW o \in DOMAIN dbItems', ~dbItems'[o].gutted PROVE IndexesAreOfShown(dbItems[o])'
    <3>1. o \in DOMAIN dbItems /\ ~dbItems[o].gutted /\ IndexesAreOfShown(dbItems[o])
      BY <1>1, <1>2, <1>7, <2>2 DEF IndexesKept
    <3>2. PICK b, s, i : b = dbItems[o].batch /\ s = dbItems[o].shown["Collections"] /\ i = dbItems[o].ishown
      OBVIOUS
    <3>3. b = dbItems'[o].batch /\ s = dbItems'[o].shown["Collections"] /\ i = dbItems'[o].ishown
      BY <1>7, <3>1, <3>2
    <3>4. i \subseteq s /\ (s # {} => b # 0)
      BY <3>1, <3>2 DEF IndexesAreOfShown
    <3>5. \A j \in DOMAIN answers' : answers'[j].op \in IndexOps /\ answers'[j].from = b => answers'[j].n \in s
      BY <1>2, <3>1, <3>2 DEF IndexesAreOfShown
    <3>6. ASSUME NEW j \in DOMAIN requests', requests'[j].op \in IndexOps, requests'[j].from = b
          PROVE  requests'[j].n \in s
      <4>1. /\ Len(requests) \in Nat /\ DOMAIN requests = 1..Len(requests)
            /\ DOMAIN requests' = 1..(Len(requests) + 1)
            /\ \A k \in 1..Len(requests) : requests'[k] = requests[k]
            /\ requests'[Len(requests) + 1] = r
        BY <1>2, PostedAsk
      <4>2. CASE j = Len(requests) + 1
        <5>1. r.op \in IndexOps /\ r.from = dbItems[o].batch
          BY <3>2, <3>6, <4>1, <4>2
        <5> QED
          BY <3>1, <3>2, <4>1, <4>2, <5>1 DEF Asked
      <4>3. CASE j # Len(requests) + 1
        <5>1. j \in DOMAIN requests /\ requests'[j] = requests[j]
          BY <4>1, <4>3
        <5> QED
          BY <3>1, <3>2, <3>6, <5>1 DEF IndexesAreOfShown
      <4> QED
        BY <4>2, <4>3
    <3> QED
      BY <3>3, <3>4, <3>5, <3>6 DEF IndexesAreOfShown
  <2> QED
    BY <2>1, <2>2 DEF IndexesKept
<1> QED
  BY <1>4, <1>5, <1>6, <1>8, <1>9 DEF TreeTyped

LEMMA AskedOffline ==
  ASSUME TreeTyped, OfflineKept, NEW r \in TreeAsk, Asked(r)
  PROVE  OfflineKept'
<1>1. /\ AskOfTree(r) /\ requests' = Append(requests, r) /\ answers' = answers /\ wasLost' = wasLost
      /\ (label' # label => label' = "loading" /\ r.op \in {"databases", "connect"})
      /\ DOMAIN dbItems' = DOMAIN dbItems /\ \A o \in DOMAIN dbItems : dbItems'[o].gutted = dbItems[o].gutted
  BY DEF Asked, OnlyDots
<1>2. /\ Len(requests) \in Nat /\ DOMAIN requests = 1..Len(requests)
      /\ DOMAIN requests' = 1..(Len(requests) + 1)
      /\ \A k \in 1..Len(requests) : requests'[k] = requests[k]
      /\ requests'[Len(requests) + 1] = r
  BY <1>1, PostedAsk
<1>3. ConnectPends => ConnectPends'
  BY <1>1, <1>2 DEF ConnectPends
<1>4. r.op = "connect" => ConnectPends'
  <2>1. Len(requests) + 1 \in DOMAIN requests'
    BY <1>2
  <2> QED
    BY <1>2, <2>1 DEF ConnectPends
<1>5. wasLost => r.op # "databases"
  <2>1. wasLost => kind = "set"
    BY DEF TreeTyped, TreeTypeOK
  <2> QED
    BY <1>1, <2>1 DEF AskOfTree, MessageOK
<1> QED
  BY <1>1, <1>3, <1>4, <1>5 DEF OfflineKept

LEMMA AskedCreated ==
  ASSUME CreatedKept, NEW r \in TreeAsk, Asked(r)
  PROVE  CreatedKept'
<1>1. /\ UNCHANGED <<kind, part, created, made, answers, objects>>
      /\ (label' # label => label' = "loading")
  BY DEF Asked
<1> SUFFICES ASSUME kind = "single", made PROVE created' /\ ~Exists' /\ \E k \in 0..Len(answers) : ListsHoldIt(k)'
  BY <1>1 DEF CreatedKept
<1>2. created /\ ~Exists /\ \E k \in 0..Len(answers) : ListsHoldIt(k)
  BY DEF CreatedKept
<1>3. PICK k \in 0..Len(answers) : ListsHoldIt(k)
  BY <1>2
<1>4. ListsHoldIt(k)'
  BY <1>1, <1>3 DEF ListsHoldIt
<1> QED
  BY <1>1, <1>2, <1>4 DEF Exists

LEMMA AskedContents ==
  ASSUME TreeTyped, ContentsKept, NEW r \in TreeAsk, Asked(r)
  PROVE  ContentsKept'
<1>1. /\ AskOfTree(r) /\ requests' = Append(requests, r)
      /\ UNCHANGED <<part, indexed, answers, objects, toldOf>>
      /\ DOMAIN dbItems' = DOMAIN dbItems
      /\ \A o \in DOMAIN dbItems : OnlyDots(dbItems[o], dbItems'[o])
  BY DEF Asked
<1> SUFFICES ASSUME NEW o \in objects, IsShown(o)' PROVE ItemKept(dbItems[o], o)'
  BY <1>1 DEF ContentsKept
<1>2. o \in DOMAIN dbItems /\ OnlyDots(dbItems[o], dbItems'[o]) /\ IsShown(o)
  BY <1>1 DEF IsShown, OnlyDots
<1>3. ItemKept(dbItems[o], o)
  BY <1>2 DEF ContentsKept
<1>4. PICK it, jt : it = dbItems[o] /\ jt = dbItems'[o]
  OBVIOUS
<1>5. /\ jt.shown = it.shown /\ jt.batch = it.batch /\ jt.ishown = it.ishown
      /\ \A f \in Folders : jt.label[f] = "counted" => it.label[f] = "counted"
      /\ \A n \in Names : jt.ilabel[n] = "counted" => it.ilabel[n] = "counted"
  BY <1>2, <1>4 DEF OnlyDots
<1>6. \A x, b, i : Revised(x, b, i) => Revised(x, b, i)'
  BY <1>1, PostedRevised
<1>7. ASSUME NEW f \in Folders PROVE FolderShown(jt, f)' /\ FolderListed(jt, o, f)'
  <2>1. FolderShown(it, f) /\ FolderListed(it, o, f)
    BY <1>3, <1>4 DEF ItemKept
  <2>2. FolderShown(jt, f)'
    BY <1>1, <1>5, <1>6, <2>1 DEF FolderShown
  <2>3. FolderListed(jt, o, f)'
    BY <1>1, <1>5, <1>6, <2>1 DEF FolderListed
  <2> QED
    BY <2>2, <2>3
<1>8. ASSUME NEW n \in Names PROVE IndexShown(jt, n)' /\ IndexListed(jt, n)'
  <2>1. IndexShown(it, n) /\ IndexListed(it, n)
    BY <1>3, <1>4 DEF ItemKept
  <2>2. IndexShown(jt, n)'
    BY <1>1, <1>5, <1>6, <2>1 DEF IndexShown
  <2>3. IndexListed(jt, n)'
    BY <1>1, <1>5, <1>6, <2>1 DEF IndexListed
  <2> QED
    BY <2>2, <2>3
<1>9. ItemKept(jt, o)'
  BY <1>7, <1>8 DEF ItemKept
<1> QED
  BY <1>4, <1>9

LEMMA AskedKeepsInv ==
  ASSUME TreeInv, ~dangling, NEW r \in TreeAsk, Asked(r)
  PROVE  TreeInv'
BY AskedTyped, AskedOffline, AskedCreated, AskedContents DEF TreeInv

-----------------------------------------------------------------------------
\* An object made anew shows nothing.
LEMMA NewItemFacts ==
  /\ NewItem \in Item
  /\ NewItem.gutted = FALSE /\ NewItem.batch = 0 /\ NewItem.ishown = {}
  /\ \A f \in Folders : NewItem.shown[f] = {} /\ NewItem.label[f] = "plain"
  /\ \A n \in Names : NewItem.ilabel[n] = "plain"
BY DEF NewItem, Item, Labels

LEMMA NewIsKept ==
  ASSUME AnswersKept', NEW o, \A i \in DOMAIN answers' : answers'[i].from # o
  PROVE  ItemKept(NewItem, o)'
<1>1. /\ NewItem.batch = 0 /\ NewItem.shown["Collections"] = {}
      /\ \A f \in Folders : NewItem.label[f] = "plain"
  BY NewItemFacts DEF Folders
<1>2. \A f \in Folders : FolderShown(NewItem, f)' /\ FolderListed(NewItem, o, f)'
  BY <1>1 DEF FolderShown, FolderListed, ListsFolder
<1>3. \A i \in DOMAIN answers' : answers'[i].op \in IndexOps => answers'[i].from # 0
  BY DEF AnswersKept, AnswerOfTree, MessageOK, Server
<1>4. \A n \in Names : IndexShown(NewItem, n)' /\ IndexListed(NewItem, n)'
  BY <1>1, <1>3 DEF IndexShown, IndexListed, ListsIndexes, IndexOps
<1> QED
  BY <1>2, <1>4 DEF ItemKept

\* Its index requests are none.
LEMMA NewIndexes ==
  ASSUME AnswersKept', AsksKept'
  PROVE  IndexesAreOfShown(NewItem)'
<1>1. NewItem.batch = 0 /\ NewItem.shown["Collections"] = {} /\ NewItem.ishown = {}
  BY NewItemFacts DEF Folders
<1>2. \A i \in DOMAIN answers' : answers'[i].op \in IndexOps => answers'[i].from # 0
  BY DEF AnswersKept, AnswerOfTree, MessageOK, Server
<1>3. \A i \in DOMAIN requests' : requests'[i].op \in IndexOps => requests'[i].from # 0
  BY DEF AsksKept, AskOfTree, MessageOK, Server
<1> QED
  BY <1>1, <1>2, <1>3 DEF IndexesAreOfShown

\* A database of a set is made in the tree.
LEMMA CreateInSet ==
  ASSUME TreeInv, ~dangling, AskCreateDatabase, kind # "single"
  PROVE  TreeInv'
<1>1. TreeTyped /\ TreeTypeOK /\ AnswersKept /\ ObjectsKept /\ IndexesKept /\ OfflineKept /\ CreatedKept /\ ContentsKept
  BY DEF TreeInv, TreeTyped
<1>2. kind = "set" /\ ~wasLost
  <2>1. kind = "set"
    BY <1>1 DEF TreeTypeOK
  <2> QED
    BY <2>1 DEF AskCreateDatabase, ServerOffers
<1>3. /\ UNCHANGED <<kind, part, indexed, created, made, answers, dangling, requests, setLabel, wasLost, toldOf>>
      /\ objects' = objects \cup {fresh} /\ fresh' = fresh + 1 /\ label' = "counted" /\ MayAsk
      /\ dbItems' = [o \in DOMAIN dbItems \cup {fresh} |-> IF o = fresh THEN NewItem ELSE dbItems[o]]
  BY <1>2 DEF AskCreateDatabase, Idle, server
<1>4. fresh \in Nat \ {0} /\ fresh' \in Nat /\ fresh' >= fresh /\ fresh \notin objects
  BY <1>1, <1>3 DEF TreeTypeOK, ObjectsKept, Server
<1>5. asks' \in 0..MaxAsks
  BY <1>1, <1>3, AsksAssumption DEF MayAsk, TreeTypeOK
<1>6. requests' \in Seq(TreeAsk) /\ AsksKept' /\ AnswersKept'
  BY <1>1, <1>3, <1>4, AsksSame, AnswersSame
<1>7. DOMAIN dbItems' = DOMAIN dbItems \cup {fresh}
      /\ dbItems'[fresh] = NewItem /\ \A o \in DOMAIN dbItems : dbItems'[o] = dbItems[o] /\ o # fresh
  BY <1>1, <1>3, <1>4 DEF ObjectsKept
<1>8. dbItems' \in [DOMAIN dbItems' -> Item]
  <2>1. \A o \in DOMAIN dbItems' : dbItems'[o] \in Item
    BY <1>1, <1>7, NewItemFacts DEF TreeTypeOK
  <2> QED
    BY <1>3, <1>7, <2>1
<1>9. TreeTypeOK'
  <2>1. /\ kind' \in {"single", "set"}
        /\ part' \in [Folders -> SUBSET Names] /\ indexed' \subseteq Names /\ created' \in BOOLEAN
        /\ setLabel' \in Labels
        /\ wasLost' \in BOOLEAN /\ (wasLost' => kind' = "set")
        /\ toldOf' \subseteq Folders \cup Names \cup {"Databases"}
        /\ dangling' \in BOOLEAN /\ made' \in BOOLEAN
    BY <1>1, <1>3, Zenon DEF TreeTypeOK
  <2>2. label' \in Labels \cup {"offline"}
    BY <1>3 DEF Labels
  <2>3. objects' \subseteq Nat \ {Server} /\ fresh' \in Nat \ {Server}
    BY <1>1, <1>3, <1>4 DEF TreeTypeOK, Server
  <2> QED
    BY <1>5, <1>6, <1>8, <2>1, <2>2, <2>3, Zenon DEF TreeTypeOK
<1>10. ObjectsKept'
  <2>1. IsFiniteSet(objects')
    BY <1>1, <1>3, FS_AddElement DEF ObjectsKept
  <2>2. \A o \in objects' : o < fresh'
    BY <1>1, <1>3, <1>4 DEF ObjectsKept, TreeTypeOK
  <2>3. DOMAIN dbItems' \subseteq objects'
    BY <1>1, <1>3, <1>7 DEF ObjectsKept
  <2>4. \A o \in DOMAIN dbItems' : dbItems'[o].batch < fresh'
    <3>1. \A o \in DOMAIN dbItems : dbItems[o].batch \in Nat /\ dbItems[o].batch < fresh
      BY <1>1, ItemIsOld, ItemFields
    <3> QED
      BY <1>3, <1>4, <1>7, <3>1, NewItemFacts
  <2> QED
    BY <2>1, <2>2, <2>3, <2>4 DEF ObjectsKept
<1>11. IndexesKept'
  <2>1. \A o, p \in DOMAIN dbItems' : dbItems'[o].batch = dbItems'[p].batch /\ dbItems'[o].batch # 0 => o = p
    BY <1>1, <1>7, NewItemFacts DEF IndexesKept
  <2>2. ASSUME NEW o \in DOMAIN dbItems', ~dbItems'[o].gutted PROVE IndexesAreOfShown(dbItems[o])'
    <3>1. CASE o = fresh
      <4>1. IndexesAreOfShown(NewItem)'
        BY <1>6, NewIndexes
      <4> QED
        BY <1>7, <3>1, <4>1
    <3>2. CASE o # fresh
      <4>1. PICK it : it = dbItems[o]
        OBVIOUS
      <4>2. it = dbItems'[o] /\ IndexesAreOfShown(it)
        BY <1>1, <1>7, <2>2, <3>2, <4>1 DEF IndexesKept
      <4>3. IndexesAreOfShown(it)'
        BY <1>3, <4>2, Zenon DEF IndexesAreOfShown
      <4> QED
        BY <4>2, <4>3
    <3> QED
      BY <3>1, <3>2
  <2> QED
    BY <2>1, <2>2 DEF IndexesKept
<1>12. OfflineKept'
  <2>1. ConnectPends' <=> ConnectPends
    BY <1>3 DEF ConnectPends
  <2>2. ~wasLost' /\ label' # "offline"
    BY <1>2, <1>3
  <2>3. ConnectPends \/ \A o \in DOMAIN dbItems : ~dbItems[o].gutted
    BY <1>1, <1>2 DEF OfflineKept
  <2>4. ConnectPends' \/ \A o \in DOMAIN dbItems' : ~dbItems'[o].gutted
    BY <1>7, <2>1, <2>3, NewItemFacts
  <2> QED
    BY <2>2, <2>4 DEF OfflineKept
<1>13. CreatedKept'
  BY <1>2, <1>3 DEF CreatedKept
<1>14. ContentsKept'
  <2> SUFFICES ASSUME NEW o \in objects', IsShown(o)' PROVE ItemKept(dbItems[o], o)'
    BY DEF ContentsKept
  <2>1. o = fresh
    BY <1>3 DEF IsShown
  <2>2. \A i \in DOMAIN answers' : answers'[i].from # o
    BY <1>1, <1>3, <1>4, <2>1 DEF AnswersKept, AnswerOfTree, MessageOK
  <2>3. ItemKept(NewItem, o)'
    BY <1>6, <2>2, NewIsKept
  <2> QED
    BY <1>7, <2>1, <2>3
<1> QED
  BY <1>6, <1>9, <1>10, <1>11, <1>12, <1>13, <1>14 DEF TreeInv, TreeTyped

-----------------------------------------------------------------------------
\* The worker.  The answers to a request: one, or for an index made a second, which
\* tells the indexes or that they could not be listed.
AnswersOf(r, s) ==
  /\ s \in Seq(Answer) /\ Len(s) \in {1, 2} /\ DOMAIN s = 1..Len(s)
  /\ \A i \in DOMAIN s :
       /\ s[i] \in Answer /\ AnswerOfTree(s[i])
       /\ s[i].from = r.from /\ s[i].f = r.f /\ s[i].n = r.n
       /\ s[i].op = r.op \/ (s[i].op = "indexes" /\ r.op \in IndexOps)
  /\ ~(s[Len(s)].ok /\ s[Len(s)].op \in {"addIndex", "editIndex"})
  /\ s[1].op = r.op

\* What the server has after r, and what the answers say of it.
Does(r, p, i, c, s) ==
  /\ AnswersOf(r, s)
  /\ p \in [Folders -> SUBSET Names] /\ i \subseteq Names /\ c \in BOOLEAN
  /\ \A f \in Folders : \/ p[f] = part[f]
                        \/ r.op \in NameOps /\ r.f = f
                        \/ r.op = "dropDb"
                        \/ r.op \in IndexOps /\ f = "Collections" /\ p[f] = part[f] \cup {r.n}
  /\ \A n \in Names : \/ n \in i <=> n \in indexed
                      \/ r.op \in NameOps /\ r.f = "Collections"
                      \/ r.op = "dropDb"
                      \/ r.op \in IndexOps /\ r.n = n
  /\ \A j \in DOMAIN s :
       /\ s[j].op = "load" /\ s[j].ok => s[j].data = p[r.f]
       /\ s[j].op \in {"indexes", "dropIndex"} /\ s[j].ok => (r.n \in i <=> (s[j].op = "indexes" /\ s[j].data))
       /\ s[j].op = "databases" /\ s[j].ok /\ created => s[j].data
  /\ r.op = "createDb" /\ s[1].ok => c /\ p = part
  /\ created /\ ~Exists => c \/ (r.op = "dropDb" /\ s[1].ok)

LEMMA AnswerIsRecord ==
  ASSUME NEW r \in TreeAsk, NEW ok \in BOOLEAN, NEW data \in BOOLEAN \cup SUBSET Names,
         NEW a, a = AnswerTo(r, ok, data)
  PROVE  /\ a \in Answer /\ a.op = r.op /\ a.from = r.from /\ a.f = r.f /\ a.n = r.n /\ a.ok = ok /\ a.data = data
         /\ r.op \in TreeOps /\ r.from \in Nat
BY DEF AnswerTo, Answer, TreeAsk

LEMMA AnswerFollows ==
  ASSUME NEW r \in TreeAsk, AskOfTree(r), NEW a \in Answer, a.from = r.from, a.f = r.f, a.n = r.n,
         a.op = r.op \/ (a.op = "indexes" /\ r.op \in IndexOps),
         a.ok /\ a.op = "load" => a.data \subseteq Names,
         a.ok /\ a.op \in {"databases", "connect", "indexes"} => a.data \in BOOLEAN
  PROVE  AnswerOfTree(a)
<1>1. CASE a.op = r.op
  BY <1>1 DEF AskOfTree, AnswerOfTree, MessageOK
<1>2. CASE a.op = "indexes" /\ r.op \in IndexOps
  BY <1>2 DEF AskOfTree, AnswerOfTree, MessageOK, IndexOps, NameOps, SetOps
<1> QED
  BY <1>1, <1>2

LEMMA OneAnswer ==
  ASSUME NEW r \in TreeAsk, AskOfTree(r), NEW ok \in BOOLEAN, NEW data \in BOOLEAN \cup SUBSET Names,
         ok /\ r.op = "load" => data \subseteq Names,
         ok /\ r.op \in {"databases", "connect", "indexes"} => data \in BOOLEAN,
         r.op \in {"addIndex", "editIndex"} => ~ok,
         NEW s, s = <<AnswerTo(r, ok, data)>>
  PROVE  AnswersOf(r, s) /\ DOMAIN s = {1} /\ s[1].op = r.op /\ s[1].ok = ok /\ s[1].data = data
<1>1. PICK a : a = AnswerTo(r, ok, data)
  OBVIOUS
<1>2. a \in Answer /\ a.op = r.op /\ a.from = r.from /\ a.f = r.f /\ a.n = r.n /\ a.ok = ok /\ a.data = data
  BY <1>1, AnswerIsRecord
<1>3. AnswerOfTree(a)
  BY <1>2, AnswerFollows
<1>4. s \in Seq(Answer) /\ Len(s) = 1 /\ DOMAIN s = 1..1 /\ s[1] = a
  BY <1>1, <1>2
<1>5. \A i \in 1..1 : i = 1
  OBVIOUS
<1> QED
  BY <1>2, <1>3, <1>4, <1>5 DEF AnswersOf

LEMMA PairFacts ==
  ASSUME NEW S, NEW a \in S, NEW b \in S, NEW s, s = <<a, b>>
  PROVE  s \in Seq(S) /\ Len(s) = 2 /\ DOMAIN s = 1..2 /\ s[1] = a /\ s[2] = b
OBVIOUS

LEMMA IndexesIsRecord ==
  ASSUME NEW r \in TreeAsk, NEW i, NEW b, b = Indexes(r, i)
  PROVE  /\ b \in Answer /\ b.op = "indexes" /\ b.from = r.from /\ b.f = r.f /\ b.n = r.n /\ b.ok
         /\ b.data \in BOOLEAN /\ (b.data <=> r.n \in i)
<1>1. /\ r.from \in Nat /\ r.f \in Folders \cup {None} /\ r.n \in Names \cup {None} /\ "indexes" \in TreeOps
  BY DEF TreeAsk, TreeOps, IndexOps
<1>2. b.op = "indexes" /\ b.from = r.from /\ b.f = r.f /\ b.n = r.n /\ b.ok
  BY DEF Indexes
<1>3. b.data = (r.n \in i)
  BY Zenon DEF Indexes
<1>4. b.data \in BOOLEAN /\ (b.data <=> r.n \in i)
  <2>1. b.data <=> r.n \in i
    BY <1>3, Zenon
  <2> QED
    BY <1>3, <2>1
<1>5. b \in Answer
  BY <1>1 DEF Indexes, Answer
<1> QED
  BY <1>2, <1>4, <1>5

LEMMA TwoAnswers ==
  ASSUME NEW r \in TreeAsk, AskOfTree(r), r.op \in {"addIndex", "editIndex"}, NEW i,
         NEW a \in Answer, a.op = r.op, a.from = r.from, a.f = r.f, a.n = r.n,
         NEW b \in Answer, b.from = r.from, b.f = r.f, b.n = r.n,
         \/ b.op = "indexes" /\ b.data \in BOOLEAN /\ (b.data <=> r.n \in i)
         \/ b.op = r.op /\ ~b.ok,
         NEW s, s = <<a, b>>
  PROVE  /\ AnswersOf(r, s) /\ DOMAIN s = {1, 2} /\ s[1].op = r.op
         /\ s[2].op = "indexes" => (s[2].data <=> r.n \in i)
         /\ s[2].op # "dropIndex"
<1>1. AnswerOfTree(a)
  BY AnswerFollows
<1>2. r.op \in IndexOps
  BY DEF IndexOps
<1>3. AnswerOfTree(b)
  BY <1>2, AnswerFollows
<1>4. s \in Seq(Answer) /\ Len(s) = 2 /\ DOMAIN s = 1..2 /\ s[1] = a /\ s[2] = b
  BY PairFacts
<1>5. 1..2 = {1, 2}
  OBVIOUS
<1> QED
  BY <1>1, <1>2, <1>3, <1>4, <1>5 DEF AnswersOf

LEMMA OneDoes ==
  ASSUME NEW r \in TreeAsk, AskOfTree(r), NEW ok \in BOOLEAN, NEW data \in BOOLEAN \cup SUBSET Names,
         NEW p \in [Folders -> SUBSET Names], NEW i \in SUBSET Names, NEW c \in BOOLEAN,
         NEW out, out = Outcome(p, i, c, <<AnswerTo(r, ok, data)>>),
         ok /\ r.op = "load" => data \subseteq Names /\ data = p[r.f],
         ok /\ r.op \in {"databases", "connect", "indexes"} => data \in BOOLEAN,
         ok /\ r.op = "indexes" => (data <=> r.n \in i),
         ok /\ r.op = "dropIndex" => r.n \notin i,
         ok /\ r.op = "databases" /\ created => data,
         ok /\ r.op = "createDb" => c /\ p = part,
         r.op \in {"addIndex", "editIndex"} => ~ok,
         created /\ ~Exists => c \/ (r.op = "dropDb" /\ ok),
         \A f \in Folders : \/ p[f] = part[f]
                            \/ r.op \in NameOps /\ r.f = f
                            \/ r.op = "dropDb",
         \A n \in Names : \/ n \in i <=> n \in indexed
                          \/ r.op \in NameOps /\ r.f = "Collections"
                          \/ r.op = "dropDb"
                          \/ r.op \in IndexOps /\ r.n = n
  PROVE  Does(r, out.part, out.indexed, out.created, out.answers)
<1>1. PICK s : s = <<AnswerTo(r, ok, data)>>
  OBVIOUS
<1>2. out.part = p /\ out.indexed = i /\ out.created = c /\ out.answers = s
  BY <1>1 DEF Outcome
<1>3. AnswersOf(r, s) /\ DOMAIN s = {1} /\ s[1].op = r.op /\ s[1].ok = ok /\ s[1].data = data
  BY <1>1, OneAnswer
<1>4. /\ s[1].op = "load" /\ s[1].ok => s[1].data = p[r.f]
      /\ s[1].op \in {"indexes", "dropIndex"} /\ s[1].ok => (r.n \in i <=> (s[1].op = "indexes" /\ s[1].data))
      /\ s[1].op = "databases" /\ s[1].ok /\ created => s[1].data
      /\ r.op = "createDb" /\ s[1].ok => c /\ p = part
      /\ created /\ ~Exists => c \/ (r.op = "dropDb" /\ s[1].ok)
  BY <1>3
<1>5. Does(r, p, i, c, s)
  BY <1>3, <1>4 DEF Does
<1> QED
  BY <1>2, <1>5

LEMMA TwoDoes ==
  ASSUME TreeTypeOK, NEW r \in TreeAsk, AskOfTree(r), r.op \in {"addIndex", "editIndex"},
         NEW i \in SUBSET Names, \A n \in Names : (n \in i <=> n \in indexed) \/ r.n = n,
         NEW out \in IndexMade(r, i)
  PROVE  Does(r, out.part, out.indexed, out.created, out.answers)
<1>1. PICK p : p = [part EXCEPT !["Collections"] = @ \cup {r.n}]
  OBVIOUS
<1>2. r.n \in Names /\ r.op \in IndexOps
  BY DEF AskOfTree, MessageOK, IndexOps
<1>3. /\ p \in [Folders -> SUBSET Names] /\ p["Collections"] = part["Collections"] \cup {r.n}
      /\ \A f \in Folders : f # "Collections" => p[f] = part[f]
  BY <1>1, <1>2 DEF TreeTypeOK, Folders
<1>4. PICK a, b : a = AnswerTo(r, TRUE, {}) /\ b \in {Indexes(r, i), AnswerTo(r, FALSE, {})}
                  /\ out = Outcome(p, i, created, <<a, b>>)
  BY <1>1 DEF IndexMade
<1> HIDE DEF Indexes, AnswerTo
<1>5. a \in Answer /\ a.op = r.op /\ a.from = r.from /\ a.f = r.f /\ a.n = r.n
  <2>1. PICK d \in BOOLEAN \cup SUBSET Names : a = AnswerTo(r, TRUE, d)
    BY <1>4
  <2>2. PICK ok \in BOOLEAN : a = AnswerTo(r, ok, d)
    BY <2>1
  <2> QED
    BY <2>2, AnswerIsRecord
<1>6. /\ b \in Answer /\ b.from = r.from /\ b.f = r.f /\ b.n = r.n
      /\ \/ b.op = "indexes" /\ b.data \in BOOLEAN /\ (b.data <=> r.n \in i)
         \/ b.op = r.op /\ ~b.ok
  <2>1. ASSUME b = Indexes(r, i)
        PROVE  /\ b \in Answer /\ b.from = r.from /\ b.f = r.f /\ b.n = r.n
               /\ b.op = "indexes" /\ b.data \in BOOLEAN /\ (b.data <=> r.n \in i)
    <3>1. b \in Answer
      BY <2>1, IndexesIsRecord
    <3>2. b.from = r.from /\ b.f = r.f /\ b.n = r.n /\ b.op = "indexes"
      BY <2>1, IndexesIsRecord
    <3>3. b.data \in BOOLEAN
      BY <2>1, IndexesIsRecord
    <3>4. b.data <=> r.n \in i
      BY <2>1, IndexesIsRecord
    <3> QED
      BY <3>1, <3>2, <3>3, <3>4
  <2>2. ASSUME b = AnswerTo(r, FALSE, {})
        PROVE  b \in Answer /\ b.from = r.from /\ b.f = r.f /\ b.n = r.n /\ b.op = r.op /\ ~b.ok
    <3>1. PICK d \in BOOLEAN \cup SUBSET Names : b = AnswerTo(r, FALSE, d)
      BY <2>2
    <3>2. PICK ok \in BOOLEAN : b = AnswerTo(r, ok, d) /\ ~ok
      BY <3>1
    <3> QED
      BY <3>2, AnswerIsRecord
  <2> QED
    BY <1>4, <2>1, <2>2
<1>7. PICK s : s = <<a, b>>
  OBVIOUS
<1>8. /\ AnswersOf(r, s) /\ DOMAIN s = {1, 2} /\ s[1].op = r.op
      /\ s[2].op = "indexes" => (s[2].data <=> r.n \in i)
      /\ s[2].op # "dropIndex"
  BY <1>5, <1>6, <1>7, TwoAnswers
<1>9. s[2].op = r.op \/ s[2].op = "indexes"
  BY <1>8 DEF AnswersOf
<1>10. out.part = p /\ out.indexed = i /\ out.created = created /\ out.answers = s
  BY <1>4, <1>7 DEF Outcome
<1>11. \A j \in DOMAIN s :
         /\ s[j].op = "load" /\ s[j].ok => s[j].data = p[r.f]
         /\ s[j].op \in {"indexes", "dropIndex"} /\ s[j].ok => (r.n \in i <=> (s[j].op = "indexes" /\ s[j].data))
         /\ s[j].op = "databases" /\ s[j].ok /\ created => s[j].data
  BY <1>8, <1>9
<1>12. \A f \in Folders : p[f] = part[f] \/ (f = "Collections" /\ p[f] = part[f] \cup {r.n})
  BY <1>3
<1>13. p \in [Folders -> SUBSET Names] /\ i \subseteq Names /\ created \in BOOLEAN /\ r.op # "createDb"
  BY <1>3 DEF TreeTypeOK
<1>14. Does(r, p, i, created, s)
  BY <1>2, <1>8, <1>11, <1>12, <1>13 DEF Does
<1> QED
  BY <1>10, <1>14

LEMMA FailsDoes ==
  ASSUME TreeTypeOK, NEW r \in TreeAsk, AskOfTree(r), NEW out \in Fails(r)
  PROVE  Does(r, out.part, out.indexed, out.created, out.answers)
<1>1. PICK d : d = {}
  OBVIOUS
<1>2. out = Outcome(part, indexed, created, <<AnswerTo(r, FALSE, d)>>)
  BY <1>1 DEF Fails, Same
<1>3. d \in BOOLEAN \cup SUBSET Names
  BY <1>1
<1>4. part \in [Folders -> SUBSET Names] /\ indexed \in SUBSET Names /\ created \in BOOLEAN
  BY DEF TreeTypeOK
<1> QED
  BY <1>2, <1>3, <1>4, OneDoes

\* The operations that answer what they were told to do, and no more.
LEMMA DoneDoes ==
  ASSUME TreeTypeOK, NEW r \in TreeAsk, AskOfTree(r), r.op \in NameOps \cup {"folder", "dropIndex"},
         NEW p \in [Folders -> SUBSET Names], NEW i \in SUBSET Names, NEW out \in Done(r, p, i),
         r.op = "dropIndex" => r.n \notin i,
         \A f \in Folders : p[f] = part[f] \/ (r.op \in NameOps /\ r.f = f),
         \A n \in Names : \/ n \in i <=> n \in indexed
                          \/ r.op \in NameOps /\ r.f = "Collections"
                          \/ r.op \in IndexOps /\ r.n = n
  PROVE  Does(r, out.part, out.indexed, out.created, out.answers)
<1>1. PICK d \in BOOLEAN \cup SUBSET Names, ok \in BOOLEAN : d = {} /\ ok = TRUE
  OBVIOUS
<1>2. out = Outcome(p, i, created, <<AnswerTo(r, ok, d)>>)
  BY <1>1 DEF Done
<1>3. d \in BOOLEAN \cup SUBSET Names
  BY <1>1
<1>4. created \in BOOLEAN
  BY DEF TreeTypeOK
<1>5. r.op \notin {"load", "databases", "connect", "indexes", "createDb", "addIndex", "editIndex"}
  BY DEF NameOps
<1> QED
  BY <1>2, <1>3, <1>4, <1>5, OneDoes

LEMMA ListingDoes ==
  ASSUME TreeTypeOK, NEW r \in TreeAsk, AskOfTree(r), r.op \in {"databases", "connect"}, NEW out \in AskOutcomes(r)
  PROVE  Does(r, out.part, out.indexed, out.created, out.answers)
<1> USE DEF AskOutcomes
<1>1. part \in [Folders -> SUBSET Names] /\ indexed \in SUBSET Names /\ created \in BOOLEAN
  BY DEF TreeTypeOK
<1>2. PICK ok \in BOOLEAN, e \in BOOLEAN, x \in BOOLEAN : ok = TRUE /\ e = Exists /\ x = FALSE
  BY DEF Exists
<1>3. CASE r.op = "databases"
  <2>1. PICK c \in BOOLEAN, d \in BOOLEAN, k \in BOOLEAN :
          (c <=> created /\ ~Exists) /\ (d <=> Exists \/ created) /\ (k <=> created)
    OBVIOUS
  <2>2. (created /\ ~Exists) = c /\ (Exists \/ created) = d /\ created = k
    BY <1>1, <2>1
  <2>3. \/ out = Outcome(part, indexed, c, <<AnswerTo(r, ok, d)>>)
        \/ out = Outcome(part, indexed, created, <<AnswerTo(r, ok, k)>>)
        \/ out \in Fails(r)
    BY <1>2, <1>3, <2>2 DEF ListDatabases, Same
  <2>4. CASE out = Outcome(part, indexed, c, <<AnswerTo(r, ok, d)>>)
    BY <1>1, <1>3, <2>1, <2>4, OneDoes
  <2>5. CASE out = Outcome(part, indexed, created, <<AnswerTo(r, ok, k)>>)
    BY <1>1, <1>3, <2>1, <2>5, OneDoes
  <2> QED
    BY <2>3, <2>4, <2>5, FailsDoes
<1>4. CASE r.op = "connect"
  <2>1. \/ out = Outcome(part, indexed, created, <<AnswerTo(r, ok, e)>>)
        \/ out = Outcome(part, indexed, created, <<AnswerTo(r, ok, x)>>)
        \/ out \in Fails(r)
    BY <1>2, <1>4 DEF Reconnect, Same
  <2>2. CASE out = Outcome(part, indexed, created, <<AnswerTo(r, ok, e)>>)
    BY <1>1, <1>4, <2>2, OneDoes
  <2>3. CASE out = Outcome(part, indexed, created, <<AnswerTo(r, ok, x)>>)
    BY <1>1, <1>4, <2>3, OneDoes
  <2> QED
    BY <2>1, <2>2, <2>3, FailsDoes
<1> QED
  BY <1>3, <1>4

LEMMA DatabaseDoes ==
  ASSUME TreeTypeOK, NEW r \in TreeAsk, AskOfTree(r), r.op \in DatabaseOps \cup {"load"}, NEW out \in AskOutcomes(r)
  PROVE  Does(r, out.part, out.indexed, out.created, out.answers)
<1>1. part \in [Folders -> SUBSET Names] /\ indexed \in SUBSET Names /\ created \in BOOLEAN
  BY DEF TreeTypeOK
<1>2. PICK ok \in BOOLEAN, d \in BOOLEAN \cup SUBSET Names, c \in BOOLEAN, x \in BOOLEAN, i \in SUBSET Names :
        ok = TRUE /\ d = {} /\ c = TRUE /\ x = FALSE /\ i = {}
  OBVIOUS
<1>3. d \in BOOLEAN \cup SUBSET Names
  BY <1>2
<1>4. CASE r.op = "createDb"
  <2>1. out = Outcome(part, indexed, c, <<AnswerTo(r, ok, d)>>) \/ out \in Fails(r)
    BY <1>2, <1>4 DEF AskOutcomes
  <2>2. CASE out = Outcome(part, indexed, c, <<AnswerTo(r, ok, d)>>)
    BY <1>1, <1>2, <1>3, <1>4, <2>2, OneDoes
  <2> QED
    BY <2>1, <2>2, FailsDoes
<1>5. CASE r.op = "dropDb"
  <2>1. PICK p : p = [f \in Folders |-> IF f = "Users" THEN part[f] ELSE {}]
    OBVIOUS
  <2>2. out = Outcome(p, i, x, <<AnswerTo(r, ok, d)>>) \/ out \in Fails(r)
    BY <1>2, <1>5, <2>1 DEF AskOutcomes
  <2>3. p \in [Folders -> SUBSET Names]
    BY <1>1, <2>1
  <2>4. CASE out = Outcome(p, i, x, <<AnswerTo(r, ok, d)>>)
    BY <1>1, <1>2, <1>3, <1>5, <2>3, <2>4, OneDoes
  <2> QED
    BY <2>2, <2>4, FailsDoes
<1>6. CASE r.op = "load"
  <2>1. PICK q : q = part[r.f]
    OBVIOUS
  <2>2. q \subseteq Names
    BY <1>1, <1>6, <2>1 DEF AskOfTree, MessageOK
  <2>3. out = Outcome(part, indexed, created, <<AnswerTo(r, ok, q)>>) \/ out \in Fails(r)
    BY <1>2, <1>6, <2>1 DEF AskOutcomes, Same
  <2>4. CASE out = Outcome(part, indexed, created, <<AnswerTo(r, ok, q)>>)
    BY <1>1, <1>6, <2>1, <2>2, <2>4, OneDoes
  <2> QED
    BY <2>3, <2>4, FailsDoes
<1> QED
  BY <1>4, <1>5, <1>6 DEF DatabaseOps

\* A folder, and with the collections the indexes, as an operation on a name leaves them.
LEMMA NameDone ==
  ASSUME TreeTypeOK, NEW r \in TreeAsk, AskOfTree(r), r.op \in NameOps,
         NEW x \in SUBSET Names, NEW p, p = [part EXCEPT ![r.f] = x],
         NEW i \in SUBSET Names, i = indexed \/ r.f = "Collections"
  PROVE  /\ p \in [Folders -> SUBSET Names]
         /\ \A f \in Folders : p[f] = part[f] \/ r.f = f
         /\ \A n \in Names : (n \in i <=> n \in indexed) \/ r.f = "Collections"
         /\ \A out \in Done(r, p, i) : Does(r, out.part, out.indexed, out.created, out.answers)
<1>1. r.f \in Folders /\ part \in [Folders -> SUBSET Names]
  BY DEF AskOfTree, MessageOK, TreeTypeOK
<1>2. /\ p \in [Folders -> SUBSET Names]
      /\ \A f \in Folders : p[f] = part[f] \/ r.f = f
      /\ \A n \in Names : (n \in i <=> n \in indexed) \/ r.f = "Collections"
  BY <1>1
<1>3. r.op # "dropIndex"
  BY DEF NameOps
<1>4. \A out \in Done(r, p, i) : Does(r, out.part, out.indexed, out.created, out.answers)
  BY <1>2, <1>3, DoneDoes
<1> QED
  BY <1>2, <1>4

LEMMA NamesDoes ==
  ASSUME TreeTypeOK, NEW r \in TreeAsk, AskOfTree(r), r.op \in NameOps, NEW out \in AskOutcomes(r)
  PROVE  Does(r, out.part, out.indexed, out.created, out.answers)
<1>1. /\ part \in [Folders -> SUBSET Names] /\ indexed \in SUBSET Names /\ created \in BOOLEAN
      /\ r.f \in Folders /\ r.n \in Names /\ (r.op \in {"rename", "duplicate"} => r.m \in Names)
      /\ part[r.f] \subseteq Names
  BY DEF TreeTypeOK, AskOfTree, MessageOK
<1>2. CASE r.op = "create"
  <2>1. PICK x \in SUBSET Names : x = part[r.f] \cup {r.n}
    BY <1>1
  <2>2. PICK p : p = [part EXCEPT ![r.f] = x]
    OBVIOUS
  <2>3. p = [part EXCEPT ![r.f] = @ \cup {r.n}]
    BY <1>1, <2>1, <2>2
  <2>4. out \in Done(r, p, indexed) \/ out \in Fails(r)
    BY <1>2, <2>3 DEF AskOutcomes, CreateIn
  <2> QED
    BY <1>1, <2>2, <2>4, NameDone, FailsDoes
<1>3. CASE r.op = "drop"
  <2>1. PICK x \in SUBSET Names : x = part[r.f] \ {r.n}
    BY <1>1
  <2>2. PICK p : p = [part EXCEPT ![r.f] = x]
    OBVIOUS
  <2>3. p = [part EXCEPT ![r.f] = @ \ {r.n}]
    BY <1>1, <2>1, <2>2
  <2>4. PICK i \in SUBSET Names : i = IF r.f = "Collections" THEN indexed \ {r.n} ELSE indexed
    BY <1>1
  <2>5. out \in Done(r, p, i) \/ out \in Fails(r)
    BY <1>3, <2>3, <2>4 DEF AskOutcomes, DropIn
  <2>6. i = indexed \/ r.f = "Collections"
    BY <2>4
  <2>7. CASE out \in Done(r, p, i)
    BY <2>2, <2>6, <2>7, NameDone
  <2> QED
    BY <2>5, <2>7, FailsDoes
<1>4. CASE r.op = "rename"
  <2>1. PICK x \in SUBSET Names : x = IF r.f = "Functions" THEN part[r.f] \cup {r.m}
                                      ELSE (part[r.f] \ {r.n}) \cup {r.m}
    BY <1>1, <1>4
  <2>2. PICK p : p = [part EXCEPT ![r.f] = x]
    OBVIOUS
  <2>3. p = IF r.f = "Functions" THEN [part EXCEPT ![r.f] = @ \cup {r.m}]
            ELSE [part EXCEPT ![r.f] = (@ \ {r.n}) \cup {r.m}]
    BY <1>1, <2>1, <2>2
  <2>4. PICK i \in SUBSET Names : i = IF r.f = "Collections" /\ r.n \in indexed
                                      THEN (indexed \ {r.n}) \cup {r.m} ELSE indexed
    BY <1>1, <1>4
  <2>5. r.f \in {"Collections", "Functions"}
    BY <1>1, <1>4 DEF AskOfTree, MessageOK, Folders
  <2>6. out \in Done(r, p, i) \/ out \in Fails(r)
    <3>1. CASE r.f = "Functions"
      BY <1>4, <2>3, <2>4, <3>1 DEF AskOutcomes, RenameIn
    <3>2. CASE r.f = "Collections"
      BY <1>4, <2>3, <2>4, <3>2 DEF AskOutcomes, RenameIn
    <3> QED
      BY <2>5, <3>1, <3>2
  <2> QED
    BY <1>1, <2>2, <2>4, <2>6, NameDone, FailsDoes
<1>5. CASE r.op = "duplicate"
  <2>1. PICK x \in SUBSET Names : x = part[r.f] \cup {r.m}
    BY <1>1, <1>5
  <2>2. PICK p : p = [part EXCEPT ![r.f] = x]
    OBVIOUS
  <2>3. p = [part EXCEPT ![r.f] = @ \cup {r.m}]
    BY <1>1, <2>1, <2>2
  <2>4. PICK ok \in BOOLEAN, d \in BOOLEAN \cup SUBSET Names : ok = FALSE /\ d = {}
    OBVIOUS
  <2>5. \/ out \in Done(r, p, indexed) \/ out \in Fails(r)
        \/ out = Outcome(p, indexed, created, <<AnswerTo(r, ok, d)>>)
    BY <1>5, <2>3, <2>4 DEF AskOutcomes, DuplicateIn
  <2>6. CASE out = Outcome(p, indexed, created, <<AnswerTo(r, ok, d)>>)
    <3>1. /\ p \in [Folders -> SUBSET Names]
          /\ \A f \in Folders : p[f] = part[f] \/ r.f = f
      BY <1>1, <2>2, NameDone
    <3> QED
      BY <1>1, <1>5, <2>4, <2>6, <3>1, OneDoes
  <2> QED
    BY <1>1, <2>2, <2>5, <2>6, NameDone, FailsDoes
<1> QED
  BY <1>2, <1>3, <1>4, <1>5 DEF NameOps

LEMMA IndexesDoes ==
  ASSUME TreeTypeOK, NEW r \in TreeAsk, AskOfTree(r), r.op \in IndexOps, NEW out \in AskOutcomes(r)
  PROVE  Does(r, out.part, out.indexed, out.created, out.answers)
<1>1. /\ part \in [Folders -> SUBSET Names] /\ indexed \in SUBSET Names /\ created \in BOOLEAN
      /\ r.f = "Collections" /\ r.n \in Names
  BY DEF TreeTypeOK, AskOfTree, MessageOK
<1>2. CASE r.op = "indexes"
  <2>1. PICK b : b = Indexes(r, indexed)
    OBVIOUS
  <2>2. PICK ok \in BOOLEAN, d \in BOOLEAN : ok = TRUE /\ d = b.data
    <3>1. b.data \in BOOLEAN
      BY <2>1, IndexesIsRecord
    <3> QED
      BY <3>1
  <2>3. d <=> r.n \in indexed
    BY <2>1, <2>2, IndexesIsRecord
  <2>4. b = AnswerTo(r, ok, d)
    <3>1. b.data = (r.n \in indexed)
      BY <2>1, Zenon DEF Indexes
    <3>2. d = (r.n \in indexed)
      BY <2>2, <3>1
    <3> QED
      BY <1>2, <2>1, <2>2, <3>2, Zenon DEF AnswerTo, Indexes
  <2>5. out = Outcome(part, indexed, created, <<AnswerTo(r, ok, d)>>) \/ out \in Fails(r)
    BY <1>2, <2>1, <2>4, Zenon DEF AskOutcomes, Same
  <2>6. CASE out = Outcome(part, indexed, created, <<AnswerTo(r, ok, d)>>)
    BY <1>1, <1>2, <2>3, <2>6, OneDoes
  <2> QED
    BY <2>5, <2>6, FailsDoes
<1>3. CASE r.op = "addIndex"
  <2>1. PICK i \in SUBSET Names : i = indexed \cup {r.n}
    BY <1>1
  <2>2. out \in IndexMade(r, i) \/ out \in Fails(r)
    BY <1>3, <2>1 DEF AskOutcomes
  <2>3. \A n \in Names : (n \in i <=> n \in indexed) \/ r.n = n
    BY <2>1
  <2> QED
    BY <1>3, <2>2, <2>3, TwoDoes, FailsDoes
<1>4. CASE r.op = "editIndex"
  <2>1. PICK i \in SUBSET Names : i = indexed \ {r.n}
    BY <1>1
  <2>2. PICK ok \in BOOLEAN, d \in BOOLEAN \cup SUBSET Names : ok = FALSE /\ d = {}
    OBVIOUS
  <2>3. \/ out \in IndexMade(r, indexed) \/ out \in Fails(r)
        \/ out = Outcome(part, i, created, <<AnswerTo(r, ok, d)>>)
    BY <1>4, <2>1, <2>2 DEF AskOutcomes, EditIndex
  <2>4. CASE out = Outcome(part, i, created, <<AnswerTo(r, ok, d)>>)
    <3>1. \A n \in Names : (n \in i <=> n \in indexed) \/ r.n = n
      BY <2>1
    <3> QED
      BY <1>1, <1>4, <2>2, <2>4, <3>1, OneDoes
  <2>5. CASE out \in IndexMade(r, indexed)
    BY <1>1, <1>4, <2>5, TwoDoes
  <2> QED
    BY <2>3, <2>4, <2>5, FailsDoes
<1>5. CASE r.op = "dropIndex"
  <2>1. PICK i \in SUBSET Names : i = indexed \ {r.n}
    BY <1>1
  <2>2. out \in Done(r, part, i) \/ out \in Fails(r)
    BY <1>5, <2>1 DEF AskOutcomes
  <2>3. r.n \notin i /\ \A n \in Names : (n \in i <=> n \in indexed) \/ r.n = n
    BY <2>1
  <2> QED
    BY <1>1, <1>5, <2>2, <2>3, DoneDoes, FailsDoes
<1> QED
  BY <1>2, <1>3, <1>4, <1>5 DEF IndexOps

LEMMA OutcomeDoes ==
  ASSUME TreeTypeOK, NEW r \in TreeAsk, AskOfTree(r), NEW out \in AskOutcomes(r)
  PROVE  Does(r, out.part, out.indexed, out.created, out.answers)
<1>1. CASE r.op = "folder"
  <2>1. out \in Done(r, part, indexed) \/ out \in Fails(r)
    BY <1>1 DEF AskOutcomes
  <2> QED
    BY <1>1, <2>1, DoneDoes, FailsDoes DEF TreeTypeOK
<1>2. r.op \in TreeOps
  BY DEF TreeAsk
<1> QED
  BY <1>1, <1>2, ListingDoes, DatabaseDoes, NamesDoes, IndexesDoes DEF TreeOps, SetOps

-----------------------------------------------------------------------------
\* A step of the worker.
Worked(r, s) ==
  /\ requests # <<>> /\ r = Head(requests) /\ requests' = Tail(requests)
  /\ Does(r, part', indexed', created', s)
  /\ answers' = answers \o s
  /\ UNCHANGED <<kind, objects, dbItems, label, setLabel, wasLost, fresh, toldOf, asks, dangling>>
  /\ made' \in BOOLEAN
  /\ IF r.op = "createDb" /\ s[1].ok THEN made' => ~Exists
     ELSE made' => made /\ ~(r.op = "dropDb" /\ s[1].ok) /\ ~Exists'

LEMMA WorkIsWorked ==
  ASSUME TreeTyped, Work
  PROVE  \E r, s : Worked(r, s)
<1>1. TreeTypeOK /\ AsksKept /\ requests \in Seq(TreeAsk) /\ requests # <<>>
  BY DEF TreeTyped, TreeTypeOK, Work
<1>2. PICK r \in TreeAsk : r = Head(requests)
  BY <1>1, HeadTailProperties
<1>3. AskOfTree(r)
  <2>1. 1 \in DOMAIN requests /\ r = requests[1]
    BY <1>1, <1>2, LenProperties, EmptySeq
  <2> QED
    BY <1>1, <2>1 DEF AsksKept
<1>4. PICK out \in AskOutcomes(r) :
        /\ part' = out.part /\ indexed' = out.indexed /\ created' = out.created
        /\ answers' = answers \o out.answers
        /\ made' = IF r.op = "createDb" /\ out.answers[1].ok THEN ~Exists
                   ELSE made /\ ~(r.op = "dropDb" /\ out.answers[1].ok) /\ \A f \in Folders \ {"Users"} : out.part[f] = {}
  BY <1>2 DEF Work
<1>5. PICK s : s = out.answers
  OBVIOUS
<1>6. Does(r, part', indexed', created', s)
  BY <1>1, <1>3, <1>4, <1>5, OutcomeDoes
<1>7. requests' = Tail(requests) /\ answers' = answers \o s
      /\ UNCHANGED <<kind, objects, dbItems, label, setLabel, wasLost, fresh, toldOf, asks, dangling>>
  BY <1>4, <1>5 DEF Work, tree
<1>8. CASE r.op = "createDb" /\ s[1].ok
  <2>1. made' = ~Exists
    BY <1>4, <1>5, <1>8, Zenon
  <2>2. made' \in BOOLEAN /\ (made' => ~Exists)
    BY <2>1, Zenon
  <2> QED
    BY <1>1, <1>2, <1>6, <1>7, <1>8, <2>2, Zenon DEF Worked
<1>9. CASE ~(r.op = "createDb" /\ s[1].ok)
  <2>1. made' = (made /\ ~(r.op = "dropDb" /\ s[1].ok) /\ \A f \in Folders \ {"Users"} : part'[f] = {})
    BY <1>4, <1>5, <1>9, Zenon
  <2>2. made' \in BOOLEAN /\ (made' => made /\ ~(r.op = "dropDb" /\ s[1].ok) /\ \A f \in Folders \ {"Users"} : part'[f] = {})
    BY <2>1, Zenon
  <2>3. made' => ~Exists'
    <3>1. made' => part'["Collections"] = {} /\ part'["Functions"] = {}
      BY <2>2 DEF Folders
    <3>2. Exists' => part'["Collections"] \cup part'["Functions"] # {}
      BY DEF Exists
    <3> QED
      BY <3>1, <3>2
  <2>4. made' => made /\ ~(r.op = "dropDb" /\ s[1].ok) /\ ~Exists'
    BY <2>2, <2>3
  <2> QED
    BY <1>1, <1>2, <1>6, <1>7, <1>9, <2>2, <2>4, Zenon DEF Worked
<1> QED
  BY <1>8, <1>9

\* The queues before and after it.
LEMMA WorkedQueues ==
  ASSUME TreeTyped, NEW r, NEW s, Worked(r, s)
  PROVE  /\ r \in TreeAsk /\ AskOfTree(r) /\ 1 \in DOMAIN requests /\ r = requests[1]
         /\ requests' \in Seq(TreeAsk)
         /\ \A i \in DOMAIN requests' : i + 1 \in DOMAIN requests /\ requests'[i] = requests[i + 1]
         /\ \A i \in DOMAIN requests : i = 1 \/ (i - 1 \in DOMAIN requests' /\ requests'[i - 1] = requests[i])
         /\ answers' \in Seq(Answer)
         /\ Len(answers) \in Nat /\ DOMAIN answers = 1..Len(answers) /\ Len(s) \in {1, 2} /\ DOMAIN s = 1..Len(s)
         /\ DOMAIN answers' = 1..(Len(answers) + Len(s)) /\ Len(answers') = Len(answers) + Len(s)
         /\ \A j \in 1..Len(answers) : j \in DOMAIN answers' /\ answers'[j] = answers[j]
         /\ \A j \in DOMAIN s : Len(answers) + j \in DOMAIN answers' /\ answers'[Len(answers) + j] = s[j]
         /\ \A j \in DOMAIN answers' :
              j \in DOMAIN answers \/ (j - Len(answers) \in DOMAIN s /\ answers'[j] = s[j - Len(answers)])
<1>1. /\ requests \in Seq(TreeAsk) /\ AsksKept /\ answers \in Seq(Answer)
      /\ requests # <<>> /\ r = Head(requests) /\ requests' = Tail(requests) /\ answers' = answers \o s
      /\ s \in Seq(Answer) /\ Len(s) \in {1, 2} /\ DOMAIN s = 1..Len(s)
  BY DEF TreeTyped, TreeTypeOK, AnswersKept, Worked, Does, AnswersOf
<1>2. PICK n, m \in Nat : n = Len(requests) /\ m = Len(answers)
  BY <1>1, LenProperties
<1>3. n \in Nat \ {0} /\ DOMAIN requests = 1..n /\ DOMAIN answers = 1..m
  BY <1>1, <1>2, LenProperties, EmptySeq
<1>4. /\ r \in TreeAsk /\ r = requests[1] /\ requests' \in Seq(TreeAsk) /\ Len(requests') = n - 1
      /\ \A i \in 1..(n - 1) : requests'[i] = requests[i + 1]
  BY <1>1, <1>2, <1>3, HeadTailProperties
<1>5. DOMAIN requests' = 1..(n - 1)
  BY <1>4, LenProperties
<1>6. 1 \in DOMAIN requests /\ AskOfTree(r)
  <2>1. 1 \in DOMAIN requests
    BY <1>3
  <2> QED
    BY <1>1, <1>4, <2>1 DEF AsksKept
<1>7. \A i \in DOMAIN requests' : i + 1 \in DOMAIN requests /\ requests'[i] = requests[i + 1]
  BY <1>3, <1>4, <1>5
<1>8. \A i \in DOMAIN requests : i = 1 \/ (i - 1 \in DOMAIN requests' /\ requests'[i - 1] = requests[i])
  BY <1>3, <1>4, <1>5
<1>9. /\ answers' \in Seq(Answer) /\ Len(answers') = m + Len(s)
      /\ \A j \in 1..(m + Len(s)) : answers'[j] = IF j <= m THEN answers[j] ELSE s[j - m]
  BY <1>1, <1>2, ConcatProperties
<1>10. DOMAIN answers' = 1..(m + Len(s))
  BY <1>9, LenProperties
<1>11. \A j \in 1..m : j \in DOMAIN answers' /\ answers'[j] = answers[j]
  BY <1>1, <1>2, <1>9, <1>10
<1>12. \A j \in 1..Len(s) : m + j \in DOMAIN answers' /\ answers'[m + j] = s[j]
  BY <1>1, <1>2, <1>9, <1>10
<1>13. \A j \in DOMAIN answers' : j \in 1..m \/ (j - m \in 1..Len(s) /\ answers'[j] = s[j - m])
  BY <1>1, <1>2, <1>9, <1>10
<1> QED
  BY <1>1, <1>2, <1>3, <1>4, <1>6, <1>7, <1>8, <1>9, <1>10, <1>11, <1>12, <1>13

LEMMA WorkedTyped ==
  ASSUME TreeTyped, NEW r, NEW s, Worked(r, s)
  PROVE  TreeTyped'
<1>1. TreeTypeOK /\ AsksKept /\ AnswersKept /\ ObjectsKept /\ IndexesKept
  BY DEF TreeTyped
<1>2. /\ UNCHANGED <<kind, objects, dbItems, label, setLabel, wasLost, fresh, toldOf, asks, dangling>>
      /\ made' \in BOOLEAN
      /\ part' \in [Folders -> SUBSET Names] /\ indexed' \subseteq Names /\ created' \in BOOLEAN
      /\ AnswersOf(r, s)
  BY DEF Worked, Does
<1>3. /\ r \in TreeAsk /\ AskOfTree(r) /\ 1 \in DOMAIN requests /\ r = requests[1]
      /\ requests' \in Seq(TreeAsk)
      /\ \A i \in DOMAIN requests' : i + 1 \in DOMAIN requests /\ requests'[i] = requests[i + 1]
      /\ answers' \in Seq(Answer)
      /\ \A j \in DOMAIN answers' :
           \/ j \in DOMAIN answers /\ answers'[j] = answers[j]
           \/ j - Len(answers) \in DOMAIN s /\ answers'[j] = s[j - Len(answers)]
  <2>1. r \in TreeAsk /\ AskOfTree(r) /\ 1 \in DOMAIN requests /\ r = requests[1]
    BY WorkedQueues
  <2>2. /\ requests' \in Seq(TreeAsk)
        /\ \A i \in DOMAIN requests' : i + 1 \in DOMAIN requests /\ requests'[i] = requests[i + 1]
    BY WorkedQueues
  <2>3. /\ answers' \in Seq(Answer)
        /\ \A j \in DOMAIN answers' :
             j \in DOMAIN answers \/ (j - Len(answers) \in DOMAIN s /\ answers'[j] = s[j - Len(answers)])
    BY WorkedQueues
  <2>4. \A j \in 1..Len(answers) : answers'[j] = answers[j]
    BY WorkedQueues
  <2>5. DOMAIN answers = 1..Len(answers)
    BY WorkedQueues
  <2> QED
    BY <2>1, <2>2, <2>3, <2>4, <2>5
<1>4. TreeTypeOK'
  BY <1>1, <1>2, <1>3, Zenon DEF TreeTypeOK
<1>5. ASSUME NEW m PROVE (AskOfTree(m) => AskOfTree(m)') /\ (AnswerOfTree(m) => AnswerOfTree(m)')
  BY <1>2 DEF AskOfTree, AnswerOfTree, MessageOK
<1>6. AsksKept'
  <2>1. ASSUME NEW i \in DOMAIN requests' PROVE AskOfTree(requests[i])'
    <3>1. PICK q : q = requests'[i]
      OBVIOUS
    <3>2. AskOfTree(q)
      BY <1>1, <1>3, <3>1 DEF AsksKept
    <3>3. AskOfTree(q)'
      BY <1>5, <3>2
    <3> QED
      BY <3>1, <3>3
  <2> QED
    BY <2>1 DEF AsksKept
<1>7. AnswersKept'
  <2>1. ASSUME NEW j \in DOMAIN answers' PROVE AnswerOfTree(answers[j])'
    <3>1. PICK q : q = answers'[j]
      OBVIOUS
    <3>2. CASE j \in DOMAIN answers /\ answers'[j] = answers[j]
      <4>1. AnswerOfTree(q)
        BY <1>1, <3>1, <3>2 DEF AnswersKept
      <4> QED
        BY <1>5, <3>1, <4>1
    <3>3. CASE j - Len(answers) \in DOMAIN s /\ answers'[j] = s[j - Len(answers)]
      <4>1. AnswerOfTree(q)
        BY <1>2, <3>1, <3>3 DEF AnswersOf
      <4> QED
        BY <1>5, <3>1, <4>1
    <3> QED
      BY <1>3, <3>2, <3>3
  <2> QED
    BY <1>3, <2>1 DEF AnswersKept
<1>8. ObjectsKept'
  BY <1>1, <1>2, Zenon DEF ObjectsKept
<1>9. IndexesKept'
  <2>1. ASSUME NEW o \in DOMAIN dbItems, ~dbItems[o].gutted PROVE IndexesAreOfShown(dbItems[o])'
    <3>1. PICK it : it = dbItems[o]
      OBVIOUS
    <3>2. IndexesAreOfShown(it)
      BY <1>1, <2>1, <3>1 DEF IndexesKept
    <3>3. \A i \in DOMAIN requests' :
            requests'[i].op \in IndexOps /\ requests'[i].from = it.batch => requests'[i].n \in it.shown["Collections"]
      BY <1>3, <3>2 DEF IndexesAreOfShown
    <3>4. ASSUME NEW j \in DOMAIN answers', answers'[j].op \in IndexOps, answers'[j].from = it.batch
          PROVE  answers'[j].n \in it.shown["Collections"]
      <4>1. CASE j \in DOMAIN answers /\ answers'[j] = answers[j]
        BY <3>2, <3>4, <4>1 DEF IndexesAreOfShown
      <4>2. CASE j - Len(answers) \in DOMAIN s /\ answers'[j] = s[j - Len(answers)]
        <5>1. r.op \in IndexOps /\ r.from = it.batch /\ answers'[j].n = r.n
          BY <1>2, <3>4, <4>2 DEF AnswersOf
        <5> QED
          BY <1>3, <3>2, <5>1 DEF IndexesAreOfShown
      <4> QED
        BY <1>3, <4>1, <4>2
    <3>5. IndexesAreOfShown(it)'
      BY <3>2, <3>3, <3>4 DEF IndexesAreOfShown
    <3> QED
      BY <1>2, <3>1, <3>5
  <2> QED
    BY <1>1, <1>2, <2>1, Zenon DEF IndexesKept
<1> QED
  BY <1>4, <1>6, <1>7, <1>8, <1>9 DEF TreeTyped

LEMMA WorkedOffline ==
  ASSUME TreeTyped, OfflineKept, NEW r, NEW s, Worked(r, s)
  PROVE  OfflineKept'
<1>1. /\ r = requests[1]
      /\ \A i \in DOMAIN requests : i = 1 \/ (i - 1 \in DOMAIN requests' /\ requests'[i - 1] = requests[i])
      /\ \A j \in 1..Len(answers) : j \in DOMAIN answers' /\ answers'[j] = answers[j]
      /\ \A j \in DOMAIN s : Len(answers) + j \in DOMAIN answers' /\ answers'[Len(answers) + j] = s[j]
      /\ DOMAIN answers = 1..Len(answers) /\ Len(s) \in {1, 2} /\ DOMAIN s = 1..Len(s)
  BY WorkedQueues
<1>2. s[1].op = r.op /\ 1 \in DOMAIN s
  BY <1>1 DEF Worked, Does, AnswersOf
<1>3. ConnectPends => ConnectPends'
  <2>1. ASSUME NEW i \in DOMAIN requests, requests[i].op = "connect" PROVE ConnectPends'
    <3>1. CASE i = 1
      <4>1. Len(answers) + 1 \in DOMAIN answers' /\ answers'[Len(answers) + 1].op = "connect"
        BY <1>1, <1>2, <2>1, <3>1
      <4> QED
        BY <4>1 DEF ConnectPends
    <3>2. CASE i # 1
      BY <1>1, <2>1, <3>2 DEF ConnectPends
    <3> QED
      BY <3>1, <3>2
  <2>2. ASSUME NEW j \in DOMAIN answers, answers[j].op = "connect" PROVE ConnectPends'
    BY <1>1, <2>2 DEF ConnectPends
  <2> QED
    BY <2>1, <2>2 DEF ConnectPends
<1>4. label' = label /\ wasLost' = wasLost /\ dbItems' = dbItems
  BY DEF Worked
<1> QED
  BY <1>3, <1>4 DEF OfflineKept

LEMMA WorkedCreated ==
  ASSUME TreeTyped, CreatedKept, NEW r, NEW s, Worked(r, s)
  PROVE  CreatedKept'
<1>1. /\ r \in TreeAsk
      /\ \A j \in 1..Len(answers) : j \in DOMAIN answers' /\ answers'[j] = answers[j]
      /\ \A j \in DOMAIN s : Len(answers) + j \in DOMAIN answers' /\ answers'[Len(answers) + j] = s[j]
      /\ Len(answers) \in Nat /\ DOMAIN answers = 1..Len(answers) /\ Len(s) \in {1, 2} /\ DOMAIN s = 1..Len(s)
      /\ Len(answers') = Len(answers) + Len(s)
      /\ \A j \in DOMAIN answers' :
              j \in DOMAIN answers \/ (j - Len(answers) \in DOMAIN s /\ answers'[j] = s[j - Len(answers)])
  BY WorkedQueues
<1>2. UNCHANGED <<kind, objects, label>>
  BY DEF Worked
<1> SUFFICES ASSUME kind = "single", made' PROVE created' /\ ~Exists' /\ \E k \in 0..Len(answers') : ListsHoldIt(k)'
  BY <1>2 DEF CreatedKept
<1>3. /\ r.op = "createDb" /\ s[1].ok => created' /\ part' = part
      /\ created /\ ~Exists => created' \/ (r.op = "dropDb" /\ s[1].ok)
      /\ \A j \in DOMAIN s : s[j].op = "databases" /\ s[j].ok /\ created => s[j].data
      /\ s[1].op = r.op
      /\ \A j \in DOMAIN s : s[j].op = r.op \/ (s[j].op = "indexes" /\ r.op \in IndexOps)
  BY DEF Worked, Does, AnswersOf
<1>4. CASE r.op = "createDb" /\ s[1].ok
  <2>1. created' /\ part' = part /\ ~Exists
    BY <1>3, <1>4 DEF Worked
  <2>2. PICK k : k = Len(answers) + 1
    OBVIOUS
  <2>3. k \in 1..Len(answers') /\ answers'[k].op = "createDb" /\ answers'[k].ok
    BY <1>1, <1>3, <1>4, <2>2
  <2>4. \A j \in DOMAIN answers' : j > k => answers'[j].op # "databases"
    BY <1>1, <1>3, <1>4, <2>2, SMTT(30)
  <2>5. ListsHoldIt(k)'
    BY <2>3, <2>4 DEF ListsHoldIt
  <2> QED
    BY <2>1, <2>3, <2>5 DEF Exists
<1>5. CASE ~(r.op = "createDb" /\ s[1].ok)
  <2>1. made /\ ~(r.op = "dropDb" /\ s[1].ok) /\ ~Exists'
    BY <1>5 DEF Worked
  <2>2. created /\ ~Exists /\ \E k \in 0..Len(answers) : ListsHoldIt(k)
    BY <2>1 DEF CreatedKept
  <2>3. PICK k \in 0..Len(answers) : ListsHoldIt(k)
    BY <2>2
  <2>4. k \in 0..Len(answers') /\ (k = 0 \/ (answers'[k].op = "createDb" /\ answers'[k].ok))
    BY <1>1, <2>3 DEF ListsHoldIt
  <2>5. \A j \in DOMAIN answers' : j > k /\ answers'[j].op = "databases" /\ answers'[j].ok => answers'[j].data
    BY <1>1, <1>3, <2>2, <2>3 DEF ListsHoldIt
  <2>6. ListsHoldIt(k)'
    BY <1>2, <2>3, <2>4, <2>5 DEF ListsHoldIt
  <2> QED
    BY <1>3, <2>1, <2>2, <2>4, <2>6
<1> QED
  BY <1>4, <1>5

\* What revises goes on doing so, by its last answer if it was the request served.
LEMMA WorkedRevised ==
  ASSUME TreeTyped, NEW r, NEW s, Worked(r, s), NEW x, NEW b, NEW i \in 0..Len(answers),
         Revised(x, b, i) \/ AskRevises(r, x, b)
  PROVE  Revised(x, b, i)'
<1>1. /\ r \in TreeAsk /\ r = requests[1]
      /\ \A j \in DOMAIN requests : j = 1 \/ (j - 1 \in DOMAIN requests' /\ requests'[j - 1] = requests[j])
      /\ \A j \in 1..Len(answers) : j \in DOMAIN answers' /\ answers'[j] = answers[j]
      /\ \A j \in DOMAIN s : Len(answers) + j \in DOMAIN answers' /\ answers'[Len(answers) + j] = s[j]
      /\ Len(answers) \in Nat /\ DOMAIN answers = 1..Len(answers) /\ Len(s) \in {1, 2} /\ DOMAIN s = 1..Len(s)
  BY WorkedQueues
<1>2. ASSUME AskRevises(r, x, b) PROVE Revised(x, b, i)'
  <2>1. PICK k, a : k = Len(answers) + Len(s) /\ a = s[Len(s)]
    OBVIOUS
  <2>2. k \in DOMAIN answers' /\ k > i /\ a = answers'[k]
    BY <1>1, <2>1
  <2>3. /\ a.from = r.from /\ a.f = r.f /\ a.n = r.n
        /\ a.op = r.op \/ (a.op = "indexes" /\ r.op \in IndexOps)
        /\ ~(a.ok /\ a.op \in {"addIndex", "editIndex"})
    BY <1>1, <2>1, SMTT(30) DEF Worked, Does, AnswersOf
  <2>4. Revises(a, x, b) \/ (a.op \in IndexOps /\ a.n = x /\ ~(a.ok /\ a.op \in {"addIndex", "editIndex"}))
    <3>1. CASE a.op = r.op
      BY <1>2, <2>3, <3>1 DEF AskRevises, Revises
    <3>2. CASE a.op = "indexes" /\ r.op \in IndexOps
      BY <1>2, <2>3, <3>2 DEF AskRevises, Revises, RenewingOps, DatabaseOps, NameOps, IndexOps
    <3> QED
      BY <2>3, <3>1, <3>2
  <2>5. AnswerRevises(k, x, b)'
    BY <2>2, <2>4, Zenon DEF AnswerRevises, Revises
  <2> QED
    BY <2>2, <2>5 DEF Revised
<1>3. ASSUME NEW j \in DOMAIN requests, AskRevises(requests[j], x, b) PROVE Revised(x, b, i)'
  <2>1. CASE j = 1
    BY <1>1, <1>2, <1>3, <2>1
  <2>2. CASE j # 1
    <3>1. j - 1 \in DOMAIN requests' /\ requests'[j - 1] = requests[j]
      BY <1>1, <2>2
    <3>2. AskRevises(requests'[j - 1], x, b)
      BY <1>3, <3>1
    <3> QED
      BY <3>1, <3>2 DEF Revised, AskRevises, Revises
  <2> QED
    BY <2>1, <2>2
<1>4. ASSUME NEW j \in DOMAIN answers, j > i, AnswerRevises(j, x, b) PROVE Revised(x, b, i)'
  <2>1. j \in DOMAIN answers' /\ answers'[j] = answers[j]
    BY <1>1
  <2>2. \A k \in 1..(j - 1) : answers'[k] = answers[k]
    BY <1>1
  <2>3. AnswerRevises(j, x, b)'
    BY <1>4, <2>1, <2>2 DEF AnswerRevises, Revises, ListsCollections
  <2> QED
    BY <1>4, <2>1, <2>3 DEF Revised
<1> QED
  BY <1>2, <1>3, <1>4 DEF Revised

LEMMA WorkedFolder ==
  ASSUME TreeTyped, NEW r, NEW s, Worked(r, s), NEW it, NEW o, IndexesAreOfShown(it), NEW f \in Folders,
         FolderShown(it, f), FolderListed(it, o, f)
  PROVE  FolderShown(it, f)' /\ FolderListed(it, o, f)'
<1>1. /\ r \in TreeAsk /\ AskOfTree(r) /\ r = requests[1] /\ 1 \in DOMAIN requests
      /\ \A j \in DOMAIN s : Len(answers) + j \in DOMAIN answers' /\ answers'[Len(answers) + j] = s[j]
      /\ Len(answers) \in Nat /\ DOMAIN answers = 1..Len(answers) /\ Len(s) \in {1, 2} /\ DOMAIN s = 1..Len(s)
      /\ \A j \in 1..Len(answers) : j \in DOMAIN answers' /\ answers'[j] = answers[j]
      /\ \A j \in DOMAIN answers' :
              j \in DOMAIN answers \/ (j - Len(answers) \in DOMAIN s /\ answers'[j] = s[j - Len(answers)])
  BY WorkedQueues
<1>2. UNCHANGED toldOf
  BY DEF Worked
<1>3. Folder(f) = f
  BY NamesAssumption DEF Folder
<1>4. PICK b : b = it.batch
  OBVIOUS
<1>5. \/ part'[f] = part[f]
      \/ AskRevises(r, f, b)
      \/ r.op \in IndexOps /\ f = "Collections" /\ r.from = b /\ part'[f] = part[f] \cup {r.n} /\ r.n \in it.shown[f]
  <2>1. \/ part'[f] = part[f]
        \/ r.op \in NameOps /\ r.f = f
        \/ r.op = "dropDb"
        \/ r.op \in IndexOps /\ f = "Collections" /\ part'[f] = part[f] \cup {r.n}
    BY DEF Worked, Does
  <2>2. r.op \in NameOps /\ r.f = f => AskRevises(r, f, b)
    BY <1>3 DEF AskRevises, Revises
  <2>3. r.op = "dropDb" => AskRevises(r, f, b)
    BY DEF AskRevises, Revises, RenewingOps, DatabaseOps
  <2>4. r.op \in IndexOps /\ f = "Collections" /\ r.from # b => AskRevises(r, f, b)
    BY <1>3 DEF AskRevises, Revises
  <2>5. r.op \in IndexOps /\ r.from = b => r.n \in it.shown["Collections"]
    BY <1>1, <1>4 DEF IndexesAreOfShown
  <2> QED
    BY <2>1, <2>2, <2>3, <2>4, <2>5
<1>6. ASSUME it.label[f] = "counted", f \notin toldOf, "Databases" \notin toldOf
      PROVE  it.shown[f] = part'[f] \/ Revised(f, b, 0)'
  <2>1. it.shown[f] = part[f] \/ Revised(f, b, 0)
    BY <1>4, <1>6 DEF FolderShown
  <2>2. (Revised(f, b, 0) \/ AskRevises(r, f, b)) => Revised(f, b, 0)'
    <3>1. 0 \in 0..Len(answers)
      BY <1>1
    <3> QED
      BY <3>1, WorkedRevised
  <2> QED
    BY <1>5, <2>1, <2>2
<1>7. FolderShown(it, f)'
  BY <1>2, <1>4, <1>6 DEF FolderShown
<1>8. ASSUME NEW i \in DOMAIN answers', ListsFolder(answers'[i], o, f)
      PROVE  answers'[i].data = part'[f] \/ Revised(f, b, i)'
  <2>1. CASE i \in DOMAIN answers
    <3>1. answers'[i] = answers[i] /\ i \in 0..Len(answers)
      BY <1>1, <2>1
    <3>2. answers[i].data = part[f] \/ Revised(f, b, i)
      BY <1>4, <1>8, <2>1, <3>1 DEF FolderListed
    <3>3. (Revised(f, b, i) \/ AskRevises(r, f, b)) => Revised(f, b, i)'
      BY <3>1, WorkedRevised
    <3>4. ASSUME r.op \in IndexOps, f = "Collections" PROVE Revised(f, b, i)'
      <4>1. PICK k, a : k = Len(answers) + Len(s) /\ a = s[Len(s)]
        OBVIOUS
      <4>2. k \in DOMAIN answers' /\ k > i /\ a = answers'[k] /\ i \in 1..(k - 1)
        BY <1>1, <2>1, <4>1
      <4>3. a.op \in IndexOps
        <5>1. a.op = r.op \/ a.op = "indexes"
          <6>1. \A j \in DOMAIN s : s[j].op = r.op \/ s[j].op = "indexes"
            BY DEF Worked, Does, AnswersOf
          <6>2. Len(s) \in DOMAIN s
            BY <1>1
          <6> QED
            BY <4>1, <6>1, <6>2
        <5> QED
          BY <3>4, <5>1 DEF IndexOps
      <4>4. ListsCollections(answers'[i])
        BY <1>8, <3>4 DEF ListsFolder, ListsCollections
      <4>5. AnswerRevises(k, f, b)'
        BY <1>3, <3>4, <4>2, <4>3, <4>4 DEF AnswerRevises, ListsCollections
      <4> QED
        BY <4>2, <4>5 DEF Revised
    <3> QED
      BY <1>5, <3>1, <3>2, <3>3, <3>4
  <2>2. CASE i - Len(answers) \in DOMAIN s /\ answers'[i] = s[i - Len(answers)]
    <3>1. PICK j \in DOMAIN s : answers'[i] = s[j]
      BY <2>2
    <3>2. s[j].data = part'[r.f] /\ s[j].f = r.f
      BY <1>8, <3>1 DEF Worked, Does, AnswersOf, ListsFolder
    <3> QED
      BY <1>8, <3>1, <3>2 DEF ListsFolder
  <2> QED
    BY <1>1, <2>1, <2>2
<1>9. FolderListed(it, o, f)'
  BY <1>4, <1>8 DEF FolderListed, ListsFolder
<1> QED
  BY <1>7, <1>9

LEMMA WorkedIndex ==
  ASSUME TreeTyped, NEW r, NEW s, Worked(r, s), NEW it, NEW n \in Names, IndexShown(it, n), IndexListed(it, n)
  PROVE  IndexShown(it, n)' /\ IndexListed(it, n)'
<1>1. /\ r \in TreeAsk /\ AskOfTree(r)
      /\ Len(answers) \in Nat /\ DOMAIN answers = 1..Len(answers)
      /\ \A j \in 1..Len(answers) : j \in DOMAIN answers' /\ answers'[j] = answers[j]
      /\ \A j \in DOMAIN answers' :
              j \in DOMAIN answers \/ (j - Len(answers) \in DOMAIN s /\ answers'[j] = s[j - Len(answers)])
  BY WorkedQueues
<1>2. UNCHANGED toldOf
  BY DEF Worked
<1>3. Folder(n) = "Collections"
  BY DEF Folder
<1>4. PICK b : b = it.batch
  OBVIOUS
<1>5. (n \in indexed' <=> n \in indexed) \/ AskRevises(r, n, b)
  <2>1. \/ n \in indexed' <=> n \in indexed
        \/ r.op \in NameOps /\ r.f = "Collections"
        \/ r.op = "dropDb"
        \/ r.op \in IndexOps /\ r.n = n
    BY DEF Worked, Does
  <2> QED
    BY <1>3, <2>1 DEF AskRevises, Revises, RenewingOps, DatabaseOps
<1>6. ASSUME n \in it.shown["Collections"], it.ilabel[n] = "counted",
             n \notin toldOf, "Collections" \notin toldOf, "Databases" \notin toldOf
      PROVE  (n \in it.ishown <=> n \in indexed') \/ Revised(n, b, 0)'
  <2>1. (n \in it.ishown <=> n \in indexed) \/ Revised(n, b, 0)
    BY <1>4, <1>6 DEF IndexShown
  <2>2. (Revised(n, b, 0) \/ AskRevises(r, n, b)) => Revised(n, b, 0)'
    <3>1. 0 \in 0..Len(answers)
      BY <1>1
    <3> QED
      BY <3>1, WorkedRevised
  <2> QED
    BY <1>5, <2>1, <2>2
<1>7. IndexShown(it, n)'
  BY <1>2, <1>4, <1>6 DEF IndexShown
<1>8. ASSUME NEW i \in DOMAIN answers', ListsIndexes(answers'[i], b, n)
      PROVE  \/ n \in indexed' <=> (answers'[i].op = "indexes" /\ answers'[i].data)
             \/ Revised(n, b, i)'
  <2>1. CASE i \in DOMAIN answers
    <3>1. answers'[i] = answers[i] /\ i \in 0..Len(answers)
      BY <1>1, <2>1
    <3>2. \/ n \in indexed <=> (answers[i].op = "indexes" /\ answers[i].data)
          \/ Revised(n, b, i)
      BY <1>4, <1>8, <2>1, <3>1 DEF IndexListed
    <3>3. (Revised(n, b, i) \/ AskRevises(r, n, b)) => Revised(n, b, i)'
      BY <3>1, WorkedRevised
    <3> QED
      BY <1>5, <3>1, <3>2, <3>3
  <2>2. CASE i - Len(answers) \in DOMAIN s /\ answers'[i] = s[i - Len(answers)]
    <3>1. PICK j \in DOMAIN s : answers'[i] = s[j]
      BY <2>2
    <3>2. s[j].n = r.n /\ (r.n \in indexed' <=> (s[j].op = "indexes" /\ s[j].data))
      BY <1>8, <3>1 DEF Worked, Does, AnswersOf, ListsIndexes
    <3> QED
      BY <1>8, <3>1, <3>2 DEF ListsIndexes
  <2> QED
    BY <1>1, <2>1, <2>2
<1>9. IndexListed(it, n)'
  BY <1>4, <1>8 DEF IndexListed, ListsIndexes
<1> QED
  BY <1>7, <1>9

LEMMA WorkKeepsInv ==
  ASSUME TreeInv, Work
  PROVE  TreeInv'
<1>1. TreeTyped /\ ~dangling /\ OfflineKept /\ CreatedKept /\ ContentsKept /\ IndexesKept
  BY DEF TreeInv, TreeTyped, Work
<1>2. PICK r, s : Worked(r, s)
  BY <1>1, WorkIsWorked
<1>3. objects' = objects /\ dbItems' = dbItems
  BY <1>2 DEF Worked
<1>4. ContentsKept'
  <2> SUFFICES ASSUME NEW o \in objects, IsShown(o) PROVE ItemKept(dbItems[o], o)'
    BY <1>3 DEF ContentsKept, IsShown
  <2>1. PICK it : it = dbItems[o]
    OBVIOUS
  <2>2. ItemKept(it, o) /\ IndexesAreOfShown(it)
    BY <1>1, <2>1 DEF ContentsKept, IndexesKept, IsShown
  <2>3. ASSUME NEW f \in Folders PROVE FolderShown(it, f)' /\ FolderListed(it, o, f)'
    <3>1. FolderShown(it, f) /\ FolderListed(it, o, f)
      BY <2>2 DEF ItemKept
    <3> QED
      BY <1>1, <1>2, <2>2, <3>1, WorkedFolder
  <2>4. ASSUME NEW n \in Names PROVE IndexShown(it, n)' /\ IndexListed(it, n)'
    <3>1. IndexShown(it, n) /\ IndexListed(it, n)
      BY <2>2 DEF ItemKept
    <3> QED
      BY <1>1, <1>2, <3>1, WorkedIndex
  <2>5. ItemKept(it, o)'
    BY <2>3, <2>4 DEF ItemKept
  <2> QED
    BY <1>3, <2>1, <2>5
<1>5. TreeTyped' /\ OfflineKept' /\ CreatedKept'
  BY <1>1, <1>2, WorkedTyped, WorkedOffline, WorkedCreated
<1> QED
  BY <1>4, <1>5 DEF TreeInv

-----------------------------------------------------------------------------
\* An answer is taken from the queue.  It may have a request posted, never one of indexes.
Delivered(a) ==
  /\ answers # <<>> /\ a = Head(answers) /\ answers' = Tail(answers)
  /\ UNCHANGED <<kind, part, indexed, created, made, asks>>
PostsNoIndex ==
  \/ requests' = requests
  \/ \E q \in TreeAsk : AskOfTree(q) /\ q.op \in {"databases", "connect", "load"} /\ requests' = Append(requests, q)

LEMMA DeliveredQueue ==
  ASSUME TreeTyped, NEW a, Delivered(a)
  PROVE  /\ a \in Answer /\ AnswerOfTree(a) /\ 1 \in DOMAIN answers /\ a = answers[1]
         /\ answers' \in Seq(Answer)
         /\ Len(answers) \in Nat /\ Len(answers') \in Nat /\ Len(answers') = Len(answers) - 1
         /\ DOMAIN answers = 1..Len(answers) /\ DOMAIN answers' = 1..Len(answers')
         /\ \A i \in DOMAIN answers' : i + 1 \in DOMAIN answers /\ answers'[i] = answers[i + 1]
         /\ \A i \in DOMAIN answers : i = 1 \/ (i - 1 \in DOMAIN answers' /\ answers'[i - 1] = answers[i])
<1>1. /\ answers \in Seq(Answer) /\ AnswersKept
      /\ answers # <<>> /\ a = Head(answers) /\ answers' = Tail(answers)
  BY DEF TreeTyped, AnswersKept, Delivered
<1>2. Len(answers) \in Nat \ {0} /\ DOMAIN answers = 1..Len(answers)
  BY <1>1, LenProperties, EmptySeq
<1>3. /\ a \in Answer /\ a = answers[1] /\ answers' \in Seq(Answer) /\ Len(answers') = Len(answers) - 1
      /\ \A i \in 1..Len(answers') : answers'[i] = answers[i + 1]
  BY <1>1, <1>2, HeadTailProperties
<1>4. DOMAIN answers' = 1..Len(answers')
  BY <1>3, LenProperties
<1>5. 1 \in DOMAIN answers /\ AnswerOfTree(a)
  BY <1>1, <1>2, <1>3 DEF AnswersKept
<1>6. \A i \in DOMAIN answers' : i + 1 \in DOMAIN answers /\ answers'[i] = answers[i + 1]
  BY <1>2, <1>3, <1>4
<1>7. \A i \in DOMAIN answers : i = 1 \/ (i - 1 \in DOMAIN answers' /\ answers'[i - 1] = answers[i])
  BY <1>2, <1>3, <1>4
<1> QED
  BY <1>2, <1>3, <1>4, <1>5, <1>6, <1>7

LEMMA NoIndexPosted ==
  ASSUME TreeTyped, PostsNoIndex
  PROVE  /\ \A i \in DOMAIN requests : i \in DOMAIN requests' /\ requests'[i] = requests[i]
         /\ \A i \in DOMAIN requests' :
              \/ i \in DOMAIN requests /\ requests'[i] = requests[i]
              \/ requests'[i].op \notin IndexOps
<1>1. CASE requests' = requests
  BY <1>1
<1>2. CASE requests' # requests
  <2>1. PICK q \in TreeAsk : AskOfTree(q) /\ q.op \in {"databases", "connect", "load"} /\ requests' = Append(requests, q)
    BY <1>2 DEF PostsNoIndex
  <2>2. /\ Len(requests) \in Nat /\ DOMAIN requests = 1..Len(requests)
        /\ DOMAIN requests' = 1..(Len(requests) + 1)
        /\ \A i \in 1..Len(requests) : requests'[i] = requests[i]
        /\ requests'[Len(requests) + 1] = q
    BY <2>1, PostedAsk
  <2>3. q.op \notin IndexOps
    BY <2>1 DEF IndexOps
  <2> QED
    BY <2>2, <2>3
<1> QED
  BY <1>1, <1>2

LEMMA DeliveredMessages ==
  ASSUME TreeTyped, NEW a, Delivered(a), PostsNoIndex, fresh' \in Nat, fresh' >= fresh
  PROVE  requests' \in Seq(TreeAsk) /\ AsksKept' /\ AnswersKept'
<1>1. fresh \in Nat /\ AnswersKept /\ kind' = kind
  BY DEF TreeTyped, TreeTypeOK, Delivered
<1>2. requests' \in Seq(TreeAsk) /\ AsksKept'
  BY <1>1, AsksStay, AsksSame DEF PostsNoIndex
<1>3. /\ answers' \in Seq(Answer)
      /\ \A i \in DOMAIN answers' : i + 1 \in DOMAIN answers /\ answers'[i] = answers[i + 1]
      /\ Len(answers) \in Nat /\ DOMAIN answers = 1..Len(answers) /\ answers \in Seq(Answer)
  BY <1>1, DeliveredQueue DEF AnswersKept
<1>4. ASSUME NEW i \in DOMAIN answers' PROVE AnswerOfTree(answers[i])'
  <2>1. PICK q : q = answers'[i]
    OBVIOUS
  <2>2. q \in Answer /\ AnswerOfTree(q)
    BY <1>1, <1>3, <2>1, ElementOfSeq DEF AnswersKept
  <2>3. AnswerOfTree(q)'
    BY <1>1, <2>2, MessageStays DEF Answer
  <2> QED
    BY <2>1, <2>3
<1> QED
  BY <1>2, <1>3, <1>4 DEF AnswersKept

\* The indexes of an item whose collection items stay, or are made anew.
LEMMA SameBatchIndexes ==
  ASSUME TreeTyped, NEW a, Delivered(a), PostsNoIndex, NEW it, NEW jt, IndexesAreOfShown(it),
         jt.batch = it.batch, jt.shown["Collections"] = it.shown["Collections"],
         jt.ishown \subseteq it.shown["Collections"]
  PROVE  IndexesAreOfShown(jt)'
<1>1. \A i \in DOMAIN answers' : i + 1 \in DOMAIN answers /\ answers'[i] = answers[i + 1]
  BY DeliveredQueue
<1>2. \A i \in DOMAIN answers' :
        answers'[i].op \in IndexOps /\ answers'[i].from = jt.batch => answers'[i].n \in jt.shown["Collections"]
  BY <1>1 DEF IndexesAreOfShown
<1>3. \A i \in DOMAIN requests' :
        requests'[i].op \in IndexOps /\ requests'[i].from = jt.batch => requests'[i].n \in jt.shown["Collections"]
  BY NoIndexPosted DEF IndexesAreOfShown
<1> QED
  BY <1>2, <1>3 DEF IndexesAreOfShown

LEMMA NoneOfNew ==
  ASSUME TreeTyped, NEW a, Delivered(a), PostsNoIndex, NEW b, b \in {0, fresh}
  PROVE  /\ \A i \in DOMAIN requests' : requests'[i].op \in IndexOps => requests'[i].from # b
         /\ \A i \in DOMAIN answers' : answers'[i].op \in IndexOps => answers'[i].from # b
<1>1. AsksKept /\ AnswersKept /\ fresh \in Nat
  BY DEF TreeTyped, TreeTypeOK
<1>2. \A i \in DOMAIN requests : requests[i].op \in IndexOps => requests[i].from # 0 /\ requests[i].from < fresh
  BY <1>1 DEF AsksKept, AskOfTree, MessageOK, Server
<1>3. \A i \in DOMAIN answers : answers[i].op \in IndexOps => answers[i].from # 0 /\ answers[i].from < fresh
  BY <1>1 DEF AnswersKept, AnswerOfTree, MessageOK, Server
<1>4. \A i \in DOMAIN answers' : i + 1 \in DOMAIN answers /\ answers'[i] = answers[i + 1]
  BY DeliveredQueue
<1>5. ~(fresh < fresh)
  BY <1>1
<1>6. \A i \in DOMAIN requests' : requests'[i].op \in IndexOps => requests'[i].from # b
  BY <1>2, <1>5, NoIndexPosted
<1>7. \A i \in DOMAIN answers' : answers'[i].op \in IndexOps => answers'[i].from # b
  BY <1>3, <1>4, <1>5
<1> QED
  BY <1>6, <1>7

LEMMA NewBatchIndexes ==
  ASSUME TreeTyped, NEW a, Delivered(a), PostsNoIndex, NEW jt, jt.batch \in {0, fresh}, jt.ishown = {},
         jt.shown["Collections"] # {} => jt.batch # 0
  PROVE  IndexesAreOfShown(jt)'
<1>1. PICK b : b = jt.batch
  OBVIOUS
<1>2. /\ \A i \in DOMAIN requests' : requests'[i].op \in IndexOps => requests'[i].from # b
      /\ \A i \in DOMAIN answers' : answers'[i].op \in IndexOps => answers'[i].from # b
  BY <1>1, NoneOfNew
<1> QED
  BY <1>1, <1>2 DEF IndexesAreOfShown

LEMMA DeliveredTyped ==
  ASSUME TreeTyped, NEW a, Delivered(a), PostsNoIndex, fresh' \in Nat, fresh' >= fresh,
         IsFiniteSet(objects'), objects' \subseteq Nat \ {Server}, \A o \in objects' : o < fresh',
         DOMAIN dbItems' \subseteq objects', dbItems' = [o \in DOMAIN dbItems' |-> dbItems'[o]],
         \A o \in DOMAIN dbItems' : dbItems'[o] \in Item /\ dbItems'[o].batch < fresh',
         \A o \in DOMAIN dbItems' : ~dbItems'[o].gutted => IndexesAreOfShown(dbItems[o])',
         \A o, p \in DOMAIN dbItems' : dbItems'[o].batch = dbItems'[p].batch /\ dbItems'[o].batch # 0 => o = p,
         label' \in Labels \cup {"offline"}, setLabel' \in Labels,
         wasLost' \in BOOLEAN, wasLost' => kind = "set",
         toldOf' \subseteq Folders \cup Names \cup {"Databases"}, dangling' \in BOOLEAN
  PROVE  TreeTyped'
<1>1. TreeTypeOK /\ UNCHANGED <<kind, part, indexed, created, made, asks>>
  BY DEF TreeTyped, Delivered
<1>2. requests' \in Seq(TreeAsk) /\ AsksKept' /\ AnswersKept'
  BY DeliveredMessages
<1>3. fresh' \in Nat \ {Server}
  BY <1>1 DEF TreeTypeOK, Server
<1>4. dbItems' \in [DOMAIN dbItems' -> Item]
  OBVIOUS
<1>5. TreeTypeOK'
  BY <1>1, <1>2, <1>3, <1>4, Zenon DEF TreeTypeOK
<1>6. ObjectsKept'
  BY DEF ObjectsKept
<1>7. IndexesKept'
  BY DEF IndexesKept
<1> QED
  BY <1>2, <1>5, <1>6, <1>7 DEF TreeTyped

\* The items stay, and their collection items.
StayIn(it, jt) ==
  /\ jt \in Item /\ jt.batch = it.batch /\ jt.gutted = it.gutted
  /\ jt.shown["Collections"] = it.shown["Collections"]
  /\ ~it.gutted => jt.ishown \subseteq it.shown["Collections"]
ItemsStay ==
  /\ objects' = objects /\ DOMAIN dbItems' = DOMAIN dbItems
  /\ dbItems' = [o \in DOMAIN dbItems' |-> dbItems'[o]]
  /\ \A o \in DOMAIN dbItems : StayIn(dbItems[o], dbItems'[o])

LEMMA StayTyped ==
  ASSUME TreeTyped, NEW a, Delivered(a), PostsNoIndex, fresh' = fresh, ItemsStay,
         label' \in Labels \cup {"offline"}, setLabel' \in Labels,
         wasLost' \in BOOLEAN, wasLost' => kind = "set",
         toldOf' \subseteq Folders \cup Names \cup {"Databases"}, dangling' \in BOOLEAN
  PROVE  TreeTyped'
<1>1. TreeTypeOK /\ ObjectsKept /\ IndexesKept
  BY DEF TreeTyped
<1>2. /\ objects' = objects /\ DOMAIN dbItems' = DOMAIN dbItems
      /\ dbItems' = [o \in DOMAIN dbItems' |-> dbItems'[o]]
      /\ \A o \in DOMAIN dbItems : /\ dbItems'[o] \in Item /\ dbItems'[o].batch = dbItems[o].batch
                                   /\ dbItems'[o].gutted = dbItems[o].gutted
  BY DEF ItemsStay, StayIn
<1>3. fresh' \in Nat /\ fresh' >= fresh
  BY <1>1 DEF TreeTypeOK
<1>4. IsFiniteSet(objects') /\ objects' \subseteq Nat \ {Server} /\ DOMAIN dbItems' \subseteq objects'
      /\ \A o \in objects' : o < fresh'
  BY <1>1, <1>2 DEF TreeTypeOK, ObjectsKept
<1>5. \A o \in DOMAIN dbItems' : dbItems'[o] \in Item /\ dbItems'[o].batch < fresh'
  BY <1>1, <1>2 DEF ObjectsKept
<1>6. ASSUME NEW o \in DOMAIN dbItems', ~dbItems'[o].gutted PROVE IndexesAreOfShown(dbItems[o])'
  <2>1. PICK it, jt : it = dbItems[o] /\ jt = dbItems'[o]
    OBVIOUS
  <2>2. IndexesAreOfShown(it) /\ ~it.gutted /\ StayIn(it, jt)
    BY <1>1, <1>2, <1>6, <2>1 DEF IndexesKept, ItemsStay
  <2>3. IndexesAreOfShown(jt)'
    BY <2>2, SameBatchIndexes DEF StayIn
  <2> QED
    BY <2>1, <2>3
<1>7. \A o, p \in DOMAIN dbItems' : dbItems'[o].batch = dbItems'[p].batch /\ dbItems'[o].batch # 0 => o = p
  BY <1>1, <1>2 DEF IndexesKept
<1> QED
  BY <1>2, <1>3, <1>4, <1>5, <1>6, <1>7, DeliveredTyped

\* What the rest of the queue revises, it goes on revising; also of collection items made anew.
LEMMA DeliveredRevised ==
  ASSUME TreeTyped, NEW a, Delivered(a), PostsNoIndex, NEW x, NEW b, NEW c, NEW i \in Nat,
         Revised(x, b, i + 1),
         (c = b /\ ~ListsCollections(a)) \/ c \in {0, fresh}
  PROVE  Revised(x, c, i)'
<1>1. /\ a = answers[1] /\ Len(answers) \in Nat /\ DOMAIN answers = 1..Len(answers)
      /\ \A j \in DOMAIN answers : j = 1 \/ (j - 1 \in DOMAIN answers' /\ answers'[j - 1] = answers[j])
  BY DeliveredQueue
<1>2. \/ c = b /\ ~ListsCollections(a)
      \/ /\ \A j \in DOMAIN requests' : requests'[j].op \in IndexOps => requests'[j].from # c
         /\ \A j \in DOMAIN answers' : answers'[j].op \in IndexOps => answers'[j].from # c
  BY NoneOfNew
<1>3. ASSUME NEW j \in DOMAIN requests, AskRevises(requests[j], x, b) PROVE Revised(x, c, i)'
  <2>1. j \in DOMAIN requests' /\ requests'[j] = requests[j]
    BY NoIndexPosted
  <2>2. AskRevises(requests'[j], x, c)
    BY <1>2, <1>3, <2>1 DEF AskRevises, Revises
  <2> QED
    BY <2>1, <2>2 DEF Revised, AskRevises, Revises
<1>4. ASSUME NEW j \in DOMAIN answers, j > i + 1, AnswerRevises(j, x, b) PROVE Revised(x, c, i)'
  <2>1. PICK k : k = j - 1
    OBVIOUS
  <2>2. k \in DOMAIN answers' /\ k > i /\ answers'[k] = answers[j] /\ j \in Nat /\ k \in Nat /\ k >= 1
    BY <1>1, <1>4, <2>1
  <2>3. \A l \in 1..(j - 1) : l = 1 \/ (l - 1 \in 1..(k - 1) /\ answers'[l - 1] = answers[l])
    BY <1>1, <1>4, <2>1, <2>2
  <2>4. PICK m : m = answers[j]
    OBVIOUS
  <2>5. CASE Revises(m, x, b)
    <3>1. Revises(m, x, c)
      BY <1>2, <2>2, <2>4, <2>5 DEF Revises
    <3>2. AnswerRevises(k, x, c)'
      BY <2>2, <2>4, <3>1, Zenon DEF AnswerRevises, Revises
    <3> QED
      BY <2>2, <3>2 DEF Revised
  <2>6. CASE m.op \in IndexOps /\ Folder(x) = "Collections" /\ \E l \in 1..(j - 1) : ListsCollections(answers[l])
    <3>1. PICK l \in 1..(j - 1) : ListsCollections(answers[l])
      BY <2>6
    <3>2. CASE l = 1
      <4>1. m.from # c
        BY <1>1, <1>2, <2>2, <2>4, <2>6, <3>1, <3>2
      <4>2. Revises(m, x, c)
        BY <2>6, <4>1 DEF Revises
      <4>3. AnswerRevises(k, x, c)'
        BY <2>2, <2>4, <4>2, Zenon DEF AnswerRevises, Revises
      <4> QED
        BY <2>2, <4>3 DEF Revised
    <3>3. CASE l # 1
      <4>1. l - 1 \in 1..(k - 1) /\ ListsCollections(answers'[l - 1])
        BY <2>3, <3>1, <3>3
      <4>2. AnswerRevises(k, x, c)'
        BY <2>2, <2>4, <2>6, <4>1 DEF AnswerRevises, ListsCollections
      <4> QED
        BY <2>2, <4>2 DEF Revised
    <3> QED
      BY <3>2, <3>3
  <2>7. CASE m.op \in IndexOps /\ m.n = x /\ ~(m.ok /\ m.op \in {"addIndex", "editIndex"})
    <3>1. AnswerRevises(k, x, c)'
      BY <2>2, <2>4, <2>7, Zenon DEF AnswerRevises
    <3> QED
      BY <2>2, <3>1 DEF Revised
  <2> QED
    BY <1>4, <2>4, <2>5, <2>6, <2>7 DEF AnswerRevises
<1> QED
  BY <1>3, <1>4 DEF Revised

\* The answer itself is what revises, or the rest.
HeadRevises(a, x, b) ==
  Revises(a, x, b) \/ (a.op \in IndexOps /\ a.n = x /\ ~(a.ok /\ a.op \in {"addIndex", "editIndex"}))
LEMMA HeadOrRest ==
  ASSUME TreeTyped, NEW a, Delivered(a), NEW x, NEW b, Revised(x, b, 0)
  PROVE  HeadRevises(a, x, b) \/ Revised(x, b, 1)
<1>1. a = answers[1] /\ DOMAIN answers = 1..Len(answers) /\ Len(answers) \in Nat
  BY DeliveredQueue
<1>2. ASSUME NEW j \in DOMAIN answers, AnswerRevises(j, x, b) PROVE HeadRevises(a, x, b) \/ Revised(x, b, 1)
  <2>1. CASE j = 1
    <3>1. 1..(1 - 1) = {}
      OBVIOUS
    <3> QED
      BY <1>1, <1>2, <2>1, <3>1 DEF AnswerRevises, HeadRevises
  <2>2. CASE j # 1
    <3>1. j > 1
      BY <1>1, <2>2
    <3> QED
      BY <1>2, <3>1 DEF Revised
  <2> QED
    BY <2>1, <2>2
<1> QED
  BY <1>2 DEF Revised

LEMMA ConnectStays ==
  ASSUME TreeTyped, NEW a, Delivered(a), PostsNoIndex, a.op # "connect", ConnectPends
  PROVE  ConnectPends'
<1>1. /\ a = answers[1]
      /\ \A i \in DOMAIN answers : i = 1 \/ (i - 1 \in DOMAIN answers' /\ answers'[i - 1] = answers[i])
  BY DeliveredQueue
<1>2. \A i \in DOMAIN requests : i \in DOMAIN requests' /\ requests'[i] = requests[i]
  BY NoIndexPosted
<1> QED
  BY <1>1, <1>2 DEF ConnectPends

LEMMA OfflineStays ==
  ASSUME TreeTyped, OfflineKept, NEW a, Delivered(a), PostsNoIndex, a.op # "connect",
         wasLost' = wasLost, DOMAIN dbItems' = DOMAIN dbItems,
         \A o \in DOMAIN dbItems : dbItems'[o].gutted = dbItems[o].gutted,
         label' = label \/ (label' # "offline" /\ (kind = "single" \/ ConnectPends'))
  PROVE  OfflineKept'
<1>1. ConnectPends => ConnectPends'
  BY ConnectStays
<1>2. wasLost => kind = "set"
  BY DEF TreeTyped, TreeTypeOK
<1> QED
  BY <1>1, <1>2 DEF OfflineKept

LEMMA CreatedStays ==
  ASSUME TreeTyped, CreatedKept, NEW a, Delivered(a),
         kind = "single" /\ a.op = "createDb" /\ a.ok => label' # "counted",
         kind = "single" /\ (label = "counted" => objects # {}) /\ (a.op = "databases" /\ a.ok => a.data)
           => (label' = "counted" => objects' # {})
  PROVE  CreatedKept'
<1>1. UNCHANGED <<kind, part, created, made>>
  BY DEF Delivered
<1> SUFFICES ASSUME kind = "single", made PROVE created' /\ ~Exists' /\ \E k \in 0..Len(answers') : ListsHoldIt(k)'
  BY <1>1 DEF CreatedKept
<1>2. created /\ ~Exists /\ \E k \in 0..Len(answers) : ListsHoldIt(k)
  BY DEF CreatedKept
<1>3. PICK k \in 0..Len(answers) : ListsHoldIt(k)
  BY <1>2
<1>4. /\ a = answers[1] /\ 1 \in DOMAIN answers
      /\ Len(answers) \in Nat /\ Len(answers') \in Nat /\ Len(answers') = Len(answers) - 1
      /\ DOMAIN answers = 1..Len(answers) /\ DOMAIN answers' = 1..Len(answers')
      /\ \A i \in DOMAIN answers' : i + 1 \in DOMAIN answers /\ answers'[i] = answers[i + 1]
  BY DeliveredQueue
<1>5. CASE k > 1
  <2>1. PICK l : l = k - 1
    OBVIOUS
  <2>2. l \in 1..Len(answers') /\ answers'[l] = answers[k]
    BY <1>4, <1>5, <2>1
  <2>3. \A j \in DOMAIN answers' : j > l => j + 1 > k
    BY <1>4, <2>1
  <2>4. \A j \in DOMAIN answers' : j > l /\ answers'[j].op = "databases" /\ answers'[j].ok => answers'[j].data
    BY <1>3, <1>4, <2>3 DEF ListsHoldIt
  <2>5. answers'[l].op = "createDb" /\ answers'[l].ok /\ l # 0
    BY <1>3, <1>5, <2>2 DEF ListsHoldIt
  <2>6. ListsHoldIt(l)'
    BY <2>4, <2>5 DEF ListsHoldIt
  <2> QED
    BY <1>1, <1>2, <2>2, <2>6 DEF Exists
<1>6. CASE k \in {0, 1}
  <2>1. \A j \in DOMAIN answers' : answers'[j].op = "databases" /\ answers'[j].ok => answers'[j].data
    <3>1. \A j \in DOMAIN answers' : j + 1 > k
      BY <1>4, <1>6
    <3> QED
      BY <1>3, <1>4, <3>1 DEF ListsHoldIt
  <2>2. label' = "counted" => objects' # {}
    <3>1. CASE k = 0
      <4>1. label = "counted" => objects # {}
        BY <1>3, <3>1 DEF ListsHoldIt
      <4>2. a.op = "databases" /\ a.ok => a.data
        BY <1>3, <1>4, <3>1 DEF ListsHoldIt
      <4> QED
        BY <4>1, <4>2
    <3>2. CASE k = 1
      BY <1>3, <1>4, <3>2 DEF ListsHoldIt
    <3> QED
      BY <1>6, <3>1, <3>2
  <2>3. PICK l : l = 0
    OBVIOUS
  <2>4. ListsHoldIt(l)' /\ l \in 0..Len(answers')
    BY <1>4, <2>1, <2>2, <2>3 DEF ListsHoldIt
  <2> QED
    BY <1>1, <1>2, <2>4 DEF Exists
<1> QED
  BY <1>3, <1>4, <1>5, <1>6

\* What is on its way to an object is kept, whatever the answer.
LEMMA ListedStays ==
  ASSUME TreeTyped, NEW a, Delivered(a), PostsNoIndex, NEW it, NEW o, ItemKept(it, o), NEW jt,
         (jt.batch = it.batch /\ ~ListsCollections(a)) \/ jt.batch \in {0, fresh}
  PROVE  /\ \A f \in Folders : FolderListed(jt, o, f)'
         /\ \A n \in Names : IndexListed(jt, n)'
<1>1. /\ Len(answers) \in Nat /\ DOMAIN answers = 1..Len(answers)
      /\ DOMAIN answers' = 1..Len(answers') /\ Len(answers') \in Nat
      /\ \A i \in DOMAIN answers' : i + 1 \in DOMAIN answers /\ answers'[i] = answers[i + 1]
  BY DeliveredQueue
<1>2. PICK b, c : b = it.batch /\ c = jt.batch
  OBVIOUS
<1>3. (c = b /\ ~ListsCollections(a)) \/ c \in {0, fresh}
  BY <1>2
<1>4. \A x : \A i \in Nat : Revised(x, b, i + 1) => Revised(x, c, i)'
  BY <1>3, DeliveredRevised
<1>5. part' = part /\ indexed' = indexed
  BY DEF Delivered
<1>6. ASSUME NEW f \in Folders PROVE FolderListed(jt, o, f)'
  <2>1. \A i \in DOMAIN answers : ListsFolder(answers[i], o, f) => answers[i].data = part[f] \/ Revised(f, b, i)
    BY <1>2 DEF ItemKept, FolderListed
  <2>2. ASSUME NEW i \in DOMAIN answers', ListsFolder(answers'[i], o, f)
        PROVE  answers'[i].data = part'[f] \/ Revised(f, c, i)'
    <3>1. i \in Nat /\ i + 1 \in DOMAIN answers /\ answers'[i] = answers[i + 1]
      BY <1>1
    <3> QED
      BY <1>4, <1>5, <2>1, <2>2, <3>1
  <2> QED
    BY <1>2, <2>2 DEF FolderListed, ListsFolder
<1>7. ASSUME NEW n \in Names PROVE IndexListed(jt, n)'
  <2>1. \A i \in DOMAIN answers : ListsIndexes(answers[i], b, n) =>
           \/ n \in indexed <=> (answers[i].op = "indexes" /\ answers[i].data)
           \/ Revised(n, b, i)
    BY <1>2 DEF ItemKept, IndexListed
  <2>2. ASSUME NEW i \in DOMAIN answers', ListsIndexes(answers'[i], c, n)
        PROVE  \/ n \in indexed' <=> (answers'[i].op = "indexes" /\ answers'[i].data)
               \/ Revised(n, c, i)'
    <3>1. i \in Nat /\ i + 1 \in DOMAIN answers /\ answers'[i] = answers[i + 1]
      BY <1>1
    <3>2. CASE c = b
      BY <1>4, <1>5, <2>1, <2>2, <3>1, <3>2
    <3>3. CASE c \in {0, fresh}
      <4>1. answers'[i].op \in IndexOps => answers'[i].from # c
        BY <3>3, NoneOfNew
      <4> QED
        BY <2>2, <4>1 DEF ListsIndexes, IndexOps
    <3> QED
      BY <1>3, <3>2, <3>3
  <2> QED
    BY <1>2, <2>2 DEF IndexListed, ListsIndexes
<1> QED
  BY <1>6, <1>7

-----------------------------------------------------------------------------
\* The handlers of the answers.
Handled(a) ==
  /\ TreeTyped /\ OfflineKept /\ CreatedKept /\ ContentsKept
  /\ Delivered(a) /\ ~Dangles(a) /\ ~dangling /\ dangling' = dangling
Kept == TreeTyped /\ OfflineKept /\ CreatedKept /\ ContentsKept

\* The objects and the items are made anew.
LEMMA RebuildKeeps ==
  ASSUME NEW a, Handled(a), NEW listed \in BOOLEAN, Rebuild(listed), requests' = requests,
         setLabel' \in Labels, wasLost' = FALSE, toldOf' \subseteq Folders \cup Names \cup {"Databases"},
         a.op \in {"databases", "connect"}, a.op = "databases" => a.ok /\ listed = a.data
  PROVE  Kept'
<1>1. TreeTyped /\ TreeTypeOK /\ CreatedKept /\ Delivered(a) /\ ObjectsKept /\ AnswersKept
      /\ fresh \in Nat \ {0} /\ dangling' \in BOOLEAN
  BY DEF Handled, TreeTyped, TreeTypeOK, Server
<1>2. PICK s : s = IF listed THEN {fresh} ELSE {}
  OBVIOUS
<1>3. /\ objects' = s /\ dbItems' = [o \in s |-> NewItem] /\ label' = "counted"
      /\ fresh' \in Nat /\ fresh' >= fresh /\ \A o \in s : o = fresh /\ o < fresh'
  BY <1>1, <1>2 DEF Rebuild
<1>4. DOMAIN dbItems' = s /\ \A o \in s : dbItems'[o] = NewItem
  BY <1>3
<1>5. PostsNoIndex
  BY DEF PostsNoIndex
<1>6. requests' \in Seq(TreeAsk) /\ AsksKept' /\ AnswersKept'
  BY <1>1, <1>3, <1>5, DeliveredMessages
<1>7. TreeTyped'
  <2>1. IsFiniteSet(objects') /\ objects' \subseteq Nat \ {Server} /\ \A o \in objects' : o < fresh'
    <3>1. IsFiniteSet(s)
      BY <1>2, FS_EmptySet, FS_Singleton
    <3> QED
      BY <1>1, <1>2, <1>3, <3>1 DEF Server
  <2>2. DOMAIN dbItems' \subseteq objects' /\ dbItems' = [o \in DOMAIN dbItems' |-> dbItems'[o]]
    BY <1>3, <1>4
  <2>3. \A o \in DOMAIN dbItems' : dbItems'[o] \in Item /\ dbItems'[o].batch < fresh'
    BY <1>1, <1>3, <1>4, NewItemFacts
  <2>4. ASSUME NEW o \in DOMAIN dbItems' PROVE IndexesAreOfShown(dbItems[o])'
    <3>1. IndexesAreOfShown(NewItem)'
      BY <1>6, NewIndexes
    <3> QED
      BY <1>4, <2>4, <3>1
  <2>5. \A o, p \in DOMAIN dbItems' : o = p
    BY <1>3, <1>4
  <2>6. label' \in Labels \cup {"offline"} /\ wasLost' \in BOOLEAN
    BY <1>3 DEF Labels
  <2> QED
    BY <1>1, <1>3, <1>5, <2>1, <2>2, <2>3, <2>4, <2>5, <2>6, DeliveredTyped
<1>8. OfflineKept'
  <2>1. \A o \in DOMAIN dbItems' : ~dbItems'[o].gutted
    BY <1>4, NewItemFacts
  <2> QED
    BY <1>3, <2>1 DEF OfflineKept
<1>9. CreatedKept'
  <2>1. kind = "single" => a.op = "databases"
    <3>1. AnswerOfTree(a)
      BY <1>1, DeliveredQueue
    <3> QED
      BY <3>1 DEF AnswerOfTree, MessageOK, SetOps
  <2>2. listed => objects' # {}
    BY <1>2, <1>3
  <2> QED
    BY <1>1, <2>1, <2>2, CreatedStays
<1>10. ContentsKept'
  <2> SUFFICES ASSUME NEW o \in objects', IsShown(o)' PROVE ItemKept(dbItems[o], o)'
    BY DEF ContentsKept
  <2>1. o = fresh /\ dbItems'[o] = NewItem
    BY <1>3, <1>4
  <2>2. \A i \in DOMAIN answers' : answers'[i].from # o
    <3>1. \A i \in DOMAIN answers : answers[i].from < fresh
      BY <1>1 DEF AnswersKept, AnswerOfTree, MessageOK
    <3>2. \A i \in DOMAIN answers' : i + 1 \in DOMAIN answers /\ answers'[i] = answers[i + 1]
      BY <1>1, DeliveredQueue
    <3> QED
      BY <1>1, <2>1, <3>1, <3>2
  <2>3. ItemKept(NewItem, o)'
    BY <1>6, <2>2, NewIsKept
  <2> QED
    BY <2>1, <2>3
<1> QED
  BY <1>7, <1>8, <1>9, <1>10 DEF Kept

\* The folder items are deleted.
LEMMA GuttedFacts ==
  ASSUME NEW it \in Item, NEW jt, jt = [it EXCEPT !.gutted = TRUE, !.batch = 0]
  PROVE  jt \in Item /\ jt.gutted /\ jt.batch = 0
BY DEF Item

LEMMA UnreachableKeeps ==
  ASSUME NEW a, Handled(a), Unreachable, requests' = requests, kind = "set",
         toldOf' \subseteq Folders \cup Names \cup {"Databases"}
  PROVE  Kept'
<1>1. TreeTyped /\ TreeTypeOK /\ CreatedKept /\ Delivered(a) /\ ObjectsKept
      /\ fresh \in Nat \ {0} /\ dangling' \in BOOLEAN /\ kind' = kind
  BY DEF Handled, TreeTyped, TreeTypeOK, Delivered, Server
<1>2. /\ wasLost' = TRUE /\ label' = "offline" /\ setLabel' = "plain" /\ objects' = objects /\ fresh' = fresh
      /\ dbItems' = [o \in DOMAIN dbItems |-> [dbItems[o] EXCEPT !.gutted = TRUE, !.batch = 0]]
  BY DEF Unreachable
<1>3. PostsNoIndex
  BY DEF PostsNoIndex
<1>4. DOMAIN dbItems' = DOMAIN dbItems /\ dbItems' = [o \in DOMAIN dbItems' |-> dbItems'[o]]
  BY <1>2
<1>5. ASSUME NEW o \in DOMAIN dbItems PROVE dbItems'[o] \in Item /\ dbItems'[o].gutted /\ dbItems'[o].batch = 0
  <2>1. PICK it \in Item : it = dbItems[o]
    BY <1>1 DEF TreeTypeOK
  <2>2. dbItems'[o] = [it EXCEPT !.gutted = TRUE, !.batch = 0]
    BY <1>2, <2>1
  <2> QED
    BY <2>2, GuttedFacts
<1>6. TreeTyped'
  <2>1. /\ IsFiniteSet(objects') /\ objects' \subseteq Nat \ {Server}
        /\ (\A o \in objects' : o < fresh') /\ DOMAIN dbItems' \subseteq objects'
    BY <1>1, <1>2, <1>4 DEF ObjectsKept, TreeTypeOK
  <2>2. fresh' \in Nat /\ fresh' >= fresh /\ 0 < fresh'
    <3>1. fresh' = fresh /\ fresh \in Nat \ {0}
      BY <1>1, <1>2
    <3> QED
      BY <3>1
  <2>3. \A o \in DOMAIN dbItems' : dbItems'[o] \in Item /\ dbItems'[o].batch < fresh' /\ dbItems'[o].batch = 0
                                   /\ dbItems'[o].gutted
    BY <1>4, <1>5, <2>2
  <2>4. label' \in Labels \cup {"offline"} /\ setLabel' \in Labels /\ wasLost' \in BOOLEAN
    BY <1>2 DEF Labels
  <2> QED
    BY <1>1, <1>3, <1>4, <2>1, <2>2, <2>3, <2>4, DeliveredTyped
<1>7. OfflineKept'
  BY <1>2, <1>4, <1>5 DEF OfflineKept
<1>8. CreatedKept'
  BY <1>1 DEF CreatedKept
<1>9. ContentsKept'
  BY <1>4, <1>5 DEF ContentsKept, IsShown
<1> QED
  BY <1>6, <1>7, <1>8, <1>9 DEF Kept

LEMMA RestRevised ==
  ASSUME TreeTyped, NEW a, Delivered(a), PostsNoIndex, NEW b, NEW c,
         (c = b /\ ~ListsCollections(a)) \/ c \in {0, fresh}
  PROVE  \A x : /\ Revised(x, b, 1) => Revised(x, c, 0)'
                /\ Revised(x, b, 0) => HeadRevises(a, x, b) \/ Revised(x, c, 0)'
<1> TAKE x
<1>1. PICK i \in Nat : i = 0
  OBVIOUS
<1>2. Revised(x, b, i + 1) => Revised(x, c, i)'
  BY DeliveredRevised
<1>3. i + 1 = 1
  BY <1>1
<1>4. Revised(x, b, 1) => Revised(x, c, i)'
  BY <1>2, <1>3
<1>5. Revised(x, c, i)' => Revised(x, c, 0)'
  BY <1>1 DEF Revised
<1> QED
  BY <1>4, <1>5, HeadOrRest

\* An item that keeps what it shows, when the answer itself revises nothing of it that the
\* user is not told of or that is not asked for again.
LEMMA ItemStays ==
  ASSUME TreeTyped, NEW a, Delivered(a), PostsNoIndex, ~ListsCollections(a), toldOf \subseteq toldOf',
         NEW it, NEW jt, NEW o, ItemKept(it, o), OnlyDots(it, jt), NEW b, b = it.batch,
         \A f \in Folders : HeadRevises(a, f, b) =>
            f \in toldOf' \/ "Databases" \in toldOf' \/ Revised(f, b, 0)',
         \A n \in Names : HeadRevises(a, n, b) =>
            n \in toldOf' \/ "Collections" \in toldOf' \/ "Databases" \in toldOf' \/ Revised(n, b, 0)'
  PROVE  ItemKept(jt, o)'
<1>1. /\ jt.shown = it.shown /\ jt.batch = b /\ jt.ishown = it.ishown
      /\ \A f \in Folders : jt.label[f] = "counted" => it.label[f] = "counted"
      /\ \A n \in Names : jt.ilabel[n] = "counted" => it.ilabel[n] = "counted"
  BY DEF OnlyDots
<1>2. part' = part /\ indexed' = indexed
  BY DEF Delivered
<1>3. \A x : Revised(x, b, 0) => HeadRevises(a, x, b) \/ Revised(x, b, 0)'
  BY RestRevised
<1>4. /\ \A f \in Folders : FolderListed(jt, o, f)'
      /\ \A n \in Names : IndexListed(jt, n)'
  BY <1>1, ListedStays
<1>5. ASSUME NEW f \in Folders PROVE FolderShown(jt, f)'
  <2>1. FolderShown(it, f)
    BY DEF ItemKept
  <2>2. ASSUME jt.label[f] = "counted", f \notin toldOf', "Databases" \notin toldOf'
        PROVE  jt.shown[f] = part'[f] \/ Revised(f, b, 0)'
    <3>1. it.shown[f] = part[f] \/ Revised(f, b, 0)
      BY <1>1, <2>1, <2>2 DEF FolderShown
    <3> QED
      BY <1>1, <1>2, <1>3, <2>2, <3>1
  <2> QED
    BY <1>1, <2>2 DEF FolderShown
<1>6. ASSUME NEW n \in Names PROVE IndexShown(jt, n)'
  <2>1. IndexShown(it, n)
    BY DEF ItemKept
  <2>2. ASSUME n \in jt.shown["Collections"], jt.ilabel[n] = "counted",
               n \notin toldOf', "Collections" \notin toldOf', "Databases" \notin toldOf'
        PROVE  (n \in jt.ishown <=> n \in indexed') \/ Revised(n, b, 0)'
    <3>1. (n \in it.ishown <=> n \in indexed) \/ Revised(n, b, 0)
      BY <1>1, <2>1, <2>2 DEF IndexShown
    <3> QED
      BY <1>1, <1>2, <1>3, <2>2, <3>1
  <2> QED
    BY <1>1, <2>2 DEF IndexShown
<1> QED
  BY <1>4, <1>5, <1>6 DEF ItemKept

\* The same of all items.
LEMMA ContentsStay ==
  ASSUME NEW a, Handled(a), PostsNoIndex, ~ListsCollections(a), toldOf \subseteq toldOf',
         objects' = objects, DOMAIN dbItems' = DOMAIN dbItems,
         \A o \in DOMAIN dbItems : OnlyDots(dbItems[o], dbItems'[o]),
         \A b : \A f \in Folders : HeadRevises(a, f, b) =>
            f \in toldOf' \/ "Databases" \in toldOf' \/ Revised(f, b, 0)',
         \A b : \A n \in Names : HeadRevises(a, n, b) =>
            n \in toldOf' \/ "Collections" \in toldOf' \/ "Databases" \in toldOf' \/ Revised(n, b, 0)'
  PROVE  ContentsKept'
<1> SUFFICES ASSUME NEW o \in objects', IsShown(o)' PROVE ItemKept(dbItems[o], o)'
  BY DEF ContentsKept
<1>1. TreeTyped /\ Delivered(a) /\ ContentsKept
  BY DEF Handled
<1>2. o \in DOMAIN dbItems /\ OnlyDots(dbItems[o], dbItems'[o]) /\ IsShown(o) /\ o \in objects
  BY DEF IsShown, OnlyDots
<1>3. PICK it, jt, b : it = dbItems[o] /\ jt = dbItems'[o] /\ b = it.batch
  OBVIOUS
<1>4. ItemKept(it, o) /\ OnlyDots(it, jt)
  BY <1>1, <1>2, <1>3 DEF ContentsKept
<1>5. ItemKept(jt, o)'
  BY <1>1, <1>3, <1>4, ItemStays
<1> QED
  BY <1>3, <1>5

LEMMA ItemsSame ==
  ASSUME TreeTyped, objects' = objects, dbItems' = dbItems
  PROVE  ItemsStay /\ \A o \in DOMAIN dbItems : OnlyDots(dbItems[o], dbItems'[o])
<1>1. TreeTypeOK /\ IndexesKept
  BY DEF TreeTyped
<1>2. \A o \in DOMAIN dbItems : dbItems[o] \in Item /\ (~dbItems[o].gutted => IndexesAreOfShown(dbItems[o]))
  BY <1>1 DEF TreeTypeOK, IndexesKept
<1>3. \A o \in DOMAIN dbItems : StayIn(dbItems[o], dbItems'[o])
  BY <1>2 DEF StayIn, IndexesAreOfShown
<1>4. dbItems' = [o \in DOMAIN dbItems' |-> dbItems'[o]]
  BY <1>1 DEF TreeTypeOK
<1> QED
  BY <1>2, <1>3, <1>4, SameDots DEF ItemsStay

\* A request posted by a handler revises what it will list.
LEMMA PostedRevises ==
  ASSUME TreeTyped, NEW q \in TreeAsk, AskOfTree(q), requests' = Append(requests, q), NEW x, NEW b, AskRevises(q, x, b)
  PROVE  Revised(x, b, 0)'
<1>1. PICK k : k \in DOMAIN requests' /\ requests'[k] = q
  <2>1. /\ Len(requests) \in Nat /\ DOMAIN requests' = 1..(Len(requests) + 1)
        /\ requests'[Len(requests) + 1] = q
    BY PostedAsk
  <2> QED
    BY <2>1
<1>2. AskRevises(requests'[k], x, b)
  BY <1>1
<1> QED
  BY <1>1, <1>2 DEF Revised, AskRevises, Revises

LEMMA LoadingAgain ==
  ASSUME TreeTyped, LoadDatabases
  PROVE  /\ PostsNoIndex /\ label' = "loading"
         /\ kind = "single" \/ ConnectPends'
         /\ \A x, b : Revised(x, b, 0)'
<1>1. TreeTypeOK /\ kind \in {"single", "set"}
  BY DEF TreeTyped, TreeTypeOK
<1>2. PICK q : q = AskOf(IF kind = "set" THEN "connect" ELSE "databases", Server, None, None, None)
  OBVIOUS
<1>3. /\ q \in TreeAsk /\ AskOfTree(q) /\ q.op \in {"databases", "connect"}
      /\ q.op = (IF kind = "set" THEN "connect" ELSE "databases")
  BY <1>1, <1>2, ListAsk
<1>4. label' = "loading" /\ requests' = Append(requests, q)
  BY <1>2 DEF LoadDatabases, PostAsk
<1>5. PostsNoIndex
  BY <1>3, <1>4 DEF PostsNoIndex
<1>6. \A x, b : AskRevises(q, x, b)
  BY <1>3 DEF AskRevises, Revises, RenewingOps
<1>7. \A x, b : Revised(x, b, 0)'
  BY <1>3, <1>4, <1>6, PostedRevises
<1>8. kind = "single" \/ ConnectPends'
  <2>1. /\ Len(requests) \in Nat /\ DOMAIN requests' = 1..(Len(requests) + 1)
        /\ requests'[Len(requests) + 1] = q
    BY <1>3, <1>4, PostedAsk
  <2>2. Len(requests) + 1 \in DOMAIN requests'
    BY <2>1
  <2> QED
    BY <1>1, <1>3, <2>1, <2>2 DEF ConnectPends
<1> QED
  BY <1>4, <1>5, <1>7, <1>8

\* What the answer of a list of databases, and of a set, is about.
LEMMA KindOfAnswer ==
  ASSUME NEW a, Handled(a)
  PROVE  /\ a \in Answer /\ AnswerOfTree(a)
         /\ a.op \in SetOps => kind = "set"
         /\ a.op \in {"databases", "createDb"} => kind = "single"
         /\ a.ok /\ a.op \in {"databases", "connect"} => a.data \in BOOLEAN
         /\ TreeTypeOK /\ kind \in {"single", "set"} /\ kind' = kind /\ dangling' \in BOOLEAN
<1>1. TreeTyped /\ TreeTypeOK /\ Delivered(a) /\ dangling' = dangling
  BY DEF Handled, TreeTyped
<1>2. a \in Answer /\ AnswerOfTree(a)
  BY <1>1, DeliveredQueue
<1> QED
  BY <1>1, <1>2 DEF AnswerOfTree, MessageOK, Delivered, TreeTypeOK

LEMMA DatabasesListedKeeps ==
  ASSUME NEW a, Handled(a), a.op = "databases", DatabasesListed(a)
  PROVE  Kept'
<1>1. /\ TreeTypeOK /\ kind = "single" /\ kind' = kind /\ dangling' \in BOOLEAN
      /\ a.ok => a.data \in BOOLEAN
      /\ TreeTyped /\ Delivered(a) /\ OfflineKept /\ CreatedKept
  BY KindOfAnswer DEF Handled
<1>2. requests' = requests /\ setLabel' = setLabel /\ wasLost' = wasLost /\ wasLost = FALSE
  BY <1>1 DEF DatabasesListed, TreeTypeOK
<1>3. CASE a.ok
  <2>1. Rebuild(a.data) /\ toldOf' \subseteq Folders \cup Names \cup {"Databases"}
    BY <1>1, <1>3 DEF DatabasesListed, Calm, TreeTypeOK
  <2>2. PICK listed \in BOOLEAN : listed = a.data
    BY <1>1, <1>3
  <2>3. Rebuild(listed) /\ setLabel' \in Labels
    BY <1>1, <1>2, <2>1, <2>2 DEF TreeTypeOK
  <2> QED
    BY <1>2, <1>3, <2>1, <2>2, <2>3, RebuildKeeps
<1>4. CASE ~a.ok
  <2>1. /\ label' = "plain" /\ toldOf' = toldOf \cup {"Databases"}
        /\ objects' = objects /\ dbItems' = dbItems /\ fresh' = fresh
    BY <1>4 DEF DatabasesListed, Tell
  <2>2. PostsNoIndex /\ ItemsStay /\ \A o \in DOMAIN dbItems : OnlyDots(dbItems[o], dbItems'[o])
    BY <1>1, <1>2, <2>1, ItemsSame DEF PostsNoIndex
  <2>3. TreeTyped'
    <3>1. /\ label' \in Labels \cup {"offline"} /\ setLabel' \in Labels /\ wasLost' \in BOOLEAN
          /\ toldOf' \subseteq Folders \cup Names \cup {"Databases"}
      BY <1>1, <1>2, <2>1 DEF TreeTypeOK, Labels
    <3> QED
      BY <1>1, <1>2, <2>1, <2>2, <3>1, StayTyped
  <2>4. OfflineKept'
    BY <1>1, <1>2, <2>1, <2>2, OfflineStays
  <2>5. CreatedKept'
    BY <1>1, <2>1, CreatedStays
  <2>6. ContentsKept'
    <3>1. ~ListsCollections(a) /\ "Databases" \in toldOf' /\ toldOf \subseteq toldOf'
      BY <2>1 DEF ListsCollections
    <3> QED
      BY <2>1, <2>2, <3>1, ContentsStay
  <2> QED
    BY <2>3, <2>4, <2>5, <2>6 DEF Kept
<1> QED
  BY <1>3, <1>4

LEMMA ReconnectedKeeps ==
  ASSUME NEW a, Handled(a), a.op = "connect", Reconnected(a)
  PROVE  Kept'
<1>1. /\ TreeTypeOK /\ kind = "set" /\ (a.ok => a.data \in BOOLEAN)
  BY KindOfAnswer DEF SetOps
<1>2. requests' = requests
  BY DEF Reconnected
<1>3. CASE a.ok
  <2>1. /\ Rebuild(a.data) /\ toldOf' \subseteq Folders \cup Names \cup {"Databases"}
        /\ wasLost' = FALSE /\ setLabel' = "plain"
    BY <1>1, <1>3 DEF Reconnected, Calm, TreeTypeOK
  <2>2. PICK listed \in BOOLEAN : listed = a.data
    BY <1>1, <1>3
  <2>3. Rebuild(listed) /\ setLabel' \in Labels
    BY <2>1, <2>2 DEF Labels
  <2> QED
    BY <1>2, <2>1, <2>3, RebuildKeeps
<1>4. CASE ~a.ok
  <2>1. Unreachable /\ toldOf' \subseteq Folders \cup Names \cup {"Databases"}
    BY <1>1, <1>4 DEF Reconnected, Tell, TreeTypeOK
  <2> QED
    BY <1>1, <1>2, <2>1, UnreachableKeeps
<1> QED
  BY <1>3, <1>4

LEMMA SetFolderRefreshedKeeps ==
  ASSUME NEW a, Handled(a), a.op = "folder", SetFolderRefreshed(a)
  PROVE  Kept'
<1>1. /\ TreeTypeOK /\ kind = "set" /\ kind' = kind /\ dangling' \in BOOLEAN
      /\ TreeTyped /\ Delivered(a) /\ OfflineKept /\ CreatedKept
  BY KindOfAnswer DEF SetOps, Handled
<1>2. CASE ~a.ok
  <2>1. Unreachable /\ toldOf' \subseteq Folders \cup Names \cup {"Databases"} /\ requests' = requests
    BY <1>1, <1>2 DEF SetFolderRefreshed, Tell, TreeTypeOK
  <2> QED
    BY <1>1, <2>1, UnreachableKeeps
<1>3. CASE a.ok
  <2>1. /\ setLabel' = "plain" /\ wasLost' = FALSE
        /\ objects' = objects /\ dbItems' = dbItems /\ fresh' = fresh /\ toldOf' = toldOf
        /\ (wasLost => LoadDatabases) /\ (~wasLost => requests' = requests /\ label' = label)
    BY <1>3 DEF SetFolderRefreshed
  <2>2. /\ PostsNoIndex
        /\ wasLost => label' = "loading" /\ ConnectPends'
    BY <1>1, <2>1, LoadingAgain DEF PostsNoIndex
  <2>3. ItemsStay /\ \A o \in DOMAIN dbItems : OnlyDots(dbItems[o], dbItems'[o])
    BY <1>1, <2>1, ItemsSame
  <2>4. TreeTyped'
    <3>1. label' \in Labels \cup {"offline"}
      BY <1>1, <2>1, <2>2 DEF TreeTypeOK, Labels
    <3>2. setLabel' \in Labels /\ wasLost' \in BOOLEAN /\ (wasLost' => kind = "set")
      BY <1>1, <2>1 DEF Labels
    <3>3. toldOf' \subseteq Folders \cup Names \cup {"Databases"}
      BY <1>1, <2>1 DEF TreeTypeOK
    <3> QED
      BY <1>1, <2>1, <2>2, <2>3, <3>1, <3>2, <3>3, StayTyped
  <2>5. OfflineKept'
    <3>1. ConnectPends => ConnectPends'
      BY <1>1, <2>2, ConnectStays
    <3>2. label' # "offline"
      BY <1>1, <2>1, <2>2 DEF OfflineKept
    <3>3. ConnectPends' \/ \A o \in DOMAIN dbItems' : ~dbItems'[o].gutted
      <4>1. CASE wasLost
        BY <2>2, <4>1
      <4>2. CASE ~wasLost
        BY <1>1, <2>1, <3>1, <4>2 DEF OfflineKept
      <4> QED
        BY <4>1, <4>2
    <3> QED
      BY <2>1, <3>2, <3>3 DEF OfflineKept
  <2>6. CreatedKept'
    BY <1>1 DEF CreatedKept
  <2>7. ContentsKept'
    <3>1. ~ListsCollections(a) /\ \A x, b : ~HeadRevises(a, x, b)
      BY DEF ListsCollections, HeadRevises, Revises, RenewingOps, DatabaseOps, NameOps, IndexOps
    <3> QED
      BY <2>1, <2>2, <2>3, <3>1, ContentsStay
  <2> QED
    BY <2>4, <2>5, <2>6, <2>7 DEF Kept
<1> QED
  BY <1>2, <1>3

LEMMA DatabaseChangedKeeps ==
  ASSUME NEW a, Handled(a), a.op \in DatabaseOps, DatabaseChanged(a)
  PROVE  Kept'
<1>1. /\ TreeTypeOK /\ kind' = kind /\ dangling' \in BOOLEAN /\ kind \in {"single", "set"}
      /\ TreeTyped /\ Delivered(a) /\ OfflineKept /\ CreatedKept
  BY KindOfAnswer DEF Handled
<1>2. /\ objects' = objects /\ dbItems' = dbItems /\ fresh' = fresh /\ setLabel' = setLabel /\ wasLost' = wasLost
      /\ a.ok => LoadDatabases /\ toldOf' = toldOf
      /\ ~a.ok => toldOf' = toldOf \cup {"Databases"} /\ requests' = requests /\ label' = label
  BY DEF DatabaseChanged, Tell
<1>3. /\ PostsNoIndex
      /\ a.ok => label' = "loading" /\ (kind = "single" \/ ConnectPends') /\ \A x, b : Revised(x, b, 0)'
  BY <1>1, <1>2, LoadingAgain DEF PostsNoIndex
<1>4. ItemsStay /\ \A o \in DOMAIN dbItems : OnlyDots(dbItems[o], dbItems'[o])
  BY <1>1, <1>2, ItemsSame
<1>5. a.op \notin {"connect", "databases", "load"}
  BY DEF DatabaseOps
<1>6. TreeTyped'
  <2>1. label' \in Labels \cup {"offline"}
    BY <1>1, <1>2, <1>3 DEF TreeTypeOK, Labels
  <2>2. setLabel' \in Labels /\ wasLost' \in BOOLEAN /\ (wasLost' => kind = "set")
    BY <1>1, <1>2 DEF TreeTypeOK
  <2>3. toldOf' \subseteq Folders \cup Names \cup {"Databases"}
    BY <1>1, <1>2 DEF TreeTypeOK
  <2> QED
    BY <1>1, <1>2, <1>3, <1>4, <2>1, <2>2, <2>3, StayTyped
<1>7. OfflineKept'
  BY <1>1, <1>2, <1>3, <1>5, OfflineStays
<1>8. CreatedKept'
  BY <1>1, <1>2, <1>3, <1>5, CreatedStays
<1>9. ContentsKept'
  <2>1. ~ListsCollections(a) /\ toldOf \subseteq toldOf' /\ ("Databases" \in toldOf' \/ \A x, b : Revised(x, b, 0)')
    BY <1>2, <1>3, <1>5 DEF ListsCollections
  <2> QED
    BY <1>2, <1>3, <1>4, <2>1, ContentsStay
<1> QED
  BY <1>6, <1>7, <1>8, <1>9 DEF Kept

\* The changes of a folder, and of a name: whose folder it is.
LEMMA FolderOfAnswer ==
  ASSUME NEW a, Handled(a), a.op \in {"load"} \cup NameOps
  PROVE  /\ a.f \in Folders /\ a.from \in objects
         /\ a.ok /\ a.op = "load" => a.data \subseteq Names
         /\ \A x, b : HeadRevises(a, x, b) => a.f = Folder(x)
         /\ \A f \in Folders : Folder(f) = f
         /\ \A n \in Names : Folder(n) = "Collections"
<1>1. a \in Answer /\ AnswerOfTree(a)
  BY KindOfAnswer
<1>2. a.f \in Folders /\ a.from # Server /\ (a.ok /\ a.op = "load" => a.data \subseteq Names)
  BY <1>1 DEF AnswerOfTree, MessageOK
<1>3. a.op \notin IndexOps /\ a.op \notin RenewingOps
  BY DEF IndexOps, NameOps, RenewingOps, DatabaseOps
<1>4. a.from \in objects
  BY <1>2, <1>3 DEF Handled, Dangles, IsAlive
<1>5. \A x, b : HeadRevises(a, x, b) => a.f = Folder(x)
  BY <1>3 DEF HeadRevises, Revises
<1> QED
  BY <1>2, <1>4, <1>5, NamesAssumption DEF Folder

LEMMA DotsStay ==
  ASSUME TreeTyped, objects' = objects, dbItems' \in [DOMAIN dbItems -> Item],
         \A o \in DOMAIN dbItems : OnlyDots(dbItems[o], dbItems'[o])
  PROVE  ItemsStay /\ DOMAIN dbItems' = DOMAIN dbItems
<1>1. \A o \in DOMAIN dbItems : ~dbItems[o].gutted => IndexesAreOfShown(dbItems[o])
  BY DEF TreeTyped, IndexesKept
<1>2. DOMAIN dbItems' = DOMAIN dbItems /\ dbItems' = [o \in DOMAIN dbItems' |-> dbItems'[o]]
      /\ \A o \in DOMAIN dbItems : dbItems'[o] \in Item
  OBVIOUS
<1>3. \A o \in DOMAIN dbItems : StayIn(dbItems[o], dbItems'[o])
  BY <1>1, <1>2 DEF StayIn, OnlyDots, IndexesAreOfShown
<1> QED
  BY <1>2, <1>3 DEF ItemsStay

\* A folder whose load failed is plain.
LEMMA FolderPlain ==
  ASSUME NEW it \in Item, NEW f \in Folders, NEW jt, jt = [it EXCEPT !.label[f] = "plain"]
  PROVE  jt \in Item /\ OnlyDots(it, jt)
<1>1. /\ jt.label = [it.label EXCEPT ![f] = "plain"] /\ jt.shown = it.shown /\ jt.batch = it.batch
      /\ jt.ilabel = it.ilabel /\ jt.ishown = it.ishown /\ jt.gutted = it.gutted
  BY DEF Item
<1>2. jt = [label |-> jt.label, shown |-> jt.shown, batch |-> jt.batch,
            ilabel |-> jt.ilabel, ishown |-> jt.ishown, gutted |-> jt.gutted]
  BY DEF Item
<1>3. jt.label \in [Folders -> Labels]
  BY <1>1, ItemFields DEF Labels
<1>4. jt \in Item
  BY <1>1, <1>2, <1>3, ItemFields DEF Item
<1> QED
  BY <1>1, <1>4, ItemFields DEF OnlyDots

LEMMA PlainStay ==
  ASSUME TreeTypeOK, NEW p, NEW f \in Folders,
         dbItems' = [o \in DOMAIN dbItems |-> IF o = p THEN [dbItems[o] EXCEPT !.label[f] = "plain"] ELSE dbItems[o]]
  PROVE  /\ dbItems' \in [DOMAIN dbItems -> Item]
         /\ \A o \in DOMAIN dbItems : OnlyDots(dbItems[o], dbItems'[o])
<1>1. \A o \in DOMAIN dbItems : dbItems[o] \in Item
  BY DEF TreeTypeOK
<1>2. ASSUME NEW o \in DOMAIN dbItems
      PROVE  dbItems'[o] \in Item /\ OnlyDots(dbItems[o], dbItems'[o])
  <2>1. PICK it \in Item : it = dbItems[o]
    BY <1>1
  <2>2. CASE o = p
    <3>1. dbItems'[o] = [it EXCEPT !.label[f] = "plain"]
      BY <2>1, <2>2
    <3> QED
      BY <2>1, <3>1, FolderPlain
  <2>3. CASE o # p
    <3>1. dbItems'[o] = it
      BY <2>1, <2>3
    <3> QED
      BY <2>1, <3>1, SameDots
  <2> QED
    BY <2>2, <2>3
<1>3. DOMAIN dbItems' = DOMAIN dbItems /\ dbItems' = [o \in DOMAIN dbItems |-> dbItems'[o]]
  OBVIOUS
<1> QED
  BY <1>2, <1>3

\* A step that puts dots on a folder, or takes them away, and asks for the folder again or
\* tells the user.
LEMMA FolderKeeps ==
  ASSUME NEW a, Handled(a), a.op \in {"load"} \cup NameOps, PostsNoIndex, ~ListsCollections(a),
         dbItems' \in [DOMAIN dbItems -> Item], \A o \in DOMAIN dbItems : OnlyDots(dbItems[o], dbItems'[o]),
         UNCHANGED <<objects, label, setLabel, wasLost, fresh>>,
         toldOf' \in {toldOf, toldOf \cup {a.f}},
         a.f \in toldOf' \/ \A x, b : a.f = Folder(x) => Revised(x, b, 0)'
  PROVE  Kept'
<1>1. /\ TreeTypeOK /\ kind' = kind /\ dangling' \in BOOLEAN
      /\ TreeTyped /\ Delivered(a) /\ OfflineKept /\ CreatedKept
  BY KindOfAnswer DEF Handled
<1>2. /\ a.f \in Folders
      /\ \A x, b : HeadRevises(a, x, b) => a.f = Folder(x)
      /\ \A f \in Folders : Folder(f) = f
      /\ \A n \in Names : Folder(n) = "Collections"
  BY FolderOfAnswer
<1>3. ItemsStay /\ DOMAIN dbItems' = DOMAIN dbItems
  BY <1>1, DotsStay
<1>4. a.op \notin {"connect", "databases", "createDb"}
  BY DEF NameOps
<1>5. toldOf \subseteq toldOf' /\ toldOf' \subseteq Folders \cup Names \cup {"Databases"}
  BY <1>1, <1>2 DEF TreeTypeOK
<1>6. TreeTyped'
  <2>1. /\ label' \in Labels \cup {"offline"} /\ setLabel' \in Labels
        /\ wasLost' \in BOOLEAN /\ (wasLost' => kind = "set")
    BY <1>1 DEF TreeTypeOK
  <2> QED
    BY <1>1, <1>3, <1>5, <2>1, StayTyped
<1>7. OfflineKept'
  <2>1. \A o \in DOMAIN dbItems : dbItems'[o].gutted = dbItems[o].gutted
    BY DEF OnlyDots
  <2> QED
    BY <1>1, <1>3, <1>4, <2>1, OfflineStays
<1>8. CreatedKept'
  BY <1>1, <1>4, CreatedStays
<1>9. ContentsKept'
  <2>1. \A b : \A f \in Folders : HeadRevises(a, f, b) => f \in toldOf' \/ Revised(f, b, 0)'
    BY <1>2
  <2>2. \A b : \A n \in Names : HeadRevises(a, n, b) => "Collections" \in toldOf' \/ Revised(n, b, 0)'
    BY <1>2
  <2> QED
    BY <1>3, <1>5, <2>1, <2>2, ContentsStay
<1> QED
  BY <1>6, <1>7, <1>8, <1>9 DEF Kept

LEMMA FolderChangedKeeps ==
  ASSUME NEW a, Handled(a), a.op \in NameOps, FolderChanged(a)
  PROVE  Kept'
<1>1. TreeTypeOK /\ TreeTyped /\ a \in Answer /\ ObjectsKept
  BY KindOfAnswer DEF Handled, TreeTyped
<1>2. a.f \in Folders /\ a.from \in objects
  BY FolderOfAnswer
<1>3. UNCHANGED <<objects, label, setLabel, wasLost, fresh>> /\ a.op \in {"load"} \cup NameOps /\ ~ListsCollections(a)
  BY DEF FolderChanged, ListsCollections, NameOps
<1>4. CASE a.ok
  <2>1. PICK o, f, q : o = a.from /\ f = a.f /\ q = AskOf("load", o, f, None, None)
    OBVIOUS
  <2>2. dbItems' = Loading(o, f) /\ toldOf' = toldOf /\ requests' = Append(requests, q)
    BY <1>4, <2>1 DEF FolderChanged, PostAsk
  <2>3. q \in TreeAsk /\ q.op = "load" /\ q.from = o /\ q.f = f /\ o \in Nat \ {Server} /\ o < fresh
    <3>1. o \in Nat \ {Server} /\ o < fresh /\ f \in Folders
      BY <1>1, <1>2, <2>1 DEF TreeTypeOK, ObjectsKept
    <3>2. "load" \in TreeOps
      BY DEF TreeOps
    <3> QED
      BY <2>1, <3>1, <3>2, AskIsRecord
  <2>4. AskOfTree(q)
    BY <1>2, <2>1, <2>3 DEF AskOfTree, MessageOK, NameOps, IndexOps, SetOps
  <2>5. PostsNoIndex
    BY <2>2, <2>3, <2>4 DEF PostsNoIndex
  <2>6. \A x, b : f = Folder(x) => AskRevises(q, x, b)
    BY <2>3 DEF AskRevises, Revises
  <2>7. \A x, b : a.f = Folder(x) => Revised(x, b, 0)'
    BY <1>1, <2>1, <2>2, <2>3, <2>4, <2>6, PostedRevises
  <2>8. dbItems' \in [DOMAIN dbItems -> Item] /\ \A p \in DOMAIN dbItems : OnlyDots(dbItems[p], dbItems'[p])
    BY <1>1, <1>2, <2>1, <2>2, LoadingDots
  <2>9. toldOf' \in {toldOf, toldOf \cup {a.f}}
    BY <2>2
  <2> QED
    BY <1>3, <2>5, <2>7, <2>8, <2>9, FolderKeeps
<1>5. CASE ~a.ok
  <2>1. requests' = requests /\ dbItems' = dbItems /\ toldOf' = toldOf \cup {a.f}
    BY <1>5 DEF FolderChanged, Tell
  <2>2. dbItems' \in [DOMAIN dbItems -> Item] /\ \A p \in DOMAIN dbItems : OnlyDots(dbItems[p], dbItems'[p])
    BY <1>1, <2>1, AllSameDots
  <2>3. toldOf' \in {toldOf, toldOf \cup {a.f}} /\ a.f \in toldOf' /\ PostsNoIndex
    BY <2>1 DEF PostsNoIndex
  <2> QED
    BY <1>3, <2>2, <2>3, FolderKeeps
<1> QED
  BY <1>4, <1>5

LEMMA LoadFailedKeeps ==
  ASSUME NEW a, Handled(a), a.op = "load", ~a.ok, FolderLoaded(a)
  PROVE  Kept'
<1>1. TreeTypeOK
  BY KindOfAnswer
<1>2. a.f \in Folders
  BY FolderOfAnswer
<1>3. UNCHANGED <<requests, objects, label, setLabel, wasLost, fresh>> /\ toldOf' = toldOf \cup {a.f}
  BY DEF FolderLoaded, Tell
<1>4. PICK p, f : p = a.from /\ f = a.f /\ f \in Folders
  BY <1>2
<1>5. dbItems' = [o \in DOMAIN dbItems |-> IF o = p THEN [dbItems[o] EXCEPT !.label[f] = "plain"] ELSE dbItems[o]]
  BY <1>4 DEF FolderLoaded
<1>6. dbItems' \in [DOMAIN dbItems -> Item] /\ \A o \in DOMAIN dbItems : OnlyDots(dbItems[o], dbItems'[o])
  BY <1>1, <1>4, <1>5, PlainStay
<1>7. toldOf' \in {toldOf, toldOf \cup {a.f}} /\ a.f \in toldOf' /\ PostsNoIndex /\ ~ListsCollections(a)
  BY <1>3 DEF PostsNoIndex, ListsCollections
<1> QED
  BY <1>3, <1>6, <1>7, FolderKeeps

\* A list of a folder.
LEMMA LoadedFacts ==
  ASSUME NEW it \in Item, NEW f \in Folders, NEW names \in SUBSET Names, NEW jt, jt = Loaded(it, f, names),
         fresh \in Nat
  PROVE  /\ jt \in Item /\ jt.gutted = it.gutted /\ jt.shown[f] = names
         /\ \A g \in Folders : g # f => jt.shown[g] = it.shown[g] /\ jt.label[g] = it.label[g]
         /\ f # "Collections" => jt.batch = it.batch /\ jt.ilabel = it.ilabel /\ jt.ishown = it.ishown
         /\ f = "Collections" => /\ jt.batch = (IF names = {} THEN 0 ELSE fresh) /\ jt.ishown = {}
                                 /\ \A n \in Names : jt.ilabel[n] = "plain"
<1>1. PICK kt : kt = [it EXCEPT !.label[f] = "counted", !.shown[f] = names]
  OBVIOUS
<1>2. /\ kt.label = [it.label EXCEPT ![f] = "counted"] /\ kt.shown = [it.shown EXCEPT ![f] = names]
      /\ kt.batch = it.batch /\ kt.ilabel = it.ilabel /\ kt.ishown = it.ishown /\ kt.gutted = it.gutted
  BY <1>1 DEF Item
<1>3. kt = [label |-> kt.label, shown |-> kt.shown, batch |-> kt.batch,
            ilabel |-> kt.ilabel, ishown |-> kt.ishown, gutted |-> kt.gutted]
  BY <1>1 DEF Item
<1>4. kt.label \in [Folders -> Labels] /\ kt.shown \in [Folders -> SUBSET Names]
  BY <1>2, ItemFields DEF Labels
<1>5. kt \in Item
  BY <1>2, <1>3, <1>4, ItemFields DEF Item
<1>6. /\ kt.shown[f] = names
      /\ \A g \in Folders : g # f => kt.shown[g] = it.shown[g] /\ kt.label[g] = it.label[g]
  BY <1>2, ItemFields
<1>7. CASE f # "Collections"
  <2>1. jt = kt
    BY <1>1, <1>7 DEF Loaded
  <2> QED
    BY <1>2, <1>5, <1>6, <1>7, <2>1
<1>8. CASE f = "Collections"
  <2>1. PICK l, b : l = NewItem.ilabel /\ b = IF names = {} THEN 0 ELSE fresh
    OBVIOUS
  <2>2. jt = [kt EXCEPT !.batch = b, !.ilabel = l, !.ishown = {}]
    BY <1>1, <1>8, <2>1 DEF Loaded
  <2>3. /\ jt.label = kt.label /\ jt.shown = kt.shown /\ jt.gutted = kt.gutted
        /\ jt.batch = b /\ jt.ilabel = l /\ jt.ishown = {}
    BY <1>5, <2>2 DEF Item
  <2>4. jt = [label |-> jt.label, shown |-> jt.shown, batch |-> jt.batch,
              ilabel |-> jt.ilabel, ishown |-> jt.ishown, gutted |-> jt.gutted]
    BY <1>5, <2>2 DEF Item
  <2>5. l \in [Names -> Labels] /\ \A n \in Names : l[n] = "plain"
    BY <2>1, NewItemFacts, ItemFields
  <2>6. b \in Nat
    BY <2>1
  <2>7. jt \in Item
    BY <1>5, <2>3, <2>4, <2>5, <2>6, ItemFields DEF Item
  <2>8. jt.batch = (IF names = {} THEN 0 ELSE fresh) /\ jt.ishown = {} /\ \A n \in Names : jt.ilabel[n] = "plain"
    BY <2>1, <2>3, <2>5
  <2>9. jt.gutted = it.gutted /\ jt.shown = kt.shown /\ jt.label = kt.label
    BY <1>2, <2>3
  <2> QED
    BY <1>6, <1>8, <2>7, <2>8, <2>9
<1> QED
  BY <1>7, <1>8

\* The items after a list of a folder.
LoadedInto(a) ==
  /\ objects' = objects /\ DOMAIN dbItems' = DOMAIN dbItems
  /\ dbItems' = [o \in DOMAIN dbItems' |-> dbItems'[o]]
  /\ \A o \in DOMAIN dbItems :
       IF o = a.from THEN dbItems'[o] = Loaded(dbItems[o], a.f, a.data) ELSE dbItems'[o] = dbItems[o]
  /\ fresh' = (IF a.f = "Collections" /\ a.data # {} THEN fresh + 1 ELSE fresh)
  /\ toldOf' = toldOf \ {a.f}
  /\ UNCHANGED <<requests, label, setLabel, wasLost>>
  /\ a.ok /\ a.op = "load" /\ a.f \in Folders /\ a.data \subseteq Names /\ a.from \in objects

LEMMA LoadedIsInto ==
  ASSUME NEW a, Handled(a), a.op = "load", a.ok, FolderLoaded(a)
  PROVE  LoadedInto(a)
<1>1. a.f \in Folders /\ a.from \in objects /\ a.data \subseteq Names
  BY FolderOfAnswer
<1>2. /\ UNCHANGED <<requests, objects, label, setLabel, wasLost>>
      /\ dbItems' = [o \in DOMAIN dbItems |-> IF o = a.from THEN Loaded(dbItems[o], a.f, a.data) ELSE dbItems[o]]
      /\ fresh' = (IF a.f = "Collections" /\ a.data # {} THEN fresh + 1 ELSE fresh)
      /\ toldOf' = toldOf \ {a.f}
  BY DEF FolderLoaded, Calm
<1>3. DOMAIN dbItems' = DOMAIN dbItems /\ dbItems' = [o \in DOMAIN dbItems' |-> dbItems'[o]]
      /\ \A o \in DOMAIN dbItems :
           IF o = a.from THEN dbItems'[o] = Loaded(dbItems[o], a.f, a.data) ELSE dbItems'[o] = dbItems[o]
  BY <1>2
<1> QED
  BY <1>1, <1>2, <1>3 DEF LoadedInto

LEMMA LoadedTyped ==
  ASSUME NEW a, Handled(a), LoadedInto(a)
  PROVE  TreeTyped' /\ \A o \in DOMAIN dbItems : dbItems'[o].gutted = dbItems[o].gutted
<1>1. /\ TreeTypeOK /\ dangling' \in BOOLEAN /\ TreeTyped /\ Delivered(a) /\ ObjectsKept /\ IndexesKept
      /\ fresh \in Nat \ {0}
  BY KindOfAnswer DEF Handled, TreeTyped, TreeTypeOK, Server
<1>2. /\ objects' = objects /\ DOMAIN dbItems' = DOMAIN dbItems /\ PostsNoIndex
      /\ dbItems' = [o \in DOMAIN dbItems' |-> dbItems'[o]]
      /\ a.f \in Folders /\ a.data \in SUBSET Names
      /\ fresh' = (IF a.f = "Collections" /\ a.data # {} THEN fresh + 1 ELSE fresh)
  BY DEF LoadedInto, PostsNoIndex
<1>3. fresh' \in Nat /\ fresh' >= fresh
  BY <1>1, <1>2
<1>4. ASSUME NEW o \in DOMAIN dbItems
      PROVE  /\ dbItems'[o] \in Item /\ dbItems'[o].gutted = dbItems[o].gutted
             /\ \/ dbItems'[o].batch = dbItems[o].batch
                \/ o = a.from /\ dbItems'[o].batch = 0
                \/ o = a.from /\ dbItems'[o].batch = fresh /\ fresh' = fresh + 1
             /\ ~dbItems'[o].gutted => IndexesAreOfShown(dbItems[o])'
  <2>1. PICK it, jt : it = dbItems[o] /\ jt = dbItems'[o]
    OBVIOUS
  <2>2. it \in Item /\ (~it.gutted => IndexesAreOfShown(it))
    BY <1>1, <2>1 DEF TreeTypeOK, IndexesKept
  <2>3. CASE o # a.from
    <3>1. jt = it
      BY <2>1, <2>3 DEF LoadedInto
    <3>2. ~it.gutted => it.ishown \subseteq it.shown["Collections"]
      BY <2>2 DEF IndexesAreOfShown
    <3>3. ~it.gutted => IndexesAreOfShown(it)'
      BY <1>1, <1>2, <2>2, <3>2, SameBatchIndexes
    <3> QED
      BY <2>1, <2>2, <3>1, <3>3
  <2>4. CASE o = a.from
    <3>1. PICK f, names : f = a.f /\ names = a.data
      OBVIOUS
    <3>2. jt = Loaded(it, f, names) /\ f \in Folders /\ names \in SUBSET Names
      BY <1>2, <2>1, <2>4, <3>1 DEF LoadedInto
    <3>3. /\ jt \in Item /\ jt.gutted = it.gutted /\ jt.shown[f] = names
          /\ \A g \in Folders : g # f => jt.shown[g] = it.shown[g] /\ jt.label[g] = it.label[g]
          /\ f # "Collections" => jt.batch = it.batch /\ jt.ilabel = it.ilabel /\ jt.ishown = it.ishown
          /\ f = "Collections" => /\ jt.batch = (IF names = {} THEN 0 ELSE fresh) /\ jt.ishown = {}
                                  /\ \A n \in Names : jt.ilabel[n] = "plain"
      BY <1>1, <2>2, <3>2, LoadedFacts
    <3>4. CASE f = "Collections"
      <4>1. jt.batch \in {0, fresh} /\ jt.ishown = {} /\ (jt.shown["Collections"] # {} => jt.batch # 0)
        BY <1>1, <3>3, <3>4
      <4>2. IndexesAreOfShown(jt)'
        BY <1>1, <1>2, <4>1, NewBatchIndexes
      <4>3. jt.batch = 0 \/ (jt.batch = fresh /\ fresh' = fresh + 1)
        BY <1>2, <3>1, <3>3, <3>4
      <4> QED
        BY <2>1, <2>4, <3>3, <4>2, <4>3
    <3>5. CASE f # "Collections"
      <4>1. jt.batch = it.batch /\ jt.ishown = it.ishown /\ jt.shown["Collections"] = it.shown["Collections"]
        BY <3>3, <3>5 DEF Folders
      <4>2. ~it.gutted => it.ishown \subseteq it.shown["Collections"]
        BY <2>2 DEF IndexesAreOfShown
      <4>3. ~it.gutted => IndexesAreOfShown(jt)'
        BY <1>1, <1>2, <2>2, <4>1, <4>2, SameBatchIndexes
      <4> QED
        BY <2>1, <3>3, <4>1, <4>3
    <3> QED
      BY <3>4, <3>5
  <2> QED
    BY <2>3, <2>4
<1>5. \A o \in DOMAIN dbItems' : dbItems'[o] \in Item /\ dbItems'[o].batch < fresh'
  <2>1. \A o \in DOMAIN dbItems : dbItems[o].batch < fresh /\ dbItems[o].batch \in Nat
    BY <1>1, ItemFields DEF ObjectsKept, TreeTypeOK
  <2> QED
    BY <1>1, <1>2, <1>3, <1>4, <2>1
<1>6. \A o, p \in DOMAIN dbItems' : dbItems'[o].batch = dbItems'[p].batch /\ dbItems'[o].batch # 0 => o = p
  <2>1. \A o \in DOMAIN dbItems : dbItems[o].batch # fresh
    BY <1>1 DEF ObjectsKept
  <2>2. \A o, p \in DOMAIN dbItems : dbItems[o].batch = dbItems[p].batch /\ dbItems[o].batch # 0 => o = p
    BY <1>1 DEF IndexesKept
  <2> QED
    BY <1>2, <1>4, <2>1, <2>2
<1>7. IsFiniteSet(objects') /\ objects' \subseteq Nat \ {Server} /\ DOMAIN dbItems' \subseteq objects'
      /\ \A o \in objects' : o < fresh'
  BY <1>1, <1>2, <1>3 DEF TreeTypeOK, ObjectsKept
<1>8. /\ label' \in Labels \cup {"offline"} /\ setLabel' \in Labels
      /\ wasLost' \in BOOLEAN /\ (wasLost' => kind = "set")
      /\ toldOf' \subseteq Folders \cup Names \cup {"Databases"}
  BY <1>1 DEF TreeTypeOK, LoadedInto
<1>9. \A o \in DOMAIN dbItems' : ~dbItems'[o].gutted => IndexesAreOfShown(dbItems[o])'
  BY <1>2, <1>4
<1> QED
  BY <1>1, <1>2, <1>3, <1>4, <1>5, <1>6, <1>7, <1>8, <1>9, DeliveredTyped

LEMMA LoadedContents ==
  ASSUME NEW a, Handled(a), LoadedInto(a), \A o \in DOMAIN dbItems : dbItems'[o].gutted = dbItems[o].gutted
  PROVE  ContentsKept'
<1> SUFFICES ASSUME NEW o \in objects', IsShown(o)' PROVE ItemKept(dbItems[o], o)'
  BY DEF ContentsKept
<1>1. /\ TreeTyped /\ TreeTypeOK /\ Delivered(a) /\ ContentsKept /\ fresh \in Nat
      /\ part' = part /\ indexed' = indexed
  BY DEF Handled, TreeTyped, TreeTypeOK, Delivered
<1>2. /\ objects' = objects /\ DOMAIN dbItems' = DOMAIN dbItems /\ PostsNoIndex /\ toldOf' = toldOf \ {a.f}
      /\ a.ok /\ a.op = "load" /\ a.f \in Folders /\ a.data \in SUBSET Names /\ a.from \in objects
  BY DEF LoadedInto, PostsNoIndex
<1>3. /\ \A x, b : HeadRevises(a, x, b) => a.f = Folder(x)
      /\ \A f \in Folders : Folder(f) = f
      /\ \A n \in Names : Folder(n) = "Collections"
  BY <1>2, FolderOfAnswer
<1>4. o \in DOMAIN dbItems /\ o = a.from /\ IsShown(o) /\ o \in objects
  BY <1>2 DEF IsShown
<1>5. PICK it, jt, b, c, g, names :
        it = dbItems[o] /\ jt = dbItems'[o] /\ b = it.batch /\ c = jt.batch /\ g = a.f /\ names = a.data
  OBVIOUS
<1>6. it \in Item /\ ItemKept(it, o) /\ jt = Loaded(it, g, names) /\ g \in Folders /\ names \in SUBSET Names
  BY <1>1, <1>2, <1>4, <1>5 DEF TreeTypeOK, ContentsKept, LoadedInto
<1>7. /\ jt.shown[g] = names
      /\ \A f \in Folders : f # g => jt.shown[f] = it.shown[f] /\ jt.label[f] = it.label[f]
      /\ g # "Collections" => jt.batch = it.batch /\ jt.ilabel = it.ilabel /\ jt.ishown = it.ishown
      /\ g = "Collections" => /\ jt.batch = (IF names = {} THEN 0 ELSE fresh) /\ jt.ishown = {}
                              /\ \A n \in Names : jt.ilabel[n] = "plain"
  BY <1>1, <1>6, LoadedFacts
<1>8. (c = b /\ ~ListsCollections(a)) \/ c \in {0, fresh}
  <2>1. CASE g = "Collections"
    BY <1>5, <1>7, <2>1
  <2>2. CASE g # "Collections"
    BY <1>5, <1>7, <2>2 DEF ListsCollections
  <2> QED
    BY <2>1, <2>2
<1>9. \A x : /\ Revised(x, b, 1) => Revised(x, c, 0)'
             /\ Revised(x, b, 0) => HeadRevises(a, x, b) \/ Revised(x, c, 0)'
  BY <1>1, <1>2, <1>8, RestRevised
<1>10. /\ \A f \in Folders : FolderListed(jt, o, f)'
       /\ \A n \in Names : IndexListed(jt, n)'
  BY <1>1, <1>2, <1>5, <1>6, <1>8, ListedStays
<1>11. "Databases" \notin Folders /\ "Databases" \notin Names /\ \A n \in Names : n \notin Folders
  BY NamesAssumption DEF Folders
<1>12. ASSUME NEW f \in Folders PROVE FolderShown(jt, f)'
  <2>1. ASSUME jt.label[f] = "counted", f \notin toldOf', "Databases" \notin toldOf'
        PROVE  jt.shown[f] = part'[f] \/ Revised(f, c, 0)'
    <3>1. CASE f = g
      <4>1. 1 \in DOMAIN answers /\ a = answers[1]
        BY <1>1, DeliveredQueue
      <4>2. FolderListed(it, o, f)
        BY <1>6 DEF ItemKept
      <4>3. a.data = part[f] \/ Revised(f, b, 1)
        BY <1>2, <1>4, <1>5, <3>1, <4>1, <4>2 DEF FolderListed, ListsFolder
      <4> QED
        BY <1>1, <1>5, <1>7, <1>9, <3>1, <4>3
    <3>2. CASE f # g
      <4>1. it.label[f] = "counted" /\ f \notin toldOf /\ "Databases" \notin toldOf
        BY <1>2, <1>5, <1>7, <1>11, <2>1, <3>2
      <4>2. it.shown[f] = part[f] \/ Revised(f, b, 0)
        BY <1>5, <1>6, <4>1 DEF ItemKept, FolderShown
      <4>3. ~HeadRevises(a, f, b)
        BY <1>3, <1>5, <3>2
      <4> QED
        BY <1>1, <1>7, <1>9, <3>2, <4>2, <4>3
    <3> QED
      BY <3>1, <3>2
  <2> QED
    BY <1>5, <2>1 DEF FolderShown
<1>13. ASSUME NEW n \in Names PROVE IndexShown(jt, n)'
  <2>1. ASSUME n \in jt.shown["Collections"], jt.ilabel[n] = "counted",
               n \notin toldOf', "Collections" \notin toldOf', "Databases" \notin toldOf'
        PROVE  (n \in jt.ishown <=> n \in indexed') \/ Revised(n, c, 0)'
    <3>1. g # "Collections"
      BY <1>7, <2>1
    <3>2. /\ jt.ilabel = it.ilabel /\ jt.ishown = it.ishown
          /\ jt.shown["Collections"] = it.shown["Collections"]
      BY <1>7, <3>1 DEF Folders
    <3>3. n \notin toldOf /\ "Collections" \notin toldOf /\ "Databases" \notin toldOf
      BY <1>2, <1>5, <1>11, <2>1, <3>1
    <3>4. IndexShown(it, n)
      BY <1>6 DEF ItemKept
    <3>5. (n \in it.ishown <=> n \in indexed) \/ Revised(n, b, 0)
      BY <1>5, <2>1, <3>2, <3>3, <3>4 DEF IndexShown
    <3>6. ~HeadRevises(a, n, b)
      BY <1>3, <1>5, <3>1
    <3> QED
      BY <1>1, <1>9, <3>2, <3>5, <3>6
  <2> QED
    BY <1>5, <2>1 DEF IndexShown
<1>14. ItemKept(jt, o)'
  BY <1>10, <1>12, <1>13 DEF ItemKept
<1> QED
  BY <1>5, <1>14

LEMMA LoadedKeeps ==
  ASSUME NEW a, Handled(a), a.op = "load", a.ok, FolderLoaded(a)
  PROVE  Kept'
<1>1. LoadedInto(a)
  BY LoadedIsInto
<1>2. TreeTyped' /\ \A o \in DOMAIN dbItems : dbItems'[o].gutted = dbItems[o].gutted
  BY <1>1, LoadedTyped
<1>3. TreeTyped /\ Delivered(a) /\ OfflineKept /\ CreatedKept
  BY DEF Handled
<1>4. /\ objects' = objects /\ DOMAIN dbItems' = DOMAIN dbItems /\ PostsNoIndex
      /\ label' = label /\ wasLost' = wasLost
  BY <1>1 DEF LoadedInto, PostsNoIndex
<1>5. OfflineKept'
  BY <1>2, <1>3, <1>4, OfflineStays
<1>6. CreatedKept'
  BY <1>3, <1>4, CreatedStays
<1>7. ContentsKept'
  BY <1>1, <1>2, LoadedContents
<1> QED
  BY <1>2, <1>5, <1>6, <1>7 DEF Kept

\* The indexes of one collection: a list, or the end of a change.
OnlyIndex(it, jt, n) ==
  /\ jt \in Item /\ jt.label = it.label /\ jt.shown = it.shown /\ jt.batch = it.batch /\ jt.gutted = it.gutted
  /\ jt.ishown \subseteq it.ishown \cup {n}
  /\ \A m \in Names \ {n} : jt.ilabel[m] = it.ilabel[m] /\ (m \in jt.ishown <=> m \in it.ishown)

Rewritten(it, jt, n, l, s) ==
  /\ jt = [label |-> jt.label, shown |-> jt.shown, batch |-> jt.batch,
           ilabel |-> jt.ilabel, ishown |-> jt.ishown, gutted |-> jt.gutted]
  /\ jt.ilabel = [it.ilabel EXCEPT ![n] = l] /\ jt.ishown = s
  /\ jt.label = it.label /\ jt.shown = it.shown /\ jt.batch = it.batch /\ jt.gutted = it.gutted

LEMMA IndexWritten ==
  ASSUME NEW it \in Item, NEW n \in Names, NEW l \in Labels, NEW s, NEW jt,
         s = it.ishown \cup {n} \/ s = it.ishown \ {n}, Rewritten(it, jt, n, l, s)
  PROVE  OnlyIndex(it, jt, n) /\ jt.ishown = s
<1>1. jt.ilabel \in [Names -> Labels] /\ jt.ishown \subseteq Names
  BY ItemFields DEF Rewritten
<1>2. jt \in Item
  BY <1>1, ItemFields DEF Item, Rewritten
<1>3. \A m \in Names \ {n} : jt.ilabel[m] = it.ilabel[m]
  BY ItemFields DEF Rewritten
<1>4. jt.ishown \subseteq it.ishown \cup {n} /\ \A m \in Names \ {n} : m \in jt.ishown <=> m \in it.ishown
  BY DEF Rewritten
<1> QED
  BY <1>2, <1>3, <1>4 DEF OnlyIndex, Rewritten

\* What the answer does to the item whose collection items asked.
IndexWrites(a, it, jt) ==
  /\ OnlyIndex(it, jt, a.n)
  /\ a.ok /\ a.op = "indexes" /\ a.data => a.n \in jt.ishown
  /\ a.ok /\ a.op = "indexes" /\ ~a.data => a.n \notin jt.ishown
  /\ a.ok /\ a.op = "dropIndex" => a.n \notin jt.ishown
  /\ a.ok /\ a.op \in {"addIndex", "editIndex"} => jt = it

LEMMA ListWrites ==
  ASSUME NEW it \in Item, NEW a, a.n \in Names, a.op = "indexes", NEW jt, jt = IndexesListed(it, a)
  PROVE  IndexWrites(a, it, jt)
<1>1. PICK n \in Names : n = a.n
  OBVIOUS
<1>2. PICK l \in Labels : l = IF a.ok THEN "counted" ELSE "plain"
  BY DEF Labels
<1>3. CASE a.ok /\ a.data
  <2>1. PICK s : s = it.ishown \cup {n}
    OBVIOUS
  <2>2. jt = [it EXCEPT !.ilabel[n] = l, !.ishown = s]
    BY <1>1, <1>2, <1>3, <2>1 DEF IndexesListed
  <2>3. OnlyIndex(it, jt, n) /\ jt.ishown = s
    <3>1. Rewritten(it, jt, n, l, s)
      BY <2>2 DEF Item, Rewritten
    <3> QED
      BY <2>1, <3>1, IndexWritten
  <2> QED
    BY <1>1, <1>3, <2>1, <2>3 DEF IndexWrites
<1>4. CASE ~(a.ok /\ a.data)
  <2>1. PICK s : s = it.ishown \ {n}
    OBVIOUS
  <2>2. jt = [it EXCEPT !.ilabel[n] = l, !.ishown = s]
    BY <1>1, <1>2, <1>4, <2>1 DEF IndexesListed
  <2>3. OnlyIndex(it, jt, n) /\ jt.ishown = s
    <3>1. Rewritten(it, jt, n, l, s)
      BY <2>2 DEF Item, Rewritten
    <3> QED
      BY <2>1, <3>1, IndexWritten
  <2>4. n \notin jt.ishown
    BY <2>1, <2>3
  <2> QED
    BY <1>1, <1>4, <2>3, <2>4, Zenon DEF IndexWrites
<1> QED
  BY <1>3, <1>4

LEMMA SameWrites ==
  ASSUME NEW it \in Item, NEW a, a.op # "indexes", ~(a.op = "dropIndex" /\ a.ok)
  PROVE  IndexWrites(a, it, it)
BY DEF IndexWrites, OnlyIndex

LEMMA DropWrites ==
  ASSUME NEW it \in Item, NEW a, a.n \in Names, a.op = "dropIndex", NEW jt, jt = IndexDropped(it, a)
  PROVE  IndexWrites(a, it, jt)
<1>1. PICK n \in Names, l \in Labels : n = a.n /\ l = "counted"
  BY DEF Labels
<1>2. PICK s : s = it.ishown \ {n}
  OBVIOUS
<1>3. jt = [it EXCEPT !.ilabel[n] = l, !.ishown = s]
  BY <1>1, <1>2 DEF IndexDropped
<1>4. OnlyIndex(it, jt, n) /\ jt.ishown = s
  <2>1. Rewritten(it, jt, n, l, s)
    BY <1>3 DEF Item, Rewritten
  <2> QED
    BY <1>2, <2>1, IndexWritten
<1>5. n \notin jt.ishown
  BY <1>2, <1>4
<1> QED
  BY <1>1, <1>4, <1>5 DEF IndexWrites

\* The items after an answer about indexes.
IndexedInto(a) ==
  /\ objects' = objects /\ DOMAIN dbItems' = DOMAIN dbItems
  /\ dbItems' = [o \in DOMAIN dbItems' |-> dbItems'[o]]
  /\ \A o \in DOMAIN dbItems :
       IF o \in SenderOf(a) THEN IndexWrites(a, dbItems[o], dbItems'[o]) ELSE dbItems'[o] = dbItems[o]
  /\ UNCHANGED <<requests, label, setLabel, wasLost, fresh>>
  /\ toldOf' = (IF ~a.ok THEN toldOf \cup {a.n} ELSE IF a.op = "indexes" THEN toldOf \ {a.n} ELSE toldOf)
  /\ a.op \in IndexOps /\ a.n \in Names /\ a.f = "Collections" /\ a.from # Server

LEMMA IndexedIsInto ==
  ASSUME NEW a, Handled(a), a.op \in IndexOps, IndexAnswered(a)
  PROVE  IndexedInto(a)
<1>1. a.n \in Names /\ a.f = "Collections" /\ a.from # Server /\ TreeTypeOK
  BY KindOfAnswer DEF AnswerOfTree, MessageOK
<1>2. /\ UNCHANGED <<requests, objects, label, setLabel, wasLost, fresh>>
      /\ dbItems' = [o \in DOMAIN dbItems |->
                      IF o \notin SenderOf(a) THEN dbItems[o]
                      ELSE IF a.op = "indexes" THEN IndexesListed(dbItems[o], a)
                      ELSE IF a.op = "dropIndex" /\ a.ok THEN IndexDropped(dbItems[o], a)
                      ELSE dbItems[o]]
  BY DEF IndexAnswered
<1>3. DOMAIN dbItems' = DOMAIN dbItems /\ dbItems' = [o \in DOMAIN dbItems' |-> dbItems'[o]]
  BY <1>2
<1>4. toldOf' = (IF ~a.ok THEN toldOf \cup {a.n} ELSE IF a.op = "indexes" THEN toldOf \ {a.n} ELSE toldOf)
  <2>1. CASE ~a.ok
    BY <2>1 DEF IndexAnswered, Tell
  <2>2. CASE a.ok /\ a.op = "indexes"
    BY <2>2 DEF IndexAnswered, Calm
  <2>3. CASE a.ok /\ a.op # "indexes"
    BY <2>3 DEF IndexAnswered
  <2> QED
    BY <2>1, <2>2, <2>3
<1>5. ASSUME NEW o \in DOMAIN dbItems, o \in SenderOf(a) PROVE IndexWrites(a, dbItems[o], dbItems'[o])
  <2>1. PICK it, jt : it = dbItems[o] /\ jt = dbItems'[o]
    OBVIOUS
  <2>2. it \in Item
    BY <1>1, <2>1 DEF TreeTypeOK
  <2>3. CASE a.op = "indexes"
    <3>1. jt = IndexesListed(it, a)
      BY <1>2, <1>5, <2>1, <2>3
    <3> QED
      BY <1>1, <2>1, <2>2, <2>3, <3>1, ListWrites
  <2>4. CASE a.op = "dropIndex" /\ a.ok
    <3>1. jt = IndexDropped(it, a)
      BY <1>2, <1>5, <2>1, <2>4
    <3> QED
      BY <1>1, <2>1, <2>2, <2>4, <3>1, DropWrites
  <2>5. CASE a.op # "indexes" /\ ~(a.op = "dropIndex" /\ a.ok)
    <3>1. jt = it
      BY <1>2, <1>5, <2>1, <2>5
    <3> QED
      BY <2>1, <2>2, <2>5, <3>1, SameWrites
  <2> QED
    BY <2>3, <2>4, <2>5
<1>6. \A o \in DOMAIN dbItems : o \notin SenderOf(a) => dbItems'[o] = dbItems[o]
  BY <1>2
<1> QED
  BY <1>1, <1>2, <1>3, <1>4, <1>5, <1>6 DEF IndexedInto

LEMMA IndexedStay ==
  ASSUME NEW a, Handled(a), IndexedInto(a)
  PROVE  ItemsStay /\ TreeTyped'
<1>1. /\ TreeTypeOK /\ dangling' \in BOOLEAN /\ TreeTyped /\ Delivered(a) /\ IndexesKept
      /\ 1 \in DOMAIN answers /\ a = answers[1]
  BY KindOfAnswer, DeliveredQueue DEF Handled, TreeTyped
<1>2. ASSUME NEW o \in DOMAIN dbItems PROVE StayIn(dbItems[o], dbItems'[o])
  <2>1. PICK it, jt : it = dbItems[o] /\ jt = dbItems'[o]
    OBVIOUS
  <2>2. it \in Item /\ (~it.gutted => IndexesAreOfShown(it))
    BY <1>1, <2>1 DEF TreeTypeOK, IndexesKept
  <2>3. ~it.gutted => it.ishown \subseteq it.shown["Collections"]
    BY <2>2 DEF IndexesAreOfShown
  <2>4. CASE o \notin SenderOf(a)
    <3>1. jt = it
      BY <2>1, <2>4 DEF IndexedInto
    <3> QED
      BY <2>1, <2>2, <2>3, <3>1 DEF StayIn
  <2>5. CASE o \in SenderOf(a)
    <3>1. IndexWrites(a, it, jt) /\ a.op \in IndexOps
      BY <2>1, <2>5 DEF IndexedInto
    <3>2. it.batch = a.from /\ ~it.gutted
      BY <2>1, <2>5, <3>1 DEF SenderOf
    <3>3. a.n \in it.shown["Collections"]
      BY <1>1, <2>2, <3>1, <3>2 DEF IndexesAreOfShown
    <3>4. jt.ishown \subseteq it.shown["Collections"]
      BY <2>3, <3>1, <3>2, <3>3 DEF IndexWrites, OnlyIndex
    <3> QED
      BY <2>1, <3>1, <3>4 DEF StayIn, IndexWrites, OnlyIndex
  <2> QED
    BY <2>4, <2>5
<1>3. ItemsStay
  BY <1>2 DEF ItemsStay, IndexedInto
<1>4. /\ label' \in Labels \cup {"offline"} /\ setLabel' \in Labels
      /\ wasLost' \in BOOLEAN /\ (wasLost' => kind = "set") /\ fresh' = fresh
      /\ toldOf' \subseteq Folders \cup Names \cup {"Databases"}
  BY <1>1 DEF TreeTypeOK, IndexedInto
<1>5. PostsNoIndex
  BY DEF PostsNoIndex, IndexedInto
<1> QED
  BY <1>1, <1>3, <1>4, <1>5, StayTyped

\* The item is the one whose collection items asked: only their collection is revised.
LEMMA IndexedContents ==
  ASSUME NEW a, Handled(a), IndexedInto(a), ItemsStay
  PROVE  ContentsKept'
<1> SUFFICES ASSUME NEW o \in objects', IsShown(o)' PROVE ItemKept(dbItems[o], o)'
  BY DEF ContentsKept
<1>1. /\ TreeTyped /\ TreeTypeOK /\ Delivered(a) /\ ContentsKept /\ ObjectsKept /\ ~Dangles(a)
      /\ part' = part /\ indexed' = indexed
      /\ 1 \in DOMAIN answers /\ a = answers[1] /\ AnswerOfTree(a)
  BY DeliveredQueue DEF Handled, TreeTyped, Delivered
<1>2. /\ objects' = objects /\ DOMAIN dbItems' = DOMAIN dbItems /\ PostsNoIndex
      /\ a.op \in IndexOps /\ a.n \in Names /\ a.from # Server /\ ~ListsCollections(a)
      /\ toldOf' = (IF ~a.ok THEN toldOf \cup {a.n} ELSE IF a.op = "indexes" THEN toldOf \ {a.n} ELSE toldOf)
  BY DEF IndexedInto, PostsNoIndex, ListsCollections, IndexOps
<1>3. o \in DOMAIN dbItems /\ objects = {o} /\ IsShown(o)
  BY <1>2 DEF IsShown, ItemsStay, StayIn
<1>4. o \in SenderOf(a)
  <2>1. SenderOf(a) # {}
    BY <1>1, <1>2 DEF Dangles, IsAlive
  <2>2. SenderOf(a) \subseteq {o}
    BY <1>1, <1>3 DEF SenderOf, ObjectsKept
  <2> QED
    BY <2>1, <2>2
<1>5. PICK it, jt, b, n : it = dbItems[o] /\ jt = dbItems'[o] /\ b = it.batch /\ n = a.n
  OBVIOUS
<1>6. it \in Item /\ ItemKept(it, o) /\ a.from = b /\ n \in Names
  BY <1>1, <1>2, <1>3, <1>4, <1>5 DEF TreeTypeOK, ContentsKept, SenderOf
<1>7. IndexWrites(a, it, jt) /\ OnlyIndex(it, jt, n)
  BY <1>3, <1>4, <1>5 DEF IndexedInto, IndexWrites
<1>8. /\ jt.label = it.label /\ jt.shown = it.shown /\ jt.batch = b
      /\ \A m \in Names \ {n} : jt.ilabel[m] = it.ilabel[m] /\ (m \in jt.ishown <=> m \in it.ishown)
  BY <1>5, <1>7 DEF OnlyIndex
<1>9. \A x : HeadRevises(a, x, b) => x = n /\ ~(a.ok /\ a.op \in {"addIndex", "editIndex"})
  BY <1>2, <1>5, <1>6 DEF HeadRevises, Revises, RenewingOps, DatabaseOps, NameOps, IndexOps
<1>10. \A x : /\ Revised(x, b, 1) => Revised(x, b, 0)'
              /\ Revised(x, b, 0) => HeadRevises(a, x, b) \/ Revised(x, b, 0)'
  BY <1>1, <1>2, RestRevised
<1>11. /\ \A f \in Folders : FolderListed(jt, o, f)'
       /\ \A m \in Names : IndexListed(jt, m)'
  BY <1>1, <1>2, <1>5, <1>6, <1>8, ListedStays
<1>12. n \notin Folders /\ n # "Databases" /\ "Collections" \in Folders
  BY <1>6, NamesAssumption DEF Folders
<1>13. \A x : x # n => (x \in toldOf' <=> x \in toldOf)
  BY <1>2, <1>5
<1>14. ASSUME NEW f \in Folders PROVE FolderShown(jt, f)'
  <2>1. ASSUME jt.label[f] = "counted", f \notin toldOf', "Databases" \notin toldOf'
        PROVE  jt.shown[f] = part'[f] \/ Revised(f, b, 0)'
    <3>1. f \notin toldOf /\ "Databases" \notin toldOf /\ f # n
      BY <1>12, <1>13, <2>1
    <3>2. it.shown[f] = part[f] \/ Revised(f, b, 0)
      BY <1>5, <1>6, <1>8, <2>1, <3>1 DEF ItemKept, FolderShown
    <3> QED
      BY <1>1, <1>8, <1>9, <1>10, <3>1, <3>2
  <2> QED
    BY <1>8, <2>1 DEF FolderShown
<1>15. ASSUME NEW m \in Names PROVE IndexShown(jt, m)'
  <2>1. ASSUME m \in jt.shown["Collections"], jt.ilabel[m] = "counted",
               m \notin toldOf', "Collections" \notin toldOf', "Databases" \notin toldOf'
        PROVE  (m \in jt.ishown <=> m \in indexed') \/ Revised(m, b, 0)'
    <3>1. "Collections" \notin toldOf /\ "Databases" \notin toldOf
      BY <1>12, <1>13, <2>1
    <3>2. IndexShown(it, m) /\ IndexListed(it, m)
      BY <1>6 DEF ItemKept
    <3>3. CASE m # n
      <4>1. (m \in it.ishown <=> m \in indexed) \/ Revised(m, b, 0)
        BY <1>5, <1>8, <1>13, <2>1, <3>1, <3>2, <3>3 DEF IndexShown
      <4> QED
        BY <1>1, <1>8, <1>9, <1>10, <3>3, <4>1
    <3>4. CASE m = n /\ a.op \in {"indexes", "dropIndex"}
      <4>1. a.ok
        BY <1>2, <1>5, <2>1, <3>4
      <4>2. ListsIndexes(a, b, m)
        BY <1>5, <1>6, <3>4, <4>1 DEF ListsIndexes
      <4>3. \/ m \in indexed <=> (a.op = "indexes" /\ a.data)
            \/ Revised(m, b, 1)
        BY <1>1, <1>5, <3>2, <4>2 DEF IndexListed
      <4>4. m \in jt.ishown <=> (a.op = "indexes" /\ a.data)
        BY <1>5, <1>7, <3>4, <4>1 DEF IndexWrites
      <4> QED
        BY <1>1, <1>10, <4>3, <4>4
    <3>5. CASE m = n /\ a.op \in {"addIndex", "editIndex"}
      <4>1. a.ok
        BY <1>2, <1>5, <2>1, <3>5
      <4>2. jt = it /\ toldOf' = toldOf
        BY <1>2, <1>7, <3>5, <4>1 DEF IndexWrites
      <4>3. (m \in it.ishown <=> m \in indexed) \/ Revised(m, b, 0)
        BY <1>5, <2>1, <3>1, <3>2, <4>2 DEF IndexShown
      <4> QED
        BY <1>1, <1>9, <1>10, <3>5, <4>1, <4>2, <4>3
    <3> QED
      BY <1>2, <3>3, <3>4, <3>5 DEF IndexOps
  <2> QED
    BY <1>8, <2>1 DEF IndexShown
<1>16. ItemKept(jt, o)'
  BY <1>11, <1>14, <1>15 DEF ItemKept
<1> QED
  BY <1>5, <1>16

LEMMA IndexAnsweredKeeps ==
  ASSUME NEW a, Handled(a), a.op \in IndexOps, IndexAnswered(a)
  PROVE  Kept'
<1>1. IndexedInto(a)
  BY IndexedIsInto
<1>2. ItemsStay /\ TreeTyped'
  BY <1>1, IndexedStay
<1>3. TreeTyped /\ Delivered(a) /\ OfflineKept /\ CreatedKept
  BY DEF Handled
<1>4. /\ objects' = objects /\ DOMAIN dbItems' = DOMAIN dbItems /\ PostsNoIndex
      /\ label' = label /\ wasLost' = wasLost
      /\ a.op \notin {"connect", "databases", "createDb"}
  BY <1>1 DEF IndexedInto, PostsNoIndex, IndexOps
<1>5. OfflineKept'
  <2>1. \A o \in DOMAIN dbItems : dbItems'[o].gutted = dbItems[o].gutted
    BY <1>2 DEF ItemsStay, StayIn
  <2> QED
    BY <1>3, <1>4, <2>1, OfflineStays
<1>6. CreatedKept'
  BY <1>3, <1>4, CreatedStays
<1>7. ContentsKept'
  BY <1>1, <1>2, IndexedContents
<1> QED
  BY <1>2, <1>5, <1>6, <1>7 DEF Kept

-----------------------------------------------------------------------------
\* An answer is handled, or met a deleted object.
LEMMA DeliverKeepsInv ==
  ASSUME TreeInv, Deliver
  PROVE  TreeInv'
<1>1. PICK a : a = Head(answers)
  OBVIOUS
<1>2. TreeTyped /\ TreeTypeOK /\ ~dangling /\ OfflineKept /\ CreatedKept /\ ContentsKept
  BY DEF TreeInv, TreeTyped, Deliver
<1>3. Delivered(a)
  BY <1>1 DEF Deliver, Delivered, server
<1>4. CASE Dangles(a)
  <2>1. dangling' = TRUE /\ UNCHANGED <<requests, objects, dbItems, label, setLabel, wasLost, fresh, toldOf>>
    BY <1>1, <1>4 DEF Deliver, tree
  <2>2. PostsNoIndex /\ ItemsStay
    BY <1>2, <2>1, ItemsSame DEF PostsNoIndex
  <2>3. /\ label' \in Labels \cup {"offline"} /\ setLabel' \in Labels
        /\ wasLost' \in BOOLEAN /\ (wasLost' => kind = "set") /\ fresh' = fresh
        /\ toldOf' \subseteq Folders \cup Names \cup {"Databases"} /\ dangling' \in BOOLEAN
    BY <1>2, <2>1 DEF TreeTypeOK
  <2>4. TreeTyped'
    BY <1>2, <1>3, <2>2, <2>3, StayTyped
  <2> QED
    BY <2>1, <2>4 DEF TreeInv
<1>5. CASE ~Dangles(a)
  <2>1. Handle(a) /\ dangling' = dangling
    BY <1>1, <1>5 DEF Deliver
  <2>2. Handled(a)
    BY <1>2, <1>3, <1>5, <2>1 DEF Handled
  <2>3. a.op \in TreeOps
    BY <2>2, KindOfAnswer DEF Answer
  <2>4. Kept'
    <3>1. CASE a.op = "databases"
      <4>1. DatabasesListed(a)
        BY <2>1, <3>1 DEF Handle, DatabaseOps, NameOps
      <4> QED
        BY <2>2, <3>1, <4>1, DatabasesListedKeeps
    <3>2. CASE a.op = "connect"
      BY <2>1, <2>2, <3>2, ReconnectedKeeps DEF Handle, DatabaseOps, NameOps
    <3>3. CASE a.op = "folder"
      BY <2>1, <2>2, <3>3, SetFolderRefreshedKeeps DEF Handle, DatabaseOps, NameOps
    <3>4. CASE a.op \in DatabaseOps
      <4>1. DatabaseChanged(a)
        BY <2>1, <3>4 DEF Handle, DatabaseOps, NameOps
      <4> QED
        BY <2>2, <3>4, <4>1, DatabaseChangedKeeps
    <3>5. CASE a.op = "load"
      <4>1. FolderLoaded(a)
        BY <2>1, <3>5 DEF Handle, DatabaseOps, NameOps
      <4> QED
        BY <2>2, <3>5, <4>1, LoadedKeeps, LoadFailedKeeps
    <3>6. CASE a.op \in NameOps
      <4>1. FolderChanged(a)
        BY <2>1, <3>6 DEF Handle, DatabaseOps, NameOps
      <4> QED
        BY <2>2, <3>6, <4>1, FolderChangedKeeps
    <3>7. CASE a.op \in IndexOps
      <4>1. IndexAnswered(a)
        BY <2>1, <3>7 DEF Handle, DatabaseOps, NameOps, IndexOps
      <4> QED
        BY <2>2, <3>7, <4>1, IndexAnsweredKeeps
    <3> QED
      BY <2>3, <3>1, <3>2, <3>3, <3>4, <3>5, <3>6, <3>7 DEF TreeOps, SetOps
  <2> QED
    BY <2>4 DEF Kept, TreeInv
<1> QED
  BY <1>4, <1>5

\* The explorer as it is opened.
LEMMA OpenedFacts ==
  ASSUME part \in [Folders -> SUBSET Names], indexed \subseteq part["Collections"]
  PROVE  /\ Opened \in Item /\ Opened.gutted = FALSE /\ Opened.batch = 2
         /\ Opened.shown = part /\ Opened.ishown = indexed
<1>1. PICK it \in Item : it = NewItem
  BY NewItemFacts
<1>2. PICK l, m : l = [f \in Folders |-> "counted"] /\ m = [n \in Names |-> "counted"]
  OBVIOUS
<1>3. l \in [Folders -> Labels] /\ m \in [Names -> Labels]
  BY <1>2 DEF Labels
<1>4. Opened = [it EXCEPT !.label = l, !.shown = part, !.batch = 2, !.ilabel = m, !.ishown = indexed]
  BY <1>1, <1>2 DEF Opened
<1>5. /\ Opened.label = l /\ Opened.shown = part /\ Opened.batch = 2
      /\ Opened.ilabel = m /\ Opened.ishown = indexed /\ Opened.gutted = it.gutted
  BY <1>4 DEF Item
<1>6. Opened = [label |-> Opened.label, shown |-> Opened.shown, batch |-> Opened.batch,
                ilabel |-> Opened.ilabel, ishown |-> Opened.ishown, gutted |-> Opened.gutted]
  BY <1>4 DEF Item
<1>7. indexed \subseteq Names
  BY DEF Folders
<1>8. Opened \in Item
  BY <1>3, <1>5, <1>6, <1>7, ItemFields DEF Item
<1> QED
  BY <1>1, <1>5, <1>8, NewItemFacts

LEMMA TreeInitInv == TreeInit => TreeInv
<1> SUFFICES ASSUME TreeInit PROVE TreeInv
  OBVIOUS
<1>1. /\ kind \in {"single", "set"} /\ created = FALSE /\ requests = <<>> /\ answers = <<>>
      /\ objects = (IF Exists THEN {1} ELSE {})
      /\ setLabel = "plain" /\ wasLost = FALSE /\ fresh = 3 /\ asks = 0 /\ toldOf = {}
      /\ dangling = FALSE /\ made = FALSE
  BY DEF TreeInit
<1>2. part \in [Folders -> SUBSET Names] /\ indexed \subseteq part["Collections"] /\ indexed \subseteq Names
  <2>1. \E n \in Names : part \in {[f \in Folders |-> {}], [f \in Folders |-> IF f = "Collections" THEN {n} ELSE {}]}
    BY DEF TreeInit
  <2>2. indexed \subseteq part["Collections"]
    BY DEF TreeInit
  <2>3. part \in [Folders -> SUBSET Names]
    BY <2>1
  <2> QED
    BY <2>2, <2>3 DEF Folders
<1>3. /\ objects \subseteq {1} /\ IsFiniteSet(objects)
  BY <1>1, FS_EmptySet, FS_Singleton
<1>4. /\ \/ /\ dbItems = (IF kind = "set" THEN [o \in objects |-> NewItem] ELSE <<>>)
            /\ label \in {"counted", "plain"}
         \/ dbItems = [o \in objects |-> Opened] /\ label = "counted"
  BY DEF TreeInit
<1>5. PICK it, s : /\ it \in {NewItem, Opened} /\ s \subseteq objects
                   /\ dbItems = [o \in s |-> it]
  <2>1. CASE dbItems = (IF kind = "set" THEN [o \in objects |-> NewItem] ELSE <<>>)
    <3>1. CASE kind = "set"
      BY <2>1, <3>1
    <3>2. CASE kind # "set"
      <4>1. PICK s, it : s = {} /\ it = NewItem
        OBVIOUS
      <4>2. dbItems = [o \in s |-> it]
        BY <2>1, <3>2, <4>1
      <4> QED
        BY <4>1, <4>2
    <3> QED
      BY <3>1, <3>2
  <2>2. CASE dbItems = [o \in objects |-> Opened]
    BY <2>2
  <2> QED
    BY <1>4, <2>1, <2>2
<1>6. DOMAIN dbItems = s /\ \A o \in s : dbItems[o] = it /\ o = 1
  BY <1>3, <1>5
<1>7. /\ it \in Item /\ ~it.gutted /\ it.batch < 3
      /\ it.ishown \subseteq it.shown["Collections"] /\ (it.shown["Collections"] # {} => it.batch # 0)
      /\ \A f \in Folders : it.shown[f] = part[f] \/ it.label[f] = "plain"
      /\ \A n \in Names : it.ishown = indexed \/ it.ilabel[n] = "plain"
  <2>1. CASE it = NewItem
    <3>1. it.gutted = FALSE /\ it.batch = 0 /\ it.ishown = {} /\ it \in Item
      BY <2>1, NewItemFacts
    <3>2. \A f \in Folders : it.shown[f] = {} /\ it.label[f] = "plain"
      BY <2>1, NewItemFacts
    <3>3. it.shown["Collections"] = {}
      BY <3>2 DEF Folders
    <3>4. \A n \in Names : it.ilabel[n] = "plain"
      BY <2>1, NewItemFacts
    <3> QED
      BY <3>1, <3>2, <3>3, <3>4
  <2>2. CASE it = Opened
    <3>1. it.gutted = FALSE /\ it.batch = 2 /\ it \in Item /\ it.shown = part /\ it.ishown = indexed
      BY <1>2, <2>2, OpenedFacts
    <3> QED
      BY <1>2, <3>1
  <2> QED
    BY <1>5, <2>1, <2>2
<1>8. requests \in Seq(TreeAsk) /\ answers \in Seq(Answer) /\ DOMAIN requests = {} /\ DOMAIN answers = {} /\ Len(answers) = 0
  BY <1>1
<1>9. TreeTypeOK
  <2>1. dbItems \in [DOMAIN dbItems -> Item]
    BY <1>5, <1>6, <1>7
  <2>2. objects \subseteq Nat \ {Server} /\ fresh \in Nat \ {Server} /\ asks \in 0..MaxAsks
    BY <1>1, <1>3, AsksAssumption DEF Server
  <2>3. label \in Labels \cup {"offline"} /\ setLabel \in Labels
    BY <1>1, <1>4 DEF Labels
  <2> QED
    BY <1>1, <1>2, <1>8, <2>1, <2>2, <2>3 DEF TreeTypeOK
<1>10. AsksKept /\ AnswersKept
  BY <1>8 DEF AsksKept, AnswersKept
<1>11. ObjectsKept
  BY <1>1, <1>3, <1>5, <1>6, <1>7 DEF ObjectsKept
<1>12. IndexesKept
  <2>1. \A o \in DOMAIN dbItems : IndexesAreOfShown(dbItems[o])
    BY <1>6, <1>7, <1>8 DEF IndexesAreOfShown
  <2> QED
    BY <1>6, <2>1 DEF IndexesKept
<1>13. OfflineKept
  BY <1>1, <1>4, <1>6, <1>7 DEF OfflineKept
<1>14. CreatedKept
  BY <1>1 DEF CreatedKept
<1>15. ContentsKept
  <2>1. ASSUME NEW o \in s PROVE ItemKept(it, o)
    <3>1. \A f \in Folders : FolderShown(it, f) /\ FolderListed(it, o, f)
      BY <1>7, <1>8 DEF FolderShown, FolderListed
    <3>2. \A n \in Names : IndexShown(it, n) /\ IndexListed(it, n)
      BY <1>7, <1>8 DEF IndexShown, IndexListed
    <3> QED
      BY <3>1, <3>2 DEF ItemKept
  <2> QED
    BY <1>6, <2>1 DEF ContentsKept, IsShown
<1> QED
  BY <1>9, <1>10, <1>11, <1>12, <1>13, <1>14, <1>15 DEF TreeInv, TreeTyped

LEMMA TreeSame == ASSUME TreeInv, UNCHANGED treeVars PROVE TreeInv'
<1>1. /\ UNCHANGED <<kind, part, indexed, created, made, requests, answers, asks, dangling>>
      /\ UNCHANGED <<objects, dbItems, label, setLabel, wasLost, fresh, toldOf>>
  BY DEF treeVars, server, tree
<1>2. TreeTyped => TreeTyped'
  BY <1>1 DEF TreeTyped, TreeTypeOK, AsksKept, AskOfTree, AnswersKept, AnswerOfTree, MessageOK, ObjectsKept,
              IndexesKept, IndexesAreOfShown
<1>3. /\ OfflineKept => OfflineKept'
      /\ CreatedKept => CreatedKept'
  BY <1>1 DEF OfflineKept, ConnectPends, CreatedKept, Exists, ListsHoldIt
<1>4. \A x, b, i : Revised(x, b, i) => Revised(x, b, i)'
  BY <1>1 DEF Revised, AskRevises, AnswerRevises, Revises, ListsCollections
<1>5. ContentsKept => ContentsKept'
  BY <1>1, <1>4 DEF ContentsKept, IsShown, ItemKept, FolderShown, FolderListed, IndexShown, IndexListed,
                    ListsFolder, ListsIndexes
<1> QED
  BY <1>1, <1>2, <1>3, <1>5 DEF TreeInv

LEMMA TreeNextInv ==
  ASSUME TreeInv, TreeNext
  PROVE  TreeInv'
<1>1. ASSUME ~dangling, \E r \in TreeAsk : Asked(r) PROVE TreeInv'
  BY <1>1, AskedKeepsInv
<1>2. CASE RefreshServer \/ RefreshSetFolder
  <2>1. ~dangling
    BY <1>2 DEF RefreshServer, RefreshSetFolder, MayAsk
  <2> QED
    BY <1>1, <1>2, <2>1, RefreshAsks
<1>3. CASE AskCreateDatabase
  <2>1. ~dangling
    BY <1>3 DEF AskCreateDatabase, MayAsk
  <2>2. CASE kind = "single"
    BY <1>1, <1>3, <2>1, <2>2, DatabaseAsks
  <2>3. CASE kind # "single"
    BY <1>3, <2>1, <2>3, CreateInSet
  <2> QED
    BY <2>2, <2>3
<1>4. ASSUME NEW o \in DOMAIN dbItems, AskDropDatabase(o) PROVE TreeInv'
  <2>1. ~dangling
    BY <1>4 DEF AskDropDatabase, MayAsk
  <2> QED
    BY <1>1, <1>4, <2>1, DatabaseAsks
<1>5. ASSUME NEW o \in DOMAIN dbItems, NEW f \in Folders, LoadFolder(o, f) PROVE TreeInv'
  <2>1. ~dangling
    BY <1>5 DEF LoadFolder, MayAsk
  <2> QED
    BY <1>1, <1>5, <2>1, LoadAsks
<1>6. ASSUME NEW o \in DOMAIN dbItems,
             \/ \E f \in Folders, n \in Names : Create(o, f, n)
             \/ \E f \in Folders, n, m \in Names, op \in NameOps : Change(o, op, f, n, m)
      PROVE  TreeInv'
  <2>1. ~dangling
    BY <1>6 DEF Create, Change, MayAsk
  <2> QED
    BY <1>1, <1>6, <2>1, NameAsks
<1>7. ASSUME NEW o \in DOMAIN dbItems, NEW n \in Names,
             ExpandIndexes(o, n) \/ \E op \in IndexOps \ {"indexes"} : ChangeIndex(o, op, n)
      PROVE  TreeInv'
  <2>1. ~dangling
    BY <1>7 DEF ExpandIndexes, ChangeIndex, MayAsk
  <2> QED
    BY <1>1, <1>7, <2>1, IndexAsks
<1> QED
  BY <1>2, <1>3, <1>4, <1>5, <1>6, <1>7, WorkKeepsInv, DeliverKeepsInv DEF TreeNext

\* With nothing under way nothing is revised.
LEMMA QuietFacts ==
  ASSUME TreeInv, Quiet
  PROVE  /\ TreeTyped /\ OfflineKept /\ CreatedKept /\ ContentsKept
         /\ ~ConnectPends /\ \A x, b : ~Revised(x, b, 0)
         /\ Len(answers) = 0
<1>1. DOMAIN requests = {} /\ DOMAIN answers = {} /\ Len(answers) = 0 /\ ~dangling
  BY DEF Quiet
<1> QED
  BY <1>1 DEF TreeInv, ConnectPends, Revised

LEMMA TreeInvIsSound == TreeInv => TreeIsSound
<1> SUFFICES ASSUME TreeInv PROVE TreeIsSound
  OBVIOUS
<1>1. TreeTyped /\ TreeTypeOK /\ ObjectsKept
  BY DEF TreeInv, TreeTyped
<1>2. OwnWritesAreShown
  <2> SUFFICES ASSUME Quiet, "Databases" \notin toldOf, Cardinality(objects) = 1,
                      NEW o \in DOMAIN dbItems, ~dbItems[o].gutted
               PROVE  /\ \A f \in Folders \ toldOf : dbItems[o].label[f] = "counted" => dbItems[o].shown[f] = part[f]
                      /\ \A n \in dbItems[o].shown["Collections"] \ toldOf :
                           "Collections" \notin toldOf /\ dbItems[o].ilabel[n] = "counted"
                             => (n \in dbItems[o].ishown <=> n \in indexed)
    BY DEF OwnWritesAreShown
  <2>1. o \in objects
    BY <1>1 DEF ObjectsKept
  <2>2. objects = {o}
    <3>1. IsFiniteSet(objects \ {o}) /\ Cardinality(objects \ {o}) = Cardinality(objects) - 1
      BY <1>1, <2>1, FS_RemoveElement DEF ObjectsKept
    <3>2. objects \ {o} = {}
      BY <3>1, FS_EmptySet
    <3> QED
      BY <2>1, <3>2
  <2>3. PICK it : it = dbItems[o]
    OBVIOUS
  <2>4. ItemKept(it, o) /\ it \in Item /\ \A x, b : ~Revised(x, b, 0)
    BY <1>1, <2>1, <2>2, <2>3, QuietFacts DEF ContentsKept, IsShown, TreeTypeOK
  <2>5. \A f \in Folders \ toldOf : it.label[f] = "counted" => it.shown[f] = part[f]
    BY <2>4 DEF ItemKept, FolderShown
  <2>6. it.shown["Collections"] \subseteq Names
    BY <2>4, ItemFields DEF Folders
  <2>7. \A n \in it.shown["Collections"] \ toldOf :
          "Collections" \notin toldOf /\ it.ilabel[n] = "counted" => (n \in it.ishown <=> n \in indexed)
    BY <2>4, <2>6 DEF ItemKept, IndexShown
  <2> QED
    BY <2>3, <2>5, <2>7
<1>3. CreatedIsListed
  <2> SUFFICES ASSUME Quiet, kind = "single", made, label = "counted" PROVE objects # {}
    BY DEF CreatedIsListed
  <2>1. CreatedKept /\ Len(answers) = 0
    BY QuietFacts
  <2>2. PICK k \in 0..Len(answers) : ListsHoldIt(k)
    BY <2>1 DEF CreatedKept
  <2>3. k = 0
    BY <2>1, <2>2
  <2> QED
    BY <2>2, <2>3 DEF ListsHoldIt
<1>4. ItemsHaveObjects
  BY <1>1 DEF ItemsHaveObjects, ObjectsKept
<1>5. OfflineIsShown
  <2> SUFFICES ASSUME Quiet
               PROVE  /\ wasLost <=> (label = "offline")
                      /\ \A o \in DOMAIN dbItems : wasLost <=> dbItems[o].gutted
    BY DEF OfflineIsShown
  <2>1. OfflineKept /\ ~ConnectPends
    BY QuietFacts
  <2>2. wasLost <=> (label = "offline")
    BY <2>1 DEF OfflineKept
  <2>3. \A o \in DOMAIN dbItems : wasLost <=> dbItems[o].gutted
    BY <2>1 DEF OfflineKept
  <2> QED
    BY <2>2, <2>3
<1> QED
  BY <1>1, <1>2, <1>3, <1>4, <1>5 DEF TreeIsSound

\* MongoServer.cpp:158-330, MongoDatabase.cpp:21-340 and the explorer's items: however the
\* answers of the worker come in between the user's operations, the tree shows, when nothing
\* is under way, what these operations made of the server, unless the user was told of a
\* failure; a database created here is listed; a set is shown offline exactly while its
\* primary is lost; and no item outlives its object.
THEOREM TreeIsKept == TreeSpec => []TreeIsSound
<1>1. TreeInv /\ [TreeNext]_treeVars => TreeInv'
  BY TreeNextInv, TreeSame
<1> QED
  BY <1>1, TreeInitInv, TreeInvIsSound, PTL DEF TreeSpec
=============================================================================
