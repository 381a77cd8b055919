----------------------------- MODULE RemoteProofs ------------------------------
(***************************************************************************)
(* What goes to a server: the tunnel, and the operations of a worker.      *)
(*                                                                         *)
(* TunnelKeepsData of SshTunnel, for every number of clients, messages,    *)
(* packets on the wire and errors: an accepted client is served by exactly *)
(* one channel until the tunnel closes it, and while its connection lives  *)
(* what the remote server sent to it is in libssh2 or on the wire.  The    *)
(* property is about a moment; the invariant has to say how the pass of    *)
(* the select loop got there: what a socket that is ready stands for,      *)
(* which channel the loop over the channels is at, who waits in the        *)
(* backlog, and that nothing is pending where there is no channel.         *)
(*                                                                         *)
(* OpsAreSound of DriverOps, for every set of documents and every number   *)
(* of operations and of writes of other clients: the invariant says, for   *)
(* each kind of operation, which of its calls are still to be made and     *)
(* what those that were made have left on the server.                      *)
(***************************************************************************)
EXTENDS SshTunnel, DriverOps, SequenceLemmas

Packet == {Noise} \cup {Data(c) : c \in Clients} \cup {Eof(c) : c \in Clients}

\* The sequences that TypeOK only describes by their elements.
QueuesTyped ==
  /\ wire \in Seq(Packet)
  /\ backlog \in Seq(Clients) /\ channels \in Seq(Clients)

\* Until the tunnel ends, the accepted clients are those of the channels, and
\* the loop watches them.
Channelled ==
  ~Ended => \A c \in Clients :
              /\ conn[c] = "accepted" <=> c \in ToSet(channels)
              /\ c \in ToSet(channels) => c \in master

\* Who waits in the backlog was never accepted, and who never came has no connection.
NewcomersWait ==
  \A c \in Clients :
    /\ c \in ToSet(backlog) => conn[c] = "none" /\ peer[c] # "out"
    /\ peer[c] = "out" => conn[c] = "none"

\* A pass looks at sockets that have something for it.
ReadyIsServed ==
  /\ Local \in ready => backlog # <<>>
  /\ \A c \in Clients : c \in ready => c \in ToSet(channels)

\* Where the loop is, and that a pass starts below the limit of the errors.
PassCounts ==
  /\ pc = "channels" => loop.s \in 1..Len(channels)
  /\ pc = "channels" \/ (pc = "pass" /\ Ssh \in ready) => errors < MaxErrors
  /\ pc \in {"new", "normal", "error"} => channels = <<>>

\* Only what the server sent is pending, and nothing where there is no channel.
PendingIsOwed ==
  \A c \in Clients :
    /\ Pending(c) <= owed[c]
    /\ c \notin ToSet(channels) => owed[c] = 0

\* The inductive invariant.
Tunnelled ==
  /\ TunnelKeepsData
  /\ QueuesTyped /\ Channelled /\ NewcomersWait
  /\ ReadyIsServed /\ PassCounts /\ PendingIsOwed
-----------------------------------------------------------------------------
LEMMA PacketsDiffer ==
  /\ Noise \in Packet
  /\ \A c \in Clients : Data(c) \in Packet /\ Eof(c) \in Packet /\ Data(c) # Noise
  /\ \A c, d \in Clients : Data(c) # Eof(d) /\ (Data(c) = Data(d) => c = d)
BY DEF Packet, Noise, Data, Eof

\* A typed state in the form the proofs use.
LEMMA Facts ==
  ASSUME TypeOK, QueuesTyped
  PROVE  /\ up \in [Clients -> 0..MaxData] /\ owed \in [Clients -> 0..MaxData]
         /\ unread \in [Clients -> 0..MaxData]
         /\ MaxData \in Nat /\ MaxWire \in Nat /\ MaxErrors \in Nat \ {0}
         /\ Len(wire) \in Nat
         /\ IsInjective(channels) /\ DOMAIN channels = 1..Len(channels)
         /\ Len(channels) \in Nat /\ Len(channels) <= Cardinality(Clients)
         /\ \A i \in 1..Len(channels) : channels[i] \in Clients /\ channels[i] \in ToSet(channels)
         /\ ToSet(channels) \subseteq Clients
         /\ Cardinality(Clients) \in Nat
         /\ IsInjective(backlog) /\ ToSet(backlog) \subseteq Clients
         /\ \A c \in Clients : OnWire(c) \in Nat /\ Pending(c) \in Nat
         /\ \A c \in Clients : Pending(c) = unread[c] + Occurs(wire, Data(c))
<1>1. /\ up \in [Clients -> 0..MaxData] /\ owed \in [Clients -> 0..MaxData]
      /\ unread \in [Clients -> 0..MaxData]
      /\ IsInjective(channels) /\ IsInjective(backlog)
      /\ ToSet(channels) \subseteq Clients /\ ToSet(backlog) \subseteq Clients
  BY DEF TypeOK
<1>2. channels \in Seq(Clients) /\ wire \in Seq(Packet)
  BY DEF QueuesTyped
<1>3. /\ DOMAIN channels = 1..Len(channels) /\ Len(channels) \in Nat /\ Len(wire) \in Nat
      /\ \A i \in 1..Len(channels) : channels[i] \in Clients
  BY <1>2, LenProperties, ElementOfSeq
<1>4. \A i \in 1..Len(channels) : channels[i] \in ToSet(channels)
  BY <1>3 DEF ToSet
<1>5. Len(channels) <= Cardinality(Clients) /\ Cardinality(Clients) \in Nat
  BY <1>1, <1>2, OnceFits, ClientsAssumption
<1>6. \A c \in Clients : OnWire(c) = Occurs(wire, Data(c)) /\ Occurs(wire, Data(c)) \in Nat
  BY <1>2, OccursType DEF OnWire, Occurs
<1>7. MaxData \in Nat /\ MaxWire \in Nat /\ MaxErrors \in Nat \ {0}
  BY BoundsAssumption
<1>8. \A c \in Clients : Pending(c) = unread[c] + Occurs(wire, Data(c)) /\ Pending(c) \in Nat
  BY <1>1, <1>6, <1>7 DEF Pending
<1> QED
  BY <1>1, <1>3, <1>4, <1>5, <1>6, <1>7, <1>8

LEMMA InitTunnelled == Init => Tunnelled
<1> SUFFICES ASSUME Init PROVE Tunnelled
  OBVIOUS
<1>1. /\ backlog = <<>> /\ channels = <<>> /\ wire = <<>> /\ ready = {} /\ pc = "new"
      /\ \A c \in Clients : /\ conn[c] = "none" /\ peer[c] = "out"
                            /\ owed[c] = 0 /\ unread[c] = 0
  BY DEF Init, Zero
<1>2. QueuesTyped
  BY <1>1 DEF QueuesTyped
<1>3. ToSet(<<>>) = {} /\ IsInjective(<<>>) /\ Len(<<>>) = 0
  BY DEF ToSet, IsInjective
<1>4. TypeOK
  <2>1. Zero \in [Clients -> 0..MaxData]
    BY BoundsAssumption DEF Zero
  <2>2. Cardinality(Clients) \in Nat
    BY ClientsAssumption, FS_CardinalityType
  <2> QED
    BY <1>3, <2>1, <2>2, BoundsAssumption DEF Init, TypeOK, NoLoop
<1>5. \A c \in Clients : Pending(c) = 0
  BY <1>1, <1>4, <1>2, Facts, OccursNone
<1>6. AcceptedAreServed /\ NothingLost
  BY <1>1, <1>3 DEF AcceptedAreServed, NothingLost, Ended
<1>7. Channelled /\ NewcomersWait /\ ReadyIsServed /\ PassCounts /\ PendingIsOwed
  BY <1>1, <1>3, <1>5
     DEF Channelled, NewcomersWait, ReadyIsServed, PassCounts, PendingIsOwed, Ended
<1> QED
  BY <1>2, <1>4, <1>6, <1>7 DEF Tunnelled, TunnelKeepsData
-----------------------------------------------------------------------------
\* The sockets of the clients of the channels are closed: nobody is accepted.
LEMMA CleanedFacts ==
  ASSUME Tunnelled, ~Ended
  PROVE  /\ Cleaned \in [Clients -> {"none", "accepted", "closed"}]
         /\ \A c \in Clients :
              /\ Cleaned[c] # "accepted"
              /\ c \in ToSet(backlog) => Cleaned[c] = "none"
              /\ peer[c] = "out" => Cleaned[c] = "none"
<1>1. conn \in [Clients -> {"none", "accepted", "closed"}]
  BY DEF Tunnelled, TunnelKeepsData, TypeOK
<1> QED
  BY <1>1 DEF Tunnelled, Channelled, NewcomersWait, Cleaned

\* A connection that is made anew has nothing of the old one.
LEMMA EnterSafe ==
  ASSUME Tunnelled, Enter,
         conn' \in [Clients -> {"none", "accepted", "closed"}],
         \A c \in Clients :
           /\ conn'[c] # "accepted"
           /\ c \in ToSet(backlog) => conn'[c] = "none"
           /\ peer[c] = "out" => conn'[c] = "none"
  PROVE  Tunnelled'
<1>1. /\ pc' = "select" /\ link' = "up" /\ master' = {Local, Ssh} /\ ready' = {}
      /\ errors' = 0 /\ loop' = NoLoop /\ UNCHANGED <<backlog, peer, up>>
      /\ channels' = <<>> /\ wire' = <<>> /\ unread' = Zero /\ owed' = Zero
      /\ eof' = [c \in Clients |-> FALSE]
  BY DEF Enter, NoChannels
<1>2. TypeOK /\ QueuesTyped /\ NewcomersWait
  BY DEF Tunnelled, TunnelKeepsData
<1>3. ToSet(<<>>) = {} /\ IsInjective(<<>>) /\ Len(<<>>) = 0
  BY DEF ToSet, IsInjective
<1>4. QueuesTyped'
  BY <1>1, <1>2 DEF QueuesTyped
<1>5. TypeOK'
  <2>1. Zero \in [Clients -> 0..MaxData]
    BY BoundsAssumption DEF Zero
  <2>2. Cardinality(Clients) \in Nat
    BY ClientsAssumption, FS_CardinalityType
  <2> QED
    BY <1>1, <1>2, <1>3, <2>1, <2>2, BoundsAssumption DEF TypeOK, NoLoop
<1>6. \A c \in Clients : Pending(c)' = 0 /\ owed'[c] = 0
  <2>1. \A c \in Clients : OnWire(c)' = 0
    BY <1>1, OccursNone DEF OnWire, Occurs
  <2> QED
    BY <1>1, <2>1 DEF Pending, Zero
<1>7. Channelled' /\ AcceptedAreServed' /\ NothingLost'
  BY <1>1, <1>3 DEF Channelled, AcceptedAreServed, NothingLost, Ended
<1>8. NewcomersWait' /\ ReadyIsServed' /\ PassCounts' /\ PendingIsOwed'
  BY <1>1, <1>2, <1>3, <1>6 DEF NewcomersWait, ReadyIsServed, PassCounts, PendingIsOwed
<1> QED
  BY <1>4, <1>5, <1>7, <1>8 DEF Tunnelled, TunnelKeepsData

\* The end of the worker: at most the one socket that was just accepted is left.
LEMMA FinishSafe ==
  ASSUME Tunnelled, NEW how \in {"normal", "error"}, Finish(how),
         conn' \in [Clients -> {"none", "accepted", "closed"}],
         Cardinality({c \in Clients : conn'[c] = "accepted"}) <= 1,
         how = "normal" => \A c \in Clients : conn'[c] # "accepted",
         \A c \in Clients : peer[c] = "out" => conn'[c] = "none"
  PROVE  Tunnelled'
<1>1. /\ pc' = how /\ link' = "broken" /\ master' = {} /\ ready' = {}
      /\ errors' = 0 /\ loop' = NoLoop /\ UNCHANGED <<peer, up>> /\ backlog' = <<>>
      /\ channels' = <<>> /\ wire' = <<>> /\ unread' = Zero /\ owed' = Zero
      /\ eof' = [c \in Clients |-> FALSE]
  BY DEF Finish, NoChannels
<1>2. TypeOK /\ QueuesTyped /\ NewcomersWait
  BY DEF Tunnelled, TunnelKeepsData
<1>3. ToSet(<<>>) = {} /\ IsInjective(<<>>) /\ Len(<<>>) = 0
  BY DEF ToSet, IsInjective
<1>4. QueuesTyped'
  BY <1>1, <1>2 DEF QueuesTyped
<1>5. TypeOK'
  <2>1. Zero \in [Clients -> 0..MaxData]
    BY BoundsAssumption DEF Zero
  <2>2. Cardinality(Clients) \in Nat
    BY ClientsAssumption, FS_CardinalityType
  <2> QED
    BY <1>1, <1>2, <1>3, <2>1, <2>2, BoundsAssumption DEF TypeOK, NoLoop
<1>6. \A c \in Clients : Pending(c)' = 0 /\ owed'[c] = 0
  <2>1. \A c \in Clients : OnWire(c)' = 0
    BY <1>1, OccursNone DEF OnWire, Occurs
  <2> QED
    BY <1>1, <2>1 DEF Pending, Zero
<1>7. Channelled' /\ NothingLost'
  BY <1>1, <1>3 DEF Channelled, NothingLost, Ended
<1>8. AcceptedAreServed'
  BY <1>1 DEF AcceptedAreServed, Ended
<1>9. NewcomersWait' /\ ReadyIsServed' /\ PassCounts' /\ PendingIsOwed'
  BY <1>1, <1>2, <1>3, <1>6 DEF NewcomersWait, ReadyIsServed, PassCounts, PendingIsOwed
<1> QED
  BY <1>4, <1>5, <1>7, <1>8, <1>9 DEF Tunnelled, TunnelKeepsData
-----------------------------------------------------------------------------
\* The clients.
LEMMA ConnectSafe ==
  ASSUME Tunnelled, ~Ended, NEW c \in Clients, Connect(c)
  PROVE  Tunnelled'
<1>1. /\ peer[c] = "out" /\ backlog' = Append(backlog, c)
      /\ peer' = [peer EXCEPT ![c] = "here"]
      /\ UNCHANGED <<pc, conn, up, link, wire, unread, eof, owed,
                     channels, master, ready, errors, loop>>
  BY DEF Connect, ssh, select
<1>2. /\ TypeOK /\ QueuesTyped /\ AcceptedAreServed /\ NothingLost /\ Channelled
      /\ NewcomersWait /\ ReadyIsServed /\ PassCounts /\ PendingIsOwed
  BY DEF Tunnelled, TunnelKeepsData
<1>3. c \notin ToSet(backlog) /\ conn[c] = "none" /\ c \notin ToSet(channels)
  BY <1>1, <1>2 DEF NewcomersWait, Channelled
<1>4. /\ backlog' \in Seq(Clients) /\ IsInjective(backlog') /\ backlog' # <<>>
      /\ ToSet(backlog') = ToSet(backlog) \cup {c}
  <2>1. backlog \in Seq(Clients) /\ IsInjective(backlog)
    BY <1>2, Facts DEF QueuesTyped
  <2> QED
    BY <1>1, <1>3, <2>1, OnceAppend, ToSetAppend, AppendProperties
<1>5. QueuesTyped'
  BY <1>1, <1>2, <1>4 DEF QueuesTyped
<1>6. TypeOK'
  BY <1>1, <1>2, <1>4 DEF TypeOK
<1>7. peer'[c] = "here" /\ \A d \in Clients : d # c => peer'[d] = peer[d]
  BY <1>1, <1>2 DEF TypeOK
<1>8. NewcomersWait'
  BY <1>1, <1>2, <1>3, <1>4, <1>7 DEF NewcomersWait
<1>9. NothingLost'
  <2>1. \A d \in ToSet(channels) : d \in Clients /\ d # c
    BY <1>2, <1>3, Facts
  <2> QED
    BY <1>1, <1>2, <1>7, <2>1 DEF NothingLost, Pending, OnWire
<1>10. /\ AcceptedAreServed' /\ Channelled' /\ ReadyIsServed' /\ PassCounts' /\ PendingIsOwed'
  BY <1>1, <1>2, <1>4
     DEF AcceptedAreServed, Channelled, ReadyIsServed, PassCounts, PendingIsOwed,
         Ended, Pending, OnWire
<1> QED
  BY <1>5, <1>6, <1>8, <1>9, <1>10 DEF Tunnelled, TunnelKeepsData

LEMMA ClientSafe ==
  ASSUME Tunnelled, ~Ended, NEW c \in Clients, ClientSends(c) \/ ClientLeaves(c)
  PROVE  Tunnelled'
<1>1. /\ \/ /\ up[c] < MaxData /\ up' = [up EXCEPT ![c] = @ + 1]
            /\ UNCHANGED peer
         \/ /\ peer[c] = "here" /\ peer' = [peer EXCEPT ![c] = "left"] /\ UNCHANGED up
         \/ /\ peer[c] = "here" /\ peer' = [peer EXCEPT ![c] = "reset"]
            /\ up' = [up EXCEPT ![c] = 0]
      /\ UNCHANGED <<pc, backlog, conn, link, wire, unread, eof, owed,
                     channels, master, ready, errors, loop>>
  BY DEF ClientSends, ClientLeaves, ssh, select
<1>2. /\ TypeOK /\ QueuesTyped /\ AcceptedAreServed /\ NothingLost /\ Channelled
      /\ NewcomersWait /\ ReadyIsServed /\ PassCounts /\ PendingIsOwed
  BY DEF Tunnelled, TunnelKeepsData
<1>3. /\ up \in [Clients -> 0..MaxData] /\ MaxData \in Nat
      /\ peer \in [Clients -> {"out", "here", "left", "reset"}]
      /\ ToSet(channels) \subseteq Clients
  BY <1>2, Facts DEF TypeOK
<1>4. /\ up' \in [Clients -> 0..MaxData]
      /\ peer' \in [Clients -> {"out", "here", "left", "reset"}]
      /\ \A d \in Clients : /\ peer'[d] = "here" => peer[d] = "here"
                            /\ peer'[d] = "out" <=> peer[d] = "out"
  <2>1. CASE up[c] < MaxData /\ up' = [up EXCEPT ![c] = @ + 1] /\ UNCHANGED peer
    BY <1>3, <2>1
  <2>2. CASE peer[c] = "here" /\ peer' = [peer EXCEPT ![c] = "left"] /\ UNCHANGED up
    BY <1>3, <2>2
  <2>3. CASE peer[c] = "here" /\ peer' = [peer EXCEPT ![c] = "reset"] /\ up' = [up EXCEPT ![c] = 0]
    BY <1>3, <2>3
  <2> QED
    BY <1>1, <2>1, <2>2, <2>3
<1>5. TypeOK' /\ QueuesTyped'
  <2>1. TypeOK'
    BY <1>1, <1>2, <1>4, SMTT(30) DEF TypeOK
  <2>2. QueuesTyped'
    BY <1>1, <1>2 DEF QueuesTyped
  <2> QED
    BY <2>1, <2>2
<1>6. NewcomersWait' /\ NothingLost'
  BY <1>1, <1>2, <1>3, <1>4 DEF NewcomersWait, NothingLost, Pending, OnWire
<1>7. AcceptedAreServed' /\ Channelled' /\ ReadyIsServed' /\ PassCounts' /\ PendingIsOwed'
  BY <1>1, <1>2
     DEF AcceptedAreServed, Channelled, ReadyIsServed, PassCounts, PendingIsOwed,
         Ended, Pending, OnWire
<1> QED
  BY <1>5, <1>6, <1>7 DEF Tunnelled, TunnelKeepsData

\* A packet arrives; when it is data of a client, the client is owed it.
LEMMA ArrivesSafe ==
  ASSUME Tunnelled, ~Ended, NEW p \in Packet, Arrives(p),
         \/ UNCHANGED owed /\ \A c \in Clients : p # Data(c)
         \/ \E c \in ToSet(channels) :
              p = Data(c) /\ owed[c] < MaxData /\ owed' = [owed EXCEPT ![c] = @ + 1],
         UNCHANGED <<pc, backlog, conn, peer, up, link, unread, eof,
                     channels, master, ready, errors, loop>>
  PROVE  Tunnelled'
<1>2. /\ TypeOK /\ QueuesTyped /\ AcceptedAreServed /\ NothingLost /\ Channelled
      /\ NewcomersWait /\ ReadyIsServed /\ PassCounts /\ PendingIsOwed
  BY DEF Tunnelled, TunnelKeepsData
<1>3. wire' = Append(wire, p) /\ Len(wire) < MaxWire /\ wire \in Seq(Packet)
  BY <1>2 DEF Arrives, QueuesTyped
<1>4. /\ wire' \in Seq(Packet) /\ Len(wire') = Len(wire) + 1
      /\ \A c \in Clients :
           Occurs(wire', Data(c)) = Occurs(wire, Data(c)) + (IF Data(c) = p THEN 1 ELSE 0)
  BY <1>3, AppendProperties, OccursAppend
<1>5. /\ owed \in [Clients -> 0..MaxData] /\ unread \in [Clients -> 0..MaxData]
      /\ ToSet(channels) \subseteq Clients /\ MaxData \in Nat /\ MaxWire \in Nat /\ Len(wire) \in Nat
      /\ \A c \in Clients : /\ Pending(c) = unread[c] + Occurs(wire, Data(c))
                            /\ Occurs(wire, Data(c)) \in Nat
  BY <1>2, <1>3, Facts, OccursType
<1>6. \A c \in Clients :
        /\ Pending(c) \in Nat
        /\ Pending(c)' = Pending(c) + (IF Data(c) = p THEN 1 ELSE 0)
  <2> TAKE c \in Clients
  <2>1. Pending(c)' = unread[c] + Occurs(wire', Data(c))
    BY DEF Pending, OnWire, Occurs
  <2>2. unread[c] \in Nat /\ Occurs(wire, Data(c)) \in Nat
    BY <1>5
  <2>3. Pending(c) = unread[c] + Occurs(wire, Data(c))
    BY <1>5
  <2>4. Occurs(wire', Data(c)) = Occurs(wire, Data(c)) + (IF Data(c) = p THEN 1 ELSE 0)
    BY <1>4
  <2>5. \A m, n \in Nat, b \in {0, 1} : m + n \in Nat /\ m + (n + b) = (m + n) + b
    OBVIOUS
  <2> QED
    BY <2>1, <2>2, <2>3, <2>4, <2>5
<1>7. /\ owed' \in [Clients -> 0..MaxData]
      /\ \A c \in Clients :
           /\ owed'[c] = owed[c] + (IF Data(c) = p THEN 1 ELSE 0)
           /\ Data(c) = p => c \in ToSet(channels)
  <2>1. CASE UNCHANGED owed /\ \A c \in Clients : p # Data(c)
    BY <1>5, <2>1
  <2>2. ASSUME NEW c \in ToSet(channels), p = Data(c), owed[c] < MaxData,
               owed' = [owed EXCEPT ![c] = @ + 1]
        PROVE  /\ owed' \in [Clients -> 0..MaxData]
               /\ \A d \in Clients :
                    /\ owed'[d] = owed[d] + (IF Data(d) = p THEN 1 ELSE 0)
                    /\ Data(d) = p => d \in ToSet(channels)
    <3>1. c \in Clients /\ \A d \in Clients : Data(d) = p <=> d = c
      BY <1>5, <2>2, PacketsDiffer
    <3> QED
      BY <1>5, <2>2, <3>1
  <2> QED
    BY <2>1, <2>2
<1>8. TypeOK' /\ QueuesTyped'
  <2>1. Len(wire') <= MaxWire
    BY <1>3, <1>4, <1>5
  <2>2. TypeOK'
    BY <1>2, <1>7, <2>1, SMTT(30) DEF TypeOK
  <2>3. QueuesTyped'
    BY <1>2, <1>4 DEF QueuesTyped
  <2> QED
    BY <2>2, <2>3
<1>9. NothingLost' /\ PendingIsOwed'
  <2>1. ASSUME NEW c \in ToSet(channels), peer[c] = "here", link = "up", pc # "reconnect"
        PROVE  owed'[c] = Pending(c)'
    <3>1. c \in Clients /\ owed[c] = Pending(c)
      BY <1>2, <1>5, <2>1 DEF NothingLost
    <3> QED
      BY <1>6, <1>7, <3>1
  <2>2. ASSUME NEW c \in Clients
        PROVE  Pending(c)' <= owed'[c] /\ (c \notin ToSet(channels) => owed'[c] = 0)
    <3>1. Pending(c) <= owed[c] /\ (c \notin ToSet(channels) => owed[c] = 0)
      BY <1>2 DEF PendingIsOwed
    <3>2. owed[c] \in Nat
      BY <1>5
    <3> QED
      BY <1>6, <1>7, <3>1, <3>2
  <2> QED
    BY <2>1, <2>2 DEF NothingLost, PendingIsOwed
<1>10. AcceptedAreServed' /\ Channelled' /\ NewcomersWait' /\ ReadyIsServed' /\ PassCounts'
  BY <1>2 DEF AcceptedAreServed, Channelled, NewcomersWait, ReadyIsServed, PassCounts, Ended
<1> QED
  BY <1>8, <1>9, <1>10 DEF Tunnelled, TunnelKeepsData

LEMMA EnvironmentSafe ==
  ASSUME Tunnelled, Environment
  PROVE  Tunnelled'
<1>0. ~Ended /\ TypeOK /\ QueuesTyped
  BY DEF Environment, Tunnelled, TunnelKeepsData
<1>1. ASSUME NEW c \in Clients, ServerSends(c)
      PROVE  Tunnelled'
  <2>1. /\ c \in ToSet(channels) /\ Arrives(Data(c)) /\ owed[c] < MaxData
        /\ owed' = [owed EXCEPT ![c] = @ + 1]
        /\ UNCHANGED <<pc, backlog, conn, peer, up, link, unread, eof,
                       channels, master, ready, errors, loop>>
    BY <1>1 DEF ServerSends, client, select
  <2> QED
    BY <1>0, <2>1, PacketsDiffer, ArrivesSafe
<1>2. ASSUME NEW c \in Clients, ServerCloses(c)
      PROVE  Tunnelled'
  <2>1. /\ Arrives(Eof(c))
        /\ UNCHANGED <<pc, backlog, conn, peer, up, link, unread, eof, owed,
                       channels, master, ready, errors, loop>>
    BY <1>2 DEF ServerCloses, client, select
  <2>2. Eof(c) \in Packet /\ \A d \in Clients : Eof(c) # Data(d)
    BY PacketsDiffer
  <2> QED
    BY <1>0, <2>1, <2>2, ArrivesSafe
<1>3. CASE KeepAlive
  <2>1. /\ Arrives(Noise)
        /\ UNCHANGED <<pc, backlog, conn, peer, up, link, unread, eof, owed,
                       channels, master, ready, errors, loop>>
    BY <1>3 DEF KeepAlive, client, select
  <2>2. Noise \in Packet /\ \A d \in Clients : Noise # Data(d)
    BY PacketsDiffer
  <2> QED
    BY <1>0, <2>1, <2>2, ArrivesSafe
<1>4. CASE LinkBreaks
  <2>1. /\ link' = "broken" /\ wire' = <<>>
        /\ UNCHANGED <<pc, backlog, conn, peer, up, unread, eof, owed,
                       channels, master, ready, errors, loop>>
    BY <1>4 DEF LinkBreaks, client, select
  <2>2. /\ AcceptedAreServed /\ NothingLost /\ Channelled
        /\ NewcomersWait /\ ReadyIsServed /\ PassCounts /\ PendingIsOwed
    BY DEF Tunnelled, TunnelKeepsData
  <2>3. TypeOK' /\ QueuesTyped'
    BY <1>0, <2>1, BoundsAssumption DEF TypeOK, QueuesTyped
  <2>4. PendingIsOwed'
    <3>1. \A c \in Clients : OnWire(c)' = 0
      BY <2>1, OccursNone DEF OnWire, Occurs
    <3>2. \A c \in Clients : Pending(c)' <= Pending(c) /\ Pending(c)' \in Nat /\ Pending(c) \in Nat
      <4>1. \A c \in Clients : unread[c] \in Nat /\ OnWire(c) \in Nat
        BY <1>0, Facts
      <4> QED
        BY <2>1, <3>1, <4>1 DEF Pending
    <3>3. \A c \in Clients : owed[c] \in Nat
      BY <1>0, Facts
    <3> QED
      BY <2>1, <2>2, <3>2, <3>3 DEF PendingIsOwed
  <2>5. /\ AcceptedAreServed' /\ NothingLost' /\ Channelled'
        /\ NewcomersWait' /\ ReadyIsServed' /\ PassCounts'
    BY <2>1, <2>2 DEF AcceptedAreServed, NothingLost, Channelled, NewcomersWait,
                      ReadyIsServed, PassCounts, Ended
  <2> QED
    BY <2>3, <2>4, <2>5 DEF Tunnelled, TunnelKeepsData
<1> QED
  BY <1>0, <1>1, <1>2, <1>3, <1>4, ConnectSafe, ClientSafe DEF Environment
-----------------------------------------------------------------------------
\* The tunnel: connecting, and what the loop does with the result of a handler.
LEMMA ConnectsSafe ==
  ASSUME Tunnelled, Setup \/ Reconnect \/ StopsNormally
  PROVE  Tunnelled'
<1>0. ~Ended
  BY DEF Setup, Reconnect, StopsNormally, Ended
<1>1. /\ Cleaned \in [Clients -> {"none", "accepted", "closed"}]
      /\ \A c \in Clients :
           /\ Cleaned[c] # "accepted"
           /\ c \in ToSet(backlog) => Cleaned[c] = "none"
           /\ peer[c] = "out" => Cleaned[c] = "none"
  BY <1>0, CleanedFacts
<1>2. TypeOK /\ Channelled /\ PassCounts /\ NewcomersWait
  BY DEF Tunnelled, TunnelKeepsData
<1>3. /\ conn' \in [Clients -> {"none", "accepted", "closed"}]
      /\ \A c \in Clients :
           /\ conn'[c] # "accepted"
           /\ c \in ToSet(backlog) => conn'[c] = "none"
           /\ peer[c] = "out" => conn'[c] = "none"
  <2>1. CASE Setup
    <3>1. conn' = conn /\ channels = <<>>
      BY <1>2, <2>1 DEF Setup, PassCounts
    <3>2. ToSet(<<>>) = {}
      BY DEF ToSet
    <3>3. \A c \in Clients : conn[c] # "accepted"
      BY <1>0, <1>2, <3>1, <3>2 DEF Channelled
    <3> QED
      BY <1>2, <3>1, <3>3 DEF TypeOK, NewcomersWait
  <2>2. CASE Reconnect \/ StopsNormally
    <3>1. conn' = Cleaned
      BY <2>2 DEF Reconnect, StopsNormally
    <3> QED
      BY <1>1, <3>1
  <2> QED
    BY <2>1, <2>2
<1>4. Cardinality({c \in Clients : conn'[c] = "accepted"}) <= 1
  <2>1. {c \in Clients : conn'[c] = "accepted"} = {}
    BY <1>3
  <2> QED
    BY <2>1, FS_EmptySet
<1>5. Enter \/ Finish("error") \/ Finish("normal")
  BY DEF Setup, Reconnect, StopsNormally
<1> QED
  BY <1>3, <1>4, <1>5, EnterSafe, FinishSafe

LEMMA HandledFacts ==
  ASSUME Tunnelled, NEW rc \in {"ok", "again", "error"}, NEW rest \in SUBSET ready,
         rc = "again" => errors < MaxErrors /\ Ssh \notin rest,
         Handled(rc, rest)
  PROVE  /\ errors' \in 0..MaxErrors /\ ready' = rest /\ loop' = NoLoop
         /\ pc' \in {"select", "pass", "reconnect"} /\ ~Ended'
         /\ rc = "error" => pc' = "reconnect"
         /\ pc' = "pass" /\ Ssh \in ready' => errors' < MaxErrors
<1>1. errors \in 0..MaxErrors /\ MaxErrors \in Nat \ {0}
  BY BoundsAssumption DEF Tunnelled, TunnelKeepsData, TypeOK
<1> QED
  BY <1>1 DEF Handled, Ended

\* Select, and the steps that only say where the loop goes on.
LEMMA PassSafe ==
  ASSUME Tunnelled, Select \/ TooManyErrors \/ HandleSsh \/ ReadFails
  PROVE  Tunnelled'
<1>1. /\ TypeOK /\ QueuesTyped /\ AcceptedAreServed /\ NothingLost /\ Channelled
      /\ NewcomersWait /\ ReadyIsServed /\ PassCounts /\ PendingIsOwed
  BY DEF Tunnelled, TunnelKeepsData
<1>2. UNCHANGED <<backlog, conn, peer, up, link, wire, unread, eof, owed, channels>> /\ ~Ended
  BY DEF Select, TooManyErrors, HandleSsh, ReadFails, client, ssh, select, Ended
<1>3. /\ pc' \in {"select", "pass", "channels", "reconnect"}
      /\ master' \subseteq master /\ master \cap Clients \subseteq master'
      /\ ready' \subseteq master' \cup {Local, Ssh}
      /\ errors' \in 0..MaxErrors
      /\ loop'.s \in 0..Cardinality(Clients) /\ loop'.result \in {"ok", "again", "error"}
      /\ pc' = "channels" => loop'.s \in 1..Len(channels)
      /\ pc' = "channels" \/ (pc' = "pass" /\ Ssh \in ready') => errors' < MaxErrors
      /\ Local \in ready' => backlog # <<>>
      /\ \A c \in Clients : c \in ready' => c \in ToSet(channels)
      /\ pc = "reconnect" => pc' = "reconnect"
  <2>f. /\ Cardinality(Clients) \in Nat /\ Len(channels) \in Nat
        /\ Len(channels) <= Cardinality(Clients)
        /\ errors \in 0..MaxErrors /\ MaxErrors \in Nat \ {0}
        /\ loop.s \in 0..Cardinality(Clients) /\ loop.result \in {"ok", "again", "error"}
        /\ ready \subseteq master \cup {Local, Ssh}
        /\ {Local, Ssh} \cap Clients = {} /\ Local # Ssh
    BY <1>1, Facts, ClientsAssumption DEF TypeOK, Local, Ssh
  <2>1. CASE Select
    <3>1. /\ pc' = "pass" /\ ready' = Readable \cap master /\ errors < MaxErrors
          /\ UNCHANGED <<master, errors, loop>> /\ pc = "select"
      BY <2>1 DEF Select
    <3>2. Local \in Readable => backlog # <<>>
      BY <2>f DEF Readable
    <3>3. \A c \in Clients : c \in Readable => conn[c] = "accepted"
      BY <2>f DEF Readable
    <3>4. \A c \in Clients : c \in ready' => c \in ToSet(channels)
      BY <1>1, <1>2, <3>1, <3>3 DEF Channelled
    <3> QED
      BY <2>f, <3>1, <3>2, <3>4
  <2>2. CASE TooManyErrors
    <3>1. pc' = "reconnect" /\ UNCHANGED <<ready, master, errors, loop>>
      BY <2>2 DEF TooManyErrors, select
    <3> QED
      BY <1>1, <2>f, <3>1 DEF ReadyIsServed
  <2>3. CASE HandleSsh /\ channels = <<>>
    <3>1. /\ master' = master \ {Local, Ssh} /\ Handled("ok", ready \ {Ssh}) /\ pc = "pass"
      BY <2>3 DEF HandleSsh
    <3>2. /\ errors' \in 0..MaxErrors /\ ready' = ready \ {Ssh} /\ loop' = NoLoop
          /\ pc' \in {"select", "pass", "reconnect"}
          /\ pc' = "pass" /\ Ssh \in ready' => errors' < MaxErrors
      BY <3>1, HandledFacts
    <3> QED
      BY <1>1, <2>f, <3>1, <3>2 DEF ReadyIsServed, NoLoop
  <2>4. CASE HandleSsh /\ channels # <<>>
    <3>1. /\ pc' = "channels" /\ loop' = [NoLoop EXCEPT !.s = 1] /\ pc = "pass" /\ Ssh \in ready
          /\ UNCHANGED <<ready, master, errors>>
      BY <2>4 DEF HandleSsh
    <3>2. loop'.s = 1 /\ loop'.result = "ok"
      BY <3>1 DEF NoLoop
    <3>3. Len(channels) # 0
      BY <1>1, <2>4, EmptySeq DEF QueuesTyped
    <3> QED
      BY <1>1, <2>f, <3>1, <3>2, <3>3 DEF ReadyIsServed, PassCounts
  <2>5. CASE ReadFails
    <3>1. Handled("error", ready \ {Ssh}) /\ UNCHANGED master
      BY <2>5 DEF ReadFails
    <3>2. /\ errors' \in 0..MaxErrors /\ ready' = ready \ {Ssh} /\ loop' = NoLoop
          /\ pc' = "reconnect"
      BY <3>1, HandledFacts
    <3> QED
      BY <1>1, <2>f, <3>1, <3>2 DEF ReadyIsServed, NoLoop
  <2> QED
    BY <2>1, <2>2, <2>3, <2>4, <2>5
<1>4. TypeOK' /\ QueuesTyped'
  BY <1>1, <1>2, <1>3 DEF TypeOK, QueuesTyped
<1>5. Channelled'
  BY <1>1, <1>2, <1>3 DEF Channelled, Ended
<1>6. AcceptedAreServed'
  BY <1>3, <1>5 DEF AcceptedAreServed, Channelled, Ended
<1>7. NothingLost' /\ NewcomersWait' /\ PendingIsOwed'
  BY <1>1, <1>2, <1>3 DEF NothingLost, NewcomersWait, PendingIsOwed, Pending, OnWire
<1>8. ReadyIsServed' /\ PassCounts'
  BY <1>2, <1>3 DEF ReadyIsServed, PassCounts
<1> QED
  BY <1>4, <1>5, <1>6, <1>7, <1>8 DEF Tunnelled, TunnelKeepsData

\* libssh2 reads the wire empty: what is pending stays pending.
LEMMA DrainFacts ==
  ASSUME Tunnelled, Drain
  PROVE  /\ unread' \in [Clients -> 0..MaxData] /\ eof' \in [Clients -> BOOLEAN] /\ wire' = <<>>
         /\ \A c \in Clients : Pending(c)' = Pending(c)
<1>1. TypeOK /\ QueuesTyped /\ PendingIsOwed
  BY DEF Tunnelled, TunnelKeepsData
<1>2. /\ unread' = [c \in Clients |-> Pending(c)] /\ eof' = [c \in Clients |-> AtEof(c)]
      /\ wire' = <<>>
  BY DEF Drain
<1>3. /\ owed \in [Clients -> 0..MaxData] /\ MaxData \in Nat
      /\ \A c \in Clients : Pending(c) \in Nat
  BY <1>1, Facts
<1>4. \A c \in Clients : Pending(c) \in 0..MaxData
  BY <1>1, <1>3 DEF PendingIsOwed
<1>5. \A c \in Clients : AtEof(c) \in BOOLEAN
  BY <1>1 DEF AtEof, TypeOK
<1>6. \A c \in Clients : OnWire(c)' = 0
  BY <1>2, OccursNone DEF OnWire, Occurs
<1>7. \A c \in Clients : Pending(c)' = Pending(c)
  <2> TAKE c \in Clients
  <2>1. Pending(c)' = unread'[c] + OnWire(c)'
    BY DEF Pending
  <2>2. unread'[c] = Pending(c)
    BY <1>2
  <2> QED
    BY <1>3, <1>6, <2>1, <2>2
<1> QED
  BY <1>2, <1>4, <1>5, <1>7

LEMMA HandleNewClientSafe ==
  ASSUME Tunnelled, HandleNewClient
  PROVE  Tunnelled'
<1>1. /\ TypeOK /\ QueuesTyped /\ AcceptedAreServed /\ NothingLost /\ Channelled
      /\ NewcomersWait /\ ReadyIsServed /\ PassCounts /\ PendingIsOwed
  BY DEF Tunnelled, TunnelKeepsData
<1>c. PICK c : c = Head(backlog)
  OBVIOUS
<1>2. pc = "pass" /\ Local \in ready /\ ~Ended
  BY DEF HandleNewClient, Ended
<1>3. /\ backlog \in Seq(Clients) /\ backlog # <<>> /\ IsInjective(backlog)
      /\ channels \in Seq(Clients) /\ IsInjective(channels)
  BY <1>1, <1>2, Facts DEF QueuesTyped, ReadyIsServed
<1>4. /\ c \in Clients /\ c \in ToSet(backlog)
      /\ Tail(backlog) \in Seq(Clients) /\ IsInjective(Tail(backlog))
      /\ ToSet(Tail(backlog)) = ToSet(backlog) \ {c}
  BY <1>3, <1>c, OnceTail
<1>5. conn[c] = "none" /\ peer[c] # "out" /\ c \notin ToSet(channels) /\ conn # <<>>
  BY <1>1, <1>2, <1>4 DEF NewcomersWait, Channelled, TypeOK
<1>6. /\ {Local, Ssh} \cap Clients = {}
      /\ conn \in [Clients -> {"none", "accepted", "closed"}]
      /\ Cardinality(Clients) \in Nat
  BY <1>1, ClientsAssumption, Facts DEF TypeOK
<1>7. CASE /\ link = "up"
           /\ conn' = [conn EXCEPT ![c] = "accepted"] /\ backlog' = Tail(backlog)
           /\ master' = master \cup {c} /\ channels' = Append(channels, c)
           /\ Drain /\ Handled("ok", ready \ {Local})
           /\ UNCHANGED <<peer, up, link, owed>>
  <2>1. /\ errors' \in 0..MaxErrors /\ ready' = ready \ {Local} /\ loop' = NoLoop
        /\ pc' \in {"select", "pass", "reconnect"} /\ ~Ended'
        /\ pc' = "pass" /\ Ssh \in ready' => errors' < MaxErrors
    BY <1>7, HandledFacts
  <2>2. /\ unread' \in [Clients -> 0..MaxData] /\ eof' \in [Clients -> BOOLEAN] /\ wire' = <<>>
        /\ \A d \in Clients : Pending(d)' = Pending(d)
    BY <1>7, DrainFacts
  <2>3. /\ channels' \in Seq(Clients) /\ IsInjective(channels')
        /\ ToSet(channels') = ToSet(channels) \cup {c}
    BY <1>3, <1>4, <1>5, <1>7, OnceAppend, ToSetAppend, AppendProperties
  <2>4. QueuesTyped'
    BY <1>4, <1>7, <2>2, <2>3 DEF QueuesTyped
  <2>5. /\ conn' \in [Clients -> {"none", "accepted", "closed"}] /\ conn'[c] = "accepted"
        /\ \A d \in Clients : d # c => conn'[d] = conn[d]
    BY <1>4, <1>6, <1>7
  <2>6. TypeOK'
    <3>1. ToSet(channels') \subseteq Clients /\ ToSet(backlog') \subseteq Clients
      BY <1>1, <1>4, <1>7, <2>3 DEF TypeOK
    <3>2. Len(wire') <= MaxWire
      BY <2>2, BoundsAssumption
    <3>3. master' \subseteq {Local, Ssh} \cup Clients /\ ready' \subseteq master' \cup {Local, Ssh}
      BY <1>1, <1>4, <1>7, <2>1 DEF TypeOK
    <3>4. loop'.s \in 0..Cardinality(Clients) /\ loop'.result \in {"ok", "again", "error"}
      BY <1>6, <2>1 DEF NoLoop
    <3>5. pc' \in {"new", "select", "pass", "channels", "reconnect", "normal", "error"}
      BY <2>1
    <3>6. \A f \in {up', owed', unread'} : f \in [Clients -> 0..MaxData]
      BY <1>1, <1>7, <2>2, Facts
    <3>7. \A q \in {backlog', channels'} : IsInjective(q) /\ ToSet(q) \subseteq Clients
      BY <1>4, <1>7, <2>3, <3>1
    <3>8. link' \in {"up", "broken"} /\ peer' \in [Clients -> {"out", "here", "left", "reset"}]
      BY <1>1, <1>7 DEF TypeOK
    <3> QED
      BY <2>1, <2>2, <2>5, <3>2, <3>3, <3>4, <3>5, <3>6, <3>7, <3>8 DEF TypeOK
  <2>7. Channelled'
    BY <1>1, <1>2, <1>7, <2>3, <2>5 DEF Channelled
  <2>8. AcceptedAreServed'
    BY <2>1, <2>7 DEF AcceptedAreServed, Channelled, Ended
  <2>9. NothingLost'
    <3>1. ASSUME NEW d \in ToSet(channels'), peer[d] = "here"
          PROVE  owed[d] = Pending(d)'
      <4>1. d \in Clients
        BY <1>1, <1>4, <2>3, Facts
      <4>2. CASE d = c
        <5>1. owed[d] = 0 /\ Pending(d) <= owed[d] /\ Pending(d) \in Nat
          BY <1>1, <1>5, <4>1, <4>2, Facts DEF PendingIsOwed
        <5> QED
          BY <2>2, <4>1, <5>1
      <4>3. CASE d # c
        BY <1>1, <1>2, <1>7, <2>2, <2>3, <3>1, <4>1, <4>3 DEF NothingLost
      <4> QED
        BY <4>2, <4>3
    <3> QED
      BY <1>7, <3>1 DEF NothingLost
  <2>10. PendingIsOwed'
    BY <1>1, <1>7, <2>2, <2>3 DEF PendingIsOwed
  <2>11. NewcomersWait'
    BY <1>1, <1>4, <1>5, <1>7, <2>5 DEF NewcomersWait
  <2>12. ReadyIsServed' /\ PassCounts'
    BY <1>1, <2>1, <2>3 DEF ReadyIsServed, PassCounts
  <2> QED
    BY <2>4, <2>6, <2>7, <2>8, <2>9, <2>10, <2>11, <2>12 DEF Tunnelled, TunnelKeepsData
<1>8. CASE conn' = [Cleaned EXCEPT ![c] = "accepted"] /\ Finish("error")
  <2>1. /\ Cleaned \in [Clients -> {"none", "accepted", "closed"}]
        /\ \A d \in Clients : /\ Cleaned[d] # "accepted"
                              /\ peer[d] = "out" => Cleaned[d] = "none"
    BY <1>2, CleanedFacts
  <2>2. /\ conn' \in [Clients -> {"none", "accepted", "closed"}]
        /\ \A d \in Clients : conn'[d] = IF d = c THEN "accepted" ELSE Cleaned[d]
    BY <1>4, <1>8, <2>1
  <2>3. {d \in Clients : conn'[d] = "accepted"} = {c}
    BY <1>4, <2>1, <2>2
  <2>4. Cardinality({d \in Clients : conn'[d] = "accepted"}) <= 1
    BY <2>3, FS_Singleton
  <2>5. \A d \in Clients : peer[d] = "out" => conn'[d] = "none"
    BY <1>5, <2>1, <2>2
  <2> QED
    BY <1>8, <2>2, <2>4, <2>5, FinishSafe
<1>9. CASE /\ backlog' = Tail(backlog) /\ Handled("error", ready \ {Local})
           /\ UNCHANGED <<conn, peer, up, ssh, owed, channels, master>>
  <2>1. /\ errors' \in 0..MaxErrors /\ ready' = ready \ {Local} /\ loop' = NoLoop
        /\ pc' = "reconnect" /\ ~Ended'
    BY <1>9, HandledFacts
  <2>2. UNCHANGED <<conn, peer, up, link, wire, unread, eof, owed, channels, master>>
    BY <1>9 DEF ssh
  <2>3. TypeOK' /\ QueuesTyped'
    <3>1. ToSet(backlog') \subseteq Clients
      BY <1>1, <1>4, <1>9 DEF TypeOK
    <3>2. loop'.s \in 0..Cardinality(Clients) /\ loop'.result \in {"ok", "again", "error"}
      BY <1>6, <2>1 DEF NoLoop
    <3> QED
      BY <1>1, <1>4, <1>9, <2>1, <2>2, <3>1, <3>2 DEF TypeOK, QueuesTyped
  <2>4. Channelled'
    BY <1>1, <1>2, <2>2 DEF Channelled
  <2>5. AcceptedAreServed' /\ NothingLost'
    BY <2>1 DEF AcceptedAreServed, NothingLost, Ended
  <2>6. NewcomersWait' /\ ReadyIsServed' /\ PassCounts' /\ PendingIsOwed'
    BY <1>1, <1>4, <1>9, <2>1, <2>2
       DEF NewcomersWait, ReadyIsServed, PassCounts, PendingIsOwed, Pending, OnWire
  <2> QED
    BY <2>3, <2>4, <2>5, <2>6 DEF Tunnelled, TunnelKeepsData
<1> QED
  BY <1>c, <1>7, <1>8, <1>9 DEF HandleNewClient

LEMMA ReadChannelSafe ==
  ASSUME Tunnelled, ReadChannel
  PROVE  Tunnelled'
<1>1. /\ TypeOK /\ QueuesTyped /\ AcceptedAreServed /\ NothingLost /\ Channelled
      /\ NewcomersWait /\ ReadyIsServed /\ PassCounts /\ PendingIsOwed
  BY DEF Tunnelled, TunnelKeepsData
<1>c. PICK c : c = channels[loop.s]
  OBVIOUS
<1>2. PICK sent \in BOOLEAN :
        /\ owed' = [owed EXCEPT ![c] = @ - Pending(c)]
        /\ unread' = [d \in Clients |-> IF d = c THEN 0 ELSE Pending(d)]
        /\ eof' = [d \in Clients |-> AtEof(d)] /\ wire' = <<>>
        /\ IF loop.s = Len(channels)
           THEN Handled(Result(c, sent), ready \ {Ssh})
           ELSE /\ \E n : loop' = [s |-> loop.s + 1, result |-> Result(c, sent), eagain |-> n]
                /\ UNCHANGED <<pc, ready, errors>>
  BY <1>c DEF ReadChannel
<1>3. /\ pc = "channels" /\ link = "up" /\ ~Ended
      /\ UNCHANGED <<backlog, conn, peer, up, link, channels, master>>
  BY DEF ReadChannel, client, Ended
<1>4. /\ owed \in [Clients -> 0..MaxData] /\ MaxData \in Nat
      /\ Len(channels) \in Nat /\ Len(channels) <= Cardinality(Clients)
      /\ Cardinality(Clients) \in Nat /\ ToSet(channels) \subseteq Clients
      /\ \A d \in Clients : Pending(d) \in Nat
      /\ \A i \in 1..Len(channels) : channels[i] \in Clients /\ channels[i] \in ToSet(channels)
  BY <1>1, Facts
<1>5. loop.s \in 1..Len(channels) /\ c \in Clients /\ c \in ToSet(channels) /\ errors < MaxErrors
  BY <1>1, <1>3, <1>4, <1>c DEF PassCounts
<1>6. Result(c, sent) \in {"ok", "again", "error"}
  BY <1>1 DEF Result, TypeOK
<1>7. /\ owed' \in [Clients -> 0..MaxData]
      /\ owed'[c] = owed[c] - Pending(c)
      /\ \A d \in Clients : d # c => owed'[d] = owed[d]
  <2>1. Pending(c) <= owed[c]
    BY <1>1, <1>5 DEF PendingIsOwed
  <2>2. owed[c] - Pending(c) \in 0..MaxData
    BY <1>4, <1>5, <2>1
  <2> QED
    BY <1>2, <1>4, <1>5, <2>2
<1>8. \A d \in Clients : Pending(d)' = IF d = c THEN 0 ELSE Pending(d)
  <2> TAKE d \in Clients
  <2>1. Pending(d)' = unread'[d] + OnWire(d)'
    BY DEF Pending
  <2>2. OnWire(d)' = 0
    BY <1>2, OccursNone DEF OnWire, Occurs
  <2>3. unread'[d] = IF d = c THEN 0 ELSE Pending(d)
    BY <1>2
  <2> QED
    BY <1>4, <2>1, <2>2, <2>3
<1>9. unread' \in [Clients -> 0..MaxData] /\ eof' \in [Clients -> BOOLEAN]
  <2>1. \A d \in Clients : Pending(d) \in 0..MaxData
    BY <1>1, <1>4 DEF PendingIsOwed
  <2>2. \A d \in Clients : AtEof(d) \in BOOLEAN
    BY <1>1 DEF AtEof, TypeOK
  <2> QED
    BY <1>2, <1>4, <2>1, <2>2
<1>10. /\ pc' \in {"select", "pass", "channels", "reconnect"} /\ ~Ended'
       /\ errors' \in 0..MaxErrors /\ ready' \subseteq ready
       /\ loop'.s \in 0..Cardinality(Clients) /\ loop'.result \in {"ok", "again", "error"}
       /\ pc' = "channels" => loop'.s \in 1..Len(channels)
       /\ pc' = "channels" \/ (pc' = "pass" /\ Ssh \in ready') => errors' < MaxErrors
  <2>1. CASE loop.s = Len(channels)
    <3>1. Handled(Result(c, sent), ready \ {Ssh})
      BY <1>2, <2>1
    <3>2. PICK rc \in {"ok", "again", "error"} : rc = Result(c, sent)
      BY <1>6
    <3>3. /\ errors' \in 0..MaxErrors /\ ready' = ready \ {Ssh} /\ loop' = NoLoop
          /\ pc' \in {"select", "pass", "reconnect"} /\ ~Ended'
          /\ pc' = "pass" /\ Ssh \in ready' => errors' < MaxErrors
      BY <1>5, <3>1, <3>2, HandledFacts
    <3> QED
      BY <1>4, <3>3 DEF NoLoop
  <2>2. CASE loop.s # Len(channels)
    <3>1. /\ loop'.s = loop.s + 1 /\ loop'.result = Result(c, sent)
          /\ UNCHANGED <<pc, ready, errors>>
      BY <1>2, <2>2
    <3>2. loop.s + 1 \in 1..Len(channels) /\ loop.s + 1 \in 0..Cardinality(Clients)
      BY <1>4, <1>5, <2>2
    <3>3. errors \in 0..MaxErrors
      BY <1>1 DEF TypeOK
    <3> QED
      BY <1>3, <1>5, <1>6, <3>1, <3>2, <3>3 DEF Ended
  <2> QED
    BY <2>1, <2>2
<1>11. TypeOK' /\ QueuesTyped'
  <2>1. Len(wire') <= MaxWire
    BY <1>2, BoundsAssumption
  <2>2. ready' \subseteq master' \cup {Local, Ssh}
    BY <1>1, <1>3, <1>10 DEF TypeOK
  <2>3. pc' \in {"new", "select", "pass", "channels", "reconnect", "normal", "error"}
    BY <1>10
  <2>4. QueuesTyped'
    BY <1>1, <1>2, <1>3 DEF QueuesTyped
  <2> QED
    BY <1>1, <1>3, <1>7, <1>9, <1>10, <2>1, <2>2, <2>3, <2>4 DEF TypeOK
<1>12. Channelled'
  BY <1>1, <1>3 DEF Channelled
<1>13. AcceptedAreServed'
  BY <1>10, <1>12 DEF AcceptedAreServed, Channelled, Ended
<1>14. NothingLost'
  <2>1. ASSUME NEW d \in ToSet(channels), peer[d] = "here"
        PROVE  owed'[d] = Pending(d)'
    <3>1. d \in Clients /\ owed[d] = Pending(d)
      BY <1>1, <1>3, <1>4, <2>1 DEF NothingLost
    <3>2. owed[d] \in Nat
      BY <1>4, <3>1
    <3> QED
      BY <1>7, <1>8, <3>1, <3>2
  <2> QED
    BY <1>3, <2>1 DEF NothingLost
<1>15. PendingIsOwed'
  <2>1. ASSUME NEW d \in Clients
        PROVE  Pending(d)' <= owed'[d] /\ (d \notin ToSet(channels) => owed'[d] = 0)
    <3>1. Pending(d) <= owed[d] /\ (d \notin ToSet(channels) => owed[d] = 0)
      BY <1>1 DEF PendingIsOwed
    <3>2. owed[d] \in Nat /\ Pending(d) \in Nat
      BY <1>4
    <3> QED
      BY <1>5, <1>7, <1>8, <3>1, <3>2
  <2> QED
    BY <1>3, <2>1 DEF PendingIsOwed
<1>16. NewcomersWait' /\ ReadyIsServed' /\ PassCounts'
  BY <1>1, <1>3, <1>10 DEF NewcomersWait, ReadyIsServed, PassCounts
<1> QED
  BY <1>11, <1>12, <1>13, <1>14, <1>15, <1>16 DEF Tunnelled, TunnelKeepsData

LEMMA ClientGoneSafe ==
  ASSUME Tunnelled, NEW c \in Clients, ClientGone(c)
  PROVE  Tunnelled'
<1>1. /\ TypeOK /\ QueuesTyped /\ AcceptedAreServed /\ NothingLost /\ Channelled
      /\ NewcomersWait /\ ReadyIsServed /\ PassCounts /\ PendingIsOwed
  BY DEF Tunnelled, TunnelKeepsData
<1>r. PICK rc \in {"ok", "error"} : rc = IF peer[c] = "reset" THEN "error" ELSE "ok"
  OBVIOUS
<1>2. /\ pc = "pass" /\ c \in ready /\ ~Ended
      /\ channels' = Keep(channels, Clients \ {c})
      /\ master \ {c, Local, Ssh} \subseteq master' /\ master' \subseteq master \ {c}
      /\ conn' = [conn EXCEPT ![c] = "closed"]
      /\ unread' = [unread EXCEPT ![c] = 0] /\ eof' = [eof EXCEPT ![c] = FALSE]
      /\ wire' = Keep(wire, ToSet(wire) \ {Data(c), Eof(c)})
      /\ owed' = [owed EXCEPT ![c] = 0]
      /\ Handled(rc, ready \ {c})
      /\ UNCHANGED <<backlog, peer, up, link>>
  BY <1>r DEF ClientGone, Ended
<1>3. /\ owed \in [Clients -> 0..MaxData] /\ unread \in [Clients -> 0..MaxData]
      /\ conn \in [Clients -> {"none", "accepted", "closed"}] /\ eof \in [Clients -> BOOLEAN]
      /\ MaxData \in Nat /\ ToSet(channels) \subseteq Clients /\ IsInjective(channels)
      /\ channels \in Seq(Clients) /\ wire \in Seq(Packet)
      /\ Cardinality(Clients) \in Nat /\ {Local, Ssh} \cap Clients = {}
      /\ Len(wire) \in Nat /\ MaxWire \in Nat
      /\ \A d \in Clients : Pending(d) = unread[d] + Occurs(wire, Data(d)) /\ Pending(d) \in Nat
  BY <1>1, Facts, ClientsAssumption DEF TypeOK, QueuesTyped
<1>4. /\ errors' \in 0..MaxErrors /\ ready' = ready \ {c} /\ loop' = NoLoop
      /\ pc' \in {"select", "pass", "reconnect"} /\ ~Ended'
      /\ pc' = "pass" /\ Ssh \in ready' => errors' < MaxErrors
  BY <1>2, HandledFacts
<1>5. /\ channels' \in Seq(Clients) /\ IsInjective(channels')
      /\ ToSet(channels') = ToSet(channels) \ {c}
  <2>1. ToSet(channels') = ToSet(channels) \cap (Clients \ {c})
    BY <1>2, <1>3, KeepSet
  <2> QED
    BY <1>2, <1>3, <2>1, KeepSet, KeepOnce
<1>6. /\ wire' \in Seq(Packet) /\ Len(wire') <= MaxWire
      /\ \A d \in Clients : d # c => Occurs(wire', Data(d)) = Occurs(wire, Data(d))
      /\ Occurs(wire', Data(c)) = 0
  <2> DEFINE S == ToSet(wire) \ {Data(c), Eof(c)}
  <2>1. /\ wire' \in Seq(Packet) /\ ToSet(wire') = ToSet(wire) \cap S
    BY <1>2, <1>3, KeepSet
  <2>2. Len(wire') <= MaxWire
    <3>1. Len(wire') <= Len(wire) /\ Len(wire') \in Nat
      BY <1>2, <1>3, KeepShorter
    <3>2. Len(wire) <= MaxWire
      BY <1>1 DEF TypeOK
    <3> QED
      BY <1>3, <3>1, <3>2
  <2>3. ASSUME NEW d \in Clients, d # c
        PROVE  Occurs(wire', Data(d)) = Occurs(wire, Data(d))
    <3>1. Data(d) # Data(c) /\ Data(d) # Eof(c)
      BY <2>3, PacketsDiffer
    <3>2. CASE Data(d) \in ToSet(wire)
      BY <1>2, <1>3, <3>1, <3>2, OccursKeep
    <3>3. CASE Data(d) \notin ToSet(wire)
      BY <1>3, <2>1, <3>3, OccursNot
    <3> QED
      BY <3>2, <3>3
  <2>4. Data(c) \notin ToSet(wire')
    BY <2>1
  <2>5. Occurs(wire', Data(c)) = 0
    BY <2>1, <2>4, OccursNot
  <2> QED
    BY <2>1, <2>2, <2>3, <2>5
<1>7. \A d \in Clients : Pending(d)' = IF d = c THEN 0 ELSE Pending(d)
  <2> TAKE d \in Clients
  <2>1. Pending(d)' = unread'[d] + Occurs(wire', Data(d))
    BY DEF Pending, OnWire, Occurs
  <2>2. unread'[d] = IF d = c THEN 0 ELSE unread[d]
    BY <1>2, <1>3
  <2> QED
    BY <1>3, <1>6, <2>1, <2>2
<1>8. /\ owed' \in [Clients -> 0..MaxData] /\ unread' \in [Clients -> 0..MaxData]
      /\ \A d \in Clients : owed'[d] = IF d = c THEN 0 ELSE owed[d]
      /\ conn' \in [Clients -> {"none", "accepted", "closed"}] /\ eof' \in [Clients -> BOOLEAN]
      /\ \A d \in Clients : conn'[d] = IF d = c THEN "closed" ELSE conn[d]
  BY <1>2, <1>3
<1>9. c \in ToSet(channels) /\ conn[c] = "accepted" /\ c \notin ToSet(backlog) /\ peer[c] # "out"
  BY <1>1, <1>2 DEF ReadyIsServed, Channelled, NewcomersWait
<1>10. QueuesTyped'
  BY <1>1, <1>2, <1>5, <1>6 DEF QueuesTyped
<1>11. TypeOK'
  <2>1. master' \subseteq {Local, Ssh} \cup Clients
    BY <1>1, <1>2 DEF TypeOK
  <2>2. ready' \subseteq master' \cup {Local, Ssh}
    <3>1. ready \subseteq master \cup {Local, Ssh}
      BY <1>1 DEF TypeOK
    <3> QED
      BY <1>2, <1>4, <3>1
  <2>3. loop'.s \in 0..Cardinality(Clients) /\ loop'.result \in {"ok", "again", "error"}
    BY <1>3, <1>4 DEF NoLoop
  <2>4. pc' \in {"new", "select", "pass", "channels", "reconnect", "normal", "error"}
    BY <1>4
  <2>5. ToSet(channels') \subseteq Clients
    BY <1>3, <1>5
  <2>6. \A f \in {up', owed', unread'} : f \in [Clients -> 0..MaxData]
    BY <1>1, <1>2, <1>8, Facts
  <2>7. \A q \in {backlog', channels'} : IsInjective(q) /\ ToSet(q) \subseteq Clients
    BY <1>1, <1>2, <1>5, <2>5, Facts
  <2>8. link' \in {"up", "broken"} /\ peer' \in [Clients -> {"out", "here", "left", "reset"}]
    BY <1>1, <1>2 DEF TypeOK
  <2> QED
    BY <1>4, <1>6, <1>8, <2>1, <2>2, <2>3, <2>4, <2>6, <2>7, <2>8 DEF TypeOK
<1>12. Channelled'
  <2>1. ASSUME NEW d \in Clients
        PROVE  /\ conn'[d] = "accepted" <=> d \in ToSet(channels')
               /\ d \in ToSet(channels') => d \in master'
    <3>1. d \notin {Local, Ssh}
      BY <1>3
    <3>2. /\ conn[d] = "accepted" <=> d \in ToSet(channels)
          /\ d \in ToSet(channels) => d \in master
      BY <1>1, <1>2 DEF Channelled
    <3> QED
      BY <1>2, <1>5, <1>8, <3>1, <3>2
  <2> QED
    BY <2>1 DEF Channelled
<1>13. AcceptedAreServed'
  BY <1>4, <1>12 DEF AcceptedAreServed, Channelled, Ended
<1>14. NothingLost'
  <2>1. ASSUME NEW d \in ToSet(channels'), peer'[d] = "here", link' = "up"
        PROVE  owed'[d] = Pending(d)'
    <3>1. d \in ToSet(channels) /\ d \in Clients /\ d # c
      BY <1>3, <1>5
    <3>2. owed[d] = Pending(d)
      BY <1>1, <1>2, <2>1, <3>1 DEF NothingLost
    <3> QED
      BY <1>7, <1>8, <3>1, <3>2
  <2> QED
    BY <2>1 DEF NothingLost
<1>15. PendingIsOwed'
  BY <1>1, <1>5, <1>7, <1>8 DEF PendingIsOwed
<1>16. NewcomersWait'
  BY <1>1, <1>2, <1>8, <1>9 DEF NewcomersWait
<1>17. ReadyIsServed' /\ PassCounts'
  BY <1>1, <1>2, <1>4, <1>5 DEF ReadyIsServed, PassCounts
<1> QED
  BY <1>10, <1>11, <1>12, <1>13, <1>14, <1>15, <1>16, <1>17 DEF Tunnelled, TunnelKeepsData

LEMMA ForwardUpSafe ==
  ASSUME Tunnelled, NEW c \in Clients, ForwardUp(c)
  PROVE  Tunnelled'
<1>1. /\ TypeOK /\ QueuesTyped /\ AcceptedAreServed /\ NothingLost /\ Channelled
      /\ NewcomersWait /\ ReadyIsServed /\ PassCounts /\ PendingIsOwed
  BY DEF Tunnelled, TunnelKeepsData
<1>2. /\ pc = "pass" /\ up' = [up EXCEPT ![c] = 0] /\ ~Ended
      /\ \/ Drain /\ Handled("ok", ready \ {c})
         \/ Handled("error", ready \ {c}) /\ UNCHANGED <<wire, unread, eof>>
      /\ UNCHANGED <<backlog, conn, peer, link, owed, channels, master>>
  BY DEF ForwardUp, Ended
<1>3. /\ errors' \in 0..MaxErrors /\ ready' = ready \ {c} /\ loop' = NoLoop
      /\ pc' \in {"select", "pass", "reconnect"} /\ ~Ended'
      /\ pc' = "pass" /\ Ssh \in ready' => errors' < MaxErrors
  BY <1>2, HandledFacts
<1>4. /\ unread' \in [Clients -> 0..MaxData] /\ eof' \in [Clients -> BOOLEAN]
      /\ wire' \in Seq(Packet) /\ Len(wire') <= MaxWire
      /\ \A d \in Clients : Pending(d)' = Pending(d)
  <2>1. CASE Drain
    <3>1. /\ unread' \in [Clients -> 0..MaxData] /\ eof' \in [Clients -> BOOLEAN] /\ wire' = <<>>
          /\ \A d \in Clients : Pending(d)' = Pending(d)
      BY <2>1, DrainFacts
    <3> QED
      BY <3>1, BoundsAssumption
  <2>2. CASE UNCHANGED <<wire, unread, eof>>
    BY <1>1, <2>2 DEF TypeOK, QueuesTyped, Pending, OnWire
  <2> QED
    BY <1>2, <2>1, <2>2
<1>5. up' \in [Clients -> 0..MaxData] /\ Cardinality(Clients) \in Nat
  <2>1. up \in [Clients -> 0..MaxData] /\ MaxData \in Nat /\ Cardinality(Clients) \in Nat
    BY <1>1, Facts
  <2> QED
    BY <1>2, <2>1
<1>6. TypeOK' /\ QueuesTyped'
  <2>1. loop'.s \in 0..Cardinality(Clients) /\ loop'.result \in {"ok", "again", "error"}
    BY <1>3, <1>5 DEF NoLoop
  <2>2. ready' \subseteq master' \cup {Local, Ssh}
    BY <1>1, <1>2, <1>3 DEF TypeOK
  <2>3. pc' \in {"new", "select", "pass", "channels", "reconnect", "normal", "error"}
    BY <1>3
  <2>4. QueuesTyped'
    BY <1>1, <1>2, <1>4 DEF QueuesTyped
  <2> QED
    BY <1>1, <1>2, <1>3, <1>4, <1>5, <2>1, <2>2, <2>3, <2>4 DEF TypeOK
<1>7. Channelled'
  BY <1>1, <1>2 DEF Channelled
<1>8. AcceptedAreServed'
  BY <1>3, <1>7 DEF AcceptedAreServed, Channelled, Ended
<1>9. NothingLost' /\ PendingIsOwed'
  <2>1. ToSet(channels) \subseteq Clients
    BY <1>1, Facts
  <2> QED
    BY <1>1, <1>2, <1>4, <2>1 DEF NothingLost, PendingIsOwed
<1>10. NewcomersWait' /\ ReadyIsServed' /\ PassCounts'
  BY <1>1, <1>2, <1>3 DEF NewcomersWait, ReadyIsServed, PassCounts
<1> QED
  BY <1>6, <1>7, <1>8, <1>9, <1>10 DEF Tunnelled, TunnelKeepsData
-----------------------------------------------------------------------------
LEMMA NextTunnelled == Tunnelled /\ [Next]_vars => Tunnelled'
<1> SUFFICES ASSUME Tunnelled, [Next]_vars PROVE Tunnelled'
  OBVIOUS
<1>1. CASE Environment
  BY <1>1, EnvironmentSafe
<1>2. CASE Setup \/ Reconnect \/ StopsNormally
  BY <1>2, ConnectsSafe
<1>3. CASE Select \/ TooManyErrors \/ HandleSsh \/ ReadFails
  BY <1>3, PassSafe
<1>4. CASE HandleNewClient
  BY <1>4, HandleNewClientSafe
<1>5. CASE ReadChannel
  BY <1>5, ReadChannelSafe
<1>6. CASE \E c \in Clients : ClientGone(c) \/ ForwardUp(c)
  BY <1>6, ClientGoneSafe, ForwardUpSafe
<1>7. CASE UNCHANGED vars
  <2>1. UNCHANGED <<pc, backlog, conn, peer, up, link, wire, unread, eof, owed, channels,
                    master, ready, errors, loop>>
    BY <1>7 DEF vars, client, ssh, select
  <2>2. UNCHANGED TypeOK
    BY <2>1 DEF TypeOK
  <2>3. UNCHANGED <<AcceptedAreServed, QueuesTyped>>
    BY <2>1, Zenon DEF AcceptedAreServed, QueuesTyped, Ended
  <2>4. UNCHANGED <<NothingLost, PendingIsOwed>>
    BY <2>1, Zenon DEF NothingLost, PendingIsOwed, Pending, OnWire
  <2>5. UNCHANGED <<Channelled, NewcomersWait, ReadyIsServed, PassCounts>>
    BY <2>1, Zenon DEF Channelled, NewcomersWait, ReadyIsServed, PassCounts, Ended
  <2> QED
    BY <2>2, <2>3, <2>4, <2>5 DEF Tunnelled, TunnelKeepsData
<1>8. Tunnel => Tunnelled'
  BY <1>2, <1>3, <1>4, <1>5, <1>6 DEF Tunnel
<1>9. Next => Environment \/ Tunnel
  BY DEF Next
<1>10. Next \/ UNCHANGED vars
  OBVIOUS
<1> QED
  BY <1>1, <1>7, <1>8, <1>9, <1>10

\* ssh.c, the select loop: however the clients, the server and the network interleave
\* with the passes of the loop, its errors and reconnections, an accepted client has
\* exactly one channel the loop watches, and while its connection lives everything the
\* remote server sent to it and it did not get is still held for it.
THEOREM TunnelKeeps == Spec => []TunnelKeepsData
<1>1. Tunnelled => TunnelKeepsData
  BY DEF Tunnelled
<1> QED
  BY <1>1, InitTunnelled, NextTunnelled, PTL DEF Spec
-----------------------------------------------------------------------------
(* The operations of a worker. *)

\* The calls an operation is made of.
AllCalls ==
  [k : {"mustNotExist", "mustExist", "create", "dropColl", "dropDb", "open", "read", "refuse",
        "outStage", "openFile", "writeFile", "createUser", "dropUser", "insertEach"}, h : Conns, c : Colls]
  \cup [k : {"insert", "replace"}, h : Conns, c : Colls, d : Docs]
  \cup [k : {"remove"}, h : Conns, c : Colls, d : SUBSET Docs]
  \cup [k : {"createIndex"}, h : Conns, c : Colls, n : IxNames, d : Defs]
  \cup [k : {"dropIndex"}, h : Conns, c : Colls, n : IxNames]
  \cup [k : {"replaceFn", "insertFn", "deleteFn"}, h : Conns, c : Colls, n : FnNames,
        code : Codes \cup {Nothing}]
  \cup [k : {"rename"}, h : Conns, c : Colls, to : Colls]
  \cup [k : {"listIndexes", "createEach"}, h : Conns, c : Colls, from : Colls]

\* The fields of the worker's operation.
JobIsRecord ==
  job = [op |-> job.op, state |-> job.state, todo |-> job.todo, rescue |-> job.rescue,
         a |-> job.a, left |-> job.left, names |-> job.names, matched |-> job.matched,
         copied |-> job.copied, skipped |-> job.skipped, fails |-> job.fails,
         failed |-> job.failed, broke |-> job.broke, before |-> job.before]
JobIsTyped ==
  /\ JobIsRecord
  /\ job.todo \in Seq(AllCalls) /\ job.rescue \in Seq(AllCalls)
  /\ job.matched \subseteq Docs /\ job.copied \in Nat /\ job.skipped \in Nat
  /\ job.fails \in Nat /\ job.failed = (job.fails > 0)

\* Only a copy and a duplication read a cursor.
StreamKinds == {"open", "insertEach", "listIndexes", "createEach"}
OthersDoNotStream ==
  job.op \notin {"copy", "duplicate"} =>
    /\ \A i \in DOMAIN job.todo : job.todo[i].k \notin StreamKinds
    /\ \A i \in DOMAIN job.rescue : job.rescue[i].k \notin StreamKinds
    /\ job.matched = {} /\ job.left = {}

\* The calls of a copy or a duplication come in this order, none left out.
Rank(q) == CASE q.k = "mustNotExist" -> 0 [] q.k \in {"create", "dropColl"} -> 1 [] q.k = "open" -> 2
             [] q.k = "insertEach" -> 3 [] q.k = "listIndexes" -> 4 [] q.k = "createEach" -> 5
             [] OTHER -> 6
Stage(j) == IF j.todo = <<>> THEN 6 ELSE Rank(Head(j.todo))
Target == IF job.op = "copy" THEN [h |-> Host(job.a.to.conn), c |-> job.a.to.c]
          ELSE [h |-> "here", c |-> job.a.to]
\* What the cursor has left behind and the target does not hold.
Missing == job.matched \ (job.left \cup colls[Target.h][Target.c].docs)
CopyIsInOrder ==
  job.op \in {"copy", "duplicate"} =>
    /\ Target.h \in Conns /\ Target.c \in {"x", "y"} /\ job.rescue = <<>>
    /\ \A i \in DOMAIN job.todo : Rank(job.todo[i]) \in 0..5
    /\ \A i \in DOMAIN job.todo :
         IF i < Len(job.todo) THEN Rank(job.todo[i + 1]) = Rank(job.todo[i]) + 1
         ELSE Rank(job.todo[i]) \in {3, 5}
    /\ \A i \in DOMAIN job.todo :
         job.todo[i].k # "open" => job.todo[i].h = Target.h /\ job.todo[i].c = Target.c
    /\ Stage(job) \in 0..2 => job.matched = {} /\ job.left = {}
    /\ (~job.failed /\ Stage(job) \in 3..6) => Cardinality(Missing) <= job.skipped
    /\ (~job.failed /\ Stage(job) \in 4..6) => job.left = {}
    /\ job.op = "duplicate" => job.skipped = 0
    /\ job.op = "copy" => job.a.c = "x"

\* An edit of an index is at one of its calls.
IndexIsInOrder ==
  job.op = "index" =>
    LET a == job.a
        ix == colls["here"]["x"].ix
        create == Ix("createIndex", "here", "x", a.new, 2)
        drop == [k |-> "dropIndex", h |-> "here", c |-> "x", n |-> a.old]
        back == Ix("createIndex", "here", "x", a.old, 1)
    IN /\ a.old \in IxNames \cup {Nothing} /\ a.new \in IxNames
       /\ job.rescue = IF a.old = Nothing THEN <<>> ELSE <<back>>
       /\ \/ /\ ~job.failed /\ a.old # Nothing /\ job.todo = <<drop, create>> /\ ix[a.old] # 0
          \/ /\ ~job.failed /\ job.todo = <<create>> /\ (a.old # Nothing => ix[a.old] = 0)
          \/ /\ ~job.failed /\ job.todo = <<>> /\ ix[a.new] = 2
             /\ (a.old \notin {Nothing, a.new} => ix[a.old] = 0)
          \/ /\ job.failed /\ job.todo = <<>>
             /\ (a.old # Nothing => ix[a.old] # 0 \/ job.fails >= 2 \/ job.broke = "dropIndex")
          \/ /\ job.failed /\ a.old # Nothing /\ job.todo = <<back>>

\* So is the saving of a function.
FunctionIsInOrder ==
  job.op = "function" =>
    LET a == job.a
        insert == Fn("insertFn", a.new, "new")
        replace == Fn("replaceFn", a.new, "new")
        delete == Fn("deleteFn", a.old, Nothing)
        kept == a.old # Nothing => fns[a.old] # Nothing
        gone == ~a.modern /\ a.old \notin {Nothing, a.new} => fns[a.old] = Nothing
    IN /\ a.old \in FnNames \cup {Nothing} /\ a.new \in FnNames /\ a.modern \in BOOLEAN
       /\ job.rescue = <<>>
       /\ \/ /\ (a.modern \/ a.old = a.new) /\ job.todo = <<replace>> /\ kept /\ ~job.failed
          \/ /\ a.old = Nothing /\ job.todo = <<insert>> /\ ~job.failed
          \/ /\ a.old \notin {Nothing, a.new} /\ job.todo = <<insert, delete>> /\ kept /\ ~job.failed
          \/ /\ a.old \notin {Nothing, a.new} /\ job.todo = <<delete>> /\ fns[a.new] = "new" /\ ~job.failed
          \/ /\ job.todo = <<>> /\ fns[a.new] = "new" /\ gone /\ ~job.failed
          \/ /\ job.todo = <<>> /\ job.failed /\ (kept \/ fns[a.new] = "new")

\* The last call of a creation of a database and of an export is the one that counts, and an
\* export writes nowhere else.
LastCallCounts ==
  /\ job.op \in {"createDb", "export"} => job.rescue = <<>>
  /\ (job.op = "createDb" /\ ~job.failed) =>
       IF job.todo = <<>> THEN ~colls["here"]["temp"].exists
       ELSE job.todo[Len(job.todo)] = Call("dropColl", "here", "temp")
  /\ (job.op = "export" /\ ~job.failed) =>
       IF job.todo = <<>> THEN exportFile = "whole" ELSE job.todo[Len(job.todo)].k = "writeFile"
  /\ job.op = "export" =>
       \A i \in DOMAIN job.todo :
         /\ job.todo[i].k \in {"refuse", "outStage", "read", "openFile", "writeFile"}
         /\ (job.todo[i].k = "outStage" => Head(job.todo).k = "refuse")
  /\ (job.op = "export" /\ job.failed) => job.todo = <<>>

\* What the sound operations are sound by.
OpsInv ==
  /\ OpsTypeOK /\ JobIsTyped /\ OthersDoNotStream
  /\ CopyIsInOrder /\ IndexIsInOrder /\ FunctionIsInOrder /\ LastCallCounts
  /\ SourceIsKept
  /\ ExportOnlyReads /\ ProgressCloses

-----------------------------------------------------------------------------
LEMMA EmptyCollection ==
  /\ NoCollection \in Collections /\ NoCollection.exists = FALSE /\ NoCollection.docs = {}
  /\ \A n \in IxNames : NoCollection.ix[n] = 0
BY DEF NoCollection, Collections

\* The fields of a collection.
LEMMA CollectionFields ==
  ASSUME NEW x \in Collections
  PROVE  /\ x = [exists |-> x.exists, docs |-> x.docs, ix |-> x.ix]
         /\ x.exists \in BOOLEAN /\ x.docs \subseteq Docs /\ x.ix \in [IxNames -> {0} \cup Defs]
BY DEF Collections

\* A call leaves a collection, or none.
LEMMA AfterTyped ==
  ASSUME OpsTypeOK, NEW q \in AllCalls, q.k = "dropIndex" => ~Refused(q)
  PROVE  After(q) \in Collections /\ (~After(q).exists => After(q) = NoCollection)
<1> DEFINE coll == colls[q.h][q.c]
<1>1. q.h \in Conns /\ q.c \in Colls
  BY DEF AllCalls
<1>2. coll \in Collections /\ (~coll.exists => coll = NoCollection)
  BY <1>1 DEF OpsTypeOK
<1> HIDE DEF coll
<1>3. PICK x : x = coll
  OBVIOUS
<1>4. /\ x = [exists |-> x.exists, docs |-> x.docs, ix |-> x.ix]
      /\ x.exists \in BOOLEAN /\ x.docs \subseteq Docs /\ x.ix \in [IxNames -> {0} \cup Defs]
      /\ (~x.exists => x = NoCollection)
  BY <1>2, <1>3, CollectionFields
<1>5. [x EXCEPT !.exists = TRUE] = [exists |-> TRUE, docs |-> x.docs, ix |-> x.ix]
  <2>1. PICK y : y = [x EXCEPT !.exists = TRUE]
    OBVIOUS
  <2>2. y \in Collections /\ y.docs = x.docs /\ y.ix = x.ix /\ y.exists = TRUE
    BY <1>2, <1>3, <2>1 DEF Collections
  <2> QED
    BY <2>1, <2>2, CollectionFields
<1>6. CASE q.k = "create"
  <2>1. After(q) = [exists |-> TRUE, docs |-> x.docs, ix |-> x.ix]
    BY <1>3, <1>5, <1>6 DEF After, coll
  <2> QED
    BY <2>1, <1>4 DEF Collections
<1>7. CASE q.k \in {"dropColl", "dropDb", "rename"}
  <2>1. After(q) = NoCollection
    BY <1>7 DEF After
  <2> QED
    BY <2>1, EmptyCollection
<1>8. CASE q.k \in {"insert", "replace"}
  <2>1. q.d \in Docs
    BY <1>8 DEF AllCalls
  <2>2. After(q) = [exists |-> TRUE, docs |-> x.docs \cup {q.d}, ix |-> x.ix]
    BY <1>3, <1>5, <1>8 DEF After, coll
  <2> QED
    BY <2>1, <2>2, <1>4 DEF Collections
<1>9. CASE q.k = "remove"
  <2>1. After(q) = [exists |-> x.exists, docs |-> x.docs \ q.d, ix |-> x.ix]
    BY <1>3, <1>4, <1>9 DEF After, coll
  <2>2. ~x.exists => After(q) = NoCollection
    <3>1. SUFFICES ASSUME ~x.exists PROVE After(q) = NoCollection
      OBVIOUS
    <3>2. x = NoCollection /\ x.docs \ q.d = x.docs
      BY <3>1, <1>4, EmptyCollection
    <3> QED
      BY <2>1, <3>2, <1>4
  <2>3. After(q) \in Collections
    BY <2>1, <1>4 DEF Collections
  <2> QED
    BY <2>1, <2>2, <2>3
<1>10. CASE q.k = "dropIndex"
  <2>1. q.n \in IxNames /\ x.ix[q.n] # 0
    BY <1>3, <1>10 DEF AllCalls, Refused, coll
  <2>2. x.exists
    BY <2>1, <1>4, EmptyCollection
  <2>3. After(q) = [exists |-> x.exists, docs |-> x.docs, ix |-> [x.ix EXCEPT ![q.n] = 0]]
    BY <1>3, <1>4, <1>10 DEF After, coll
  <2>4. [x.ix EXCEPT ![q.n] = 0] \in [IxNames -> {0} \cup Defs]
    BY <1>4
  <2>5. After(q) \in Collections
    BY <2>3, <2>4, <1>4 DEF Collections
  <2>6. After(q).exists = x.exists
    BY <2>3
  <2> QED
    BY <2>2, <2>5, <2>6
<1>11. CASE q.k = "createIndex"
  <2>1. q.n \in IxNames /\ q.d \in Defs
    BY <1>11 DEF AllCalls
  <2>2. After(q) = [exists |-> TRUE, docs |-> x.docs, ix |-> [x.ix EXCEPT ![q.n] = q.d]]
    BY <1>3, <1>5, <1>11 DEF After, coll
  <2> QED
    BY <2>1, <2>2, <1>4 DEF Collections
<1>12. CASE q.k \notin {"create", "dropColl", "dropDb", "rename", "insert", "replace", "remove",
                       "dropIndex", "createIndex"}
  <2>1. After(q) = x
    BY <1>3, <1>12 DEF After, coll
  <2> QED
    BY <2>1, <1>2, <1>3, <1>4
<1> QED
  BY <1>6, <1>7, <1>8, <1>9, <1>10, <1>11, <1>12

\* So what the server does keeps the types.
LEMMA ServerTyped ==
  ASSUME OpsTypeOK, NEW q \in AllCalls, ~Refused(q), ServerDoes(q)
  PROVE  /\ colls' \in [Conns -> [Colls -> Collections]]
         /\ \A h \in Conns, c \in Colls : ~colls'[h][c].exists => colls'[h][c] = NoCollection
         /\ fns' \in [FnNames -> Codes \cup {Nothing}] /\ users' \in BOOLEAN
         /\ exportFile' \in {"previous", "partial", "whole"}
<1> DEFINE new == [c \in Colls |-> IF c = q.c THEN After(q)
                        ELSE IF q.k = "dropDb" THEN NoCollection
                        ELSE IF q.k = "rename" /\ c = q.to THEN colls[q.h][q.c]
                        ELSE IF q.k = "outStage" /\ c = "y" THEN Holding(colls[q.h]["x"].docs)
                        ELSE colls[q.h][c]]
<1>1. q.h \in Conns /\ q.c \in Colls
  BY DEF AllCalls
<1>2. colls \in [Conns -> [Colls -> Collections]]
      /\ \A h \in Conns, c \in Colls : ~colls[h][c].exists => colls[h][c] = NoCollection
  BY DEF OpsTypeOK
<1>3. colls' = [colls EXCEPT ![q.h] = new]
  BY DEF ServerDoes
<1>4. ASSUME NEW docs \in SUBSET Docs PROVE Holding(docs) \in Collections /\ Holding(docs).exists = TRUE
  BY DEF Holding, NoCollection, Collections
<1>5. colls[q.h]["x"].docs \in SUBSET Docs
  BY <1>1, <1>2, CollectionFields DEF Colls
<1>6. After(q) \in Collections /\ (~After(q).exists => After(q) = NoCollection)
  BY AfterTyped
<1>7. \A c \in Colls : new[c] \in Collections /\ (~new[c].exists => new[c] = NoCollection)
  <2> SUFFICES ASSUME NEW c \in Colls
               PROVE  new[c] \in Collections /\ (~new[c].exists => new[c] = NoCollection)
    OBVIOUS
  <2>1. \A d \in Colls : colls[q.h][d] \in Collections
                           /\ (~colls[q.h][d].exists => colls[q.h][d] = NoCollection)
    BY <1>1, <1>2
  <2>2. new[c] \in {After(q), NoCollection, colls[q.h][q.c], Holding(colls[q.h]["x"].docs), colls[q.h][c]}
    OBVIOUS
  <2> HIDE DEF new
  <2> QED
    BY <1>1, <1>4, <1>5, <1>6, <2>1, <2>2, EmptyCollection
<1>8. new \in [Colls -> Collections]
  BY <1>7
<1> HIDE DEF new
<1>9. /\ colls' \in [Conns -> [Colls -> Collections]]
      /\ \A h \in Conns, c \in Colls : ~colls'[h][c].exists => colls'[h][c] = NoCollection
  BY <1>1, <1>2, <1>3, <1>7, <1>8
<1>10. fns' \in [FnNames -> Codes \cup {Nothing}]
  <2>1. fns \in [FnNames -> Codes \cup {Nothing}]
    BY DEF OpsTypeOK
  <2>2. q.k \in {"insertFn", "replaceFn", "deleteFn"} => q.n \in FnNames /\ q.code \in Codes \cup {Nothing}
    BY DEF AllCalls
  <2> QED
    BY <2>1, <2>2 DEF ServerDoes
<1>11. users' \in BOOLEAN
  BY Zenon DEF ServerDoes
<1>12. exportFile' \in {"previous", "partial", "whole"}
  BY DEF ServerDoes, OpsTypeOK
<1> QED
  BY <1>9, <1>10, <1>11, <1>12

\* A list of two.
LEMMA PairOf == ASSUME NEW S, NEW a \in S, NEW b \in S
 PROVE <<a>> \o <<b>> = <<a, b>>
<1>1. PICK u, v, w : u = <<a>> /\ v = <<b>> /\ w = <<a, b>>
  OBVIOUS
<1>2. /\ u \in Seq(S) /\ Len(u) = 1 /\ u[1] = a
      /\ v \in Seq(S) /\ Len(v) = 1 /\ v[1] = b
      /\ w \in Seq(S) /\ Len(w) = 2 /\ w[1] = a /\ w[2] = b
  BY <1>1
<1>3. u \o v \in Seq(S) /\ Len(u \o v) = 2 /\ (u \o v)[1] = a /\ (u \o v)[2] = b
  BY <1>2, ConcatProperties
<1>4. u \o v = w
  BY <1>2, <1>3, SeqEqual
<1> QED BY <1>1, <1>4

\* What a list of two parts and a pair in between consists of.
LEMMA MiddleOf ==
  ASSUME NEW S, NEW p \in Seq(S), NEW b \in S, NEW c \in S, NEW t \in Seq(S)
  PROVE  /\ (p \o <<b, c>>) \o t \in Seq(S)
         /\ Len((p \o <<b, c>>) \o t) = Len(p) + 2 + Len(t)
         /\ \A i \in 1..Len(p) : ((p \o <<b, c>>) \o t)[i] = p[i]
         /\ ((p \o <<b, c>>) \o t)[Len(p) + 1] = b
         /\ ((p \o <<b, c>>) \o t)[Len(p) + 2] = c
         /\ \A i \in 1..Len(t) : ((p \o <<b, c>>) \o t)[Len(p) + 2 + i] = t[i]
<1>1. PICK m : m = <<b, c>>
  OBVIOUS
<1>2. m \in Seq(S) /\ Len(m) = 2 /\ m[1] = b /\ m[2] = c
  BY <1>1
<1>3. PICK u : u = p \o m
  OBVIOUS
<1>4. Len(p) \in Nat /\ Len(t) \in Nat
  OBVIOUS
<1>5. /\ u \in Seq(S) /\ Len(u) = Len(p) + 2
      /\ \A i \in 1..(Len(p) + 2) : u[i] = IF i <= Len(p) THEN p[i] ELSE m[i - Len(p)]
  <2>1. /\ u \in Seq(S) /\ Len(u) = Len(p) + Len(m)
        /\ \A i \in 1..(Len(p) + Len(m)) : u[i] = IF i <= Len(p) THEN p[i] ELSE m[i - Len(p)]
    BY <1>2, <1>3, ConcatProperties
  <2> QED
    BY <1>2, <2>1
<1>6. u[Len(p) + 1] = b /\ u[Len(p) + 2] = c /\ \A i \in 1..Len(p) : u[i] = p[i]
  <2>1. u[Len(p) + 1] = m[Len(p) + 1 - Len(p)]
    BY <1>4, <1>5
  <2>2. u[Len(p) + 2] = m[Len(p) + 2 - Len(p)]
    BY <1>4, <1>5
  <2>3. Len(p) + 1 - Len(p) = 1 /\ Len(p) + 2 - Len(p) = 2
    BY <1>4
  <2>4. \A i \in 1..Len(p) : u[i] = p[i]
    BY <1>4, <1>5
  <2> QED
    BY <1>2, <2>1, <2>2, <2>3, <2>4
<1>7. PICK v : v = u \o t
  OBVIOUS
<1>8. /\ v \in Seq(S) /\ Len(v) = Len(u) + Len(t)
      /\ \A i \in 1..(Len(u) + Len(t)) : v[i] = IF i <= Len(u) THEN u[i] ELSE t[i - Len(u)]
  BY <1>5, <1>7, ConcatProperties
<1>9. v[Len(p) + 1] = b /\ v[Len(p) + 2] = c /\ \A i \in 1..Len(p) : v[i] = p[i]
  BY <1>4, <1>5, <1>6, <1>8
<1>10. \A i \in 1..Len(t) : v[Len(p) + 2 + i] = t[i]
  <2>1. SUFFICES ASSUME NEW i \in 1..Len(t) PROVE v[Len(p) + 2 + i] = t[i]
    OBVIOUS
  <2>2. PICK j \in Int : j = Len(u) + i
    BY <1>4, <1>5
  <2>3. j \in 1..(Len(u) + Len(t)) /\ ~(j <= Len(u)) /\ j - Len(u) = i /\ j = Len(p) + 2 + i
    BY <1>4, <1>5, <2>2
  <2>4. v[j] = t[j - Len(u)]
    BY <1>8, <2>3
  <2> QED
    BY <2>3, <2>4
<1> QED
  BY <1>1, <1>3, <1>5, <1>7, <1>8, <1>9, <1>10

-----------------------------------------------------------------------------
\* What an operation that is asked for begins with.
LEMMA StartFacts ==
  ASSUME OpsInv, jobs < MaxJobs, NEW op, NEW a, NEW calls \in Seq(AllCalls), NEW rescue \in Seq(AllCalls),
         StartJob(op, a, calls, rescue)
  PROVE  /\ OpsTypeOK' /\ JobIsTyped' /\ SourceIsKept' /\ ExportOnlyReads' /\ ProgressCloses'
         /\ job'.op = op /\ job'.a = a /\ job'.todo = calls /\ job'.rescue = rescue
         /\ job'.matched = {} /\ job'.left = {} /\ job'.fails = 0 /\ ~job'.failed /\ job'.skipped = 0
         /\ UNCHANGED <<colls, fns, users, exportFile, others>>
<1> DEFINE start == [op |-> op, state |-> "running", todo |-> calls, rescue |-> rescue, a |-> a,
          left |-> {}, names |-> {}, matched |-> {}, copied |-> 0, skipped |-> 0,
          fails |-> 0, failed |-> FALSE, broke |-> Nothing, before |-> [colls |-> colls, fns |-> fns]]
<1>1. job' = start /\ jobs' = jobs + 1 /\ progress' = (op \in {"copy", "export"})
      /\ UNCHANGED <<colls, fns, users, exportFile, others>>
  BY DEF StartJob, NoJob
<1>2. /\ job'.op = op /\ job'.a = a /\ job'.todo = calls /\ job'.rescue = rescue
      /\ job'.matched = {} /\ job'.left = {} /\ job'.fails = 0 /\ job'.names = {}
      /\ job'.copied = 0 /\ job'.skipped = 0 /\ job'.state = "running"
      /\ job'.before = [colls |-> colls, fns |-> fns]
  BY <1>1
<1>3. job'.failed = FALSE
  BY <1>1
<1>4. OpsTypeOK'
  <2>1. Cardinality({}) = 0
    BY FS_EmptySet
  <2>2. jobs' \in 0..MaxJobs
    BY <1>1, OpsBoundsAssumption DEF OpsInv, OpsTypeOK
  <2>3. job'.copied + job'.skipped + Cardinality(job'.left) = Cardinality(job'.matched)
    BY <1>2, <2>1
  <2>4. job'.left \subseteq job'.matched /\ job'.names \subseteq IxNames
    BY <1>2
  <2>5. /\ colls' \in [Conns -> [Colls -> Collections]]
        /\ \A h \in Conns, c \in Colls : ~colls'[h][c].exists => colls'[h][c] = NoCollection
        /\ fns' \in [FnNames -> Codes \cup {Nothing}] /\ users' \in BOOLEAN
        /\ exportFile' \in {"previous", "partial", "whole"} /\ others' \in 0..MaxOthers
    BY <1>1 DEF OpsInv, OpsTypeOK
  <2>6. progress' => job'.op \in {"copy", "export"}
    BY <1>1, <1>2
  <2> QED
    BY <1>2, <2>2, <2>3, <2>4, <2>5, <2>6 DEF OpsTypeOK
<1>5. JobIsTyped'
  <2>1. JobIsRecord'
    BY <1>1, <1>2, <1>3, Zenon DEF JobIsRecord
  <2>2. job'.failed = (job'.fails > 0)
    <3>1. (job'.fails > 0) = FALSE
      BY <1>2
    <3> QED
      BY <1>3, <3>1, Zenon
  <2> QED
    BY <1>2, <2>1, <2>2 DEF JobIsTyped
<1>6. SourceIsKept' /\ ExportOnlyReads' /\ ProgressCloses'
  <2>1. SourceIsKept'
    BY <1>1, <1>2 DEF SourceIsKept, SourceStays
  <2> QED
    BY <1>1, <1>2, <2>1 DEF ExportOnlyReads, ProgressCloses
<1> QED
  BY <1>1, <1>2, <1>3, <1>4, <1>5, <1>6

\* An operation of one or more calls that are neither of a copy nor of a named plan.
PlainOps == {"dropDb", "create", "drop", "rename", "save", "remove", "query", "dropIndex",
             "dropFunction", "createUser", "dropUser"}
LEMMA PlainKeepsInv ==
  ASSUME OpsInv, jobs < MaxJobs, NEW op \in PlainOps, NEW a, NEW calls \in Seq(AllCalls),
         \A i \in DOMAIN calls : calls[i].k \notin StreamKinds,
         StartJob(op, a, calls, <<>>)
  PROVE  OpsInv'
<1>1. <<>> \in Seq(AllCalls) /\ DOMAIN <<>> = {}
  OBVIOUS
<1>2. /\ OpsTypeOK' /\ JobIsTyped' /\ SourceIsKept' /\ ExportOnlyReads' /\ ProgressCloses'
         /\ job'.op = op /\ job'.a = a /\ job'.todo = calls /\ job'.rescue = <<>>
         /\ job'.matched = {} /\ job'.left = {} /\ job'.fails = 0 /\ ~job'.failed /\ job'.skipped = 0
  BY <1>1, StartFacts
<1>3. OthersDoNotStream'
  BY <1>1, <1>2 DEF OthersDoNotStream
<1>4. CopyIsInOrder' /\ IndexIsInOrder' /\ FunctionIsInOrder' /\ LastCallCounts'
  BY <1>2 DEF PlainOps, CopyIsInOrder, IndexIsInOrder, FunctionIsInOrder, LastCallCounts
<1> QED
  BY <1>2, <1>3, <1>4 DEF OpsInv

LEMMA DatabaseKeepsInv ==
  ASSUME OpsInv, AskDatabase
  PROVE  OpsInv'
<1>1. jobs < MaxJobs
  BY DEF AskDatabase, Free
<1>2. CASE StartJob("dropDb", <<>>, DropDatabase(<<>>), <<>>)
  <2>1. DropDatabase(<<>>) = <<Call("dropDb", "here", "temp")>>
    BY DEF DropDatabase
  <2>2. Call("dropDb", "here", "temp") \in AllCalls /\ Call("dropDb", "here", "temp").k \notin StreamKinds
    BY DEF AllCalls, Call, Conns, Colls, StreamKinds
  <2>3. PICK q : q = Call("dropDb", "here", "temp")
    OBVIOUS
  <2>4. <<q>> \in Seq(AllCalls) /\ \A i \in DOMAIN <<q>> : <<q>>[i].k \notin StreamKinds
    BY <2>2, <2>3
  <2>5. PICK calls : calls = <<q>>
    OBVIOUS
  <2>6. PICK a : a = <<>>
    OBVIOUS
  <2>7. StartJob("dropDb", a, calls, <<>>)
    BY <1>2, <2>1, <2>3, <2>5, <2>6
  <2>8. calls \in Seq(AllCalls) /\ \A i \in DOMAIN calls : calls[i].k \notin StreamKinds
    BY <2>4, <2>5
  <2>9. "dropDb" \in PlainOps
    BY DEF PlainOps
  <2> QED
    BY <1>1, <2>7, <2>8, <2>9, PlainKeepsInv
<1>3. CASE \E d \in Docs : StartJob("createDb", [d |-> d], CreateDatabase([d |-> d]), <<>>)
  <2>1. PICK d \in Docs : StartJob("createDb", [d |-> d], CreateDatabase([d |-> d]), <<>>)
    BY <1>3
  <2> DEFINE m == Call("mustNotExist", "here", "temp")
             i == Doc("insert", "here", "temp", d)
             r == Call("dropColl", "here", "temp")
  <2>2. CreateDatabase([d |-> d]) = <<m, i, r>>
    BY DEF CreateDatabase
  <2>3. m \in AllCalls /\ i \in AllCalls /\ r \in AllCalls
    BY DEF AllCalls, Call, Doc, Conns, Colls
  <2>4. m.k = "mustNotExist" /\ i.k = "insert" /\ r.k = "dropColl"
    BY DEF Call, Doc
  <2>5. PICK calls : calls = <<m, i, r>>
    OBVIOUS
  <2> HIDE DEF m, i
  <2>6. /\ calls \in Seq(AllCalls) /\ Len(calls) = 3 /\ DOMAIN calls = 1..3 /\ calls # <<>>
        /\ calls[1] = m /\ calls[2] = i /\ calls[3] = r
    BY <2>3, <2>5
  <2>7. <<>> \in Seq(AllCalls) /\ DOMAIN <<>> = {}
    OBVIOUS
  <2>8. /\ OpsTypeOK' /\ JobIsTyped' /\ SourceIsKept' /\ ExportOnlyReads' /\ ProgressCloses'
         /\ job'.op = "createDb" /\ job'.todo = calls /\ job'.rescue = <<>>
         /\ job'.matched = {} /\ job'.left = {} /\ job'.fails = 0 /\ ~job'.failed /\ job'.skipped = 0
    <3>1. PICK a : a = [d |-> d]
      OBVIOUS
    <3>2. StartJob("createDb", a, calls, <<>>)
      BY <2>1, <2>2, <2>5, <3>1
    <3> QED
      BY <1>1, <2>6, <2>7, <3>2, StartFacts
  <2>9. OthersDoNotStream'
    BY <2>4, <2>6, <2>7, <2>8 DEF OthersDoNotStream, StreamKinds
  <2>10. CopyIsInOrder' /\ IndexIsInOrder' /\ FunctionIsInOrder'
    BY <2>8 DEF CopyIsInOrder, IndexIsInOrder, FunctionIsInOrder
  <2>11. LastCallCounts'
    BY <2>6, <2>8 DEF LastCallCounts
  <2> QED
    BY <2>8, <2>9, <2>10, <2>11 DEF OpsInv
<1> QED
  BY <1>2, <1>3 DEF AskDatabase

LEMMA OneCallKeepsInv ==
  ASSUME OpsInv, jobs < MaxJobs, NEW op \in PlainOps, NEW a, NEW q \in AllCalls,
         q.k \notin StreamKinds, StartJob(op, a, <<q>>, <<>>)
  PROVE  OpsInv'
<1>1. PICK calls : calls = <<q>>
  OBVIOUS
<1>2. calls \in Seq(AllCalls) /\ \A i \in DOMAIN calls : calls[i].k \notin StreamKinds
  BY <1>1
<1> QED
  BY <1>1, <1>2, PlainKeepsInv

LEMMA TwoCallsKeepInv ==
  ASSUME OpsInv, jobs < MaxJobs, NEW op \in PlainOps, NEW a, NEW q \in AllCalls, NEW r \in AllCalls,
         q.k \notin StreamKinds, r.k \notin StreamKinds, StartJob(op, a, <<q, r>>, <<>>)
  PROVE  OpsInv'
<1>1. PICK calls : calls = <<q, r>>
  OBVIOUS
<1>2. calls \in Seq(AllCalls) /\ Len(calls) = 2 /\ DOMAIN calls = 1..2 /\ calls[1] = q /\ calls[2] = r
  BY <1>1
<1>3. \A i \in DOMAIN calls : calls[i].k \notin StreamKinds
  BY <1>2
<1> QED
  BY <1>1, <1>2, <1>3, PlainKeepsInv

\* A call on a collection of the first server.
LEMMA CallTyped ==
  ASSUME NEW c \in Colls, NEW h \in Conns,
         NEW k \in {"mustNotExist", "mustExist", "create", "dropColl", "dropDb", "open", "read",
                     "refuse", "outStage", "openFile", "writeFile", "createUser", "dropUser", "insertEach"}
  PROVE  /\ Call(k, h, c) \in AllCalls /\ Call(k, h, c).k = k
         /\ Call(k, h, c).h = h /\ Call(k, h, c).c = c
BY DEF Call, AllCalls

LEMMA CollectionKeepsInv ==
  ASSUME OpsInv, AskCollection
  PROVE  OpsInv'
<1>1. jobs < MaxJobs
  BY DEF AskCollection, Free
<1>2. PICK c \in {"x", "y"}, to \in {"x", "y"} :
       LET a == [c |-> c, to |-> to] IN
         \/ c = to /\ \/ StartJob("create", a, CreateCollection(a), <<>>)
                      \/ StartJob("drop", a, DropCollection(a), <<>>)
         \/ c # to /\ \/ StartJob("rename", a, RenameCollection(a), <<>>)
                      \/ StartJob("duplicate", a, DuplicateCollection(a), <<>>)
  BY DEF AskCollection
<1>3. PICK a : a = [c |-> c, to |-> to]
  OBVIOUS
<1>4. a.c = c /\ a.to = to /\ c \in Colls /\ to \in Colls /\ "here" \in Conns
  BY <1>3 DEF Colls, Conns
<1>5. CASE StartJob("create", a, CreateCollection(a), <<>>)
  <2>1. PICK q \in AllCalls, r \in AllCalls :
          q = Call("mustNotExist", "here", c) /\ r = Call("create", "here", c)
    BY <1>4, CallTyped
  <2>2. q.k \notin StreamKinds /\ r.k \notin StreamKinds
    BY <1>4, <2>1, CallTyped DEF StreamKinds
  <2>3. StartJob("create", a, <<q, r>>, <<>>)
    BY <1>4, <1>5, <2>1 DEF CreateCollection
  <2> QED
    BY <1>1, <2>2, <2>3, TwoCallsKeepInv DEF PlainOps
<1>6. CASE StartJob("drop", a, DropCollection(a), <<>>)
  <2>1. PICK q \in AllCalls, r \in AllCalls :
          q = Call("mustExist", "here", c) /\ r = Call("dropColl", "here", c)
    BY <1>4, CallTyped
  <2>2. q.k \notin StreamKinds /\ r.k \notin StreamKinds
    BY <1>4, <2>1, CallTyped DEF StreamKinds
  <2>3. StartJob("drop", a, <<q, r>>, <<>>)
    BY <1>4, <1>6, <2>1 DEF DropCollection
  <2> QED
    BY <1>1, <2>2, <2>3, TwoCallsKeepInv DEF PlainOps
<1>7. CASE StartJob("rename", a, RenameCollection(a), <<>>)
  <2>1. PICK q : q = [k |-> "rename", h |-> "here", c |-> a.c, to |-> a.to]
    OBVIOUS
  <2>2. q \in AllCalls /\ q.k \notin StreamKinds
    BY <1>4, <2>1 DEF AllCalls, StreamKinds
  <2>3. StartJob("rename", a, <<q>>, <<>>)
    BY <1>7, <2>1 DEF RenameCollection
  <2> QED
    BY <1>1, <2>2, <2>3, OneCallKeepsInv DEF PlainOps
<1>8. CASE c # to /\ StartJob("duplicate", a, DuplicateCollection(a), <<>>)
  <2> DEFINE m == Call("mustNotExist", "here", to)
             n == Call("create", "here", to)
             o == Call("open", "here", c)
             i == Call("insertEach", "here", to)
  <2>1. DuplicateCollection(a) = <<m, n, o, i>>
    BY <1>4 DEF DuplicateCollection
  <2>2. m \in AllCalls /\ n \in AllCalls /\ o \in AllCalls
    BY <1>4, CallTyped
  <2>3. i \in AllCalls
    BY <1>4, CallTyped
  <2>4. /\ m.k = "mustNotExist" /\ n.k = "create" /\ o.k = "open" /\ i.k = "insertEach"
        /\ m.h = "here" /\ n.h = "here" /\ i.h = "here" /\ m.c = to /\ n.c = to /\ i.c = to
    BY DEF Call
  <2>5. PICK calls : calls = <<m, n, o, i>>
    OBVIOUS
  <2> HIDE DEF m, n, o, i
  <2>6. /\ calls \in Seq(AllCalls) /\ Len(calls) = 4 /\ DOMAIN calls = 1..4 /\ calls # <<>>
        /\ calls[1] = m /\ calls[2] = n /\ calls[3] = o /\ calls[4] = i
    BY <2>2, <2>3, <2>5
  <2>7. <<>> \in Seq(AllCalls)
    OBVIOUS
  <2>8. /\ OpsTypeOK' /\ JobIsTyped' /\ SourceIsKept' /\ ExportOnlyReads' /\ ProgressCloses'
        /\ job'.op = "duplicate" /\ job'.a = a /\ job'.todo = calls /\ job'.rescue = <<>>
        /\ job'.matched = {} /\ job'.left = {} /\ job'.fails = 0 /\ ~job'.failed /\ job'.skipped = 0
    <3>1. StartJob("duplicate", a, calls, <<>>)
      BY <1>8, <2>1, <2>5
    <3> QED
      BY <1>1, <2>6, <2>7, <3>1, StartFacts
  <2>9. OthersDoNotStream' /\ IndexIsInOrder' /\ FunctionIsInOrder' /\ LastCallCounts'
    BY <2>8 DEF OthersDoNotStream, IndexIsInOrder, FunctionIsInOrder, LastCallCounts
  <2>10. Rank(m) = 0 /\ Rank(n) = 1 /\ Rank(o) = 2 /\ Rank(i) = 3
    BY <2>4 DEF Rank
  <2>11. Target' = [h |-> "here", c |-> to]
    BY <1>4, <2>8 DEF Target
  <2>12. \A j \in 1..4 : Rank(calls[j]) = j - 1
    BY <2>6, <2>10
  <2>13. Stage(job') = 0
    BY <2>6, <2>8, <2>10 DEF Stage
  <2>14. \A j \in DOMAIN calls : calls[j].k # "open" => calls[j].h = "here" /\ calls[j].c = to
    BY <2>4, <2>6
  <2>15. /\ \A j \in DOMAIN calls : Rank(calls[j]) \in 0..5
         /\ \A j \in DOMAIN calls :
              IF j < Len(calls) THEN Rank(calls[j + 1]) = Rank(calls[j]) + 1
              ELSE Rank(calls[j]) \in {3, 5}
    BY <2>6, <2>12
  <2>16. Target'.h = "here" /\ Target'.c = to
    BY <2>11
  <2>17. /\ Target'.h \in Conns /\ Target'.c \in {"x", "y"}
         /\ \A j \in DOMAIN calls : calls[j].k # "open" => calls[j].h = Target'.h /\ calls[j].c = Target'.c
    BY <1>4, <2>14, <2>16
  <2>18. CopyIsInOrder'
    BY <2>8, <2>13, <2>15, <2>17 DEF CopyIsInOrder
  <2> QED
    BY <2>8, <2>9, <2>18 DEF OpsInv
<1> QED
  BY <1>2, <1>3, <1>5, <1>6, <1>7, <1>8

LEMMA DocumentKeepsInv ==
  ASSUME OpsInv, AskDocument
  PROVE  OpsInv'
<1>1. jobs < MaxJobs
  BY DEF AskDocument, Free
<1>2. PICK d \in Docs, overwrite \in BOOLEAN, which \in SUBSET Docs :
       LET a == [c |-> "x", d |-> d, overwrite |-> overwrite, which |-> which] IN
         \/ which = {} /\ StartJob("save", a, SaveDocument(a), <<>>)
         \/ which # {} /\ ~overwrite /\ StartJob("remove", a, RemoveDocuments(a), <<>>)
         \/ which = {} /\ ~overwrite /\ StartJob("query", a, Query(a), <<>>)
  BY DEF AskDocument
<1>3. PICK a : a = [c |-> "x", d |-> d, overwrite |-> overwrite, which |-> which]
  OBVIOUS
<1>4. a.c = "x" /\ a.d = d /\ a.which = which
  BY <1>3
<1>5. CASE StartJob("save", a, SaveDocument(a), <<>>)
  <2>1. PICK k \in {"insert", "replace"} : k = IF a.overwrite THEN "replace" ELSE "insert"
    BY Zenon
  <2>2. PICK q : q = Doc(k, "here", "x", d)
    OBVIOUS
  <2>3. q \in AllCalls /\ q.k \notin StreamKinds
    BY <2>2 DEF AllCalls, StreamKinds, Doc, Conns, Colls
  <2>4. StartJob("save", a, <<q>>, <<>>)
    BY <1>4, <1>5, <2>1, <2>2 DEF SaveDocument
  <2> QED
    BY <1>1, <2>3, <2>4, OneCallKeepsInv DEF PlainOps
<1>6. CASE StartJob("remove", a, RemoveDocuments(a), <<>>)
  <2>1. PICK q : q = Doc("remove", "here", "x", which)
    OBVIOUS
  <2>2. q \in AllCalls /\ q.k \notin StreamKinds
    BY <2>1 DEF AllCalls, StreamKinds, Doc, Conns, Colls
  <2>3. StartJob("remove", a, <<q>>, <<>>)
    BY <1>4, <1>6, <2>1 DEF RemoveDocuments
  <2> QED
    BY <1>1, <2>2, <2>3, OneCallKeepsInv DEF PlainOps
<1>7. CASE StartJob("query", a, Query(a), <<>>)
  <2>1. PICK q : q = Call("read", "here", "x")
    OBVIOUS
  <2>2. q \in AllCalls /\ q.k \notin StreamKinds
    BY <2>1 DEF AllCalls, StreamKinds, Call, Conns, Colls
  <2>3. StartJob("query", a, <<q>>, <<>>)
    BY <1>4, <1>7, <2>1 DEF Query
  <2> QED
    BY <1>1, <2>2, <2>3, OneCallKeepsInv DEF PlainOps
<1> QED
  BY <1>2, <1>3, <1>5, <1>6, <1>7

LEMMA UserKeepsInv ==
  ASSUME OpsInv, AskUser
  PROVE  OpsInv'
<1>1. jobs < MaxJobs
  BY DEF AskUser, Free
<1>2. PICK a : a = <<>>
  OBVIOUS
<1>3. "x" \in Colls /\ "here" \in Conns
  BY DEF Colls, Conns
<1>4. CASE StartJob("createUser", <<>>, CreateUser(<<>>), <<>>)
  <2>1. PICK q \in AllCalls : q = Call("createUser", "here", "x") /\ q.k = "createUser"
    BY <1>3, CallTyped
  <2>2. StartJob("createUser", a, <<q>>, <<>>)
    BY <1>2, <1>4, <2>1 DEF CreateUser
  <2> QED
    BY <1>1, <2>1, <2>2, OneCallKeepsInv DEF PlainOps, StreamKinds
<1>5. CASE StartJob("dropUser", <<>>, DropUser(<<>>), <<>>)
  <2>1. PICK q \in AllCalls : q = Call("dropUser", "here", "x") /\ q.k = "dropUser"
    BY <1>3, CallTyped
  <2>2. StartJob("dropUser", a, <<q>>, <<>>)
    BY <1>2, <1>5, <2>1 DEF DropUser
  <2> QED
    BY <1>1, <2>1, <2>2, OneCallKeepsInv DEF PlainOps, StreamKinds
<1> QED
  BY <1>4, <1>5 DEF AskUser

LEMMA IndexKeepsInv ==
  ASSUME OpsInv, AskIndex
  PROVE  OpsInv'
<1>1. jobs < MaxJobs
  BY DEF AskIndex, Free
<1>2. PICK old \in IxNames \cup {Nothing}, new \in IxNames :
       LET a == [c |-> "x", old |-> old, new |-> new] IN
         \/ /\ old # Nothing => colls["here"]["x"].ix[old] = 1
            /\ StartJob("index", a, AddEditIndex(a), RecreateIndex(a))
         \/ old = new /\ StartJob("dropIndex", a, DropIndex(a), <<>>)
  BY DEF AskIndex
<1>3. PICK a : a = [c |-> "x", old |-> old, new |-> new]
  OBVIOUS
<1>4. a.c = "x" /\ a.old = old /\ a.new = new
  BY <1>3
<1>5. Nothing \notin IxNames
  BY DEF Nothing, IxNames
<1>6. PICK drop : drop = [k |-> "dropIndex", h |-> "here", c |-> "x", n |-> old]
  OBVIOUS
<1>7. old # Nothing => drop \in AllCalls /\ drop.k = "dropIndex"
  BY <1>6 DEF AllCalls, Conns, Colls
<1>8. CASE old = new /\ StartJob("dropIndex", a, DropIndex(a), <<>>)
  <2>1. StartJob("dropIndex", a, <<drop>>, <<>>)
    BY <1>4, <1>6, <1>8 DEF DropIndex
  <2> QED
    BY <1>1, <1>5, <1>7, <1>8, <2>1, OneCallKeepsInv DEF PlainOps, StreamKinds
<1>9. CASE /\ old # Nothing => colls["here"]["x"].ix[old] = 1
           /\ StartJob("index", a, AddEditIndex(a), RecreateIndex(a))
  <2>1. PICK create : create = Ix("createIndex", "here", "x", new, 2)
    OBVIOUS
  <2>2. PICK back : back = Ix("createIndex", "here", "x", old, 1)
    OBVIOUS
  <2>3. create \in AllCalls /\ create.k = "createIndex"
    BY <2>1 DEF Ix, AllCalls, Conns, Colls, Defs
  <2>4. old # Nothing => back \in AllCalls /\ back.k = "createIndex"
    BY <2>2 DEF Ix, AllCalls, Conns, Colls, Defs
  <2>5. PICK calls : calls = IF old = Nothing THEN <<create>> ELSE <<drop, create>>
    OBVIOUS
  <2>6. PICK rescue : rescue = IF old = Nothing THEN <<>> ELSE <<back>>
    OBVIOUS
  <2>7. AddEditIndex(a) = calls
    <3>1. AddEditIndex(a) = (IF old # Nothing THEN <<drop>> ELSE <<>>) \o <<create>>
      BY <1>4, <1>6, <2>1 DEF AddEditIndex, DropIndex
    <3>2. old # Nothing => <<drop>> \o <<create>> = <<drop, create>>
      BY <1>7, <2>3, PairOf
    <3>3. <<>> \o <<create>> = <<create>>
      BY <2>3, ConcatEmptySeq
    <3> QED
      BY <2>5, <3>1, <3>2, <3>3
  <2>8. RecreateIndex(a) = rescue
    BY <1>4, <2>2, <2>6 DEF RecreateIndex
  <2>9. calls \in Seq(AllCalls) /\ \A i \in DOMAIN calls : calls[i].k \in {"dropIndex", "createIndex"}
    <3>1. CASE old = Nothing
      <4>1. calls = <<create>>
        BY <2>5, <3>1
      <4> QED
        BY <2>3, <4>1
    <3>2. CASE old # Nothing
      <4>1. calls = <<drop, create>>
        BY <2>5, <3>2
      <4>2. calls \in Seq(AllCalls) /\ DOMAIN calls = 1..2 /\ calls[1] = drop /\ calls[2] = create
        BY <1>7, <2>3, <3>2, <4>1
      <4> QED
        BY <1>7, <2>3, <3>2, <4>2
    <3> QED
      BY <3>1, <3>2
  <2>10. rescue \in Seq(AllCalls) /\ \A i \in DOMAIN rescue : rescue[i].k = "createIndex"
    <3>1. CASE old = Nothing
      BY <2>6, <3>1
    <3>2. CASE old # Nothing
      <4>1. rescue = <<back>>
        BY <2>6, <3>2
      <4> QED
        BY <2>4, <3>2, <4>1
    <3> QED
      BY <3>1, <3>2
  <2>11. StartJob("index", a, calls, rescue)
    BY <1>9, <2>7, <2>8
  <2>12. /\ OpsTypeOK' /\ JobIsTyped' /\ SourceIsKept' /\ ExportOnlyReads' /\ ProgressCloses'
         /\ job'.op = "index" /\ job'.a = a /\ job'.todo = calls /\ job'.rescue = rescue
         /\ job'.matched = {} /\ job'.left = {} /\ job'.fails = 0 /\ ~job'.failed /\ job'.skipped = 0
         /\ UNCHANGED <<colls, fns, users, exportFile, others>>
    BY <1>1, <2>9, <2>10, <2>11, StartFacts
  <2>13. OthersDoNotStream'
    BY <2>9, <2>10, <2>12 DEF OthersDoNotStream, StreamKinds
  <2>14. CopyIsInOrder' /\ FunctionIsInOrder' /\ LastCallCounts'
    BY <2>12 DEF CopyIsInOrder, FunctionIsInOrder, LastCallCounts
  <2>15. IndexIsInOrder'
    <3>1. colls' = colls
      BY <2>12
    <3>2. \/ old # Nothing /\ calls = <<drop, create>> /\ colls["here"]["x"].ix[old] # 0
          \/ calls = <<create>> /\ old = Nothing
      BY <1>9, <2>5
    <3> QED
      BY <1>4, <1>6, <2>1, <2>2, <2>6, <2>12, <3>1, <3>2 DEF IndexIsInOrder
  <2> QED
    BY <2>12, <2>13, <2>14, <2>15 DEF OpsInv
<1> QED
  BY <1>2, <1>3, <1>8, <1>9

LEMMA FunctionKeepsInv ==
  ASSUME OpsInv, AskFunction
  PROVE  OpsInv'
<1>1. jobs < MaxJobs
  BY DEF AskFunction, Free
<1>2. PICK old \in FnNames \cup {Nothing}, new \in FnNames, modern \in BOOLEAN :
       LET a == [old |-> old, new |-> new, modern |-> modern] IN
         /\ old # Nothing => fns[old] # Nothing
         /\ \/ StartJob("function", a, SaveFunction(a), <<>>)
            \/ old = new /\ StartJob("dropFunction", a, DropFunction(a), <<>>)
  BY DEF AskFunction
<1>3. PICK a : a = [old |-> old, new |-> new, modern |-> modern]
  OBVIOUS
<1>4. a.old = old /\ a.new = new /\ a.modern = modern
  BY <1>3
<1>5. PICK insert : insert = Fn("insertFn", new, "new")
  OBVIOUS
<1>6. PICK replace : replace = Fn("replaceFn", new, "new")
  OBVIOUS
<1>7. PICK delete : delete = Fn("deleteFn", old, Nothing)
  OBVIOUS
<1>8. /\ insert \in AllCalls /\ insert.k = "insertFn" /\ replace \in AllCalls /\ replace.k = "replaceFn"
      /\ old # Nothing => delete \in AllCalls /\ delete.k = "deleteFn"
  <2>1. /\ insert \in AllCalls /\ insert.k = "insertFn"
    BY <1>5 DEF Fn, AllCalls, Conns, Colls, Codes
  <2>2. replace \in AllCalls /\ replace.k = "replaceFn"
    BY <1>6 DEF Fn, AllCalls, Conns, Colls, Codes
  <2>3. old # Nothing => delete \in AllCalls /\ delete.k = "deleteFn"
    BY <1>7 DEF Fn, AllCalls, Conns, Colls, Codes
  <2> QED
    BY <2>1, <2>2, <2>3
<1>9. Nothing \notin FnNames
  BY DEF Nothing, FnNames
<1>10. CASE old = new /\ StartJob("dropFunction", a, DropFunction(a), <<>>)
  <2>1. StartJob("dropFunction", a, <<delete>>, <<>>)
    BY <1>4, <1>7, <1>10 DEF DropFunction
  <2> QED
    BY <1>1, <1>8, <1>9, <1>10, <2>1, OneCallKeepsInv DEF PlainOps, StreamKinds
<1>11. CASE StartJob("function", a, SaveFunction(a), <<>>)
  <2>1. PICK calls : calls = SaveFunction(a)
    OBVIOUS
  <2>2. \/ (modern \/ old = new) /\ calls = <<replace>>
        \/ old = Nothing /\ calls = <<insert>>
        \/ old \notin {Nothing, new} /\ calls = <<insert, delete>>
    BY <1>4, <1>5, <1>6, <1>7, <2>1 DEF SaveFunction
  <2>3. calls \in Seq(AllCalls) /\ \A i \in DOMAIN calls : calls[i].k \in {"insertFn", "replaceFn", "deleteFn"}
    <3>1. CASE calls = <<replace>>
      BY <1>8, <3>1
    <3>2. CASE calls = <<insert>>
      BY <1>8, <3>2
    <3>3. CASE old # Nothing /\ calls = <<insert, delete>>
      <4>1. calls \in Seq(AllCalls) /\ DOMAIN calls = 1..2 /\ calls[1] = insert /\ calls[2] = delete
        BY <1>8, <3>3
      <4> QED
        BY <1>8, <3>3, <4>1
    <3> QED
      BY <2>2, <3>1, <3>2, <3>3
  <2>4. <<>> \in Seq(AllCalls) /\ DOMAIN <<>> = {}
    OBVIOUS
  <2>5. StartJob("function", a, calls, <<>>)
    BY <1>11, <2>1
  <2>6. /\ OpsTypeOK' /\ JobIsTyped' /\ SourceIsKept' /\ ExportOnlyReads' /\ ProgressCloses'
        /\ job'.op = "function" /\ job'.a = a /\ job'.todo = calls /\ job'.rescue = <<>>
        /\ job'.matched = {} /\ job'.left = {} /\ job'.fails = 0 /\ ~job'.failed /\ job'.skipped = 0
        /\ UNCHANGED <<colls, fns, users, exportFile, others>>
    BY <1>1, <2>3, <2>4, <2>5, StartFacts
  <2>7. OthersDoNotStream'
    BY <2>3, <2>4, <2>6 DEF OthersDoNotStream, StreamKinds
  <2>8. CopyIsInOrder' /\ IndexIsInOrder' /\ LastCallCounts'
    BY <2>6 DEF CopyIsInOrder, IndexIsInOrder, LastCallCounts
  <2>9. FunctionIsInOrder'
    <3>1. fns' = fns /\ (old # Nothing => fns[old] # Nothing)
      BY <1>2, <1>3, <2>6
    <3> QED
      BY <1>4, <1>5, <1>6, <1>7, <2>2, <2>6, <3>1 DEF FunctionIsInOrder
  <2> QED
    BY <2>6, <2>7, <2>8, <2>9 DEF OpsInv
<1> QED
  BY <1>2, <1>3, <1>10, <1>11

\* What a copy consists of.
LEMMA CopyCalls ==
  ASSUME NEW to \in [conn : Conns, c : {"x", "y"}], NEW dropFirst \in BOOLEAN, NEW copyIndexes \in BOOLEAN,
         NEW a, a = [c |-> "x", to |-> to, dropFirst |-> dropFirst, copyIndexes |-> copyIndexes],
         NEW calls, calls = CopyDocuments(a)
  PROVE  /\ calls \in Seq(AllCalls) /\ calls # <<>> /\ Rank(Head(calls)) \in {1, 2}
         /\ \A i \in DOMAIN calls : Rank(calls[i]) \in 0..5
         /\ \A i \in DOMAIN calls :
              IF i < Len(calls) THEN Rank(calls[i + 1]) = Rank(calls[i]) + 1
              ELSE Rank(calls[i]) \in {3, 5}
         /\ \A i \in DOMAIN calls :
              calls[i].k # "open" => calls[i].h = Host(to.conn) /\ calls[i].c = to.c
<1>1. PICK h \in Conns : h = Host(to.conn)
  BY DEF Host, Conns
<1>2. PICK c \in Colls : c = to.c
  BY DEF Colls
<1>3. PICK drop \in AllCalls : drop = Call("dropColl", h, c) /\ drop.k = "dropColl" /\ drop.h = h /\ drop.c = c
  BY CallTyped
<1>4. PICK open \in AllCalls : open = Call("open", "here", "x") /\ open.k = "open"
  <2>1. "here" \in Conns /\ "x" \in Colls
    BY DEF Conns, Colls
  <2> QED
    BY <2>1, CallTyped
<1>5. PICK ins \in AllCalls : /\ ins = Call("insertEach", h, c)
                              /\ ins.k = "insertEach" /\ ins.h = h /\ ins.c = c
  BY CallTyped
<1>6. PICK list \in AllCalls : /\ list = [k |-> "listIndexes", h |-> h, c |-> c, from |-> "x"]
                              /\ list.k = "listIndexes" /\ list.h = h /\ list.c = c
  <2>1. [k |-> "listIndexes", h |-> h, c |-> c, from |-> "x"] \in AllCalls
    BY DEF AllCalls, Colls
  <2> QED
    BY <2>1
<1>7. PICK each \in AllCalls : /\ each = [k |-> "createEach", h |-> h, c |-> c, from |-> "x"]
                              /\ each.k = "createEach" /\ each.h = h /\ each.c = c
  <2>1. [k |-> "createEach", h |-> h, c |-> c, from |-> "x"] \in AllCalls
    BY DEF AllCalls, Colls
  <2> QED
    BY <2>1
<1>8. PICK p : p = IF dropFirst THEN <<drop>> ELSE <<>>
  OBVIOUS
<1>22. p \in Seq(AllCalls) /\ Len(p) \in {0, 1} /\ (Len(p) = 1 => p[1] = drop)
  <2>1. CASE dropFirst
    <3>1. p = <<drop>>
      BY <1>8, <2>1
    <3> QED
      BY <3>1
  <2>2. CASE ~dropFirst
    <3>1. p = <<>>
      BY <1>8, <2>2
    <3> QED
      BY <3>1
  <2> QED
    BY <2>1, <2>2
<1>9. PICK t : t = IF copyIndexes THEN <<list, each>> ELSE <<>>
  OBVIOUS
<1>23. t \in Seq(AllCalls) /\ Len(t) \in {0, 2} /\ (Len(t) = 2 => t[1] = list /\ t[2] = each)
  <2>1. CASE copyIndexes
    <3>1. t = <<list, each>>
      BY <1>9, <2>1
    <3> QED
      BY <3>1
  <2>2. CASE ~copyIndexes
    <3>1. t = <<>>
      BY <1>9, <2>2
    <3> QED
      BY <3>1
  <2> QED
    BY <2>1, <2>2
<1>10. calls = (p \o <<open, ins>>) \o t
  <2>1. a.c = "x" /\ a.to = to /\ a.dropFirst = dropFirst /\ a.copyIndexes = copyIndexes
    OBVIOUS
  <2>2. calls = ((IF a.dropFirst THEN <<drop>> ELSE <<>>) \o <<open, ins>>)
                \o (IF a.copyIndexes THEN <<list, each>> ELSE <<>>)
    BY <1>1, <1>2, <1>3, <1>4, <1>5, <1>6, <1>7, <2>1 DEF CopyDocuments
  <2> QED
    BY <1>8, <1>9, <2>1, <2>2
<1>11. /\ calls \in Seq(AllCalls) /\ Len(calls) = Len(p) + 2 + Len(t)
       /\ \A i \in 1..Len(p) : calls[i] = p[i]
       /\ calls[Len(p) + 1] = open /\ calls[Len(p) + 2] = ins
       /\ \A i \in 1..Len(t) : calls[Len(p) + 2 + i] = t[i]
  <2>1. PICK s : s = (p \o <<open, ins>>) \o t
    OBVIOUS
  <2>2. /\ s \in Seq(AllCalls) /\ Len(s) = Len(p) + 2 + Len(t)
        /\ \A i \in 1..Len(p) : s[i] = p[i]
        /\ s[Len(p) + 1] = open /\ s[Len(p) + 2] = ins
        /\ \A i \in 1..Len(t) : s[Len(p) + 2 + i] = t[i]
    <3> USE <1>22, <1>23
    <3> HIDE <1>10
    <3>1. /\ (p \o <<open, ins>>) \o t \in Seq(AllCalls)
          /\ Len((p \o <<open, ins>>) \o t) = Len(p) + 2 + Len(t)
          /\ \A i \in 1..Len(p) : ((p \o <<open, ins>>) \o t)[i] = p[i]
          /\ ((p \o <<open, ins>>) \o t)[Len(p) + 1] = open
          /\ ((p \o <<open, ins>>) \o t)[Len(p) + 2] = ins
          /\ \A i \in 1..Len(t) : ((p \o <<open, ins>>) \o t)[Len(p) + 2 + i] = t[i]
      BY MiddleOf
    <3> QED
      BY <2>1, <3>1
  <2> QED
    BY <1>10, <2>1, <2>2
<1>12. PICK n \in {0, 1} : n = Len(p)
  BY <1>22
<1>13. /\ Len(calls) \in {n + 2, n + 4} /\ (n = 1 => calls[1] = drop)
       /\ calls[n + 1] = open /\ calls[n + 2] = ins
       /\ Len(calls) = n + 4 => calls[n + 3] = list /\ calls[n + 4] = each
  <2>1. n = 1 => calls[1] = drop
    BY <1>22, <1>11, <1>12
  <2>2. Len(calls) = n + 4 => Len(t) = 2
    BY <1>23, <1>11, <1>12
  <2>3. Len(t) = 2 => calls[Len(p) + 2 + 1] = list /\ calls[Len(p) + 2 + 2] = each
    BY <1>23, <1>11
  <2>4. Len(p) + 2 + 1 = n + 3 /\ Len(p) + 2 + 2 = n + 4
    BY <1>12
  <2>5. Len(t) = 2 => calls[n + 3] = list /\ calls[n + 4] = each
    BY <2>3, <2>4
  <2>6. Len(calls) \in {n + 2, n + 4}
    <3>1. Len(calls) = n + 2 + Len(t)
      BY <1>11, <1>12
    <3>2. Len(t) \in {0, 2}
      BY <1>23
    <3>3. CASE Len(t) = 0
      BY <1>12, <3>1, <3>3
    <3>4. CASE Len(t) = 2
      BY <1>12, <3>1, <3>4
    <3> QED
      BY <3>2, <3>3, <3>4
  <2>7. calls[n + 1] = open /\ calls[n + 2] = ins
    BY <1>11, <1>12
  <2> QED
    BY <2>1, <2>2, <2>5, <2>6, <2>7
<1>14. Rank(drop) = 1 /\ Rank(open) = 2 /\ Rank(ins) = 3 /\ Rank(list) = 4 /\ Rank(each) = 5
  BY <1>3, <1>4, <1>5, <1>6, <1>7 DEF Rank
<1>15. \A i \in 1..Len(calls) : Rank(calls[i]) = i + 1 - n
  <2>1. CASE n = 0
    BY <1>13, <1>14, <2>1
  <2>2. CASE n = 1
    BY <1>13, <1>14, <2>2
  <2> QED
    BY <2>1, <2>2
<1>16. Head(calls) = calls[1] /\ calls # <<>> /\ DOMAIN calls = 1..Len(calls)
  BY <1>11, <1>13
<1>17. \A i \in 1..Len(calls) : calls[i] \in {drop, open, ins, list, each}
  <2>1. CASE n = 0
    BY <1>13, <2>1
  <2>2. CASE n = 1
    BY <1>13, <2>2
  <2> QED
    BY <2>1, <2>2
<1>18. \A i \in DOMAIN calls : calls[i].k # "open" => calls[i].h = h /\ calls[i].c = c
  BY <1>3, <1>4, <1>5, <1>6, <1>7, <1>16, <1>17
<1>19. \A i \in DOMAIN calls : Rank(calls[i]) \in 0..5
  BY <1>14, <1>16, <1>17
<1>20. \A i \in DOMAIN calls :
              IF i < Len(calls) THEN Rank(calls[i + 1]) = Rank(calls[i]) + 1
              ELSE Rank(calls[i]) \in {3, 5}
  <2>1. SUFFICES ASSUME NEW i \in 1..Len(calls)
                 PROVE  IF i < Len(calls) THEN Rank(calls[i + 1]) = Rank(calls[i]) + 1
                        ELSE Rank(calls[i]) \in {3, 5}
    BY <1>16
  <2>2. Rank(calls[i]) = i + 1 - n
    BY <1>15
  <2>3. CASE i < Len(calls)
    <3>1. i + 1 \in 1..Len(calls)
      BY <1>11, <2>3
    <3>2. Rank(calls[i + 1]) = (i + 1) + 1 - n
      BY <1>15, <3>1
    <3> QED
      BY <2>2, <2>3, <3>2
  <2>4. CASE i = Len(calls)
    BY <1>13, <2>2, <2>4
  <2> QED
    BY <1>11, <2>3, <2>4
<1>21. Rank(Head(calls)) \in {1, 2}
  <2>1. CASE n = 0
    BY <1>13, <1>15, <1>16, <2>1
  <2>2. CASE n = 1
    BY <1>13, <1>15, <1>16, <2>2
  <2> QED
    BY <2>1, <2>2
<1> QED
  BY <1>1, <1>2, <1>11, <1>16, <1>18, <1>19, <1>20, <1>21

LEMMA CopyKeepsInv ==
  ASSUME OpsInv, AskCopy
  PROVE  OpsInv'
<1>1. jobs < MaxJobs
  BY DEF AskCopy, Free
<1>2. PICK to \in [conn : Conns, c : {"x", "y"}], dropFirst \in BOOLEAN, copyIndexes \in BOOLEAN :
       LET a == [c |-> "x", to |-> to, dropFirst |-> dropFirst, copyIndexes |-> copyIndexes] IN
         /\ colls["here"]["x"].exists /\ Accepts("x", to)
         /\ StartJob("copy", a, CopyDocuments(a), <<>>)
  BY DEF AskCopy
<1>3. PICK a : a = [c |-> "x", to |-> to, dropFirst |-> dropFirst, copyIndexes |-> copyIndexes]
  OBVIOUS
<1>4. PICK calls : calls = CopyDocuments(a)
  OBVIOUS
<1>5. a.to = to
  BY <1>3
<1>6. /\ calls \in Seq(AllCalls) /\ calls # <<>> /\ Rank(Head(calls)) \in {1, 2}
      /\ \A i \in DOMAIN calls : Rank(calls[i]) \in 0..5
      /\ \A i \in DOMAIN calls :
              IF i < Len(calls) THEN Rank(calls[i + 1]) = Rank(calls[i]) + 1
              ELSE Rank(calls[i]) \in {3, 5}
      /\ \A i \in DOMAIN calls :
              calls[i].k # "open" => calls[i].h = Host(to.conn) /\ calls[i].c = to.c
  BY <1>3, <1>4, CopyCalls
<1>7. StartJob("copy", a, calls, <<>>)
  BY <1>2, <1>3, <1>4
<1>8. <<>> \in Seq(AllCalls)
  OBVIOUS
<1>9. /\ OpsTypeOK' /\ JobIsTyped' /\ SourceIsKept' /\ ExportOnlyReads' /\ ProgressCloses'
      /\ job'.op = "copy" /\ job'.a = a /\ job'.todo = calls /\ job'.rescue = <<>>
      /\ job'.matched = {} /\ job'.left = {} /\ job'.fails = 0 /\ ~job'.failed /\ job'.skipped = 0
  BY <1>1, <1>6, <1>7, <1>8, StartFacts
<1>10. OthersDoNotStream' /\ IndexIsInOrder' /\ FunctionIsInOrder' /\ LastCallCounts'
  BY <1>9 DEF OthersDoNotStream, IndexIsInOrder, FunctionIsInOrder, LastCallCounts
<1>11. Target' = [h |-> Host(to.conn), c |-> to.c]
  BY <1>5, <1>9 DEF Target
<1>12. Target'.h = Host(to.conn) /\ Target'.c = to.c
  BY <1>11
<1>13. Host(to.conn) \in Conns /\ to.c \in {"x", "y"}
  BY DEF Host, Conns
<1>14. job'.a.c = "x"
  BY <1>3, <1>9
<1>15. Stage(job') \in {1, 2}
  BY <1>6, <1>9 DEF Stage
<1>16. \A i \in DOMAIN calls : calls[i].k # "open" => calls[i].h = Target'.h /\ calls[i].c = Target'.c
  BY <1>6, <1>12
<1>17. CopyIsInOrder'
  BY <1>6, <1>9, <1>12, <1>13, <1>14, <1>15, <1>16 DEF CopyIsInOrder
<1> QED
  BY <1>9, <1>10, <1>17 DEF OpsInv

LEMMA ExportKeepsInv ==
  ASSUME OpsInv, AskExport
  PROVE  OpsInv'
<1>1. jobs < MaxJobs
  BY DEF AskExport, Free
<1>2. PICK pipeline \in {"find", "aggregate", "out"} :
       StartJob("export", [pipeline |-> pipeline], Export([pipeline |-> pipeline]), <<>>)
  BY DEF AskExport
<1>3. PICK a : a = [pipeline |-> pipeline]
  OBVIOUS
<1>4. a.pipeline = pipeline
  BY <1>3
<1>5. "x" \in Colls /\ "here" \in Conns
  BY DEF Colls, Conns
<1>6. PICK refuse \in AllCalls : refuse = Call("refuse", "here", "x") /\ refuse.k = "refuse"
  BY <1>5, CallTyped
<1>7. PICK read \in AllCalls : /\ read = Call(IF pipeline = "out" THEN "outStage" ELSE "read", "here", "x")
                               /\ read.k \in {"outStage", "read"} /\ (read.k = "outStage" <=> pipeline = "out")
  <2>1. CASE pipeline = "out"
    BY <1>5, <2>1, CallTyped
  <2>2. CASE pipeline # "out"
    BY <1>5, <2>2, CallTyped
  <2> QED
    BY <2>1, <2>2
<1>8. PICK open \in AllCalls : open = Call("openFile", "here", "x") /\ open.k = "openFile"
  BY <1>5, CallTyped
<1>9. PICK write \in AllCalls : write = Call("writeFile", "here", "x") /\ write.k = "writeFile"
  BY <1>5, CallTyped
<1>10. PICK p : p = IF pipeline = "out" THEN <<refuse>> ELSE <<>>
  OBVIOUS
<1>23. /\ p \in Seq(AllCalls)
       /\ pipeline = "out" => Len(p) = 1 /\ p[1] = refuse
       /\ pipeline # "out" => Len(p) = 0
  <2>1. CASE pipeline = "out"
    <3>1. p = <<refuse>>
      BY <1>10, <2>1
    <3> QED
      BY <2>1, <3>1
  <2>2. CASE pipeline # "out"
    <3>1. p = <<>>
      BY <1>10, <2>2
    <3> QED
      BY <2>2, <3>1
  <2> QED
    BY <2>1, <2>2
<1>11. PICK r : r = <<read, open, write>>
  OBVIOUS
<1>12. r \in Seq(AllCalls) /\ Len(r) = 3 /\ r[1] = read /\ r[2] = open /\ r[3] = write
  BY <1>11
<1>13. PICK calls : calls = p \o r
  OBVIOUS
<1>14. calls = Export(a)
  <2>1. PipelineCheck(a) = p
    BY <1>4, <1>6, <1>10 DEF PipelineCheck
  <2>2. Export(a) = PipelineCheck(a)
          \o <<Call(IF a.pipeline = "out" THEN "outStage" ELSE "read", "here", "x"),
               Call("openFile", "here", "x"), Call("writeFile", "here", "x")>>
    BY DEF Export
  <2> QED
    BY <1>4, <1>7, <1>8, <1>9, <1>11, <1>13, <2>1, <2>2
<1>15. /\ calls \in Seq(AllCalls) /\ Len(calls) = Len(p) + Len(r)
       /\ \A i \in 1..(Len(p) + Len(r)) : calls[i] = IF i <= Len(p) THEN p[i] ELSE r[i - Len(p)]
  BY <1>12, <1>13, <1>23, ConcatProperties
<1>16. /\ \A i \in DOMAIN calls : /\ calls[i].k \in {"refuse", "outStage", "read", "openFile", "writeFile"}
                                 /\ (calls[i].k = "outStage" => Head(calls).k = "refuse")
       /\ calls # <<>> /\ calls[Len(calls)].k = "writeFile"
  <2>1. Head(calls) = calls[1] /\ calls # <<>> /\ DOMAIN calls = 1..Len(calls)
    BY <1>23, <1>12, <1>15
  <2>2. CASE pipeline = "out"
    <3>1. Len(calls) = 4 /\ calls[1] = refuse /\ calls[2] = read /\ calls[3] = open /\ calls[4] = write
      <4>1. Len(p) = 1 /\ Len(r) = 3 /\ Len(calls) = 4
        <5>1. Len(p) = 1 /\ Len(r) = 3
          BY <1>23, <1>12, <2>2
        <5>2. Len(calls) = Len(p) + Len(r)
          BY <1>15
        <5> QED
          BY <5>1, <5>2
      <4>2. calls[1] = p[1] /\ calls[2] = r[2 - 1] /\ calls[3] = r[3 - 1] /\ calls[4] = r[4 - 1]
        BY <1>15, <4>1
      <4> QED
        BY <1>23, <1>12, <2>2, <4>1, <4>2
    <3> QED
      BY <1>6, <1>7, <1>8, <1>9, <2>1, <3>1
  <2>3. CASE pipeline # "out"
    <3>1. Len(calls) = 3 /\ calls[1] = read /\ calls[2] = open /\ calls[3] = write
      BY <1>23, <1>12, <1>15, <2>3
    <3> QED
      BY <1>7, <1>8, <1>9, <2>1, <2>3, <3>1
  <2> QED
    BY <2>2, <2>3
<1>17. <<>> \in Seq(AllCalls) /\ DOMAIN <<>> = {}
  OBVIOUS
<1>18. StartJob("export", a, calls, <<>>)
  BY <1>2, <1>3, <1>14
<1>19. /\ OpsTypeOK' /\ JobIsTyped' /\ SourceIsKept' /\ ExportOnlyReads' /\ ProgressCloses'
      /\ job'.op = "export" /\ job'.a = a /\ job'.todo = calls /\ job'.rescue = <<>>
      /\ job'.matched = {} /\ job'.left = {} /\ job'.fails = 0 /\ ~job'.failed /\ job'.skipped = 0
  BY <1>1, <1>15, <1>17, <1>18, StartFacts
<1>20. CopyIsInOrder' /\ IndexIsInOrder' /\ FunctionIsInOrder'
  BY <1>19 DEF CopyIsInOrder, IndexIsInOrder, FunctionIsInOrder
<1>21. OthersDoNotStream'
  BY <1>16, <1>17, <1>19 DEF OthersDoNotStream, StreamKinds
<1>22. LastCallCounts'
  BY <1>16, <1>19 DEF LastCallCounts
<1> QED
  BY <1>19, <1>20, <1>21, <1>22 DEF OpsInv

-----------------------------------------------------------------------------
\* The order of a copy's calls, without the first of them.
LEMMA TailInOrder ==
  ASSUME NEW todo \in Seq(AllCalls), todo # <<>>, NEW h, NEW c,
         \A i \in DOMAIN todo : Rank(todo[i]) \in 0..5,
         \A i \in DOMAIN todo :
           IF i < Len(todo) THEN Rank(todo[i + 1]) = Rank(todo[i]) + 1 ELSE Rank(todo[i]) \in {3, 5},
         \A i \in DOMAIN todo : todo[i].k # "open" => todo[i].h = h /\ todo[i].c = c
  PROVE  LET rest == Tail(todo) IN
         /\ \A i \in DOMAIN rest : Rank(rest[i]) \in 0..5
         /\ \A i \in DOMAIN rest :
              IF i < Len(rest) THEN Rank(rest[i + 1]) = Rank(rest[i]) + 1 ELSE Rank(rest[i]) \in {3, 5}
         /\ \A i \in DOMAIN rest : rest[i].k # "open" => rest[i].h = h /\ rest[i].c = c
         /\ rest # <<>> => Rank(Head(rest)) = Rank(Head(todo)) + 1
         /\ rest = <<>> => Rank(Head(todo)) \in {3, 5}
         /\ Rank(Head(todo)) \in 0..5
<1>1. PICK rest : rest = Tail(todo)
  OBVIOUS
<1>2. /\ rest \in Seq(AllCalls) /\ Len(todo) \in Nat \ {0} /\ Len(rest) = Len(todo) - 1
      /\ \A i \in 1..Len(rest) : rest[i] = todo[i + 1]
      /\ Head(todo) = todo[1] /\ DOMAIN todo = 1..Len(todo) /\ DOMAIN rest = 1..Len(rest)
  BY <1>1
<1>3. \A i \in 1..Len(rest) : i + 1 \in 1..Len(todo) /\ (i < Len(rest) <=> i + 1 < Len(todo))
  BY <1>2
<1>4. /\ \A i \in DOMAIN rest : Rank(rest[i]) \in 0..5
      /\ \A i \in DOMAIN rest : rest[i].k # "open" => rest[i].h = h /\ rest[i].c = c
  <2>1. ASSUME NEW i \in DOMAIN rest
        PROVE  Rank(rest[i]) \in 0..5 /\ (rest[i].k # "open" => rest[i].h = h /\ rest[i].c = c)
    <3>1. PICK j \in DOMAIN todo : j = i + 1 /\ rest[i] = todo[j]
      BY <1>2, <1>3
    <3> QED
      BY <3>1, Zenon
  <2> QED
    BY <2>1, Zenon
<1>5. ASSUME NEW i \in 1..Len(rest)
      PROVE  IF i < Len(rest) THEN Rank(rest[i + 1]) = Rank(rest[i]) + 1 ELSE Rank(rest[i]) \in {3, 5}
  <2>1. PICK j \in 1..Len(todo) : j = i + 1 /\ (i < Len(rest) <=> j < Len(todo))
    BY <1>3
  <2>2. IF j < Len(todo) THEN Rank(todo[j + 1]) = Rank(todo[j]) + 1 ELSE Rank(todo[j]) \in {3, 5}
    BY <1>2
  <2>3. rest[i] = todo[j]
    BY <1>2, <2>1
  <2>4. i < Len(rest) => rest[i + 1] = todo[j + 1]
    BY <1>2, <2>1
  <2> QED
    BY <2>1, <2>2, <2>3, <2>4
<1>6. rest # <<>> => Rank(Head(rest)) = Rank(Head(todo)) + 1
  <2>1. SUFFICES ASSUME rest # <<>> PROVE Rank(Head(rest)) = Rank(Head(todo)) + 1
    OBVIOUS
  <2>2. 1 \in 1..Len(rest) /\ Head(rest) = rest[1] /\ rest[1] = todo[2] /\ 1 \in DOMAIN todo /\ 1 < Len(todo)
    BY <1>2, <2>1
  <2>3. Rank(todo[1 + 1]) = Rank(todo[1]) + 1
    BY <2>2
  <2> QED
    BY <1>2, <2>2, <2>3
<1>7. rest = <<>> => Rank(Head(todo)) \in {3, 5}
  <2>1. SUFFICES ASSUME rest = <<>> PROVE Rank(Head(todo)) \in {3, 5}
    OBVIOUS
  <2>2. 1 \in DOMAIN todo /\ ~(1 < Len(todo))
    BY <1>2, <2>1
  <2> QED
    BY <1>2, <2>2
<1>8. Rank(Head(todo)) \in 0..5
  <2>1. 1 \in DOMAIN todo
    BY <1>2
  <2> QED
    BY <1>2, <2>1
<1> QED
  BY <1>1, <1>2, <1>4, <1>5, <1>6, <1>7, <1>8

\* An operation that an exception ends, or whose failed rescue is swallowed, whatever the call
\* that failed has done at the server of what it was to do.
LEMMA ThrownKeepsInv ==
  ASSUME OpsInv, job.state = "running", job.todo # <<>>, job' = Thrown(job),
         colls' \in [Conns -> [Colls -> Collections]],
         \A h \in Conns, c \in Colls : ~colls'[h][c].exists => colls'[h][c] = NoCollection,
         fns' \in [FnNames -> Codes \cup {Nothing}], users' \in BOOLEAN,
         exportFile' \in {"previous", "partial", "whole"},
         job.op = "function" => \/ fns' = fns
                               \/ fns'[job.a.new] = "new",
         job.op = "copy" /\ ~OntoItself(job.a) => colls'["here"]["x"] = colls["here"]["x"],
         job.op = "export" => colls' = colls,
         UNCHANGED <<progress, jobs, others>>
  PROVE  OpsInv'
<1>1. PICK todo : todo = IF job.failed THEN Tail(job.todo)
                         ELSE IF Head(job.todo).k = "dropIndex" THEN <<>> ELSE job.rescue
  OBVIOUS
<1>16. PICK broke : broke = IF job.failed THEN job.broke ELSE Head(job.todo).k
  OBVIOUS
<1>2. JobIsTyped
  BY DEF OpsInv
<1>3. job' = [op |-> job.op, state |-> job.state, todo |-> todo, rescue |-> job.rescue,
              a |-> job.a, left |-> job.left, names |-> job.names, matched |-> job.matched,
              copied |-> job.copied, skipped |-> job.skipped, fails |-> job.fails + 1,
              failed |-> TRUE, broke |-> broke, before |-> job.before]
  <2>1. job' = [job EXCEPT !.fails = job.fails + 1, !.failed = TRUE, !.broke = broke, !.todo = todo]
    BY <1>1, <1>16, Zenon DEF Thrown
  <2>2. JobIsRecord
    BY <1>2 DEF JobIsTyped
  <2> QED
    BY <2>1, <2>2 DEF JobIsRecord
<1>4. /\ job'.op = job.op /\ job'.state = job.state /\ job'.todo = todo /\ job'.rescue = job.rescue
      /\ job'.a = job.a /\ job'.left = job.left /\ job'.names = job.names /\ job'.matched = job.matched
      /\ job'.copied = job.copied /\ job'.skipped = job.skipped /\ job'.fails = job.fails + 1
      /\ job'.broke = broke /\ job'.before = job.before
  BY <1>3
<1>5. job'.failed = TRUE
  BY <1>3
<1>6. /\ job.todo \in Seq(AllCalls) /\ job.rescue \in Seq(AllCalls) /\ job.fails \in Nat
      /\ Tail(job.todo) \in Seq(AllCalls)
      /\ DOMAIN Tail(job.todo) = 1..(Len(job.todo) - 1) /\ DOMAIN job.todo = 1..Len(job.todo)
      /\ \A i \in DOMAIN Tail(job.todo) : i + 1 \in DOMAIN job.todo /\ Tail(job.todo)[i] = job.todo[i + 1]
  BY <1>2 DEF JobIsTyped
<1>7. todo \in Seq(AllCalls)
  BY <1>1, <1>6
<1>8. OpsTypeOK'
  BY <1>4 DEF OpsInv, OpsTypeOK
<1>9. JobIsTyped'
  <2>1. JobIsRecord'
    BY <1>3, <1>4, <1>5, Zenon DEF JobIsRecord
  <2>2. (job'.fails > 0) = TRUE
    BY <1>4, <1>6
  <2>3. job'.failed = (job'.fails > 0)
    BY <1>5, <2>2, Zenon
  <2> QED
    BY <1>2, <1>4, <1>6, <1>7, <2>1, <2>3 DEF JobIsTyped
<1>10. OthersDoNotStream'
  <2>1. SUFFICES ASSUME job.op \notin {"copy", "duplicate"}
                 PROVE  /\ \A i \in DOMAIN todo : todo[i].k \notin StreamKinds
                        /\ \A i \in DOMAIN job.rescue : job.rescue[i].k \notin StreamKinds
                        /\ job.matched = {} /\ job.left = {}
    BY <1>4 DEF OthersDoNotStream
  <2>2. /\ \A i \in DOMAIN job.todo : job.todo[i].k \notin StreamKinds
        /\ \A i \in DOMAIN job.rescue : job.rescue[i].k \notin StreamKinds
        /\ job.matched = {} /\ job.left = {}
    BY <2>1 DEF OpsInv, OthersDoNotStream
  <2>3. CASE todo = Tail(job.todo)
    BY <1>6, <2>2, <2>3
  <2>4. CASE todo = <<>> \/ todo = job.rescue
    BY <2>2, <2>4
  <2> QED
    BY <1>1, <2>2, <2>3, <2>4
<1>11. CopyIsInOrder'
  <2>1. SUFFICES ASSUME job.op \in {"copy", "duplicate"} PROVE CopyIsInOrder'
    BY <1>4 DEF CopyIsInOrder
  <2>2. CopyIsInOrder /\ job.rescue = <<>>
    BY <2>1 DEF OpsInv, CopyIsInOrder
  <2>3. Target' = Target
    BY <1>4 DEF Target
  <2>4. PICK h, c : h = Target.h /\ c = Target.c
    OBVIOUS
  <2>5. todo = <<>> \/ todo = Tail(job.todo)
    BY <1>1, <2>2
  <2>6. /\ \A i \in DOMAIN job.todo : Rank(job.todo[i]) \in 0..5
        /\ \A i \in DOMAIN job.todo :
             IF i < Len(job.todo) THEN Rank(job.todo[i + 1]) = Rank(job.todo[i]) + 1
             ELSE Rank(job.todo[i]) \in {3, 5}
        /\ \A i \in DOMAIN job.todo : job.todo[i].k # "open" => job.todo[i].h = h /\ job.todo[i].c = c
        /\ Rank(Head(job.todo)) \in 0..2 => job.matched = {} /\ job.left = {}
    BY <2>1, <2>2, <2>4 DEF CopyIsInOrder, Stage
  <2>11. LET rest == Tail(job.todo) IN
         /\ \A i \in DOMAIN rest : Rank(rest[i]) \in 0..5
         /\ \A i \in DOMAIN rest :
              IF i < Len(rest) THEN Rank(rest[i + 1]) = Rank(rest[i]) + 1 ELSE Rank(rest[i]) \in {3, 5}
         /\ \A i \in DOMAIN rest : rest[i].k # "open" => rest[i].h = h /\ rest[i].c = c
         /\ rest # <<>> => Rank(Head(rest)) = Rank(Head(job.todo)) + 1
         /\ rest = <<>> => Rank(Head(job.todo)) \in {3, 5}
         /\ Rank(Head(job.todo)) \in 0..5
    <3>1. PICK old \in Seq(AllCalls) : old = job.todo
      BY <1>6
    <3>2. /\ \A i \in DOMAIN old : Rank(old[i]) \in 0..5
          /\ \A i \in DOMAIN old :
             IF i < Len(old) THEN Rank(old[i + 1]) = Rank(old[i]) + 1 ELSE Rank(old[i]) \in {3, 5}
          /\ \A i \in DOMAIN old : old[i].k # "open" => old[i].h = h /\ old[i].c = c
          /\ old # <<>>
      BY <2>6, <3>1
    <3>3. LET rest == Tail(old) IN
         /\ \A i \in DOMAIN rest : Rank(rest[i]) \in 0..5
         /\ \A i \in DOMAIN rest :
              IF i < Len(rest) THEN Rank(rest[i + 1]) = Rank(rest[i]) + 1 ELSE Rank(rest[i]) \in {3, 5}
         /\ \A i \in DOMAIN rest : rest[i].k # "open" => rest[i].h = h /\ rest[i].c = c
         /\ rest # <<>> => Rank(Head(rest)) = Rank(Head(old)) + 1
         /\ rest = <<>> => Rank(Head(old)) \in {3, 5}
         /\ Rank(Head(old)) \in 0..5
      BY <3>2, TailInOrder
    <3> QED
      BY <3>1, <3>3
  <2>7. /\ \A i \in DOMAIN todo : Rank(todo[i]) \in 0..5
        /\ \A i \in DOMAIN todo :
             IF i < Len(todo) THEN Rank(todo[i + 1]) = Rank(todo[i]) + 1 ELSE Rank(todo[i]) \in {3, 5}
        /\ \A i \in DOMAIN todo : todo[i].k # "open" => todo[i].h = h /\ todo[i].c = c
    <3>1. CASE todo = <<>>
      BY <3>1
    <3>2. CASE todo = Tail(job.todo)
      BY <2>11, <3>2
    <3> QED
      BY <2>5, <3>1, <3>2
  <2>8. Stage(job') \in 0..2 => job.matched = {} /\ job.left = {}
    <3>1. todo = Tail(job.todo) /\ todo # <<>> => /\ Rank(Head(todo)) = Rank(Head(job.todo)) + 1
                                                 /\ Rank(Head(job.todo)) \in 0..5
      BY <2>11
    <3> QED
      BY <1>4, <2>5, <2>6, <3>1 DEF Stage
  <2>9. /\ Target.h \in Conns /\ Target.c \in {"x", "y"}
        /\ job.op = "copy" => job.a.c = "x"
        /\ job.op = "duplicate" => job.skipped = 0
    BY <2>1, <2>2 DEF CopyIsInOrder
  <2> QED
    BY <1>4, <1>5, <2>2, <2>3, <2>4, <2>7, <2>8, <2>9 DEF CopyIsInOrder
<1>12. IndexIsInOrder'
  <2>1. SUFFICES ASSUME job.op = "index" PROVE IndexIsInOrder'
    BY <1>4 DEF IndexIsInOrder
  <2>2. PICK a : a = job.a
    OBVIOUS
  <2>3. PICK create : create = Ix("createIndex", "here", "x", a.new, 2)
    OBVIOUS
  <2>4. PICK drop : drop = [k |-> "dropIndex", h |-> "here", c |-> "x", n |-> a.old]
    OBVIOUS
  <2>10. create.k = "createIndex" /\ drop.k = "dropIndex"
    BY <2>3, <2>4 DEF Ix
  <2>5. PICK back : back = Ix("createIndex", "here", "x", a.old, 1)
    OBVIOUS
  <2>7. /\ a.old \in IxNames \cup {Nothing} /\ a.new \in IxNames
        /\ job.rescue = IF a.old = Nothing THEN <<>> ELSE <<back>>
        /\ \/ ~job.failed /\ job.todo = <<drop, create>>
           \/ ~job.failed /\ job.todo = <<create>>
           \/ job.failed /\ a.old # Nothing /\ job.todo = <<back>>
    BY <2>1, <2>2, <2>3, <2>4, <2>5 DEF OpsInv, IndexIsInOrder
  <2>8. \/ /\ todo = <<>> /\ (a.old # Nothing => job'.fails >= 2 \/ job'.broke = "dropIndex")
        \/ /\ a.old # Nothing /\ todo = <<back>>
    <3>1. CASE ~job.failed /\ job.todo = <<drop, create>>
      <4>1. Head(job.todo) = drop
        BY <3>1
      <4> QED
        BY <1>1, <1>16, <1>4, <2>10, <3>1, <4>1
    <3>2. CASE ~job.failed /\ job.todo = <<create>>
      BY <1>1, <2>7, <2>10, <3>2
    <3>3. CASE job.failed /\ a.old # Nothing /\ job.todo = <<back>>
      <4>1. job.failed = (job.fails > 0)
        BY <1>2 DEF JobIsTyped
      <4>2. job.fails > 0
        BY <3>3, <4>1, Zenon
      <4>3. job.fails + 1 >= 2
        BY <1>6, <4>2
      <4> QED
        BY <1>1, <1>4, <3>3, <4>3
    <3> QED
      BY <2>7, <3>1, <3>2, <3>3
  <2> QED
    BY <1>4, <1>5, <2>2, <2>3, <2>4, <2>5, <2>7, <2>8 DEF IndexIsInOrder
<1>13. FunctionIsInOrder'
  <2>1. SUFFICES ASSUME job.op = "function" PROVE FunctionIsInOrder'
    BY <1>4 DEF FunctionIsInOrder
  <2>2. PICK a : a = job.a
    OBVIOUS
  <2>3. /\ a.old \in FnNames \cup {Nothing} /\ a.new \in FnNames /\ a.modern \in BOOLEAN
        /\ job.rescue = <<>> /\ ~job.failed
        /\ (a.old # Nothing => fns[a.old] # Nothing) \/ fns[a.new] = "new"
    BY <2>1, <2>2 DEF OpsInv, FunctionIsInOrder
  <2>4. todo = <<>> /\ ((a.old # Nothing => fns'[a.old] # Nothing) \/ fns'[a.new] = "new")
    BY <1>1, <2>1, <2>2, <2>3
  <2> QED
    BY <1>4, <1>5, <2>1, <2>2, <2>3, <2>4 DEF FunctionIsInOrder
<1>14. LastCallCounts'
  <2>1. job.op \in {"createDb", "export"} => job.rescue = <<>>
    BY DEF OpsInv, LastCallCounts
  <2>2. job.op = "export" => todo = <<>>
    BY <1>1, <2>1 DEF OpsInv, LastCallCounts
  <2> QED
    BY <1>4, <1>5, <2>1, <2>2 DEF LastCallCounts
<1>15. ExportOnlyReads' /\ ProgressCloses'
  BY <1>4 DEF OpsInv, ExportOnlyReads, ProgressCloses
<1>17. SourceIsKept'
  BY <1>4 DEF OpsInv, SourceIsKept, SourceStays, OntoItself
<1> QED
  BY <1>8, <1>9, <1>10, <1>11, <1>12, <1>13, <1>14, <1>15, <1>17 DEF OpsInv

\* Which collections a call changes.
LEMMA ServerCells ==
  ASSUME OpsTypeOK, NEW q \in AllCalls, q.k \notin {"dropDb", "rename", "outStage"}, ServerDoes(q)
  PROVE  /\ q.h \in Conns /\ q.c \in Colls
         /\ colls'[q.h][q.c] = After(q)
         /\ \A h \in Conns, c \in Colls : ~(h = q.h /\ c = q.c) => colls'[h][c] = colls[h][c]
<1> DEFINE new == [c \in Colls |-> IF c = q.c THEN After(q)
                        ELSE IF q.k = "dropDb" THEN NoCollection
                        ELSE IF q.k = "rename" /\ c = q.to THEN colls[q.h][q.c]
                        ELSE IF q.k = "outStage" /\ c = "y" THEN Holding(colls[q.h]["x"].docs)
                        ELSE colls[q.h][c]]
<1>1. q.h \in Conns /\ q.c \in Colls
  BY DEF AllCalls
<1>2. colls \in [Conns -> [Colls -> Collections]]
  BY DEF OpsTypeOK
<1>3. colls' = [colls EXCEPT ![q.h] = new]
  BY DEF ServerDoes
<1>4. new[q.c] = After(q) /\ \A c \in Colls : c # q.c => new[c] = colls[q.h][c]
  BY <1>1
<1> HIDE DEF new
<1> QED
  BY <1>1, <1>2, <1>3, <1>4

\* The calls that only look.
LEMMA QuietCall ==
  ASSUME OpsTypeOK, NEW q \in AllCalls, q.k \in {"open", "read", "openFile", "writeFile", "listIndexes"},
         ServerDoes(q)
  PROVE  colls' = colls /\ fns' = fns
<1>1. /\ q.h \in Conns /\ q.c \in Colls /\ colls'[q.h][q.c] = After(q)
      /\ \A h \in Conns, c \in Colls : ~(h = q.h /\ c = q.c) => colls'[h][c] = colls[h][c]
  BY ServerCells
<1>2. After(q) = colls[q.h][q.c]
  BY DEF After
<1>3. \A h \in Conns, c \in Colls : colls'[h][c] = colls[h][c]
  BY <1>1, <1>2
<1>4. colls \in [Conns -> [Colls -> Collections]]
  BY DEF OpsTypeOK
<1>5. colls' \in [Conns -> [Colls -> Collections]]
  <2>1. ~Refused(q)
    BY DEF Refused
  <2> QED
    BY <2>1, ServerTyped
<1>6. \A h \in Conns : colls'[h] = colls[h]
  <2>1. SUFFICES ASSUME NEW h \in Conns PROVE colls'[h] = colls[h]
    OBVIOUS
  <2>2. PICK f, g : f = colls[h] /\ g = colls'[h]
    OBVIOUS
  <2>3. f \in [Colls -> Collections] /\ g \in [Colls -> Collections] /\ \A c \in Colls : g[c] = f[c]
    BY <1>3, <1>4, <1>5, <2>2
  <2> QED
    BY <2>2, <2>3
<1>7. colls' = colls
  BY <1>4, <1>5, <1>6
<1> QED
  BY <1>7 DEF ServerDoes

\* What the calls of an operation are once the first is done.
LEMMA TodoFacts ==
  ASSUME JobIsTyped, job.todo # <<>>
  PROVE  /\ Head(job.todo) \in AllCalls /\ Head(job.todo) = job.todo[1] /\ Tail(job.todo) \in Seq(AllCalls)
         /\ Len(job.todo) \in Nat \ {0} /\ Len(Tail(job.todo)) = Len(job.todo) - 1
         /\ DOMAIN Tail(job.todo) = 1..(Len(job.todo) - 1) /\ DOMAIN job.todo = 1..Len(job.todo)
         /\ \A i \in DOMAIN Tail(job.todo) : i + 1 \in DOMAIN job.todo /\ Tail(job.todo)[i] = job.todo[i + 1]
         /\ Tail(job.todo) = <<>> <=> Len(job.todo) = 1
         /\ Tail(job.todo) # <<>> => Tail(job.todo)[Len(Tail(job.todo))] = job.todo[Len(job.todo)]
         /\ Tail(job.todo) = <<>> => job.todo[Len(job.todo)] = Head(job.todo)
<1>1. PICK s \in Seq(AllCalls) : s = job.todo
  BY DEF JobIsTyped
<1>2. /\ Head(s) \in AllCalls /\ Head(s) = s[1] /\ Tail(s) \in Seq(AllCalls)
      /\ Len(s) \in Nat \ {0} /\ Len(Tail(s)) = Len(s) - 1
      /\ DOMAIN Tail(s) = 1..(Len(s) - 1) /\ DOMAIN s = 1..Len(s)
      /\ \A i \in DOMAIN Tail(s) : i + 1 \in DOMAIN s /\ Tail(s)[i] = s[i + 1]
      /\ (Tail(s) = <<>> <=> Len(s) = 1)
  <2>1. s # <<>>
    BY <1>1
  <2>2. /\ Head(s) \in AllCalls /\ Head(s) = s[1] /\ Tail(s) \in Seq(AllCalls)
        /\ Len(s) \in Nat \ {0} /\ Len(Tail(s)) = Len(s) - 1 /\ DOMAIN s = 1..Len(s)
    BY <2>1
  <2>3. DOMAIN Tail(s) = 1..(Len(s) - 1)
    BY <2>1
  <2>4. \A i \in DOMAIN Tail(s) : i + 1 \in DOMAIN s /\ Tail(s)[i] = s[i + 1]
    BY <2>1
  <2>5. Tail(s) = <<>> <=> Len(s) = 1
    BY <2>2
  <2> QED
    BY <2>2, <2>3, <2>4, <2>5
<1>3. Tail(s) # <<>> => Tail(s)[Len(Tail(s))] = s[Len(s)]
  <2>1. SUFFICES ASSUME Tail(s) # <<>> PROVE Tail(s)[Len(Tail(s))] = s[Len(s)]
    OBVIOUS
  <2>2. Len(s) - 1 \in 1..(Len(s) - 1) /\ (Len(s) - 1) + 1 = Len(s)
    BY <1>2, <2>1
  <2>4. PICK n : n = Len(s) - 1
    OBVIOUS
  <2>3. n \in DOMAIN Tail(s) /\ n = Len(Tail(s)) /\ n + 1 = Len(s)
    BY <1>2, <2>2, <2>4
  <2> QED
    BY <1>2, <2>3
<1>4. Tail(s) = <<>> => s[Len(s)] = Head(s)
  BY <1>2
<1> QED
  BY <1>1, <1>2, <1>3, <1>4

\* The fields of the operation after a step that moves on.
LEMMA MovedFacts ==
  ASSUME JobIsTyped, NEW todo \in Seq(AllCalls), NEW left, NEW names, NEW matched \in SUBSET Docs,
         NEW copied \in Nat, NEW skipped \in Nat, NEW state,
         job'.op = job.op, job'.state = state, job'.todo = todo, job'.rescue = job.rescue,
         job'.a = job.a, job'.left = left, job'.names = names, job'.matched = matched,
         job'.copied = copied, job'.skipped = skipped, job'.fails = job.fails,
         job'.failed = job.failed, job'.broke = job.broke, job'.before = job.before, JobIsRecord'
  PROVE  JobIsTyped'
<1>1. job'.failed = (job'.fails > 0)
  <2>1. job.failed = (job.fails > 0)
    BY DEF JobIsTyped
  <2>2. (job'.fails > 0) = (job.fails > 0)
    OBVIOUS
  <2> QED
    BY <2>1, <2>2, Zenon
<1> QED
  BY <1>1 DEF JobIsTyped

\* A copy or a duplication that does its first call.
LEMMA CopyMovesOn ==
  ASSUME JobIsTyped, CopyIsInOrder, job.op \in {"copy", "duplicate"}, job.todo # <<>>,
         job'.op = job.op, job'.a = job.a, job'.rescue = job.rescue, job'.todo = Tail(job.todo)
  PROVE  /\ Target' = Target /\ Rank(Head(job.todo)) \in 0..5
         /\ Stage(job') = Rank(Head(job.todo)) + 1 \/ (Stage(job') = 6 /\ Rank(Head(job.todo)) \in {3, 5})
         /\ (/\ Stage(job') \in 0..2 => job'.matched = {} /\ job'.left = {}
             /\ (~job'.failed /\ Stage(job') \in 3..6) => Cardinality(Missing') <= job'.skipped
             /\ job.op = "duplicate" => job'.skipped = 0
             /\ (~job'.failed /\ Stage(job') \in 4..6) => job'.left = {}) => CopyIsInOrder'
<1>1. Target' = Target
  BY DEF Target
<1>2. PICK h, c : h = Target.h /\ c = Target.c
  OBVIOUS
<1>3. PICK old \in Seq(AllCalls) : old = job.todo
  BY DEF JobIsTyped
<1>4. /\ \A i \in DOMAIN old : Rank(old[i]) \in 0..5
      /\ \A i \in DOMAIN old :
           IF i < Len(old) THEN Rank(old[i + 1]) = Rank(old[i]) + 1 ELSE Rank(old[i]) \in {3, 5}
      /\ \A i \in DOMAIN old : old[i].k # "open" => old[i].h = h /\ old[i].c = c
      /\ old # <<>>
  BY <1>2, <1>3 DEF CopyIsInOrder
<1>5. LET rest == Tail(old) IN
      /\ \A i \in DOMAIN rest : Rank(rest[i]) \in 0..5
      /\ \A i \in DOMAIN rest :
           IF i < Len(rest) THEN Rank(rest[i + 1]) = Rank(rest[i]) + 1 ELSE Rank(rest[i]) \in {3, 5}
      /\ \A i \in DOMAIN rest : rest[i].k # "open" => rest[i].h = h /\ rest[i].c = c
      /\ rest # <<>> => Rank(Head(rest)) = Rank(Head(old)) + 1
      /\ rest = <<>> => Rank(Head(old)) \in {3, 5}
      /\ Rank(Head(old)) \in 0..5
  BY <1>4, TailInOrder
<1>6. PICK rest : rest = Tail(old)
  OBVIOUS
<1>7. job'.todo = rest /\ Head(job.todo) = Head(old)
  BY <1>3, <1>6
<1>8. Stage(job') = Rank(Head(job.todo)) + 1 \/ (Stage(job') = 6 /\ Rank(Head(job.todo)) \in {3, 5})
  BY <1>5, <1>6, <1>7 DEF Stage
<1>9. /\ Target.h \in Conns /\ Target.c \in {"x", "y"} /\ job.rescue = <<>>
      /\ job.op = "copy" => job.a.c = "x"
  BY DEF CopyIsInOrder
<1>10. ASSUME /\ Stage(job') \in 0..2 => job'.matched = {} /\ job'.left = {}
              /\ (~job'.failed /\ Stage(job') \in 3..6) => Cardinality(Missing') <= job'.skipped
              /\ job.op = "duplicate" => job'.skipped = 0
              /\ (~job'.failed /\ Stage(job') \in 4..6) => job'.left = {}
       PROVE  CopyIsInOrder'
  <2>1. /\ \A i \in DOMAIN rest : Rank(rest[i]) \in 0..5
        /\ \A i \in DOMAIN rest :
             IF i < Len(rest) THEN Rank(rest[i + 1]) = Rank(rest[i]) + 1 ELSE Rank(rest[i]) \in {3, 5}
        /\ \A i \in DOMAIN rest : rest[i].k # "open" => rest[i].h = Target.h /\ rest[i].c = Target.c
    BY <1>2, <1>5, <1>6
  <2> QED
    BY <1>1, <1>7, <1>9, <1>10, <2>1 DEF CopyIsInOrder
<1> QED
  BY <1>1, <1>5, <1>7, <1>8, <1>10

\* A copy, unless it is onto its source, changes nothing of its source.
LEMMA TargetIsElsewhere ==
  ASSUME CopyIsInOrder, job.op = "copy", ~OntoItself(job.a)
  PROVE  ~(Target.h = "here" /\ Target.c = "x")
BY DEF CopyIsInOrder, OntoItself, Target

LEMMA SourceIsLeftAlone ==
  ASSUME OpsInv, job.op = "copy", ~OntoItself(job.a), job.todo # <<>>,
         NEW q \in AllCalls, q = Head(job.todo), ServerDoes(q)
  PROVE  colls'["here"]["x"] = colls["here"]["x"]
<1>1. JobIsTyped /\ OpsTypeOK /\ CopyIsInOrder
  BY DEF OpsInv
<1>2. 1 \in DOMAIN job.todo /\ q = job.todo[1]
  BY <1>1, TodoFacts
<1>3. Rank(q) \in 0..5 /\ (q.k # "open" => q.h = Target.h /\ q.c = Target.c)
  BY <1>1, <1>2 DEF CopyIsInOrder
<1>4. q.k \notin {"dropDb", "rename", "outStage"}
  BY <1>3 DEF Rank
<1>5. CASE q.k = "open"
  BY <1>1, <1>5, QuietCall
<1>6. CASE q.k # "open"
  <2>1. \A k \in Conns, d \in Colls : ~(k = q.h /\ d = q.c) => colls'[k][d] = colls[k][d]
    BY <1>1, <1>4, ServerCells
  <2>2. "here" \in Conns /\ "x" \in Colls
    BY DEF Conns, Colls
  <2>3. ~(q.h = "here" /\ q.c = "x")
    BY <1>1, <1>3, <1>6, TargetIsElsewhere
  <2> QED
    BY <2>1, <2>2, <2>3
<1> QED
  BY <1>5, <1>6

\* A call that is neither a query nor a list, of any operation.
LEMMA CallKeepsInv ==
  ASSUME OpsInv, job.state = "running", job.todo # <<>>,
         NEW q \in AllCalls, q = Head(job.todo), q.k \notin StreamKinds, ~Refused(q), ServerDoes(q),
         job' = Next1(job), UNCHANGED <<progress, jobs, others>>
  PROVE  OpsInv'
<1>1. JobIsTyped /\ OpsTypeOK
  BY DEF OpsInv
<1>2. PICK todo : todo = Tail(job.todo)
  OBVIOUS
<1>3. /\ q = job.todo[1] /\ todo \in Seq(AllCalls)
      /\ Len(job.todo) \in Nat \ {0} /\ Len(todo) = Len(job.todo) - 1
      /\ DOMAIN todo = 1..(Len(job.todo) - 1) /\ DOMAIN job.todo = 1..Len(job.todo)
      /\ \A i \in DOMAIN todo : i + 1 \in DOMAIN job.todo /\ todo[i] = job.todo[i + 1]
      /\ (todo = <<>> <=> Len(job.todo) = 1)
      /\ (todo # <<>> => todo[Len(todo)] = job.todo[Len(job.todo)])
      /\ (todo = <<>> => job.todo[Len(job.todo)] = q)
  BY <1>1, <1>2, TodoFacts
<1>4. job' = [op |-> job.op, state |-> job.state, todo |-> todo, rescue |-> job.rescue,
              a |-> job.a, left |-> job.left, names |-> job.names, matched |-> job.matched,
              copied |-> job.copied, skipped |-> job.skipped, fails |-> job.fails,
              failed |-> job.failed, broke |-> job.broke, before |-> job.before]
  <2>1. JobIsRecord
    BY <1>1 DEF JobIsTyped
  <2>2. job' = [job EXCEPT !.todo = todo]
    BY <1>2 DEF Next1
  <2> QED
    BY <2>1, <2>2 DEF JobIsRecord
<1>5. /\ job'.op = job.op /\ job'.state = job.state /\ job'.todo = todo /\ job'.rescue = job.rescue
      /\ job'.a = job.a /\ job'.left = job.left /\ job'.names = job.names /\ job'.matched = job.matched
      /\ job'.copied = job.copied /\ job'.skipped = job.skipped /\ job'.fails = job.fails
      /\ job'.broke = job.broke /\ job'.before = job.before
  BY <1>4
<1>6. job'.failed = job.failed
  BY <1>4
<1>7. JobIsRecord'
  BY <1>4, <1>5, <1>6, Zenon DEF JobIsRecord
<1>8. JobIsTyped'
  BY <1>1, <1>3, <1>5, <1>6, <1>7, MovedFacts DEF JobIsTyped
<1>9. OpsTypeOK'
  <2>1. /\ colls' \in [Conns -> [Colls -> Collections]]
        /\ \A h \in Conns, c \in Colls : ~colls'[h][c].exists => colls'[h][c] = NoCollection
        /\ fns' \in [FnNames -> Codes \cup {Nothing}] /\ users' \in BOOLEAN
        /\ exportFile' \in {"previous", "partial", "whole"}
    BY <1>1, ServerTyped
  <2> QED
    BY <1>1, <1>5, <2>1 DEF OpsTypeOK
<1>10. OthersDoNotStream'
  BY <1>3, <1>5 DEF OpsInv, OthersDoNotStream
<1>11. CASE job.op \in {"copy", "duplicate"}
  <2>1. /\ Target' = Target /\ Rank(q) \in 0..5
        /\ Stage(job') = Rank(q) + 1 \/ (Stage(job') = 6 /\ Rank(q) \in {3, 5})
        /\ (/\ Stage(job') \in 0..2 => job'.matched = {} /\ job'.left = {}
            /\ (~job'.failed /\ Stage(job') \in 3..6) => Cardinality(Missing') <= job'.skipped
            /\ job.op = "duplicate" => job'.skipped = 0
            /\ (~job'.failed /\ Stage(job') \in 4..6) => job'.left = {}) => CopyIsInOrder'
    BY <1>1, <1>2, <1>5, <1>11, CopyMovesOn DEF OpsInv
  <2>2. Rank(q) \in {0, 1} /\ q.k \in {"mustNotExist", "create", "dropColl"}
    BY <2>1 DEF Rank, StreamKinds
  <2>3. Stage(job') \in {1, 2}
    BY <2>1, <2>2
  <2>4. Stage(job) \in 0..2
    BY <2>2 DEF Stage
  <2>5. /\ job.matched = {} /\ job.left = {}
        /\ job.op = "duplicate" => job.skipped = 0
    BY <1>11, <2>4 DEF OpsInv, CopyIsInOrder
  <2>6. CopyIsInOrder'
    BY <1>5, <2>1, <2>3, <2>5
  <2>7. IndexIsInOrder' /\ FunctionIsInOrder' /\ LastCallCounts' /\ ExportOnlyReads'
    BY <1>5, <1>11 DEF IndexIsInOrder, FunctionIsInOrder, LastCallCounts, ExportOnlyReads
  <2>8. SourceIsKept'
    <3>1. SUFFICES ASSUME job.op = "copy", ~OntoItself(job.a) PROVE SourceIsKept'
      BY <1>5 DEF SourceIsKept, OntoItself
    <3>2. colls'["here"]["x"] = colls["here"]["x"]
      BY <3>1, SourceIsLeftAlone
    <3> QED
      BY <1>5, <3>1, <3>2 DEF OpsInv, SourceIsKept, SourceStays
  <2>9. ProgressCloses'
    BY <1>5 DEF OpsInv, ProgressCloses
  <2> QED
    BY <1>8, <1>9, <1>10, <2>6, <2>7, <2>8, <2>9 DEF OpsInv
<1>12. CASE job.op = "index"
  <2>1. PICK a : a = job.a
    OBVIOUS
  <2>2. PICK create : create = Ix("createIndex", "here", "x", a.new, 2)
    OBVIOUS
  <2>3. PICK drop : drop = [k |-> "dropIndex", h |-> "here", c |-> "x", n |-> a.old]
    OBVIOUS
  <2>4. PICK back : back = Ix("createIndex", "here", "x", a.old, 1)
    OBVIOUS
  <2>5. PICK ix : ix = colls["here"]["x"].ix
    OBVIOUS
  <2>6. /\ create.k = "createIndex" /\ create.n = a.new /\ create.d = 2 /\ create.h = "here" /\ create.c = "x"
        /\ drop.k = "dropIndex" /\ drop.n = a.old /\ drop.h = "here" /\ drop.c = "x"
        /\ back.k = "createIndex" /\ back.n = a.old /\ back.d = 1 /\ back.h = "here" /\ back.c = "x"
    BY <2>2, <2>3, <2>4 DEF Ix
  <2>7. /\ a.old \in IxNames \cup {Nothing} /\ a.new \in IxNames
        /\ job.rescue = IF a.old = Nothing THEN <<>> ELSE <<back>>
        /\ \/ /\ ~job.failed /\ a.old # Nothing /\ job.todo = <<drop, create>> /\ ix[a.old] # 0
           \/ /\ ~job.failed /\ job.todo = <<create>> /\ (a.old # Nothing => ix[a.old] = 0)
           \/ /\ job.failed /\ a.old # Nothing /\ job.todo = <<back>>
    BY <1>12, <2>1, <2>2, <2>3, <2>4, <2>5 DEF OpsInv, IndexIsInOrder
  <2>8. PICK new : new = colls'["here"]["x"].ix
    OBVIOUS
  <2>9. q.k \in {"createIndex", "dropIndex"} /\ q.h = "here" /\ q.c = "x" /\ q.n \in IxNames
    BY <2>6, <2>7 DEF AllCalls
  <2>10. new = [ix EXCEPT ![q.n] = IF q.k = "dropIndex" THEN 0 ELSE q.d] /\ ix \in [IxNames -> {0} \cup Defs]
    <3>1. PICK x : x = colls["here"]["x"]
      OBVIOUS
    <3>2. x \in Collections
      BY <1>1, <3>1 DEF OpsTypeOK, Conns, Colls
    <3>3. colls'["here"]["x"] = After(q)
      <4>1. colls'[q.h][q.c] = After(q)
        BY <1>1, <2>9, ServerCells
      <4> QED
        BY <2>9, <4>1
    <3>4. x.ix \in [IxNames -> {0} \cup Defs] /\ ix = x.ix
      BY <2>5, <3>1, <3>2 DEF Collections
    <3>5. CASE q.k = "dropIndex"
      <4>1. After(q) = [x EXCEPT !.ix[q.n] = 0]
        BY <2>9, <3>1, <3>5 DEF After
      <4>2. After(q).ix = [x.ix EXCEPT ![q.n] = 0]
        BY <3>2, <4>1 DEF Collections
      <4> QED
        BY <2>8, <3>3, <3>4, <3>5, <4>2
    <3>6. CASE q.k = "createIndex"
      <4>1. PICK y : y = [x EXCEPT !.exists = TRUE]
        OBVIOUS
      <4>2. y.ix = x.ix /\ y \in Collections
        BY <3>2, <4>1 DEF Collections
      <4>3. After(q) = [y EXCEPT !.ix[q.n] = q.d]
        BY <2>9, <3>1, <3>6, <4>1 DEF After
      <4>4. After(q).ix = [x.ix EXCEPT ![q.n] = q.d]
        BY <4>2, <4>3 DEF Collections
      <4> QED
        BY <2>8, <3>3, <3>4, <3>6, <4>4
    <3> QED
      BY <2>9, <3>5, <3>6
  <2>11. \/ /\ ~job.failed /\ todo = <<create>> /\ a.old # Nothing /\ new[a.old] = 0
         \/ /\ ~job.failed /\ todo = <<>> /\ new[a.new] = 2
            /\ (a.old \notin {Nothing, a.new} => new[a.old] = 0)
         \/ /\ job.failed /\ todo = <<>> /\ new[a.old] # 0
    <3>1. CASE ~job.failed /\ a.old # Nothing /\ job.todo = <<drop, create>> /\ ix[a.old] # 0
      <4>1. q = drop /\ todo = <<create>>
        BY <1>2, <3>1
      <4> QED
        BY <2>6, <2>7, <2>10, <3>1, <4>1
    <3>2. CASE ~job.failed /\ job.todo = <<create>> /\ (a.old # Nothing => ix[a.old] = 0)
      <4>1. q = create /\ todo = <<>>
        BY <1>2, <3>2
      <4> QED
        BY <2>6, <2>7, <2>10, <3>2, <4>1
    <3>3. CASE job.failed /\ a.old # Nothing /\ job.todo = <<back>>
      <4>1. q = back /\ todo = <<>>
        BY <1>2, <3>3
      <4> QED
        BY <2>6, <2>7, <2>10, <3>3, <4>1
    <3> QED
      BY <2>7, <3>1, <3>2, <3>3
  <2>12. IndexIsInOrder'
    BY <1>5, <1>6, <2>1, <2>2, <2>3, <2>4, <2>7, <2>8, <2>11 DEF IndexIsInOrder
  <2>13. CopyIsInOrder' /\ FunctionIsInOrder' /\ LastCallCounts' /\ ExportOnlyReads' /\ SourceIsKept'
    BY <1>5, <1>12 DEF CopyIsInOrder, FunctionIsInOrder, LastCallCounts, ExportOnlyReads, SourceIsKept
  <2>14. ProgressCloses'
    BY <1>5 DEF OpsInv, ProgressCloses
  <2> QED
    BY <1>8, <1>9, <1>10, <2>12, <2>13, <2>14 DEF OpsInv
<1>13. CASE job.op = "function"
  <2>1. PICK a : a = job.a
    OBVIOUS
  <2>2. PICK insert : insert = Fn("insertFn", a.new, "new")
    OBVIOUS
  <2>3. PICK replace : replace = Fn("replaceFn", a.new, "new")
    OBVIOUS
  <2>4. PICK delete : delete = Fn("deleteFn", a.old, Nothing)
    OBVIOUS
  <2>5. /\ insert.k = "insertFn" /\ insert.n = a.new /\ insert.code = "new"
        /\ replace.k = "replaceFn" /\ replace.n = a.new /\ replace.code = "new"
        /\ delete.k = "deleteFn" /\ delete.n = a.old
    BY <2>2, <2>3, <2>4 DEF Fn
  <2>6. /\ a.old \in FnNames \cup {Nothing} /\ a.new \in FnNames /\ a.modern \in BOOLEAN
        /\ job.rescue = <<>> /\ ~job.failed
        /\ \/ (a.modern \/ a.old = a.new) /\ job.todo = <<replace>>
           \/ a.old = Nothing /\ job.todo = <<insert>>
           \/ a.old \notin {Nothing, a.new} /\ job.todo = <<insert, delete>>
           \/ a.old \notin {Nothing, a.new} /\ job.todo = <<delete>> /\ fns[a.new] = "new"
    BY <1>13, <2>1, <2>2, <2>3, <2>4 DEF OpsInv, FunctionIsInOrder
  <2>7. fns \in [FnNames -> Codes \cup {Nothing}]
    BY <1>1 DEF OpsTypeOK
  <2>8. /\ \/ a.old \notin {Nothing, a.new} /\ todo = <<delete>> /\ fns'[a.new] = "new"
           \/ /\ todo = <<>> /\ fns'[a.new] = "new"
              /\ (~a.modern /\ a.old \notin {Nothing, a.new} => fns'[a.old] = Nothing)
    <3>1. CASE (a.modern \/ a.old = a.new) /\ job.todo = <<replace>>
      <4>1. q = replace /\ todo = <<>>
        BY <1>2, <3>1
      <4>2. fns' = [fns EXCEPT ![a.new] = "new"]
        BY <2>5, <4>1 DEF ServerDoes
      <4> QED
        BY <2>6, <2>7, <3>1, <4>1, <4>2
    <3>2. CASE a.old = Nothing /\ job.todo = <<insert>>
      <4>1. q = insert /\ todo = <<>>
        BY <1>2, <3>2
      <4>2. fns' = [fns EXCEPT ![a.new] = "new"]
        BY <2>5, <4>1 DEF ServerDoes
      <4> QED
        BY <2>6, <2>7, <3>2, <4>1, <4>2
    <3>3. CASE a.old \notin {Nothing, a.new} /\ job.todo = <<insert, delete>>
      <4>1. q = insert /\ todo = <<delete>>
        BY <1>2, <3>3
      <4>2. fns' = [fns EXCEPT ![a.new] = "new"]
        BY <2>5, <4>1 DEF ServerDoes
      <4> QED
        BY <2>6, <2>7, <3>3, <4>1, <4>2
    <3>4. CASE a.old \notin {Nothing, a.new} /\ job.todo = <<delete>> /\ fns[a.new] = "new"
      <4>1. q = delete /\ todo = <<>>
        BY <1>2, <3>4
      <4>2. fns' = [fns EXCEPT ![a.old] = Nothing]
        BY <2>5, <4>1 DEF ServerDoes
      <4> QED
        BY <2>6, <2>7, <3>4, <4>1, <4>2
    <3> QED
      BY <2>6, <3>1, <3>2, <3>3, <3>4
  <2>9. FunctionIsInOrder'
    BY <1>5, <1>6, <2>1, <2>2, <2>3, <2>4, <2>6, <2>8 DEF FunctionIsInOrder
  <2>10. CopyIsInOrder' /\ IndexIsInOrder' /\ LastCallCounts' /\ ExportOnlyReads' /\ SourceIsKept'
    BY <1>5, <1>13 DEF CopyIsInOrder, IndexIsInOrder, LastCallCounts, ExportOnlyReads, SourceIsKept
  <2>11. ProgressCloses'
    BY <1>5 DEF OpsInv, ProgressCloses
  <2> QED
    BY <1>8, <1>9, <1>10, <2>9, <2>10, <2>11 DEF OpsInv
<1>14. CASE job.op \notin {"copy", "duplicate", "index", "function"}
  <2>1. CopyIsInOrder' /\ IndexIsInOrder' /\ FunctionIsInOrder' /\ SourceIsKept'
    BY <1>5, <1>14 DEF CopyIsInOrder, IndexIsInOrder, FunctionIsInOrder, SourceIsKept
  <2>2. LastCallCounts
    BY DEF OpsInv
  <2>3. (job.op = "createDb" /\ ~job.failed) =>
          IF todo = <<>> THEN ~colls'["here"]["temp"].exists
          ELSE todo[Len(todo)] = Call("dropColl", "here", "temp")
    <3>1. SUFFICES ASSUME job.op = "createDb", ~job.failed
                   PROVE  IF todo = <<>> THEN ~colls'["here"]["temp"].exists
                          ELSE todo[Len(todo)] = Call("dropColl", "here", "temp")
      OBVIOUS
    <3>2. job.todo[Len(job.todo)] = Call("dropColl", "here", "temp")
      BY <2>2, <3>1 DEF LastCallCounts
    <3>3. CASE todo = <<>>
      <4>1. q = Call("dropColl", "here", "temp")
        BY <1>3, <3>2, <3>3
      <4>2. q.k = "dropColl" /\ q.h = "here" /\ q.c = "temp"
        BY <4>1 DEF Call
      <4>3. After(q) = NoCollection
        BY <4>2 DEF After
      <4>4. colls'[q.h][q.c] = After(q)
        BY <1>1, <4>2, ServerCells
      <4>5. ~NoCollection.exists
        BY EmptyCollection
      <4> QED
        BY <3>3, <4>2, <4>3, <4>4, <4>5
    <3> QED
      BY <1>3, <3>2, <3>3
  <2>4. job.op = "export" => q.k \in {"read", "openFile", "writeFile"} /\ ~job.failed
        /\ \A i \in DOMAIN job.todo : job.todo[i].k # "outStage"
    <3>1. SUFFICES ASSUME job.op = "export"
                   PROVE  q.k \in {"read", "openFile", "writeFile"} /\ ~job.failed
                          /\ \A i \in DOMAIN job.todo : job.todo[i].k # "outStage"
      OBVIOUS
    <3>2. q.k # "refuse"
      BY DEF Refused
    <3>3. \A i \in DOMAIN job.todo :
            /\ job.todo[i].k \in {"refuse", "outStage", "read", "openFile", "writeFile"}
            /\ (job.todo[i].k = "outStage" => q.k = "refuse")
      BY <2>2, <3>1 DEF LastCallCounts
    <3>4. 1 \in DOMAIN job.todo
      BY <1>3
    <3>5. ~job.failed
      BY <2>2, <3>1 DEF LastCallCounts
    <3> QED
      BY <1>3, <3>2, <3>3, <3>4, <3>5
  <2>5. (job.op = "export" /\ ~job.failed) =>
          IF todo = <<>> THEN exportFile' = "whole" ELSE todo[Len(todo)].k = "writeFile"
    <3>1. SUFFICES ASSUME job.op = "export", ~job.failed
                   PROVE  IF todo = <<>> THEN exportFile' = "whole" ELSE todo[Len(todo)].k = "writeFile"
      OBVIOUS
    <3>2. job.todo[Len(job.todo)].k = "writeFile"
      BY <2>2, <3>1 DEF LastCallCounts
    <3>3. todo = <<>> => q.k = "writeFile"
      BY <1>3, <3>2
    <3>4. q.k = "writeFile" => exportFile' = "whole"
      BY DEF ServerDoes
    <3> QED
      BY <1>3, <3>2, <3>3, <3>4
  <2>6. job.op = "export" =>
          \A i \in DOMAIN todo :
            /\ todo[i].k \in {"refuse", "outStage", "read", "openFile", "writeFile"}
            /\ todo[i].k # "outStage"
    BY <1>3, <2>2, <2>4 DEF LastCallCounts
  <2>7. LastCallCounts'
    BY <1>5, <1>6, <2>2, <2>3, <2>4, <2>5, <2>6 DEF LastCallCounts
  <2>8. ExportOnlyReads'
    <3>1. job.op = "export" => colls' = colls
      BY <1>1, <2>4, QuietCall
    <3> QED
      BY <1>5, <3>1 DEF OpsInv, ExportOnlyReads
  <2>9. ProgressCloses'
    BY <1>5 DEF OpsInv, ProgressCloses
  <2> QED
    BY <1>8, <1>9, <1>10, <2>1, <2>7, <2>8, <2>9 DEF OpsInv
<1> QED
  BY <1>11, <1>12, <1>13, <1>14

\* What a step of a copy's or a duplication's cursor keeps without further ado.
LEMMA CursorKeepsInv ==
  ASSUME OpsInv, job.op \in {"copy", "duplicate"},
         job'.op = job.op, job'.state = job.state, job'.a = job.a, job'.before = job.before,
         UNCHANGED <<fns, progress, jobs, others>>,
         OpsTypeOK', JobIsTyped', CopyIsInOrder', SourceIsKept'
  PROVE  OpsInv'
<1>1. OthersDoNotStream' /\ IndexIsInOrder' /\ FunctionIsInOrder' /\ LastCallCounts' /\ ExportOnlyReads'
  BY DEF OthersDoNotStream, IndexIsInOrder, FunctionIsInOrder, LastCallCounts, ExportOnlyReads
<1>2. ProgressCloses'
  BY DEF OpsInv, ProgressCloses
<1> QED
  BY <1>1, <1>2 DEF OpsInv

\* A part of the documents can be counted.
LEMMA DocsCount ==
  ASSUME NEW S \in SUBSET Docs
  PROVE  IsFiniteSet(S) /\ Cardinality(S) \in Nat
BY DocsAssumption, FS_Subset, FS_CardinalityType

\* Fewer of them are not more, and one more is one more at most.
LEMMA FewerDocs ==
  ASSUME NEW S \in SUBSET Docs, NEW T \in SUBSET S
  PROVE  Cardinality(T) <= Cardinality(S)
BY DocsCount, FS_Subset

LEMMA OneMoreDoc ==
  ASSUME NEW S \in SUBSET Docs, NEW d \in Docs, NEW T \in SUBSET (S \cup {d})
  PROVE  Cardinality(T) <= Cardinality(S) + 1
<1>1. PICK U : U = S \cup {d}
  OBVIOUS
<1>2. IsFiniteSet(S) /\ Cardinality(S) \in Nat
  BY DocsCount
<1>3. Cardinality(U) <= Cardinality(S) + 1
  <2>1. IsFiniteSet(S \cup {d}) /\ (d \in S => S \cup {d} = S)
    BY <1>2, FS_AddElement
  <2>2. Cardinality(S \cup {d}) = IF d \in S THEN Cardinality(S) ELSE Cardinality(S) + 1
    BY <1>2, FS_AddElement
  <2> QED
    BY <1>1, <1>2, <2>2
<1>4. U \in SUBSET Docs /\ T \in SUBSET U
  BY <1>1
<1>5. Cardinality(T) <= Cardinality(U)
  BY <1>4, FewerDocs
<1>6. Cardinality(T) \in Nat /\ Cardinality(U) \in Nat
  BY <1>4, DocsCount
<1> QED
  BY <1>2, <1>3, <1>5, <1>6

\* The query: the cursor is open.
LEMMA OpenKeepsInv ==
  ASSUME OpsInv, job.state = "running", job.todo # <<>>,
         NEW q \in AllCalls, q = Head(job.todo), q.k = "open", ServerDoes(q),
         NEW match \in SUBSET colls[q.h][q.c].docs,
         job' = [Next1(job) EXCEPT !.left = match, !.matched = match], UNCHANGED <<progress, jobs, others>>
  PROVE  OpsInv'
<1>1. JobIsTyped /\ OpsTypeOK
  BY DEF OpsInv
<1>2. PICK todo : todo = Tail(job.todo)
  OBVIOUS
<1>3. todo \in Seq(AllCalls) /\ q = job.todo[1] /\ 1 \in DOMAIN job.todo
  BY <1>1, <1>2, TodoFacts
<1>4. job' = [op |-> job.op, state |-> job.state, todo |-> todo, rescue |-> job.rescue,
              a |-> job.a, left |-> match, names |-> job.names, matched |-> match,
              copied |-> job.copied, skipped |-> job.skipped, fails |-> job.fails,
              failed |-> job.failed, broke |-> job.broke, before |-> job.before]
  <2>1. JobIsRecord
    BY <1>1 DEF JobIsTyped
  <2>2. job' = [[job EXCEPT !.todo = todo] EXCEPT !.left = match, !.matched = match]
    BY <1>2 DEF Next1
  <2> QED
    BY <2>1, <2>2 DEF JobIsRecord
<1>17. PICK r : r = [op |-> job.op, state |-> job.state, todo |-> todo, rescue |-> job.rescue,
              a |-> job.a, left |-> match, names |-> job.names, matched |-> match,
              copied |-> job.copied, skipped |-> job.skipped, fails |-> job.fails,
              failed |-> job.failed, broke |-> job.broke, before |-> job.before]
  OBVIOUS
<1>18. /\ r.op = job.op /\ r.state = job.state /\ r.todo = todo /\ r.rescue = job.rescue
       /\ r.a = job.a /\ r.left = match /\ r.names = job.names /\ r.matched = match
       /\ r.copied = job.copied /\ r.skipped = job.skipped /\ r.fails = job.fails
       /\ r.failed = job.failed /\ r.broke = job.broke /\ r.before = job.before
  BY <1>17
<1>19. job' = r
  BY <1>4, <1>17, Zenon
<1>5. /\ job'.op = job.op /\ job'.state = job.state /\ job'.todo = todo /\ job'.rescue = job.rescue
      /\ job'.a = job.a /\ job'.left = match /\ job'.names = job.names /\ job'.matched = match
      /\ job'.copied = job.copied /\ job'.skipped = job.skipped /\ job'.fails = job.fails
      /\ job'.broke = job.broke /\ job'.before = job.before
  BY <1>18, <1>19, Zenon
<1>6. job'.failed = job.failed
  BY <1>18, <1>19, Zenon
<1>7. JobIsRecord'
  BY <1>4, <1>5, <1>6, Zenon DEF JobIsRecord
<1>8. match \in SUBSET Docs
  <2>1. q.h \in Conns /\ q.c \in Colls
    BY DEF AllCalls
  <2> QED
    BY <1>1, <2>1, CollectionFields DEF OpsTypeOK
<1>9. JobIsTyped'
  BY <1>1, <1>3, <1>5, <1>6, <1>7, <1>8, MovedFacts DEF JobIsTyped
<1>10. job.op \in {"copy", "duplicate"}
  BY <1>3 DEF OpsInv, OthersDoNotStream, StreamKinds
<1>11. colls' = colls /\ fns' = fns
  BY <1>1, QuietCall
<1>12. Rank(q) = 2
  BY DEF Rank
<1>13. job.matched = {} /\ job.left = {}
  <2>1. Stage(job) \in 0..2
    BY <1>12 DEF Stage
  <2> QED
    BY <1>10, <2>1 DEF OpsInv, CopyIsInOrder
<1>14. CopyIsInOrder'
  <2>1. /\ Target' = Target /\ Rank(q) \in 0..5
        /\ Stage(job') = Rank(q) + 1 \/ (Stage(job') = 6 /\ Rank(q) \in {3, 5})
        /\ (/\ Stage(job') \in 0..2 => job'.matched = {} /\ job'.left = {}
            /\ (~job'.failed /\ Stage(job') \in 3..6) => Cardinality(Missing') <= job'.skipped
            /\ job.op = "duplicate" => job'.skipped = 0
            /\ (~job'.failed /\ Stage(job') \in 4..6) => job'.left = {}) => CopyIsInOrder'
    BY <1>1, <1>2, <1>5, <1>10, CopyMovesOn DEF OpsInv
  <2>2. Stage(job') = 3
    BY <1>12, <2>1
  <2>3. Missing' = {}
    BY <1>5 DEF Missing
  <2>4. Cardinality(Missing') = 0
    BY <2>3, FS_EmptySet
  <2>5. /\ job.op = "duplicate" => job.skipped = 0
        /\ job.skipped \in Nat
    BY <1>1, <1>10 DEF OpsInv, CopyIsInOrder, JobIsTyped
  <2>6. Cardinality(Missing') <= job'.skipped
    BY <1>5, <2>4, <2>5
  <2> QED
    BY <1>5, <2>1, <2>2, <2>5, <2>6
<1>15. OpsTypeOK'
  <2>1. /\ colls' \in [Conns -> [Colls -> Collections]]
        /\ \A h \in Conns, c \in Colls : ~colls'[h][c].exists => colls'[h][c] = NoCollection
        /\ fns' \in [FnNames -> Codes \cup {Nothing}] /\ users' \in BOOLEAN
        /\ exportFile' \in {"previous", "partial", "whole"}
    <3>1. ~Refused(q)
      BY DEF Refused
    <3> QED
      BY <1>1, <3>1, ServerTyped
  <2>2. job.copied = 0 /\ job.skipped = 0
    <3>1. Cardinality({}) = 0
      BY FS_EmptySet
    <3>2. job.copied + job.skipped + 0 = 0
      BY <1>1, <1>13, <3>1 DEF OpsTypeOK
    <3>3. job.copied \in Nat /\ job.skipped \in Nat
      BY <1>1 DEF JobIsTyped
    <3> QED
      BY <3>2, <3>3
  <2>3. job'.copied + job'.skipped + Cardinality(job'.left) = Cardinality(job'.matched)
    BY <1>5, <1>8, <2>2, DocsCount
  <2> QED
    BY <1>1, <1>5, <2>1, <2>3 DEF OpsTypeOK
<1>16. SourceIsKept'
  BY <1>5, <1>11 DEF OpsInv, SourceIsKept, SourceStays, OntoItself
<1> QED
  BY <1>5, <1>9, <1>10, <1>11, <1>14, <1>15, <1>16, CursorKeepsInv

\* The list of the indexes that the target lacks.
LEMMA ListKeepsInv ==
  ASSUME OpsInv, job.state = "running", job.todo # <<>>,
         NEW q \in AllCalls, q = Head(job.todo), q.k = "listIndexes", ServerDoes(q),
         NEW names \in SUBSET IxNames,
         job' = [Next1(job) EXCEPT !.names = names], UNCHANGED <<progress, jobs, others>>
  PROVE  OpsInv'
<1>1. JobIsTyped /\ OpsTypeOK
  BY DEF OpsInv
<1>2. PICK todo : todo = Tail(job.todo)
  OBVIOUS
<1>3. todo \in Seq(AllCalls) /\ q = job.todo[1] /\ 1 \in DOMAIN job.todo
  BY <1>1, <1>2, TodoFacts
<1>4. job' = [op |-> job.op, state |-> job.state, todo |-> todo, rescue |-> job.rescue,
              a |-> job.a, left |-> job.left, names |-> names, matched |-> job.matched,
              copied |-> job.copied, skipped |-> job.skipped, fails |-> job.fails,
              failed |-> job.failed, broke |-> job.broke, before |-> job.before]
  <2>1. JobIsRecord
    BY <1>1 DEF JobIsTyped
  <2>2. job' = [[job EXCEPT !.todo = todo] EXCEPT !.names = names]
    BY <1>2 DEF Next1
  <2> QED
    BY <2>1, <2>2 DEF JobIsRecord
<1>5. /\ job'.op = job.op /\ job'.state = job.state /\ job'.todo = todo /\ job'.rescue = job.rescue
      /\ job'.a = job.a /\ job'.left = job.left /\ job'.names = names /\ job'.matched = job.matched
      /\ job'.copied = job.copied /\ job'.skipped = job.skipped /\ job'.fails = job.fails
      /\ job'.broke = job.broke /\ job'.before = job.before
  BY <1>4
<1>6. job'.failed = job.failed
  BY <1>4
<1>7. JobIsRecord'
  BY <1>4, <1>5, <1>6, Zenon DEF JobIsRecord
<1>8. JobIsTyped'
  BY <1>1, <1>3, <1>5, <1>6, <1>7, MovedFacts DEF JobIsTyped
<1>9. job.op \in {"copy", "duplicate"}
  BY <1>3 DEF OpsInv, OthersDoNotStream, StreamKinds
<1>10. colls' = colls /\ fns' = fns
  BY <1>1, QuietCall
<1>11. Rank(q) = 4
  BY DEF Rank
<1>12. /\ ~job.failed => job.left = {} /\ Cardinality(Missing) <= job.skipped
       /\ job.op = "duplicate" => job.skipped = 0
  <2>1. Stage(job) = 4
    BY <1>11 DEF Stage
  <2> QED
    BY <1>9, <2>1 DEF OpsInv, CopyIsInOrder
<1>13. CopyIsInOrder'
  <2>1. /\ Target' = Target /\ Rank(q) \in 0..5
        /\ Stage(job') = Rank(q) + 1 \/ (Stage(job') = 6 /\ Rank(q) \in {3, 5})
        /\ (/\ Stage(job') \in 0..2 => job'.matched = {} /\ job'.left = {}
            /\ (~job'.failed /\ Stage(job') \in 3..6) => Cardinality(Missing') <= job'.skipped
            /\ job.op = "duplicate" => job'.skipped = 0
            /\ (~job'.failed /\ Stage(job') \in 4..6) => job'.left = {}) => CopyIsInOrder'
    BY <1>1, <1>2, <1>5, <1>9, CopyMovesOn DEF OpsInv
  <2>2. Stage(job') = 5
    BY <1>11, <2>1
  <2>3. Missing' = Missing
    BY <1>5, <1>10, <2>1 DEF Missing
  <2> QED
    BY <1>5, <1>6, <1>12, <2>1, <2>2, <2>3
<1>14. OpsTypeOK'
  <2>1. /\ colls' \in [Conns -> [Colls -> Collections]]
        /\ \A h \in Conns, c \in Colls : ~colls'[h][c].exists => colls'[h][c] = NoCollection
        /\ fns' \in [FnNames -> Codes \cup {Nothing}] /\ users' \in BOOLEAN
        /\ exportFile' \in {"previous", "partial", "whole"}
    <3>1. ~Refused(q)
      BY DEF Refused
    <3> QED
      BY <1>1, <3>1, ServerTyped
  <2> QED
    BY <1>1, <1>5, <2>1 DEF OpsTypeOK
<1>15. SourceIsKept'
  BY <1>5, <1>10 DEF OpsInv, SourceIsKept, SourceStays, OntoItself
<1> QED
  BY <1>5, <1>8, <1>9, <1>10, <1>13, <1>14, <1>15, CursorKeepsInv

LEMMA CallsKeepInv ==
  ASSUME OpsInv, Calls
  PROVE  OpsInv'
<1>1. PICK q : q = Head(job.todo)
  OBVIOUS
<1>2. job.state = "running" /\ job.todo # <<>> /\ UNCHANGED <<progress, jobs, others>>
  BY DEF Calls
<1>3. q \in AllCalls
  BY <1>1, <1>2, TodoFacts DEF OpsInv
<1>4. ~Streams(q) /\ ~Refused(q) /\ ServerDoes(q)
  BY <1>1 DEF Calls
<1>5. CASE q.k = "open"
  <2>1. PICK match \in SUBSET colls[q.h][q.c].docs :
          job' = [Next1(job) EXCEPT !.left = match, !.matched = match]
    BY <1>1, <1>5 DEF Calls
  <2> QED
    BY <1>1, <1>2, <1>3, <1>4, <1>5, <2>1, OpenKeepsInv
<1>6. CASE q.k = "listIndexes"
  <2>1. PICK names : names = {n \in IxNames : colls["here"][q.from].ix[n] # 0 /\ colls[q.h][q.c].ix[n] = 0}
    OBVIOUS
  <2>2. names \in SUBSET IxNames
    BY <2>1
  <2>3. job' = [Next1(job) EXCEPT !.names = names]
    BY <1>1, <1>6, <2>1 DEF Calls
  <2> QED
    BY <1>1, <1>2, <1>3, <1>4, <1>6, <2>2, <2>3, ListKeepsInv
<1>7. CASE q.k \notin {"open", "listIndexes"}
  <2>1. job' = Next1(job)
    BY <1>1, <1>7 DEF Calls
  <2>2. q.k \notin StreamKinds
    BY <1>4, <1>7 DEF StreamKinds, Streams
  <2> QED
    BY <1>1, <1>2, <1>3, <1>4, <2>1, <2>2, CallKeepsInv
<1> QED
  BY <1>5, <1>6, <1>7

\* The end of the documents, or of the indexes.
LEMMA StreamEndKeepsInv ==
  ASSUME OpsInv, job.state = "running", job.todo # <<>>,
         NEW q \in AllCalls, q = Head(job.todo), q.k \in {"insertEach", "createEach"},
         q.k = "insertEach" => job.left = {},
         job' = Next1(job), UNCHANGED <<colls, fns, users, exportFile, progress, jobs, others>>
  PROVE  OpsInv'
<1>1. JobIsTyped /\ OpsTypeOK
  BY DEF OpsInv
<1>2. PICK todo : todo = Tail(job.todo)
  OBVIOUS
<1>3. todo \in Seq(AllCalls) /\ q = job.todo[1] /\ 1 \in DOMAIN job.todo
  BY <1>1, <1>2, TodoFacts
<1>4. job' = [op |-> job.op, state |-> job.state, todo |-> todo, rescue |-> job.rescue,
              a |-> job.a, left |-> job.left, names |-> job.names, matched |-> job.matched,
              copied |-> job.copied, skipped |-> job.skipped, fails |-> job.fails,
              failed |-> job.failed, broke |-> job.broke, before |-> job.before]
  <2>1. JobIsRecord
    BY <1>1 DEF JobIsTyped
  <2>2. job' = [job EXCEPT !.todo = todo]
    BY <1>2 DEF Next1
  <2> QED
    BY <2>1, <2>2 DEF JobIsRecord
<1>5. /\ job'.op = job.op /\ job'.state = job.state /\ job'.todo = todo /\ job'.rescue = job.rescue
      /\ job'.a = job.a /\ job'.left = job.left /\ job'.names = job.names /\ job'.matched = job.matched
      /\ job'.copied = job.copied /\ job'.skipped = job.skipped /\ job'.fails = job.fails
      /\ job'.broke = job.broke /\ job'.before = job.before
  BY <1>4
<1>6. job'.failed = job.failed
  BY <1>4
<1>7. JobIsRecord'
  BY <1>4, <1>5, <1>6, Zenon DEF JobIsRecord
<1>8. JobIsTyped'
  BY <1>1, <1>3, <1>5, <1>6, <1>7, MovedFacts DEF JobIsTyped
<1>9. job.op \in {"copy", "duplicate"}
  BY <1>3 DEF OpsInv, OthersDoNotStream, StreamKinds
<1>10. Rank(q) \in {3, 5} /\ (Rank(q) = 3 <=> q.k = "insertEach")
  BY DEF Rank
<1>11. /\ ~job.failed => job.left = {} /\ Cardinality(Missing) <= job.skipped
       /\ job.op = "duplicate" => job.skipped = 0
  <2>1. Stage(job) \in {3, 5} /\ (Stage(job) = 3 <=> q.k = "insertEach")
    BY <1>10 DEF Stage
  <2> QED
    BY <1>9, <2>1 DEF OpsInv, CopyIsInOrder
<1>12. CopyIsInOrder'
  <2>1. /\ Target' = Target /\ Rank(q) \in 0..5
        /\ Stage(job') = Rank(q) + 1 \/ (Stage(job') = 6 /\ Rank(q) \in {3, 5})
        /\ (/\ Stage(job') \in 0..2 => job'.matched = {} /\ job'.left = {}
            /\ (~job'.failed /\ Stage(job') \in 3..6) => Cardinality(Missing') <= job'.skipped
            /\ job.op = "duplicate" => job'.skipped = 0
            /\ (~job'.failed /\ Stage(job') \in 4..6) => job'.left = {}) => CopyIsInOrder'
    BY <1>1, <1>2, <1>5, <1>9, CopyMovesOn DEF OpsInv
  <2>2. Stage(job') \in {4, 6}
    BY <1>10, <2>1
  <2>3. Missing' = Missing
    BY <1>5, <2>1 DEF Missing
  <2> QED
    BY <1>5, <1>6, <1>11, <2>1, <2>2, <2>3
<1>13. OpsTypeOK'
  BY <1>1, <1>5 DEF OpsTypeOK
<1>14. SourceIsKept'
  BY <1>5 DEF OpsInv, SourceIsKept, SourceStays, OntoItself
<1> QED
  BY <1>5, <1>8, <1>9, <1>12, <1>13, <1>14, CursorKeepsInv

\* No more is missing than is counted as skipped.
Counted(left, docs, skipped) == ~job.failed => Cardinality(job.matched \ (left \cup docs)) <= skipped

\* A document of the cursor or an index of the list is dealt with: the target has gained what
\* it has gained, and the call goes on.
LEMMA StepKeepsInv ==
  ASSUME OpsInv, job.state = "running", job.todo # <<>>,
         NEW q \in AllCalls, q = Head(job.todo), q.k \in {"insertEach", "createEach"},
         NEW left \in SUBSET job.left, NEW names \in SUBSET job.names,
         NEW copied \in Nat, NEW skipped \in Nat,
         job' = [op |-> job.op, state |-> job.state, todo |-> job.todo, rescue |-> job.rescue,
                 a |-> job.a, left |-> left, names |-> names, matched |-> job.matched,
                 copied |-> copied, skipped |-> skipped, fails |-> job.fails,
                 failed |-> job.failed, broke |-> job.broke, before |-> job.before],
         copied + skipped + Cardinality(left) = Cardinality(job.matched),
         NEW new \in Collections, ~new.exists => new = NoCollection,
         colls' = [colls EXCEPT ![q.h][q.c] = new],
         Counted(left, new.docs, skipped),
         job.op = "duplicate" => skipped = job.skipped,
         q.k = "createEach" => left = job.left,
         UNCHANGED <<fns, users, exportFile, progress, jobs, others>>
  PROVE  OpsInv'
<1>1. JobIsTyped /\ OpsTypeOK
  BY DEF OpsInv
<1>2. q = job.todo[1] /\ 1 \in DOMAIN job.todo /\ job.todo \in Seq(AllCalls)
  BY <1>1, TodoFacts DEF JobIsTyped
<1>3. PICK r : r = [op |-> job.op, state |-> job.state, todo |-> job.todo, rescue |-> job.rescue,
              a |-> job.a, left |-> left, names |-> names, matched |-> job.matched,
              copied |-> copied, skipped |-> skipped, fails |-> job.fails,
              failed |-> job.failed, broke |-> job.broke, before |-> job.before]
  OBVIOUS
<1>4. /\ r.op = job.op /\ r.state = job.state /\ r.todo = job.todo /\ r.rescue = job.rescue
      /\ r.a = job.a /\ r.left = left /\ r.names = names /\ r.matched = job.matched
      /\ r.copied = copied /\ r.skipped = skipped /\ r.fails = job.fails
      /\ r.failed = job.failed /\ r.broke = job.broke /\ r.before = job.before
  BY <1>3
<1>5. job' = r
  BY <1>3, Zenon
<1>6. /\ job'.op = job.op /\ job'.state = job.state /\ job'.todo = job.todo /\ job'.rescue = job.rescue
      /\ job'.a = job.a /\ job'.left = left /\ job'.names = names /\ job'.matched = job.matched
      /\ job'.copied = copied /\ job'.skipped = skipped /\ job'.fails = job.fails
      /\ job'.before = job.before /\ job'.failed = job.failed /\ job'.broke = job.broke
  BY <1>4, <1>5, Zenon
<1>7. JobIsRecord'
  BY <1>3, <1>5, <1>6, Zenon DEF JobIsRecord
<1>8. JobIsTyped'
  BY <1>1, <1>2, <1>6, <1>7, MovedFacts DEF JobIsTyped
<1>9. job.op \in {"copy", "duplicate"}
  BY <1>2 DEF OpsInv, OthersDoNotStream, StreamKinds
<1>10. Rank(q) \in {3, 5} /\ (Rank(q) = 3 <=> q.k = "insertEach")
  BY DEF Rank
<1>11. Stage(job) \in {3, 5} /\ (Stage(job) = 3 <=> q.k = "insertEach")
  BY <1>10 DEF Stage
<1>12. Stage(job') = Stage(job) /\ Target' = Target
  BY <1>6 DEF Stage, Target
<1>13. q.h = Target.h /\ q.c = Target.c /\ q.h \in Conns /\ q.c \in Colls
  <2>1. q.h \in Conns /\ q.c \in Colls
    BY DEF AllCalls
  <2>2. q.k # "open"
    OBVIOUS
  <2> QED
    BY <1>2, <1>9, <2>1, <2>2 DEF OpsInv, CopyIsInOrder
<1>14. colls \in [Conns -> [Colls -> Collections]]
  BY <1>1 DEF OpsTypeOK
<1>15. colls'[q.h][q.c] = new
       /\ \A h \in Conns, c \in Colls : ~(h = q.h /\ c = q.c) => colls'[h][c] = colls[h][c]
  BY <1>13, <1>14
<1>16. CopyIsInOrder'
  <2>1. CopyIsInOrder
    BY DEF OpsInv
  <2>2. ~job.failed => Cardinality(Missing') <= job'.skipped
    <3>1. Missing' = job.matched \ (left \cup new.docs)
      BY <1>6, <1>12, <1>13, <1>15 DEF Missing
    <3> QED
      BY <1>6, <3>1 DEF Counted
  <2>3. (~job.failed /\ Stage(job) \in 4..6) => left = {}
    <3>1. SUFFICES ASSUME ~job.failed, Stage(job) \in 4..6 PROVE left = {}
      OBVIOUS
    <3>2. job.left = {}
      BY <1>9, <2>1, <3>1 DEF CopyIsInOrder
    <3> QED
      BY <3>2
  <2>4. Stage(job') \notin 0..2
    BY <1>11, <1>12
  <2>5. /\ Target.h \in Conns /\ Target.c \in {"x", "y"} /\ job.rescue = <<>>
        /\ \A i \in DOMAIN job.todo : Rank(job.todo[i]) \in 0..5
        /\ \A i \in DOMAIN job.todo :
             IF i < Len(job.todo) THEN Rank(job.todo[i + 1]) = Rank(job.todo[i]) + 1
             ELSE Rank(job.todo[i]) \in {3, 5}
        /\ \A i \in DOMAIN job.todo :
             job.todo[i].k # "open" => job.todo[i].h = Target.h /\ job.todo[i].c = Target.c
        /\ job.op = "copy" => job.a.c = "x"
        /\ job.op = "duplicate" => job.skipped = 0
    BY <1>9, <2>1 DEF CopyIsInOrder
  <2> QED
    BY <1>6, <1>12, <2>2, <2>3, <2>4, <2>5 DEF CopyIsInOrder
<1>17. OpsTypeOK'
  <2>1. colls' \in [Conns -> [Colls -> Collections]]
    BY <1>13, <1>14
  <2>2. \A h \in Conns, c \in Colls : ~colls'[h][c].exists => colls'[h][c] = NoCollection
    BY <1>1, <1>15 DEF OpsTypeOK
  <2>3. job'.left \subseteq job'.matched /\ job'.names \subseteq IxNames
        /\ job'.copied + job'.skipped + Cardinality(job'.left) = Cardinality(job'.matched)
    BY <1>1, <1>6 DEF OpsTypeOK
  <2> QED
    BY <1>1, <1>6, <2>1, <2>2, <2>3 DEF OpsTypeOK
<1>18. SourceIsKept'
  <2>1. SUFFICES ASSUME job.op = "copy", ~OntoItself(job.a) PROVE SourceIsKept'
    BY <1>6 DEF SourceIsKept, OntoItself
  <2>2. ~(q.h = "here" /\ q.c = "x")
    BY <1>13, <2>1, TargetIsElsewhere DEF OpsInv
  <2>3. "here" \in Conns /\ "x" \in Colls
    BY DEF Conns, Colls
  <2>4. colls'["here"]["x"] = colls["here"]["x"]
    BY <1>15, <2>2, <2>3
  <2> QED
    BY <1>6, <2>1, <2>4 DEF OpsInv, SourceIsKept, SourceStays
<1> QED
  BY <1>6, <1>8, <1>9, <1>16, <1>17, <1>18, CursorKeepsInv

\* What the insertion of a document leaves of the collection.
LEMMA InsertedTyped ==
  ASSUME OpsTypeOK, NEW q \in AllCalls, NEW d \in Docs, NEW new, new = After(Doc("insert", q.h, q.c, d))
  PROVE  /\ new \in Collections /\ (~new.exists => new = NoCollection)
         /\ new.docs = colls[q.h][q.c].docs \cup {d}
<1>1. q.h \in Conns /\ q.c \in Colls
  BY DEF AllCalls
<1>2. PICK e : e = Doc("insert", q.h, q.c, d)
  OBVIOUS
<1>3. e \in AllCalls /\ e.k = "insert" /\ e.h = q.h /\ e.c = q.c /\ e.d = d
  BY <1>1, <1>2 DEF Doc, AllCalls
<1>4. PICK old : old = colls[q.h][q.c]
  OBVIOUS
<1>5. old \in Collections
  BY <1>1, <1>4 DEF OpsTypeOK
<1>6. new \in Collections /\ (~new.exists => new = NoCollection)
  BY <1>2, <1>3, AfterTyped
<1>7. PICK y : y = [old EXCEPT !.exists = TRUE]
  OBVIOUS
<1>8. y \in Collections /\ y.docs = old.docs
  BY <1>5, <1>7 DEF Collections
<1>9. new = [y EXCEPT !.docs = y.docs \cup {d}]
  BY <1>2, <1>3, <1>4, <1>7 DEF After
<1>10. new.docs = old.docs \cup {d}
  BY <1>8, <1>9 DEF Collections
<1> QED
  BY <1>4, <1>6, <1>10

\* Where the calls that go through a cursor or a list are made, and what is missing there.
LEMMA StreamFacts ==
  ASSUME OpsInv, job.todo # <<>>,
         NEW q \in AllCalls, q = Head(job.todo), q.k \in {"insertEach", "createEach"}
  PROVE  /\ job.op \in {"copy", "duplicate"} /\ q.h = Target.h /\ q.c = Target.c
         /\ Missing \in SUBSET Docs
         /\ Missing = job.matched \ (job.left \cup colls[q.h][q.c].docs)
         /\ (~job.failed => Cardinality(Missing) <= job.skipped)
<1>1. JobIsTyped /\ CopyIsInOrder
  BY DEF OpsInv
<1>2. q = job.todo[1] /\ 1 \in DOMAIN job.todo
  BY <1>1, TodoFacts
<1>3. job.op \in {"copy", "duplicate"}
  BY <1>2 DEF OpsInv, OthersDoNotStream, StreamKinds
<1>4. q.h = Target.h /\ q.c = Target.c
  <2>1. q.k # "open"
    OBVIOUS
  <2> QED
    BY <1>1, <1>2, <1>3, <2>1 DEF CopyIsInOrder
<1>5. Missing = job.matched \ (job.left \cup colls[q.h][q.c].docs)
  BY <1>4 DEF Missing
<1>6. Missing \in SUBSET Docs
  BY <1>1, <1>5 DEF JobIsTyped
<1>7. Stage(job) \in {3, 5}
  BY DEF Stage, Rank
<1>8. ~job.failed => Cardinality(Missing) <= job.skipped
  BY <1>1, <1>3, <1>7 DEF CopyIsInOrder
<1> QED
  BY <1>3, <1>4, <1>5, <1>6, <1>8

\* A failure that has done nothing.
LEMMA QuietFailure ==
  ASSUME OpsInv, job.state = "running", job.todo # <<>>, job' = Thrown(job),
         UNCHANGED <<colls, fns, users, exportFile, progress, jobs, others>>
  PROVE  OpsInv'
BY ThrownKeepsInv DEF OpsInv, OpsTypeOK

\* A call of the saving of a function writes the new one, or comes after it.
LEMMA FunctionIsWritten ==
  ASSUME OpsInv, job.op = "function", job.todo # <<>>,
         NEW q \in AllCalls, q = Head(job.todo), ServerDoes(q)
  PROVE  fns'[job.a.new] = "new"
<1>1. PICK a : a = job.a
  OBVIOUS
<1>2. PICK insert, replace, delete : /\ insert = Fn("insertFn", a.new, "new")
                                    /\ replace = Fn("replaceFn", a.new, "new")
                                    /\ delete = Fn("deleteFn", a.old, Nothing)
  OBVIOUS
<1>3. /\ insert.k = "insertFn" /\ insert.n = a.new /\ insert.code = "new"
      /\ replace.k = "replaceFn" /\ replace.n = a.new /\ replace.code = "new"
      /\ delete.k = "deleteFn" /\ delete.n = a.old
  BY <1>2 DEF Fn
<1>4. /\ a.old \in FnNames \cup {Nothing} /\ a.new \in FnNames
      /\ \/ job.todo = <<replace>>
         \/ job.todo = <<insert>>
         \/ job.todo = <<insert, delete>>
         \/ a.old \notin {Nothing, a.new} /\ job.todo = <<delete>> /\ fns[a.new] = "new"
  BY <1>1, <1>2 DEF OpsInv, FunctionIsInOrder
<1>5. fns \in [FnNames -> Codes \cup {Nothing}]
  BY DEF OpsInv, OpsTypeOK
<1>6. CASE q = replace \/ q = insert
  <2>1. fns' = [fns EXCEPT ![a.new] = "new"]
    BY <1>3, <1>6 DEF ServerDoes
  <2> QED
    BY <1>1, <1>4, <1>5, <2>1
<1>7. CASE a.old \notin {Nothing, a.new} /\ q = delete /\ fns[a.new] = "new"
  <2>1. fns' = [fns EXCEPT ![a.old] = Nothing]
    BY <1>3, <1>7 DEF ServerDoes
  <2> QED
    BY <1>1, <1>4, <1>5, <1>7, <2>1
<1>8. q = replace \/ q = insert \/ (a.old \notin {Nothing, a.new} /\ q = delete /\ fns[a.new] = "new")
  BY <1>4
<1> QED
  BY <1>6, <1>7, <1>8

\* An export makes no call that writes to the server.
LEMMA ExportIsQuiet ==
  ASSUME OpsInv, job.op = "export", job.todo # <<>>,
         NEW q \in AllCalls, q = Head(job.todo), ~Refused(q), ServerDoes(q)
  PROVE  colls' = colls
<1>1. 1 \in DOMAIN job.todo /\ q = job.todo[1]
  BY TodoFacts DEF OpsInv
<1>2. q.k # "refuse"
  BY DEF Refused
<1>3. q.k \in {"read", "openFile", "writeFile"}
  BY <1>1, <1>2 DEF OpsInv, LastCallCounts
<1> QED
  BY <1>3, QuietCall DEF OpsInv

\* A call that fails, having done nothing, all of it, or one document of its cursor.
LEMMA JobFailsKeepsInv ==
  ASSUME OpsInv, JobFails
  PROVE  OpsInv'
<1>1. PICK q : q = Head(job.todo)
  OBVIOUS
<1>2. /\ job.state = "running" /\ job.todo # <<>> /\ job' = Thrown(job)
      /\ UNCHANGED <<progress, jobs, others>>
  BY DEF JobFails
<1>3. q \in AllCalls
  BY <1>1, <1>2, TodoFacts DEF OpsInv
<1>4. OpsTypeOK
  BY DEF OpsInv
<1>5. CASE UNCHANGED <<colls, fns, users, exportFile>>
  BY <1>2, <1>5, QuietFailure
<1>6. CASE ~Streams(q) /\ ~Refused(q) /\ ServerDoes(q)
  <2>1. /\ colls' \in [Conns -> [Colls -> Collections]]
        /\ \A h \in Conns, c \in Colls : ~colls'[h][c].exists => colls'[h][c] = NoCollection
        /\ fns' \in [FnNames -> Codes \cup {Nothing}] /\ users' \in BOOLEAN
        /\ exportFile' \in {"previous", "partial", "whole"}
    BY <1>3, <1>4, <1>6, ServerTyped
  <2>2. job.op = "function" => fns'[job.a.new] = "new"
    BY <1>1, <1>2, <1>3, <1>6, FunctionIsWritten
  <2>3. job.op = "copy" /\ ~OntoItself(job.a) => colls'["here"]["x"] = colls["here"]["x"]
    BY <1>1, <1>2, <1>3, <1>6, SourceIsLeftAlone
  <2>4. job.op = "export" => colls' = colls
    BY <1>1, <1>2, <1>3, <1>6, ExportIsQuiet
  <2> QED
    BY <1>2, <2>1, <2>2, <2>3, <2>4, ThrownKeepsInv
<1>7. ASSUME NEW d \in job.left, q.k = "insertEach", colls' = Inserted(q, d),
             UNCHANGED <<fns, users, exportFile>>
      PROVE  OpsInv'
  <2>1. d \in Docs
    BY DEF OpsInv, OpsTypeOK, JobIsTyped
  <2>2. PICK new : new = After(Doc("insert", q.h, q.c, d))
    OBVIOUS
  <2>3. new \in Collections /\ (~new.exists => new = NoCollection)
    BY <1>3, <1>4, <2>1, <2>2, InsertedTyped
  <2>4. q.h \in Conns /\ q.c \in Colls /\ "here" \in Conns /\ "x" \in Colls
    BY <1>3 DEF AllCalls, Conns, Colls
  <2>5. colls' = [colls EXCEPT ![q.h][q.c] = new]
    BY <1>7, <2>2 DEF Inserted
  <2>6. /\ colls' \in [Conns -> [Colls -> Collections]]
        /\ \A h \in Conns, c \in Colls : ~(h = q.h /\ c = q.c) => colls'[h][c] = colls[h][c]
        /\ colls'[q.h][q.c] = new
    BY <1>4, <2>3, <2>4, <2>5 DEF OpsTypeOK
  <2>7. \A h \in Conns, c \in Colls : ~colls'[h][c].exists => colls'[h][c] = NoCollection
    BY <1>4, <2>3, <2>6 DEF OpsTypeOK
  <2>8. job.op \in {"copy", "duplicate"} /\ q.h = Target.h /\ q.c = Target.c
    BY <1>1, <1>2, <1>3, <1>7, StreamFacts
  <2>9. job.op = "copy" /\ ~OntoItself(job.a) => colls'["here"]["x"] = colls["here"]["x"]
    BY <2>4, <2>6, <2>8, TargetIsElsewhere DEF OpsInv
  <2>10. /\ fns' \in [FnNames -> Codes \cup {Nothing}] /\ users' \in BOOLEAN
         /\ exportFile' \in {"previous", "partial", "whole"}
    BY <1>4, <1>7 DEF OpsTypeOK
  <2> QED
    BY <1>2, <2>6, <2>7, <2>8, <2>9, <2>10, ThrownKeepsInv
<1> QED
  BY <1>1, <1>5, <1>6, <1>7 DEF JobFails

LEMMA InsertKeepsInv ==
  ASSUME OpsInv, InsertNext
  PROVE  OpsInv'
<1>1. PICK q : q = Head(job.todo)
  OBVIOUS
<1>2. job.state = "running" /\ job.todo # <<>> /\ q.k = "insertEach"
      /\ UNCHANGED <<fns, users, exportFile, progress, jobs, others>>
  BY <1>1 DEF InsertNext
<1>3. q \in AllCalls
  BY <1>1, <1>2, TodoFacts DEF OpsInv
<1>4. CASE job.left = {}
  <2>1. job' = Next1(job) /\ colls' = colls
    BY <1>4 DEF InsertNext
  <2> QED
    BY <1>1, <1>2, <1>3, <1>4, <2>1, StreamEndKeepsInv
<1>5. CASE job.left # {}
  <2>1. PICK d \in job.left :
            \/ /\ ~Duplicate(q, d)
               /\ colls' = Inserted(q, d)
               /\ job' = [job EXCEPT !.left = job.left \ {d}, !.copied = job.copied + 1]
            \/ /\ Duplicate(q, d) \/ MayClash(q, d)
               /\ job' = IF job.op = "copy" THEN [job EXCEPT !.left = job.left \ {d}, !.skipped = job.skipped + 1]
                         ELSE Thrown(job)
               /\ UNCHANGED colls
    BY <1>1, <1>5 DEF InsertNext
  <2>13. /\ job.op \in {"copy", "duplicate"} /\ Missing \in SUBSET Docs
         /\ Missing = job.matched \ (job.left \cup colls[q.h][q.c].docs)
         /\ (~job.failed => Cardinality(Missing) <= job.skipped)
    BY <1>1, <1>2, <1>3, StreamFacts
  <2>2. JobIsTyped /\ OpsTypeOK /\ JobIsRecord
    BY DEF OpsInv, JobIsTyped
  <2>3. job.matched \in SUBSET Docs /\ job.left \subseteq job.matched /\ d \in Docs
        /\ job.copied \in Nat /\ job.skipped \in Nat
        /\ job.copied + job.skipped + Cardinality(job.left) = Cardinality(job.matched)
    BY <2>2 DEF JobIsTyped, OpsTypeOK
  <2>4. IsFiniteSet(job.left) /\ Cardinality(job.left) \in Nat
    BY <2>3, DocsCount
  <2>5. PICK left \in SUBSET job.left : left = job.left \ {d}
    OBVIOUS
  <2>6. Cardinality(left) = Cardinality(job.left) - 1 /\ Cardinality(left) \in Nat
    <3>1. Cardinality(left) = Cardinality(job.left) - 1
      BY <2>4, <2>5, FS_RemoveElement
    <3> QED
      BY <2>3, <2>5, <3>1, DocsCount
  <2>7. q.h \in Conns /\ q.c \in Colls
    BY <1>3 DEF AllCalls
  <2>8. PICK old : old = colls[q.h][q.c]
    OBVIOUS
  <2>9. old \in Collections /\ (~old.exists => old = NoCollection)
        /\ colls \in [Conns -> [Colls -> Collections]]
    BY <2>2, <2>7, <2>8 DEF OpsTypeOK
  <2>10. CASE /\ ~Duplicate(q, d)
              /\ colls' = Inserted(q, d)
              /\ job' = [job EXCEPT !.left = job.left \ {d}, !.copied = job.copied + 1]
    <3>3. PICK new : new = After(Doc("insert", q.h, q.c, d))
      OBVIOUS
    <3>4. new \in Collections /\ (~new.exists => new = NoCollection) /\ new.docs = old.docs \cup {d}
      BY <1>3, <2>2, <2>3, <2>8, <3>3, InsertedTyped
    <3>6. colls' = [colls EXCEPT ![q.h][q.c] = new]
      BY <2>10, <3>3 DEF Inserted
    <3>7. PICK copied \in Nat : copied = job.copied + 1
      BY <2>3
    <3>8. PICK skipped \in Nat : skipped = job.skipped
      BY <2>3
    <3>9. copied + skipped + Cardinality(left) = Cardinality(job.matched)
      BY <2>3, <2>4, <2>6, <3>7, <3>8
    <3>10. PICK names \in SUBSET job.names : names = job.names
      OBVIOUS
    <3>11. job' = [op |-> job.op, state |-> job.state, todo |-> job.todo, rescue |-> job.rescue,
                 a |-> job.a, left |-> left, names |-> names, matched |-> job.matched,
                 copied |-> copied, skipped |-> skipped, fails |-> job.fails,
                 failed |-> job.failed, broke |-> job.broke, before |-> job.before]
      <4>1. job' = [job EXCEPT !.left = left, !.copied = copied]
        BY <2>5, <2>10, <3>7
      <4> QED
        BY <2>2, <3>8, <3>10, <4>1 DEF JobIsRecord
    <3>12. job.matched \ (left \cup new.docs) = Missing
      BY <2>5, <2>8, <2>13, <3>4
    <3>13. Counted(left, new.docs, skipped)
      BY <2>13, <3>8, <3>12 DEF Counted
    <3>14. job.state = "running" /\ job.todo # <<>> /\ q = Head(job.todo) /\ q.k \in {"insertEach", "createEach"}
           /\ q \in AllCalls /\ UNCHANGED <<fns, users, exportFile, progress, jobs, others>>
           /\ (q.k = "createEach" => left = job.left)
      BY <1>1, <1>2, <1>3
    <3>15. job.op = "duplicate" => skipped = job.skipped
      BY <3>8
    <3> HIDE <2>5, <2>8, <3>3
    <3> QED
      BY <3>4, <3>6, <3>9, <3>11, <3>13, <3>14, <3>15, StepKeepsInv
  <2>11. CASE /\ job.op = "copy"
              /\ job' = [job EXCEPT !.left = job.left \ {d}, !.skipped = job.skipped + 1]
              /\ UNCHANGED colls
    <3>1. colls' = [colls EXCEPT ![q.h][q.c] = old]
      BY <2>7, <2>8, <2>9, <2>11
    <3>8. UNCHANGED <<fns, users, exportFile, progress, jobs, others>>
      BY <1>2
    <3>9. PICK same \in Collections : same = old
      BY <2>9
    <3>10. (~same.exists => same = NoCollection) /\ colls' = [colls EXCEPT ![q.h][q.c] = same]
      BY <2>9, <3>1, <3>9
    <3>2. PICK copied \in Nat : copied = job.copied
      BY <2>3
    <3>3. PICK skipped \in Nat : skipped = job.skipped + 1
      BY <2>3
    <3>4. copied + skipped + Cardinality(left) = Cardinality(job.matched)
      BY <2>3, <2>4, <2>6, <3>2, <3>3
    <3>5. PICK names \in SUBSET job.names : names = job.names
      OBVIOUS
    <3>6. job' = [op |-> job.op, state |-> job.state, todo |-> job.todo, rescue |-> job.rescue,
                 a |-> job.a, left |-> left, names |-> names, matched |-> job.matched,
                 copied |-> copied, skipped |-> skipped, fails |-> job.fails,
                 failed |-> job.failed, broke |-> job.broke, before |-> job.before]
      <4>1. job' = [job EXCEPT !.left = left, !.skipped = skipped]
        BY <2>5, <2>11, <3>3
      <4> QED
        BY <2>2, <3>2, <3>5, <4>1 DEF JobIsRecord
    <3>13. PICK T \in SUBSET (Missing \cup {d}) : T = job.matched \ (left \cup same.docs)
      BY <2>5, <2>8, <2>13, <3>9
    <3>14. Cardinality(T) <= Cardinality(Missing) + 1 /\ Cardinality(T) \in Nat /\ Cardinality(Missing) \in Nat
      <4>1. T \in SUBSET Docs
        BY <2>3, <3>13
      <4> QED
        BY <2>3, <2>13, <4>1, OneMoreDoc, DocsCount
    <3>7. Counted(left, same.docs, skipped)
      BY <2>3, <2>13, <3>3, <3>13, <3>14 DEF Counted
    <3>15. job.op = "duplicate" => skipped = job.skipped
      BY <2>11
    <3>11. q.k = "createEach" => left = job.left
      BY <1>2
    <3>12. job.state = "running" /\ job.todo # <<>> /\ q = Head(job.todo) /\ q.k \in {"insertEach", "createEach"}
           /\ q \in AllCalls
      BY <1>1, <1>2, <1>3
    <3> HIDE <2>5, <2>8, <3>9
    <3> QED
      BY <3>4, <3>6, <3>7, <3>8, <3>10, <3>11, <3>12, <3>15, StepKeepsInv
  <2>12. CASE job' = Thrown(job) /\ UNCHANGED colls
    BY <1>2, <2>12, QuietFailure
  <2> QED
    BY <2>1, <2>10, <2>11, <2>12
<1> QED
  BY <1>4, <1>5

LEMMA CreateKeepsInv ==
  ASSUME OpsInv, CreateNext
  PROVE  OpsInv'
<1>1. PICK q : q = Head(job.todo)
  OBVIOUS
<1>2. job.state = "running" /\ job.todo # <<>> /\ q.k = "createEach"
      /\ UNCHANGED <<fns, users, exportFile, progress, jobs, others>>
  BY <1>1 DEF CreateNext
<1>3. q \in AllCalls
  BY <1>1, <1>2, TodoFacts DEF OpsInv
<1>4. CASE job.names = {}
  <2>1. job' = Next1(job) /\ colls' = colls
    BY <1>4 DEF CreateNext
  <2> QED
    BY <1>1, <1>2, <1>3, <2>1, StreamEndKeepsInv
<1>5. CASE job.names # {}
  <2>1. PICK n \in job.names :
            /\ job' = [job EXCEPT !.names = job.names \ {n}]
            /\ \/ LET d == colls["here"][q.from].ix[n] IN
                    /\ d # 0
                    /\ colls' = [colls EXCEPT ![q.h][q.c] = After(Ix("createIndex", q.h, q.c, n, d))]
               \/ UNCHANGED colls
    BY <1>1, <1>5 DEF CreateNext
  <2>2. JobIsTyped /\ OpsTypeOK /\ JobIsRecord
    BY DEF OpsInv, JobIsTyped
  <2>3. job.copied \in Nat /\ job.skipped \in Nat
        /\ job.copied + job.skipped + Cardinality(job.left) = Cardinality(job.matched)
        /\ n \in IxNames
    BY <2>2 DEF JobIsTyped, OpsTypeOK
  <2>4. q.h \in Conns /\ q.c \in Colls /\ q.from \in Colls /\ "here" \in Conns
    BY <1>2, <1>3 DEF AllCalls, Conns
  <2>5. PICK old : old = colls[q.h][q.c]
    OBVIOUS
  <2>6. old \in Collections /\ (~old.exists => old = NoCollection)
        /\ colls \in [Conns -> [Colls -> Collections]]
    BY <2>2, <2>4, <2>5 DEF OpsTypeOK
  <2>7. PICK left \in SUBSET job.left : left = job.left
    OBVIOUS
  <2>8. PICK names \in SUBSET job.names : names = job.names \ {n}
    OBVIOUS
  <2>9. PICK copied \in Nat : copied = job.copied
    BY <2>3
  <2>10. PICK skipped \in Nat : skipped = job.skipped
    BY <2>3
  <2>11. job' = [op |-> job.op, state |-> job.state, todo |-> job.todo, rescue |-> job.rescue,
                 a |-> job.a, left |-> left, names |-> names, matched |-> job.matched,
                 copied |-> copied, skipped |-> skipped, fails |-> job.fails,
                 failed |-> job.failed, broke |-> job.broke, before |-> job.before]
    <3>1. job' = [job EXCEPT !.names = names]
      BY <2>1, <2>8
    <3> QED
      BY <2>2, <2>7, <2>9, <2>10, <3>1 DEF JobIsRecord
  <2>12. copied + skipped + Cardinality(left) = Cardinality(job.matched)
    BY <2>3, <2>7, <2>9, <2>10
  <2>15. /\ Missing = job.matched \ (job.left \cup colls[q.h][q.c].docs)
         /\ (~job.failed => Cardinality(Missing) <= job.skipped)
    BY <1>1, <1>2, <1>3, StreamFacts
  <2>13. CASE UNCHANGED colls
    <3>1. colls' = [colls EXCEPT ![q.h][q.c] = old]
      BY <2>4, <2>5, <2>6, <2>13
    <3>2. Counted(left, old.docs, skipped)
      BY <2>5, <2>7, <2>10, <2>15 DEF Counted
    <3>3. /\ job.state = "running" /\ job.todo # <<>> /\ q = Head(job.todo)
          /\ q.k \in {"insertEach", "createEach"} /\ q \in AllCalls
          /\ UNCHANGED <<fns, users, exportFile, progress, jobs, others>>
      BY <1>1, <1>2, <1>3
    <3>4. /\ q.k = "createEach" => left = job.left
          /\ job.op = "duplicate" => skipped = job.skipped
      BY <2>7, <2>10
    <3> HIDE <2>5, <2>7, <2>8, <2>9, <2>10
    <3> QED
      BY <2>6, <2>11, <2>12, <3>1, <3>2, <3>3, <3>4, StepKeepsInv
  <2>14. ASSUME NEW d, d = colls["here"][q.from].ix[n], d # 0,
                colls' = [colls EXCEPT ![q.h][q.c] = After(Ix("createIndex", q.h, q.c, n, d))]
         PROVE  OpsInv'
    <3>1. d \in Defs
      <4>1. colls["here"][q.from] \in Collections
        BY <2>4, <2>6
      <4>2. colls["here"][q.from].ix \in [IxNames -> {0} \cup Defs]
        BY <4>1, CollectionFields
      <4> QED
        BY <2>3, <2>14, <4>2
    <3>2. PICK e : e = Ix("createIndex", q.h, q.c, n, d)
      OBVIOUS
    <3>3. e \in AllCalls /\ e.k = "createIndex" /\ e.h = q.h /\ e.c = q.c /\ e.n = n
      BY <2>3, <2>4, <3>1, <3>2 DEF Ix, AllCalls
    <3>4. PICK new : new = After(e)
      OBVIOUS
    <3>5. new \in Collections /\ (~new.exists => new = NoCollection)
      BY <2>2, <3>3, <3>4, AfterTyped
    <3>6. new.docs = old.docs
      <4>1. PICK y : y = [old EXCEPT !.exists = TRUE]
        OBVIOUS
      <4>2. y \in Collections /\ y.docs = old.docs
        BY <2>6, <4>1 DEF Collections
      <4>3. new = [y EXCEPT !.ix[n] = e.d]
        BY <2>5, <3>3, <3>4, <4>1 DEF After
      <4> QED
        BY <4>2, <4>3 DEF Collections
    <3>7. colls' = [colls EXCEPT ![q.h][q.c] = new]
      BY <2>14, <3>2, <3>4
    <3>8. Counted(left, new.docs, skipped)
      BY <2>5, <2>7, <2>10, <2>15, <3>6 DEF Counted
    <3>9. /\ job.state = "running" /\ job.todo # <<>> /\ q = Head(job.todo)
          /\ q.k \in {"insertEach", "createEach"} /\ q \in AllCalls
          /\ UNCHANGED <<fns, users, exportFile, progress, jobs, others>>
      BY <1>1, <1>2, <1>3
    <3>10. /\ q.k = "createEach" => left = job.left
           /\ job.op = "duplicate" => skipped = job.skipped
      BY <2>7, <2>10
    <3> HIDE <2>5, <2>7, <2>8, <2>9, <2>10, <3>4
    <3> QED
      BY <2>11, <2>12, <3>5, <3>7, <3>8, <3>9, <3>10, StepKeepsInv
  <2> QED
    BY <2>1, <2>13, <2>14
<1> QED
  BY <1>4, <1>5

\* An answer, and the end of the program, change the state of the operation and nothing else.
LEMMA StateKeepsInv ==
  ASSUME OpsInv, job.state = "running", NEW state \in {"answered", "killed"},
         job' = [job EXCEPT !.state = state], progress' = FALSE,
         UNCHANGED <<colls, fns, users, exportFile, jobs, others>>
  PROVE  OpsInv' /\ job'.state = state /\ job'.todo = job.todo
<1>1. JobIsTyped /\ OpsTypeOK /\ JobIsRecord
  BY DEF OpsInv, JobIsTyped
<1>2. PICK r : r = [op |-> job.op, state |-> state, todo |-> job.todo, rescue |-> job.rescue,
              a |-> job.a, left |-> job.left, names |-> job.names, matched |-> job.matched,
              copied |-> job.copied, skipped |-> job.skipped, fails |-> job.fails,
              failed |-> job.failed, broke |-> job.broke, before |-> job.before]
  OBVIOUS
<1>3. /\ r.op = job.op /\ r.state = state /\ r.todo = job.todo /\ r.rescue = job.rescue
      /\ r.a = job.a /\ r.left = job.left /\ r.names = job.names /\ r.matched = job.matched
      /\ r.copied = job.copied /\ r.skipped = job.skipped /\ r.fails = job.fails
      /\ r.failed = job.failed /\ r.broke = job.broke /\ r.before = job.before
  BY <1>2
<1>4. job' = r
  <2>1. job' = [op |-> job.op, state |-> state, todo |-> job.todo, rescue |-> job.rescue,
              a |-> job.a, left |-> job.left, names |-> job.names, matched |-> job.matched,
              copied |-> job.copied, skipped |-> job.skipped, fails |-> job.fails,
              failed |-> job.failed, broke |-> job.broke, before |-> job.before]
    BY <1>1 DEF JobIsRecord
  <2> QED
    BY <1>2, <2>1, Zenon
<1>5. /\ job'.op = job.op /\ job'.state = state /\ job'.todo = job.todo /\ job'.rescue = job.rescue
      /\ job'.a = job.a /\ job'.left = job.left /\ job'.names = job.names /\ job'.matched = job.matched
      /\ job'.copied = job.copied /\ job'.skipped = job.skipped /\ job'.fails = job.fails
      /\ job'.failed = job.failed /\ job'.broke = job.broke /\ job'.before = job.before
  BY <1>3, <1>4, Zenon
<1>6. JobIsRecord'
  BY <1>2, <1>4, <1>5, Zenon DEF JobIsRecord
<1>7. JobIsTyped'
  <2>1. job'.failed = (job'.fails > 0)
    BY <1>1, <1>5, Zenon DEF JobIsTyped
  <2> QED
    BY <1>1, <1>5, <1>6, <2>1 DEF JobIsTyped
<1>8. OpsTypeOK'
  <2>1. job'.left \subseteq job'.matched /\ job'.names \subseteq IxNames
        /\ job'.copied + job'.skipped + Cardinality(job'.left) = Cardinality(job'.matched)
        /\ job'.state \in {"idle", "running", "answered", "killed"}
    BY <1>1, <1>5 DEF OpsTypeOK
  <2> QED
    BY <1>1, <2>1 DEF OpsTypeOK
<1>9. OthersDoNotStream'
  BY <1>5 DEF OpsInv, OthersDoNotStream
<1>10. CopyIsInOrder'
  <2>1. Target' = Target
    BY <1>5 DEF Target
  <2>2. Stage(job') = Stage(job)
    BY <1>5 DEF Stage
  <2>3. \A q : Rank(q)' = Rank(q)
    BY DEF Rank
  <2>4. Missing' = Missing
    BY <1>5, <2>1 DEF Missing
  <2> QED
    BY <1>5, <2>1, <2>2, <2>4 DEF OpsInv, CopyIsInOrder
<1>11. IndexIsInOrder'
  BY <1>5 DEF OpsInv, IndexIsInOrder
<1>12. FunctionIsInOrder'
  BY <1>5 DEF OpsInv, FunctionIsInOrder
<1>13. LastCallCounts'
  BY <1>5 DEF OpsInv, LastCallCounts
<1>14. SourceIsKept' /\ ExportOnlyReads' /\ ProgressCloses'
  BY <1>5 DEF OpsInv, SourceIsKept, SourceStays, OntoItself, ExportOnlyReads, ProgressCloses
<1> QED
  BY <1>5, <1>7, <1>8, <1>9, <1>10, <1>11, <1>12, <1>13, <1>14 DEF OpsInv

\* Another client adds to a collection; the operation does not move.
LEMMA OtherKeepsInv ==
  ASSUME OpsInv, Other
  PROVE  OpsInv'
<1>1. JobIsTyped /\ OpsTypeOK
  BY DEF OpsInv
<1>2. PICK h \in Conns, c \in {"x", "y"}, docs \in {{}} \cup {{d} : d \in Docs} :
         colls' = [colls EXCEPT ![h][c].exists = TRUE, ![h][c].docs = colls[h][c].docs \cup docs]
  BY DEF Other
<1>3. c \in Colls /\ docs \subseteq Docs
  BY DEF Colls
<1>4. colls \in [Conns -> [Colls -> Collections]]
  BY <1>1 DEF OpsTypeOK
<1>5. PICK old \in Collections : old = colls[h][c]
  BY <1>3, <1>4
<1>6. PICK new : new = [old EXCEPT !.exists = TRUE, !.docs = old.docs \cup docs]
  OBVIOUS
<1>7. new \in Collections /\ new.exists = TRUE /\ new.docs = old.docs \cup docs /\ new.ix = old.ix
  BY <1>3, <1>6 DEF Collections
<1>8. colls' = [colls EXCEPT ![h][c] = new]
  BY <1>2, <1>5, <1>6
<1>9. /\ colls' \in [Conns -> [Colls -> Collections]]
      /\ \A k \in Conns, e \in Colls : ~(k = h /\ e = c) => colls'[k][e] = colls[k][e]
      /\ colls'[h][c] = new
  BY <1>3, <1>4, <1>7, <1>8
<1>10. \A k \in Conns, e \in Colls :
          colls[k][e].docs \subseteq colls'[k][e].docs /\ colls'[k][e].ix = colls[k][e].ix
  BY <1>5, <1>7, <1>9
<1>11. /\ "here" \in Conns /\ "x" \in Colls /\ "temp" \in Colls
       /\ UNCHANGED <<fns, users, exportFile, job, progress, jobs>>
       /\ others' = others + 1 /\ others < MaxOthers
  BY DEF Conns, Colls, Other
<1>12. others' \in 0..MaxOthers /\ others' # 0
  BY <1>1, <1>11, OpsBoundsAssumption DEF OpsTypeOK
<1>13. OpsTypeOK'
  <2>1. \A k \in Conns, e \in Colls : ~colls'[k][e].exists => colls'[k][e] = NoCollection
    BY <1>1, <1>7, <1>9 DEF OpsTypeOK
  <2> QED
    BY <1>1, <1>9, <1>11, <1>12, <2>1 DEF OpsTypeOK
<1>14. JobIsTyped' /\ OthersDoNotStream' /\ FunctionIsInOrder' /\ ProgressCloses' /\ ExportOnlyReads'
  <2>1. JobIsTyped'
    BY <1>1, <1>11 DEF JobIsTyped, JobIsRecord
  <2>2. OthersDoNotStream' /\ FunctionIsInOrder' /\ ProgressCloses'
    BY <1>11 DEF OpsInv, OthersDoNotStream, FunctionIsInOrder, ProgressCloses
  <2> QED
    BY <1>12, <2>1, <2>2 DEF ExportOnlyReads
<1>15. CopyIsInOrder'
  <2>1. Target' = Target /\ Stage(job') = Stage(job)
    BY <1>11 DEF Target, Stage
  <2>2. SUFFICES ASSUME job.op \in {"copy", "duplicate"} PROVE CopyIsInOrder'
    BY <1>11 DEF CopyIsInOrder
  <2>3. Target.h \in Conns /\ Target.c \in Colls
    BY <2>2 DEF OpsInv, CopyIsInOrder, Colls
  <2>4. colls[Target.h][Target.c].docs \subseteq colls'[Target.h][Target.c].docs
    BY <1>10, <2>3
  <2>8. job'.matched = job.matched /\ job'.left = job.left /\ job.matched \subseteq Docs
    BY <1>1, <1>11 DEF JobIsTyped
  <2>9. Missing' = job.matched \ (job.left \cup colls'[Target.h][Target.c].docs)
    BY <2>1, <2>8 DEF Missing
  <2>10. PICK S, T : S = Missing /\ T = Missing'
    OBVIOUS
  <2>5. /\ S \in SUBSET Docs /\ T \in SUBSET Docs /\ T \subseteq S
        /\ S = Missing /\ T = Missing'
    <3>1. S = job.matched \ (job.left \cup colls[Target.h][Target.c].docs)
      BY <2>10 DEF Missing
    <3>2. T = job.matched \ (job.left \cup colls'[Target.h][Target.c].docs)
      BY <2>9, <2>10
    <3>3. S \in SUBSET Docs /\ T \in SUBSET Docs /\ T \subseteq S
      BY <2>4, <2>8, <3>1, <3>2
    <3> QED
      BY <2>10, <3>3
  <2>6. Cardinality(T) <= Cardinality(S) /\ Cardinality(T) \in Nat /\ Cardinality(S) \in Nat
    BY <2>5, FewerDocs, DocsCount
  <2>7. Cardinality(Missing) <= job.skipped => Cardinality(Missing') <= job.skipped
    BY <1>1, <2>5, <2>6 DEF JobIsTyped
  <2> QED
    BY <1>11, <2>1, <2>2, <2>7 DEF OpsInv, CopyIsInOrder
<1>16. colls'["here"]["x"].ix = colls["here"]["x"].ix
  BY <1>10, <1>11
<1>17. IndexIsInOrder'
  BY <1>11, <1>16 DEF OpsInv, IndexIsInOrder
<1>18. LastCallCounts'
  <2>1. colls'["here"]["temp"] = colls["here"]["temp"]
    BY <1>9, <1>11
  <2> QED
    BY <1>11, <2>1 DEF OpsInv, LastCallCounts
<1>19. SourceIsKept'
  <2>1. colls["here"]["x"].docs \subseteq colls'["here"]["x"].docs
    BY <1>10, <1>11
  <2> QED
    BY <1>11, <1>16, <2>1 DEF OpsInv, SourceIsKept, SourceStays, OntoItself
<1> QED
  BY <1>13, <1>14, <1>15, <1>17, <1>18, <1>19 DEF OpsInv

\* Before anything is asked for, the worker has no operation.
LEMMA OpsInitInv ==
  ASSUME OpsInit
  PROVE  OpsInv
<1>1. /\ job = NoJob /\ job.op = "none" /\ job.state = "idle" /\ job.todo = <<>> /\ job.rescue = <<>>
      /\ job.left = {} /\ job.names = {} /\ job.matched = {} /\ job.copied = 0 /\ job.skipped = 0
      /\ job.fails = 0 /\ job.failed = FALSE /\ progress = FALSE
  BY DEF OpsInit, NoJob, Nothing
<1>2. JobIsRecord
  BY <1>1 DEF JobIsRecord, NoJob
<1>3. JobIsTyped
  <2>1. job.failed = (job.fails > 0)
    <3>1. PICK n : n = job.fails
      OBVIOUS
    <3>2. (n > 0) = FALSE
      BY <1>1, <3>1
    <3> QED
      BY <1>1, <3>1, <3>2, Zenon
  <2> QED
    BY <1>1, <1>2, <2>1 DEF JobIsTyped
<1>4. ASSUME NEW docs \in SUBSET Docs
      PROVE  /\ Holding(docs) \in Collections /\ Holding(docs).exists = TRUE
             /\ \A second \in {0, 1} :
                  /\ [Holding(docs) EXCEPT !.ix = [i |-> 1, j |-> second]] \in Collections
                  /\ [Holding(docs) EXCEPT !.ix = [i |-> 1, j |-> second]].exists = TRUE
  <2>1. Holding(docs) \in Collections /\ Holding(docs).exists = TRUE
    BY DEF Holding, NoCollection, Collections
  <2>2. PICK x : x = Holding(docs)
    OBVIOUS
  <2>3. ASSUME NEW second \in {0, 1}
        PROVE  [x EXCEPT !.ix = [i |-> 1, j |-> second]] \in Collections
               /\ [x EXCEPT !.ix = [i |-> 1, j |-> second]].exists = TRUE
    <3>1. [i |-> 1, j |-> second] \in [IxNames -> {0} \cup Defs]
      BY DEF IxNames, Defs
    <3> QED
      BY <2>1, <2>2, <3>1 DEF Collections
  <2> QED
    BY <2>1, <2>2, <2>3
<1>5. (CHOOSE d \in Docs : TRUE) \in Docs
  BY DocsAssumption
<1>6. PICK target \in Targets, second \in {0, 1} :
        colls = [h \in Conns |-> [c \in Colls |->
                 IF c = "x" /\ h = "here" THEN [Holding(Docs) EXCEPT !.ix = [i |-> 1, j |-> second]]
                 ELSE IF c = "x" \/ (c = "y" /\ h = "here") THEN target ELSE NoCollection]]
  BY DEF OpsInit
<1>7. target \in Collections /\ (~target.exists => target = NoCollection)
  <2>1. PICK docs \in SUBSET Docs : docs = {CHOOSE d \in Docs : TRUE}
    BY <1>5
  <2>2. target \in {NoCollection, Holding({}), Holding(docs), [Holding(docs) EXCEPT !.ix = [i |-> 1, j |-> 0]]}
    BY <1>6, <2>1 DEF Targets
  <2>3. Holding({}) \in Collections /\ Holding({}).exists = TRUE
    BY <1>4
  <2> HIDE <1>6, <2>1
  <2> QED
    BY <1>4, <2>2, <2>3, EmptyCollection
<1>8. PICK full : full = [Holding(Docs) EXCEPT !.ix = [i |-> 1, j |-> second]]
  OBVIOUS
<1>9. full \in Collections /\ full.exists = TRUE
  BY <1>4, <1>8
<1>10. /\ colls \in [Conns -> [Colls -> Collections]]
       /\ \A h \in Conns, c \in Colls : ~colls[h][c].exists => colls[h][c] = NoCollection
  <2>1. \A h \in Conns, c \in Colls : colls[h][c] \in {full, target, NoCollection}
    BY <1>6, <1>8
  <2>2. colls = [h \in Conns |-> [c \in Colls |-> colls[h][c]]]
    BY <1>6
  <2>3. \A h \in Conns, c \in Colls : colls[h][c] \in Collections
    BY <1>7, <1>9, <2>1, EmptyCollection
  <2>4. \A h \in Conns, c \in Colls : ~colls[h][c].exists => colls[h][c] = NoCollection
    BY <1>7, <1>9, <2>1
  <2> HIDE <1>6
  <2> QED
    BY <2>2, <2>3, <2>4
<1>11. OpsTypeOK
  <2>1. job.copied + job.skipped + Cardinality(job.left) = Cardinality(job.matched)
    BY <1>1, FS_EmptySet
  <2>2. exportFile \in {"previous", "partial", "whole"} /\ jobs \in 0..MaxJobs /\ others \in 0..MaxOthers
    BY OpsBoundsAssumption DEF OpsInit
  <2>3. fns \in [FnNames -> Codes \cup {Nothing}]
    BY DEF OpsInit, Codes
  <2>4. users \in BOOLEAN
    BY DEF OpsInit
  <2> QED
    BY <1>1, <1>10, <2>1, <2>2, <2>3, <2>4 DEF OpsTypeOK
<1>12. OthersDoNotStream
  BY <1>1 DEF OthersDoNotStream
<1>13. CopyIsInOrder /\ IndexIsInOrder /\ FunctionIsInOrder /\ LastCallCounts
       /\ SourceIsKept /\ ExportOnlyReads /\ ProgressCloses
  BY <1>1 DEF CopyIsInOrder, IndexIsInOrder, FunctionIsInOrder, LastCallCounts, SourceIsKept,
              ExportOnlyReads, ProgressCloses
<1> QED
  BY <1>3, <1>11, <1>12, <1>13 DEF OpsInv

\* An answer is given when nothing is left to do.
AnsweredIsDone == job.state = "answered" => job.todo = <<>>

\* Every step keeps the invariant.
LEMMA OpsNextInv ==
  ASSUME OpsInv, [OpsNext]_opsVars
  PROVE  OpsInv'
<1>1. CASE Ask
  BY <1>1, DatabaseKeepsInv, CollectionKeepsInv, DocumentKeepsInv, IndexKeepsInv, FunctionKeepsInv,
     UserKeepsInv, CopyKeepsInv, ExportKeepsInv DEF Ask
<1>2. CASE JobFails
  BY <1>2, JobFailsKeepsInv
<1>3. CASE Calls \/ InsertNext \/ CreateNext
  BY <1>3, CallsKeepInv, InsertKeepsInv, CreateKeepsInv
<1>4. CASE Reply
  <2>1. /\ job.state = "running" /\ job' = [job EXCEPT !.state = "answered"] /\ progress' = FALSE
        /\ UNCHANGED <<colls, fns, users, exportFile, jobs, others>>
    BY <1>4 DEF Reply
  <2> QED
    BY <2>1, StateKeepsInv
<1>5. CASE Killed
  <2>1. /\ job.state = "running" /\ job' = [job EXCEPT !.state = "killed"] /\ progress' = FALSE
        /\ UNCHANGED <<colls, fns, users, exportFile, jobs, others>>
    BY <1>5 DEF Killed
  <2> QED
    BY <2>1, StateKeepsInv
<1>6. CASE Other
  BY <1>6, OtherKeepsInv
<1>7. CASE UNCHANGED opsVars
  <2>1. UNCHANGED <<colls, fns, users, exportFile, job, progress, jobs, others>>
    BY <1>7 DEF opsVars
  <2>2. OpsTypeOK' /\ JobIsTyped' /\ OthersDoNotStream'
    BY <2>1 DEF OpsInv, OpsTypeOK, JobIsTyped, JobIsRecord, OthersDoNotStream
  <2>3. CopyIsInOrder' /\ IndexIsInOrder' /\ FunctionIsInOrder' /\ LastCallCounts'
    <3>1. CopyIsInOrder'
      BY <2>1 DEF OpsInv, CopyIsInOrder, Target, Stage, Missing
    <3>2. IndexIsInOrder'
      BY <2>1 DEF OpsInv, IndexIsInOrder, Target, Stage
    <3>3. FunctionIsInOrder'
      BY <2>1 DEF OpsInv, FunctionIsInOrder, Target, Stage
    <3>4. LastCallCounts'
      BY <2>1 DEF OpsInv, LastCallCounts, Target, Stage
    <3> QED
      BY <3>1, <3>2, <3>3, <3>4
  <2>4. SourceIsKept' /\ ExportOnlyReads' /\ ProgressCloses'
    BY <2>1 DEF OpsInv, SourceIsKept, SourceStays, OntoItself, ExportOnlyReads, ProgressCloses
  <2> QED
    BY <2>2, <2>3, <2>4 DEF OpsInv
<1> QED
  BY <1>1, <1>2, <1>3, <1>4, <1>5, <1>6, <1>7 DEF OpsNext, DoJob

\* What the steps mean for the answer.
LEMMA AnsweredKeepsDone ==
  ASSUME OpsInv, AnsweredIsDone, [OpsNext]_opsVars
  PROVE  AnsweredIsDone'
<1>1. JobIsRecord /\ JobIsTyped
  BY DEF OpsInv, JobIsTyped
<1>2. ASSUME NEW op, NEW a, NEW calls, NEW rescue, StartJob(op, a, calls, rescue)
      PROVE  job'.state = "running"
  BY <1>2 DEF StartJob, NoJob
<1>3. CASE Ask
  <2>1. job'.state = "running"
    BY <1>2, <1>3 DEF Ask, AskDatabase, AskCollection, AskDocument, AskIndex, AskFunction, AskUser,
                      AskCopy, AskExport
  <2> QED
    BY <2>1 DEF AnsweredIsDone
<1>4. CASE JobFails \/ Calls \/ InsertNext \/ CreateNext
  <2>1. job.state = "running"
    BY <1>4 DEF JobFails, Calls, InsertNext, CreateNext
  <2>2. PICK j : j = job
    OBVIOUS
  <2>3. j.state = "running" /\ j = [op |-> j.op, state |-> j.state, todo |-> j.todo, rescue |-> j.rescue,
         a |-> j.a, left |-> j.left, names |-> j.names, matched |-> j.matched,
         copied |-> j.copied, skipped |-> j.skipped, fails |-> j.fails,
         failed |-> j.failed, broke |-> j.broke, before |-> j.before]
    BY <1>1, <2>1, <2>2 DEF JobIsRecord
  <2>4. Thrown(j).state = "running" /\ Next1(j).state = "running"
    BY <2>3 DEF Thrown, Next1
  <2>5. CASE JobFails
    BY <2>2, <2>4, <2>5 DEF JobFails, AnsweredIsDone
  <2>6. CASE Calls
    <3>1. PICK n : n = Next1(j)
      OBVIOUS
    <3>2. n = [op |-> j.op, state |-> j.state, todo |-> Tail(j.todo), rescue |-> j.rescue,
         a |-> j.a, left |-> j.left, names |-> j.names, matched |-> j.matched,
         copied |-> j.copied, skipped |-> j.skipped, fails |-> j.fails,
         failed |-> j.failed, broke |-> j.broke, before |-> j.before]
      BY <2>3, <3>1 DEF Next1
    <3>3. \/ \E m : job' = [n EXCEPT !.left = m, !.matched = m]
          \/ \E m : job' = [n EXCEPT !.names = m]
          \/ job' = n
      BY <2>2, <2>6, <3>1 DEF Calls
    <3>4. ASSUME NEW m, job' = [n EXCEPT !.left = m, !.matched = m] \/ job' = [n EXCEPT !.names = m]
          PROVE  job'.state = "running"
      BY <2>3, <3>2, <3>4
    <3>5. n.state = "running"
      BY <2>3, <3>2
    <3> QED
      BY <3>3, <3>4, <3>5 DEF AnsweredIsDone
  <2>7. CASE InsertNext
    <3>1. \/ job' = Next1(j) \/ job' = Thrown(j)
          \/ \E m, n : job' = [j EXCEPT !.left = m, !.copied = n]
          \/ \E m, n : job' = [j EXCEPT !.left = m, !.skipped = n]
      <4>1. CASE job.left = {}
        BY <2>2, <2>7, <4>1 DEF InsertNext
      <4>2. CASE job.left # {}
        <5>1. PICK d \in job.left :
                 \/ job' = [job EXCEPT !.left = @ \ {d}, !.copied = @ + 1]
                 \/ job' = IF job.op = "copy" THEN [job EXCEPT !.left = @ \ {d}, !.skipped = @ + 1] ELSE Thrown(job)
          BY <2>7, <4>2 DEF InsertNext
        <5>2. PICK l, m, n : l = j.left \ {d} /\ m = j.copied + 1 /\ n = j.skipped + 1
          OBVIOUS
        <5>3. \/ job' = [j EXCEPT !.left = l, !.copied = m]
              \/ job' = [j EXCEPT !.left = l, !.skipped = n]
              \/ job' = Thrown(j)
          BY <2>2, <5>1, <5>2
        <5> QED
          BY <5>3, ZenonT(40)
      <4> QED
        BY <4>1, <4>2
    <3>2. CASE job' = Next1(j) \/ job' = Thrown(j)
      BY <2>4, <3>2 DEF AnsweredIsDone
    <3>3. ASSUME NEW m, NEW n, job' = [j EXCEPT !.left = m, !.copied = n]
                               \/ job' = [j EXCEPT !.left = m, !.skipped = n]
          PROVE  job'.state = "running"
      BY <2>3, <3>3
    <3> QED
      BY <3>1, <3>2, <3>3 DEF AnsweredIsDone
  <2>8. CASE CreateNext
    <3>1. job' = Next1(j) \/ \E m : job' = [j EXCEPT !.names = m]
      BY <2>2, <2>8 DEF CreateNext
    <3>2. job'.state = "running"
      BY <2>3, <2>4, <3>1
    <3> QED
      BY <3>2 DEF AnsweredIsDone
  <2> QED
    BY <1>4, <2>5, <2>6, <2>7, <2>8
<1>5. CASE Reply
  <2>1. /\ job.state = "running" /\ job' = [job EXCEPT !.state = "answered"] /\ progress' = FALSE
        /\ UNCHANGED <<colls, fns, users, exportFile, jobs, others>> /\ job.todo = <<>>
    BY <1>5 DEF Reply
  <2>2. job'.todo = job.todo
    BY <2>1, StateKeepsInv
  <2> QED
    BY <2>1, <2>2 DEF AnsweredIsDone
<1>6. CASE Killed
  <2>1. /\ job.state = "running" /\ job' = [job EXCEPT !.state = "killed"] /\ progress' = FALSE
        /\ UNCHANGED <<colls, fns, users, exportFile, jobs, others>>
    BY <1>6 DEF Killed
  <2>2. job'.state = "killed"
    BY <2>1, StateKeepsInv
  <2> QED
    BY <2>2 DEF AnsweredIsDone
<1>7. CASE Other \/ UNCHANGED opsVars
  BY <1>7 DEF Other, opsVars, AnsweredIsDone
<1> QED
  BY <1>3, <1>4, <1>5, <1>6, <1>7 DEF OpsNext, DoJob

\* An operation of which nothing is left has done what its answer says.
LEMMA DoneIsTrue ==
  ASSUME OpsInv, AnsweredIsDone
  PROVE  AnswerIsTrue /\ FunctionNeverVanishes /\ IndexSurvivesEdit
<1>1. job.state = "answered" => job.failed = (job.fails > 0)
  BY Zenon DEF OpsInv, JobIsTyped
<1>2. ASSUME JobDone PROVE job.todo = <<>> /\ ~job.failed
  BY <1>2 DEF JobDone, AnsweredIsDone
<1>3. ASSUME JobDone, job.op \in {"copy", "duplicate"}
      PROVE  /\ job.left = {} /\ Cardinality(Missing) <= job.skipped
             /\ Missing = job.matched \ (IF job.op = "copy" THEN colls[Host(job.a.to.conn)][job.a.to.c]
                                         ELSE colls["here"][job.a.to]).docs
             /\ job.op = "duplicate" => Missing = {}
  <2>1. Stage(job) = 6
    BY <1>2, <1>3 DEF Stage
  <2>2. job.left = {} /\ Cardinality(Missing) <= job.skipped /\ (job.op = "duplicate" => job.skipped = 0)
    BY <1>2, <1>3, <2>1 DEF OpsInv, CopyIsInOrder
  <2>3. Missing = job.matched \ colls[Target.h][Target.c].docs
    BY <2>2 DEF Missing
  <2>4. IsFiniteSet(Missing) /\ Cardinality(Missing) \in Nat
    <3>1. PICK S \in SUBSET Docs : S = Missing
      BY <2>3 DEF OpsInv, JobIsTyped
    <3> QED
      BY <3>1, DocsCount
  <2>5. job.op = "duplicate" => Missing = {}
    <3>1. SUFFICES ASSUME job.op = "duplicate" PROVE Missing = {}
      OBVIOUS
    <3>2. Cardinality(Missing) = 0
      BY <2>2, <2>4, <3>1
    <3> QED
      BY <2>4, <3>2, FS_EmptySet
  <2>6. Missing = job.matched \ (IF job.op = "copy" THEN colls[Host(job.a.to.conn)][job.a.to.c]
                                 ELSE colls["here"][job.a.to]).docs
    BY <1>3, <2>3 DEF Target
  <2> QED
    BY <2>2, <2>5, <2>6
<1>4. ASSUME JobDone, job.op = "index"
      PROVE  colls["here"]["x"].ix[job.a.new] = 2
             /\ (job.a.old \notin {Nothing, job.a.new} => colls["here"]["x"].ix[job.a.old] = 0)
  <2>1. job.todo = <<>> /\ ~job.failed
    BY <1>2, <1>4
  <2>2. \A u, v : <<u>> # <<>> /\ <<u, v>> # <<>>
    OBVIOUS
  <2>3. IndexIsInOrder
    BY DEF OpsInv
  <2>4. PICK ix : ix = colls["here"]["x"].ix
    OBVIOUS
  <2>5. ix[job.a.new] = 2 /\ (job.a.old \notin {Nothing, job.a.new} => ix[job.a.old] = 0)
    BY <1>4, <2>1, <2>2, <2>3, <2>4 DEF IndexIsInOrder
  <2> QED
    BY <2>4, <2>5
<1>5. ASSUME JobDone, job.op = "function"
      PROVE  fns[job.a.new] = "new"
             /\ (~job.a.modern /\ job.a.old \notin {Nothing, job.a.new} => fns[job.a.old] = Nothing)
  <2>1. job.todo = <<>> /\ ~job.failed
    BY <1>2, <1>5
  <2>2. \A u, v : <<u>> # <<>> /\ <<u, v>> # <<>>
    OBVIOUS
  <2>3. FunctionIsInOrder
    BY DEF OpsInv
  <2> QED
    BY <1>5, <2>1, <2>2, <2>3 DEF FunctionIsInOrder
<1>6. ASSUME JobDone PROVE /\ job.op = "createDb" => ~colls["here"]["temp"].exists
                           /\ job.op = "export" => exportFile = "whole"
  BY <1>2, <1>6 DEF OpsInv, LastCallCounts
<1>7. AnswerIsTrue
  BY <1>1, <1>3, <1>4, <1>5, <1>6 DEF AnswerIsTrue
<1>8. FunctionNeverVanishes
  <2>1. "new" # Nothing
    BY DEF Nothing
  <2>2. SUFFICES ASSUME job.op = "function", job.a.old # Nothing
                 PROVE  fns[job.a.old] # Nothing \/ fns[job.a.new] = "new"
    BY DEF FunctionNeverVanishes
  <2> QED
    BY <2>1, <2>2 DEF OpsInv, FunctionIsInOrder
<1>9. IndexSurvivesEdit
  <2>1. SUFFICES ASSUME job.op = "index", job.state = "answered", job.a.old # Nothing
                 PROVE  \/ colls["here"]["x"].ix[job.a.old] # 0 \/ colls["here"]["x"].ix[job.a.new] # 0
                        \/ job.fails >= 2 \/ job.broke = "dropIndex"
    BY DEF IndexSurvivesEdit
  <2>2. job.todo = <<>>
    BY <2>1 DEF AnsweredIsDone
  <2> QED
    BY <2>1, <2>2 DEF OpsInv, IndexIsInOrder
<1> QED
  BY <1>7, <1>8, <1>9

\* MongoClient.cpp, MongoWorker.cpp: whatever call fails, before or after it has taken effect,
\* whoever else writes between two calls and whenever the program is killed, an answer without
\* an error is about an operation that was done, a renamed function is never lost and an edited
\* index only by two failures or a failed drop, an export writes nowhere else, and a copy leaves
\* its source as it was unless it is onto the source itself, through another connection.
THEOREM OperationsAreSound == OpsSpec => []OpsAreSound
<1>1. OpsInit => OpsInv /\ AnsweredIsDone
  <2>1. OpsInit => job.state = "idle"
    BY DEF OpsInit, NoJob
  <2> QED
    BY <2>1, OpsInitInv DEF AnsweredIsDone
<1>2. (OpsInv /\ AnsweredIsDone) /\ [OpsNext]_opsVars => (OpsInv /\ AnsweredIsDone)'
  BY OpsNextInv, AnsweredKeepsDone
<1>3. OpsInv /\ AnsweredIsDone => OpsAreSound
  BY DoneIsTrue DEF OpsInv, OpsAreSound
<1> QED
  BY <1>1, <1>2, <1>3, PTL DEF OpsSpec
=============================================================================
