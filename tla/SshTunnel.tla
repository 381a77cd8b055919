----------------------------- MODULE SshTunnel -----------------------------
(***************************************************************************)
(* The SSH tunnel of a connection: the select loop of ssh.c that forwards  *)
(* between the local TCP clients (the sockets of the driver and of         *)
(* mongosh) and the channels of one SSH session, its reconnection, and the *)
(* worker that runs it.                                                    *)
(*                                                                         *)
(* libssh2 reads its socket on behalf of every channel: whatever it takes  *)
(* off the wire while it reads, writes or opens ONE channel is queued in   *)
(* the channel it belongs to, and select() does not announce it again.     *)
(***************************************************************************)
EXTENDS Naturals, Sequences, SequencesExt, FiniteSets, Keeping

CONSTANTS
  Clients,      \* the TCP connections made to the local port
  MaxData,      \* bound: messages per client and direction
  MaxWire,      \* bound: SSH packets on their way to the tunnel
  MaxErrors     \* maxerrors of rbm_open_tunnel (25 in the code)

ASSUME BoundsAssumption == MaxData \in Nat /\ MaxWire \in Nat /\ MaxErrors \in Nat \ {0}

VARIABLES
  pc,           \* where the worker is
  link,         \* the TCP connection to the SSH server: "up" or "broken"
  backlog,      \* connections the kernel accepted and the tunnel has not
  conn,         \* the tunnel's end of a connection
  peer,         \* the client's end of it
  up,           \* messages of a client the tunnel has not read
  owed,         \* messages the remote server sent and the client did not get
  wire,         \* packets that arrived and libssh2 has not read
  unread,       \* messages libssh2 holds in the queue of a channel
  eof,          \* the remote end of a channel is closed, and libssh2 knows
  channels,     \* session->channels
  master,       \* masterset
  ready,        \* the sockets of readset this pass has not looked at
  errors,       \* serial EAGAIN results
  loop          \* locals of handle_ssh_connections: next channel, eagain, result

client == <<backlog, conn, peer, up>>
ssh == <<link, wire, unread, eof>>
select == <<channels, master, ready, errors, loop>>
vars == <<pc, client, ssh, owed, select>>

Local == "local"
Ssh == "ssh"

\* The sockets of the tunnel are told apart.
ASSUME ClientsAssumption == IsFiniteSet(Clients) /\ {Local, Ssh} \cap Clients = {}

Noise == <<"noise">>                  \* keep-alive, window and other packets
Data(c) == <<"data", c>>
Eof(c) == <<"eof", c>>
NoLoop == [s |-> 0, eagain |-> 0, result |-> "ok"]
Ended == pc \in {"normal", "error"}
Zero == [c \in Clients |-> 0]

TypeOK ==
  /\ pc \in {"new", "select", "pass", "channels", "reconnect", "normal", "error"}
  /\ link \in {"up", "broken"}
  /\ conn \in [Clients -> {"none", "accepted", "closed"}]
  /\ peer \in [Clients -> {"out", "here", "left", "reset"}]
  /\ \A f \in {up, owed, unread} : f \in [Clients -> 0..MaxData]
  /\ eof \in [Clients -> BOOLEAN]
  /\ Len(wire) <= MaxWire
  /\ \A q \in {backlog, channels} : IsInjective(q) /\ ToSet(q) \subseteq Clients
  /\ master \subseteq {Local, Ssh} \cup Clients
  /\ ready \subseteq master \cup {Local, Ssh}
  /\ errors \in 0..MaxErrors
  /\ loop.s \in 0..Cardinality(Clients) /\ loop.result \in {"ok", "again", "error"}

Init ==
  /\ pc = "new" /\ link = "broken"
  /\ backlog = <<>> /\ conn = [c \in Clients |-> "none"] /\ peer = [c \in Clients |-> "out"]
  /\ up = Zero /\ owed = Zero
  /\ wire = <<>> /\ unread = Zero /\ eof = [c \in Clients |-> FALSE]
  /\ channels = <<>> /\ master = {} /\ ready = {} /\ errors = 0 /\ loop = NoLoop

-----------------------------------------------------------------------------
(* What libssh2 has for channel c once it has read the wire empty.          *)

OnWire(c) == Cardinality({i \in DOMAIN wire : wire[i] = Data(c)})
Pending(c) == unread[c] + OnWire(c)
AtEof(c) == eof[c] \/ Eof(c) \in ToSet(wire)

(* Mutant: the packets of the other channels are lost.                      *)
DrainLoses == /\ unread' = unread
              /\ eof' = [c \in Clients |-> AtEof(c)]
              /\ wire' = <<>>

Drain == /\ unread' = [c \in Clients |-> Pending(c)]
         /\ eof' = [c \in Clients |-> AtEof(c)]
         /\ wire' = <<>>

(* rbm_session_cleanup: the channels with the sockets of their clients, the *)
(* session and its socket are closed.                                       *)
NoChannels ==
  /\ channels' = <<>> /\ wire' = <<>> /\ unread' = Zero /\ owed' = Zero
  /\ eof' = [c \in Clients |-> FALSE]

Cleaned == [c \in Clients |-> IF c \in ToSet(channels) THEN "closed" ELSE conn[c]]

(* The end of the worker: rbm_ssh_session_close after a normal end or a     *)
(* failure. Closing the local socket resets what waits in its backlog.      *)
Finish(how) ==
  /\ pc' = how /\ NoChannels /\ link' = "broken" /\ backlog' = <<>>
  /\ master' = {} /\ ready' = {} /\ errors' = 0 /\ loop' = NoLoop
  /\ UNCHANGED <<peer, up>>

(* rbm_open_tunnel from its start: the two sockets of a fresh master set.   *)
Enter ==
  /\ pc' = "select" /\ NoChannels /\ link' = "up"
  /\ master' = {Local, Ssh} /\ ready' = {} /\ errors' = 0 /\ loop' = NoLoop
  /\ UNCHANGED <<backlog, peer, up>>

-----------------------------------------------------------------------------
(* The clients, the remote server and the network.                          *)

Connect(c) ==
  /\ pc # "new" /\ peer[c] = "out" /\ Len(backlog) < 2
  /\ backlog' = Append(backlog, c) /\ peer' = [peer EXCEPT ![c] = "here"]
  /\ UNCHANGED <<pc, conn, up, ssh, owed, select>>

ClientSends(c) ==
  /\ peer[c] = "here" /\ conn[c] # "closed" /\ (conn[c] = "accepted" \/ c \in ToSet(backlog))
  /\ up[c] < MaxData
  /\ up' = [up EXCEPT ![c] = @ + 1]
  /\ UNCHANGED <<pc, backlog, conn, peer, ssh, owed, select>>

ClientLeaves(c) ==
  /\ peer[c] = "here"
  /\ \/ peer' = [peer EXCEPT ![c] = "left"] /\ UNCHANGED up
     \/ peer' = [peer EXCEPT ![c] = "reset"] /\ up' = [up EXCEPT ![c] = 0]
  /\ UNCHANGED <<pc, backlog, conn, ssh, owed, select>>

Arrives(p) == link = "up" /\ Len(wire) < MaxWire /\ wire' = Append(wire, p)

ServerSends(c) ==
  /\ c \in ToSet(channels) /\ ~AtEof(c) /\ owed[c] < MaxData
  /\ Arrives(Data(c)) /\ owed' = [owed EXCEPT ![c] = @ + 1]
  /\ UNCHANGED <<pc, client, link, unread, eof, select>>

ServerCloses(c) ==
  /\ c \in ToSet(channels) /\ ~AtEof(c) /\ Arrives(Eof(c))
  /\ UNCHANGED <<pc, client, link, unread, eof, owed, select>>

KeepAlive ==
  /\ Arrives(Noise)
  /\ UNCHANGED <<pc, client, link, unread, eof, owed, select>>

LinkBreaks ==
  /\ link = "up" /\ link' = "broken" /\ wire' = <<>>
  /\ UNCHANGED <<pc, client, unread, eof, owed, select>>

Environment ==
  /\ ~Ended
  /\ \/ \E c \in Clients : \/ Connect(c) \/ ClientSends(c) \/ ClientLeaves(c)
                           \/ ServerSends(c) \/ ServerCloses(c)
     \/ KeepAlive \/ LinkBreaks

-----------------------------------------------------------------------------
(* The handlers of EstablishSshConnectionRequest and of the                 *)
(* ListenSshConnectionRequest that follows it.                              *)

Setup == pc = "new" /\ UNCHANGED conn /\ (Enter \/ Finish("error"))

(* rbm_ssh_open_tunnel after a failure of rbm_open_tunnel.                  *)
Reconnect == pc = "reconnect" /\ conn' = Cleaned /\ (Enter \/ Finish("error"))

-----------------------------------------------------------------------------
(* rbm_open_tunnel.                                                         *)

(* Mutant: no second client is accepted.                                    *)
ReadableUnlessBusy ==
  (IF backlog # <<>> /\ channels = <<>> THEN {Local} ELSE {})
    \cup (IF wire # <<>> \/ link = "broken" THEN {Ssh} ELSE {})
    \cup {c \in Clients : conn[c] = "accepted" /\ (up[c] > 0 \/ peer[c] # "here")}

Readable ==
  (IF backlog # <<>> THEN {Local} ELSE {})
    \cup (IF wire # <<>> \/ link = "broken" THEN {Ssh} ELSE {})
    \cup {c \in Clients : conn[c] = "accepted" /\ (up[c] > 0 \/ peer[c] # "here")}

Select ==
  /\ pc = "select" /\ errors < MaxErrors /\ Local \in master
  /\ Readable \cap master # {}
  /\ ready' = Readable \cap master /\ pc' = "pass"
  /\ UNCHANGED <<client, ssh, owed, channels, master, errors, loop>>

TooManyErrors ==
  /\ pc = "select" /\ errors >= MaxErrors /\ pc' = "reconnect"
  /\ UNCHANGED <<client, ssh, owed, select>>

(* The accept socket left the master set, or select() failed: both end the  *)
(* tunnel as a success.                                                     *)
StopsNormally ==
  /\ pc = "select" /\ errors < MaxErrors
  /\ conn' = Cleaned /\ Finish("normal")

(* What the loop does with the result of a handler.                         *)
Handled(rc, rest) ==
  /\ errors' = IF rc = "again" THEN errors + 1 ELSE 0
  /\ ready' = rest
  /\ loop' = NoLoop
  /\ pc' = IF rc = "error" THEN "reconnect" ELSE IF rest = {} THEN "select" ELSE "pass"

HandleNewClient ==
  /\ pc = "pass" /\ Local \in ready
  /\ LET c == Head(backlog) IN
     \/ \* the channel opens
        /\ link = "up"
        /\ conn' = [conn EXCEPT ![c] = "accepted"] /\ backlog' = Tail(backlog)
        /\ master' = master \cup {c} /\ channels' = Append(channels, c)
        /\ Drain /\ Handled("ok", ready \ {Local})
        /\ UNCHANGED <<peer, up, link, owed>>
     \/ \* it does not: the tunnel fails, and nobody closes the new socket
        /\ conn' = [Cleaned EXCEPT ![c] = "accepted"] /\ Finish("error")
     \/ \* accept() fails
        /\ peer[c] = "reset"
        /\ backlog' = Tail(backlog) /\ Handled("error", ready \ {Local})
        /\ UNCHANGED <<conn, peer, up, ssh, owed, channels, master>>

(* handle_ssh_connections: no channel is the end of the session; otherwise  *)
(* every channel is read, one step each.                                    *)
HandleSsh ==
  /\ pc = "pass" /\ Ssh \in ready
  /\ IF channels = <<>>
     THEN /\ master' = master \ {Local, Ssh} /\ Handled("ok", ready \ {Ssh})
     ELSE /\ pc' = "channels" /\ loop' = [NoLoop EXCEPT !.s = 1]
          /\ UNCHANGED <<ready, master, errors>>
  /\ UNCHANGED <<client, ssh, owed, channels>>

(* The result after a channel: the remote end closed it, nothing came on    *)
(* any channel (EAGAIN at the first read of each), or send() failed.        *)
Result(c, sent) ==
  IF AtEof(c) THEN "ok"
  ELSE IF Pending(c) = 0
       THEN IF loop.eagain + 1 = Len(channels) THEN "again" ELSE loop.result
       ELSE IF sent THEN loop.result ELSE "error"

ReadChannel ==
  /\ pc = "channels" /\ link = "up"
  /\ LET c == channels[loop.s]
         first == Pending(c) = 0 /\ ~AtEof(c)
     IN \E sent \in BOOLEAN :
        /\ sent \/ (Pending(c) > 0 /\ peer[c] # "here")
        /\ owed' = [owed EXCEPT ![c] = @ - Pending(c)]
        /\ unread' = [d \in Clients |-> IF d = c THEN 0 ELSE Pending(d)]
        /\ eof' = [d \in Clients |-> AtEof(d)] /\ wire' = <<>>
        /\ IF loop.s = Len(channels)
           THEN Handled(Result(c, sent), ready \ {Ssh})
           ELSE /\ loop' = [s |-> loop.s + 1, result |-> Result(c, sent),
                            eagain |-> loop.eagain + (IF first THEN 1 ELSE 0)]
                /\ UNCHANGED <<pc, ready, errors>>
  /\ UNCHANGED <<client, link, channels, master>>

ReadFails ==
  /\ pc = "channels" /\ link = "broken" /\ Handled("error", ready \ {Ssh})
  /\ UNCHANGED <<client, ssh, owed, channels, master>>

(* handle_client_connections: the client sent, left or was reset.           *)
ClientGone(c) ==
  /\ pc = "pass" /\ c \in ready /\ up[c] = 0
  /\ LET rest == Keep(channels, Clients \ {c})
     IN /\ channels' = rest
        /\ master' = master \ ({c} \cup (IF rest = <<>> THEN {Local, Ssh} ELSE {}))
  /\ conn' = [conn EXCEPT ![c] = "closed"]
  /\ unread' = [unread EXCEPT ![c] = 0] /\ eof' = [eof EXCEPT ![c] = FALSE]
  /\ wire' = Keep(wire, ToSet(wire) \ {Data(c), Eof(c)})
  /\ owed' = [owed EXCEPT ![c] = 0]
  /\ Handled(IF peer[c] = "reset" THEN "error" ELSE "ok", ready \ {c})
  /\ UNCHANGED <<backlog, peer, up, link>>

ForwardUp(c) ==
  /\ pc = "pass" /\ c \in ready /\ up[c] > 0
  /\ up' = [up EXCEPT ![c] = 0]
  /\ \/ /\ link = "up" /\ Drain /\ Handled("ok", ready \ {c})
     \/ \* the link is broken, or EAGAIN came back more than 100 times
        /\ Handled("error", ready \ {c}) /\ UNCHANGED <<wire, unread, eof>>
  /\ UNCHANGED <<backlog, conn, peer, link, owed, channels, master>>

Tunnel ==
  \/ Setup \/ Reconnect \/ Select \/ TooManyErrors \/ StopsNormally
  \/ HandleNewClient \/ HandleSsh \/ ReadChannel \/ ReadFails
  \/ \E c \in Clients : ClientGone(c) \/ ForwardUp(c)

Next == Environment \/ Tunnel

(* The thread of the worker runs; select() alone may wait.                  *)
Forward ==
  \/ Setup \/ Reconnect \/ Select \/ TooManyErrors
  \/ (Local \notin master /\ StopsNormally)
  \/ HandleNewClient \/ HandleSsh \/ ReadChannel \/ ReadFails
  \/ \E c \in Clients : ClientGone(c) \/ ForwardUp(c)

Spec == Init /\ [][Next]_vars /\ WF_vars(Forward)

-----------------------------------------------------------------------------
(* An accepted socket is the socket of exactly one channel and is watched,  *)
(* until the tunnel closes it. The one exception is the client whose        *)
(* channel could not be opened: the tunnel has failed, and its socket is    *)
(* neither served nor closed.                                               *)
AcceptedAreServed ==
  /\ pc \notin {"reconnect"} \cup {"normal", "error"} =>
       \A c \in Clients : conn[c] = "accepted" <=> c \in ToSet(channels) /\ c \in master
  /\ Ended => Cardinality({c \in Clients : conn[c] = "accepted"}) <= 1
  /\ pc = "normal" => \A c \in Clients : conn[c] # "accepted"

(* While its connection lives, nothing of what the remote server sent to a  *)
(* client and nothing of what the client sent is dropped, though the loop   *)
(* interleaves the channels and libssh2 reads for all of them at once.      *)
NothingLost ==
  \A c \in ToSet(channels) :
    peer[c] = "here" /\ link = "up" /\ pc # "reconnect" => owed[c] = Pending(c)

(* A client that connects is accepted, or the tunnel ends.                  *)
EveryClientIsAccepted == \A c \in Clients : c \in ToSet(backlog) ~> c \notin ToSet(backlog)

(* What a served client sent is written to its channel, or its connection   *)
(* is cut.                                                                  *)
ClientDataGoesUp ==
  \A c \in Clients : (conn[c] = "accepted" /\ up[c] > 0) ~> (up[c] = 0 \/ Ended \/ conn[c] = "closed")

(* What the remote server sent reaches the client or its connection is cut, *)
(* PROVIDED select() announces the SSH socket again: a packet libssh2 took  *)
(* off the wire for another channel waits in its queue until it does.       *)
DataArrives ==
  ([]<>(Ssh \in ready \/ Ended)) => \A c \in Clients : Pending(c) > 0 ~> Pending(c) = 0

(* Whatever the select loop does with the other clients, an accepted client *)
(* is served and no data of it is dropped.                                  *)
TunnelKeepsData == TypeOK /\ AcceptedAreServed /\ NothingLost

(* Clients, and what they and the remote server send, get through.          *)
TunnelServes == EveryClientIsAccepted /\ ClientDataGoesUp /\ DataArrives
=============================================================================
