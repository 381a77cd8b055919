------------------------------ MODULE EventBus ------------------------------
(***************************************************************************)
(* The event bus every component talks through (core/EventBus.cpp,         *)
(* core/EventBusDispatcher.cpp).  publish() hands an event to the          *)
(* subscribers of its type, send() to one receiver; a receiver of the      *)
(* calling thread is called synchronously, one of another thread gets the  *)
(* event posted to the dispatcher registered for that thread.              *)
(*                                                                         *)
(* Receivers and threads are heap ADDRESSES: an address is used again by a *)
(* later object, and `inc' counts the objects that have lived there.  A    *)
(* worker and its QThread are created and deleted together                 *)
(* (MongoWorker::MongoWorker), so one address of Slots stands for both.    *)
(***************************************************************************)
EXTENDS Naturals, Sequences, SequencesExt, Keeping

CONSTANTS Main,      \* the UI thread
          Objs,      \* addresses of the receivers that live in the UI thread
          Slots,     \* addresses of the worker threads, one worker in each
          Types,     \* event types
          AnySender, \* a subscription without a sender filter
          MaxInc,    \* objects that may live, one after the other, at an address of Objs
          MaxThreads,\* threads that may live, one after the other, at an address of Slots
          MaxSubs,   \* bound on the number of subscriptions
          MaxPosted, \* bound on the events posted to one dispatcher
          MaxDepth   \* bound on the handlers nested in one thread

ASSUME BusAssumption ==
  /\ Main \notin Objs \cup Slots
  /\ Objs \cap Slots = {}
  /\ AnySender \notin Objs
  /\ MaxInc \in Nat /\ MaxThreads \in Nat
  /\ MaxSubs \in Nat /\ MaxPosted \in Nat /\ MaxDepth \in Nat

VARIABLES alive,  \* addresses that hold an object now
          inc,    \* number of objects that have lived at an address
          subs,   \* _subscribersByEventType, in order of subscription
          disp,   \* _dispatchersByThread: the thread object (its inc) a dispatcher was moved to, 0 if none
          queue,  \* events posted to the dispatcher of a thread and not delivered
          stack,  \* the handlers a thread is in, innermost last
          stray   \* a handler was called on an object that is not the one addressed

vars == <<alive, inc, subs, disp, queue, stack, stray>>

Threads == {Main} \cup Slots
Addresses == Objs \cup Slots
Receiver == [obj : Addresses, inc : Nat]
Frame == [rem : Seq(Receiver) \ {<<>>}, locked : BOOLEAN]
Subscription == [obj : Objs, inc : Nat, type : Types, sender : Objs \cup {AnySender}]

\* QObject::thread() of the object at an address.
Home(o) == IF o \in Slots THEN o ELSE Main

Ref(o) == [obj |-> o, inc |-> inc[o]]
Current(r) == r.obj \in alive /\ inc[r.obj] = r.inc

\* _lock is held by a thread from send() until the handlers it runs return.
Holds(t) == \E i \in DOMAIN stack[t] : stack[t][i].locked
CanLock(t) == \A u \in Threads \ {t} : ~Holds(u)

\* The UI thread runs code at any time (user input, nested event loops); a
\* worker runs code only inside a handler.
Runs(t) == t = Main \/ (t \in alive /\ stack[t] # <<>>)

\* dispatcher->thread() is the thread object now at address t.
OwnDispatcher(d, t) == d = inc[t] /\ (t = Main \/ t \in alive)

\* Mutant: a new dispatcher is not moved to its thread.
DispatcherNotMoved(t) == disp[t]

\* EventBus::dispatcher(): entries are found by address and never removed.
DispatcherOf(t) == IF disp[t] = 0 THEN inc[t] ELSE disp[t]

Init ==
  /\ alive = {}
  /\ inc = [a \in Addresses \cup {Main} |-> IF a = Main THEN 1 ELSE 0]
  /\ subs = <<>>
  /\ disp = [t \in Threads |-> 0]
  /\ queue = [t \in Threads |-> <<>>]
  /\ stack = [t \in Threads |-> <<>>]
  /\ stray = FALSE

\* EventBusDispatcher::event() starts: the first receiver's handle() is called.
Enter(t, receivers, locked) ==
  /\ Len(stack[t]) < MaxDepth
  /\ stack' = [stack EXCEPT ![t] = Append(@, [rem |-> receivers, locked |-> locked])]
  /\ stray' = (stray \/ ~Current(Head(receivers)))

\* Mutant: the receivers are called synchronously in whatever thread they live.
SendEventAlwaysSync(t, to, d, receivers, locked) == Enter(t, receivers, locked) /\ UNCHANGED queue

\* EventBus::sendEvent(): same thread synchronously, else posted.
SendEvent(t, to, d, receivers, locked) ==
  \/ /\ t = to /\ OwnDispatcher(d, to)
     /\ Enter(t, receivers, locked)
     /\ UNCHANGED queue
  \/ /\ ~(t = to /\ OwnDispatcher(d, to))
     /\ Len(queue[to]) < MaxPosted
     /\ queue' = [queue EXCEPT ![to] = Append(@, receivers)]
     /\ UNCHANGED <<stack, stray>>

Matches(s, type, sender) == s.type = type /\ s.sender \in {AnySender, sender}

Snapshot(type, sender) ==
  LET hit == Keep(subs, {s \in ToSet(subs) : Matches(s, type, sender)})
  IN [i \in DOMAIN hit |-> [obj |-> hit[i].obj, inc |-> hit[i].inc]]

\* EventBus::publish(): receivers are collected under the lock, which is
\* released before the dispatch.  Every subscribe() and every publish() of src/
\* is made on the UI thread, so the dispatcher is the UI thread's, the dispatch
\* is synchronous, and the throw of line 77 is unreachable.
Publish(type, sender) ==
  /\ CanLock(Main)
  /\ Snapshot(type, sender) # <<>>
  /\ SendEvent(Main, Main, disp[Main], Snapshot(type, sender), FALSE)
  /\ UNCHANGED <<alive, inc, subs, disp>>

\* EventBus::send(): the lock is held through a synchronous dispatch.  The UI
\* thread sends to workers and to itself (sendLog), a worker replies to the UI.
Send(t, o) ==
  /\ Runs(t) /\ CanLock(t)
  /\ o \in alive
  /\ t = Main \/ o \in Objs
  /\ disp' = [disp EXCEPT ![Home(o)] = DispatcherOf(Home(o))]
  /\ SendEvent(t, Home(o), DispatcherOf(Home(o)), <<Ref(o)>>, TRUE)
  /\ UNCHANGED <<alive, inc, subs>>

\* EventBus::subscribe(), called on the UI thread.
Subscribe(o, type, sender) ==
  /\ CanLock(Main)
  /\ o \in alive /\ Len(subs) < MaxSubs
  /\ disp' = [disp EXCEPT ![Main] = DispatcherOf(Main)]
  /\ subs' = Append(subs, [obj |-> o, inc |-> inc[o], type |-> type, sender |-> sender])
  /\ UNCHANGED <<alive, inc, queue, stack, stray>>

\* The event loop of t (in the UI thread also a nested one) takes a posted
\* event; only the thread the dispatcher was moved to ever does.
Deliver(t) ==
  /\ queue[t] # <<>>
  /\ OwnDispatcher(disp[t], t)
  /\ t = Main \/ stack[t] = <<>>
  /\ Enter(t, Head(queue[t]), FALSE)
  /\ queue' = [queue EXCEPT ![t] = Tail(@)]
  /\ UNCHANGED <<alive, inc, subs, disp>>

\* A handler returns: the next receiver of the same event, else the end of the
\* dispatch (and of the lock, when this dispatch held it).
Return(t) ==
  /\ stack[t] # <<>>
  /\ LET top == Last(stack[t])
         rest == Tail(top.rem)
     IN IF rest = <<>>
        THEN /\ stack' = [stack EXCEPT ![t] = Front(@)]
             /\ UNCHANGED stray
        ELSE /\ stack' = [stack EXCEPT ![t] = Append(Front(@), [top EXCEPT !.rem = rest])]
             /\ stray' = (stray \/ ~Current(Head(rest)))
  /\ UNCHANGED <<alive, inc, subs, disp, queue>>

\* A receiver of the UI thread is constructed / destroyed; destroyed() calls
\* unsubscibe() synchronously, which leaves posted events and snapshots alone.
Create(o) ==
  /\ o \notin alive /\ inc[o] < MaxInc
  /\ alive' = alive \cup {o}
  /\ inc' = [inc EXCEPT ![o] = @ + 1]
  /\ UNCHANGED <<subs, disp, queue, stack, stray>>

\* Mutant: remove_if() without erase().
UnsubscibeNothing(o) == subs

Unsubscibe(o) == Keep(subs, {s \in ToSet(subs) : s.obj # o})

Destroy(o) ==
  /\ o \in alive /\ CanLock(Main)
  /\ alive' = alive \ {o}
  /\ subs' = Unsubscibe(o)
  /\ UNCHANGED <<inc, disp, queue, stack, stray>>

\* A worker is constructed with its own QThread; when the thread's loop has
\* ended both are deleted (finished -> deleteLater), the dispatcher is not.
StartThread(a) ==
  /\ a \notin alive /\ inc[a] < MaxThreads
  /\ alive' = alive \cup {a}
  /\ inc' = [inc EXCEPT ![a] = @ + 1]
  /\ UNCHANGED <<subs, disp, queue, stack, stray>>

FinishThread(a) ==
  /\ a \in alive /\ stack[a] = <<>>
  /\ alive' = alive \ {a}
  /\ UNCHANGED <<inc, subs, disp, queue, stack, stray>>

Next ==
  \/ \E t \in Threads :
       \/ \E o \in Addresses : Send(t, o)
       \/ Deliver(t)
       \/ Return(t)
  \/ \E o \in Objs :
       \/ Create(o)
       \/ Destroy(o)
       \/ \E ty \in Types : Publish(ty, o)
       \/ \E ty \in Types, s \in Objs \cup {AnySender} : Subscribe(o, ty, s)
  \/ \E a \in Slots : StartThread(a) \/ FinishThread(a)

\* Event loops run as long as their thread does, and handlers return.
Fairness == \A t \in Threads : WF_vars(Deliver(t)) /\ WF_vars(Return(t))

Spec == Init /\ [][Next]_vars /\ Fairness
-----------------------------------------------------------------------------
\* Every variable stays in its type; a frame always has a receiver left.
TypeOK ==
  /\ alive \subseteq Addresses
  /\ inc \in [Addresses \cup {Main} -> Nat]
  /\ subs \in Seq(Subscription)
  /\ disp \in [Threads -> Nat]
  /\ queue \in [Threads -> Seq(Seq(Receiver))]
  /\ stack \in [Threads -> Seq(Frame)]
  /\ stray \in BOOLEAN

\* EventBus.cpp:96-97 and 164: whatever address is used again for a new thread,
\* a handler never runs in another thread than its receiver's.
HandlersRunAtHome ==
  \A t \in Threads :
    /\ \A i \in DOMAIN stack[t] : \A j \in DOMAIN stack[t][i].rem :
         Home(stack[t][i].rem[j].obj) = t
    /\ \A i \in DOMAIN queue[t] : \A j \in DOMAIN queue[t][i] :
         Home(queue[t][i][j].obj) = t

\* EventBus.cpp:122-124: the list of subscribers holds living objects only, so an
\* event published after a receiver died never reaches its successor.
SubscribersAreAlive == \A i \in DOMAIN subs : Current([obj |-> subs[i].obj, inc |-> subs[i].inc])

\* EventBus.cpp:137-170: an event posted to a worker is delivered, unless the worker
\* ends.  (A worker whose thread is at the address of an ended one has no such luck:
\* the dispatcher found for it belongs to the ended thread.)
PostedIsDelivered ==
  \A a \in Slots : (queue[a] # <<>> /\ inc[a] = 1) ~> (queue[a] = <<>> \/ a \notin alive)

\* EventBus.h:38: "Sends 'event' to 'receiver'": a handler is called on the object
\* the event was sent or published to, never on a dead one or on the object that
\* has its address now.
\* (The program does not keep this: README.)
NoStrayDelivery == ~stray

\* Subscriptions stay typed, and none is of an object that is gone.
BusOK == TypeOK /\ SubscribersAreAlive
=============================================================================
