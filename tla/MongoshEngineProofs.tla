------------------------- MODULE MongoshEngineProofs -------------------------
(***************************************************************************)
(* Type correctness of MongoshEngine, and OwnFrame: the frame an execution *)
(* is answered with is its own, although parseExecOutput() compares no     *)
(* ids, however many executions that timed out have left lines and output  *)
(* in the pipe.  The argument is that the prepare line is a barrier: the   *)
(* process answers in order, and the answer to __robo_prepare(id) is the   *)
(* last thing that was in the pipe before phase 2 writes its own lines.    *)
(*                                                                         *)
(* Then ResultsAreOfARun, and that MongoshEngine implements ScriptCall.    *)
(* Both rest on the barrier: a run is written into an empty pipe, so that  *)
(* there is one at most, it is the first line, its id has not run, and the *)
(* first thing that is read in phase 2 is printed after the script has     *)
(* run.  So does RunsInRequestedDb: the switch may be answered late, but   *)
(* it was evaluated before the prepare line was.                           *)
(***************************************************************************)
EXTENDS MongoshEngine, SequenceTheorems, TLAPS

\* What phase 2 of the execution id writes, and what it prints.
OwnCommand(id) == {c \in Command : c.op \in {"run", "emit"} /\ c.id = id}
OwnToken(id) == {t \in Token : t.id = id}

\* What is not the prepare line of the execution id, nor an answer to it.
OldCommand(id) == {c \in Command : ~(c.op = "prep" /\ c.id = id)}
OldToken(id) == {t \in Token : ~(t.k \in {"prep", "badprep"} /\ t.id = id)}

\* All of s but its last element is in S.
AllButLast(s, S) == \A i \in 1..(Len(s) - 1) : s[i] \in S

\* Commands and tokens of the executions up to n.
IssuedCommand(n) == {c \in Command : c.id <= n}
IssuedToken(n) == {t \in Token : t.id <= n}

\* Ids are given out once.
IdsAreIssued ==
  /\ stdin \in Seq(IssuedCommand(lastId)) /\ stdout \in Seq(IssuedToken(lastId))
  /\ call.id <= lastId

\* A call of exec() has its script and database.
CallIsOfExec ==
  pc \in {"start", "switch", "use", "send", "prep", "run"} =>
    call.db \in Dbs /\ call.script \in Scripts

\* Phase 1: the prepare line, and then its answer, is the last thing in the pipe.
PrepareIsLast ==
  pc = "prep" =>
    \/ /\ stdin # <<>> /\ AllButLast(stdin, OldCommand(call.id))
       /\ stdout \in Seq(OldToken(call.id)) /\ acc \in Seq(OldToken(call.id))
    \/ /\ stdin = <<>> /\ AllButLast(stdout, OldToken(call.id))
       /\ acc \in Seq(OldToken(call.id))
    \/ stdin = <<>> /\ stdout = <<>>

\* Phase 2: nothing but what it wrote and what that prints is in the pipe.
PipeIsOwn ==
  pc = "run" => /\ stdin \in Seq(OwnCommand(call.id))
                /\ stdout \in Seq(OwnToken(call.id))
                /\ acc \in Seq(OwnToken(call.id))

IInv ==
  /\ TypeOK
  /\ IdsAreIssued
  /\ CallIsOfExec
  /\ PrepareIsLast
  /\ PipeIsOwn
  /\ OwnFrame
-----------------------------------------------------------------------------
\* Sequences, as the pipe uses them.

\* What is written is put at the end, what is printed too: s \o t.
LEMMA ConcatInSeq ==
  ASSUME NEW S, NEW s \in Seq(S), NEW t \in Seq(S)
  PROVE  s \o t \in Seq(S)
BY ConcatProperties

\* The process takes its next line from the front: Tail(s) holds no new element.
LEMMA TailInSeq ==
  ASSUME NEW S, NEW s \in Seq(S), s # <<>>
  PROVE  Head(s) \in S /\ Tail(s) \in Seq(S)
BY HeadTailProperties

\* A read splits the output in two; both parts hold elements of it.
LEMMA PartInSeq ==
  ASSUME NEW S, NEW s \in Seq(S), NEW n \in 1..Len(s)
  PROVE  SubSeq(s, 1, n) \in Seq(S) /\ SubSeq(s, n + 1, Len(s)) \in Seq(S)
<1>1. Len(s) \in Nat
  BY LenProperties
<1>2. \A i \in 1..Len(s) : s[i] \in S
  BY ElementOfSeq
<1>3. SubSeq(s, 1, n) \in Seq(S)
  <2>1. \A i \in 1..n : s[i] \in S
    BY <1>1, <1>2
  <2>2. n \in Int /\ 1 \in Int
    BY <1>1
  <2> QED
    BY <2>1, <2>2, SubSeqProperties
<1>4. SubSeq(s, n + 1, Len(s)) \in Seq(S)
  <2>1. \A i \in (n + 1)..Len(s) : s[i] \in S
    BY <1>1, <1>2
  <2>2. n + 1 \in Int /\ Len(s) \in Int
    BY <1>1
  <2> QED
    BY <2>1, <2>2, SubSeqProperties
<1> QED
  BY <1>3, <1>4

\* The front of a sequence that is all of T but for its last element.
LEMMA TailAllButLast ==
  ASSUME NEW S, NEW T, NEW s \in Seq(S), s # <<>>, AllButLast(s, T), Tail(s) # <<>>
  PROVE  Head(s) \in T /\ AllButLast(Tail(s), T)
<1>1. /\ Len(s) \in Nat \ {0} /\ Len(Tail(s)) = Len(s) - 1
      /\ \A i \in 1..Len(Tail(s)) : Tail(s)[i] = s[i + 1]
  BY EmptySeq, HeadTailProperties
<1>2. Len(Tail(s)) # 0
  BY TailInSeq, EmptySeq
<1>3. Head(s) = s[1]
  OBVIOUS
<1> QED
  BY <1>1, <1>2, <1>3 DEF AllButLast

\* The sequences of that shape are sequences.
LEMMA SeqAllButLast ==
  ASSUME NEW T, NEW s \in Seq(T)
  PROVE  AllButLast(s, T)
<1>1. Len(s) \in Nat /\ \A i \in 1..Len(s) : s[i] \in T
  BY LenProperties, ElementOfSeq
<1> QED
  BY <1>1 DEF AllButLast

\* A line, or what one line prints, is put after elements of T.
LEMMA ConcatAllButLast ==
  ASSUME NEW S, NEW T, T \subseteq S, NEW s \in Seq(T), NEW t \in Seq(S), Len(t) <= 1
  PROVE  AllButLast(s \o t, T)
<1>1. s \in Seq(S)
  BY SeqMonotonic
<1>2. /\ Len(s) \in Nat /\ Len(t) \in Nat
      /\ \A i \in 1..Len(s) : s[i] \in T
  BY LenProperties, ElementOfSeq
<1>3. /\ Len(s \o t) = Len(s) + Len(t)
      /\ \A i \in 1..(Len(s) + Len(t)) : i <= Len(s) => (s \o t)[i] = s[i]
  BY <1>1, ConcatProperties
<1> QED
  BY <1>2, <1>3 DEF AllButLast

\* A read takes a part of it, or all.
LEMMA SplitAllButLast ==
  ASSUME NEW S, NEW T, NEW s \in Seq(S), AllButLast(s, T), NEW n \in 1..Len(s)
  PROVE  \/ SubSeq(s, n + 1, Len(s)) = <<>>
         \/ /\ SubSeq(s, 1, n) \in Seq(T)
            /\ AllButLast(SubSeq(s, n + 1, Len(s)), T)
<1>1. Len(s) \in Nat /\ \A i \in 1..Len(s) : s[i] \in S
  BY LenProperties, ElementOfSeq
<1>2. CASE n = Len(s)
  BY <1>1, <1>2, SubSeqEmpty
<1>3. CASE n < Len(s)
  <2>1. SubSeq(s, 1, n) \in Seq(T)
    <3>1. \A i \in 1..n : s[i] \in T
      BY <1>1, <1>3 DEF AllButLast
    <3>2. n \in Int /\ 1 \in Int
      BY <1>1
    <3> QED
      BY <3>1, <3>2, SubSeqProperties
  <2>2. /\ Len(SubSeq(s, n + 1, Len(s))) = Len(s) - n
        /\ \A i \in 1..(Len(s) - n) : SubSeq(s, n + 1, Len(s))[i] = s[n + i]
    <3>1. \A i \in (n + 1)..Len(s) : s[i] \in S
      BY <1>1
    <3>2. n + 1 \in Int /\ Len(s) \in Int
      BY <1>1
    <3>3. /\ Len(SubSeq(s, n + 1, Len(s))) = IF n + 1 <= Len(s) THEN Len(s) - (n + 1) + 1 ELSE 0
          /\ \A i \in 1..(Len(s) - (n + 1) + 1) : SubSeq(s, n + 1, Len(s))[i] = s[(n + 1) + i - 1]
      BY <3>1, <3>2, SubSeqProperties
    <3> QED
      BY <3>3, <1>1, <1>3
  <2>3. AllButLast(SubSeq(s, n + 1, Len(s)), T)
    BY <2>2, <1>1 DEF AllButLast
  <2> QED
    BY <2>1, <2>3
<1> QED
  BY <1>1, <1>2, <1>3
-----------------------------------------------------------------------------
\* What a line prints.

\* A line prints nothing, one sentinel or a frame of two; they carry its id (or 0),
\* and only the prepare line prints an answer to it.
LEMMA OutputShape ==
  ASSUME NEW c \in Command
  PROVE  \/ Output(c) = <<>>
         \/ \E t \in Token :
              /\ Output(c) = <<t>>
              /\ t.id = c.id \/ (t.id = 0 /\ c.op \in {"use", "ping"})
              /\ t.k \in {"prep", "badprep"} => c.op = "prep" /\ t.id = c.id
         \/ \E t, u \in Token :
              /\ Output(c) = <<t, u>> /\ t.id = c.id /\ u.id = c.id
              /\ t.k \notin {"prep", "badprep"} /\ u.k \notin {"prep", "badprep"}
              /\ c.op \in {"emit", "warm"}
<1>1. c.id \in Nat /\ c.op \in Ops
  BY DEF Command
<1>2. CASE ~loaded
  BY <1>2 DEF Output
<1>3. CASE loaded /\ c.op = "use"
  <2>1. Output(c) = <<Tok("useok", 0)>>
    BY <1>3 DEF Output
  <2> QED
    BY <2>1, <1>3 DEF Tok, Token, Kinds
<1>4. CASE loaded /\ c.op = "ping"
  <2>1. Output(c) = <<Tok("pong", 0)>>
    BY <1>4 DEF Output
  <2> QED
    BY <2>1, <1>4 DEF Tok, Token, Kinds
<1>5. CASE loaded /\ c.op = "complete"
  <2>1. Output(c) = <<Tok("list", c.id)>>
    BY <1>5 DEF Output
  <2> QED
    BY <2>1, <1>1 DEF Tok, Token, Kinds
<1>6. CASE loaded /\ c.op = "prep"
  <2>1. Output(c) = <<Tok(IF c.script \in Malformed THEN "badprep" ELSE "prep", c.id)>>
    BY <1>6 DEF Output
  <2> QED
    BY <2>1, <1>1, <1>6 DEF Tok, Token, Kinds
<1>7. CASE loaded /\ c.op \in {"emit", "warm"}
  <2>1. Output(c) = <<Tok("start", c.id), Tok("end", c.id)>>
    BY <1>7 DEF Output
  <2> QED
    BY <2>1, <1>1, <1>7 DEF Tok, Token, Kinds
<1>8. CASE loaded /\ c.op \in {"load", "run"}
  BY <1>8 DEF Output
<1> QED
  BY <1>1, <1>2, <1>3, <1>4, <1>5, <1>6, <1>7, <1>8 DEF Ops

\* Whatever a line makes the preamble print is a sequence of tokens.
LEMMA OutputInSeq ==
  ASSUME NEW c \in Command
  PROVE  /\ Output(c) \in Seq(Token)
         /\ c.op = "prep" => Len(Output(c)) <= 1
         /\ \A n \in Nat : c.id <= n => Output(c) \in Seq(IssuedToken(n))
         /\ \A id \in Nat : c \in OldCommand(id) => Output(c) \in Seq(OldToken(id))
         /\ \A id \in Nat : c \in OwnCommand(id) => Output(c) \in Seq(OwnToken(id))
<1>1. CASE Output(c) = <<>>
  BY <1>1, EmptySeq
<1>2. ASSUME NEW t \in Token, Output(c) = <<t>>,
             t.id = c.id \/ (t.id = 0 /\ c.op \in {"use", "ping"}),
             t.k \in {"prep", "badprep"} => c.op = "prep" /\ t.id = c.id
      PROVE  /\ Output(c) \in Seq(Token)
             /\ Len(Output(c)) <= 1
             /\ \A n \in Nat : c.id <= n => Output(c) \in Seq(IssuedToken(n))
             /\ \A id \in Nat : c \in OldCommand(id) => Output(c) \in Seq(OldToken(id))
             /\ \A id \in Nat : c \in OwnCommand(id) => Output(c) \in Seq(OwnToken(id))
  <2>1. /\ \A n \in Nat : c.id <= n => t \in IssuedToken(n)
        /\ \A id \in Nat : c \in OldCommand(id) => t \in OldToken(id)
        /\ \A id \in Nat : c \in OwnCommand(id) => t \in OwnToken(id)
    BY <1>2 DEF IssuedToken, OldToken, OldCommand, OwnToken, OwnCommand
  <2>2. \A T : t \in T => <<t>> \in Seq(T)
    OBVIOUS
  <2> QED
    BY <1>2, <2>1, <2>2
<1>3. ASSUME NEW t \in Token, NEW u \in Token, Output(c) = <<t, u>>,
             t.id = c.id, u.id = c.id, c.op \in {"emit", "warm"},
             t.k \notin {"prep", "badprep"}, u.k \notin {"prep", "badprep"}
      PROVE  /\ Output(c) \in Seq(Token)
             /\ \A n \in Nat : c.id <= n => Output(c) \in Seq(IssuedToken(n))
             /\ \A id \in Nat : c \in OldCommand(id) => Output(c) \in Seq(OldToken(id))
             /\ \A id \in Nat : c \in OwnCommand(id) => Output(c) \in Seq(OwnToken(id))
  <2>1. /\ \A n \in Nat : c.id <= n => t \in IssuedToken(n) /\ u \in IssuedToken(n)
        /\ \A id \in Nat : t \in OldToken(id) /\ u \in OldToken(id)
        /\ \A id \in Nat : c \in OwnCommand(id) => t \in OwnToken(id) /\ u \in OwnToken(id)
    BY <1>3 DEF IssuedToken, OldToken, OwnToken, OwnCommand
  <2>2. \A T : t \in T /\ u \in T => <<t, u>> \in Seq(T)
    OBVIOUS
  <2> QED
    BY <1>3, <2>1, <2>2
<1> QED
  BY <1>1, <1>2, <1>3, OutputShape
-----------------------------------------------------------------------------
\* Type correctness.

\* The engine starts in the invariant: nothing is written, issued or read.
LEMMA InitInv == Init => IInv
<1> SUFFICES ASSUME Init PROVE IInv
  OBVIOUS
<1>1. TypeOK
  <2>1. /\ stdin \in Seq(Command) /\ stdout \in Seq(Token) /\ acc \in Seq(Token)
        /\ ran \in Seq([id : Nat, want : AnyDb, in : AnyDb, strayed : BOOLEAN])
    BY DEF Init
  <2>2. call \in [script : Scripts \cup {NoDb}, db : AnyDb, id : Nat]
    BY DEF Init, NoCall, AnyDb
  <2>3. answer \in [kind : {"none", "results", "truncated", "timeout", "error", "pong", "list",
                            "nolist"}, id : Nat, frame : Nat]
    BY DEF Init, NoAnswer
  <2>4. currentDb \in Dbs /\ shellDb \in AnyDb
    BY EngineAssumption DEF Init, AnyDb
  <2> QED
    BY <2>1, <2>2, <2>3, <2>4 DEF Init, TypeOK
<1>2. IdsAreIssued
  BY DEF Init, IdsAreIssued, NoCall
<1>3. CallIsOfExec /\ PrepareIsLast /\ PipeIsOwn /\ OwnFrame
  BY DEF Init, CallIsOfExec, PrepareIsLast, PipeIsOwn, OwnFrame, NoAnswer
<1> QED
  BY <1>1, <1>2, <1>3 DEF IInv

\* The commands the engine writes, and the answers it gives.
LEMMA WrittenInSeq ==
  ASSUME TypeOK, NEW cmds \in Seq(Command), Write(cmds)
  PROVE  stdin' \in Seq(Command)
BY ConcatInSeq DEF TypeOK, Write

\* What a process that was just started still has to do.
LEMMA RestInSeq ==
  ASSUME NEW S, NEW t \in Seq(S), NEW state, NEW ready,
         \E rest \in {<<>>, t} : Spawned(state, ready, rest)
  PROVE  stdin' \in Seq(S)
<1>1. PICK rest \in {<<>>, t} : stdin' = rest
  BY DEF Spawned
<1>2. <<>> \in Seq(S)
  BY EmptySeq
<1> QED
  BY <1>1, <1>2

\* An action that ends a call.
LEMMA AnswerType ==
  ASSUME TypeOK, NEW kind \in {"results", "truncated", "timeout", "error", "pong", "list", "nolist"},
         NEW frame \in Nat, Answer(kind, frame)
  PROVE  /\ pc' = "idle" /\ call' = NoCall /\ acc' = <<>> /\ acc' \in Seq(Token)
         /\ call' \in [script : Scripts \cup {NoDb}, db : AnyDb, id : Nat]
         /\ answer'.kind = kind /\ answer'.frame = frame
         /\ answer' \in [kind : {"none", "results", "truncated", "timeout", "error", "pong",
                                 "list", "nolist"}, id : Nat, frame : Nat]
<1>1. call.id \in Nat
  BY DEF TypeOK
<1>2. acc' = <<>> /\ acc' \in Seq(Token)
  BY DEF Answer
<1>3. call' \in [script : Scripts \cup {NoDb}, db : AnyDb, id : Nat]
  BY DEF Answer, NoCall, AnyDb
<1>4. answer' = [kind |-> kind, id |-> call.id, frame |-> frame]
  BY DEF Answer
<1> QED
  BY <1>1, <1>2, <1>3, <1>4 DEF Answer

\* The frames a read holds.
LEMMA FrameInNat ==
  ASSUME TypeOK, NEW i \in DOMAIN acc
  PROVE  acc[i].id \in Nat
<1>1. acc[i] \in Token
  BY LenProperties, ElementOfSeq DEF TypeOK
<1> QED
  BY <1>1 DEF Token

\* The shell takes a line and prints, or dies, within the types.
LEMMA ShellType == TypeOK /\ ShellStep => TypeOK'
<1> SUFFICES ASSUME TypeOK, ShellStep PROVE TypeOK'
  OBVIOUS
<1> DEFINE c == Head(stdin)
<1>1. c \in Command /\ stdin' \in Seq(Command)
  BY TailInSeq DEF TypeOK, ShellStep
<1>2. stdout' \in Seq(Token)
  BY <1>1, ConcatInSeq, OutputInSeq DEF TypeOK, ShellStep
<1>3. loaded' \in BOOLEAN
  BY DEF TypeOK, ShellStep
<1>4. c.op = "run" => [id |-> c.id, want |-> c.db, in |-> shellDb, strayed |-> strayed] \in [id : Nat, want : AnyDb, in : AnyDb, strayed : BOOLEAN]
  BY <1>1 DEF TypeOK, Command, AnyDb
<1>5. ran' \in Seq([id : Nat, want : AnyDb, in : AnyDb, strayed : BOOLEAN])
  <2>1. ran' = IF c.op = "run"
               THEN Append(ran, [id |-> c.id, want |-> c.db, in |-> shellDb, strayed |-> strayed]) ELSE ran
    BY DEF ShellStep
  <2> QED
    BY <1>4, <2>1, AppendProperties DEF TypeOK
<1>6. shellDb' \in AnyDb
  <2>1. c.db \in AnyDb /\ shellDb \in AnyDb
    BY <1>1 DEF TypeOK, Command, AnyDb
  <2>2. CASE c.op = "run" /\ SwitchesTo[c.script] # NoDb
    <3>1. c.script \in Scripts
      BY <1>1, <2>2 DEF Command
    <3>2. SwitchesTo[c.script] \in AnyDb
      BY <3>1, EngineAssumption DEF AnyDb
    <3> QED
      BY <2>2, <3>2 DEF ShellStep
  <2> QED
    BY <2>1, <2>2 DEF ShellStep
<1> QED
  BY <1>1, <1>2, <1>3, <1>5, <1>6 DEF ShellStep, TypeOK, engineVars

\* Every step keeps the types, and a call keeps its script and database.
LEMMA TypeStep ==
  ASSUME TypeOK, CallIsOfExec, [Next]_vars
  PROVE  TypeOK' /\ CallIsOfExec'
<1> USE DEF AnyDb
<1> DEFINE AnswerSet == [kind : {"none", "results", "truncated", "timeout", "error", "pong",
                                 "list", "nolist"}, id : Nat, frame : Nat]
           CallSet == [script : Scripts \cup {NoDb}, db : AnyDb, id : Nat]
<1>a. NoAnswer \in AnswerSet
  BY DEF NoAnswer
<1>b. \A op \in Ops \ {"run"}, id \in Nat : <<Cmd(op, id)>> \in Seq(Command)
  BY DEF Cmd, Command
<1>1. CASE StartOk
  <2>1. stdin' \in Seq(Command) /\ stdout' \in Seq(Token)
    <3>1. <<Cmd("warm", 0)>> \in Seq(Command)
      BY <1>b DEF Ops
    <3>2. stdin' \in Seq(Command)
      BY <1>1, <3>1, RestInSeq DEF StartOk
    <3> QED
      BY <1>1, <3>2 DEF StartOk, Spawned
  <2>2. shellDb' \in AnyDb
    BY <1>1 DEF StartOk, Spawned, TypeOK
  <2> QED
    BY <1>1, <2>1, <2>2 DEF StartOk, Spawned, TypeOK, CallIsOfExec
<1>2. CASE StartFails
  <2>1. stdin' \in Seq(Command) /\ stdout' \in Seq(Token)
    <3>1. <<Cmd("load", 0)>> \in Seq(Command)
      BY <1>b DEF Ops
    <3>2. CASE Spawned("none", FALSE, <<>>)
      BY <3>2 DEF Spawned
    <3>3. CASE \E rest \in {<<>>, <<Cmd("load", 0)>>} : Spawned("running", FALSE, rest)
      <4>1. stdin' \in Seq(Command)
        BY <3>1, <3>3, RestInSeq
      <4> QED
        BY <3>3, <4>1 DEF Spawned
    <3> QED
      BY <1>2, <3>2, <3>3 DEF StartFails
  <2>2. shellDb' \in AnyDb
    BY <1>2 DEF StartFails, Spawned, TypeOK
  <2>3. pc' = "idle" /\ acc' \in Seq(Token) /\ call' \in CallSet /\ answer' \in AnswerSet
    BY <1>2, AnswerType DEF StartFails
  <2> QED
    BY <1>2, <2>1, <2>2, <2>3 DEF StartFails, Spawned, TypeOK, CallIsOfExec
<1>3. CASE Switch
  <2>1. call.db \in Dbs
    BY <1>3 DEF Switch, CallIsOfExec
  <2>2. <<[Cmd("use", 0) EXCEPT !.db = call.db]>> \in Seq(Command)
    BY <2>1 DEF Cmd, Command, Ops
  <2>3. stdin' \in Seq(Command)
    BY <1>3, <2>2, WrittenInSeq DEF Switch, TypeOK
  <2>4. acc' \in Seq(Token)
    BY <1>3 DEF Switch
  <2> QED
    BY <1>3, <2>1, <2>3, <2>4 DEF Switch, TypeOK, CallIsOfExec
<1>4. CASE SendPrepare
  <2>1. call.script \in Scripts /\ call.db \in Dbs /\ lastId + 1 \in Nat
    BY <1>4 DEF SendPrepare, CallIsOfExec, TypeOK
  <2>2. <<[Cmd("prep", lastId + 1) EXCEPT !.script = call.script]>> \in Seq(Command)
    BY <2>1 DEF Cmd, Command, Ops
  <2>3. stdin' \in Seq(Command)
    BY <1>4, <2>2, WrittenInSeq DEF SendPrepare
  <2>4. CASE proc = "running"
    <3>a. call' = [call EXCEPT !.id = lastId + 1] /\ acc' = <<>>
      BY <1>4, <2>4 DEF SendPrepare
    <3>b. call \in CallSet
      BY DEF TypeOK
    <3>1. /\ call' \in CallSet /\ call'.script = call.script /\ call'.db = call.db
          /\ acc' \in Seq(Token)
      BY <3>a, <3>b, <2>1
    <3> QED
      BY <1>4, <2>1, <2>3, <2>4, <3>1 DEF SendPrepare, TypeOK, CallIsOfExec
  <2>5. CASE proc # "running"
    <3>1. pc' = "idle" /\ acc' \in Seq(Token) /\ call' \in CallSet /\ answer' \in AnswerSet
      BY <1>4, <2>5, AnswerType DEF SendPrepare
    <3> QED
      BY <1>4, <2>1, <2>3, <3>1 DEF SendPrepare, TypeOK, CallIsOfExec
  <2> QED
    BY <2>4, <2>5
<1>5. CASE ReadSome
  <2>1. PICK n \in 1..Len(stdout) :
          /\ acc' = acc \o SubSeq(stdout, 1, n)
          /\ stdout' = SubSeq(stdout, n + 1, Len(stdout))
    BY <1>5 DEF ReadSome
  <2>2. acc' \in Seq(Token) /\ stdout' \in Seq(Token)
    BY <2>1, PartInSeq, ConcatInSeq DEF TypeOK
  <2> QED
    BY <1>5, <2>2 DEF ReadSome, TypeOK, CallIsOfExec
<1>6. CASE UseEnds
  <2>1. acc' \in Seq(Token)
    BY <1>6 DEF UseEnds
  <2> QED
    BY <1>6, <2>1 DEF UseEnds, TypeOK, CallIsOfExec, shellVars
<1>7. CASE PingEnds
  <2>1. pc' = "idle" /\ acc' \in Seq(Token) /\ call' \in CallSet /\ answer' \in AnswerSet
    BY <1>7, AnswerType DEF PingEnds
  <2> QED
    BY <1>7, <2>1 DEF PingEnds, TypeOK, CallIsOfExec, shellVars
<1>8. CASE CompleteEnds
  <2>1. \E k \in {"list", "nolist"}, f \in Nat : Answer(k, f)
    BY <1>8, FrameInNat DEF CompleteEnds, FirstOf
  <2>2. pc' = "idle" /\ acc' \in Seq(Token) /\ call' \in CallSet /\ answer' \in AnswerSet
    BY <2>1, AnswerType
  <2> QED
    BY <1>8, <2>2 DEF CompleteEnds, TypeOK, CallIsOfExec, shellVars
<1>9. CASE Prepared
  <2>1. call.script \in Scripts /\ call.db \in Dbs /\ call.id \in Nat
    BY <1>9 DEF Prepared, CallIsOfExec, TypeOK
  <2>2. <<[Cmd("run", call.id) EXCEPT !.script = call.script, !.db = call.db],
          Cmd("emit", call.id)>> \in Seq(Command)
    <3>1. [Cmd("run", call.id) EXCEPT !.script = call.script, !.db = call.db] \in Command
      BY <2>1 DEF Cmd, Command, Ops
    <3>2. Cmd("emit", call.id) \in Command
      BY <2>1 DEF Cmd, Command, Ops
    <3> QED
      BY <3>1, <3>2
  <2>3. stdin' \in Seq(Command)
    BY <1>9, <2>2, WrittenInSeq DEF Prepared
  <2>4. acc' \in Seq(Token)
    BY <1>9 DEF Prepared
  <2> QED
    BY <1>9, <2>1, <2>3, <2>4 DEF Prepared, TypeOK, CallIsOfExec
<1>10. CASE PrepareFails
  <2>1. pc' = "idle" /\ acc' \in Seq(Token) /\ call' \in CallSet /\ answer' \in AnswerSet
    BY <1>10, AnswerType DEF PrepareFails
  <2> QED
    BY <1>10, <2>1 DEF PrepareFails, TypeOK, CallIsOfExec, shellVars
<1>11. CASE RunAnswers
  <2>1. \E f \in Nat : Answer("results", f)
    BY <1>11, FrameInNat DEF RunAnswers, FirstOf
  <2>2. pc' = "idle" /\ acc' \in Seq(Token) /\ call' \in CallSet /\ answer' \in AnswerSet
    BY <2>1, AnswerType
  <2> QED
    BY <1>11, <2>2 DEF RunAnswers, TypeOK, CallIsOfExec, shellVars
<1>12. CASE RunTimesOut
  <2>1. pc' = "idle" /\ acc' \in Seq(Token) /\ call' \in CallSet /\ answer' \in AnswerSet
    BY <1>12, AnswerType DEF RunTimesOut
  <2>2. stdin' \in Seq(Command) /\ proc' \in {"none", "running", "exited"}
    <3>1. CASE stdin # <<>> /\ stdin' = Tail(stdin) /\ UNCHANGED proc
      BY <3>1, TailInSeq DEF TypeOK
    <3>2. CASE proc' = "exited" /\ stdin' = <<>>
      BY <3>2
    <3>3. CASE UNCHANGED <<proc, stdin>>
      BY <3>3 DEF TypeOK
    <3> QED
      BY <1>12, <3>1, <3>2, <3>3 DEF RunTimesOut, Interrupt
  <2> QED
    BY <1>12, <2>1, <2>2 DEF RunTimesOut, TypeOK, CallIsOfExec
<1>13. CASE RunFails
  <2>1. \E k \in {"truncated", "error"}, f \in Nat : Answer(k, f)
    BY <1>13, FrameInNat DEF RunFails, FirstOf
  <2>2. pc' = "idle" /\ acc' \in Seq(Token) /\ call' \in CallSet /\ answer' \in AnswerSet
    BY <2>1, AnswerType
  <2> QED
    BY <1>13, <2>2 DEF RunFails, TypeOK, CallIsOfExec, shellVars
<1>14. ASSUME NEW s \in Scripts, NEW d \in Dbs, Exec(s, d)
       PROVE  TypeOK' /\ CallIsOfExec'
  <2>1. call' \in CallSet /\ call'.script = s /\ call'.db = d
    BY <1>14 DEF Exec
  <2> QED
    BY <1>14, <1>a, <2>1 DEF Exec, TypeOK, CallIsOfExec, shellVars
<1>15. CASE Complete
  <2>1. lastId + 1 \in Nat
    BY DEF TypeOK
  <2>2. call' \in CallSet
    BY <1>15, <2>1 DEF Complete
  <2>3. stdin' \in Seq(Command)
    BY <1>15, <1>b, <2>1, WrittenInSeq DEF Complete, Ops
  <2> QED
    BY <1>15, <1>a, <2>1, <2>2, <2>3 DEF Complete, TypeOK, CallIsOfExec
<1>16. CASE Ping
  <2>1. stdin' \in Seq(Command)
    BY <1>16, <1>b, WrittenInSeq DEF Ping, Ops
  <2> QED
    BY <1>16, <1>a, <2>1 DEF Ping, TypeOK, CallIsOfExec
<1>17. CASE ReInit
  <2>1. /\ failed' = FALSE /\ currentDb' = DefaultDb
        /\ UNCHANGED <<shellVars, lastId, pc, call, acc, answer>>
    BY <1>17 DEF ReInit
  <2>2. UNCHANGED <<proc, loaded, stdin, stdout, shellDb, ran, strayed>>
    BY <2>1 DEF shellVars
  <2>3. currentDb' \in Dbs
    BY <2>1, EngineAssumption
  <2>4. /\ proc' \in {"none", "running", "exited"} /\ loaded' \in BOOLEAN
        /\ stdin' \in Seq(Command) /\ stdout' \in Seq(Token)
        /\ shellDb' \in AnyDb
        /\ ran' \in Seq([id : Nat, want : AnyDb, in : AnyDb, strayed : BOOLEAN]) /\ strayed' \in BOOLEAN
    BY <2>2, Zenon DEF TypeOK
  <2>5. TypeOK'
    BY <2>1, <2>3, <2>4, Zenon DEF TypeOK
  <2> QED
    BY <2>1, <2>5 DEF CallIsOfExec
<1>18. CASE Replace
  <2>1. stdin' \in Seq(Command) /\ stdout' \in Seq(Token)
    BY <1>18 DEF Replace
  <2> QED
    BY <1>18, <2>1, EngineAssumption DEF Replace, TypeOK, CallIsOfExec
<1>19. CASE ShellStep
  BY <1>19, ShellType DEF ShellStep, CallIsOfExec, engineVars
<1>20. CASE ShellExit
  <2>1. stdin' \in Seq(Command)
    BY <1>20 DEF ShellExit
  <2> QED
    BY <1>20, <2>1 DEF ShellExit, TypeOK, CallIsOfExec, engineVars
<1>21. CASE UNCHANGED vars
  BY <1>21 DEF vars, TypeOK, CallIsOfExec
<1> QED
  BY <1>1, <1>2, <1>3, <1>4, <1>5, <1>6, <1>7, <1>8, <1>9, <1>10, <1>11, <1>12, <1>13, <1>14,
     <1>15, <1>16, <1>17, <1>18, <1>19, <1>20, <1>21 DEF Next, EngineStep, Caller
-----------------------------------------------------------------------------
\* Ids.

\* The set of ids given out only grows.
LEMMA IssuedGrows ==
  ASSUME NEW n \in Nat, NEW m \in Nat, n <= m
  PROVE  /\ Seq(IssuedCommand(n)) \subseteq Seq(IssuedCommand(m))
         /\ Seq(IssuedToken(n)) \subseteq Seq(IssuedToken(m))
<1>1. IssuedCommand(n) \subseteq IssuedCommand(m)
  BY DEF IssuedCommand, Command
<1>2. IssuedToken(n) \subseteq IssuedToken(m)
  BY DEF IssuedToken, Token
<1> QED
  BY <1>1, <1>2, SeqMonotonic

\* No line or sentinel in the pipe has an id that was not given out.
LEMMA IdsStep ==
  ASSUME TypeOK, CallIsOfExec, IdsAreIssued, [Next]_vars
  PROVE  IdsAreIssued'
<1> DEFINE Lines == Seq(IssuedCommand(lastId))
           Tokens == Seq(IssuedToken(lastId))
<1>a. /\ stdin \in Lines /\ stdout \in Tokens /\ call.id <= lastId
      /\ lastId \in Nat /\ call.id \in Nat
  BY DEF IdsAreIssued, TypeOK
<1>b. <<>> \in Lines /\ <<>> \in Tokens
  BY EmptySeq
<1>c. ASSUME UNCHANGED lastId, stdin' \in Lines, stdout' \in Tokens, call' = call \/ call' = NoCall
      PROVE  IdsAreIssued'
  BY <1>a, <1>c DEF IdsAreIssued, NoCall
<1>d. \A op \in Ops \ {"run"}, n \in Nat : <<Cmd(op, n)>> \in Seq(IssuedCommand(n))
  <2>1. \A op \in Ops \ {"run"}, n \in Nat : Cmd(op, n) \in IssuedCommand(n)
    BY DEF Cmd, IssuedCommand, Command, AnyDb
  <2> QED
    BY <2>1
<1>e. \A op \in Ops \ {"run"} : <<Cmd(op, 0)>> \in Lines
  <2>1. Seq(IssuedCommand(0)) \subseteq Lines
    BY <1>a, IssuedGrows
  <2> QED
    BY <1>d, <2>1
<1>f. \A t \in Lines : Write(t) => stdin' \in Lines
  BY <1>a, ConcatInSeq DEF Write
<1>1. CASE StartOk
  <2>1. <<Cmd("warm", 0)>> \in Lines
    BY <1>e DEF Ops
  <2>2. stdin' \in Lines
    BY <1>1, <2>1, RestInSeq DEF StartOk
  <2> QED
    BY <1>1, <1>b, <1>c, <2>2 DEF StartOk, Spawned
<1>2. CASE StartFails
  <2>1. CASE Spawned("none", FALSE, <<>>)
    BY <1>2, <2>1, <1>b, <1>c DEF StartFails, Spawned, Answer
  <2>2. CASE \E rest \in {<<>>, <<Cmd("load", 0)>>} : Spawned("running", FALSE, rest)
    <3>1. <<Cmd("load", 0)>> \in Lines
      BY <1>e DEF Ops
    <3>2. stdin' \in Lines
      BY <2>2, <3>1, RestInSeq
    <3> QED
      BY <1>2, <2>2, <3>2, <1>b, <1>c DEF StartFails, Spawned, Answer
  <2> QED
    BY <1>2, <2>1, <2>2 DEF StartFails
<1>3. CASE Switch
  <2>1. <<[Cmd("use", 0) EXCEPT !.db = call.db]>> \in Lines
    <3>1. call.db \in Dbs
      BY <1>3 DEF Switch, CallIsOfExec
    <3> QED
      BY <3>1, <1>a DEF Cmd, IssuedCommand, Command, Ops, AnyDb
  <2>2. stdin' \in Lines
    BY <1>3, <1>a, <1>f, <2>1 DEF Switch
  <2> QED
    BY <1>3, <1>a, <1>c, <2>2 DEF Switch
<1>4. CASE SendPrepare
  <2>1. /\ stdin \in Seq(IssuedCommand(lastId + 1))
        /\ stdout \in Seq(IssuedToken(lastId + 1))
    BY <1>a, IssuedGrows
  <2>2. <<[Cmd("prep", lastId + 1) EXCEPT !.script = call.script]>>
          \in Seq(IssuedCommand(lastId + 1))
    <3>1. call.script \in Scripts
      BY <1>4 DEF SendPrepare, CallIsOfExec
    <3> QED
      BY <3>1, <1>a DEF Cmd, IssuedCommand, Command, Ops, AnyDb
  <2>3. stdin' \in Seq(IssuedCommand(lastId + 1))
    BY <1>4, <2>1, <2>2, ConcatInSeq DEF SendPrepare, Write
  <2>4. call'.id <= lastId + 1
    BY <1>4, <1>a DEF SendPrepare, Answer, NoCall, TypeOK
  <2> QED
    BY <1>4, <2>1, <2>3, <2>4 DEF SendPrepare, IdsAreIssued
<1>5. CASE ReadSome
  BY <1>5, <1>a, <1>c, PartInSeq DEF ReadSome
<1>6. CASE UseEnds \/ PingEnds \/ CompleteEnds \/ PrepareFails \/ RunAnswers \/ RunFails
  BY <1>6, <1>a, <1>c
     DEF UseEnds, PingEnds, CompleteEnds, PrepareFails, RunAnswers, RunFails, Answer, shellVars
<1>7. CASE Prepared
  <2>1. <<[Cmd("run", call.id) EXCEPT !.script = call.script, !.db = call.db],
          Cmd("emit", call.id)>> \in Lines
    <3>1. call.script \in Scripts /\ call.db \in Dbs
      BY <1>7 DEF Prepared, CallIsOfExec
    <3>2. [Cmd("run", call.id) EXCEPT !.script = call.script, !.db = call.db]
            \in IssuedCommand(lastId)
      BY <3>1, <1>a DEF Cmd, IssuedCommand, Command, Ops, AnyDb
    <3>3. Cmd("emit", call.id) \in IssuedCommand(lastId)
      BY <1>a DEF Cmd, IssuedCommand, Command, Ops, AnyDb
    <3> QED
      BY <3>2, <3>3
  <2>2. stdin' \in Lines
    BY <1>7, <1>f, <2>1 DEF Prepared
  <2> QED
    BY <1>7, <1>a, <1>c, <2>2 DEF Prepared
<1>8. CASE RunTimesOut
  <2>1. stdin' \in Lines
    <3>1. CASE stdin # <<>> /\ stdin' = Tail(stdin)
      BY <3>1, <1>a, TailInSeq
    <3>2. CASE stdin' = <<>>
      BY <3>2, <1>b
    <3>3. CASE UNCHANGED stdin
      BY <3>3, <1>a
    <3> QED
      BY <1>8, <3>1, <3>2, <3>3 DEF RunTimesOut, Interrupt
  <2> QED
    BY <1>8, <1>a, <1>c, <2>1 DEF RunTimesOut, Answer
<1>9. ASSUME NEW s \in Scripts, NEW d \in Dbs, Exec(s, d)
      PROVE  IdsAreIssued'
  BY <1>9, <1>a DEF Exec, shellVars, IdsAreIssued
<1>10. CASE Complete
  <2>1. /\ stdin \in Seq(IssuedCommand(lastId + 1))
        /\ stdout \in Seq(IssuedToken(lastId + 1))
    BY <1>a, IssuedGrows
  <2>2. <<Cmd("complete", lastId + 1)>> \in Seq(IssuedCommand(lastId + 1))
    BY <1>a, <1>d DEF Ops
  <2>3. stdin' \in Seq(IssuedCommand(lastId + 1))
    BY <1>10, <2>1, <2>2, ConcatInSeq DEF Complete, Write
  <2> QED
    BY <1>10, <1>a, <2>1, <2>3 DEF Complete, IdsAreIssued
<1>11. CASE Ping
  <2>1. stdin' \in Lines
    BY <1>11, <1>e, <1>f DEF Ping, Ops
  <2> QED
    BY <1>11, <1>a, <1>c, <2>1 DEF Ping
<1>12. CASE ReInit \/ Replace
  BY <1>12, <1>a, <1>b, <1>c DEF ReInit, Replace, shellVars
<1>13. CASE ShellStep
  <2>1. Head(stdin) \in IssuedCommand(lastId) /\ Tail(stdin) \in Lines
    BY <1>13, <1>a, TailInSeq DEF ShellStep
  <2>2. Output(Head(stdin)) \in Tokens
    BY <1>a, <2>1, OutputInSeq DEF IssuedCommand
  <2>3. stdout' \in Tokens
    BY <1>13, <1>a, <2>2, ConcatInSeq DEF ShellStep
  <2> QED
    BY <1>13, <1>c, <2>1, <2>3 DEF ShellStep, engineVars
<1>14. CASE ShellExit
  BY <1>14, <1>a, <1>b, <1>c DEF ShellExit, engineVars
<1>15. CASE UNCHANGED vars
  BY <1>15, <1>a, <1>c DEF vars
<1> QED
  BY <1>1, <1>2, <1>3, <1>4, <1>5, <1>6, <1>7, <1>8, <1>9, <1>10, <1>11, <1>12, <1>13, <1>14,
     <1>15 DEF Next, EngineStep, Caller
-----------------------------------------------------------------------------
\* Phase 1.

\* Everything issued so far is older than the next execution.
LEMMA IssuedIsOld ==
  ASSUME NEW n \in Nat
  PROVE  /\ Seq(IssuedCommand(n)) \subseteq Seq(OldCommand(n + 1))
         /\ Seq(IssuedToken(n)) \subseteq Seq(OldToken(n + 1))
<1>1. IssuedCommand(n) \subseteq OldCommand(n + 1)
  BY DEF IssuedCommand, OldCommand, Command
<1>2. IssuedToken(n) \subseteq OldToken(n + 1)
  BY DEF IssuedToken, OldToken, Token
<1> QED
  BY <1>1, <1>2, SeqMonotonic

\* A line of an older execution is a line.
LEMMA OldIsCommand ==
  ASSUME NEW id
  PROVE  OldCommand(id) \subseteq Command /\ OldToken(id) \subseteq Token
BY DEF OldCommand, OldToken

\* The process evaluates a line in phase 1: an older one, or the prepare line,
\* whose answer then is the last output.
LEMMA ShellKeepsBarrier ==
  ASSUME TypeOK, PrepareIsLast, pc = "prep", ShellStep
  PROVE  PrepareIsLast'
<1> DEFINE id == call.id
           c == Head(stdin)
<1>a. /\ stdin \in Seq(Command) /\ stdin # <<>> /\ stdout \in Seq(Token) /\ id \in Nat
      /\ stdin' = Tail(stdin) /\ stdout' = stdout \o Output(c)
      /\ pc' = "prep" /\ call' = call /\ acc' = acc
  BY DEF TypeOK, ShellStep, engineVars
<1>b. /\ AllButLast(stdin, OldCommand(id))
      /\ stdout \in Seq(OldToken(id)) /\ acc \in Seq(OldToken(id))
  BY <1>a DEF PrepareIsLast
<1>c. c \in Command /\ Tail(stdin) \in Seq(Command)
  BY <1>a, TailInSeq
<1>1. CASE Tail(stdin) # <<>>
  <2>1. c \in OldCommand(id) /\ AllButLast(stdin', OldCommand(id))
    BY <1>1, <1>a, <1>b, TailAllButLast
  <2>2. stdout' \in Seq(OldToken(id))
    BY <2>1, <1>a, <1>b, <1>c, OutputInSeq, ConcatInSeq
  <2> QED
    BY <1>1, <1>a, <1>b, <2>1, <2>2 DEF PrepareIsLast
<1>2. CASE Tail(stdin) = <<>> /\ c \in OldCommand(id)
  <2>1. stdout' \in Seq(OldToken(id))
    BY <1>2, <1>a, <1>b, <1>c, OutputInSeq, ConcatInSeq
  <2>2. AllButLast(stdout', OldToken(id))
    BY <2>1, SeqAllButLast
  <2> QED
    BY <1>2, <1>a, <1>b, <2>2 DEF PrepareIsLast
<1>3. CASE Tail(stdin) = <<>> /\ c \notin OldCommand(id)
  <2>1. c.op = "prep"
    BY <1>3, <1>c DEF OldCommand
  <2>2. Output(c) \in Seq(Token) /\ Len(Output(c)) <= 1
    BY <1>c, <2>1, OutputInSeq
  <2>3. AllButLast(stdout', OldToken(id))
    BY <1>a, <1>b, <2>2, ConcatAllButLast, OldIsCommand
  <2> QED
    BY <1>3, <1>a, <1>b, <2>3 DEF PrepareIsLast
<1> QED
  BY <1>1, <1>2, <1>3

\* A read in phase 1 takes older output, or all there is.
LEMMA ReadKeepsBarrier ==
  ASSUME TypeOK, PrepareIsLast, pc = "prep", ReadSome
  PROVE  PrepareIsLast'
<1> DEFINE id == call.id
<1>a. PICK n \in 1..Len(stdout) :
        /\ acc' = acc \o SubSeq(stdout, 1, n)
        /\ stdout' = SubSeq(stdout, n + 1, Len(stdout))
  BY DEF ReadSome
<1>b. /\ stdin \in Seq(Command) /\ stdout \in Seq(Token) /\ id \in Nat
      /\ stdin' = stdin /\ pc' = "prep" /\ call' = call
  BY DEF TypeOK, ReadSome
<1>1. CASE /\ stdin # <<>> /\ AllButLast(stdin, OldCommand(id))
           /\ stdout \in Seq(OldToken(id)) /\ acc \in Seq(OldToken(id))
  <2>1. acc' \in Seq(OldToken(id)) /\ stdout' \in Seq(OldToken(id))
    BY <1>1, <1>a, PartInSeq, ConcatInSeq
  <2> QED
    BY <1>1, <1>b, <2>1 DEF PrepareIsLast
<1>2. CASE /\ stdin = <<>> /\ AllButLast(stdout, OldToken(id))
           /\ acc \in Seq(OldToken(id))
  <2>1. CASE stdout' = <<>>
    BY <1>2, <1>b, <2>1 DEF PrepareIsLast
  <2>2. CASE stdout' # <<>>
    <3>1. SubSeq(stdout, 1, n) \in Seq(OldToken(id)) /\ AllButLast(stdout', OldToken(id))
      BY <1>2, <1>a, <1>b, <2>2, SplitAllButLast
    <3>2. acc' \in Seq(OldToken(id))
      BY <1>2, <1>a, <3>1, ConcatInSeq
    <3> QED
      BY <1>2, <1>b, <3>1, <3>2 DEF PrepareIsLast
  <2> QED
    BY <2>1, <2>2
<1>3. CASE stdin = <<>> /\ stdout = <<>>
  BY <1>a, <1>3, EmptySeq
<1> QED
  BY <1>1, <1>2, <1>3 DEF PrepareIsLast

\* Phase 1 ends with an answer to its own prepare line only when nothing is left
\* in the pipe.
LEMMA PreparedIsEmpty ==
  ASSUME TypeOK, PrepareIsLast, pc = "prep", Has(acc, "prep", call.id)
  PROVE  stdin = <<>> /\ stdout = <<>>
<1>1. PICK i \in DOMAIN acc : acc[i] = Tok("prep", call.id)
  BY DEF Has
<1>2. ASSUME acc \in Seq(OldToken(call.id)) PROVE FALSE
  <2>1. acc[i] \in OldToken(call.id)
    BY <1>1, <1>2, LenProperties, ElementOfSeq
  <2> QED
    BY <1>1, <2>1 DEF OldToken, Tok
<1> QED
  BY <1>2 DEF PrepareIsLast

\* Every step keeps the prepare line of the execution in progress the last one written,
\* and its answer the last one printed.
LEMMA PrepareStep ==
  ASSUME IInv, TypeOK', [Next]_vars
  PROVE  PrepareIsLast'
<1>a. TypeOK /\ CallIsOfExec /\ IdsAreIssued /\ PrepareIsLast
  BY DEF IInv
<1>1. CASE SendPrepare
  <2> DEFINE id == lastId + 1
             line == [Cmd("prep", id) EXCEPT !.script = call.script]
  <2>1. CASE proc # "running"
    BY <1>1, <2>1 DEF SendPrepare, Answer, PrepareIsLast
  <2>2. CASE proc = "running"
    <3>1. /\ stdin \in Seq(OldCommand(id)) /\ stdout \in Seq(OldToken(id))
      BY <1>a, IssuedIsOld DEF IdsAreIssued, TypeOK
    <3>2. /\ stdin' = stdin \o <<line>> /\ stdout' = stdout /\ acc' = <<>> /\ call'.id = id
      BY <1>1, <1>a, <2>2 DEF SendPrepare, Write, TypeOK
    <3>3. line \in Command
      BY <1>1, <1>a DEF SendPrepare, CallIsOfExec, TypeOK, Cmd, Command, Ops, AnyDb
    <3>4. <<line>> \in Seq(Command) /\ Len(<<line>>) = 1 /\ Len(<<line>>) <= 1
      BY <3>3
    <3>5. AllButLast(stdin', OldCommand(id))
      <4>1. OldCommand(id) \subseteq Command
        BY OldIsCommand
      <4>2. AllButLast(stdin \o <<line>>, OldCommand(id))
        BY <3>1, <3>4, <4>1, ConcatAllButLast
      <4> QED
        BY <3>2, <4>2
    <3>6. stdin' # <<>>
      BY <1>a, <3>2, <3>4, ConcatProperties, EmptySeq DEF TypeOK
    <3> QED
      BY <3>1, <3>2, <3>5, <3>6, EmptySeq DEF PrepareIsLast
  <2> QED
    BY <2>1, <2>2
<1>2. CASE pc = "prep" /\ ReadSome
  BY <1>2, <1>a, ReadKeepsBarrier
<1>3. CASE pc = "prep" /\ ShellStep
  BY <1>3, <1>a, ShellKeepsBarrier
<1>4. CASE pc = "prep" /\ ShellExit
  <2>1. stdin' = <<>> /\ UNCHANGED <<stdout, acc, pc, call>>
    BY <1>4 DEF ShellExit, engineVars
  <2>2. stdout \in Seq(OldToken(call.id)) => AllButLast(stdout, OldToken(call.id))
    BY SeqAllButLast
  <2> QED
    BY <1>4, <1>a, <2>1, <2>2 DEF PrepareIsLast
<1>5. CASE pc' # "prep"
  BY <1>5 DEF PrepareIsLast
<1>6. CASE UNCHANGED <<stdin, stdout, acc, pc, call>>
  BY <1>6, <1>a DEF PrepareIsLast
<1>7. pc # "prep" /\ pc' = "prep" => SendPrepare
  BY DEF Next, EngineStep, Caller, StartOk, StartFails, Switch, ReadSome, UseEnds,
         PingEnds, CompleteEnds, Prepared, PrepareFails, RunAnswers, RunTimesOut, RunFails, Exec,
         Complete, Ping, ReInit, Replace, ShellStep, ShellExit, Answer, vars, engineVars
<1>8. pc = "prep" /\ pc' = "prep" =>
        ReadSome \/ ShellStep \/ ShellExit \/ UNCHANGED <<stdin, stdout, acc, pc, call>>
  BY DEF Next, EngineStep, Caller, StartOk, StartFails, Switch, SendPrepare, UseEnds,
         PingEnds, CompleteEnds, Prepared, PrepareFails, RunAnswers, RunTimesOut, RunFails, Exec,
         Complete, Ping, ReInit, Replace, Answer, vars
<1> QED
  BY <1>1, <1>2, <1>3, <1>4, <1>5, <1>6, <1>7, <1>8
-----------------------------------------------------------------------------
\* Phase 2.

\* Every step keeps what is in the pipe, once the run has been written, the call's own.
LEMMA PipeStep ==
  ASSUME IInv, [Next]_vars
  PROVE  PipeIsOwn'
<1> DEFINE id == call.id
<1>a. TypeOK /\ CallIsOfExec /\ PrepareIsLast /\ PipeIsOwn
  BY DEF IInv
<1>1. CASE Prepared
  <2> DEFINE run == [Cmd("run", id) EXCEPT !.script = call.script, !.db = call.db]
             emit == Cmd("emit", id)
  <2>1. stdin = <<>> /\ stdout = <<>>
    BY <1>1, <1>a, PreparedIsEmpty DEF Prepared
  <2>2. run \in OwnCommand(id) /\ emit \in OwnCommand(id)
    BY <1>1, <1>a DEF Prepared, CallIsOfExec, TypeOK, Cmd, OwnCommand, Command, Ops, AnyDb
  <2>3. <<run, emit>> \in Seq(OwnCommand(id))
    BY <2>2
  <2>4. stdin' = <<>> \o <<run, emit>>
    BY <1>1, <2>1 DEF Prepared, Write
  <2>5. stdin' \in Seq(OwnCommand(id))
    BY <2>3, <2>4, ConcatInSeq, EmptySeq
  <2> QED
    BY <1>1, <2>1, <2>5, EmptySeq DEF Prepared, PipeIsOwn
<1>2. CASE pc = "run" /\ ReadSome
  <2>1. stdout' \in Seq(OwnToken(id)) /\ acc' \in Seq(OwnToken(id))
    BY <1>2, <1>a, PartInSeq, ConcatInSeq DEF ReadSome, PipeIsOwn
  <2> QED
    BY <1>2, <1>a, <2>1 DEF ReadSome, PipeIsOwn
<1>3. CASE pc = "run" /\ ShellStep
  <2>1. stdin \in Seq(OwnCommand(id)) /\ stdout \in Seq(OwnToken(id)) /\ stdin # <<>>
    BY <1>3, <1>a DEF PipeIsOwn, ShellStep
  <2>2. Head(stdin) \in OwnCommand(id) /\ Tail(stdin) \in Seq(OwnCommand(id))
    BY <2>1, TailInSeq
  <2>3. Output(Head(stdin)) \in Seq(OwnToken(id))
    BY <1>a, <2>2, OutputInSeq DEF OwnCommand, TypeOK
  <2>4. stdin' = Tail(stdin) /\ stdout' = stdout \o Output(Head(stdin))
    BY <1>3 DEF ShellStep
  <2>5. stdout' \in Seq(OwnToken(id))
    BY <2>1, <2>3, <2>4, ConcatInSeq
  <2> QED
    BY <1>3, <1>a, <2>2, <2>4, <2>5 DEF ShellStep, PipeIsOwn, engineVars
<1>4. CASE pc = "run" /\ ShellExit
  BY <1>4, <1>a, EmptySeq DEF ShellExit, PipeIsOwn, engineVars
<1>5. CASE pc' # "run"
  BY <1>5 DEF PipeIsOwn
<1>6. CASE UNCHANGED <<stdin, stdout, acc, pc, call>>
  BY <1>6, <1>a DEF PipeIsOwn
<1>7. pc # "run" /\ pc' = "run" => Prepared
  BY DEF Next, EngineStep, Caller, StartOk, StartFails, Switch, SendPrepare, ReadSome, UseEnds,
         PingEnds, CompleteEnds, PrepareFails, RunAnswers, RunTimesOut, RunFails, Exec,
         Complete, Ping, ReInit, Replace, ShellStep, ShellExit, Answer, vars, engineVars
<1>8. pc = "run" /\ pc' = "run" =>
        ReadSome \/ ShellStep \/ ShellExit \/ UNCHANGED <<stdin, stdout, acc, pc, call>>
  BY DEF Next, EngineStep, Caller, StartOk, StartFails, Switch, SendPrepare, UseEnds,
         PingEnds, CompleteEnds, Prepared, PrepareFails, RunAnswers, RunTimesOut, RunFails, Exec,
         Complete, Ping, ReInit, Replace, Answer, vars
<1> QED
  BY <1>1, <1>2, <1>3, <1>4, <1>5, <1>6, <1>7, <1>8

\* In phase 2 every frame that can be read is the call's own.
LEMMA FrameIsOwn ==
  ASSUME PipeIsOwn, pc = "run", NEW i \in DOMAIN acc
  PROVE  acc[i].id = call.id
<1>1. acc \in Seq(OwnToken(call.id))
  BY DEF PipeIsOwn
<1>2. acc[i] \in OwnToken(call.id)
  BY <1>1, LenProperties, ElementOfSeq
<1> QED
  BY <1>2 DEF OwnToken

\* Every step keeps the frame an answer was made of the call's own.
LEMMA FrameStep ==
  ASSUME IInv, [Next]_vars
  PROVE  OwnFrame'
<1>a. PipeIsOwn /\ OwnFrame
  BY DEF IInv
<1>1. CASE RunAnswers
  <2>1. PICK i \in DOMAIN acc : Answer("results", acc[i].id)
    BY <1>1 DEF RunAnswers
  <2>2. acc[i].id = call.id
    BY <1>1, <1>a, FrameIsOwn DEF RunAnswers
  <2> QED
    BY <2>1, <2>2 DEF Answer, OwnFrame
<1>2. CASE RunFails
  <2>1. CASE Answer("error", 0)
    BY <2>1 DEF Answer, OwnFrame
  <2>2. ASSUME NEW i \in DOMAIN acc, Answer("truncated", acc[i].id)
        PROVE  OwnFrame'
    <3>1. acc[i].id = call.id
      BY <1>2, <1>a, FrameIsOwn DEF RunFails
    <3> QED
      BY <2>2, <3>1 DEF Answer, OwnFrame
  <2> QED
    BY <1>2, <2>1, <2>2 DEF RunFails
<1>3. CASE \E kind \in {"error", "timeout", "pong", "list", "nolist"} :
             \E frame \in {0} \cup {acc[i].id : i \in DOMAIN acc} : Answer(kind, frame)
  BY <1>3 DEF Answer, OwnFrame
<1>4. CASE answer' = NoAnswer
  BY <1>4 DEF OwnFrame, NoAnswer
<1>5. CASE UNCHANGED answer
  BY <1>5, <1>a DEF OwnFrame
<1>6. StartFails \/ PrepareFails \/ PingEnds \/ CompleteEnds \/ RunTimesOut =>
        \E kind \in {"error", "timeout", "pong", "list", "nolist"} :
          \E frame \in {0} \cup {acc[i].id : i \in DOMAIN acc} : Answer(kind, frame)
  BY DEF StartFails, PrepareFails, PingEnds, CompleteEnds, RunTimesOut, FirstOf
<1>7. CASE SendPrepare
  BY <1>7, <1>3, <1>5 DEF SendPrepare
<1> QED
  BY <1>1, <1>2, <1>3, <1>4, <1>5, <1>6, <1>7
     DEF Next, EngineStep, Caller, StartOk, Switch, ReadSome, UseEnds, Prepared, Exec, Complete,
         Ping, ReInit, Replace, ShellStep, ShellExit, vars, engineVars
-----------------------------------------------------------------------------
\* The theorems.

\* The invariant is inductive.
LEMMA Inductive == IInv /\ [Next]_vars => IInv'
<1> SUFFICES ASSUME IInv, [Next]_vars PROVE IInv'
  OBVIOUS
<1>1. TypeOK' /\ CallIsOfExec'
  BY TypeStep DEF IInv
<1>2. IdsAreIssued'
  BY IdsStep DEF IInv
<1>3. PrepareIsLast'
  BY <1>1, PrepareStep
<1>4. PipeIsOwn' /\ OwnFrame'
  BY PipeStep, FrameStep
<1> QED
  BY <1>1, <1>2, <1>3, <1>4 DEF IInv

\* Every variable of the engine and of the process stays in its type, for any
\* databases, scripts and bound on the ids.
THEOREM TypeCorrect == Spec => []TypeOK
<1>1. IInv => TypeOK
  BY DEF IInv
<1> QED
  BY <1>1, InitInv, Inductive, PTL DEF Spec

\* The results an execution is answered with are those of its own frame
\* (MongoshEngine.cpp:100-142, 428-431), whatever is left in the pipe by
\* executions that timed out, completions, pings and the warm-up query.
THEOREM FramesAreOwn == Spec => []OwnFrame
<1>1. IInv => OwnFrame
  BY DEF IInv
<1> QED
  BY <1>1, InitInv, Inductive, PTL DEF Spec

-----------------------------------------------------------------------------
\* A line that is no prepare line of the call c, or that has its script; a
\* sentinel that is no good answer to that line, unless the script is well formed.
PrepCommand(c) == {l \in Command : l.op = "prep" /\ l.id = c.id => l.script = c.script}
PrepToken(c) == {t \in Token : t = Tok("prep", c.id) => c.script \notin Malformed}

\* Lines that run no script, the places of those that do, and what has run.
OtherCommand == {l \in Command : l.op # "run"}
RunLines == {i \in DOMAIN stdin : stdin[i].op = "run"}
HasRun(id) == \E i \in DOMAIN ran : ran[i].id = id

\* The last answer is gone while a call is in progress.
AnswerIsLast == pc # "idle" => answer = NoAnswer

\* Phase 1: the parse check is made of the call's own script.
PrepIsOfCall ==
  pc = "prep" => /\ stdin \in Seq(PrepCommand(call))
                 /\ stdout \in Seq(PrepToken(call))
                 /\ acc \in Seq(PrepToken(call))

\* What runs, or is written to be run, was issued, and once only.
RunsAreIssued ==
  /\ \A i \in DOMAIN ran : ran[i].id \in 1..lastId
  /\ \A i \in RunLines : i = 1 /\ stdin[i].id \in 1..lastId /\ ~HasRun(stdin[i].id)

\* Phase 1: the script of the call has not run and is not written.
CallIsFresh ==
  pc = "prep" => /\ ~HasRun(call.id)
                 /\ \A i \in RunLines : stdin[i].id # call.id

\* Phase 2: nothing is printed before the script has run.
RunComesFirst ==
  pc = "run" => \/ HasRun(call.id)
                \/ /\ stdout = <<>> /\ acc = <<>>
                   /\ stdin # <<>> => 1 \in RunLines /\ stdin[1].id = call.id

\* An execution in progress has an id.
OpenIsIssued == pc \in {"prep", "run"} => call.id # 0

RInv ==
  /\ IInv
  /\ AnswerIsLast
  /\ PrepIsOfCall
  /\ RunsAreIssued
  /\ CallIsFresh
  /\ RunComesFirst
  /\ OpenIsIssued
  /\ ResultsAreOfARun
-----------------------------------------------------------------------------
\* Lines of the pipe.

\* Lines that run no script, written after s, leave the run lines of s where they are.
LEMMA OtherLines ==
  ASSUME NEW s \in Seq(Command), NEW t \in Seq(OtherCommand)
  PROVE  \A i \in DOMAIN (s \o t) :
           (s \o t)[i].op = "run" => i \in DOMAIN s /\ (s \o t)[i] = s[i]
<1>1. t \in Seq(Command)
  <2>1. OtherCommand \subseteq Command
    BY DEF OtherCommand
  <2> QED
    BY <2>1, SeqMonotonic
<1>2. /\ Len(s) \in Nat /\ Len(t) \in Nat /\ DOMAIN s = 1..Len(s)
      /\ \A i \in 1..Len(t) : t[i].op # "run"
  BY LenProperties, ElementOfSeq DEF OtherCommand
<1>3. /\ s \o t \in Seq(Command) /\ Len(s \o t) = Len(s) + Len(t)
      /\ \A i \in 1..(Len(s) + Len(t)) :
           (s \o t)[i] = IF i <= Len(s) THEN s[i] ELSE t[i - Len(s)]
  BY <1>1, ConcatProperties
<1>4. DOMAIN (s \o t) = 1..(Len(s) + Len(t))
  BY <1>3, LenProperties
<1> QED
  BY <1>2, <1>3, <1>4

\* The last run line is gone once the first line is.
LEMMA TailHasNoRun ==
  ASSUME NEW s \in Seq(Command), s # <<>>,
         \A i \in DOMAIN s : s[i].op = "run" => i = 1
  PROVE  \A i \in DOMAIN Tail(s) : Tail(s)[i].op # "run"
<1>1. /\ Len(s) \in Nat \ {0} /\ DOMAIN s = 1..Len(s)
      /\ Tail(s) \in Seq(Command) /\ Len(Tail(s)) = Len(s) - 1
      /\ \A i \in 1..Len(Tail(s)) : Tail(s)[i] = s[i + 1]
  BY EmptySeq, LenProperties, HeadTailProperties
<1>2. DOMAIN Tail(s) = 1..(Len(s) - 1)
  BY <1>1, LenProperties
<1>3. \A i \in 1..(Len(s) - 1) : i + 1 \in DOMAIN s /\ i + 1 # 1
  BY <1>1
<1> QED
  BY <1>1, <1>2, <1>3

\* No step but the one that begins phase 2 writes a run line or moves one.
RunsOnlyGo == RunLines' \subseteq RunLines /\ \A i \in RunLines' : stdin'[i] = stdin[i]

\* A line that is not a run, written to the process.
LEMMA WriteRunsOnlyGo ==
  ASSUME TypeOK, NEW t \in Seq(OtherCommand), Write(t)
  PROVE  RunsOnlyGo
<1>1. CASE stdin' = stdin
  BY <1>1 DEF RunsOnlyGo, RunLines
<1>2. CASE stdin' = stdin \o t
  <2>1. \A i \in DOMAIN stdin' :
          stdin'[i].op = "run" => i \in DOMAIN stdin /\ stdin'[i] = stdin[i]
    BY <1>2, OtherLines DEF TypeOK
  <2> QED
    BY <2>1 DEF RunsOnlyGo, RunLines
<1> QED
  BY <1>1, <1>2 DEF Write

\* A pipe that is emptied.
LEMMA NoRunLines ==
  ASSUME stdin' = <<>>
  PROVE  RunsOnlyGo
BY DEF RunsOnlyGo, RunLines

\* No step but those of the process and the begin of phase 2 runs or writes a script.
LEMMA RunsStay ==
  ASSUME TypeOK, CallIsOfExec, RunsAreIssued, [Next]_vars, ~ShellStep, ~Prepared
  PROVE  RunsOnlyGo /\ ran' = ran /\ lastId <= lastId'
<1>a. lastId \in Nat /\ lastId <= lastId /\ lastId <= lastId + 1
  BY DEF TypeOK
<1>b. \A op \in Ops \ {"run"}, id \in Nat : <<Cmd(op, id)>> \in Seq(OtherCommand)
  BY DEF Cmd, Command, OtherCommand, AnyDb
<1>c. stdin' = stdin => RunsOnlyGo
  BY DEF RunsOnlyGo, RunLines
<1>1. CASE StartOk \/ StartFails
  <2>1. \E state \in {"running", "none"}, ready \in BOOLEAN,
           t \in {<<>>, <<Cmd("warm", 0)>>, <<Cmd("load", 0)>>} : Spawned(state, ready, t)
    BY <1>1 DEF StartOk, StartFails
  <2>2. PICK t \in {<<>>, <<Cmd("warm", 0)>>, <<Cmd("load", 0)>>} : stdin' = t
    BY <2>1 DEF Spawned
  <2>3. RunLines' = {}
    BY <2>2 DEF RunLines, Cmd
  <2>4. ran' = ran
    BY <2>1 DEF Spawned
  <2> QED
    BY <1>1, <1>a, <2>3, <2>4 DEF RunsOnlyGo, StartOk, StartFails
<1>2. CASE Switch
  <2>1. <<[Cmd("use", 0) EXCEPT !.db = call.db]>> \in Seq(OtherCommand)
    <3>1. call.db \in Dbs
      BY <1>2 DEF Switch, CallIsOfExec
    <3> QED
      BY <3>1 DEF Cmd, Command, OtherCommand, Ops, AnyDb
  <2>2. RunsOnlyGo
    BY <1>2, <1>c, <2>1, WriteRunsOnlyGo DEF Switch
  <2> QED
    BY <1>2, <1>a, <2>2 DEF Switch
<1>3. CASE SendPrepare
  <2>1. <<[Cmd("prep", lastId + 1) EXCEPT !.script = call.script]>> \in Seq(OtherCommand)
    <3>1. call.script \in Scripts
      BY <1>3 DEF SendPrepare, CallIsOfExec
    <3> QED
      BY <3>1, <1>a DEF Cmd, Command, OtherCommand, Ops, AnyDb
  <2>2. RunsOnlyGo
    BY <1>3, <2>1, WriteRunsOnlyGo DEF SendPrepare
  <2> QED
    BY <1>3, <1>a, <2>2 DEF SendPrepare
<1>4. CASE Complete
  <2>1. <<Cmd("complete", lastId + 1)>> \in Seq(OtherCommand)
    BY <1>a, <1>b DEF Ops
  <2>2. RunsOnlyGo
    BY <1>4, <2>1, WriteRunsOnlyGo DEF Complete
  <2> QED
    BY <1>4, <1>a, <2>2 DEF Complete
<1>5. CASE Ping
  <2>1. <<Cmd("ping", 0)>> \in Seq(OtherCommand)
    BY <1>b DEF Ops
  <2>2. RunsOnlyGo
    BY <1>5, <2>1, WriteRunsOnlyGo DEF Ping
  <2> QED
    BY <1>5, <1>a, <2>2 DEF Ping
<1>6. CASE RunTimesOut
  <2>1. CASE stdin # <<>> /\ stdin' = Tail(stdin)
    <3>1. \A i \in DOMAIN Tail(stdin) : Tail(stdin)[i].op # "run"
      BY <2>1, TailHasNoRun DEF TypeOK, RunsAreIssued, RunLines
    <3>2. RunLines' = {}
      BY <2>1, <3>1 DEF RunLines
    <3> QED
      BY <1>6, <1>a, <3>2 DEF RunTimesOut, RunsOnlyGo
  <2>2. CASE stdin' = <<>> \/ stdin' = stdin
    BY <1>6, <1>a, <1>c, <2>2, NoRunLines DEF RunTimesOut
  <2> QED
    BY <1>6, <2>1, <2>2 DEF RunTimesOut, Interrupt
<1>7. CASE Replace
  BY <1>7, <1>a, NoRunLines DEF Replace
<1>8. CASE ShellExit
  BY <1>8, <1>a, NoRunLines DEF ShellExit, engineVars
<1>9. CASE UNCHANGED <<stdin, ran, lastId>>
  BY <1>9, <1>a, <1>c
<1> QED
  BY <1>1, <1>2, <1>3, <1>4, <1>5, <1>6, <1>7, <1>8, <1>9
     DEF Next, EngineStep, Caller, ReadSome, UseEnds, PingEnds, CompleteEnds, PrepareFails,
         RunAnswers, RunFails, Exec, ReInit, vars, shellVars

\* What the process does with its next line: it runs it, if it is a run line, and no run
\* line is left.
LEMMA ShellRuns ==
  ASSUME TypeOK, RunsAreIssued, ShellStep
  PROVE  /\ RunLines' = {}
         /\ \/ ran' = ran /\ RunLines = {}
            \/ /\ RunLines = {1}
               /\ \E r : ran' = Append(ran, r) /\ r.id = stdin[1].id
                         /\ r \in [id : Nat, want : AnyDb, in : AnyDb, strayed : BOOLEAN]
<1> DEFINE c == Head(stdin)
           r == [id |-> c.id, want |-> c.db, in |-> shellDb, strayed |-> strayed]
<1>1. /\ stdin \in Seq(Command) /\ stdin # <<>> /\ stdin' = Tail(stdin)
      /\ ran' = IF c.op = "run" THEN Append(ran, r) ELSE ran
  BY DEF TypeOK, ShellStep
<1>2. RunLines \subseteq {1}
  BY DEF RunsAreIssued
<1>3. 1 \in DOMAIN stdin /\ c = stdin[1] /\ c \in Command
  BY <1>1, EmptySeq, LenProperties, ElementOfSeq, TailInSeq
<1>4. 1 \in RunLines <=> c.op = "run"
  BY <1>3 DEF RunLines
<1>5. RunLines' = {}
  <2>1. \A i \in DOMAIN Tail(stdin) : Tail(stdin)[i].op # "run"
    BY <1>1, <1>2, TailHasNoRun DEF RunLines
  <2> QED
    BY <1>1, <2>1 DEF RunLines
<1>6. r \in [id : Nat, want : AnyDb, in : AnyDb, strayed : BOOLEAN]
  BY <1>3 DEF TypeOK, Command, AnyDb
<1> QED
  BY <1>1, <1>2, <1>3, <1>4, <1>5, <1>6

\* The completed runs are those before, and one more.
LEMMA AppendElements ==
  ASSUME NEW S, NEW s \in Seq(S), NEW r \in S
  PROVE  /\ Append(s, r) \in Seq(S)
         /\ Len(Append(s, r)) = Len(s) + 1
         /\ \A i \in DOMAIN s : i \in DOMAIN Append(s, r) /\ Append(s, r)[i] = s[i]
         /\ Len(s) + 1 \in DOMAIN Append(s, r) /\ Append(s, r)[Len(s) + 1] = r
         /\ \A i \in DOMAIN Append(s, r) :
              Append(s, r)[i] = r \/ \E j \in DOMAIN s : Append(s, r)[i] = s[j]
<1>1. /\ Append(s, r) \in Seq(S) /\ Len(Append(s, r)) = Len(s) + 1 /\ Len(s) \in Nat
      /\ \A i \in 1..Len(s) : Append(s, r)[i] = s[i]
      /\ Append(s, r)[Len(s) + 1] = r
  BY AppendProperties, LenProperties
<1>2. DOMAIN s = 1..Len(s) /\ DOMAIN Append(s, r) = 1..(Len(s) + 1)
  BY <1>1, LenProperties
<1> QED
  BY <1>1, <1>2

\* The steps of phase 1 that touch the pipe.
LEMMA PhaseOneSteps ==
  ASSUME [Next]_vars
  PROVE  /\ pc # "prep" /\ pc' = "prep" => SendPrepare
         /\ pc = "prep" /\ pc' = "prep" =>
              ReadSome \/ ShellStep \/ ShellExit \/ UNCHANGED <<stdin, stdout, acc, pc, call>>
<1>1. pc # "prep" /\ pc' = "prep" => SendPrepare
  BY DEF Next, EngineStep, Caller, StartOk, StartFails, Switch, ReadSome, UseEnds,
         PingEnds, CompleteEnds, Prepared, PrepareFails, RunAnswers, RunTimesOut, RunFails, Exec,
         Complete, Ping, ReInit, Replace, ShellStep, ShellExit, Answer, vars, engineVars
<1>2. pc = "prep" /\ pc' = "prep" =>
        ReadSome \/ ShellStep \/ ShellExit \/ UNCHANGED <<stdin, stdout, acc, pc, call>>
  BY DEF Next, EngineStep, Caller, StartOk, StartFails, Switch, SendPrepare, UseEnds,
         PingEnds, CompleteEnds, Prepared, PrepareFails, RunAnswers, RunTimesOut, RunFails, Exec,
         Complete, Ping, ReInit, Replace, Answer, vars
<1> QED
  BY <1>1, <1>2
-----------------------------------------------------------------------------
\* The conjuncts of the invariant.

\* The answer is set when a call returns, and cleared when one begins.
LEMMA AnswerIsLastStep ==
  ASSUME AnswerIsLast, [Next]_vars
  PROVE  AnswerIsLast'
BY DEF AnswerIsLast, Next, EngineStep, Caller, StartOk, StartFails, Switch, SendPrepare, ReadSome,
       UseEnds, PingEnds, CompleteEnds, Prepared, PrepareFails, RunAnswers, RunTimesOut, RunFails,
       Exec, Complete, Ping, ReInit, Replace, ShellStep, ShellExit, Answer, vars, engineVars,
       shellVars

\* A line that may only be the call's own prepare line is answered so.
LEMMA PrepOutput ==
  ASSUME NEW l \in PrepCommand(call)
  PROVE  Output(l) \in Seq(PrepToken(call))
<1>a. l \in Command
  BY DEF PrepCommand
<1>1. CASE l.op = "prep"
  <2> DEFINE t == Tok(IF l.script \in Malformed THEN "badprep" ELSE "prep", l.id)
  <2>1. t \in Token
    BY <1>a DEF Tok, Token, Kinds, Command
  <2>2. t = Tok("prep", call.id) => call.script \notin Malformed
    BY <1>1 DEF Tok, PrepCommand
  <2>3. <<t>> \in Seq(PrepToken(call)) /\ <<>> \in Seq(PrepToken(call))
    BY <2>1, <2>2 DEF PrepToken
  <2>4. Output(l) = IF loaded THEN <<t>> ELSE <<>>
    BY <1>1 DEF Output
  <2> QED
    BY <2>3, <2>4
<1>2. CASE l.op # "prep"
  <2>1. \A t \in Token : t.k # "prep" => t \in PrepToken(call)
    BY DEF PrepToken, Tok
  <2>2. CASE Output(l) = <<>>
    BY <2>2, EmptySeq
  <2>3. ASSUME NEW t \in Token, Output(l) = <<t>>, t.k # "prep"
        PROVE  Output(l) \in Seq(PrepToken(call))
    BY <2>1, <2>3
  <2>4. ASSUME NEW t \in Token, NEW u \in Token, Output(l) = <<t, u>>, t.k # "prep", u.k # "prep"
        PROVE  Output(l) \in Seq(PrepToken(call))
    BY <2>1, <2>4
  <2> QED
    BY <1>a, <1>2, <2>2, <2>3, <2>4, OutputShape
<1> QED
  BY <1>1, <1>2

\* Every step keeps the prepare line of the call, and a good answer to it, those of its script.
LEMMA PrepIsOfCallStep ==
  ASSUME TypeOK, CallIsOfExec, IdsAreIssued, PrepIsOfCall, [Next]_vars
  PROVE  PrepIsOfCall'
<1>1. CASE SendPrepare
  <2> DEFINE new == lastId + 1
             line == [Cmd("prep", new) EXCEPT !.script = call.script]
  <2>1. CASE proc # "running"
    BY <1>1, <2>1 DEF SendPrepare, Answer, PrepIsOfCall
  <2>2. CASE proc = "running"
    <3>1. /\ call' = [call EXCEPT !.id = new] /\ stdin' = stdin \o <<line>>
          /\ stdout' = stdout /\ acc' = <<>>
      BY <1>1, <2>2 DEF SendPrepare, Write
    <3>2. call'.id = new /\ call'.script = call.script /\ lastId \in Nat
      BY <3>1 DEF TypeOK
    <3>3. IssuedCommand(lastId) \subseteq PrepCommand(call')
      BY <3>2 DEF IssuedCommand, PrepCommand, Command
    <3>4. IssuedToken(lastId) \subseteq PrepToken(call')
      BY <3>2 DEF IssuedToken, PrepToken, Tok, Token
    <3>5. line \in PrepCommand(call')
      BY <1>1, <3>2 DEF SendPrepare, CallIsOfExec, Cmd, PrepCommand, Command, Ops, AnyDb
    <3>6. stdin \in Seq(PrepCommand(call')) /\ stdout \in Seq(PrepToken(call'))
      BY <3>3, <3>4, SeqMonotonic DEF IdsAreIssued
    <3>7. stdin' \in Seq(PrepCommand(call'))
      <4>1. <<line>> \in Seq(PrepCommand(call'))
        BY <3>5
      <4> QED
        BY <3>1, <3>6, <4>1, ConcatInSeq
    <3> QED
      BY <3>1, <3>6, <3>7, EmptySeq DEF PrepIsOfCall
  <2> QED
    BY <2>1, <2>2
<1>2. CASE pc = "prep" /\ ReadSome
  <2>1. stdout' \in Seq(PrepToken(call)) /\ acc' \in Seq(PrepToken(call))
    BY <1>2, PartInSeq, ConcatInSeq DEF ReadSome, PrepIsOfCall
  <2> QED
    BY <1>2, <2>1 DEF ReadSome, PrepIsOfCall
<1>3. CASE pc = "prep" /\ ShellStep
  <2>1. Head(stdin) \in PrepCommand(call) /\ Tail(stdin) \in Seq(PrepCommand(call))
    BY <1>3, TailInSeq DEF ShellStep, PrepIsOfCall
  <2>2. stdin' = Tail(stdin) /\ stdout' = stdout \o Output(Head(stdin))
    BY <1>3 DEF ShellStep
  <2>3. stdout' \in Seq(PrepToken(call))
    BY <1>3, <2>1, <2>2, PrepOutput, ConcatInSeq DEF PrepIsOfCall
  <2> QED
    BY <1>3, <2>1, <2>2, <2>3 DEF ShellStep, PrepIsOfCall, engineVars
<1>4. CASE pc = "prep" /\ ShellExit
  BY <1>4, EmptySeq DEF ShellExit, PrepIsOfCall, engineVars
<1>5. CASE pc' # "prep"
  BY <1>5 DEF PrepIsOfCall
<1>6. CASE UNCHANGED <<stdin, stdout, acc, pc, call>>
  BY <1>6 DEF PrepIsOfCall
<1> QED
  BY <1>1, <1>2, <1>3, <1>4, <1>5, <1>6, PhaseOneSteps
-----------------------------------------------------------------------------
\* Phase 2 begins with the run line of the call, in a pipe that is empty otherwise.
LEMMA PreparedWrites ==
  ASSUME TypeOK, CallIsOfExec, PrepareIsLast, Prepared
  PROVE  /\ RunLines' = {1} /\ stdin'[1].id = call.id /\ stdin'[1].script = call.script
         /\ stdin' \in Seq(Command)
         /\ stdout' = <<>> /\ acc' = <<>>
<1> DEFINE R == [Cmd("run", call.id) EXCEPT !.script = call.script, !.db = call.db]
           E == Cmd("emit", call.id)
<1>1. stdin = <<>> /\ stdout = <<>> /\ proc = "running"
  BY PreparedIsEmpty DEF Prepared
<1>2. stdin' = <<R, E>>
  BY <1>1 DEF Prepared, Write
<1>3. /\ R.op = "run" /\ R.id = call.id /\ R.script = call.script /\ R \in Command
      /\ E.op = "emit" /\ E \in Command
  BY DEF Prepared, CallIsOfExec, TypeOK, Cmd, Command, Ops, AnyDb
<1>4. \A r, e : r.op = "run" /\ e.op = "emit"
               => {i \in DOMAIN <<r, e>> : <<r, e>>[i].op = "run"} = {1}
  OBVIOUS
<1>5. \A r \in Command, e \in Command : <<r, e>> \in Seq(Command) /\ <<r, e>>[1] = r
  OBVIOUS
<1> HIDE DEF R, E
<1>6. RunLines' = {1}
  BY <1>2, <1>3, <1>4 DEF RunLines
<1>7. stdin' \in Seq(Command) /\ stdin'[1] = R
  BY <1>2, <1>3, <1>5
<1> QED
  BY <1>1, <1>3, <1>6, <1>7 DEF Prepared

\* Every step keeps what has run, and the run line in the pipe, issued and different.
LEMMA RunsAreIssuedStep ==
  ASSUME RInv, [Next]_vars
  PROVE  RunsAreIssued'
<1>a. /\ TypeOK /\ CallIsOfExec /\ IdsAreIssued /\ PrepareIsLast
      /\ RunsAreIssued /\ CallIsFresh /\ OpenIsIssued
  BY DEF RInv, IInv
<1>b. lastId \in Nat /\ lastId' \in Nat
  BY <1>a, TypeStep DEF TypeOK
<1>1. CASE ~ShellStep /\ ~Prepared
  <2>1. RunsOnlyGo /\ ran' = ran /\ lastId <= lastId'
    BY <1>1, <1>a, RunsStay
  <2> QED
    BY <2>1, <1>a, <1>b DEF RunsAreIssued, RunsOnlyGo, HasRun
<1>2. CASE ShellStep
  <2>1. lastId' = lastId
    BY <1>2 DEF ShellStep, engineVars
  <2>2. CASE ran' = ran
    BY <1>2, <1>a, <2>1, <2>2, ShellRuns DEF RunsAreIssued
  <2>3. ASSUME NEW r, ran' = Append(ran, r), RunLines = {1}, r.id = stdin[1].id,
               r \in [id : Nat, want : AnyDb, in : AnyDb, strayed : BOOLEAN]
        PROVE  RunsAreIssued'
    <3>1. r.id \in 1..lastId
      BY <2>3, <1>a DEF RunsAreIssued
    <3>2. \A i \in DOMAIN ran' : ran'[i] = r \/ \E j \in DOMAIN ran : ran'[i] = ran[j]
      BY <2>3, <1>a, AppendElements
    <3> QED
      BY <1>2, <1>a, <2>1, <3>1, <3>2, ShellRuns DEF RunsAreIssued
  <2> QED
    BY <1>2, <1>a, <2>2, <2>3, ShellRuns
<1>3. CASE Prepared
  <2>3. RunLines' = {1} /\ stdin'[1].id = call.id
    BY <1>3, <1>a, PreparedWrites
  <2>4. call.id \in 1..lastId /\ ~HasRun(call.id)
    BY <1>3, <1>a DEF Prepared, OpenIsIssued, IdsAreIssued, CallIsFresh, TypeOK
  <2> QED
    BY <1>3, <1>a, <2>3, <2>4 DEF Prepared, RunsAreIssued, HasRun
<1> QED
  BY <1>1, <1>2, <1>3

\* What has run stays so.
LEMMA RunsGrow ==
  ASSUME RInv, [Next]_vars
  PROVE  \A id : HasRun(id) => HasRun(id)'
<1>a. TypeOK /\ CallIsOfExec /\ RunsAreIssued
  BY DEF RInv, IInv
<1>1. CASE ~ShellStep
  <2>1. ran' = ran
    BY <1>1, <1>a, RunsStay DEF Prepared
  <2> QED
    BY <2>1 DEF HasRun
<1>2. CASE ShellStep
  <2>1. CASE ran' = ran
    BY <2>1 DEF HasRun
  <2>2. ASSUME NEW r \in [id : Nat, want : AnyDb, in : AnyDb, strayed : BOOLEAN], ran' = Append(ran, r)
        PROVE  \A id : HasRun(id) => HasRun(id)'
    <3>1. ran \in Seq([id : Nat, want : AnyDb, in : AnyDb, strayed : BOOLEAN])
      BY <1>a DEF TypeOK
    <3>2. \A i \in DOMAIN ran : i \in DOMAIN ran' /\ ran'[i] = ran[i]
      BY <2>2, <3>1, AppendElements
    <3> QED
      BY <3>2 DEF HasRun
  <2> QED
    BY <1>2, <1>a, <2>1, <2>2, ShellRuns
<1> QED
  BY <1>1, <1>2

\* A fresh id has not run, and does not run in phase 1.
LEMMA CallIsFreshStep ==
  ASSUME RInv, [Next]_vars
  PROVE  CallIsFresh'
<1>a. TypeOK /\ CallIsOfExec /\ RunsAreIssued /\ CallIsFresh
  BY DEF RInv, IInv
<1>1. CASE pc # "prep" /\ pc' = "prep"
  <2>1. SendPrepare
    BY <1>1, PhaseOneSteps
  <2>2. call'.id = lastId + 1 /\ lastId \in Nat
    BY <1>1, <1>a, <2>1 DEF SendPrepare, Answer, TypeOK
  <2>3. RunsOnlyGo /\ ran' = ran
    BY <2>1, <1>a, RunsStay DEF SendPrepare, ShellStep, Prepared, engineVars
  <2>4. /\ \A i \in DOMAIN ran' : ran'[i].id # call'.id
        /\ \A i \in RunLines' : stdin'[i].id # call'.id
    BY <1>a, <2>2, <2>3 DEF RunsAreIssued, RunsOnlyGo
  <2> QED
    BY <2>4 DEF CallIsFresh, HasRun
<1>2. CASE pc = "prep" /\ pc' = "prep" /\ ~ShellStep
  <2>1. call' = call
    BY <1>2, PhaseOneSteps DEF ReadSome, ShellExit, engineVars
  <2>2. RunsOnlyGo /\ ran' = ran
    BY <1>2, <1>a, RunsStay DEF Prepared
  <2> QED
    BY <1>2, <1>a, <2>1, <2>2 DEF CallIsFresh, RunsOnlyGo, HasRun
<1>3. CASE pc = "prep" /\ ShellStep
  <2>1. call' = call /\ RunLines' = {}
    BY <1>3, <1>a, ShellRuns DEF ShellStep, engineVars
  <2>2. \A i \in DOMAIN ran' : ran'[i].id # call.id
    <3>1. CASE ran' = ran
      BY <1>3, <1>a, <3>1 DEF CallIsFresh, HasRun
    <3>2. ASSUME NEW r, ran' = Append(ran, r), RunLines = {1}, r.id = stdin[1].id,
                 r \in [id : Nat, want : AnyDb, in : AnyDb, strayed : BOOLEAN]
          PROVE  \A i \in DOMAIN ran' : ran'[i].id # call.id
      <4>a. ran \in Seq([id : Nat, want : AnyDb, in : AnyDb, strayed : BOOLEAN])
        BY <1>a DEF TypeOK
      <4>1. \A i \in DOMAIN ran' : ran'[i] = r \/ \E j \in DOMAIN ran : ran'[i] = ran[j]
        BY <3>2, <4>a, AppendElements
      <4> QED
        BY <1>3, <1>a, <3>2, <4>1 DEF CallIsFresh, HasRun
    <3> QED
      BY <1>3, <1>a, <3>1, <3>2, ShellRuns
  <2> QED
    BY <2>1, <2>2 DEF CallIsFresh, HasRun
<1>4. CASE pc' # "prep"
  BY <1>4 DEF CallIsFresh
<1> QED
  BY <1>1, <1>2, <1>3, <1>4

\* The id of an execution in progress is not 0.
LEMMA OpenIsIssuedStep ==
  ASSUME TypeOK, OpenIsIssued, [Next]_vars
  PROVE  OpenIsIssued'
<1>1. CASE pc # "prep" /\ pc' = "prep"
  <2>1. SendPrepare
    BY <1>1, PhaseOneSteps
  <2> QED
    BY <1>1, <2>1 DEF SendPrepare, Answer, TypeOK, OpenIsIssued
<1>2. CASE pc = "prep" /\ pc' = "prep"
  BY <1>2, PhaseOneSteps DEF ReadSome, ShellStep, ShellExit, engineVars, OpenIsIssued
<1>3. CASE pc' = "run"
  <2>1. pc \in {"prep", "run"} /\ call' = call
    BY <1>3 DEF Next, EngineStep, Caller, StartOk, StartFails, Switch, SendPrepare, ReadSome,
       UseEnds, PingEnds, CompleteEnds, Prepared, PrepareFails, RunAnswers, RunTimesOut,
       RunFails, Exec, Complete, Ping, ReInit, Replace, ShellStep, ShellExit, Answer, vars, engineVars
  <2> QED
    BY <2>1 DEF OpenIsIssued
<1>4. CASE pc' \notin {"prep", "run"}
  BY <1>4 DEF OpenIsIssued
<1> QED
  BY <1>1, <1>2, <1>3, <1>4

\* Every step of phase 2 leaves the run line first, or the script has run.
LEMMA RunComesFirstStep ==
  ASSUME RInv, [Next]_vars
  PROVE  RunComesFirst'
<1>a. TypeOK /\ CallIsOfExec /\ PrepareIsLast /\ RunsAreIssued /\ RunComesFirst
  BY DEF RInv, IInv
<1>b. ASSUME pc' = "run", HasRun(call.id), call' = call
      PROVE  RunComesFirst'
  <2>1. HasRun(call.id)'
    <3>1. \A id : HasRun(id) => HasRun(id)'
      BY RunsGrow
    <3> QED
      BY <3>1, <1>b DEF HasRun
  <2> QED
    BY <2>1 DEF RunComesFirst
<1>1. CASE Prepared
  <2>1. RunLines' = {1} /\ stdin'[1].id = call.id /\ stdout' = <<>> /\ acc' = <<>>
    BY <1>1, <1>a, PreparedWrites
  <2> QED
    BY <1>1, <2>1 DEF Prepared, RunComesFirst
<1>2. CASE pc = "run" /\ ReadSome
  <2>1. stdout # <<>>
    BY <1>2 DEF ReadSome
  <2> QED
    BY <1>2, <1>a, <1>b, <2>1 DEF ReadSome, RunComesFirst
<1>3. CASE pc = "run" /\ ShellStep
  <2>1. pc' = "run" /\ call' = call /\ stdin # <<>>
    BY <1>3 DEF ShellStep, engineVars
  <2>2. CASE HasRun(call.id)
    BY <1>b, <2>1, <2>2
  <2>3. CASE ~HasRun(call.id)
    <3>1. 1 \in RunLines /\ stdin[1].id = call.id
      BY <1>3, <1>a, <2>1, <2>3 DEF RunComesFirst
    <3>2. PICK r \in [id : Nat, want : AnyDb, in : AnyDb, strayed : BOOLEAN] :
            ran' = Append(ran, r) /\ r.id = call.id
      BY <1>3, <1>a, <3>1, ShellRuns
    <3>3. Len(ran) + 1 \in DOMAIN ran' /\ ran'[Len(ran) + 1] = r
      BY <1>a, <3>2, AppendElements DEF TypeOK
    <3> QED
      BY <2>1, <3>2, <3>3 DEF RunComesFirst, HasRun
  <2> QED
    BY <2>2, <2>3
<1>4. CASE pc = "run" /\ ShellExit
  <2>1. stdin' = <<>> /\ UNCHANGED <<stdout, acc, pc, call, ran>>
    BY <1>4 DEF ShellExit, engineVars
  <2> QED
    BY <1>4, <1>a, <2>1 DEF RunComesFirst, HasRun
<1>5. CASE pc' # "run"
  BY <1>5 DEF RunComesFirst
<1>6. CASE UNCHANGED <<stdin, stdout, acc, pc, call, ran>>
  BY <1>6, <1>a DEF RunComesFirst, HasRun, RunLines
<1>7. pc # "run" /\ pc' = "run" => Prepared
  BY DEF Next, EngineStep, Caller, StartOk, StartFails, Switch, SendPrepare, ReadSome, UseEnds,
         PingEnds, CompleteEnds, PrepareFails, RunAnswers, RunTimesOut, RunFails, Exec,
         Complete, Ping, ReInit, Replace, ShellStep, ShellExit, Answer, vars, engineVars
<1>8. pc = "run" /\ pc' = "run" =>
        ReadSome \/ ShellStep \/ ShellExit \/ UNCHANGED <<stdin, stdout, acc, pc, call, ran>>
  BY DEF Next, EngineStep, Caller, StartOk, StartFails, Switch, SendPrepare, UseEnds,
         PingEnds, CompleteEnds, Prepared, PrepareFails, RunAnswers, RunTimesOut, RunFails, Exec,
         Complete, Ping, ReInit, Replace, Answer, vars
<1> QED
  BY <1>1, <1>2, <1>3, <1>4, <1>5, <1>6, <1>7, <1>8
-----------------------------------------------------------------------------
\* ResultsAreOfARun.

\* Whatever is read in phase 2 was printed after the script had run.
LEMMA ReadAfterRun ==
  ASSUME RunComesFirst, pc = "run", NEW i \in DOMAIN acc
  PROVE  HasRun(call.id)
BY EmptySeq DEF RunComesFirst

\* An execution ends with results, or with the start of them, only after its script has run.
LEMMA EndsAfterRun ==
  ASSUME RInv, [Next]_vars, answer' # answer, answer'.kind \in {"results", "truncated"}
  PROVE  /\ pc = "run" /\ pc' = "idle"
         /\ answer'.id = call.id /\ HasRun(call.id) /\ ran' = ran /\ lastId' = lastId
<1>a. RunComesFirst
  BY DEF RInv
<1>1. RunAnswers \/ RunFails
  <2>1. NoAnswer.kind = "none"
    BY DEF NoAnswer
  <2>2. ~\E f : Answer("error", f) \/ Answer("timeout", f) \/ Answer("pong", f)
                \/ Answer("list", f) \/ Answer("nolist", f)
    BY DEF Answer
  <2> QED
    BY <2>1, <2>2 DEF Next, EngineStep, Caller, StartOk, StartFails, Switch, SendPrepare, ReadSome,
       UseEnds, PingEnds, CompleteEnds, Prepared, PrepareFails, RunTimesOut, Exec, Complete, Ping,
       ReInit, Replace, ShellStep, ShellExit, vars, engineVars
<1>2. \E i \in DOMAIN acc, kind \in {"results", "truncated"} : Answer(kind, acc[i].id)
  BY <1>1 DEF RunAnswers, RunFails, Answer
<1>3. pc = "run" /\ ran' = ran /\ lastId' = lastId
  BY <1>1 DEF RunAnswers, RunFails, shellVars
<1> QED
  BY <1>a, <1>2, <1>3, ReadAfterRun DEF Answer

\* Every step keeps results those of a run, and refused scripts out of the pipe.
LEMMA ResultsStep ==
  ASSUME RInv, [Next]_vars
  PROVE  ResultsAreOfARun'
<1>a. /\ TypeOK /\ CallIsOfExec /\ PrepareIsLast /\ PrepIsOfCall /\ RunsAreIssued
      /\ ResultsAreOfARun
  BY DEF RInv, IInv
<1>1. answer'.kind \in {"results", "truncated"} => HasRun(answer.id)'
  <2>1. \A id : HasRun(id) => HasRun(id)'
    BY RunsGrow
  <2>2. CASE answer' = answer
    BY <2>1, <2>2, <1>a DEF ResultsAreOfARun, HasRun
  <2>3. CASE answer' # answer
    BY <2>1, <2>3, EndsAfterRun DEF HasRun
  <2> QED
    BY <2>2, <2>3
<1>2. \A i \in RunLines' : stdin'[i].script \notin Malformed
  <2>1. CASE ~ShellStep /\ ~Prepared
    BY <2>1, <1>a, RunsStay DEF ResultsAreOfARun, RunsOnlyGo, RunLines
  <2>2. CASE ShellStep
    BY <2>2, <1>a, ShellRuns
  <2>3. CASE Prepared
    <3>1. call.script \notin Malformed
      <4>1. PICK i \in DOMAIN acc : acc[i] = Tok("prep", call.id)
        BY <2>3 DEF Prepared, Has
      <4>2. acc \in Seq(PrepToken(call))
        BY <2>3, <1>a DEF Prepared, PrepIsOfCall
      <4>3. acc[i] \in PrepToken(call)
        BY <4>1, <4>2, LenProperties, ElementOfSeq
      <4> QED
        BY <4>1, <4>3 DEF PrepToken
    <3>2. RunLines' = {1} /\ stdin'[1].script = call.script
      BY <2>3, <1>a, PreparedWrites
    <3> QED
      BY <3>1, <3>2
  <2> QED
    BY <2>1, <2>2, <2>3
<1> QED
  BY <1>1, <1>2 DEF ResultsAreOfARun, HasRun, RunLines

\* The invariant holds of the initial states.
LEMMA InitRInv == Init => RInv
<1> SUFFICES ASSUME Init PROVE RInv
  OBVIOUS
<1>1. IInv
  BY InitInv
<1>2. RunsAreIssued /\ ResultsAreOfARun
  BY DEF Init, RunsAreIssued, RunLines, ResultsAreOfARun, NoAnswer
<1>3. AnswerIsLast /\ PrepIsOfCall /\ CallIsFresh /\ RunComesFirst /\ OpenIsIssued
  BY DEF Init, AnswerIsLast, PrepIsOfCall, CallIsFresh, RunComesFirst, OpenIsIssued
<1> QED
  BY <1>1, <1>2, <1>3 DEF RInv

\* It is inductive.
LEMMA RInductive == RInv /\ [Next]_vars => RInv'
<1> SUFFICES ASSUME RInv, [Next]_vars PROVE RInv'
  OBVIOUS
<1>a. /\ IInv /\ TypeOK /\ CallIsOfExec /\ IdsAreIssued
      /\ AnswerIsLast /\ PrepIsOfCall /\ OpenIsIssued
  BY DEF RInv, IInv
<1>1. IInv'
  BY <1>a, Inductive
<1>2. AnswerIsLast'
  BY <1>a, AnswerIsLastStep
<1>3. PrepIsOfCall'
  BY <1>a, PrepIsOfCallStep
<1>4. RunsAreIssued' /\ CallIsFresh' /\ RunComesFirst' /\ ResultsAreOfARun'
  BY RunsAreIssuedStep, CallIsFreshStep, RunComesFirstStep, ResultsStep
<1>5. OpenIsIssued'
  BY <1>a, OpenIsIssuedStep
<1> QED
  BY <1>1, <1>2, <1>3, <1>4, <1>5 DEF RInv

\* MongoshEngine.cpp:136-142: for every set of scripts, an execution is answered
\* with results only after its script has run, and a script that the parse check
\* refused is never written to the process.
THEOREM ResultsOfARun == Spec => []ResultsAreOfARun
<1>1. RInv => ResultsAreOfARun
  BY DEF RInv
<1> QED
  BY <1>1, InitRInv, RInductive, PTL DEF Spec
-----------------------------------------------------------------------------
\* The database a script runs in.

\* A process in the database `from' is in d once it has evaluated the lines of s.
Leads(s, from, d) ==
  \/ from = d /\ \A i \in DOMAIN s : s[i].op # "use"
  \/ \E i \in DOMAIN s : /\ s[i].op = "use" /\ s[i].db = d
                         /\ \A j \in DOMAIN s : j > i => s[j].op # "use"

\* A process that runs has its preamble; one whose start failed late has strayed.
ProcessIsReady == proc = "running" => strayed \/ (loaded /\ ~failed)

\* To an engine whose start failed, no call can send a switch.
NoSwitchAfterFailure ==
  failed => /\ pc \in {"idle", "start", "complete", "ping"}
            /\ \A i \in DOMAIN stdin : stdin[i].op # "use"

\* From the switch to its end a call is in _currentDb.
CurrentIsOfCall == pc \in {"use", "send", "prep", "run"} => currentDb = call.db

\* The process ends in d once it has evaluated what is in the pipe, unless it has strayed and
\* there is no switch in the pipe.
EndsIn(d) == Leads(stdin, IF strayed THEN d ELSE shellDb, d)

\* What is written leads the process to _currentDb, however late it is; a process just
\* started is in the database of the call, to which _currentDb will be set.
ProcessFollows ==
  proc = "running" => EndsIn(currentDb) \/ (pc = "switch" /\ EndsIn(call.db))

\* The script to be run next finds the database it is to run in.
RunsAreAtHome == ~strayed => \A i \in RunLines : stdin[i].db = shellDb

DbInv ==
  /\ RInv
  /\ ProcessIsReady /\ NoSwitchAfterFailure /\ CurrentIsOfCall /\ ProcessFollows /\ RunsAreAtHome
  /\ RunsInRequestedDb

\* A line that is no switch changes nothing, when it is written or evaluated; a switch that
\* is written last decides.
LEMMA LeadsWritten ==
  ASSUME NEW s \in Seq(Command), NEW c \in Command, NEW from, NEW d
  PROVE  /\ c.op # "use" /\ Leads(s, from, d) => Leads(s \o <<c>>, from, d)
         /\ c.op = "use" => Leads(s \o <<c>>, from, c.db)
<1> DEFINE r == s \o <<c>>
<1>1. <<c>> \in Seq(Command) /\ Len(<<c>>) = 1 /\ <<c>>[1] = c
  OBVIOUS
<1>2. /\ Len(s) \in Nat /\ DOMAIN s = 1..Len(s)
      /\ r \in Seq(Command) /\ Len(r) = Len(s) + 1
      /\ \A i \in 1..(Len(s) + 1) : r[i] = IF i <= Len(s) THEN s[i] ELSE <<c>>[i - Len(s)]
  BY <1>1, ConcatProperties, LenProperties
<1>3. DOMAIN r = 1..(Len(s) + 1)
  BY <1>2, LenProperties
<1> HIDE DEF r
<1>4. /\ \A i \in 1..Len(s) : r[i] = s[i]
      /\ r[Len(s) + 1] = c
  BY <1>1, <1>2
<1>5. \A i \in DOMAIN r : i \in DOMAIN s \/ i = Len(s) + 1
  BY <1>2, <1>3
<1>6. \A i \in DOMAIN s : i \in DOMAIN r /\ r[i] = s[i]
  BY <1>2, <1>3, <1>4
<1>7. ASSUME c.op # "use", Leads(s, from, d)
      PROVE  Leads(r, from, d)
  BY <1>4, <1>5, <1>6, <1>7 DEF Leads
<1>8. ASSUME c.op = "use"
      PROVE  Leads(r, from, c.db)
  <2>1. Len(s) + 1 \in DOMAIN r /\ \A j \in DOMAIN r : ~(j > Len(s) + 1)
    BY <1>2, <1>3
  <2> QED
    BY <1>4, <1>8, <2>1 DEF Leads
<1> QED
  BY <1>7, <1>8 DEF r

\* After its first line the process is in the database of it, if it is a switch.
LEMMA LeadsEvaluated ==
  ASSUME NEW s \in Seq(Command), s # <<>>, NEW from, NEW d, Leads(s, from, d)
  PROVE  Leads(Tail(s), IF Head(s).op = "use" THEN Head(s).db ELSE from, d)
<1> DEFINE r == Tail(s)
           c == Head(s)
<1>1. /\ Len(s) \in Nat \ {0} /\ DOMAIN s = 1..Len(s) /\ c = s[1]
      /\ r \in Seq(Command) /\ Len(r) = Len(s) - 1
      /\ \A i \in 1..Len(r) : r[i] = s[i + 1]
  BY EmptySeq, LenProperties, HeadTailProperties
<1>2. DOMAIN r = 1..(Len(s) - 1)
  BY <1>1, LenProperties
<1> HIDE DEF r, c
<1>3. \A i \in DOMAIN r : i + 1 \in DOMAIN s /\ r[i] = s[i + 1]
  BY <1>1, <1>2
<1>4. \A i \in DOMAIN s : i = 1 \/ (i - 1 \in DOMAIN r /\ r[i - 1] = s[i])
  BY <1>1, <1>2
<1>5. ASSUME \A i \in DOMAIN s : s[i].op # "use"
      PROVE  Leads(r, IF c.op = "use" THEN c.db ELSE from, d)
  <2>1. from = d
    BY <1>5 DEF Leads
  <2>2. c.op # "use"
    BY <1>1, <1>5 DEF c
  <2>3. \A i \in DOMAIN r : r[i].op # "use"
    BY <1>3, <1>5
  <2> QED
    BY <2>1, <2>2, <2>3 DEF Leads
<1>6. ASSUME NEW i \in DOMAIN s, s[i].op = "use", s[i].db = d,
             \A j \in DOMAIN s : j > i => s[j].op # "use"
      PROVE  Leads(r, IF c.op = "use" THEN c.db ELSE from, d)
  <2>0. i \in Nat
    BY <1>1
  <2>1. \A j \in DOMAIN r : j > i - 1 => r[j].op # "use"
    <3>1. \A j \in DOMAIN r : j \in Nat
      BY <1>1, <1>2
    <3>2. \A m, n \in Nat : m > n - 1 => m + 1 > n
      OBVIOUS
    <3> QED
      BY <1>3, <1>6, <2>0, <3>1, <3>2
  <2>2. CASE i = 1
    <3>1. \A j \in DOMAIN r : j > i - 1
      BY <1>1, <1>2, <2>2
    <3> QED
      BY <1>1, <1>6, <2>1, <2>2, <3>1 DEF Leads
  <2>3. CASE i # 1
    <3>1. i - 1 \in DOMAIN r /\ r[i - 1] = s[i]
      BY <1>4, <2>3
    <3> QED
      BY <1>6, <2>1, <3>1 DEF Leads
  <2> QED
    BY <2>2, <2>3
<1>7. \/ \A i \in DOMAIN s : s[i].op # "use"
      \/ \E i \in DOMAIN s : /\ s[i].op = "use" /\ s[i].db = d
                            /\ \A j \in DOMAIN s : j > i => s[j].op # "use"
  BY DEF Leads
<1>8. Leads(r, IF c.op = "use" THEN c.db ELSE from, d)
  BY <1>5, <1>6, <1>7
<1> QED
  BY <1>8 DEF r, c

\* Where no switch is, none comes from a line that is none, or from evaluating a line.
LEMMA NoSwitchWritten ==
  ASSUME NEW s \in Seq(Command), NEW c \in Command, c.op # "use",
         \A i \in DOMAIN s : s[i].op # "use"
  PROVE  \A i \in DOMAIN (s \o <<c>>) : (s \o <<c>>)[i].op # "use"
<1>1. /\ Len(s) \in Nat /\ DOMAIN s = 1..Len(s)
      /\ <<c>> \in Seq(Command) /\ Len(<<c>>) = 1 /\ <<c>>[1] = c
  BY LenProperties
<1>2. /\ s \o <<c>> \in Seq(Command) /\ Len(s \o <<c>>) = Len(s) + 1
      /\ \A i \in 1..(Len(s) + 1) : (s \o <<c>>)[i] = IF i <= Len(s) THEN s[i] ELSE <<c>>[i - Len(s)]
  BY <1>1, ConcatProperties
<1>3. DOMAIN (s \o <<c>>) = 1..(Len(s) + 1)
  BY <1>2, LenProperties
<1> QED
  BY <1>1, <1>2, <1>3

LEMMA NoSwitchEvaluated ==
  ASSUME NEW s \in Seq(Command), s # <<>>,
         \A i \in DOMAIN s : s[i].op # "use"
  PROVE  \A i \in DOMAIN Tail(s) : Tail(s)[i].op # "use"
<1>1. /\ Len(s) \in Nat \ {0} /\ DOMAIN s = 1..Len(s)
      /\ Tail(s) \in Seq(Command) /\ Len(Tail(s)) = Len(s) - 1
      /\ \A i \in 1..Len(Tail(s)) : Tail(s)[i] = s[i + 1]
  BY EmptySeq, LenProperties, HeadTailProperties
<1>2. DOMAIN Tail(s) = 1..(Len(s) - 1)
  BY <1>1, LenProperties
<1> QED
  BY <1>1, <1>2

\* Lines written to a process that runs.
LEMMA FollowsWrite ==
  ASSUME TypeOK, NEW c \in Command, Write(<<c>>), proc = "running",
         NEW d, UNCHANGED <<shellDb, strayed>>
  PROVE  /\ c.op # "use" /\ EndsIn(d) => Leads(stdin', IF strayed' THEN d ELSE shellDb', d)
         /\ c.op = "use" => Leads(stdin', IF strayed' THEN c.db ELSE shellDb', c.db)
<1>1. stdin' = stdin \o <<c>> /\ stdin \in Seq(Command)
  BY DEF TypeOK, Write
<1> QED
  BY <1>1, LeadsWritten DEF EndsIn

LEMMA InitDb == Init => DbInv
<1> SUFFICES ASSUME Init PROVE DbInv
  OBVIOUS
<1>1. RInv
  BY InitRInv
<1> QED
  BY <1>1 DEF DbInv, Init, ProcessIsReady, NoSwitchAfterFailure, CurrentIsOfCall, ProcessFollows, RunsAreAtHome, RunLines,
              RunsInRequestedDb

\* A running process has been started with its preamble, or has strayed.
LEMMA ReadyStep ==
  ASSUME DbInv, [Next]_vars
  PROVE  ProcessIsReady'
<1>a. ProcessIsReady /\ NoSwitchAfterFailure /\ TypeOK
  BY DEF DbInv, RInv, IInv
<1>1. CASE StartOk
  BY <1>1 DEF StartOk, Spawned, ProcessIsReady
<1>2. CASE StartFails
  <2>1. proc' = "none" \/ strayed'
    BY <1>2 DEF StartFails, Spawned
  <2> QED
    BY <2>1 DEF ProcessIsReady
<1>3. CASE ShellStep
  <2>1. /\ stdin \in Seq(Command) /\ stdin # <<>> /\ proc = "running"
        /\ proc' = proc /\ failed' = failed
    BY <1>3, <1>a DEF ShellStep, engineVars, TypeOK
  <2>2. 1 \in DOMAIN stdin /\ Head(stdin) = stdin[1]
    BY <2>1, EmptySeq, LenProperties, TailInSeq
  <2>3. failed => Head(stdin).op # "use"
    BY <1>a, <2>2 DEF NoSwitchAfterFailure
  <2>4. /\ loaded => loaded'
        /\ strayed' \/ ~strayed \/ (Head(stdin).op = "use" /\ loaded)
    BY <1>3 DEF ShellStep
  <2> QED
    BY <1>a, <2>1, <2>3, <2>4 DEF ProcessIsReady
<1>4. CASE ReInit \/ Replace
  BY <1>4, <1>a DEF ReInit, Replace, ProcessIsReady, shellVars
<1>5. CASE UNCHANGED <<loaded, failed, strayed>> /\ (proc' = proc \/ proc' = "exited")
  BY <1>5, <1>a DEF ProcessIsReady
<1> QED
  BY <1>1, <1>2, <1>3, <1>4, <1>5
     DEF Next, EngineStep, Caller, Switch, SendPrepare, ReadSome, UseEnds, PingEnds, CompleteEnds,
         Prepared, PrepareFails, RunAnswers, RunTimesOut, Interrupt, RunFails, Exec, Complete, Ping,
         ShellExit, vars, shellVars, engineVars

\* After a start that failed the next call starts the process anew.
LEMMA NoSwitchStep ==
  ASSUME DbInv, [Next]_vars
  PROVE  NoSwitchAfterFailure'
<1> SUFFICES ASSUME failed'
             PROVE  /\ pc' \in {"idle", "start", "complete", "ping"}
                    /\ \A i \in DOMAIN stdin' : stdin'[i].op # "use"
  BY DEF NoSwitchAfterFailure
<1>a. NoSwitchAfterFailure /\ TypeOK
  BY DEF DbInv, RInv, IInv
<1>b. stdin \in Seq(Command) /\ lastId + 1 \in Nat
  BY <1>a DEF TypeOK
<1>1. CASE StartFails
  <2>1. PICK t \in {<<>>, <<Cmd("load", 0)>>} : stdin' = t
    BY <1>1 DEF StartFails, Spawned
  <2>2. \A i \in DOMAIN t : t[i].op # "use"
    BY DEF Cmd
  <2> QED
    BY <1>1, <2>1, <2>2 DEF StartFails, Answer
<1>2. CASE StartOk \/ ReInit \/ Replace
  BY <1>2 DEF StartOk, ReInit, Replace
<1>c. CASE ~(StartFails \/ StartOk \/ ReInit \/ Replace)
  <2>1. failed
    BY <1>c DEF Next, EngineStep, Caller, Switch, SendPrepare, ReadSome, UseEnds, PingEnds,
                CompleteEnds, Prepared, PrepareFails, RunAnswers, RunTimesOut, RunFails, Exec,
                Complete, Ping, ShellStep, ShellExit, vars, engineVars
  <2>2. /\ pc \in {"idle", "start", "complete", "ping"}
        /\ \A i \in DOMAIN stdin : stdin[i].op # "use"
    BY <1>a, <2>1 DEF NoSwitchAfterFailure
  <2>3. CASE Complete \/ Ping
    <3>1. PICK c \in {Cmd("complete", lastId + 1), Cmd("ping", 0)} : Write(<<c>>)
      BY <2>3 DEF Complete, Ping
    <3>2. c \in Command /\ c.op # "use"
      BY <1>b DEF Cmd, Command, Ops, AnyDb
    <3>3. stdin' = stdin \o <<c>>
      BY <2>3, <3>1 DEF Complete, Ping, Write
    <3> QED
      BY <1>b, <2>2, <2>3, <3>2, <3>3, NoSwitchWritten DEF Complete, Ping
  <2>4. CASE ShellStep
    <3>1. stdin' = Tail(stdin) /\ stdin # <<>> /\ pc' = pc
      BY <2>4 DEF ShellStep, engineVars
    <3> QED
      BY <1>b, <2>2, <3>1, NoSwitchEvaluated
  <2>5. CASE pc' \in {pc, "idle", "start"} /\ stdin' \in {stdin, <<>>}
    BY <2>2, <2>5
  <2> QED
    BY <1>c, <2>1, <2>2, <2>3, <2>4, <2>5
       DEF Next, EngineStep, Caller, Switch, SendPrepare, ReadSome, Reading, UseEnds, PingEnds,
           CompleteEnds, Prepared, PrepareFails, RunAnswers, RunTimesOut, RunFails, Exec,
           ShellExit, Answer, vars, shellVars, engineVars
<1> QED
  BY <1>1, <1>2, <1>c

\* _currentDb changes in the switch only, while a call is in progress.
LEMMA CurrentStep ==
  ASSUME DbInv, [Next]_vars
  PROVE  CurrentIsOfCall'
<1>a. CurrentIsOfCall
  BY DEF DbInv
<1>1. CASE SendPrepare
  <2>1. CASE pc' = "prep"
    <3>1. call' = [call EXCEPT !.id = lastId + 1] /\ currentDb' = currentDb /\ pc = "send"
      BY <1>1, <2>1 DEF SendPrepare, Answer
    <3>2. call'.db = call.db
      BY <3>1 DEF DbInv, RInv, IInv, TypeOK
    <3> QED
      BY <1>a, <3>1, <3>2 DEF CurrentIsOfCall
  <2>2. CASE pc' # "prep"
    BY <1>1, <2>2 DEF SendPrepare, Answer, CurrentIsOfCall
  <2> QED
    BY <2>1, <2>2
<1>2. CASE Switch
  BY <1>2 DEF Switch, CurrentIsOfCall
<1>3. CASE pc' \notin {"use", "send", "prep", "run"}
  BY <1>3 DEF CurrentIsOfCall
<1>4. CASE pc \in {"use", "send", "prep", "run"} /\ UNCHANGED <<call, currentDb>>
  BY <1>a, <1>4 DEF CurrentIsOfCall
<1> QED
  BY <1>1, <1>2, <1>3, <1>4, <1>a
     DEF Next, EngineStep, Caller, StartOk, StartFails, ReadSome, UseEnds, PingEnds, CompleteEnds,
         Prepared, PrepareFails, RunAnswers, RunTimesOut, RunFails, Exec, Complete, Ping, ReInit,
         Replace, ShellStep, ShellExit, Answer, vars, shellVars, engineVars, CurrentIsOfCall

\* What is in the pipe leads to _currentDb, whenever it is evaluated.
LEMMA FollowsStep ==
  ASSUME DbInv, [Next]_vars
  PROVE  ProcessFollows'
<1>a. /\ TypeOK /\ CallIsOfExec /\ PrepareIsLast /\ RunsAreIssued
      /\ ProcessIsReady /\ CurrentIsOfCall /\ ProcessFollows
  BY DEF DbInv, RInv, IInv
<1>b. stdin \in Seq(Command) /\ lastId + 1 \in Nat
  BY <1>a DEF TypeOK
<1>c. ProcessFollows' <=> (proc' = "running" =>
        \/ Leads(stdin', IF strayed' THEN currentDb' ELSE shellDb', currentDb')
        \/ pc' = "switch" /\ Leads(stdin', IF strayed' THEN call'.db ELSE shellDb', call'.db))
  BY DEF ProcessFollows, EndsIn
<1>1. CASE StartOk
  <2>1. PICK t \in {<<>>, <<Cmd("warm", 0)>>} : stdin' = t
    BY <1>1 DEF StartOk, Spawned
  <2>2. shellDb' = call.db /\ call' = call /\ pc' = "switch"
    BY <1>1 DEF StartOk, Spawned
  <2>3. \A i \in DOMAIN t : t[i].op # "use"
    BY DEF Cmd
  <2>4. Leads(stdin', IF strayed' THEN call'.db ELSE shellDb', call'.db)
    BY <2>1, <2>2, <2>3 DEF Leads
  <2> QED
    BY <1>c, <2>2, <2>4
<1>2. CASE StartFails /\ proc' = "running"
  <2>1. strayed'
    BY <1>2 DEF StartFails, Spawned
  <2>2. PICK t \in {<<>>, <<Cmd("load", 0)>>} : stdin' = t
    BY <1>2 DEF StartFails, Spawned
  <2>3. \A i \in DOMAIN t : t[i].op # "use"
    BY DEF Cmd
  <2> QED
    BY <1>c, <2>1, <2>2, <2>3 DEF Leads
<1>3. CASE Switch /\ proc = "running"
  <2>0. UNCHANGED <<shellDb, strayed>>
    BY <1>3 DEF Switch
  <2>1. CASE call.db # currentDb
    <3> DEFINE c == [Cmd("use", 0) EXCEPT !.db = call.db]
    <3>1. c \in Command /\ c.op = "use" /\ c.db = call.db
      BY <1>3, <1>a DEF Switch, CallIsOfExec, Cmd, Command, Ops, AnyDb
    <3>2. Write(<<c>>) /\ currentDb' = call.db
      BY <1>3, <2>1 DEF Switch
    <3> HIDE DEF c
    <3>3. Leads(stdin', IF strayed' THEN call.db ELSE shellDb', call.db)
      BY <1>3, <1>a, <2>0, <3>1, <3>2, FollowsWrite
    <3> QED
      BY <1>c, <3>2, <3>3
  <2>2. CASE call.db = currentDb
    <3>1. UNCHANGED <<stdin, currentDb>>
      BY <1>3, <2>2 DEF Switch
    <3> QED
      BY <1>3, <1>a, <1>c, <2>0, <2>2, <3>1 DEF ProcessFollows, EndsIn
  <2> QED
    BY <2>1, <2>2
<1>4. CASE SendPrepare /\ proc = "running"
  <2> DEFINE c == [Cmd("prep", lastId + 1) EXCEPT !.script = call.script]
  <2>1. c \in Command /\ c.op # "use"
    BY <1>4, <1>a, <1>b DEF SendPrepare, CallIsOfExec, Cmd, Command, Ops, AnyDb
  <2>2. Write(<<c>>) /\ UNCHANGED <<currentDb, shellDb, strayed>> /\ pc = "send"
    BY <1>4 DEF SendPrepare
  <2> HIDE DEF c
  <2>3. EndsIn(currentDb)
    BY <1>4, <1>a, <2>2 DEF ProcessFollows
  <2>4. Leads(stdin', IF strayed' THEN currentDb ELSE shellDb', currentDb)
    BY <1>4, <1>a, <2>1, <2>2, <2>3, FollowsWrite
  <2> QED
    BY <1>c, <2>2, <2>4
<1>5. CASE Complete \/ Ping
  <2>1. PICK c \in {Cmd("complete", lastId + 1), Cmd("ping", 0)} : Write(<<c>>)
    BY <1>5 DEF Complete, Ping
  <2>2. c \in Command /\ c.op # "use"
    BY <1>b DEF Cmd, Command, Ops, AnyDb
  <2>3. UNCHANGED <<currentDb, shellDb, strayed>> /\ pc = "idle" /\ proc = "running"
    BY <1>5 DEF Complete, Ping
  <2>4. EndsIn(currentDb)
    BY <1>a, <2>3 DEF ProcessFollows
  <2>5. Leads(stdin', IF strayed' THEN currentDb ELSE shellDb', currentDb)
    BY <1>a, <2>1, <2>2, <2>3, <2>4, FollowsWrite
  <2> QED
    BY <1>c, <2>3, <2>5
<1>6. CASE Prepared
  <2> DEFINE R == [Cmd("run", call.id) EXCEPT !.script = call.script, !.db = call.db]
             E == Cmd("emit", call.id)
  <2>1. stdin = <<>> /\ proc = "running"
    BY <1>6, <1>a, PreparedIsEmpty DEF Prepared
  <2>2. stdin' = <<R, E>> /\ UNCHANGED <<shellDb, strayed, currentDb>> /\ pc = "prep"
    BY <1>6, <2>1 DEF Prepared, Write
  <2>3. R.op # "use" /\ E.op # "use"
    BY DEF Cmd
  <2>4. \A r, e : r.op # "use" /\ e.op # "use"
          => \A i \in DOMAIN <<r, e>> : <<r, e>>[i].op # "use"
    OBVIOUS
  <2> HIDE DEF R, E
  <2>5. \A i \in DOMAIN stdin' : stdin'[i].op # "use"
    BY <2>2, <2>3, <2>4
  <2>6. strayed \/ shellDb = currentDb
    BY <1>a, <2>1, <2>2 DEF ProcessFollows, EndsIn, Leads
  <2> QED
    BY <1>c, <2>2, <2>5, <2>6 DEF Leads
<1>7. CASE ShellStep
  <2> DEFINE c == Head(stdin)
  <2>1. /\ stdin # <<>> /\ proc = "running" /\ stdin' = Tail(stdin)
        /\ UNCHANGED <<pc, call, currentDb>>
    BY <1>7 DEF ShellStep, engineVars
  <2>2. ~strayed => loaded
    BY <1>a, <2>1 DEF ProcessIsReady
  <2>3. ~strayed' => shellDb' = IF c.op = "use" THEN c.db ELSE shellDb
    BY <1>7, <2>2 DEF ShellStep
  <2>4. ~strayed' /\ strayed => c.op = "use"
    BY <1>7 DEF ShellStep
  <2> HIDE DEF c
  <2>5. ASSUME NEW d, EndsIn(d)
        PROVE  Leads(stdin', IF strayed' THEN d ELSE shellDb', d)
    <3>1. Leads(stdin', IF c.op = "use" THEN c.db ELSE IF strayed THEN d ELSE shellDb, d)
      BY <1>b, <2>1, <2>5, LeadsEvaluated DEF EndsIn, c
    <3>2. CASE strayed'
      BY <3>1, <3>2 DEF Leads
    <3>3. CASE ~strayed'
      BY <2>3, <2>4, <3>1, <3>3
    <3> QED
      BY <3>2, <3>3
  <2> QED
    BY <1>a, <1>c, <2>1, <2>5 DEF ProcessFollows
<1>8. CASE RunTimesOut
  <2>1. /\ pc = "run" /\ UNCHANGED <<shellDb, strayed, currentDb>>
        /\ proc' = "running" => proc = "running"
    BY <1>8 DEF RunTimesOut, Interrupt
  <2>2. proc = "running" => EndsIn(currentDb)
    BY <1>a, <2>1 DEF ProcessFollows
  <2>3. CASE stdin' = stdin
    BY <1>c, <2>1, <2>2, <2>3 DEF EndsIn
  <2>4. CASE proc' = "running" /\ stdin # <<>> /\ Head(stdin).op = "run" /\ stdin' = Tail(stdin)
    <3>1. Leads(stdin', IF strayed THEN currentDb ELSE shellDb, currentDb)
      BY <1>b, <2>1, <2>2, <2>4, LeadsEvaluated DEF EndsIn
    <3> QED
      BY <1>c, <2>1, <3>1
  <2>5. CASE proc' # "running"
    BY <1>c, <2>5
  <2> QED
    BY <1>8, <2>3, <2>4, <2>5 DEF RunTimesOut, Interrupt
<1>9. CASE ReInit /\ proc = "running"
  <2>1. failed /\ pc = "idle" /\ UNCHANGED <<proc, stdin, strayed>>
    BY <1>9 DEF ReInit, shellVars
  <2>2. strayed /\ \A i \in DOMAIN stdin : stdin[i].op # "use"
    BY <1>9, <1>a, <2>1 DEF ProcessIsReady, DbInv, NoSwitchAfterFailure
  <2> QED
    BY <1>c, <2>1, <2>2 DEF Leads
<1>10. CASE proc' # "running"
  BY <1>10, <1>c
<1>11. CASE /\ pc # "switch" /\ proc' = proc
            /\ UNCHANGED <<stdin, shellDb, currentDb, strayed>>
  BY <1>11, <1>a, <1>c DEF ProcessFollows, EndsIn
<1>12. CASE UNCHANGED vars
  BY <1>12, <1>a, <1>c DEF ProcessFollows, EndsIn, vars
<1>13. Replace \/ ShellExit => proc' # "running"
  BY DEF Replace, ShellExit
<1>14. Switch \/ SendPrepare \/ ReInit => proc' = proc
  BY DEF Switch, SendPrepare, ReInit, shellVars
<1>15. ReadSome \/ UseEnds \/ PingEnds \/ CompleteEnds \/ PrepareFails \/ RunAnswers \/ RunFails
         => pc # "switch" /\ proc' = proc /\ UNCHANGED <<stdin, shellDb, currentDb, strayed>>
  BY DEF ReadSome, Reading, UseEnds, PingEnds, CompleteEnds, PrepareFails, RunAnswers, RunFails,
         shellVars
<1>16. (\E s \in Scripts, d \in Dbs : Exec(s, d))
         => pc # "switch" /\ proc' = proc /\ UNCHANGED <<stdin, shellDb, currentDb, strayed>>
  BY DEF Exec, shellVars
<1>17. CASE Switch \/ SendPrepare \/ ReInit
  BY <1>3, <1>4, <1>9, <1>10, <1>14, <1>17
<1> QED
  BY <1>1, <1>2, <1>5, <1>6, <1>7, <1>8, <1>10, <1>11, <1>12, <1>13, <1>15, <1>16, <1>17
     DEF Next, EngineStep, Caller

\* A script is written when the pipe is empty, to a process that is in its database, and
\* nothing comes between.
LEMMA AtHomeStep ==
  ASSUME DbInv, [Next]_vars
  PROVE  RunsAreAtHome' /\ RunsInRequestedDb'
<1>a. /\ TypeOK /\ CallIsOfExec /\ PrepareIsLast /\ RunsAreIssued
      /\ CurrentIsOfCall /\ ProcessFollows /\ RunsAreAtHome /\ RunsInRequestedDb
  BY DEF DbInv, RInv, IInv
<1>1. CASE Prepared
  <2> DEFINE R == [Cmd("run", call.id) EXCEPT !.script = call.script, !.db = call.db]
             E == Cmd("emit", call.id)
  <2>1. stdin = <<>> /\ proc = "running" /\ pc = "prep"
    BY <1>1, <1>a, PreparedIsEmpty DEF Prepared
  <2>2. stdin' = <<R, E>> /\ UNCHANGED <<shellDb, ran, strayed>>
    BY <1>1, <2>1 DEF Prepared, Write
  <2>3. R.db = call.db
    BY DEF Cmd
  <2>4. RunLines' = {1}
    BY <1>1, <1>a, PreparedWrites
  <2>5. ~strayed => shellDb = call.db
    BY <1>a, <2>1 DEF ProcessFollows, EndsIn, CurrentIsOfCall, Leads
  <2>6. \A r, e : <<r, e>>[1] = r
    OBVIOUS
  <2> HIDE DEF R, E
  <2>7. ~strayed' => stdin'[1].db = shellDb'
    BY <2>2, <2>3, <2>5, <2>6
  <2> QED
    BY <1>a, <2>2, <2>4, <2>7 DEF RunsAreAtHome, RunsInRequestedDb
<1>2. CASE ShellStep
  <2> DEFINE c == Head(stdin)
             r == [id |-> c.id, want |-> c.db, in |-> shellDb, strayed |-> strayed]
  <2>1. /\ stdin \in Seq(Command) /\ stdin # <<>>
        /\ ran' = IF c.op = "run" THEN Append(ran, r) ELSE ran
    BY <1>2, <1>a DEF TypeOK, ShellStep
  <2>2. RunLines' = {}
    BY <1>2, <1>a, ShellRuns
  <2>3. c.op = "run" => r.strayed \/ r.want = r.in
    <3>1. 1 \in DOMAIN stdin /\ c = stdin[1]
      BY <2>1, EmptySeq, LenProperties, TailInSeq
    <3> QED
      BY <1>a, <3>1 DEF RunsAreAtHome, RunLines
  <2>4. c.op = "run" => \A i \in DOMAIN ran' : ran'[i] = r \/ \E j \in DOMAIN ran : ran'[i] = ran[j]
    <3>1. r \in [id : Nat, want : AnyDb, in : AnyDb, strayed : BOOLEAN]
      BY <1>a, <2>1, TailInSeq DEF TypeOK, Command
    <3>2. ran \in Seq([id : Nat, want : AnyDb, in : AnyDb, strayed : BOOLEAN])
      BY <1>a DEF TypeOK
    <3> HIDE DEF r
    <3> SUFFICES ASSUME c.op = "run" PROVE \A i \in DOMAIN ran' : ran'[i] = r \/ \E j \in DOMAIN ran : ran'[i] = ran[j]
      OBVIOUS
    <3>3. ran' = Append(ran, r)
      BY <2>1, Zenon
    <3> QED
      <4>1. PICK x \in [id : Nat, want : AnyDb, in : AnyDb, strayed : BOOLEAN] : x = r
        BY <3>1, Zenon
      <4>2. \A i \in DOMAIN Append(ran, x) : Append(ran, x)[i] = x \/ \E j \in DOMAIN ran : Append(ran, x)[i] = ran[j]
        BY <3>2, AppendElements
      <4> QED
        BY <3>3, <4>1, <4>2, Zenon
  <2>5. RunsInRequestedDb'
    <3> HIDE DEF r
    <3> QED
      BY <1>a, <2>1, <2>3, <2>4 DEF RunsInRequestedDb
  <2> QED
    BY <2>2, <2>5 DEF RunsAreAtHome
<1>3. CASE ~ShellStep /\ ~Prepared
  <2>1. RunsOnlyGo /\ ran' = ran
    BY <1>3, <1>a, RunsStay
  <2>2. RunLines' = {} \/ UNCHANGED <<shellDb, strayed>>
    <3>1. ASSUME StartOk \/ StartFails PROVE RunLines' = {}
      <4>1. \E state \in {"running", "none"}, ready \in BOOLEAN,
               t \in {<<>>, <<Cmd("warm", 0)>>, <<Cmd("load", 0)>>} : Spawned(state, ready, t)
        BY <3>1 DEF StartOk, StartFails
      <4>2. PICK t \in {<<>>, <<Cmd("warm", 0)>>, <<Cmd("load", 0)>>} : stdin' = t
        BY <4>1 DEF Spawned
      <4> QED
        BY <4>2 DEF RunLines, Cmd
    <3>2. Replace => RunLines' = {}
      BY DEF Replace, RunLines
    <3> QED
      BY <1>3, <3>1, <3>2
         DEF Next, EngineStep, Caller, Switch, SendPrepare, ReadSome, UseEnds, PingEnds,
             CompleteEnds, PrepareFails, RunAnswers, RunTimesOut, RunFails, Exec, Complete, Ping,
             ReInit, ShellExit, vars, shellVars
  <2> QED
    BY <1>a, <2>1, <2>2 DEF RunsAreAtHome, RunsOnlyGo, RunsInRequestedDb
<1> QED
  BY <1>1, <1>2, <1>3

LEMMA DbInductive == DbInv /\ [Next]_vars => DbInv'
<1> SUFFICES ASSUME DbInv, [Next]_vars PROVE DbInv'
  OBVIOUS
<1>1. RInv'
  BY RInductive DEF DbInv
<1> QED
  BY <1>1, ReadyStep, NoSwitchStep, CurrentStep, FollowsStep, AtHomeStep DEF DbInv

\* MongoShell.cpp:42-44 and MongoshEngine.cpp:88-98: every script runs in the database its
\* call asked for, though the switch is sent only when the database differs, its answer is
\* not waited for beyond a deadline, and processes die and are started in between; unless a
\* script, or a start that failed late, has left the process elsewhere since the last switch.
THEOREM RunsInTheirDb == Spec => []RunsInRequestedDb
<1>1. DbInv => RunsInRequestedDb
  BY DEF DbInv
<1> QED
  BY <1>1, InitDb, DbInductive, PTL DEF Spec
-----------------------------------------------------------------------------
\* The refinement.

\* Every step of the engine or of the process is a step of ScriptCall, or changes nothing it
\* speaks of.
LEMMA StepImplements ==
  ASSUME RInv, [Next]_vars
  PROVE  [Calls!Next]_Calls!vars
<1> DEFINE Open == IF pc \in {"prep", "run"} THEN call.id ELSE 0
           Effects == [i \in DOMAIN ran |-> ran[i].id]
           Ended == IF answer.kind \in {"results", "truncated"} THEN answer.id ELSE 0
<1>a. /\ TypeOK /\ CallIsOfExec /\ AnswerIsLast /\ RunsAreIssued /\ OpenIsIssued
  BY DEF RInv, IInv
<1>b. NoAnswer.kind \notin {"results", "truncated"}
  BY DEF NoAnswer
<1>1. CASE ShellStep
  <2>1. UNCHANGED <<lastId, Open, Ended>>
    BY <1>1 DEF ShellStep, engineVars
  <2>2. CASE ran' = ran
    BY <2>1, <2>2 DEF Calls!vars
  <2>3. ASSUME NEW r \in [id : Nat, want : AnyDb, in : AnyDb, strayed : BOOLEAN], ran' = Append(ran, r),
               RunLines = {1}, r.id = stdin[1].id
        PROVE  Calls!Effect
    <3>1. r.id \in 1..lastId /\ ~HasRun(r.id)
      BY <1>a, <2>3 DEF RunsAreIssued
    <3>2. Effects' = Append(Effects, r.id)
      <4>1. Len(ran) \in Nat /\ DOMAIN ran = 1..Len(ran)
        BY <1>a, LenProperties DEF TypeOK
      <4> QED
        BY <2>3, <4>1
    <3>3. \A j \in DOMAIN Effects : Effects[j] # r.id
      BY <3>1 DEF HasRun
    <3> QED
      BY <2>1, <3>1, <3>2, <3>3 DEF Calls!Effect
  <2> QED
    BY <1>1, <1>a, <2>2, <2>3, ShellRuns DEF Calls!Next
<1>2. CASE ran' = ran /\ answer' # answer /\ answer'.kind \in {"results", "truncated"}
  <2>1. /\ pc = "run" /\ pc' = "idle"
        /\ answer'.id = call.id /\ HasRun(call.id) /\ lastId' = lastId
    BY <1>2, EndsAfterRun
  <2> QED
    BY <1>2, <2>1 DEF Calls!Next, Calls!EndWithResults, HasRun
<1>3. CASE SendPrepare
  <2>1. Open = 0 /\ ran' = ran /\ lastId' = lastId + 1 /\ lastId \in Nat
    BY <1>3, <1>a DEF SendPrepare, TypeOK
  <2>2. Open' \in {0, lastId'} /\ Ended' = 0
    BY <1>3, <1>a, <1>b DEF SendPrepare, Answer, TypeOK, AnswerIsLast
  <2> QED
    BY <2>1, <2>2 DEF Calls!Next, Calls!Issue
<1>4. CASE Complete
  BY <1>4, <1>b DEF Complete, Calls!Next, Calls!Issue
<1>5. CASE PrepareFails \/ RunTimesOut \/ (RunFails /\ Answer("error", 0))
  BY <1>5, <1>a DEF PrepareFails, RunTimesOut, RunFails, Answer, OpenIsIssued, shellVars,
                    Calls!Next, Calls!EndWithout
<1>6. CASE /\ pc \notin {"prep", "run"} /\ pc' \notin {"prep", "run"}
           /\ ran' = ran /\ lastId' = lastId
           /\ answer' = answer \/ answer'.kind \notin {"results", "truncated"}
  BY <1>6 DEF Calls!Next, Calls!Forget, Calls!vars
<1>7. CASE /\ UNCHANGED <<ran, lastId, call, answer>>
            /\ pc' \in {pc, "run"} /\ (pc' # pc => pc = "prep")
  BY <1>7 DEF Calls!vars
<1>8. CASE Prepared
  BY <1>7, <1>8 DEF Prepared
<1>9. CASE RunAnswers \/ RunFails
  <2>1. answer = NoAnswer /\ ran' = ran
    BY <1>9, <1>a DEF RunAnswers, RunFails, AnswerIsLast, shellVars
  <2>2. \/ RunFails /\ Answer("error", 0)
        \/ \E f : \E kind \in {"results", "truncated"} : Answer(kind, f)
    BY <1>9 DEF RunAnswers, RunFails
  <2>3. CASE \E f : \E kind \in {"results", "truncated"} : Answer(kind, f)
    BY <1>2, <1>b, <2>1, <2>3 DEF Answer
  <2> QED
    BY <1>5, <2>2, <2>3
<1>10. CASE StartOk \/ StartFails \/ Switch \/ UseEnds \/ PingEnds \/ CompleteEnds
  BY <1>6, <1>10 DEF StartOk, StartFails, Switch, UseEnds, PingEnds, CompleteEnds, Answer, Spawned,
                     shellVars
<1>11. CASE \/ Ping \/ ReInit \/ Replace
             \/ \E s \in Scripts, d \in Dbs : Exec(s, d)
  BY <1>6, <1>11, <1>b DEF Exec, Ping, ReInit, Replace, shellVars
<1>12. CASE ReadSome \/ ShellExit \/ UNCHANGED vars
  BY <1>7, <1>12 DEF ReadSome, ShellExit, vars, engineVars
<1> QED
  BY <1>1, <1>3, <1>4, <1>5, <1>8, <1>9, <1>10, <1>11, <1>12 DEF Next, EngineStep, Caller

\* MongoshEngine.h:33-35: behind deadlines, leftovers in the pipe and processes that die,
\* the engine is a script engine: for every number of calls, an execution takes effect at most
\* once, not before it was issued, and before its results are answered.
THEOREM EngineImplements == Spec => ImplementsScriptCall
<1>1. Init => Calls!Init
  BY DEF Init, NoAnswer, Calls!Init
<1>2. RInv /\ [Next]_vars => [Calls!Next]_Calls!vars
  BY StepImplements
<1> QED
  BY <1>1, <1>2, InitRInv, RInductive, PTL DEF Spec, ImplementsScriptCall, Calls!Spec
=============================================================================
