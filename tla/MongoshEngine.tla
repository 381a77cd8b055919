---------------------------- MODULE MongoshEngine ----------------------------
(***************************************************************************)
(* The engine that runs scripts in a persistent mongosh process            *)
(* (core/engine/MongoshEngine.cpp).  It writes one line at a time to the   *)
(* process, which answers in order on one pipe with sentinel-framed text;  *)
(* every read has a deadline, and what a read left behind is still in the  *)
(* pipe for the next one.  The process side is resources/                  *)
(* mongosh_preamble.js run by mongosh's REPL.                              *)
(*                                                                         *)
(* A command of the pipe is [op, id, arg, want], a piece of its output is  *)
(* [k, id]: id is the execution (or completion) that asked for it.         *)
(***************************************************************************)
EXTENDS Naturals, Sequences

CONSTANTS Dbs, DefaultDb,   \* databases; the connection's default one
          Scripts,          \* user scripts
          Malformed,        \* the scripts the preamble's parse check refuses
          SwitchesTo,       \* SwitchesTo[s]: database a `use' statement of s selects, or NoDb
          NoDb,
          PreambleMayFail,  \* whether load() of the preamble may fail or be late
          MaxId             \* bound on the executions and completions

ASSUME EngineAssumption ==
  /\ DefaultDb \in Dbs /\ NoDb \notin Dbs
  /\ Malformed \subseteq Scripts
  /\ SwitchesTo \in [Scripts -> Dbs \cup {NoDb}]
  /\ PreambleMayFail \in BOOLEAN
  /\ MaxId \in Nat

VARIABLES proc,      \* _proc: "none", "running", "exited" (state() # Running)
          loaded,    \* the process has evaluated the preamble
          stdin,     \* lines written to the process and not evaluated
          stdout,    \* output of the process and not read
          shellDb,   \* `db' of the process
          ran,       \* executions of user scripts the process has completed
          strayed,   \* history: `db' of this process was left elsewhere by a script, or by a start
                     \* that failed late, and no __robo_use() has moved it since
          failed,    \* _failed
          currentDb, \* _currentDb
          lastId,    \* the counter of makeExecId()
          pc,        \* where the call in progress is
          call,      \* the call in progress: script, database, id
          acc,       \* `accumulated' of the readUntil() in progress
          answer     \* what the last call returned

shellVars == <<proc, loaded, stdin, stdout, shellDb, ran, strayed>>
engineVars == <<failed, currentDb, lastId, pc, call, acc, answer>>
vars == <<proc, loaded, stdin, stdout, shellDb, ran, strayed,
          failed, currentDb, lastId, pc, call, acc, answer>>

Kinds == {"useok", "pong", "list", "prep", "badprep", "start", "end"}
Token == [k : Kinds, id : Nat]
Ops == {"load", "warm", "use", "ping", "complete", "prep", "run", "emit"}
AnyDb == Dbs \cup {NoDb}
Command == {c \in [op : Ops, id : Nat, script : Scripts \cup {NoDb}, db : AnyDb] :
              c.op = "run" => c.script \in Scripts}

Tok(k, id) == [k |-> k, id |-> id]
Cmd(op, id) == [op |-> op, id |-> id, script |-> NoDb, db |-> NoDb]
\* Mutant: sentinels are compared without their id.
HasAnyId(s, k, id) == \E i \in DOMAIN s : s[i].k = k

Has(s, k, id) == \E i \in DOMAIN s : s[i] = Tok(k, id)

NoCall == [script |-> NoDb, db |-> NoDb, id |-> 0]
NoAnswer == [kind |-> "none", id |-> 0, frame |-> 0]

Init ==
  /\ proc = "none" /\ loaded = FALSE
  /\ stdin = <<>> /\ stdout = <<>> /\ shellDb = NoDb
  /\ ran = <<>> /\ strayed = FALSE
  /\ failed = FALSE /\ currentDb = DefaultDb /\ lastId = 0
  /\ pc = "idle" /\ acc = <<>>
  /\ call = NoCall /\ answer = NoAnswer
-----------------------------------------------------------------------------
\* The mongosh process.

\* The sentinels one line prints.  The prompt that follows every line is left
\* out here (see RunFails); a line that calls a function of the preamble before it
\* is loaded prints an error only.
Output(c) ==
  IF ~loaded THEN <<>>
  ELSE CASE c.op = "use"      -> <<Tok("useok", 0)>>
         [] c.op = "ping"     -> <<Tok("pong", 0)>>
         [] c.op = "complete" -> <<Tok("list", c.id)>>
         [] c.op = "prep"     -> <<Tok(IF c.script \in Malformed THEN "badprep" ELSE "prep", c.id)>>
         [] c.op \in {"emit", "warm"} -> <<Tok("start", c.id), Tok("end", c.id)>>
         [] OTHER -> <<>>

\* The process evaluates its next line.  A run of a user script takes effect in
\* `db'; a `use' statement in it is rewritten to an assignment of `db'.
ShellStep ==
  /\ proc = "running" /\ stdin # <<>>
  /\ LET c == Head(stdin) IN
     /\ stdin' = Tail(stdin)
     /\ stdout' = stdout \o Output(c)
     /\ loaded' = (loaded \/ c.op = "load")
     /\ shellDb' = IF c.op = "use" /\ loaded THEN c.db
                   ELSE IF c.op = "run" /\ SwitchesTo[c.script] # NoDb THEN SwitchesTo[c.script]
                   ELSE shellDb
     /\ ran' = IF c.op = "run"
               THEN Append(ran, [id |-> c.id, want |-> c.db, in |-> shellDb, strayed |-> strayed])
               ELSE ran
     /\ strayed' = IF c.op = "use" /\ loaded THEN FALSE
                   ELSE strayed \/ (c.op = "run" /\ SwitchesTo[c.script] \notin {NoDb, shellDb})
  /\ UNCHANGED <<proc, engineVars>>

\* mongosh exits or crashes; what it had printed can still be read.
ShellExit ==
  /\ proc = "running"
  /\ proc' = "exited"
  /\ stdin' = <<>>
  /\ UNCHANGED <<loaded, stdout, shellDb, ran, strayed, engineVars>>
-----------------------------------------------------------------------------
\* The engine.

\* send(): writes only to a running process.
Write(cmds) == stdin' = IF proc = "running" THEN stdin \o cmds ELSE stdin

Answer(kind, frame) ==
  /\ answer' = [kind |-> kind, id |-> call.id, frame |-> frame]
  /\ pc' = "idle"
  /\ call' = NoCall
  /\ acc' = <<>>

\* exec() is called; mongosh is (re)started first when it is not running.
Exec(s, d) ==
  /\ pc = "idle" /\ lastId < MaxId
  /\ call' = [script |-> s, db |-> d, id |-> 0]
  /\ answer' = NoAnswer
  /\ pc' = IF failed \/ proc # "running" THEN "start" ELSE "switch"
  /\ UNCHANGED <<shellVars, failed, currentDb, lastId, acc>>

\* stopProcess(): what the old process had to do or to say is gone.
Spawned(state, ready, cmds) ==
  /\ proc' = state /\ loaded' = ready
  /\ stdin' = cmds /\ stdout' = <<>>
  /\ shellDb' = IF state = "running" THEN call.db ELSE NoDb
  /\ strayed' = (state = "running" /\ ~ready)
  /\ UNCHANGED ran

\* startProcess() succeeds; the throwaway query of warmUp() may still be running.
StartOk ==
  /\ pc = "start"
  /\ \E rest \in {<<>>, <<Cmd("warm", 0)>>} : Spawned("running", TRUE, rest)
  /\ failed' = FALSE
  /\ pc' = "switch"
  /\ UNCHANGED <<currentDb, lastId, call, acc, answer>>

\* It fails: no process or no prompt (the process is stopped), or the preamble
\* cannot be written or is not ready in time (the process is left running).
StartFails ==
  /\ pc = "start"
  /\ \/ Spawned("none", FALSE, <<>>)
     \/ /\ PreambleMayFail
        /\ \E rest \in {<<>>, <<Cmd("load", 0)>>} : Spawned("running", FALSE, rest)
  /\ failed' = TRUE
  /\ Answer("error", 0)
  /\ UNCHANGED <<currentDb, lastId>>

\* Mutant: _currentDb is set and the process is not told.
SwitchNotSent ==
  /\ pc = "switch"
  /\ acc' = <<>> /\ currentDb' = call.db /\ pc' = "send"
  /\ UNCHANGED <<shellVars, failed, lastId, call, answer>>

\* __robo_use() is sent when the call's database is not _currentDb.
Switch ==
  /\ pc = "switch"
  /\ acc' = <<>>
  /\ IF call.db # currentDb
     THEN /\ currentDb' = call.db
          /\ Write(<<[Cmd("use", 0) EXCEPT !.db = call.db]>>)
          /\ pc' = "use"
     ELSE /\ pc' = "send"
          /\ UNCHANGED <<currentDb, stdin>>
  /\ UNCHANGED <<proc, loaded, stdout, shellDb, ran, strayed, failed, lastId, call, answer>>

\* Phase 1: __robo_prepare() with a fresh id.
SendPrepare ==
  /\ pc = "send"
  /\ lastId' = lastId + 1
  /\ Write(<<[Cmd("prep", lastId + 1) EXCEPT !.script = call.script]>>)
  /\ IF proc = "running"
     THEN /\ call' = [call EXCEPT !.id = lastId + 1]
          /\ pc' = "prep" /\ acc' = <<>>
          /\ UNCHANGED answer
     ELSE Answer("error", 0)
  /\ UNCHANGED <<proc, loaded, stdout, shellDb, ran, strayed, failed, currentDb>>

\* The sentinel each readUntil() waits for.
Awaited ==
  CASE pc = "use"      -> Has(acc, "useok", 0)
    [] pc = "ping"     -> Has(acc, "pong", 0)
    [] pc = "complete" -> \E i \in DOMAIN acc : acc[i].k = "list"
    [] pc = "prep"     -> Has(acc, "prep", call.id) \/ Has(acc, "badprep", call.id)
    [] pc = "run"      -> Has(acc, "end", call.id)
    [] OTHER           -> FALSE

Reading == pc \in {"use", "ping", "complete", "prep", "run"}

\* waitForReadyRead() and readAll(): whatever has arrived is taken.
ReadSome ==
  /\ Reading /\ ~Awaited
  /\ \E n \in 1..Len(stdout) :
       /\ acc' = acc \o SubSeq(stdout, 1, n)
       /\ stdout' = SubSeq(stdout, n + 1, Len(stdout))
  /\ UNCHANGED <<proc, loaded, stdin, shellDb, ran, strayed,
                 failed, currentDb, lastId, pc, call, answer>>

\* Mutant: the read after __robo_use() has no deadline.
UseWaitsForever ==
  /\ pc = "use" /\ Awaited
  /\ pc' = "send" /\ acc' = <<>>
  /\ UNCHANGED <<shellVars, failed, currentDb, lastId, call, answer>>

\* readUntil() of `use', ping() or complete() ends, by its sentinel, its deadline
\* or the end of the process.
UseEnds ==
  /\ pc = "use"
  /\ pc' = "send" /\ acc' = <<>>
  /\ UNCHANGED <<shellVars, failed, currentDb, lastId, call, answer>>

PingEnds ==
  /\ pc = "ping"
  /\ Answer("pong", 0)
  /\ UNCHANGED <<shellVars, failed, currentDb, lastId>>

\* indexOf(): i is the place of the first sentinel of a kind.
FirstOf(s, k, i) == i \in DOMAIN s /\ s[i].k = k /\ \A j \in 1..(i - 1) : s[j].k # k

CompleteEnds ==
  /\ pc = "complete"
  /\ \/ \E i \in DOMAIN acc : FirstOf(acc, "list", i) /\ Answer("list", acc[i].id)
     \/ ~Awaited /\ Answer("nolist", 0)
  /\ UNCHANGED <<shellVars, failed, currentDb, lastId>>

\* Mutant: the parse error reported by __robo_prepare() is not looked at.
PreparedUnchecked ==
  /\ pc = "prep" /\ Awaited /\ proc = "running"
  /\ Write(<<[Cmd("run", call.id) EXCEPT !.script = call.script, !.db = call.db],
             Cmd("emit", call.id)>>)
  /\ pc' = "run" /\ acc' = <<>>
  /\ UNCHANGED <<proc, loaded, stdout, shellDb, ran, strayed,
                 failed, currentDb, lastId, call, answer>>

\* Mutant: the line that runs the script is written twice.
PreparedTwice ==
  /\ pc = "prep" /\ Has(acc, "prep", call.id) /\ proc = "running"
  /\ LET run == [Cmd("run", call.id) EXCEPT !.script = call.script, !.db = call.db]
     IN Write(<<run, run, Cmd("emit", call.id)>>)
  /\ pc' = "run" /\ acc' = <<>>
  /\ UNCHANGED <<proc, loaded, stdout, shellDb, ran, strayed,
                 failed, currentDb, lastId, call, answer>>

\* Phase 1 ends: the wrapped source is sent (phase 2), or the call fails.
Prepared ==
  /\ pc = "prep" /\ Has(acc, "prep", call.id) /\ proc = "running"
  /\ Write(<<[Cmd("run", call.id) EXCEPT !.script = call.script, !.db = call.db],
             Cmd("emit", call.id)>>)
  /\ pc' = "run" /\ acc' = <<>>
  /\ UNCHANGED <<proc, loaded, stdout, shellDb, ran, strayed,
                 failed, currentDb, lastId, call, answer>>

PrepareFails ==
  /\ pc = "prep"
  /\ ~(Has(acc, "prep", call.id) /\ proc = "running")
  /\ Answer("error", 0)
  /\ UNCHANGED <<shellVars, failed, currentDb, lastId>>

\* interrupt(): SIGINT aborts the line that is being evaluated (the emit line
\* after it still runs); the Windows build kills the process.
Interrupt ==
  \/ /\ proc = "running" /\ stdin # <<>> /\ Head(stdin).op = "run"
     /\ stdin' = Tail(stdin) /\ UNCHANGED proc
  \/ /\ proc = "running"
     /\ proc' = "exited" /\ stdin' = <<>>
  \/ /\ ~(proc = "running" /\ stdin # <<>> /\ Head(stdin).op = "run")
     /\ UNCHANGED <<proc, stdin>>

\* Phase 2 ends: a whole frame; or the deadline or the end of the process, with
\* nothing read (reported as a timeout), part of a frame, or no frame.  The prompt
\* printed after the prepare line may or may not have been read with it: the read
\* that has no sentinel at all is a timeout or a failure.
RunAnswers ==
  /\ pc = "run" /\ Awaited
  /\ \E i \in DOMAIN acc : FirstOf(acc, "start", i) /\ Answer("results", acc[i].id)
  /\ UNCHANGED <<shellVars, failed, currentDb, lastId>>

RunTimesOut ==
  /\ pc = "run" /\ acc = <<>>
  /\ Interrupt
  /\ Answer("timeout", 0)
  /\ UNCHANGED <<loaded, stdout, shellDb, ran, strayed, failed, currentDb, lastId>>

RunFails ==
  /\ pc = "run" /\ ~Awaited
  /\ \/ \E i \in DOMAIN acc : FirstOf(acc, "start", i) /\ Answer("truncated", acc[i].id)
     \/ (\A i \in DOMAIN acc : acc[i].k # "start") /\ Answer("error", 0)
  /\ UNCHANGED <<shellVars, failed, currentDb, lastId>>

\* complete() and ping() do nothing without a running process; their sentinels
\* carry no id.
Complete ==
  /\ pc = "idle" /\ lastId < MaxId /\ proc = "running"
  /\ lastId' = lastId + 1
  /\ call' = [script |-> NoDb, db |-> NoDb, id |-> lastId + 1]
  /\ Write(<<Cmd("complete", lastId + 1)>>)
  /\ pc' = "complete" /\ answer' = NoAnswer
  /\ UNCHANGED <<proc, loaded, stdout, shellDb, ran, strayed, failed, currentDb, acc>>

Ping ==
  /\ pc = "idle" /\ proc = "running"
  /\ \A i \in DOMAIN stdin : stdin[i].op # "ping"  \* bound: one ping in the pipe
  /\ ~Has(stdout, "pong", 0)
  /\ Write(<<Cmd("ping", 0)>>)
  /\ pc' = "ping" /\ answer' = NoAnswer
  /\ UNCHANGED <<proc, loaded, stdout, shellDb, ran, strayed, failed, currentDb, lastId, call, acc>>

\* init(): MongoWorker calls it again on an engine whose start failed.
ReInit ==
  /\ pc = "idle" /\ failed
  /\ failed' = FALSE
  /\ currentDb' = DefaultDb
  /\ UNCHANGED <<shellVars, lastId, pc, call, acc, answer>>

\* Mutant: the new engine is not told the default database.
ReplaceWithoutDb ==
  /\ pc = "idle"
  /\ proc' = "none" /\ loaded' = FALSE /\ stdin' = <<>> /\ stdout' = <<>> /\ shellDb' = NoDb
  /\ strayed' = FALSE /\ failed' = FALSE /\ currentDb' = NoDb
  /\ UNCHANGED <<ran, lastId, pc, call, acc, answer>>

\* MongoWorker::init() replaces the engine (a refreshed connection).
Replace ==
  /\ pc = "idle"
  /\ proc' = "none" /\ loaded' = FALSE /\ stdin' = <<>> /\ stdout' = <<>> /\ shellDb' = NoDb
  /\ strayed' = FALSE /\ failed' = FALSE /\ currentDb' = DefaultDb
  /\ UNCHANGED <<ran, lastId, pc, call, acc, answer>>

EngineStep ==
  \/ StartOk \/ StartFails \/ Switch \/ SendPrepare \/ ReadSome \/ UseEnds \/ PingEnds
  \/ CompleteEnds \/ Prepared \/ PrepareFails \/ RunAnswers \/ RunTimesOut \/ RunFails

Caller ==
  \/ \E s \in Scripts, d \in Dbs : Exec(s, d)
  \/ Complete \/ Ping \/ ReInit \/ Replace

Next == EngineStep \/ Caller \/ ShellStep \/ ShellExit

\* A call is made of waits with deadlines: its next step is always taken.
Spec == Init /\ [][Next]_vars /\ WF_vars(EngineStep)
-----------------------------------------------------------------------------
\* Every variable stays in its type.
TypeOK ==
  /\ proc \in {"none", "running", "exited"} /\ loaded \in BOOLEAN
  /\ stdin \in Seq(Command) /\ stdout \in Seq(Token)
  /\ shellDb \in AnyDb
  /\ ran \in Seq([id : Nat, want : AnyDb, in : AnyDb, strayed : BOOLEAN]) /\ strayed \in BOOLEAN
  /\ failed \in BOOLEAN /\ currentDb \in Dbs /\ lastId \in Nat
  /\ pc \in {"idle", "start", "switch", "use", "send", "prep", "run", "ping", "complete"}
  /\ call \in [script : Scripts \cup {NoDb}, db : AnyDb, id : Nat]
  /\ acc \in Seq(Token)
  /\ answer \in [kind : {"none", "results", "truncated", "timeout", "error", "pong", "list", "nolist"},
                 id : Nat, frame : Nat]

\* MongoshEngine.cpp:100-101 and 428-431: parseExecOutput() does not compare ids;
\* the frame it finds still is the one of this execution, never one that an
\* execution that timed out, or the warm-up, left in the pipe.
OwnFrame == answer.kind \in {"results", "truncated"} => answer.frame = answer.id

\* MongoshEngine.cpp:136-142: results are answered only for a script the process
\* has run to its end, and a script refused by the parse check is never run.
ResultsAreOfARun ==
  /\ answer.kind \in {"results", "truncated"} => \E i \in DOMAIN ran : ran[i].id = answer.id
  /\ \A i \in DOMAIN stdin : stdin[i].op = "run" => stdin[i].script \notin Malformed

\* MongoShell.cpp:42-44: "Carry the tab's own database explicitly so a server
\* shared across tabs (shareShellPerConnection) runs each query against the right
\* db": every script runs in the database its call asked for, though the switch is sent
\* only when the database differs, its answer may come late, and processes die; unless a
\* script or a late start has left the process elsewhere and no switch has moved it since.
RunsInRequestedDb == \A i \in DOMAIN ran : ran[i].strayed \/ ran[i].want = ran[i].in

\* MongoshEngine.cpp:154: "No result frame means the script never ran to
\* completion": after an error answer the script has not run, and does not later.
\* (The program does not keep this: README.)
ErrorMeansNotRun ==
  answer.kind = "error" => \A i \in DOMAIN ran : ran[i].id # answer.id

\* MongoshEngine.h:33-35: the engine is a script engine.
Calls == INSTANCE ScriptCall WITH
  issued  <- lastId,
  open    <- IF pc \in {"prep", "run"} THEN call.id ELSE 0,
  effects <- [i \in DOMAIN ran |-> ran[i].id],
  ended   <- IF answer.kind \in {"results", "truncated"} THEN answer.id ELSE 0

\* Behind its retried reads and leftovers in the pipe, an execution takes effect
\* at most once, never before it is issued, and before its results are answered.
ImplementsScriptCall == Calls!Spec

\* MongoshEngine.cpp:374-383: every read has a deadline, so every call returns,
\* whatever the process does.
CallsReturn == (pc # "idle") ~> (pc = "idle")
=============================================================================
