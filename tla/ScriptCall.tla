------------------------------ MODULE ScriptCall ------------------------------
(***************************************************************************)
(* What a script engine promises MongoWorker, whatever it is made of: the  *)
(* interface of core/engine/MongoshEngine.h, as the worker's handlers of   *)
(* script requests rely on it.  One execution at a time is open; an        *)
(* execution takes effect at most once, and never before it is issued; it  *)
(* ends with results only after it took effect.  It is not promised that   *)
(* an execution that ended with an error or a timeout takes no effect,     *)
(* then or later.                                                          *)
(***************************************************************************)
EXTENDS Naturals, Sequences

VARIABLES issued,  \* number of ids given out
          open,    \* id of the execution in progress, 0 if none
          effects, \* ids of the executions that took effect, in order
          ended    \* the last execution that ended with results, 0 if none

vars == <<issued, open, effects, ended>>

Init == issued = 0 /\ open = 0 /\ effects = <<>> /\ ended = 0

\* An id is given out; the execution it is for may fail at once.
Issue ==
  /\ open = 0
  /\ issued' = issued + 1
  /\ open' \in {0, issued'}
  /\ ended' = 0
  /\ UNCHANGED effects

Effect ==
  /\ \E i \in 1..issued :
       /\ \A j \in DOMAIN effects : effects[j] # i
       /\ effects' = Append(effects, i)
  /\ UNCHANGED <<issued, open, ended>>

EndWithResults ==
  /\ \E j \in DOMAIN effects : effects[j] = open
  /\ ended' = open
  /\ open' = 0
  /\ UNCHANGED <<issued, effects>>

EndWithout ==
  /\ open # 0
  /\ open' = 0
  /\ ended' = 0
  /\ UNCHANGED <<issued, effects>>

\* The next call begins, and the last answer is gone.
Forget == open = 0 /\ ended' = 0 /\ UNCHANGED <<issued, open, effects>>

Next == Issue \/ Effect \/ EndWithResults \/ EndWithout \/ Forget

Spec == Init /\ [][Next]_vars
=============================================================================
