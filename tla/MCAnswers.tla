------------------------------ MODULE MCAnswers -----------------------------
(***************************************************************************)
(* Small instances of the parts of the window that wait for timers, the    *)
(* network, threads or the worker. The modules share no state, so each     *)
(* behaviour exercises one of them and leaves the others in one state.     *)
(***************************************************************************)
EXTENDS WindowFrame, Notices, Completion, ResultViews, ExplorerTree

VARIABLE waitsIn   \* the module whose steps a behaviour takes

-----------------------------------------------------------------------------
(* Words that share a first letter with each other and with a closed call. *)
MCKnown == {<<"a", "a">>, <<"d", "a", "(">>}
MCOnServer == {<<"d", "a">>, <<"d", "d">>}

-----------------------------------------------------------------------------
AnswersInit ==
  /\ waitsIn \in {"frame", "notices", "completion", "views", "tree"}
  /\ waitsIn = "frame" \/ wayland = FALSE
  /\ waitsIn = "notices" \/ (enabled = TRUE /\ online = TRUE)
  /\ waitsIn = "completion" \/ mode = "all"
  /\ waitsIn = "views" \/ (resultKind = "text" /\ query = [skip |-> 0, limit |-> 0])
  /\ waitsIn = "tree" \/ (kind = "single" /\ part = [f \in Folders |-> {}] /\ dbItems = <<>>)
  /\ FrameInit /\ NoticesInit /\ CompletionInit /\ ViewsInit /\ TreeInit

FrameOnly ==
  waitsIn = "frame" /\ UNCHANGED <<waitsIn, noticeVars, completionVars, viewVars, treeVars>>
NoticesOnly ==
  waitsIn = "notices" /\ UNCHANGED <<waitsIn, frameVars, completionVars, viewVars, treeVars>>
CompletionOnly ==
  waitsIn = "completion" /\ UNCHANGED <<waitsIn, frameVars, noticeVars, viewVars, treeVars>>
ViewsOnly ==
  waitsIn = "views" /\ UNCHANGED <<waitsIn, frameVars, noticeVars, completionVars, treeVars>>
TreeOnly ==
  waitsIn = "tree" /\ UNCHANGED <<waitsIn, frameVars, noticeVars, completionVars, viewVars>>

AnswersNext ==
  \/ FrameOnly /\ FrameNext
  \/ NoticesOnly /\ NoticesNext
  \/ CompletionOnly /\ CompletionNext
  \/ ViewsOnly /\ ViewsNext
  \/ TreeOnly /\ TreeNext

answersVars == <<waitsIn, frameVars, noticeVars, completionVars, viewVars, treeVars>>

\* The timers expire, the network and the worker answer, the threads go on and the event
\* loop delivers (FrameSpec, NoticesSpec, CompletionSpec, ViewsSpec, TreeSpec).
\* Within one module the kinds of answers are bounded, so that they take turns.
Answers ==
  \/ FrameOnly /\ FrameTimer
  \/ NoticesOnly /\ NetworkAnswers
  \/ CompletionOnly /\ CompletionAnswers
  \/ ViewsOnly /\ (Preparing \/ JsonPartReady)
  \/ TreeOnly /\ (Work \/ Deliver)

AnswersSpec == AnswersInit /\ [][AnswersNext]_answersVars /\ WF_answersVars(Answers)
-----------------------------------------------------------------------------
\* One module takes the steps of a behaviour, so the debts of the modules are stated together.
Owed(k) ==
  \/ waitsIn = "frame" /\ (IF k = 1 THEN collapsed ELSE LostMaximized)
  \/ waitsIn = "notices" /\ IsUnanswered(k)
  \/ waitsIn = "completion" /\ Waits(Tokens[k])
  \/ waitsIn = "views" /\ TextIsPartial
  \/ waitsIn = "tree" /\ IsLoading

\* What the window owes the user comes: a usable size and the maximized state, an answer to a
\* check for updates asked for by hand, the names of the server, the text of the page,
\* the children of a tree item.
\* (WindowFrame's collapsed and LostMaximized, Notices' IsUnanswered, Completion's Waits,
\* ResultViews' TextIsPartial, ExplorerTree's IsLoading.)
OwedComes ==
  \A k \in 1..2 : Owed(k) ~> (IF waitsIn = "completion" THEN HasNames(Tokens[k]) ELSE ~Owed(k))
=============================================================================
