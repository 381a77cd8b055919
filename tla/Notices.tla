------------------------------- MODULE Notices -------------------------------
(***************************************************************************)
(* What the main window tells without being asked for it at that moment:   *)
(* the answers of the update checker (core/UpdateChecker.cpp) and the      *)
(* failures of connections (gui/MainWindow.cpp).                           *)
(*                                                                         *)
(* A message box runs a loop of its own: while it is open replies and      *)
(* events go on being handled, and only the box on top can be closed.  The *)
(* network and the release page are external.                              *)
(***************************************************************************)
EXTENDS Naturals, Integers, Sequences, SequencesExt, FiniteSetsExt

CONSTANTS Handles,  \* the handles of the servers, in the order they were opened
          MaxChecks \* bound on the checks for updates

ASSUME NoticesAssumption == Handles \subseteq Nat /\ MaxChecks \in Nat

VARIABLES checks,   \* the requests of the update checker
          updateBar, \* _updateBar is shown
          enabled,  \* checkForUpdates() of the settings
          online,   \* ~disableHttpsFeatures()
          failing,  \* ConnectionFailedEvents not handled yet: a bag of handles
          lastServerHandle,
          told,     \* the handles that failures were shown for, in order
          boxes     \* the message boxes open, the top one last

noticeVars == <<checks, updateBar, enabled, online, failing, lastServerHandle, told, boxes>>

Outcomes == {"error", "garbage", "older", "newer"}
\* answer is what the user saw of it.
Check == [byHand : BOOLEAN, pending : BOOLEAN, answer : {"none", "box", "banner"}]
\* The tunnel and the worker of a server may both report it.
Reports == 2

NoticesInit ==
  /\ checks = <<>> /\ updateBar = FALSE /\ enabled \in BOOLEAN /\ online \in BOOLEAN
  /\ failing = [h \in Handles |-> Reports]
  /\ lastServerHandle = -1 /\ told = <<>> /\ boxes = <<>>

\* UpdateChecker::checkForUpdate().
CheckForUpdate(byHand) ==
  /\ Len(checks) < MaxChecks
  /\ checks' = Append(checks, [byHand |-> byHand, pending |-> TRUE, answer |-> "none"])

\* The timer of the start, three seconds later: a box open does not hold it back.
CheckAtStart ==
  /\ enabled /\ online /\ checks = <<>>
  /\ CheckForUpdate(FALSE)
  /\ UNCHANGED <<updateBar, enabled, online, failing, lastServerHandle, told, boxes>>

\* toggleCheckUpdates().
ToggleCheckUpdates ==
  /\ boxes = <<>> /\ Len(checks) < MaxChecks
  /\ enabled' = ~enabled
  /\ IF enabled' /\ online THEN CheckForUpdate(FALSE) ELSE UNCHANGED checks
  /\ UNCHANGED <<updateBar, online, failing, lastServerHandle, told, boxes>>

\* checkForUpdatesNow().
CheckForUpdatesNow ==
  /\ boxes = <<>>
  /\ IF online THEN CheckForUpdate(TRUE) /\ UNCHANGED boxes
     ELSE boxes' = Append(boxes, "offline") /\ UNCHANGED checks
  /\ UNCHANGED <<updateBar, enabled, online, failing, lastServerHandle, told>>

\* The property of the reply.
IsByHand(i) == checks[i].byHand

\* Mutant: an answer that cannot be read is ignored.
OnReplySilent(i, outcome) ==
  /\ i \in DOMAIN checks /\ checks[i].pending
  /\ LET answer == IF outcome = "newer" THEN "banner"
                   ELSE IF IsByHand(i) /\ outcome # "garbage" THEN "box" ELSE "none" IN
       /\ checks' = [checks EXCEPT ![i].pending = FALSE, ![i].answer = answer]
       /\ updateBar' = (updateBar \/ answer = "banner")
       /\ boxes' = IF answer = "box" THEN Append(boxes, "update") ELSE boxes
  /\ UNCHANGED <<enabled, online, failing, lastServerHandle, told>>

\* UpdateChecker::onReply(), MainWindow::onUpToDate(), onUpdateCheckFailed() and
\* onUpdateAvailable(): the replies come in any order.
OnReply(i, outcome) ==
  /\ i \in DOMAIN checks /\ checks[i].pending
  /\ LET answer == IF outcome = "newer" THEN "banner" ELSE IF IsByHand(i) THEN "box" ELSE "none" IN
       /\ checks' = [checks EXCEPT ![i].pending = FALSE, ![i].answer = answer]
       /\ updateBar' = (updateBar \/ answer = "banner")
       /\ boxes' = IF answer = "box" THEN Append(boxes, "update") ELSE boxes
  /\ UNCHANGED <<enabled, online, failing, lastServerHandle, told>>

\* The dismiss button of the banner.
Dismiss ==
  /\ updateBar /\ boxes = <<>> /\ updateBar' = FALSE
  /\ UNCHANGED <<checks, enabled, online, failing, lastServerHandle, told, boxes>>

\* Mutant: one failure is enough.
IsOldOnce(h) == lastServerHandle # -1

\* A failure of a server shown already, or of one opened before it.
IsOld(h) == h <= lastServerHandle

\* handle(ConnectionFailedEvent), of a connection for the explorer: lastServerHandle is set
\* before the box opens.
ConnectionFailed(h) ==
  /\ failing[h] > 0 /\ failing' = [failing EXCEPT ![h] = @ - 1]
  /\ IF IsOld(h) THEN UNCHANGED <<lastServerHandle, told, boxes>>
     ELSE /\ lastServerHandle' = h
          /\ told' = Append(told, h)
          /\ boxes' = Append(boxes, "failure")
  /\ UNCHANGED <<checks, updateBar, enabled, online>>

CloseBox ==
  /\ boxes # <<>> /\ boxes' = Front(boxes)
  /\ UNCHANGED <<checks, updateBar, enabled, online, failing, lastServerHandle, told>>

NetworkAnswers == \E i \in 1..MaxChecks, outcome \in Outcomes : OnReply(i, outcome)

NoticesNext ==
  \/ CheckAtStart \/ ToggleCheckUpdates \/ CheckForUpdatesNow
  \/ NetworkAnswers
  \/ Dismiss
  \/ \E h \in Handles : ConnectionFailed(h)
  \/ CloseBox

\* A request ends some time, with a reply or an error.
NoticesSpec == NoticesInit /\ [][NoticesNext]_noticeVars /\ WF_noticeVars(NetworkAnswers)
-----------------------------------------------------------------------------
\* Every variable stays in its type, and failures are shown in the order of the servers.
NoticesTypeOK ==
  /\ checks \in Seq(Check) /\ Len(checks) <= MaxChecks
  /\ updateBar \in BOOLEAN /\ enabled \in BOOLEAN /\ online \in BOOLEAN
  /\ failing \in [Handles -> 0..Reports]
  /\ lastServerHandle \in Handles \cup {-1}
  /\ \A i, j \in DOMAIN told : i < j => told[i] <= told[j]
  /\ boxes \in Seq({"offline", "update", "failure"})

\* UpdateChecker.cpp:42-44: however many checks are under way, one that the program made by
\* itself never opens a box.
SilentChecksAreSilent ==
  \A i \in DOMAIN checks : checks[i].answer = "box" => checks[i].byHand

\* MainWindow.cpp:1555-1556, "userInitiated: also report": who asked gets an answer.
IsUnanswered(i) == i \in DOMAIN checks /\ checks[i].byHand /\ checks[i].answer = "none"

\* MainWindow.cpp:1152-1158: a server that fails in the tunnel and in the worker is shown
\* once, even if the second report comes while the box of the first is open.
OneBoxPerServer == IsInjective(told)

\* MainWindow.cpp:1155: the failure of the newest server of those handled is shown.
NewestFailureIsShown ==
  \A h \in Handles :
    failing[h] < Reports /\ (\A g \in Handles : failing[g] < Reports => g <= h) => h \in ToSet(told)

\* "to prevent multiple connection error messages": of several servers each is shown.
\* (The program does not keep this: README.)
EachFailureIsShown == \A h \in Handles : failing[h] < Reports => h \in ToSet(told)

\* A box opens for what the user asked for and once per failing server, the newest included.
NoticesAreSound == NoticesTypeOK /\ SilentChecksAreSilent /\ OneBoxPerServer /\ NewestFailureIsShown
=============================================================================
