------------------------------ MODULE WorkArea ------------------------------
(***************************************************************************)
(* The tabs of the main window (gui/widgets/workarea/WorkAreaTabWidget.cpp *)
(* and WorkAreaTabBar.cpp), the script each query tab edits, runs, loads   *)
(* and saves (QueryWidget.cpp, core/domain/MongoShell.cpp, ScriptInfo.cpp),*)
(* the confirmation of writes (gui/utils/DialogUtils.cpp) and the Execute  *)
(* and Stop buttons all tabs share (gui/MainWindow.cpp).                   *)
(*                                                                         *)
(* What a run shows is in QueryTab, which server runs it is in Shells.     *)
(* All tabs are of one connection, whose environment is guarded.           *)
(***************************************************************************)
EXTENDS Naturals, Integers, Sequences, SequencesExt, FiniteSetsExt

CONSTANTS Scripts,  \* what an editor may hold
          ScopeOf,  \* ScopeOf[s]: "none", "single" or "multi", ScriptClassifier::classify()
          AutoExec, \* "Automatically execute code in new tab"
          WarnOnSingle, \* SettingsManager::warnOnSingleDocOps()
          Files, NoFile,
          MaxTabs,  \* bound on the query tabs opened
          MaxEdits, \* bound on the changes of the text, by hand or from a file, and on the saves
          MaxExecutions   \* bound on the scripts sent

ASSUME WorkAssumption ==
  /\ ScopeOf \in [Scripts -> {"none", "single", "multi"}]
  /\ NoFile \notin Files
  /\ AutoExec \in BOOLEAN /\ WarnOnSingle \in BOOLEAN
  /\ MaxTabs \in Nat /\ MaxEdits \in Nat /\ MaxExecutions \in Nat

\* The pages that are no query tab.
Welcome == -1
History == -2

VARIABLES strip,     \* the pages of the tab bar: Welcome, History or the number of a shell
          current,   \* the current page, 0 if there is none
          shells,    \* the shells opened, with their query widgets
          disk,      \* what the script files hold
          buttons,   \* whether Execute and Stop are enabled
          confirm,   \* confirmDestructiveOps()
          edits,     \* changes and saves of texts so far
          sent,      \* scripts sent so far
          abandoned, \* a running tab was closed, and no script has ended since
          unasked    \* scripts the safety net covers that ran without a question

workVars == <<strip, current, shells, disk, buttons, confirm, edits, sent, abandoned, unasked>>

NoScript == "empty"
Texts == Scripts \cup {NoScript}
\* of is what the title of the tab names: "opening" until the first update.
Title == [star : BOOLEAN, of : Files \cup Texts \cup {"opening"}]
\* script is ScriptInfo::_script, changed is _isTextChanged; synced is the text last saved
\* to the file or loaded from it, running the scripts not answered yet.
Shell == [open : BOOLEAN, text : Texts, script : Texts, file : Files \cup {NoFile},
          changed : BOOLEAN, title : Title, executing : BOOLEAN, running : Nat, synced : Texts]

WorkInit ==
  /\ strip \in {<<Welcome>>, <<>>}
  /\ current = Len(strip)
  /\ shells = <<>>
  /\ disk = [f \in Files |-> NoScript]
  /\ buttons = [execute |-> TRUE, stop |-> FALSE]
  /\ confirm = TRUE
  /\ edits = 0 /\ sent = 0 /\ abandoned = FALSE /\ unasked = {}

Pages == ToSet(strip)
CurrentShell == IF current > 0 /\ strip[current] > 0 THEN strip[current] ELSE 0
Place(page) == CHOOSE i \in DOMAIN strip : strip[i] = page

\* ScriptClassifier::classify().
Scope(script) == IF script = NoScript THEN "none" ELSE ScopeOf[script]

\* utils::confirmGuardedWrite(): whether the user has to be asked.
MustAsk(script) ==
  /\ confirm
  /\ \/ Scope(script) = "multi"
     \/ Scope(script) = "single" /\ WarnOnSingle

\* QueryWidget::updateCurrentTab().
Titled(sh) ==
  [sh EXCEPT !.title = [star |-> sh.changed,
                        of |-> IF sh.file # NoFile THEN sh.file ELSE sh.script]]

\* MainWindow::handle(ScriptExecutingEvent).
Executing == buttons' = [execute |-> FALSE, stop |-> TRUE]

\* MainWindow::handle(ScriptExecutedEvent): of any tab.
Executed == buttons' = [execute |-> TRUE, stop |-> FALSE] /\ abandoned' = FALSE

\* App::openShell(), WorkAreaTabWidget::handle(OpeningShellEvent), MongoShell::execute():
\* the new tab becomes the current one; a script it is to execute is sent at once.
OpenShell(script, execute) ==
  LET n == Len(shells) + 1
      opened == [open |-> TRUE, text |-> script, script |-> script, file |-> NoFile,
                 changed |-> FALSE, title |-> [star |-> FALSE, of |-> "opening"],
                 executing |-> execute, running |-> IF execute THEN 1 ELSE 0,
                 synced |-> NoScript]
  IN /\ n <= MaxTabs
     /\ shells' = Append(shells, opened)
     /\ strip' = Append(strip, n) /\ current' = Len(strip) + 1
     /\ IF execute
        THEN /\ sent < MaxExecutions /\ sent' = sent + 1
             /\ Executing
             /\ unasked' = IF MustAsk(script) THEN unasked \cup {script} ELSE unasked
        ELSE UNCHANGED <<sent, buttons, unasked>>
     /\ UNCHANGED <<disk, confirm, edits, abandoned>>

\* From the explorer: a query or the template of a command, run at once or not; from the
\* history, never run.
OpenTab(script, execute) ==
  /\ execute => Scope(script) = "none"
  /\ OpenShell(script, execute)

\* QueryWidget::duplicate(), openNewTab(): the selected text in a new tab.
DuplicateTab ==
  /\ CurrentShell > 0
  /\ OpenShell(shells[CurrentShell].text, AutoExec)

\* Where Qt goes when a page is removed: to its right neighbour, else to the left one.
AfterRemoval(i) == IF i < current \/ current = Len(strip) THEN current - 1 ELSE current

\* The query widgets of the pages in closed are deleted, and so are their shells, without
\* a question; an answer on its way to them is dropped.
Deleted(closed) ==
  /\ shells' = [n \in DOMAIN shells |->
                 IF n \in closed
                 THEN [shells[n] EXCEPT !.open = FALSE, !.running = 0, !.executing = FALSE]
                 ELSE shells[n]]
  /\ abandoned' = (abandoned \/ \E n \in closed \cap Nat : shells[n].running > 0)

\* WorkAreaTabWidget::closeTab(), Ctrl+W: the welcome and the history page are only taken
\* off the bar.
CloseTab(i) ==
  /\ i \in DOMAIN strip
  /\ strip' = RemoveAt(strip, i) /\ current' = AfterRemoval(i)
  /\ Deleted({strip[i]})
  /\ UNCHANGED <<disk, buttons, confirm, edits, sent, unasked>>

\* ui_closeOtherTabsRequested(): the page is moved to the front and the second one closed
\* as long as there is one.  The welcome page has no menu.
CloseOthers(i) ==
  /\ i \in DOMAIN strip /\ strip[i] # Welcome /\ Len(strip) > 1
  /\ strip' = <<strip[i]>> /\ current' = 1
  /\ Deleted(Pages \ {strip[i]})
  /\ UNCHANGED <<disk, buttons, confirm, edits, sent, unasked>>

\* ui_closeTabsToTheRightRequested().
CloseRight(i) ==
  /\ i \in DOMAIN strip /\ strip[i] # Welcome /\ i < Len(strip)
  /\ strip' = SubSeq(strip, 1, i)
  /\ current' = IF current > i THEN i ELSE current
  /\ Deleted({strip[j] : j \in i + 1 .. Len(strip)})
  /\ UNCHANGED <<disk, buttons, confirm, edits, sent, unasked>>

GoTo(i) ==
  /\ i \in DOMAIN strip /\ current' = i
  /\ UNCHANGED <<strip, shells, disk, buttons, confirm, edits, sent, abandoned, unasked>>

\* nextTab(), previousTab(): around the ends.
NextTab == current > 0 /\ GoTo(IF current = Len(strip) THEN 1 ELSE current + 1)
PreviousTab == current > 0 /\ GoTo(IF current = 1 THEN Len(strip) ELSE current - 1)

\* openQueryHistoryTab(): one page, put back on the bar if it is not there.
OpenHistory ==
  /\ strip' = IF History \in Pages THEN strip ELSE Append(strip, History)
  /\ current' = IF History \in Pages THEN Place(History) ELSE Len(strip) + 1
  /\ UNCHANGED <<shells, disk, buttons, confirm, edits, sent, abandoned, unasked>>

\* openWelcomeTab(): put back as the first page, or refreshed in its place.
OpenWelcome ==
  /\ strip' = IF Welcome \in Pages THEN strip ELSE <<Welcome>> \o strip
  /\ current' = IF Welcome \in Pages THEN Place(Welcome) ELSE 1
  /\ UNCHANGED <<shells, disk, buttons, confirm, edits, sent, abandoned, unasked>>

EditTab(n, sh) ==
  /\ edits < MaxEdits /\ edits' = edits + 1
  /\ shells' = [shells EXCEPT ![n] = sh]
  /\ UNCHANGED <<strip, current, disk, confirm, abandoned, unasked>>

\* QueryWidget::textChange().
Edit(text) ==
  /\ CurrentShell > 0 /\ shells[CurrentShell].text # text
  /\ EditTab(CurrentShell, Titled([shells[CurrentShell] EXCEPT !.text = text, !.changed = TRUE]))
  /\ UNCHANGED <<buttons, sent>>

\* QueryWidget::execute(), MongoShell::open(): the text or the selection, which becomes the
\* script of the shell.  answer is what the user says if asked: "proceed", "never" (proceed
\* and do not ask again) or "cancel".  The button needs to be enabled, the shortcuts of the
\* tab bar (Ctrl+R, Ctrl+Enter) do not.
Execute(script, answer) ==
  LET n == CurrentShell IN
  /\ n > 0 /\ sent < MaxExecutions
  /\ MustAsk(script) \/ answer = "proceed"
  /\ IF answer = "cancel" THEN UNCHANGED workVars
     ELSE /\ shells' = [shells EXCEPT ![n].script = script, ![n].executing = TRUE,
                                      ![n].running = @ + 1]
          /\ confirm' = (confirm /\ answer # "never")
          /\ Executing /\ sent' = sent + 1
          /\ UNCHANGED <<strip, current, disk, edits, abandoned, unasked>>

\* MongoShell::handle(ExecuteScriptResponse), QueryWidget::handle(ScriptExecutedEvent).
HandleExecuted(n) ==
  /\ n \in DOMAIN shells /\ shells[n].open /\ shells[n].running > 0
  /\ shells' = [shells EXCEPT ![n] = Titled([shells[n] EXCEPT !.running = @ - 1, !.executing = FALSE])]
  /\ Executed
  /\ UNCHANGED <<strip, current, disk, confirm, edits, sent, unasked>>

\* Mutant: the star goes though the file could not be written.
WriteToAnyway(file, ok) ==
  LET sh == [shells[CurrentShell] EXCEPT !.script = @, !.changed = FALSE,
                                         !.file = IF ok THEN file ELSE @,
                                         !.synced = IF ok THEN shells[CurrentShell].text ELSE @]
  IN /\ shells' = [shells EXCEPT ![CurrentShell] = Titled(sh)]
     /\ disk' = IF ok THEN [disk EXCEPT ![file] = sh.text] ELSE disk

\* ScriptInfo::saveToFileText(), QueryWidget::saveToFile(), savebToFileAs(): the script of
\* the shell becomes the editor's text even if the file cannot be written.
WriteTo(file, ok) ==
  LET kept == [shells[CurrentShell] EXCEPT !.script = shells[CurrentShell].text]
      saved == [kept EXCEPT !.file = file, !.changed = FALSE, !.synced = kept.text]
  IN /\ shells' = [shells EXCEPT ![CurrentShell] = IF ok THEN Titled(saved) ELSE kept]
     /\ disk' = IF ok THEN [disk EXCEPT ![file] = kept.text] ELSE disk

\* Save, to the file of the tab or, if it has none, to the one the user picks; Save As.
SaveScript(file, ok) ==
  /\ CurrentShell > 0
  /\ edits < MaxEdits /\ edits' = edits + 1
  /\ WriteTo(file, ok)
  /\ UNCHANGED <<strip, current, buttons, confirm, sent, abandoned, unasked>>

\* QueryWidget::openFile(): what the editor held is replaced without a question.
OpenFile(file) ==
  /\ CurrentShell > 0
  /\ EditTab(CurrentShell, Titled([shells[CurrentShell] EXCEPT
       !.text = disk[file], !.script = disk[file], !.file = file, !.changed = FALSE,
       !.synced = disk[file]]))
  /\ UNCHANGED <<buttons, sent>>

WorkUser ==
  \/ \E s \in Texts, e \in BOOLEAN : OpenTab(s, e)
  \/ DuplicateTab
  \/ \E i \in DOMAIN strip : CloseTab(i) \/ CloseOthers(i) \/ CloseRight(i)
  \/ NextTab \/ PreviousTab
  \/ OpenHistory \/ OpenWelcome
  \/ \E s \in Texts : Edit(s)
  \/ \E a \in {"proceed", "never", "cancel"} :
       CurrentShell > 0 /\ Execute(shells[CurrentShell].text, a)
  \/ \E f \in Files, ok \in BOOLEAN : SaveScript(f, ok)
  \/ \E f \in Files : OpenFile(f)

WorkAnswers == \E n \in DOMAIN shells : HandleExecuted(n)

WorkNext == WorkUser \/ WorkAnswers

\* Every script is answered (MongoshEngine), and the answers are handled.
WorkSpec == WorkInit /\ [][WorkNext]_workVars /\ WF_workVars(WorkAnswers)
-----------------------------------------------------------------------------
\* Every variable stays in its type; no page is in the bar twice, the history and the
\* welcome page included.
WorkTypeOK ==
  /\ IsInjective(strip)
  /\ strip \in Seq({Welcome, History} \cup 1..MaxTabs)
  /\ current \in 0..Len(strip)
  /\ current = 0 <=> strip = <<>>
  /\ shells \in Seq(Shell)
  /\ disk \in [Files -> Texts]
  /\ buttons \in [execute : BOOLEAN, stop : BOOLEAN]
  /\ confirm \in BOOLEAN
  /\ edits \in 0..MaxEdits /\ sent \in 0..MaxExecutions /\ abandoned \in BOOLEAN /\ unasked \subseteq Scripts

\* WorkAreaTabWidget.cpp:102-110, 165-181: the query tabs of the bar are the shells alive, in
\* whatever order tabs are closed, closed around one and opened again.
TabsAreShells == Pages \cap Nat = {n \in DOMAIN shells : shells[n].open}

\* QueryWidget.cpp:182-214, :516: a tab of a file whose title has no star holds what it last
\* saved to the file or loaded from it.
StarTellsUnsaved ==
  \A n \in DOMAIN shells :
    shells[n].open /\ shells[n].file # NoFile /\ ~shells[n].title.star =>
      shells[n].text = shells[n].synced

\* MainWindow.cpp:1162-1172: Execute is greyed out only while some script runs, as long as
\* no tab was closed with its script.
ExecuteIsForRunning ==
  ~buttons.execute /\ ~abandoned => \E n \in DOMAIN shells : shells[n].running > 0

\* README.md:25-26, "Tag connections by environment ... and get a confirmation prompt before
\* destructive writes on guarded ones": no script the safety net covers is sent unasked.
\* (The program does not keep this: README.)
WritesAreConfirmed == unasked = {}

\* The tabs, their titles and the buttons tell what the shells are.
WorkAreaIsSound == WorkTypeOK /\ TabsAreShells /\ StarTellsUnsaved /\ ExecuteIsForRunning
=============================================================================
