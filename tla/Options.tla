------------------------------- MODULE Options -------------------------------
(***************************************************************************)
(* What the user sets while the program runs: the Options menu             *)
(* (gui/MainWindow.cpp), the preferences (gui/dialogs/PreferencesDialog    *)
(* .cpp), the shell timeout (gui/dialogs/ChangeShellTimeoutDialog.cpp) and *)
(* where it has to arrive: the file, the marks of the menu, the shortcuts  *)
(* of the connections menu and the engines of the workers that run.        *)
(*                                                                         *)
(* One choice of several (view mode, time zone, UUID encoding, completion  *)
(* mode) stands for all of them, and one check mark, the one that has an   *)
(* effect elsewhere, for all check marks.                                  *)
(***************************************************************************)
EXTENDS Naturals, Sequences, SequencesExt

CONSTANTS Modes,      \* the values of a choice
          Timeouts,   \* the shell timeouts
          NoEngine,
          MaxServers, \* bound on the servers opened
          MaxChanges  \* bound on what is set

ASSUME OptionsAssumption ==
  NoEngine \notin Timeouts /\ MaxServers \in Nat /\ MaxChanges \in Nat

VARIABLES setting,   \* the settings in memory
          saved,     \* the settings in the file
          marks,     \* what the Options menu shows
          shortcuts, \* the connections menu has shortcuts
          listed,    \* App::_servers
          running,        \* the program runs
          changes,   \* settings changed so far
          elsewhere  \* a choice or a mark was changed not by the menu since the start

optionVars == <<setting, saved, marks, shortcuts, listed, running, changes, elsewhere>>

Settings == [mode : Modes, off : BOOLEAN, timeout : Timeouts]
\* made is the timeout MongoServer::runWorkerThread() gave the worker, engine that of its
\* engine; missed: the timeout was changed before the engine was there.
Server == [null : BOOLEAN, made : Timeouts, engine : Timeouts \cup {NoEngine}, missed : BOOLEAN]

Shown == [mode |-> setting.mode, off |-> setting.off]

OptionsInit ==
  /\ setting \in Settings /\ setting.off = FALSE
  /\ saved = setting /\ marks = Shown /\ shortcuts = ~setting.off
  /\ listed = <<>> /\ running = TRUE /\ changes = 0 /\ elsewhere = FALSE

ChangeSetting == running /\ changes < MaxChanges /\ changes' = changes + 1

\* enterTextMode(), setUtcTimeZone() and the others of their kind: an exclusive action.
ChooseMode(m) ==
  /\ ChangeSetting
  /\ setting' = [setting EXCEPT !.mode = m] /\ saved' = setting'
  /\ marks' = [marks EXCEPT !.mode = m]
  /\ UNCHANGED <<shortcuts, listed, running, elsewhere>>

\* setDisableConnectionShortcuts(): the mark has changed before the slot reads it.
Toggle ==
  /\ ChangeSetting
  /\ marks' = [marks EXCEPT !.off = ~@]
  /\ setting' = [setting EXCEPT !.off = marks'.off] /\ saved' = setting'
  /\ shortcuts' = ~setting'.off
  /\ UNCHANGED <<listed, running, elsewhere>>

\* PreferencesDialog::accept(): the menus are not told.
Preferences(m, off) ==
  /\ ChangeSetting
  /\ setting' = [setting EXCEPT !.mode = m, !.off = off] /\ saved' = setting'
  /\ elsewhere' = (elsewhere \/ setting' # setting)
  /\ UNCHANGED <<marks, shortcuts, listed, running>>

\* ConnectionsDialog and manageConnections(): an import overwrites the settings, and what the
\* dialog did is saved when it is left.
ManageConnections(m, off) ==
  /\ ChangeSetting
  /\ setting' = [setting EXCEPT !.mode = m, !.off = off] /\ saved' = setting'
  /\ elsewhere' = (elsewhere \/ setting' # setting)
  /\ shortcuts' = ~off
  /\ UNCHANGED <<marks, listed, running>>

Started == [null |-> FALSE, made |-> setting.timeout, engine |-> NoEngine, missed |-> FALSE]

\* App::openServer(): for a server behind a tunnel openServerInternal() returns none, and
\* that is what is kept.
OpenServer(tunnelled) ==
  /\ running /\ Len(listed) < MaxServers
  /\ listed' = Append(listed, [Started EXCEPT !.null = tunnelled])
  /\ UNCHANGED <<setting, saved, marks, shortcuts, running, changes, elsewhere>>

\* App::handle(EstablishSshConnectionResponse): the server is added once the tunnel is up.
TunnelUp ==
  /\ running /\ Len(listed) < MaxServers /\ \E i \in DOMAIN listed : listed[i].null
  /\ listed' = Append(listed, Started)
  /\ UNCHANGED <<setting, saved, marks, shortcuts, running, changes, elsewhere>>

\* MongoWorker::init(): once the server has answered.
StartEngine(i) ==
  /\ running /\ i \in DOMAIN listed /\ ~listed[i].null /\ listed[i].engine = NoEngine
  /\ listed' = [listed EXCEPT ![i].engine = listed[i].made]
  /\ UNCHANGED <<setting, saved, marks, shortcuts, running, changes, elsewhere>>

\* App::closeServer(): a null entry stays.
EndServer(i) ==
  /\ running /\ i \in DOMAIN listed /\ ~listed[i].null
  /\ listed' = RemoveAt(listed, i)
  /\ UNCHANGED <<setting, saved, marks, shortcuts, running, changes, elsewhere>>

\* MongoServer::changeWorkerShellTimeout(), MongoWorker::changeTimeout(): nothing without
\* an engine.
WithTimeout(s, t) ==
  IF s.engine = NoEngine THEN [s EXCEPT !.missed = (s.made # t)]
  ELSE [s EXCEPT !.engine = t, !.missed = FALSE]

\* Mutant: only what is opened later gets the timeout.
ChangeShellTimeoutLater(t) ==
  /\ ChangeSetting
  /\ setting' = [setting EXCEPT !.timeout = t] /\ saved' = setting'
  /\ UNCHANGED <<listed, running, marks, shortcuts, elsewhere>>

\* changeShellTimeoutDialog(): saved, then every server of the list is told; the program
\* dies at an entry that is null.
ChangeShellTimeout(t) ==
  LET nulls == {i \in DOMAIN listed : listed[i].null}
      first == IF nulls = {} THEN Len(listed) + 1 ELSE CHOOSE i \in nulls : \A j \in nulls : i <= j IN
  /\ ChangeSetting
  /\ setting' = [setting EXCEPT !.timeout = t] /\ saved' = setting'
  /\ listed' = [i \in DOMAIN listed |-> IF i < first THEN WithTimeout(listed[i], t) ELSE listed[i]]
  /\ running' = (nulls = {})
  /\ UNCHANGED <<marks, shortcuts, elsewhere>>

\* The program ends, in whatever way, and is started again.
StartAgain ==
  /\ running' = TRUE /\ listed' = <<>> /\ elsewhere' = FALSE
  /\ setting' = saved /\ marks' = [mode |-> saved.mode, off |-> saved.off]
  /\ shortcuts' = ~saved.off
  /\ UNCHANGED <<saved, changes>>

OptionsNext ==
  \/ \E m \in Modes : ChooseMode(m)
  \/ Toggle
  \/ \E m \in Modes, off \in BOOLEAN : Preferences(m, off) \/ ManageConnections(m, off)
  \/ \E tunnelled \in BOOLEAN : OpenServer(tunnelled)
  \/ TunnelUp
  \/ \E i \in 1..MaxServers : StartEngine(i) \/ EndServer(i)
  \/ \E t \in Timeouts : ChangeShellTimeout(t)
  \/ StartAgain

OptionsSpec == OptionsInit /\ [][OptionsNext]_optionVars
-----------------------------------------------------------------------------
\* Every variable stays in its type; what the user chose is in the file at once, so that it
\* survives the program dying at whatever point.
OptionsTypeOK ==
  /\ saved = setting
  /\ setting \in Settings /\ saved \in Settings
  /\ marks \in [mode : Modes, off : BOOLEAN] /\ shortcuts \in BOOLEAN
  /\ listed \in Seq(Server) /\ Len(listed) <= MaxServers
  /\ running \in BOOLEAN /\ changes \in 0..MaxChanges /\ elsewhere \in BOOLEAN

\* ChangeShellTimeoutDialog.cpp:44-53: every engine reads with the timeout set last, whether
\* it was started before the change or after, except one that was changed while its server
\* was being connected.
EnginesFollowTheSetting ==
  \A i \in DOMAIN listed :
    running /\ ~listed[i].null /\ ~listed[i].missed /\ listed[i].engine # NoEngine =>
      listed[i].engine = setting.timeout

\* MainWindow.cpp:340-480: as long as the menu alone is used, its marks and the shortcuts of
\* the connections are those of the settings.
MenuTellsSettings == running /\ ~elsewhere => marks = Shown /\ shortcuts = ~setting.off

\* MainWindow.cpp:1112-1118: a click sets what the mark then shows, even if the mark was
\* stale.
ToggledIsMarked ==
  [][changes' # changes /\ marks'.off # marks.off => setting'.off = marks'.off]_optionVars

\* App.h:108-111, "MongoServers, owned by this App": whoever walks the list meets servers.
\* (The program does not keep this: README.)
ListHoldsServers == running

\* The settings, the engines and the menu that shows them agree.
OptionsAreSound == OptionsTypeOK /\ EnginesFollowTheSetting /\ MenuTellsSettings
=============================================================================
