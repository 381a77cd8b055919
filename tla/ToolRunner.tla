----------------------------- MODULE ToolRunner -----------------------------
(***************************************************************************)
(* Backup and restore (gui/dialogs/BackupDialog.cpp, RestoreDialog.cpp):   *)
(* the form, the plan of arguments made of it (core/utils/ToolCommand.cpp),*)
(* the tool looked for (MongoTools.cpp) and the process that is run step   *)
(* by step (gui/dialogs/ToolRunnerDialog.cpp).                             *)
(*                                                                         *)
(* The MongoDB Database Tools are external: mongodump writes what it is    *)
(* asked for if it exits with 0, and leaves its output broken otherwise.   *)
(***************************************************************************)
EXTENDS Naturals, Sequences, SequencesExt, FiniteSetsExt, Keeping

CONSTANTS DbOrder,  \* the databases of the tree, in order
          Loaded,   \* Loaded[db]: its collections the explorer has loaded, {} for none
          Actual,   \* Actual[db]: the collections it has on the server
          Dirs, Configured, \* where tools are looked for; the folder of the preferences
          Has,      \* Has[d]: the tools in folder d
          NoTool, NoDb, NoColl,
          MaxToolStarts \* bound on the runs started

Dbs == ToSet(DbOrder)
Tools == {"mongodump", "mongoexport", "mongorestore", "mongoimport"}
Whole == "whole"   \* a row that is no collection

ASSUME ToolAssumption ==
  /\ Loaded \in [Dbs -> SUBSET UNION {Actual[d] : d \in Dbs}]
  /\ DbOrder \in Seq(Dbs)
  /\ \A d \in Dbs : /\ Loaded[d] \subseteq Actual[d] /\ IsFiniteSet(Loaded[d])
                    /\ Whole \notin Actual[d] /\ NoColl \notin Actual[d]
  /\ Configured \in Dirs /\ Has \in [Dirs -> SUBSET Tools]
  /\ NoTool \notin Tools /\ NoDb \notin Dbs
  /\ MaxToolStarts \in Nat

VARIABLES runner,   \* "none", "backup" or "restore"
          form,     \* what the user has chosen
          running,  \* the form is disabled and Stop is enabled
          plan,     \* _pending, the argument sets
          step,     \* _stepIndex
          stopped,  \* _userCancelled
          proc,     \* the process of the current step
          banner,   \* the status line: "idle", "running", "success" or "error"
          written,  \* what the backups hold
          data,     \* what was restored, by database
          toolStarts,   \* runs started so far
          asked     \* what the user had chosen when the run was started

toolVars == <<runner, form, running, plan, step, stopped, proc, banner, written, data, toolStarts, asked>>

\* A tree row of a database that is not loaded stands for the whole of it.
Rows(d) == IF Loaded[d] = {} THEN {<<d, Whole>>} ELSE {d} \X Loaded[d]
AllRows == UNION {Rows(d) : d \in Dbs}
\* single: the folder holds the loose files of one database; target is the field
\* "Restore into database".
NoForm == [checked |-> {}, archive |-> FALSE, json |-> FALSE, source |-> "dir",
           single |-> FALSE, target |-> NoDb, drop |-> FALSE]
NoArgs == [kind |-> "none", db |-> NoDb, coll |-> NoColl, exclude |-> {}, path |-> <<>>, drop |-> FALSE]
NoProcess == [tool |-> NoTool, args |-> NoArgs, state |-> "none"]

ToolInit ==
  /\ runner = "none" /\ form = NoForm /\ running = FALSE
  /\ plan = <<>> /\ step = 1 /\ stopped = FALSE /\ proc = NoProcess /\ banner = "idle"
  /\ written = <<>> /\ data = [d \in Dbs |-> "old"] /\ toolStarts = 0 /\ asked = NoForm
-----------------------------------------------------------------------------
(* The tools: MongoTools.cpp.                                              *)

\* The folder of the preferences first, then the others; empty if there is none.
FindTool(tool) ==
  IF tool \in Has[Configured] \/ \E d \in Dirs : tool \in Has[d] THEN tool ELSE NoTool

-----------------------------------------------------------------------------
(* The backup's form.                                                      *)

CheckedOf(d) == form.checked \cap Rows(d)
\* The state of a database's box: Qt makes it partial when some of its collections are.
BoxOf(d) ==
  IF CheckedOf(d) = {} THEN "unchecked" ELSE IF CheckedOf(d) = Rows(d) THEN "checked" ELSE "partial"
CheckedDbs == Keep(DbOrder, {d \in Dbs : BoxOf(d) # "unchecked"})

\* selectedCollectionCount() = 1: a database that is not loaded counts for many.
SingleCollection ==
  /\ \A d \in ToSet(CheckedDbs) : Loaded[d] # {}
  /\ Cardinality(form.checked) = 1

\* jsonMode(): the box is checked and enabled, which no widget of the form is while a
\* tool runs.
JsonMode == runner = "backup" /\ form.json /\ ~running /\ SingleCollection

\* updateFormatState(): the box is unchecked once more than one collection is selected.
Formatted(f) ==
  [f EXCEPT !.json = @ /\ (\A d \in Dbs : f.checked \cap Rows(d) # {} => Loaded[d] # {})
                       /\ Cardinality(f.checked) = 1]

\* Mutant: the databases of one run share an archive.
ArchiveOfAll(d, multiple) == <<"archive">>

\* archivePathForDb().
ArchiveFor(d, multiple) == IF multiple THEN <<"archive", d>> ELSE <<"archive">>

\* BackupDialog::argumentSets(), ToolCommand::buildDumpArgs(): a run for each database;
\* one collection is named, of several the others are excluded.
DumpArgs(d) ==
  LET chosen == {r[2] : r \in CheckedOf(d)}
      part == BoxOf(d) = "partial" IN
  [NoArgs EXCEPT !.kind = "dump", !.db = d,
     !.coll = IF part /\ Cardinality(chosen) = 1 THEN (CHOOSE c \in chosen : TRUE) ELSE NoColl,
     !.exclude = IF part /\ Cardinality(chosen) > 1 THEN Loaded[d] \ chosen ELSE {},
     !.path = IF form.archive THEN ArchiveFor(d, Len(CheckedDbs) > 1) ELSE <<"dir">>]

\* buildExportArgs().
ExportArgs ==
  LET row == CHOOSE r \in form.checked : TRUE IN
  [NoArgs EXCEPT !.kind = "export", !.db = row[1], !.coll = row[2], !.path = <<"json">>]

BackupPlan ==
  IF JsonMode THEN <<ExportArgs>>
  ELSE [i \in DOMAIN CheckedDbs |-> DumpArgs(CheckedDbs[i])]

-----------------------------------------------------------------------------
(* The restore's form.                                                     *)

\* RestoreDialog::argumentSets(), buildRestoreArgs(), buildImportArgs(): only the folder of
\* one database takes the name of the field.
RestoreArgs ==
  IF form.source = "json"
  THEN [NoArgs EXCEPT !.kind = "import", !.db = form.target, !.coll = "c"]
  ELSE [NoArgs EXCEPT !.kind = "restore", !.drop = form.drop,
          !.db = IF form.source = "dir" /\ form.single THEN form.target ELSE NoDb]

\* validate().
RestoreIsValid ==
  (form.source = "json" \/ (form.source = "dir" /\ form.single)) => form.target # NoDb

ValidInput == IF runner = "backup" THEN form.checked # {} ELSE RestoreIsValid
Plan == IF runner = "backup" THEN BackupPlan ELSE <<RestoreArgs>>

\* toolPath(), toolName().
ToolPath ==
  FindTool(IF runner = "backup" THEN IF JsonMode THEN "mongoexport" ELSE "mongodump"
           ELSE IF form.source = "json" THEN "mongoimport" ELSE "mongorestore")

-----------------------------------------------------------------------------
(* The dialogs and the process.                                            *)

\* BackupDialog::buildTree(): what is checked at first: all, a database or a collection.
OpenBackup(rows) ==
  /\ runner = "none"
  /\ rows \in {AllRows} \cup {Rows(d) : d \in Dbs} \cup {{r} : r \in AllRows}
  /\ runner' = "backup" /\ form' = [NoForm EXCEPT !.checked = rows] /\ banner' = "idle"
  /\ UNCHANGED <<running, plan, step, stopped, proc, written, data, toolStarts, asked>>

\* RestoreDialog::RestoreDialog(): the field is given the database it is opened for.
OpenRestore(d) ==
  /\ runner = "none"
  /\ runner' = "restore" /\ form' = [NoForm EXCEPT !.target = d] /\ banner' = "idle"
  /\ UNCHANGED <<running, plan, step, stopped, proc, written, data, toolStarts, asked>>

Fill(f) ==
  /\ ~running /\ form' = f
  /\ UNCHANGED <<runner, running, plan, step, stopped, proc, banner, written, data, toolStarts, asked>>

\* onItemChanged(): the box of a database checks and unchecks all its collections.
CheckRow(r) == runner = "backup" /\ Fill(Formatted([form EXCEPT !.checked = SymDiff(@, {r})]))
CheckDb(d) ==
  runner = "backup" /\ Fill(Formatted([form EXCEPT
    !.checked = IF BoxOf(d) = "checked" THEN @ \ Rows(d) ELSE @ \cup Rows(d)]))
ChooseFormat(archive, json) ==
  /\ runner = "backup"
  /\ json => SingleCollection
  /\ Fill([form EXCEPT !.archive = archive, !.json = json])

\* refreshDirTarget(): the name of the folder is suggested for an empty field.
ChooseSource(source, single) ==
  /\ runner = "restore"
  /\ \E folder \in Dbs :
       Fill([form EXCEPT !.source = source, !.single = single,
               !.target = IF source = "dir" /\ single /\ @ = NoDb THEN folder ELSE @])
EditTarget(d, drop) == runner = "restore" /\ Fill([form EXCEPT !.target = d, !.drop = drop])

Launch(i) ==
  /\ proc' = [tool |-> ToolPath', args |-> plan'[i], state |-> "running"]
  /\ banner' = "running"

\* ToolRunnerDialog::start(), the confirmation included: the form is disabled and the
\* first step run.
StartTool(confirmed) ==
  /\ runner # "none" /\ ~running /\ toolStarts < MaxToolStarts
  /\ IF ValidInput /\ ToolPath # NoTool /\ Plan # <<>> /\ confirmed
     THEN /\ stopped' = FALSE /\ plan' = Plan /\ step' = 1 /\ running' = TRUE
          /\ UNCHANGED form
          /\ runner' = runner
          /\ Launch(1)
          /\ toolStarts' = toolStarts + 1 /\ asked' = form
          /\ UNCHANGED <<written, data>>
     ELSE UNCHANGED toolVars

\* cancelRun(): the process may have ended, in whatever way, without QProcess knowing it yet.
StopTool ==
  /\ running /\ proc.state # "none"
  /\ stopped' = TRUE /\ banner' = "running"
  /\ proc' = [proc EXCEPT !.state = IF @ = "running" THEN "killed" ELSE @]
  /\ UNCHANGED <<runner, form, running, plan, step, written, data, toolStarts, asked>>

\* What a dump is of: the collections excluded are the only ones left out.
DumpOf(a) ==
  {a.db} \X (IF a.coll # NoColl THEN {a.coll} ELSE Actual[a.db] \ a.exclude)
Held(path) == IF path \in DOMAIN written THEN written[path] ELSE {}
WriteOut(path, rows) ==
  written' = [p \in DOMAIN written \cup {path} |-> IF p = path THEN rows ELSE written[p]]

\* The process does its work and exits; a mongodump given the arguments of a mongoexport
\* knows them not.  An archive is written anew, a folder added to.
ToolExits(ok) ==
  LET a == proc.args
      done == ok /\ (a.kind = "export" => proc.tool = "mongoexport") IN
  /\ proc.state = "running"
  /\ proc' = [proc EXCEPT !.state = IF done THEN "exited" ELSE "failed"]
  /\ IF a.kind = "dump"
     THEN WriteOut(a.path, (IF a.path = <<"dir">> THEN Held(a.path) \ DumpOf(a) ELSE {})
                             \cup (IF done THEN DumpOf(a) ELSE {}))
     ELSE UNCHANGED written
  /\ data' = IF a.kind = "restore" /\ (done \/ a.drop)
             THEN [d \in Dbs |-> IF a.db \in {NoDb, d} THEN IF done THEN "restored" ELSE "broken"
                                 ELSE data[d]]
             ELSE data
  /\ UNCHANGED <<runner, form, running, plan, step, stopped, banner, toolStarts, asked>>

\* A process killed leaves its output as a failed one does.
ToolDies ==
  LET a == proc.args IN
  /\ proc.state = "killed"
  /\ proc' = [proc EXCEPT !.state = "crashed"]
  /\ IF a.kind = "dump"
     THEN WriteOut(a.path, IF a.path = <<"dir">> THEN Held(a.path) \ DumpOf(a) ELSE {})
     ELSE UNCHANGED written
  /\ UNCHANGED <<runner, form, running, plan, step, stopped, banner, data, toolStarts, asked>>

\* onErrorOccurred(FailedToStart): no finished() follows.
FailToStart ==
  /\ proc.state = "running"
  /\ proc' = NoProcess /\ banner' = "error" /\ running' = FALSE
  /\ UNCHANGED <<runner, form, plan, step, stopped, written, data, toolStarts, asked>>

EndRun(b) == running' = FALSE /\ banner' = b /\ proc' = NoProcess /\ UNCHANGED <<plan, step>>

\* onFinished(), runNextStep().
Finished ==
  /\ proc.state \in {"exited", "failed", "crashed"}
  /\ UNCHANGED <<runner, form, stopped, written, data, toolStarts, asked>>
  /\ IF stopped THEN EndRun("idle")
     ELSE IF proc.state # "exited" THEN EndRun("error")
     ELSE IF step = Len(plan) THEN EndRun("success")
     ELSE step' = step + 1 /\ UNCHANGED <<plan, running>> /\ Launch(step + 1)

\* Close or Escape: the dialog and its process are destroyed; ~QProcess() kills and waits.
Close ==
  /\ runner # "none"
  /\ runner' = "none" /\ form' = NoForm /\ running' = FALSE /\ plan' = <<>> /\ step' = 1
  /\ stopped' = FALSE /\ proc' = NoProcess /\ banner' = "idle" /\ asked' = NoForm
  /\ IF proc.state \in {"running", "killed"} /\ proc.args.kind = "dump"
     THEN WriteOut(proc.args.path,
                   IF proc.args.path = <<"dir">> THEN Held(proc.args.path) \ DumpOf(proc.args) ELSE {})
     ELSE UNCHANGED written
  /\ UNCHANGED <<data, toolStarts>>

ToolUser ==
  \/ \E rows \in SUBSET AllRows : OpenBackup(rows)
  \/ \E d \in Dbs \cup {NoDb} : OpenRestore(d)
  \/ \E r \in AllRows : CheckRow(r)
  \/ \E d \in Dbs : CheckDb(d)
  \/ \E a, j \in BOOLEAN : ChooseFormat(a, j)
  \/ \E s \in {"dir", "archive", "json"}, single \in BOOLEAN : ChooseSource(s, single)
  \/ \E d \in Dbs \cup {NoDb}, drop \in BOOLEAN : EditTarget(d, drop)
  \/ \E c \in BOOLEAN : StartTool(c)
  \/ StopTool
  \/ Close

ToolProcess == (\E ok \in BOOLEAN : ToolExits(ok)) \/ ToolDies \/ FailToStart \/ Finished

ToolNext == ToolUser \/ ToolProcess

\* A tool ends some time, and the event loop hears of it.
ToolSpec == ToolInit /\ [][ToolNext]_toolVars /\ WF_toolVars(ToolProcess)
-----------------------------------------------------------------------------
\* Every variable stays in its type; JSON is chosen for one collection only.
ToolTypeOK ==
  /\ runner \in {"none", "backup", "restore"}
  /\ form.json => SingleCollection
  /\ form.checked \subseteq AllRows /\ form.json \in BOOLEAN /\ form.target \in Dbs \cup {NoDb}
  /\ running \in BOOLEAN /\ stopped \in BOOLEAN
  /\ step = 1 \/ step \in 1..Len(plan)
  /\ proc.state \in {"none", "running", "killed", "exited", "failed", "crashed"}
  /\ proc.tool \in Tools \cup {NoTool}
  /\ banner \in {"idle", "running", "success", "error"}
  /\ \A p \in DOMAIN written : written[p] \subseteq UNION {{d} \X Actual[d] : d \in Dbs}
  /\ data \in [Dbs -> {"old", "restored", "broken"}] /\ toolStarts \in 0..MaxToolStarts

\* What is checked stands for these collections of the server.
Wanted(rows) == UNION {IF r[2] = Whole THEN {r[1]} \X Actual[r[1]] ELSE {r} : r \in rows}

\* ToolRunnerDialog.cpp:105-114, BackupDialog.cpp:304-318: a backup reported complete holds
\* all the collections that were checked when it was started, of every database, in one
\* folder or in an archive each.
CompleteMeansWritten ==
  runner = "backup" /\ banner = "success" /\ ~asked.json =>
    Wanted(asked.checked) \subseteq UNION {written[p] : p \in DOMAIN written}

\* ToolRunnerDialog.cpp:229-239: as long as a process is alive the form cannot be changed
\* nor another run be started, so none escapes Stop.
NothingRunsUnattended == proc.state # "none" => running

\* ToolRunnerDialog.cpp:102-103, 177-181: after Stop, no further step is begun.
StopIsFinal == [][stopped /\ running => proc'.args \in {proc.args, NoArgs}]_toolVars

\* RestoreDialog.cpp:233-237: a database is named to mongorestore if and only if the folder
\* holds the loose files of one, whatever the field was left with.
NameOnlyForLooseFiles ==
  proc.args.kind = "restore" =>
    (proc.args.db # NoDb <=> asked.source = "dir" /\ asked.single)

\* The bar stops marching.
BarStops == (banner = "running") ~> (banner # "running")

\* ToolRunnerDialog.h:27-29, "Subclasses only supply the tool to run, its arguments": the
\* tool that runs is the one the arguments were made for.
\* (The program does not keep this: README.)
ToolFitsArguments ==
  proc.args.kind = "export" => proc.tool = "mongoexport"

\* A tool runs under the eyes of its dialog, and what is reported complete is written.
ToolIsSound == ToolTypeOK /\ CompleteMeansWritten /\ NothingRunsUnattended /\ NameOnlyForLooseFiles
=============================================================================
