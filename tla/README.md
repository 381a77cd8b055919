# Docutaz in TLA+

A model of Docutaz: of the parts whose correctness depends on the order in which
things happen (the event bus, the engine that drives a persistent `mongosh`
process, connections, the SSH tunnel, tabs, answers that come late), of the parts
where something may fail between two steps (settings, driver operations, backup
and restore), and of the scanners and conversions that decide what is run, shown
and saved. Every definition is translated from the source under
`src/src/docutaz/`; `PROJECT.json` maps it to its lines. Paths below are relative
to that directory, and `X.cpp:n` is line n.

Run a check with `tlc -config <run>.cfg <module>` and the proofs of a module with
`tlapm <module>.tla`, for `SequenceLemmas`, `MongoshEngineProofs`, `ConnectionsProofs`,
`ShellsProofs`, `TabsAndToolsProofs`, `RemoteProofs`, `WindowProofs` and `DocumentsProofs`. A proof module is about
several of the system's modules where these have no name in common: `RemoteProofs` about what is done over a network,
`DocumentsProofs` about what shows documents and the bus that brings them.

## The system

One UI thread and, per server, one worker thread. A worker owns the C++ driver's
connection and one `mongosh` process. All of them talk through one event bus:
UI objects `send()` requests to a worker, which takes them from its event loop
one at a time and in order, and `reply()`s to an object of the UI thread; UI
objects `publish()` what others may want to know. Behind a connection there may be
a further thread, which forwards the sockets of an SSH tunnel; beside the window,
threads that prepare text, the processes of the database tools, and the timers and
nested event loops of dialogs.

| Component | State it keeps | Operations | What makes it correct |
|---|---|---|---|
| Event bus (`core/EventBus*`) | subscribers by event type, dispatcher by thread, one mutex | `publish`, `send`, `subscribe`, `unsubscibe`, dispatch | handlers run on the thread of their object, on a living object; what is posted arrives |
| Mongosh engine (`core/engine`) | process, `_currentDb`, `_failed`, id counter; in the process: `db` and what is in the two pipes | `init`, `exec`, `use`, `setBatchSize`, `ping`, `complete` | an answer is of the script asked for, which ran at most once, in the database asked for; every call returns |
| Preamble (`resources/mongosh_preamble.js`) | statements, captured output | split, prepare, run, emit | the statements are those written; the output is in order |
| Mongo worker (`core/mongodb/MongoWorker.cpp`) | engine, driver connection, settings copy, timers | one handler per request, fast path of find, `keepAlive`, `retry` | one answer per request, in order; the driver answers as mongosh would |
| Query tab (`QueryWidget`, `OutputWidget`, `OutputItemContentWidget`, `PagingWidget`, `MongoShell`) | `_executing`, `_lastExecutedQuery`, the parts, their documents, views and paging bars | execute, page, change view, close and select a result tab, answers | an answer reaches what asked for it; header and views tell what is shown |
| Work area (`WorkAreaTabWidget`, `QueryWidget`, `MainWindow`) | tabs, scripts and their files, buttons | open, duplicate, run, stop, load, save, close | tabs have shells; the star tells what is unsaved; guarded writes are asked about |
| Connections (`App`, `MongoServer`, `SshTunnelWorker`, `ExplorerWidget`, `ConnectionDiagnosticDialog`) | `_servers`, handles, progress counter, items | open, connect, refresh, fail, disconnect, test | nobody waits forever; what the explorer shows exists; what failed is freed |
| SSH tunnel (`ssh/ssh.c`) | channels, sockets watched, error count | the select loop, reconnect, cleanup | a client is served, and no data of it dropped |
| Shells (`App::openShell`, `closeShell`) | tabs, their servers, the sharing preference | open, duplicate, close, execute | a shared server outlives all but its last tab; scripts run where their tab says |
| Query history (`core/QueryHistory`, `QueryHistoryTab`) | entries, file, selected row, filter | add, trim, pin, remove, clear, load, save | one entry per query, newest first, pins are kept, rows and entries agree |
| Explorer tree (`gui/widgets/explorer`) | objects, items and their loading state | expand, refresh, create, drop | an answer fills the item that asked; the tree shows what its user did |
| Documents (`Notifier`, `DocumentTextEditor`) | dialogs, requests, progress | view, edit, insert, delete | every view hears of a write; a guarded one is asked about |
| Settings (`SettingsManager`, `DocutazCrypt`, `ConnectionsDialog`) | the settings file, its migrations, the key | start, save, migrate, import, edit the list | nothing saved is lost by a kill or an upgrade |
| Connection form (`ConnectionDialog`, `ConnectionUri`) | the fields of the tabs | open, edit, accept, import a URI | form, URI and command line say the same |
| Driver operations (`MongoClient`) | none of its own | writes, index edit, function rename, copy, export | a change of several steps is complete, or what was there is still there |
| Collection and index dialogs | fields, what is enabled, validated texts | edit, validate, accept | what is asked for is what is shown |
| Backup and restore (`ToolRunnerDialog`, `ToolCommand`, `MongoTools`) | form, plan, one child process | run, stop, close | "complete" means written; no process outlives its dialog |
| Window, options, notices (`MainWindow`, `UpdateChecker`) | geometry, marks, boxes, timers | close, restore, toggle, check | the window comes back; each setting arrives; who asks is answered |
| Completion and syntax check (`ScriptWidget`, `PlainJavaScriptEditor`) | line, popup, timer, requests; marks | type, choose, answer; scan | names are for the token at the caret; legal text is quiet |
| Conversions (`json.cpp`, `ptimeutil.cpp`, `BsonUtils`, `Exporter`) | none | print, read, save; tables | a text denotes its document or is refused; every value has a cell |

What is hard here: replies that arrive after their receiver, or the part of it
they are for, is gone; single fields (`_lastExecutedQuery`, `_executing`, one
progress counter, one pair of buttons) that stand for several requests in flight;
deadlines after which the work goes on behind the caller's back; caches of a state
somebody else changes; copies found by uuid or by address; libraries that read on
behalf of others; operations of several steps one of which fails; scanners that
read a language without its grammar. `PROJECT.json` lists these hazards line by
line, each with the properties that cover it.

## The modules

### EventBus (DocumentsProofs), Keeping
`subs`, `disp` are the two containers of `EventBus`; `queue` the events posted
to a dispatcher, `stack` the handlers a thread is in, with the bus lock in the
frame of the `send()` that holds it. Receivers and threads are heap addresses:
`Create`/`Destroy`, `StartThread`/`FinishThread` use an address again, and
`inc` counts the objects that have lived there, so "the same address" and "the
same object" are told apart. `publish()` and `subscribe()` are only ever called
on the UI thread in the source, and so in the model.

`Keeping` has one operator, `Keep(s, S)`: the elements of a list that are in a set, what
`remove_if()` and `erase()` leave. It is `SelectSeq` written with a recursive function, so that
something can be proved about it; EventBus, Connections, SshTunnel and ToolRunner use it.

### MongoshEngine, ScriptCall (MongoshEngineProofs)
`stdin` and `stdout` are the pipes, `ShellStep` is what the preamble does with a
line, and the engine's `exec()` is the sequence of actions `Exec`, `StartOk`/
`StartFails`, `Switch`, `UseEnds`, `SendPrepare`, `Prepared`/`PrepareFails`,
`RunAnswers`/`RunTimesOut`/`RunFails`. Between two of them the process runs, dies or is
late, which is what `waitForReadyRead()` gives it time for; `ReadSome` takes
part of what has arrived. A deadline is an action that is enabled whether or
not the sentinel came. `complete()`, `ping()` and the keep-alive timer use the
same pipes between executions. A sentinel is a pair of its kind and the id it
carries; the text around it is left out, except that a read that got no text at
all is told from one that got some, since the code answers differently. `ran` and
`strayed` are history: the executions the process has completed, with the database each ran
in, and whether the process was left in a database the engine does not know of.

`ScriptCall` is what the engine promises the worker: an execution takes effect
at most once, not before it was issued, and before its results are answered.
`MongoshEngine` implements it (`ImplementsScriptCall`). `Replace` and `ReInit`
are what `MongoWorker` does to its engine, and its `retry()` is a further
`Exec`, a new call with a new id.

### QueryTab (MCQueryTab, TabsAndToolsProofs)
One tab from the editor to the parts of its output area and the worker behind
it. A document page is named by the run and result it comes from and its skip,
so whether a page is in the right part, and whether the header tells the truth,
are comparisons of names; how many documents a page has, with limit and batch size and their 0 and -1,
is in `LimitOf` and `Refresh` of ResultViews. `PartsOf` gives the results of each script; MCQueryTab
has one script per shape of result. `QuerySkip` is the `.skip()` of the find
itself, below which `refresh()` does not let the paging bar go. The fields of
the bar accept any number, so the user asks for any skip. The variable
`rushed` records that a script and another request were on their way together:
the progress popup does not prevent that, and several properties hold only
without it (see below).

### Connections (ConnectionsProofs)
`opened` is the history of `openServer()` calls, whose place is the handle;
`servers` is `_servers`, with the null pointer the code keeps there for a
connection behind a tunnel. The tunnel thread, the worker and the UI thread
exchange requests (`asked`) and answers (`posted`, handled in order). The
listeners of the outcome (explorer, error box, test dialog) are part of the
handlers, since `publish()` calls them synchronously.

### Shells (ShellsProofs)
`OpenOn` is `App::openShell()`, with the reuse of another tab's server when the
preference is on; `workerDb` is the default database in the worker's copy of
the settings; `record` is what `setDefaultDatabase()` writes into the settings
the explorer holds. `Serve` is the worker's handler of a script.

### SshTunnel (RemoteProofs)
The thread of `rbm_open_tunnel()`: `Select`, then for each ready socket the
handler of new clients, of the SSH socket (one `ReadChannel` per channel) or of a
client, with the result that counts as success, "again" or error. libssh2 is
external: whatever it does for one channel takes all packets off the wire
(`Drain`) and queues them by channel, so `Readable` no longer announces them. That
is the difference this module is about. The environment is two clients that
connect, send, leave or reset, a server that sends or closes, keep-alive packets
and a link that breaks.

### The window: WorkArea, Options, QueryHistory, SyntaxCheck, ScriptSplit, DriverFind, ExportTable, Documents (MCWindow, WindowProofs, DocumentsProofs)
- **WorkArea**: `strip` is the tab bar with the Welcome and the history page, `shells`
  the script behind each query tab with what is edited, stored and running; the
  buttons Execute and Stop belong to all tabs. `MustAsk` is
  `confirmGuardedWrite()`; `unasked` collects scripts the safety net covers that were
  sent without it.
- **Options**: `setting`, `changes` and the marks of the menu; a timeout changed goes to
  the workers that have an engine. One choice of several stands for all of them.
- **QueryHistory**: each of several instances of the program has its `entries`, loaded
  once from `file` and written whole after each change; `row` is the entry index
  behind the tab's current row. A save may fail, which `save()` does not report. A blank query, or any while the
  setting is off, leaves everything as it is.
- **SyntaxCheck**: the scan of `updateSyntaxIndicators()` as one fold over the text, with
  its stack of brackets; edits remove a character of a legal text.
- **ScriptSplit**: the pass of `_splitStatements()` character by character, over scripts put
  together from statements of known shape; then the wrapping, the run and `__robo_emit()`.
- **DriverFind**: `tryDriverFind()` over a find put together from arguments, calls and tail,
  against what mongosh makes of the same text. Without a database the find is left to mongosh, and a worker
  without an engine says so.
- **ExportTable**: the columns of all documents, then each document looked up column by column.
- **Documents**: a Notifier per view, their dialogs with loops of their own, and the
  answers, which reach every Notifier of the server. A tab of more than two parts has them in result tabs, and puts
  every answer into the one it shows (`Tabbed`, `MayShow`, `Into`).

### The dialogs: ToolRunner, Settings, ConnectionForm, CollectionForm, IndexForm, DocumentText, IsoTime, DriverOps (MCDialogs, TabsAndToolsProofs, ShellsProofs, RemoteProofs)
- **ToolRunner**: the form, the plan of arguments (`ToolCommand`), the tool looked for
  (`MongoTools`) and the process. What is written is compared with what the form asked for.
- **Settings**: starts of the program over a disk with legacy directories, Robo 3T's file and
  keys. `Cut` is a kill within a save; a save and the backup of a newer build's file may fail unseen; `NewerBuild` is a start of a later version. `history` variables say
  what was saved and must be found again.
- **ConnectionForm**: constant operators: what each tab shows of a connection and writes back, the
  URI of the driver, that of the tools, and the program's own reader of URIs.
- **CollectionForm**, **IndexForm**: the fields, what is enabled and validated, the request and what
  `MongoClient` makes of it. An edit of an index drops, creates and, if that fails, creates the old one; a creation
  may take effect and throw. `InfoOf` is what the driver's answer becomes on its way to the form: a number or a flag the
  server has as another type is read as 0 or false.
- **DocumentText**: `jsonString()` and the shell form, the reader of relaxed JSON, the editor.
- **IsoTime**: `isotimeString()`, in UTC and with the offset of the machine.
- **DriverOps**: an operation is a list of calls to the server (`todo`) with a list to put right what
  failed (`rescue`); between two calls other clients write, and the program may be killed. A call that fails has
  had no effect, its whole effect, or that of one more document of a cursor: what was lost may be the answer
  (`JobFails`). The server refuses a document with E11000 when its `_id` is there (`Duplicate`), and may when another
  document has its value of a unique index (`MayClash`).

### Answers that come late: WindowFrame, Notices, Completion, ResultViews, ExplorerTree (MCAnswers, WindowProofs, DocumentsProofs)
- **WindowFrame**: `flags`, `size`, `normalGeometry` and the timers of `MainWindow`; the window manager
  is external, under X11 and under Wayland.
- **Notices**: update checks by hand and at start, and the boxes of failed connections, each with a
  loop of its own in which further answers are handled.
- **Completion**: the line, the token at the caret (`Sanitized`), the popup, the timer, and requests
  whose answers come when the user has typed on.
- **ResultViews**: the views of one part, built on first use, and the preparing threads, of which
  stopped ones may still have text queued.
- **ExplorerTree**: objects, items and the answers of the worker to the object that asked, which may be
  gone: `dangling` is the state after that.

The three MC modules put parts that share no state side by side: each behaviour
exercises one part, chosen in the initial state, with the others in one state, so that
the number of states is the sum of theirs and not the product. A bounded instance of
each part is thereby checked as it would be alone. Parts that do interact are composed in one
module (the pipes, the engine and the worker; the tab, its output and the worker; dialogs,
tunnel, servers and explorer).

## What is checked

Every property named below is a conjunct of one that a run checks; the comment above each
definition says which behaviour of the code it is about.

| Run | Bounds | Shows |
|---|---|---|
| EventBus | 2 UI objects and 1 worker address, each used twice; 1 subscription, 1 posted event per thread, 2 nested handlers | handlers run at home (`HandlersRunAtHome`), subscribers are alive (`BusOK`), posts to the first thread at an address are delivered (`PostedIsDelivered`) |
| MCMongoshEngine | 2 databases, 2 scripts (malformed; one that says `use b`, which in `b` changes nothing), 3 ids, failing starts | results are of a script that ran and of its own frame; scripts run in the requested database (`RunsInRequestedDb`); the engine implements ScriptCall; calls return |
| QueryTab | scripts with an aggregate, two finds, three results; 2 runs, 2 pages, skips 0 to 2 | the pages of finds, headers and skips (`PagesAreShownRight`), history text and fresh view (`RunsAreTold`), progress |
| Connections | 2 connections of 3 ways and 3 uses, 1 refresh | items are owned, failures are freed (`ServersAreOwned`), attempts and the progress label end (`AttemptsEnd`) |
| Shells | 3 tabs, 2 hosts, 2 databases, 1 script | servers live exactly as long as their tabs, unshared scripts run in the right place (`TabsAreServed`), every script runs |
| SshTunnel | 2 clients, 1 datum each way at a time, 1 packet on the wire, 2 errors to a reconnect | accepted sockets are channels, nothing is dropped while a connection lives (`TunnelKeepsData`); clients are accepted, data goes both ways (`TunnelServes`) |
| MCWindow | see below | `WorkAreaIsSound`, `OptionsAreSound`, `HistoryIsSound`, `CheckIsSound`, `ScriptsAreRead`, `ExportIsSound`, `DocumentsAreSound`, and the steps `WindowSteps` |
| MCDialogs | see below | `ToolIsSound`, `SettingsAreSound`, `FormsOfConnectionsAgree`, `CreatedAsShown`, `TextsDenote`, `OpsAreSound`, and what must last, `WhatIsWrittenLasts` |
| MCAnswers | see below | `FrameIsSound`, `NoticesAreSound`, `CompletionIsSound`, `ViewsAreSound`, `TreeIsSound`, `OnlyTheTokenIsReplaced`, and what is owed, `OwedComes` |

In MCWindow:

- `WorkAreaIsSound`: one script that writes, one file, 2 tabs, 3 edits: the title tells its script
  and a star what the file does not have, whether a write succeeds or fails; Execute is greyed only
  while something runs or after a running tab was closed.
- `OptionsAreSound`: 3 servers, 2 timeouts, 3 changes: a running engine has the timeout of the settings.
- `HistoryIsSound`: 2 instances, 3 queries, lists of 2 entries, 3 runs.
- `CheckIsSound`: seven texts that use every rule of the scan, and each with any 2 characters gone; the size
  beyond which the scan is skipped is 25.
- `ScriptsAreRead`: all scripts of 2 statements out of ten shapes with every gap between them: statements
  separated by semicolons are the statements written, the results are in order (`SplitIsSound`); finds with
  2 arguments and 2 calls over a collection of 4, in batches of 2, with limits and skips of -1 to 3: the driver answers
  as mongosh (`FindIsSound`).
- `ExportIsSound`: up to 3 of six documents, nested, empty, with dots in names; sheets of 2 rows.
- `DocumentsAreSound`: 2 views of 1 or 2 collections, 2 documents, 2 dialogs: a deletion that was answered is
  gone from every view, the progress ends. `GuardedAreAsked` is the step that sends. Tabs of more than two
  parts do not occur with 2 views; the theorem covers them.

In MCDialogs:

- `ToolIsSound`: 2 databases, one with collections loaded before another one was made, tools in the PATH but
  not in the configured folder: "Complete" means that all that was asked for is written, nothing runs
  without its dialog. `StopIsFinal`, `BarStops`.
- `SettingsAreSound`, `SettingsSurvive`: 3 starts, 3 connections, a newer build once, legacy directories 1.9
  and 1.10, Robo 3T before the first start: what was saved and not torn by a kill is found again with its
  passwords; uuids identify; the first file of a newer build stays in the backup if it could be copied there.
- `FormsOfConnectionsAgree`: every connection that varies one group of fields (authentication, hosts, TLS, SSH).
- `CreatedAsShown`: 4 servers by version and engine, 4 steps in the dialog; 6 indexes with 2 changes: what the server
  made has what the fields showed, but for the time to live (`MadeAsShown`); an edit not touched leaves
  the index as it was; after an edit that failed there is no index but the old and the new one.
- `TextsDenote`: documents with every type, all strings of up to 3 characters that quoting could trip over,
  pairs in arrays; 9 instants around the epoch, 8 offsets, clocks on both sides of midnight.
- `OpsAreSound`: one operation with one write of another client between any two of its calls and a
  failure of any, with or without effect: an answer without error is of an operation all of whose calls succeeded, and no
  more documents of a copy are missing than it counts as skipped; a function never vanishes; an index survives its edit
  unless the drop itself, which is outside of the try block, or the recovery fails too; a copy keeps its
  source unless it is onto itself; an export only reads; the progress display closes.

In MCAnswers:

- `FrameIsSound`: 2 sizes and 8 moves; two collapses in a row need 6.
- `NoticesAreSound`: 3 servers, 2 checks. `CompletionIsSound`: lines of 5 characters, 4 keys, 2 requests,
  words that share a beginning; with 5 characters there is a pair within a pair within the line. `ViewsAreSound`: a page after the first, 3 documents, all modes.
  `TreeIsSound`: 2 collections or indexes, 2 actions of the user.
- `OwedComes`: a collapsed window gets a size and a maximised one comes back so; a check by hand is
  answered; the token the caret stays at gets its names; the text of a page is complete in the end; every
  "..." of the tree gives way. The parts exclude one another, so one formula with the debt of the part at
  work says the same as one formula per part.

Each bound is one more than the least with which the case of interest occurs: a
stale frame needs one earlier execution, an address used again needs two objects, a list of two
entries and three queries makes `trim()` work with and without pins, two pages
in flight can be answered while tabs are closed, three tabs can have two
that share a server beside one that does not, one packet on the wire is what another channel's
read takes away, and an operation interrupted once by one other client meets each of its steps. The
Boolean constants switch on a failure (`PreambleMayFail`, `SaveMayFail`), a preference (`Sharing`,
`AutoExec`) or a configuration of the servers (`Aliased`: two connections to one server).

MCMongoshEngine and Shells are checked for deadlock as well: there the user can always do something.
In the others the user has a bounded number of clicks, objects or connections and the
program may then be idle for good; their configurations say so.

**Fairness.** EventBus: an event loop takes what is posted to it as long as its
thread lives, and handlers return. MongoshEngine: the steps of a call (every
wait has a deadline, `MongoshEngine.cpp:374-383`), not of the process. QueryTab:
the two event loops. Connections: the UI loop, and a connect attempt ends (the
driver has a server selection timeout, the SSH library a socket that fails);
nothing is assumed of the user or of a tunnel's end. Shells: a worker serves
its queue, a script ends by its deadline. SshTunnel: the thread of the loop runs; `select()` alone may wait for
good. MCDialogs: a tool ends some time, and the loop hears of it. MCAnswers: timers expire, the
network and the worker answer, threads go on. MCWindow has none, its properties are of states and steps.

### Disagreements between the code and its documentation, checked

Each of these runs violates one property, taken from the quoted line.

- **QueryTabWrongTab**: a page that arrives after the user has selected another
  result tab replaces the documents of that one (`OutputWidget.cpp:116`).
- **StatementsSplit**: the body of an `if`, `while` or `for` on the line after its header becomes a statement of its
  own and runs whatever the condition (`mongosh_preamble.js:190`).
- **AdvancedOptions**: the storage engine, validator and index option defaults of the Create Collection dialog
  never reach the server (`MongoClient.cpp:334`).

### Noted while modelling

The models exhibit these too. Where a definition states what is not kept, its comment says so; the
properties above are stated so that they do not claim the opposite.

- **Event bus.** An event posted to an object that is deleted before delivery is handed to whatever is at its
  address (`EventBus.cpp:89`; `NoStrayDelivery`); `reply()` reads `_isQuiting` before it posts (`MongoWorker.cpp:1071`). An entry of
  the dispatcher table is found by the address of a `QThread` and never removed (`EventBus.cpp:142`); events for a thread at
  the address of an ended one go to a dispatcher nobody runs. Hence `inc[a] = 1` in `PostedIsDelivered`.
- **Engine.** `MongoshEngine.cpp:154` says no result frame means that the script never ran to completion; a run whose frame
  is late is answered in the same way, and `retry()` runs it again (`ErrorMeansNotRun`). A script that executes `use`
  moves the process's database without `_currentDb` being told (`MongoshEngine.cpp:91`). A start that fails after the process
  is up leaves it running without its preamble, and `init()` (`MongoWorker.cpp:814`) clears the mark that kept it from being used.
  The frames of completion, ping, use and batch size carry no id, so a late one answers the next (`MongoshEngine.cpp:220`).
- **Query tab.** A run that timed out is recorded in history although "only successful runs are" (`QueryWidget.cpp:406`).
  With two runs in flight the text of the second is recorded with the outcome of the first, an aggregate of
  a fresh run may be taken for a page, and `_executing` is cleared by the answer of another request. The answer to the page of an
  aggregate carries an `AggrInfo` rebuilt from the page's own script (`MongoshEngine.cpp:499-506`), whose skip and result index are 0, and `updatePart()` puts it into the first part: below a find in
  the same splitter, paging an aggregation replaces the documents of the find, which is why `PagesShownRight` is about scripts
  without one there.
  A page for a tab with no result tab left dereferences null (`OutputWidget.cpp:120`).
- **Paging and views.** The limit of a query is not kept with its result (`MongoWorker.cpp:743-752`), so paging goes beyond a `.limit()`;
  with a batch size of 0 the request has no limit at all. An empty page while an old thread runs shows the old text; the thread of a
  text view is never stopped when its part is deleted; the view of collection statistics stays after an update.
- **Connections.** A test connection that is established after its dialog was closed has nobody to close it
  (`ConnectionDiagnosticDialog.cpp:107`; `TestsEndWithDialog`). The failure of any connection counts down a counter only primary
  connections count up (`ExplorerWidget.cpp:129`); the server of a replica set that cannot be reached is kept (`MongoServer.cpp:412`); while
  a tunnel is being established `_servers` holds a null pointer (`App.cpp:167`), which code that walks the list meets
  (`OutputItemContentWidget.cpp:179`; `ListHoldsServers` in Options); a refresh changes the type of the server the explorer shows (`MongoServer.cpp:165`).
- **Shells.** With sharing on, what the user executes in a second tab runs in the database of the first: `QueryWidget::execute()`
  uses `MongoShell::open()`, which sends no database (`MongoShell.cpp:22-28`; `RunsInTabDb`). The server to share is found by uuid, which the
  members of a replica set have in common (`App.cpp:233`), and so do the connections added in the dialog, which have none until
  the next start (`ConnectionsDialog.cpp:354-368`).
- **SSH tunnel.** A packet that libssh2 took off the wire while it served another channel waits until `select()` announces the socket
  again (`ssh.c:486`); hence the premise of `DataArrives`. The socket of a client whose channel cannot be opened is neither served
  nor closed; the end of a remote channel is not forwarded; 25 "again" in a row, which keep-alive packets suffice for, cause a
  reconnect that cuts all clients; so does the reset of one client; an error of `select()` is reported as a normal stop.
- **History.** Two instances overwrite each other's file (`QueryHistory.cpp:224`); after a run the selected row keeps its index and so is another
  query (`QueryHistoryTab.cpp:393`); with every other entry pinned `trim()` removes the entry just added (`QueryHistory.cpp:184`).
- **Work area.** Closing a tab asks nothing about unsaved text or a running script, and a running tab closed leaves Execute greyed
  until another script ends; `stop()` does nothing; a cancelled save still sets the script of the shell; under Linux ".js" is appended after
  the question whether to overwrite. `ScriptClassifier.h:32-33` says "every drop*/create*" but `dropUser`, `dropRole` and `createUser`
  match nothing, and a script opened with its execution (duplicate, open shell) is not asked about (`WritesAreConfirmed`).
- **Explorer.** An answer that deletes items leaves the requests of those items without their sender
  (`ExplorerServerTreeItem.cpp:228-233`; `AnswersFindTheirSender`). The rename of a function keeps the old one on a modern server; a listing that
  failed is shown as an empty one; creating a database twice gives two items; dropping an index, a user or a function,
  renaming and duplicating are not asked about; dropping a database keeps its users.
- **Documents.** After a write every Notifier reads its own query again, for part 0 whatever its part (`Notifier.cpp:256-288`), so the first
  part may show documents of another collection, and a write from there goes to the collection the part had
  (`WritesReachTheirCollection`); a view may be deleted while a dialog it has
  opened is open (`DialogsKeepTheirView`); saving a document emptied in the editor leaves the progress display; a later deletion of
  several that fails is silent (`MongoServer.cpp:275`); inserting is never asked about; an edit inserts a document deleted meanwhile.
- **Driver operations.** A copy drops its target before it opens the cursor on its source (`MongoClient.cpp:493`), and with two
  connections to one server it can drop its own source, which the dialog says is never modified (`CopyResultsDialog.cpp:115, 180-186`;
  `SourceIsNeverModified`); it takes E11000 of any unique index for a document that is there already, and counts as skipped what the target
  has not got (`MongoClient.cpp:505-507`; `SkippedArePresent`); the drop of an index edit may take effect and
  throw, and then nothing puts the index back (`MongoClient.cpp:229`); a failed export leaves part of a file; the check for `$out` looks at
  the first field of a stage; saving a document overwrites what changed meanwhile; an index edit may be answered twice.
- **Settings.** `save()` truncates in place: a save cut by a kill is replaced by defaults at the next start (`SettingsManager.cpp:106, 151`); a second
  file of a newer build with the same schema is not backed up (`SettingsManager.cpp:568`), and the result of the copy that makes the backup is ignored, so that the next
  save may overwrite the only one (`SettingsManager.cpp:569`; `NewerIsRecoverable`); a failed copy of a legacy directory is never tried again; an import of Robo 3T that cannot be read counts as done; `importFromFile()` overwrites missing
  values with 0 or false; `edit()` after `remove()` reads deleted items (`ConnectionsDialog.cpp:396`).
- **Connection form.** "Perform authentication" off still sends the user in the URI; an empty mechanism becomes SCRAM-SHA-1 on OK while
  the URI used SCRAM-SHA-256; "From URI" loses TLS, authentication database and mechanism, decodes nothing, and reads a replica set without a
  name as a single server; "Use SSL" and the CRL survive the clearing of their tab; the file of a certificate is sent though it is switched off.
- **Collection and index dialogs.** `max` beyond an int becomes no bound. A TTL of 0 seconds is not sent (`MongoClient.cpp:251`; CHANGELOG:316 says it should be allowed;
  `TypedZeroExpires`), so an index edited, or
  put back after a failed edit, is without it; unticking "Expire after" keeps the old TTL (`AddEditIndexDialog.cpp:270-274`): both
  are the exceptions `MadeAsShown` names. Numbers and flags the server has as doubles are read as 0 and false
  (`MongoClient.cpp:70-73`), and an edit writes that back; collation and `hidden` are lost by an edit (`KnownWhole`).
- **Backup and restore.** Fields stay enabled during a run, so that the tool that runs may not be the one its arguments were made for
  (`ToolFitsArguments`); Stop after the exit reports "Stopped"; a selection of more than one collection dumps also the collections created since
  the tree was loaded; only two of the four tools are looked for.
- **Window and notices.** Closing minimised under Wayland stores a geometry that is not maximised; the visibility of toolbars is saved and
  never restored; of two failures out of order the second is not shown (`MainWindow.cpp:1155`; `EachFailureIsShown`).
- **Options.** A timeout changed while a server is being connected does not reach its engine; preferences and import leave the marks of
  the menu stale; an empty field for the timeout is 0.
- **Completion.** A closing parenthesis typed within quotes is taken for text and goes in beside the one the editor had added
  (`(`, `'`, `)` give `(')')`), so the parentheses of a line need not match though each key did what it says; `ClosersAreOwed` asks that
  each closing character after the caret has an opening one before it, not that they can be counted. A late answer opens a popup again that was dismissed by Escape; a request skipped while a script runs is not repeated.
- **Syntax check.** Marks legal text: blocks side by side in a block or an arrow body, `get "x"() {}`, a regular expression after `)`.
- **Splitting.** `var x = {}` and a find on the next line lose the result without a semicolon; a comment after an expression, or before
  `var`, is an error; `async function` is taken for an expression; `let` and `const` live in their statement only.
- **Fast path.** A negative limit or skip and a second empty sort differ from mongosh; the premise is `Ordinary`.
- **Text of documents.** Doubles are printed with 15 digits and some types cannot be read back (`json.cpp:14-16` says "rather than us
  silently producing a different document"; `NeverADifferentDocument`): symbols become strings, code that is JSON a value. The offset of
  +05:45 is printed as +05:15 (`ptimeutil.cpp`; `SuffixIsTheOffset`), and saving in local time shifts such dates.
- **Export.** Flattened names with dots lose their values; a sheet drops rows beyond its last and reports those it wrote.

## What is proved

Every theorem holds for all values of the constants that the named assumptions of its module admit, that is for any
number of objects, tabs, clients, servers, documents or connections and any bounds. The assumptions say that the bounds are
numbers, that the values that stand for "none" are none of the others, and, for `SshTunnel`, `Documents`, `DriverOps` and the loaded
collections of `ToolRunner`, that clients, views, documents and collections are finitely many. `DirOrderAssumption` (Settings) says that
a version directory is named by a number that no connection made later gets as its id: in the model the directory also names the
connection found in it. One theorem has a hypothesis of its own, since the code does not keep the property without:
`PagesShownRight` that no script has an aggregation below a find (`NoAggregateBelowFind`), which is told above. `NamesAssumption`
(ExplorerTree) says that no collection is called like a folder of the tree, since one set, `toldOf`, has the names of both.
The fairness of a `Spec` is not used.

Some of these properties have a premise, and the theorem says no more than it does. `PagesAreShownRight` and `RunsAreTold` are
about requests of which none was a script on its way together with another (`~rushed`): pages of finds may overlap, runs may
not, and what the code does when they do is told above. `BusOK` is about subscriptions, not about receivers `publish()` has
already collected. `DeletedAreGone` is about tabs of one or two parts: with more, the answer goes to the part that is
shown (`OutputWidget.cpp:115-116`). `NewerIsBackedUp` is about the first file of a newer build whose copy did not fail.

| Module | Theorem | States |
|---|---|---|
| MongoshEngineProofs | `TypeCorrect`, `FramesAreOwn`, `ResultsOfARun` | `TypeOK`, `OwnFrame`, `ResultsAreOfARun` |
| | `EngineImplements` | `ImplementsScriptCall`, the refinement |
| | `RunsInTheirDb` | `RunsInRequestedDb` |
| ConnectionsProofs | `ServersAreKept` | `ServersAreOwned` (Connections) |
| | `TreeIsKept` | `TreeIsSound` (ExplorerTree) |
| ShellsProofs | `TabsServed` | `TabsAreServed` (Shells) |
| | `SettingsAreKept`, `NothingIsLost` | `SettingsAreSound`; the step property `SettingsSurvive` (Settings) |
| TabsAndToolsProofs | `RunsToldRight`, `PagesShownRight` | `RunsAreTold`; `PagesAreShownRight` (QueryTab) |
| | `ToolRunsAreSound`, `StopIsFinalAlways` | `ToolIsSound`; the step property `StopIsFinal` (ToolRunner) |
| RemoteProofs | `TunnelKeeps` | `TunnelKeepsData` (SshTunnel) |
| | `OperationsAreSound` | `OpsAreSound` (DriverOps) |
| DocumentsProofs | `HandlersAtHome`, `BusIsOK` | `HandlersRunAtHome`, `BusOK` (EventBus) |
| | `ViewsFollowWrites`, `WritesAreConfirmed` | `DocumentsAreSound`; the step property `GuardedAreAsked` (Documents) |
| | `ViewsShowTheirPage` | `ViewsAreSound` (ResultViews) |
| WindowProofs | `HistoryIsWellKept`, `RunsKeepPins` | `HistoryIsSound`; the step property `PinsSurviveRuns` |
| | `OptionsAgree`, `ToggleTellsTheTruth` | `OptionsAreSound`; the step property `ToggledIsMarked` |
| | `TabsAndTitlesAreTrue` | `WorkAreaIsSound` |
| | `FrameIsRepaired`, `NoticesTellOnce` | `FrameIsSound`, `NoticesAreSound` |
| | `CompletionIsKept`, `TokensAreReplaced` | `CompletionIsSound`; the step property `OnlyTheTokenIsReplaced` |

None of these invariants is inductive as it stands. For each the proof adds what the code relies on without saying so. The
strengthened invariants were found with TLC, which checks them on the bounded instances as well; each is proved with one lemma per
action or per conjunct.

### The engine

`parseExecOutput()` takes the first frame it finds and compares no id (`MongoshEngine.cpp:418-445`), while every
execution that timed out leaves its lines and output in the pipe. The answer is still the execution's own, because
phase 1 is a barrier. The invariant proved is

    IInv == TypeOK /\ IdsAreIssued /\ CallIsOfExec /\ PrepareIsLast /\ PipeIsOwn /\ OwnFrame

`IdsAreIssued`: nothing in the pipes has an id above the counter, so that a fresh id is
fresh. `PrepareIsLast`: in phase 1 the last line written, or, once it is
evaluated, the last token printed, is the call's own prepare line or its answer,
and there is no other; so a read that has found it leaves nothing behind.
`PipeIsOwn`: hence phase 2 starts with empty pipes, and everything in them then is
its own.

For `ResultsOfARun` and the refinement the invariant is `RInv`, that is `IInv` and six facts more. `PrepIsOfCall`: the prepare
line of the call in progress has its script, so that a good answer to it is about that script.
`RunsAreIssued` and `CallIsFresh`: because phase 2 writes into an empty pipe, a run line is
always the first of the pipe, so there is at most one; its id has not run, and neither has the one of
phase 1. `RunComesFirst`: in phase 2 the run line is still first and nothing was printed, or the script has
run; so what is read is printed after it. `AnswerIsLast` and `OpenIsIssued` tie the call to the
mapping: `issued` is the id counter, `open` the id while a call is in its two phases, `effects` the ids
of `ran`, `ended` the id of an answer with results. Each step maps to one step or a stutter
(`StepImplements`): a line that runs a script to `Effect`, `SendPrepare` and `Complete`
to `Issue`, the ends of a call to `EndWithResults`, `EndWithout` or `Forget`.

`RunsInRequestedDb` cannot be said of every run: a `use` inside a script moves the process without the engine's knowledge, and so
may a start that fails after the process is there (see above). The history variable `strayed` says that this has happened to the
present process and that no `__robo_use()` has moved it since; the property is about all other runs. `_currentDb` is set when the
switch is written, not when it is answered, so it may be ahead of the process for long. `DbInv` says how far: the lines in the pipe
lead a running process to `_currentDb` (`ProcessFollows`, with `EndsIn` and `Leads` for the last switch in the pipe), or, right
after a start, to the database of the call; a process that has strayed is led there by the next switch, if one is written. The call
in progress is in `_currentDb` (`CurrentIsOfCall`); since the run line is written into an empty pipe, the process is in its database
then and when it evaluates it (`RunsAreAtHome`). An engine whose start failed has no switch in its pipe
(`NoSwitchAfterFailure`), so that `init()` may set `_currentDb` back.

### The event bus

`BusSafe` adds only that no event without receivers is posted. The work is in `publish()` and `send()`: the receivers of one event
are taken from the subscribers for one dispatcher, dispatchers are found by the address of a thread, and so the receivers of one event
live in the thread it is posted to. That a subscriber is the object that subscribed, and not a later one at its address, needs that
`unsubscibe()` takes out all of an object's entries, whatever its thread.

### Shells

Whether a run was right is decided when it is taken from the queue, by the database the worker was made with when its first tab was
opened. `Served` adds what links the two: a request waits at the server of its tab and names no database or the tab's
(`RequestsAreOfTabs`); and the worker of a tab that is alone on its server, among open and closed tabs, has that tab's host and
database (`AloneOnOwnServer`).

### Connections

An item could lose its server to a late failure, or get two, if two answers about one attempt were under way. `ConnectionsKept` says
that there never are: an attempt is made by the tunnel, then asked of the worker, then answered, and is in one of the three places
only (`TunnelOK`, `AskOK`, `PostOK`, `NoClash`); `_servers` has a handle at most once, although it has null pointers more than once
(`NoTwice`); and a handle with an item has no first answer to come (`ItemOK`), so that what is still to come is of refreshes.

### The explorer tree

An answer writes what the worker saw into a folder, and by then another operation may have changed the server. `TreeInv` says of every
folder and every index list that is shown, and of every list that is on its way to one, that it is what the server has, or that it
will be revised: a later answer, or a request that is still queued, replaces what is shown or asks for it again (`Revised`). Which
ones do is the work of the proof (`Revises`): the list of databases deletes all items, so it revises all of them; an
answer about an index revises the collections shown only if these are those that asked (the `batch` of an item), for
otherwise its sender is gone. `CreatedKept` says the same of the list of databases after a creation, `OfflineKept` that a set
whose primary was lost is shown so or is being connected again. All of this holds as long as no answer has met a deleted sender
(`dangling`). In the proof two `CASE`s of the first model were found to have guards that overlap, where TLC takes the
first and the logic says nothing; they were made disjoint (`RenameIn`, `IndexAnswered`).

### The SSH tunnel

`Tunnelled` says what the select loop knows in the middle of a pass: a client that is ready has a channel (`ReadyIsServed`), the
index of the inner loop is one of a channel (`PassCounts`), whoever is in the backlog was never accepted (`NewcomersWait`), the
channels are the accepted clients and are watched (`Channelled`), and nothing is pending for a client without channel
(`PendingIsOwed`), which is why data for a closed one cannot be taken for that of a later one. That data on the wire is counted right
needs the lemmas on occurrences in a sequence from which other packets are taken.

### Documents

The answers to all deletions of a selection but the first are ignored, and an answer makes every view read again, with answers
of earlier reads still on their way; that the views are right in the end depends on the order of the one queue.
`TailsAreFollowed`: while one of the other deletions is still to be done, the first one is still to be heard of, or for every view a
query is behind it in the queue. `ViewsComeTrue`: the first of one or two parts shows what there is, or the last answer on its way to it does, or a
query for it or a write that leads to one is still queued; with both queues empty this is `DeletedAreGone`. `WaitingIsFor` says
the same of progress displays, `OfItsTab` that a dialog names documents of the tab it is open in.

### The window

- **History**: entries and file are made of one another by each instance, so the order and uniqueness of keys must hold of both and of
  every instance at once (`HistoryKept`); a stamp is never later than the clock, which makes the new entry of a run the newest.
- **Options**: `MadeWithTheSetting`: a server whose engine is not started yet was made with the present timeout unless it missed a
  change; otherwise an engine started later could read with an old one.
- **Work area**: `ShellOK` has the two sides of the star: `_isTextChanged`, which the code keeps, and the title, which is only
  written from it now and then. `BarOK`: the pages of the bar are different, so that closing one closes one shell.

- **Frame**: `IntentsAreAsked`: whatever may yet maximise the window, the flag armed when its surface went or a timer, was asked for
  by the user last; `StoredIsSound` carries the sizes over the end of the program.
- **Notices**: `ToldAreOfFailures`: the handles told of grow, and the last one told is the newest that failed; so comparing with one number,
  as `MainWindow.cpp:1155` does, is enough to tell each server's failure once.
- **Completion**: `PopupIsOfInfo`: what is shown, and what was asked for, is about the token of `info`, which was read from the line and caret
  in `seen`; so an answer that finds the same token at the caret may show its names. For `ClosersAreOwed` the invariant is itself
  inductive in the right form: the openers of the closing characters after the caret are a decreasing list of places before it, and
  each key puts one in front, drops the first or leaves it as it is. Counting, which the property did at first, is not: TLC
  finds the counterexample once lines are longer than 4 characters.

### The query tab

`OnlyFindsOverlap` says what the progress popup leaves: unless the user rushed, what is on its way is one request or pages of finds only,
and these carry the index of their part. `TextIsOfScript` ties the one field `_lastExecutedQuery` to the script on its way. With both
`RunsAreTold` is inductive. For pages `PagesAreAimed` adds that in a splitter the part a page was asked from is still there when it
arrives, for parts go only when a script's answer comes; its hypothesis is needed because an aggregation has no index to
go by.

### The tools

While a tool runs, the plan is that of the form as it was when Run was pressed, and the process is the plan's current step
(`RunIsOfForm`); what the steps done were to dump is held by the outputs they wrote (`DumpsAreHeld`). This last is where it may go
wrong: an archive is written anew, so it needs that no two steps have the same one (`ArchiveFor`), while a folder is added to.

### The views of a result

Threads that were stopped go on to post what they had prepared, and the view takes every signal of the newest thread. `TextIsComing`: the
text in the view, the signals of the newest thread still on their way, and what this thread has left are, put together, the
documents of the page in order. `Counts` is the bookkeeping: a function that says, after each signal in the queue, how many documents
are there.

### Operations on the server

An operation is a list of calls, and between two of them other clients write. The invariant `OpsInv` says for each kind of operation at
which of its calls it is and what the server then has. A call that failed may have done its work, so the facts about what the
server has are tied to where the operation is and not to how it got there. `IndexIsInOrder`: before the drop the old
index is there, between drop and creation it may be missing, but then the list to put things right still has it; once the drop itself has
failed nothing is known. `FunctionIsInOrder`: the new
function is there before the old one is deleted. `CopyIsInOrder`: the stages follow each other, and no more of the documents taken from the
cursor are missing in the target than were counted as skipped (`Missing`), unless something failed; a drop of the target comes before the cursor is opened, so
it takes away none of them. `LastCallCounts`: an answer without error is given after the last call and not before.

### The settings

`SourceIsSafe`: unless a write was cut or failed, all that was known to be saved is in the source the next start will read (`docutaz.json`,
or the newest version directory, with Robo 3T's list where it was not imported), and under the key that start will use (`NextKey`).
That it is found again needs `Apart` and `Given`: the ids and uuids of every list, in the file, the directories, the memory
and Robo 3T's, are different and not ahead of the counters, also where two lists are merged.

### Lemmas

`SequenceLemmas` has what these proofs share. Induction over the length of a list is done there in first-order form: a set that
holds 0 and with each number its successor holds all of 0..n (`Climb`), which follows from the least element of a set of numbers.
So `Keep` is shown to pick, in order, exactly the places whose element is in the set (`KeepFacts`), from which everything else about it
follows: its set, that nothing is longer or occurs twice, how often an element occurs. The other lemmas are of lists in which nothing
occurs twice when an element is put in front, appended or removed, and of the lists of a finite set.

## What is only model-checked

- Liveness under fairness (`CallsReturn`, `PostedIsDelivered`, `AttemptsEnd`, `EveryScriptRuns`, `TunnelServes`, `OwedComes` and the others),
  which the prover cannot express.
- The scanners and conversions: `SyntaxCheck`, `ScriptSplit`, `DriverFind`, `ConnectionForm`, `CollectionForm`, `IndexForm`, `DocumentText` and `IsoTime`
  are compared with reference definitions over bounded inputs; what such a function does with every input is an induction for
  each reference definition. `ExportTable` uses a recursive operator, which no module with a theorem may reach.

## What is not modelled

- `prewarm()` of the engine (compiled out, `MongoWorker.cpp:115`); the interrupt of a script by
  the user (`MongoShell::stop()` is commented out, lines 71-75, and nothing sends the request).
- The decoding of frames; requests that only return what the server answers (statistics, server status, logs).
- Message boxes and modal dialogs run a nested event loop; it is modelled in Notices and Documents, and one
  step in the other modules.
- The import of settings of 0.8.5 and older, passphrase prompts and file pickers.
- Themes, fonts, toolbars, tooltips, the tables of words and the lexer, the formatter of scripts, the models of
  the tree and table views: presentation.
- Documents with NaN, DBRef or code with scope; the files of the export formats and the formatting of a cell.
- The old embedded shell and the compatibility layer of an older MongoDB code base, vendored code.

## Plan

1. Done: `MongoshEngine` with `ScriptCall` and its proofs, `EventBus`, `QueryTab`, `Connections`, `Shells`,
   `QueryHistory`.
2. Done: `SshTunnel`, `ExplorerTree`, `DriverOps`, `Documents`, `Settings`, `ConnectionForm`, `ToolRunner`, `WorkArea`,
   `Options`, `WindowFrame`, `Notices`, `Completion`, `ResultViews`, and the scanners and conversions.
3. Proved: every safety invariant that is about an order of events, and the refinement of the engine: see the table above.
4. Left to TLC: the liveness properties, and the scanners and conversions.
