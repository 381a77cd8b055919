------------------------------ MODULE Settings ------------------------------
(***************************************************************************)
(* The settings of the program across its starts: SettingsManager and its  *)
(* file, the key of DocutazCrypt, the agreement of main(), the list of     *)
(* connections that ConnectionsDialog edits.                               *)
(* The program may be killed at any moment and a write may fail or be cut; *)
(* between two starts a newer build may rewrite the file.                  *)
(***************************************************************************)
EXTENDS ConnectionForm

CONSTANTS
  DirOrder,     \* version directories in the order QDir lists them (by name)
  MaxConns,     \* bound: connections ever made
  MaxStarts,    \* bound: starts of the program
  MaxNewer      \* bound: rewrites by a newer build

ASSUME BoundsAssumption == {MaxConns, MaxStarts, MaxNewer} \subseteq Nat
\* A directory also names its connection, apart from those made later.
ASSUME DirOrderAssumption ==
  DirOrder \in Seq(3..199) /\ \A v \in Range(DirOrder) : v > MaxConns

VARIABLES
  file,         \* docutaz.json: none, torn, or a configuration
  dirs,         \* the configurations of the version directories
  robo,         \* the configuration of Robo 3T
  bak,          \* docutaz.json.from-schema-4.bak
  keyFile,      \* docutaz.key; 0: none
  oldKey,       \* robo3t.key; 0: none
  run,          \* the process: off, asking for the agreement, on
  mem,          \* SettingsManager in memory
  key,          \* DocutazCrypt::_KEY
  dialog,       \* the connections dialog and its items, some of them deleted
  ids, uuids, starts, newer,  \* counters
  safe,         \* history: the connections last known to be on disk
  lost,         \* history: a write was cut or failed since
  accepted,     \* history: the agreement on disk
  firstNewer    \* history: the first configuration of a newer build whose backup was made

settingsVars == <<file, dirs, robo, bak, keyFile, oldKey, run, mem, key, dialog,
          ids, uuids, starts, newer, safe, lost, accepted, firstNewer>>
disk == <<file, bak, keyFile>>
world == <<dirs, robo, oldKey>>
history == <<safe, lost, accepted, firstNewer>>

CurrentConfigSchema == 3
CurrentEula == "1"
NoFile == [is |-> "none"]
Torn == [is |-> "torn"]
Config(schema, conns, imported, eula) ==
  [is |-> "config", schema |-> schema, conns |-> conns, imported |-> imported, eula |-> eula]

\* A connection is [id, uuid, pw]; on disk pw is the key that encrypts the
\* password, 0 for none. uuid 0 is the empty uuid.
Encrypt(pw, k) == IF pw THEN k ELSE 0
\* Decryption with another key fails its checksum and gives the empty text.
Decrypt(c, k) == c # 0 /\ c = k
ToVariant(conns, k) == [i \in DOMAIN conns |-> [conns[i] EXCEPT !.pw = Encrypt(@, k)]]
\* An empty uuid is filled in, the n-th empty one with the n-th new uuid.
Empties(conns) == {i \in DOMAIN conns : conns[i].uuid = 0}
FromVariant(conns, k, u) ==
  [i \in DOMAIN conns |->
     [id |-> conns[i].id, pw |-> Decrypt(conns[i].pw, k),
      uuid |-> IF conns[i].uuid # 0 THEN conns[i].uuid
               ELSE u + Cardinality({j \in Empties(conns) : j <= i})]]
Ids(conns) == {conns[i].id : i \in DOMAIN conns}

Defaults == [conns |-> <<>>, imported |-> FALSE, eula |-> {}]
ConvertToMap(m, k) == Config(CurrentConfigSchema, ToVariant(m.conns, k), m.imported, m.eula)

MigrateMap(c) ==
  [c EXCEPT !.schema = CurrentConfigSchema,
            !.eula = IF c.schema < 3 /\ @ # {} THEN @ \union {CurrentEula} ELSE @]

ImportFromFile(m, k, u) ==
  IF robo.is = "torn" THEN m ELSE [m EXCEPT !.conns = @ \o FromVariant(robo.conns, k, u)]
\* importFromOldVersion: done once, whether or not the file can be read.
ImportFromOldVersion(m, k, u) ==
  IF m.imported \/ robo.is = "none" THEN m
  ELSE [ImportFromFile(m, k, u) EXCEPT !.imported = TRUE]

LoadFromMap(c, k, u) ==
  LET m == IF c.schema < CurrentConfigSchema THEN MigrateMap(c) ELSE c
      own == FromVariant(m.conns, k, u)
  IN ImportFromOldVersion([conns |-> own, imported |-> m.imported, eula |-> m.eula],
                          k, u + Cardinality(Empties(m.conns)))

\* initKey: the key in memory, and the one to be written (0: nothing to write).
InitKey ==
  CASE keyFile # 0 -> [key |-> keyFile, write |-> 0]
    [] keyFile = 0 /\ oldKey # 0 -> [key |-> oldKey, write |-> oldKey]
    [] OTHER -> [key |-> 2 + starts, write |-> 2 + starts]

\* migrateFromPreviousLayout: the newest version, whatever the order of names.
MigrateLastName ==                                                        \* mutant
  LET Pick(best, v) == IF v \in DOMAIN dirs THEN v ELSE best
  IN FoldLeft(Pick, 0, DirOrder)
NewestDir == IF DOMAIN dirs = {} THEN 0 ELSE Max(DOMAIN dirs)

\* The result of QFile::copy is ignored: copied tells whether it did its work.
GuardDowngradeNever(c, copied) == bak                                     \* mutant
GuardDowngrade(c, copied) ==
  IF c.schema > CurrentConfigSchema /\ bak.is = "none" /\ copied THEN c ELSE bak

-----------------------------------------------------------------------------
Conn(id, uuid, pw) == [id |-> id, uuid |-> uuid, pw |-> pw]
Known(conns) == {[id |-> conns[i].id, pw |-> conns[i].pw] : i \in DOMAIN conns}

\* What earlier builds left: the last configuration of the newest, or that of Robo 3T.
FoundFirst ==
  IF dirs # <<>> THEN dirs[CHOOSE v \in DOMAIN dirs : \A w \in DOMAIN dirs : w <= v]
  ELSE IF robo.is = "config" THEN robo ELSE Config(3, <<>>, FALSE, {})
Openable(conns) == [i \in DOMAIN conns |-> [conns[i] EXCEPT !.pw = @ # 0]]

\* A first start: after nothing, after Robo 3T, or after a build that had a
\* directory per version, which imported the connection of Robo 3T.
SettingsInit ==
  /\ \E r \in {NoFile, Torn, Config(2, <<Conn(1, 1, 1)>>, TRUE, {})} :
       /\ robo = r /\ oldKey = IF r.is = "none" THEN 0 ELSE 1
  /\ \E vs \in {{}, Range(DirOrder)} :
       dirs = [v \in vs |-> Config(2, (IF robo.is = "config" THEN <<Conn(1, 1, 1)>> ELSE <<>>)
                                        \o <<Conn(v, 0, 1)>>, TRUE, {"old"})]
  /\ keyFile = IF dirs = <<>> THEN 0 ELSE 1
  /\ file = NoFile /\ bak = NoFile /\ run = "off" /\ mem = Defaults /\ key = 0
  /\ dialog = [open |-> FALSE, items |-> <<>>, freed |-> {}]
  /\ ids = 2 /\ uuids = 200 /\ starts = 0 /\ newer = 0
  /\ safe = Known(Openable(FoundFirst.conns)) /\ accepted = (FoundFirst.eula # {})
  /\ lost = FALSE /\ firstNewer = NoFile

\* The constructor of SettingsManager and the question of main(). bad: which
\* of its writes fails.
Start ==
  /\ run = "off" /\ starts < MaxStarts /\ starts' = starts + 1
  /\ \E bad \in {"none", "copy", "key", "save", "backup"} :
       LET k == InitKey
           copies == file.is = "none" /\ NewestDir # 0
           f == IF copies /\ bad # "copy" THEN dirs[NewestDir] ELSE file
           g == IF f.is = "config" THEN f
                ELSE IF bad = "save" THEN NoFile ELSE ConvertToMap(Defaults, k.key)
           fresh == IF g.is = "config" THEN Cardinality(Empties(g.conns)) ELSE 0
       IN /\ key' = k.key
          /\ keyFile' = IF k.write # 0 /\ bad # "key" THEN k.write ELSE keyFile
          /\ file' = IF g.is = "config" THEN g ELSE f
          /\ bak' = IF f.is = "config" THEN GuardDowngrade(f, bad # "backup") ELSE bak
          /\ mem' = IF g.is = "config" THEN LoadFromMap(g, k.key, uuids) ELSE Defaults
          /\ uuids' = uuids + fresh
          /\ lost' = (lost \/ (copies /\ bad = "copy") \/ g.is # "config")
          /\ firstNewer' = IF /\ f.is = "config" /\ f.schema > CurrentConfigSchema
                              /\ firstNewer.is = "none" /\ bad # "backup"
                           THEN f ELSE firstNewer
  /\ run' = IF CurrentEula \in mem'.eula THEN "on" ELSE "eula"
  /\ UNCHANGED <<world, dialog, ids, newer, safe, accepted>>

\* save(): the file is truncated and written; m is memory then. A failure to
\* open leaves the file, one to write leaves it torn; no caller asks.
Readable == key = keyFile \/ (keyFile = 0 /\ key = oldKey)
Save(m) ==
  /\ \/ /\ file' = ConvertToMap(m, key) /\ lost' = FALSE /\ accepted' = (CurrentEula \in m.eula)
        /\ safe' = {[c EXCEPT !.pw = @ /\ Readable] : c \in Known(m.conns)}
     \/ file' = Torn /\ lost' = TRUE /\ UNCHANGED <<safe, accepted>>
     \/ UNCHANGED <<file, safe, lost, accepted>>
  /\ UNCHANGED <<bak, keyFile, world, key, starts, newer, firstNewer>>

Forget == /\ mem' = Defaults /\ key' = 0
          /\ dialog' = [open |-> FALSE, items |-> <<>>, freed |-> {}] /\ run' = "off"
\* The program ends or is killed: quitting saves nothing.
Stop == /\ run # "off" /\ Forget /\ UNCHANGED <<disk, world, ids, uuids, starts, newer, history>>
\* Killed inside a save.
Cut == /\ run # "off" /\ Forget /\ file' = Torn /\ lost' = TRUE
       /\ UNCHANGED <<bak, keyFile, world, ids, uuids, starts, newer, safe, accepted, firstNewer>>

AcceptEula ==
  /\ run = "eula" /\ run' = "on" /\ mem' = [mem EXCEPT !.eula = @ \union {CurrentEula}]
  /\ Save(mem') /\ UNCHANGED <<dialog, ids, uuids>>

\* A setting is changed in a menu, or a set name was cached: also while the
\* dialog is open, with what it has done so far.
SaveNow == /\ run = "on" /\ Save(mem) /\ UNCHANGED <<run, mem, dialog, ids, uuids>>

-----------------------------------------------------------------------------
(* ConnectionsDialog *)
DialogStep == /\ run = "on" /\ dialog.open
              /\ UNCHANGED <<disk, world, key, starts, newer, history>>

OpenDialog ==
  /\ run = "on" /\ ~dialog.open
  /\ dialog' = [open |-> TRUE, items |-> [i \in DOMAIN mem.conns |-> mem.conns[i].id], freed |-> {}]
  /\ UNCHANGED <<disk, world, run, mem, key, ids, uuids, starts, newer, history>>

\* A new connection has no uuid until it is loaded from the file.
Add == /\ DialogStep /\ ids < MaxConns /\ ids' = ids + 1
       /\ \E pw \in BOOLEAN : mem' = [mem EXCEPT !.conns = Append(@, Conn(ids', 0, pw))]
       /\ dialog' = [dialog EXCEPT !.items = Append(@, ids')]
       /\ UNCHANGED <<run, uuids>>

\* A clone is edited, and applied to the original when it is accepted.
Edit == /\ DialogStep
        /\ \E i \in DOMAIN mem.conns : mem' = [mem EXCEPT !.conns[i].pw = TRUE]
        /\ UNCHANGED <<run, dialog, ids, uuids>>

\* Then a loop looks for the item; it reads the deleted items before it, and
\* may end the program.
EditAfterRemove ==
  /\ run = "on" /\ dialog.open /\ Forget
  /\ \E j \in dialog.freed, n \in DOMAIN dialog.items \ dialog.freed : j < n
  /\ UNCHANGED <<disk, world, ids, uuids, starts, newer, history>>

Clone == /\ DialogStep /\ ids < MaxConns /\ ids' = ids + 1 /\ uuids' = uuids + 1
         /\ \E i \in DOMAIN mem.conns :
              mem' = [mem EXCEPT !.conns = Append(@, [mem.conns[i] EXCEPT !.id = ids', !.uuid = uuids'])]
         /\ dialog' = [dialog EXCEPT !.items = Append(@, ids')]
         /\ UNCHANGED run

RemoveConn == /\ DialogStep
          /\ \E i \in DOMAIN mem.conns, n \in DOMAIN dialog.items :
               /\ dialog.items[n] = mem.conns[i].id /\ n \notin dialog.freed
               /\ mem' = [mem EXCEPT !.conns = RemoveAt(@, i)]
               /\ dialog' = [dialog EXCEPT !.freed = @ \union {n}]
          /\ UNCHANGED <<run, ids, uuids>>

Reorder == /\ DialogStep
           /\ \E i \in DOMAIN mem.conns : i > 1 /\
                mem' = [mem EXCEPT !.conns = InsertAt(RemoveAt(@, i), 1, @[i])]
           /\ UNCHANGED <<run, dialog, ids, uuids>>

\* MainWindow::manageConnections after exec(): saved also when it was
\* cancelled.
CloseDialog ==
  /\ run = "on" /\ dialog.open /\ Save(mem)
  /\ dialog' = [open |-> FALSE, items |-> <<>>, freed |-> {}]
  /\ UNCHANGED <<run, mem, ids, uuids>>

\* A newer build opens the file, adds a connection and saves it in its schema.
NewerBuild ==
  /\ run = "off" /\ file.is = "config" /\ newer < MaxNewer /\ ids < MaxConns /\ keyFile # 0
  /\ newer' = newer + 1 /\ ids' = ids + 1 /\ uuids' = uuids + 1
  /\ file' = Config(4, Append(file.conns, Conn(ids', uuids', keyFile)), file.imported,
                    file.eula \union {CurrentEula})
  /\ safe' = {[id |-> c.id, pw |-> c.pw = keyFile] : c \in Range(file'.conns)}
  /\ lost' = FALSE /\ accepted' = TRUE
  /\ UNCHANGED <<bak, keyFile, world, run, mem, key, dialog, starts, firstNewer>>

SettingsNext ==
  \/ Start \/ Stop \/ Cut \/ AcceptEula \/ SaveNow
  \/ OpenDialog \/ Add \/ Edit \/ Clone \/ RemoveConn \/ EditAfterRemove \/ Reorder \/ CloseDialog
  \/ NewerBuild
SettingsSpec == SettingsInit /\ [][SettingsNext]_settingsVars

-----------------------------------------------------------------------------
Configs == {c \in {file, bak, firstNewer, robo} : c.is = "config"}
SettingsTypeOK ==
  /\ \A c \in {file, bak, firstNewer, robo} : c.is \in {"none", "torn", "config"}
  /\ \A c \in Configs : \A d \in Range(c.conns) : d.pw \in 0..(1 + MaxStarts) /\ d.uuid \in Nat
  /\ run \in {"off", "eula", "on"} /\ (run = "off" => mem = Defaults)
  /\ \A c \in Range(mem.conns) : c.pw \in BOOLEAN /\ c.uuid \in Nat
  /\ dialog.freed \subseteq DOMAIN dialog.items
  /\ (dialog.open => Ids(mem.conns) = {dialog.items[n] : n \in DOMAIN dialog.items \ dialog.freed})

\* Unless a write was cut or failed since, every start finds every connection
\* that was saved: also the first one, which takes them from the newest
\* version directory or from Robo 3T, and one after a newer build (comments of
\* the constructor and of migrateFromPreviousLayout).
NothingIsForgotten ==
  [][run = "off" /\ run' # "off" /\ ~lost'
       => \A c \in safe : c.id \in Ids(mem'.conns)]_settingsVars

\* A password that was saved can be read at the next start: the key stays what
\* it was, also when it comes from Robo 3T (comments of initKey).
PasswordsSurvive ==
  [][run = "off" /\ run' # "off" /\ ~lost'
       => \A c \in Range(mem'.conns) : [id |-> c.id, pw |-> TRUE] \in safe => c.pw]_settingsVars

\* Connections that have an identifier have one of their own, whatever was
\* imported, migrated, cloned or reloaded: getConnectionSettingsByUuid and the
\* sharing of shells take the first connection they find.
UuidsIdentify ==
  \A i, j \in DOMAIN mem.conns : i # j /\ mem.conns[i].uuid # 0 => mem.conns[i].uuid # mem.conns[j].uuid

\* Who accepted the agreement, in this build or in one with a directory per
\* version, is not asked again (comment of migrateMap).
AskedOnce == run = "eula" => ~accepted \/ lost

\* The first file of a newer build whose copy did not fail stays in the
\* backup as it was, whatever this build and newer ones then save over it and
\* however often it starts. A copy that fails is not told to anyone, and a
\* second newer file is not copied: see NewerIsRecoverable.
NewerIsBackedUp == firstNewer.is = "config" => bak = firstNewer

\* "Don't reinterpret/overwrite it silently - back it up so the user can
\* recover" (comment of guardDowngrade): once a newer build has saved, its file
\* or a copy of one is on the disk.
\* (The program does not keep this: README.)
NewerIsRecoverable ==
  newer > 0 => \E c \in {file, bak} : c.is = "config" /\ c.schema > CurrentConfigSchema

\* The connection forms do not depend on the state: they are looked at in one.
AtFirst == starts = 0 /\ dirs = <<>> /\ robo.is = "none"

\* Opening the dialog of a connection and pressing OK leaves what the driver
\* is told as it was, for a connection whose mechanism the combo box knows; a
\* set name that was only cached is forgotten (ConnectionBasicTab::accept
\* clears it), and nothing else is: not the credentials of a disabled check
\* box, not the members of the hidden list.
UntouchedDialogKeepsUri == AtFirst => KeptUri

\* The driver, mongosh and the database tools are told the same servers, user,
\* authentication and TLS: the two copies of the builder agree.
ToolsFollowTheDriver == AtFirst => SameForTools

\* A connection string the program wrote, brought back with "From URI" into
\* any dialog, leads to the same servers with the same user, password and
\* database, for a password without reserved characters and a replica set with
\* a name; nothing of the connection the dialog showed before is left in them.
ImportReachesTheSameServers == AtFirst => SameAfterImport

\* The list of connections, the agreement and the backup survive every start as they should.
SettingsAreSound == SettingsTypeOK /\ UuidsIdentify /\ AskedOnce /\ NewerIsBackedUp

\* What was saved is found at the next start, with its passwords.
SettingsSurvive == NothingIsForgotten /\ PasswordsSurvive

\* The forms of a connection, its URI and the command line of the tools say the same.
ConnectionFormsAgree == UntouchedDialogKeepsUri /\ ToolsFollowTheDriver /\ ImportReachesTheSameServers
=============================================================================
