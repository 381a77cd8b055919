------------------------------ MODULE MCDialogs ------------------------------
(***************************************************************************)
(* Small instances of the dialogs and of what they ask for, side by side:  *)
(* the modules share no state, so each behaviour exercises one of them and *)
(* leaves the others in one state.                                         *)
(***************************************************************************)
EXTENDS ToolRunner, Settings, CollectionForm, IndexForm, DocumentText, IsoTime, DriverOps

VARIABLE part   \* the module whose steps a behaviour takes

-----------------------------------------------------------------------------
(* Two databases, one of them loaded in the tree before a collection was   *)
(* added; the folder of the preferences has no tools, the PATH has them.   *)
MCDbOrder == <<"x", "y">>
MCLoaded == [d \in {"x", "y"} |-> IF d = "x" THEN {"a", "b", "c"} ELSE {}]
MCActual == [d \in {"x", "y"} |-> IF d = "x" THEN {"a", "b", "c", "new"} ELSE {"a"}]
MCHas == [d \in {"pref", "path"} |-> IF d = "path" THEN Tools ELSE {}]

(* Version directories 1.10 and 1.9, which QDir lists in this order.       *)
MCDirOrder == <<110, 109>>

MCServers ==
  {[version |-> 70, engine |-> "wiredTiger"], [version |-> 32, engine |-> "inMemory"],
   [version |-> 30, engine |-> "wiredTiger"], [version |-> 26, engine |-> ""]}

MCPlainIndex == [NoIndex EXCEPT !.name = "w1", !.keys = "j1"]
MCListed ==
  {MCPlainIndex,
   [MCPlainIndex EXCEPT !.ttl = 60, !.ticks = {"unique"}],
   [MCPlainIndex EXCEPT !.ttl = 0],
   [MCPlainIndex EXCEPT !.ttl = 90, !.ticks = {"unique", "sparse"}, !.unread = {"ttl", "sparse"}],
   [MCPlainIndex EXCEPT !.more = TRUE, !.ticks = {"sparse"}],
   [MCPlainIndex EXCEPT !.partial = "j1", !.ticks = {"background"}],
   [MCPlainIndex EXCEPT !.language = "w1", !.override = "w2", !.weights = "j1"]}

(* Every type of value, strings of up to three characters that quoting or  *)
(* the reader could trip over, and names that look like constructors.      *)
MCLetters == {"dq", "sq", "bs", "nl", "a", ":", "(", ")", "NumberLong", "}"}
MCStrings == {Scalar("string", s) : s \in UNION {[1..n -> MCLetters] : n \in 0..3}}
MCScalars ==
  {Scalar("double", <<"1">>), Scalar("double", <<"0.1">>), Scalar("double", <<"0.30000000000000004">>),
   Scalar("double", <<"1e+300">>), Scalar("int", <<"5">>), Scalar("long", <<"5">>),
   Scalar("decimal", <<"1.50">>), Scalar("bool", <<"true">>), Scalar("null", <<"null">>),
   Scalar("undefined", <<"undefined">>), Scalar("symbol", <<"a">>), Scalar("oid", <<"5f">>),
   Scalar("uuid", <<"AAAA">>), Scalar("legacyUuid", <<"AAAA">>), Scalar("binary", <<"AAAA">>),
   Scalar("date", <<"2020T">>), Scalar("farDate", <<"5">>), Scalar("timestamp", <<"5">>),
   Scalar("regex", <<"a">>), Scalar("minKey", <<"1">>), Scalar("code", <<"a", "(", ")">>),
   Scalar("code", <<"5">>), Scalar("string", <<"a", "dq">>), Scalar("string", <<>>),
   Compound("object", <<>>), Compound("array", <<>>)}
MCNames == {<<"a">>, <<"a", "dq">>, <<"sq", "sp">>, <<"NumberLong", "(">>, <<"new">>}
MCId == Field(<<"_id">>, Scalar("oid", <<"5f">>))
MCDocument(name, v) == Compound("object", <<MCId, Field(name, v)>>)
MCPair(v, w) == Compound("array", <<Field(<<>>, v), Field(<<>>, w)>>)
MCTextDocuments ==
  {MCDocument(n, v) : n \in MCNames, v \in MCScalars}
  \cup {MCDocument(<<"a">>, v) : v \in MCStrings}
  \cup {MCDocument(<<"a">>, MCPair(v, Compound("object", <<Field(n, w)>>))) :
          n \in {<<"a">>, <<"sq", "sp">>}, v \in MCScalars, w \in MCScalars}
MCEncodings == {"LUUID", "JUUID"}

(* Instants around the epoch, offsets of both signs and with half hours,   *)
(* clocks on both sides of midnight.                                       *)
MCInstants == {-86400001, -1001, -1000, -1, 0, 1, 999, 1000, 123456789}
MCZones == {-720, -300, -210, 0, 60, 330, 345, 840}
MCClocks ==
  {1440 * d + 60 * h + m :
     d \in 3..6, h \in {0, 1, 4, 11, 12, 18, 19, 23}, m \in {0, 10, 29, 30, 40, 59}}

MCOneCollection ==
  [h \in Conns |-> [c \in Colls |->
     IF c = "x" /\ h = "here" THEN [Holding(Docs) EXCEPT !.ix = [i |-> 1, j |-> 0]] ELSE NoCollection]]

-----------------------------------------------------------------------------
DialogsInit ==
  /\ part \in {"tool", "settings", "collection", "index", "text", "time", "ops"}
  /\ part = "settings" \/ (robo = NoFile /\ dirs = <<>>)
  /\ part = "collection" \/ server = [version |-> 70, engine |-> "wiredTiger"]
  /\ part = "index" \/ indexes = {}
  /\ part = "text" \/ (stored = MCDocument(<<"a">>, Scalar("int", <<"5">>)) /\ encoding = "LUUID")
  /\ part = "time" \/ (instant = 0 /\ zone = 0 /\ now = 4320)
  /\ part = "ops" \/ (colls = MCOneCollection /\ fns = [n \in FnNames |-> "old"])
  /\ ToolInit /\ SettingsInit /\ CollectionInit /\ FormInit /\ TextInit /\ IsoInit /\ OpsInit

ToolOnly == part = "tool" /\ UNCHANGED <<part, settingsVars, collectionVars, formVars, textVars, isoVars, opsVars>>
SettingsOnly == part = "settings" /\ UNCHANGED <<part, toolVars, collectionVars, formVars, textVars, isoVars, opsVars>>
CollectionOnly == part = "collection" /\ UNCHANGED <<part, toolVars, settingsVars, formVars, textVars, isoVars, opsVars>>
IndexOnly == part = "index" /\ UNCHANGED <<part, toolVars, settingsVars, collectionVars, textVars, isoVars, opsVars>>
TextOnly == part = "text" /\ UNCHANGED <<part, toolVars, settingsVars, collectionVars, formVars, isoVars, opsVars>>
TimeOnly == part = "time" /\ UNCHANGED <<part, toolVars, settingsVars, collectionVars, formVars, textVars, opsVars>>
OpsOnly == part = "ops" /\ UNCHANGED <<part, toolVars, settingsVars, collectionVars, formVars, textVars, isoVars>>

DialogsNext ==
  \/ ToolOnly /\ ToolNext
  \/ SettingsOnly /\ SettingsNext
  \/ CollectionOnly /\ CollectionNext
  \/ IndexOnly /\ FormNext
  \/ TextOnly /\ TextNext
  \/ TimeOnly /\ IsoNext
  \/ OpsOnly /\ OpsNext

dialogsVars == <<part, toolVars, settingsVars, collectionVars, formVars, textVars, isoVars, opsVars>>

\* A tool ends some time, and the event loop hears of it (ToolSpec).
DialogsSpec == DialogsInit /\ [][DialogsNext]_dialogsVars /\ WF_dialogsVars(ToolOnly /\ ToolProcess)
-----------------------------------------------------------------------------
\* What the forms of a connection, the URI and the tools say agrees: ConnectionFormsAgree
\* ranges over every connection, whatever the state.
FormsOfConnectionsAgree == part = "settings" => ConnectionFormsAgree

\* CreateCollectionDialog.cpp:138-235, AddEditIndexDialog.cpp:155-306, MongoClient.cpp:222-283:
\* the server makes the collection and the index that the fields showed, whatever was edited,
\* validated and hidden before (but for a time to live of 0 or that was unticked, MadeAsShown),
\* and an edit of an index that fails leaves the old one, the new one, both or none.
CreatedAsShown == CollectionFormIsSound /\ IndexFormIsSound

\* DocumentTextEditor.cpp:112-138, BsonUtils.cpp:98-385, json.cpp, ptimeutil.cpp: the text
\* of a document and of its dates denotes what the server holds, or is refused.
TextsDenote == (part = "text" => DocumentTextIsSound) /\ (part = "time" => IsoTimeIsSound)

\* Settings survive starts, kills and newer builds; a stopped tool starts no further one,
\* and its bar stops.
WhatIsWrittenLasts == SettingsSurvive /\ StopIsFinal /\ BarStops
=============================================================================
