---------------------------- MODULE CollectionForm ----------------------------
(***************************************************************************)
(* The dialog that creates a collection, with its advanced options, and    *)
(* what MongoClient::createCollection makes of them. Three options are     *)
(* documents typed as text; each has a tab, a text, and the document that  *)
(* text was last parsed to. Which tabs and boxes are enabled follows from  *)
(* the version and the storage engine of the server.                       *)
(***************************************************************************)
EXTENDS Naturals

CONSTANTS
  Servers,      \* records [version, engine]; version 30 is 3.0
  MaxFormSteps  \* bound: changes made in the dialog

Tabs == {"storageEngine", "validator", "indexOptionDefaults"}
OptionsTab == "options"
Engines == {"wiredTiger", "mmapv1", "inMemory", ""}     \* "": MongoDB 2.6 names none
OptionTexts == {"", "{}", "doc", "other", "broken"}     \* what a frame may hold
Documents0 == {"{}", "doc", "other"}                    \* what parses; "" parses to {}
IntMax == 1000                                          \* the largest int, scaled down
Numbers == {0, 100, IntMax + 1}                         \* an empty field reads as 0

ASSUME ServersAssumption == Servers \subseteq [version : Nat, engine : Engines]
ASSUME FormStepsAssumption == MaxFormSteps \in Nat

VARIABLES
  server,       \* the server of the dialog's database
  box,          \* the fields of the dialog
  texts,        \* the text of each tab's frame
  parsed,       \* _storageEngineObj, _validatorObj, _indexOptionDefaultsObj
  tab,          \* the tab in front
  advanced,     \* the advanced options are shown
  createEnabled, \* the button Create
  creation,       \* "open", "accepted", "rejected", "made", "refused"
  request,      \* what the dialog left for createCollection
  collection,   \* what the server created
  formSteps     \* changes made

collectionVars == <<server, box, texts, parsed, tab, advanced, createEnabled, creation, request,
                    collection, formSteps>>

Fields == [name : {"", "c"}, capped : BOOLEAN, size : Numbers, max : Numbers]
NoOptions == [t \in Tabs |-> "{}"]
NoRequest == [capped |-> FALSE, size |-> 0, max |-> 0, flags |-> FALSE, autoIndex |-> FALSE,
              extra |-> NoOptions]

(* disableUnsupportedOptions                                                *)
Unsupported(t) ==
  \/ t = "storageEngine" /\ (server.engine # "wiredTiger" \/ server.version < 30)
  \/ t # "storageEngine" /\ server.version < 32
Enabled0(t) == ~Unsupported(t)
IsMmap == server.engine \in {"mmapv1", ""}
PowerEnabled == server.engine # "wiredTiger"
PaddingEnabled == server.engine # "wiredTiger" /\ ~(IsMmap /\ server.version < 30)
AutoIndexEnabled == ~(server.version > 32)

CollectionInit ==
  /\ server \in Servers
  /\ box = [name |-> "", capped |-> FALSE, size |-> 0, max |-> 0]
  /\ texts = NoOptions /\ parsed = NoOptions
  /\ tab = OptionsTab /\ advanced = FALSE /\ createEnabled = FALSE
  /\ creation = "open" /\ request = NoRequest /\ collection = NoRequest /\ formSteps = 0

(***************************************************************************)
(* Editing                                                                 *)
(***************************************************************************)
Change ==
  /\ creation = "open" /\ formSteps < MaxFormSteps /\ formSteps' = formSteps + 1
  /\ UNCHANGED <<server, creation, request, collection>>

TypeName ==
  /\ Change /\ \E n \in {"", "c"} : n # box.name /\ box' = [box EXCEPT !.name = n]
  /\ createEnabled' = (box'.name # "")
  /\ UNCHANGED <<texts, parsed, tab, advanced>>

(* The fields of size and number keep their text when the box is unticked.  *)
ChangeCapped ==
  /\ Change /\ advanced /\ tab = OptionsTab
  /\ \/ box' = [box EXCEPT !.capped = ~@]
     \/ box.capped /\ \E n \in Numbers \ {box.size} : box' = [box EXCEPT !.size = n]
     \/ box.capped /\ \E n \in Numbers \ {box.max} : box' = [box EXCEPT !.max = n]
  /\ UNCHANGED <<texts, parsed, tab, advanced, createEnabled>>

EditOption ==
  /\ Change /\ advanced /\ tab # OptionsTab
  /\ \E x \in OptionTexts \ {texts[tab]} : texts' = [texts EXCEPT ![tab] = x]
  /\ UNCHANGED <<box, parsed, tab, advanced, createEnabled>>

ChooseTab ==
  /\ creation = "open" /\ advanced
  /\ \E t \in {OptionsTab} \cup {u \in Tabs : Enabled0(u)} : t # tab /\ tab' = t
  /\ UNCHANGED <<server, box, texts, parsed, advanced, createEnabled, creation, request, collection, formSteps>>

ToggleAdvanced ==
  /\ creation = "open" /\ advanced' = ~advanced
  /\ UNCHANGED <<server, box, texts, parsed, tab, createEnabled, creation, request, collection, formSteps>>

(***************************************************************************)
(* Validating: a text that parses replaces the document of its tab, one    *)
(* that does not leaves the document as it was                             *)
(***************************************************************************)
ValidOption(t) == texts[t] # "broken"
DocumentOf(t) == IF texts[t] = "" THEN "{}" ELSE texts[t]
Validated(which, p) == [t \in Tabs |-> IF t \in which /\ ValidOption(t) THEN DocumentOf(t) ELSE p[t]]

ValidateButton ==
  /\ creation = "open" /\ advanced /\ tab # OptionsTab
  /\ parsed' = Validated({tab}, parsed)
  /\ UNCHANGED <<server, box, texts, tab, advanced, createEnabled, creation, request, collection, formSteps>>

(* The texts accept() comes to: each is parsed only if those before it were. *)
Reached ==
  {"storageEngine"} \cup (IF ValidOption("storageEngine") THEN {"validator"} ELSE {})
  \cup (IF ValidOption("storageEngine") /\ ValidOption("validator") THEN {"indexOptionDefaults"} ELSE {})

Dependencies == box.capped => box.size > 0

(* makeExtraOptionsObj: the enabled tabs are validated once more; a tab     *)
(* whose document is empty adds nothing. toInt() reads 0 from a number      *)
(* beyond an int.                                                           *)
Extra(p) == [t \in Tabs |-> IF Enabled0(t) THEN Validated({t}, p)[t] ELSE "{}"]
MaxValue == IF box.max > IntMax THEN 0 ELSE box.max

AllValid == \A t \in Tabs : ValidOption(t)

Accept0 ==
  /\ creation = "open" /\ createEnabled /\ box.name # "" /\ Dependencies
  /\ parsed' = Validated(Reached, parsed)
  /\ IF AllValid
     THEN /\ creation' = "accepted"
          /\ request' = [capped |-> box.capped, size |-> box.size, max |-> MaxValue,
                         flags |-> PaddingEnabled \/ PowerEnabled, autoIndex |-> AutoIndexEnabled,
                         extra |-> Extra(parsed')]
     ELSE UNCHANGED <<creation, request>>
  /\ UNCHANGED <<server, box, texts, tab, advanced, createEnabled, collection, formSteps>>

Reject0 ==
  /\ creation = "open" /\ creation' = "rejected"
  /\ UNCHANGED <<server, box, texts, parsed, tab, advanced, createEnabled, request, collection, formSteps>>

(***************************************************************************)
(* MongoClient::createCollection: the extra options have no name in its    *)
(* list of parameters                                                      *)
(***************************************************************************)
Created(r) ==
  IF r.capped THEN [NoRequest EXCEPT !.capped = TRUE, !.size = r.size, !.max = r.max] ELSE NoRequest

ServerCreates ==
  /\ creation = "accepted"
  /\ \/ creation' = "made" /\ collection' = Created(request)
     \/ creation' = "refused" /\ UNCHANGED collection
  /\ UNCHANGED <<server, box, texts, parsed, tab, advanced, createEnabled, request, formSteps>>

CollectionNext ==
  \/ TypeName \/ ChangeCapped \/ EditOption \/ ChooseTab \/ ToggleAdvanced
  \/ ValidateButton \/ Accept0 \/ Reject0 \/ ServerCreates

CollectionSpec == CollectionInit /\ [][CollectionNext]_collectionVars

(***************************************************************************)
(* Properties                                                              *)
(***************************************************************************)

(* Types; Create can be pressed exactly when there is a name, and no tab in *)
(* front is one the server does not support.                                *)
CollectionTypeOK ==
  /\ server \in Servers /\ box \in Fields
  /\ texts \in [Tabs -> OptionTexts] /\ parsed \in [Tabs -> Documents0]
  /\ tab \in Tabs \cup {OptionsTab} /\ formSteps \in 0..MaxFormSteps
  /\ creation \in {"open", "accepted", "rejected", "made", "refused"}
  /\ createEnabled <=> box.name # ""
  /\ tab \in Tabs => Enabled0(tab)

(* The documents that leave the dialog are the texts it showed when it was  *)
(* accepted, never what an earlier validation had read, although each tab   *)
(* keeps the last document that parsed.                                     *)
WhatIsShownIsSent ==
  creation = "accepted" =>
    \A t \in Tabs : request.extra[t] = IF Enabled0(t) THEN DocumentOf(t) ELSE "{}"

(* The storage engine is configured for WiredTiger only, and a server older *)
(* than 3.2 is sent neither a validator nor index defaults.                 *)
NothingUnsupportedIsSent ==
  /\ request.extra["storageEngine"] # "{}" => server.engine = "wiredTiger" /\ server.version >= 30
  /\ \A t \in {"validator", "indexOptionDefaults"} : request.extra[t] # "{}" => server.version >= 32

(* A capped collection has the bounds the dialog shows, and is never made   *)
(* without a size. (A number beyond an int becomes no bound at all.)        *)
CappedAsShown ==
  (creation = "made" /\ collection.capped) =>
    /\ box.capped /\ collection.size = box.size /\ collection.size > 0
    /\ box.max <= IntMax => collection.max = box.max

(* What the dialog asks for is what the server is asked for (CHANGELOG:     *)
(* "Create Collection dialog with advanced options").                       *)
AdvancedOptionsAreUsed == creation = "made" => collection.extra = request.extra

(* What the dialog shows, and only that, is what it asks for.               *)
CollectionFormIsSound == CollectionTypeOK /\ WhatIsShownIsSent /\ NothingUnsupportedIsSent /\ CappedAsShown
=============================================================================
