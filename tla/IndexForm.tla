------------------------------ MODULE IndexForm ------------------------------
(***************************************************************************)
(* The dialog that adds or edits an index: what it reads of an index the   *)
(* server lists, what the user may do with its fields, what it sends, and  *)
(* what MongoClient makes of it. MongoDB cannot change an index, so an     *)
(* edit drops it and creates it again, and a creation that fails is        *)
(* answered by a second one, from what the list said of the old index.     *)
(* DriverOps has the same calls among those of other clients, with the     *)
(* definition of an index as one value; here it is a record of options.    *)
(***************************************************************************)
EXTENDS Naturals, Integers, FiniteSets

CONSTANTS
  Listed,       \* indexes of the collection when the dialog opens (one of them)
  MaxTouches    \* bound: changes of fields in one dialog

Absent == -1                      \* an index without expireAfterSeconds
Ticks == {"unique", "background", "sparse"}
Texts == {"", "bad", "j1", "j2"}  \* nothing, text that does not parse, two documents
Words == {"", "w1", "w2"}
Ttls == {Absent, 0, 60, 90}

(* What the server keeps of an index. "more" stands for the options the     *)
(* dialog knows nothing of: collation, hidden, wildcardProjection; "unread" *)
(* for the options stored as a type of number the program reads as 0.       *)
ServerIndexes == [name : Words, keys : Texts, ticks : SUBSET Ticks, ttl : Ttls,
                  language : Words, override : Words, weights : Texts, partial : Texts,
                  more : BOOLEAN, unread : SUBSET (Ticks \cup {"ttl"})]
NoIndex == [name |-> "", keys |-> "", ticks |-> {}, ttl |-> Absent, language |-> "", override |-> "",
            weights |-> "", partial |-> "", more |-> FALSE, unread |-> {}]

ASSUME ListedAssumption ==
  /\ Listed \subseteq ServerIndexes
  /\ \A x \in Listed :
       x.name # "" /\ x.keys \in {"j1", "j2"} /\ {x.weights, x.partial} \subseteq Texts \ {"bad"}
ASSUME TouchesAssumption == MaxTouches \in Nat

VARIABLES
  indexes,      \* those of the collection that the dialog is about
  before,       \* the index the dialog was opened for, NoIndex: a new one
  old,          \* IndexInfo the dialog was opened with
  fields,       \* its widgets
  expires,      \* the box "Expire after"
  stage,        \* "closed", "open", "asking", "dropping", "creating", "recreating", "made", "failed"
  touches       \* changes of fields made

formVars == <<indexes, before, old, fields, expires, stage, touches>>

Stages == {"closed", "open", "asking", "dropping", "creating", "recreating", "made", "failed"}

(***************************************************************************)
(* From the server to the fields                                           *)
(***************************************************************************)

(* getIntField answers 0 for a field that is absent or a double, and        *)
(* getBoolField answers false for one that is a double or a long.           *)
InfoOf(x) ==
  [x EXCEPT !.ttl = IF @ = Absent \/ "ttl" \in x.unread THEN 0 ELSE @,
            !.ticks = @ \ x.unread, !.more = FALSE, !.unread = {}]

FakeInfo == NoIndex

(* The tabs, filled from an IndexInfo. The seconds are a text: Absent is    *)
(* the empty one. The slot that clears them runs on the box as it is then.  *)
Basic(i) == [name |-> i.name, keys |-> i.keys, unique |-> "unique" \in i.ticks]
Seconds(i) == IF i.ttl >= 0 THEN i.ttl ELSE Absent
TextSearch(i) == [language |-> i.language, override |-> i.override, weights |-> i.weights]
Filled(i) ==
  [name |-> Basic(i).name, keys |-> Basic(i).keys, seconds |-> Seconds(i),
   ticks |-> (i.ticks \ {"unique"}) \cup (IF Basic(i).unique THEN {"unique"} ELSE {}),
   language |-> TextSearch(i).language, override |-> TextSearch(i).override,
   weights |-> TextSearch(i).weights, partial |-> i.partial]

OpenForm(i) ==
  /\ stage = "closed" /\ stage' = "open"
  /\ old' = i /\ fields' = Filled(i) /\ expires' = (i.ttl >= 0)
  /\ touches' = 0 /\ UNCHANGED indexes

OpenForEdit == \E x \in indexes : before' = x /\ OpenForm(InfoOf(x))
OpenForAdd == indexes = {} /\ before' = NoIndex /\ OpenForm(FakeInfo)

(***************************************************************************)
(* The user                                                                *)
(***************************************************************************)
Touch ==
  /\ stage = "open" /\ touches < MaxTouches /\ touches' = touches + 1
  /\ UNCHANGED <<indexes, before, old, stage>>

EditText ==
  /\ Touch /\ UNCHANGED expires
  /\ \/ \E t \in {"keys", "weights", "partial"}, v \in {"", "bad", "j2"} : fields' = [fields EXCEPT ![t] = v]
     \/ \E t \in {"name", "language", "override"}, v \in {"", "w2"} : fields' = [fields EXCEPT ![t] = v]
     \/ \E t \in Ticks : fields' = [fields EXCEPT !.ticks = IF t \in @ THEN @ \ {t} ELSE @ \cup {t}]

EditSeconds ==
  /\ Touch /\ expires /\ UNCHANGED expires
  /\ \E n \in {Absent, 0, 90} : fields' = [fields EXCEPT !.seconds = n]

(* expireStateChanged: the box enables the field and, unticked, empties it. *)
TickExpires ==
  /\ Touch /\ expires' = ~expires
  /\ fields' = IF expires' THEN fields ELSE [fields EXCEPT !.seconds = Absent]

Cancel ==
  /\ stage \in {"open", "asking"}
  /\ stage' = IF stage = "open" THEN "closed" ELSE "open"      \* No to the question leaves it open
  /\ UNCHANGED <<indexes, before, old, fields, expires, touches>>

IsValidJson(t) == t \notin {"", "bad"}

(* accept: a text that does not parse is refused with a warning.            *)
Acceptable ==
  /\ IsValidJson(fields.keys)
  /\ \A t \in {"weights", "partial"} : fields[t] = "" \/ IsValidJson(fields[t])

IsEdit == old.name # ""

AcceptForm ==
  /\ stage = "open" /\ Acceptable
  /\ stage' = IF IsEdit THEN "asking" ELSE "creating"
  /\ UNCHANGED <<indexes, before, old, fields, expires, touches>>

Confirm ==
  /\ stage = "asking" /\ stage' = "dropping"
  /\ UNCHANGED <<indexes, before, old, fields, expires, touches>>

(* info(): an empty field of seconds falls back to what the dialog was      *)
(* opened with.                                                             *)
NewInfo ==
  [name |-> fields.name, keys |-> fields.keys, ticks |-> fields.ticks,
   ttl |-> IF fields.seconds # Absent THEN fields.seconds ELSE old.ttl,
   language |-> fields.language, override |-> fields.override,
   weights |-> fields.weights, partial |-> fields.partial, more |-> FALSE, unread |-> {}]

(***************************************************************************)
(* MongoClient::addEditIndex                                               *)
(***************************************************************************)

(* createFrom: a time to live goes along when it is positive; weights that  *)
(* do not parse are left out, the other two texts then fail the operation.  *)
CreateFrom(i) ==
  [i EXCEPT !.ttl = IF @ > 0 THEN @ ELSE Absent, !.weights = IF @ = "bad" THEN "" ELSE @]
Parses(i) == i.keys # "bad" /\ i.partial # "bad"

(* A call that throws has done nothing, or its answer was lost. The drop is *)
(* outside of the try block.                                                *)
DropOld ==
  /\ stage = "dropping"
  /\ \/ indexes' = indexes \ {before} /\ stage' \in {"creating", "failed"}
     \/ UNCHANGED indexes /\ stage' = "failed"
  /\ UNCHANGED <<before, old, fields, expires, touches>>

(* The server may refuse any index, and refuses one without a name.         *)
Create ==
  /\ stage = "creating"
  /\ LET thrown == IF IsEdit THEN "recreating" ELSE "failed" IN
       \/ /\ Parses(NewInfo) /\ NewInfo.name # ""
          /\ indexes' = indexes \cup {CreateFrom(NewInfo)} /\ stage' \in {"made", thrown}
       \/ UNCHANGED indexes /\ stage' = thrown
  /\ UNCHANGED <<before, old, fields, expires, touches>>

RecreateFromForm == CreateFrom([NewInfo EXCEPT !.name = old.name])       \* mutant
Recreated == CreateFrom(old)

(* The failure of the second creation is swallowed: also the one the server *)
(* answers when the first creation did take effect under the same name.     *)
Recreate ==
  /\ stage = "recreating" /\ stage' = "failed"
  /\ \/ /\ \A x \in indexes : x.name # Recreated.name
        /\ indexes' = indexes \cup {Recreated}
     \/ UNCHANGED indexes
  /\ UNCHANGED <<before, old, fields, expires, touches>>

FormInit ==
  /\ indexes \in {{}} \cup {{x} : x \in Listed}
  /\ before = NoIndex /\ old = FakeInfo /\ fields = Filled(FakeInfo) /\ expires = FALSE
  /\ stage = "closed" /\ touches = 0

FormNext ==
  \/ OpenForEdit \/ OpenForAdd
  \/ EditText \/ EditSeconds \/ TickExpires
  \/ Cancel \/ AcceptForm \/ Confirm
  \/ DropOld \/ Create \/ Recreate

FormSpec == FormInit /\ [][FormNext]_formVars

(***************************************************************************)
(* Properties                                                              *)
(***************************************************************************)

(* Types; the field of seconds is empty whenever the box is not ticked, and *)
(* only an edit drops or recreates.                                         *)
FormTypeOK ==
  /\ indexes \cup {before, old} \subseteq ServerIndexes
  /\ fields.ticks \subseteq Ticks /\ fields.seconds \in Ttls
  /\ {fields.keys, fields.weights, fields.partial} \subseteq Texts
  /\ stage \in Stages /\ touches \in 0..MaxTouches
  /\ ~expires => fields.seconds = Absent
  /\ stage \in {"asking", "dropping", "recreating"} => IsEdit

(* The indexes the form can show: of the options the server lists, it knows *)
(* neither collation and the like, nor a number of a type it reads as 0,    *)
(* nor a time to live of 0 seconds, which it takes for none.                *)
KnownWhole(x) == ~x.more /\ x.unread = {} /\ x.ttl # 0

(* Saving a dialog nobody touched leaves the index as it was: each option   *)
(* survives getIndexes, the tabs, info() and createFrom.                    *)
UntouchedEditKeepsIndex ==
  (stage = "made" /\ IsEdit /\ touches = 0 /\ KnownWhole(before)) => indexes = {before}

(* When the server has answered that the index was made, it is the only one *)
(* of the dialog and has what the fields showed, whatever was edited before *)
(* and whatever the server had: no option of the old index that the form    *)
(* does not show comes back. The time to live is the one exception: 0 means *)
(* none, and with an empty field the old one stays, also when the box       *)
(* "Expire after" was unticked (AddEditIndexDialog.cpp:270-274).            *)
MadeAsShown ==
  stage = "made" =>
    \E x \in indexes :
      /\ indexes = {x} /\ ~x.more /\ x.unread = {}
      /\ x.name = fields.name /\ x.keys = fields.keys /\ x.ticks = fields.ticks
      /\ x.language = fields.language /\ x.override = fields.override
      /\ x.weights = fields.weights /\ x.partial = fields.partial
      /\ \/ x.ttl = IF fields.seconds > 0 THEN fields.seconds ELSE Absent
         \/ fields.seconds = Absent /\ x.ttl = before.ttl

(* After an edit that failed there is no index but the one the user had     *)
(* (AddEditIndexDialog.cpp: "will try to recover") and the one that was     *)
(* asked for, whose creation may have taken effect and thrown.              *)
RecoveredIsTheOld ==
  (stage = "failed" /\ IsEdit /\ KnownWhole(before))
    => indexes \subseteq {before, CreateFrom(NewInfo)}

(* The index is never dropped for a text that cannot be parsed afterwards:  *)
(* what addEditIndex parses after the drop was parsed by the dialog.        *)
NoDropForBadText ==
  stage \in {"dropping", "creating", "recreating"}
    => Parses(NewInfo) /\ CreateFrom(NewInfo).weights = fields.weights

(* "TTL index should allow expiry of 0 seconds (#500)" (CHANGELOG:316): a 0 *)
(* typed into the field of a new index is its time to live.                 *)
(* (The program does not keep this: README.)                                *)
TypedZeroExpires ==
  (stage = "made" /\ ~IsEdit /\ fields.seconds = 0) => \A x \in indexes : x.ttl = 0

(* What was made is what was shown, what was not touched stays, and a       *)
(* failed edit leaves nothing else behind.                                  *)
IndexFormIsSound ==
  /\ FormTypeOK
  /\ UntouchedEditKeepsIndex /\ MadeAsShown /\ RecoveredIsTheOld /\ NoDropForBadText
=============================================================================
