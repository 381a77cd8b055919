---------------------------- MODULE QueryHistory ----------------------------
(***************************************************************************)
(* The history of executed queries (core/QueryHistory.cpp), the file it    *)
(* persists to, and the tab that shows it and edits it by index (gui/      *)
(* widgets/workarea/QueryHistoryTab.cpp).  Several instances of the        *)
(* program may run; each reads the file once, when its manager is made,    *)
(* and writes it whole after every change.  A crash inside a change is a   *)
(* change whose save failed and a crash after it: QSaveFile replaces the   *)
(* file in one step.                                                       *)
(***************************************************************************)
EXTENDS Naturals, Sequences, FiniteSets, SequencesExt, FiniteSetsExt

CONSTANTS Keys,       \* dedup keys: connection, database, normalized text
          Instances,  \* running copies of the program
          MaxEntries, \* QueryHistoryManager::MaxEntries
          SaveMayFail,\* the file may be impossible to write
          MaxRuns     \* bound on the runs recorded

ASSUME HistoryAssumption ==
  /\ MaxEntries \in Nat \ {0} /\ MaxRuns \in Nat
  /\ SaveMayFail \in BOOLEAN

VARIABLES up,      \* instances that run
          entries, \* _entries of an instance, newest first
          file,    \* history.json
          row,     \* entry index (from 1) of the tab's current row, 0 for none
          pinnedOnly, \* the tab's filter
          time     \* runs recorded so far; an entry is stamped with it

vars == <<up, entries, file, row, pinnedOnly, time>>

Entry == [key : Keys, stamp : Nat, runs : Nat, pinned : BOOLEAN]

Init ==
  /\ up = {} /\ file = <<>>
  /\ entries = [i \in Instances |-> <<>>]
  /\ row = [i \in Instances |-> 0]
  /\ pinnedOnly = [i \in Instances |-> FALSE]
  /\ time = 0

\* QueryHistoryTab::entryMatches(), for the one filter a change of an entry can affect.
Rows(e, only) == {j \in DOMAIN e : only => e[j].pinned}

\* QueryHistoryTab::rebuild(): the current row stays at its index when the entry
\* there is listed, else it is the first row.
Rebuilt(e, only, keep) ==
  LET rows == Rows(e, only) IN
  IF keep \in rows THEN keep ELSE IF rows = {} THEN 0 ELSE Min(rows)

\* QueryHistoryManager::save().
Save(e) == file' = e \/ (SaveMayFail /\ UNCHANGED file)

\* A change of the entries of instance i: saved, then the tab is rebuilt.
Change(i, e) ==
  /\ Save(e)
  /\ entries' = [entries EXCEPT ![i] = e]
  /\ row' = [row EXCEPT ![i] = Rebuilt(e, pinnedOnly[i], @)]

\* QueryHistoryManager::load(), and the tab is opened.
Start(i) ==
  /\ i \notin up
  /\ up' = up \cup {i}
  /\ entries' = [entries EXCEPT ![i] = file]
  /\ pinnedOnly' = [pinnedOnly EXCEPT ![i] = FALSE]
  /\ row' = [row EXCEPT ![i] = Rebuilt(file, FALSE, 0)]
  /\ UNCHANGED <<file, time>>

Exit(i) ==
  /\ i \in up
  /\ up' = up \ {i}
  /\ entries' = [entries EXCEPT ![i] = <<>>]
  /\ row' = [row EXCEPT ![i] = 0]
  /\ UNCHANGED <<file, pinnedOnly, time>>

\* Mutant: the oldest entry goes, pinned or not.
TrimOldest(e) == IF Len(e) <= MaxEntries THEN e ELSE Front(e)

\* QueryHistoryManager::trim(): the oldest entry that is not pinned goes; one is
\* enough, an addition makes the list one longer than it was.
Trim(e) ==
  LET loose == {j \in DOMAIN e : ~e[j].pinned} IN
  IF Len(e) <= MaxEntries \/ loose = {} THEN e ELSE RemoveAt(e, Max(loose))

\* Mutant: the entry of an earlier run is kept.
AddedTwice(e, k) == Trim(<<[key |-> k, stamp |-> time + 1, runs |-> 1, pinned |-> FALSE]>> \o e)

\* QueryHistoryManager::add(): an earlier run of the same query gives its count and
\* its pin to the new entry, and goes.
Added(e, k) ==
  LET same == {j \in DOMAIN e : e[j].key = k}
      new == [key |-> k, stamp |-> time + 1,
              runs |-> IF same = {} THEN 1 ELSE e[Min(same)].runs + 1,
              pinned |-> same # {} /\ e[Min(same)].pinned]
  IN Trim(<<new>> \o (IF same = {} THEN e ELSE RemoveAt(e, Min(same))))

\* A query tab records a successful run, whatever the user does in the history tab: not a
\* blank one, and none while the settings say that queries are not kept.
Add(i, k) ==
  /\ i \in up /\ time < MaxRuns
  /\ time' = time + 1
  /\ Change(i, Added(entries[i], k)) \/ UNCHANGED <<file, entries, row>>
  /\ UNCHANGED <<up, pinnedOnly>>

Clear(i) ==
  /\ i \in up /\ entries[i] # <<>>
  /\ Change(i, <<>>)
  /\ UNCHANGED <<up, pinnedOnly, time>>

\* QueryHistoryTab::deleteSelected(), QueryHistoryManager::remove().
DeleteSelected(i) ==
  /\ i \in up /\ row[i] \in DOMAIN entries[i]
  /\ Change(i, RemoveAt(entries[i], row[i]))
  /\ UNCHANGED <<up, pinnedOnly, time>>

\* QueryHistoryTab::pinSelected(), QueryHistoryManager::setPinned().
PinSelected(i) ==
  /\ i \in up /\ row[i] \in DOMAIN entries[i]
  /\ Change(i, [entries[i] EXCEPT ![row[i]].pinned = ~@])
  /\ UNCHANGED <<up, pinnedOnly, time>>

Select(i, j) ==
  /\ i \in up /\ j \in Rows(entries[i], pinnedOnly[i])
  /\ row' = [row EXCEPT ![i] = j]
  /\ UNCHANGED <<up, entries, file, pinnedOnly, time>>

\* The check box `pinned only' is connected to rebuild().
SetFilter(i) ==
  /\ i \in up
  /\ pinnedOnly' = [pinnedOnly EXCEPT ![i] = ~@]
  /\ row' = [row EXCEPT ![i] = Rebuilt(entries[i], pinnedOnly'[i], @)]
  /\ UNCHANGED <<up, entries, file, time>>

Next ==
  \E i \in Instances :
    \/ Start(i) \/ Exit(i) \/ Clear(i) \/ DeleteSelected(i) \/ PinSelected(i) \/ SetFilter(i)
    \/ \E k \in Keys : Add(i, k)
    \/ \E j \in 1..MaxEntries : Select(i, j)

Spec == Init /\ [][Next]_vars
-----------------------------------------------------------------------------
\* Every variable stays in its type, and no list is longer than MaxEntries.
TypeOK ==
  /\ up \subseteq Instances
  /\ entries \in [Instances -> Seq(Entry)]
  /\ file \in Seq(Entry) /\ Len(file) <= MaxEntries
  /\ \A i \in Instances : Len(entries[i]) <= MaxEntries
  /\ row \in [Instances -> 0..MaxEntries]
  /\ pinnedOnly \in [Instances -> BOOLEAN]
  /\ time \in Nat

\* QueryHistory.h:41-45: one entry per query, through re-runs, restarts and writes
\* of the file by other instances.
OneEntryPerKey ==
  \A i \in Instances : \A j, k \in DOMAIN entries[i] : entries[i][j].key = entries[i][k].key => j = k

\* QueryHistoryTab.cpp:405: "entries are already newest-first", by the time of the last run.
NewestFirst ==
  \A i \in Instances : \A j, k \in DOMAIN entries[i] :
    j < k => entries[i][j].stamp > entries[i][k].stamp

PinnedKeys(e) == {e[j].key : j \in {k \in DOMAIN e : e[k].pinned}}

\* QueryHistory.cpp:183: "dropping oldest first - but never a pinned entry": the run of a
\* query, the same or another, never costs a pin.
PinsSurviveRuns ==
  [][time' # time => \A i \in Instances : PinnedKeys(entries[i]) \subseteq PinnedKeys(entries'[i])]_vars

\* QueryHistoryTab.cpp:525-539: Pin and Delete act on an entry the filter shows.
RowIsListed ==
  \A i \in up : LET rows == Rows(entries[i], pinnedOnly[i])
                IN row[i] \in rows \/ (row[i] = 0 /\ rows = {})

\* Every instance's list is well formed, and so is what its tab shows of it.
HistoryIsSound == TypeOK /\ RowIsListed /\ OneEntryPerKey /\ NewestFirst
=============================================================================
