------------------------------ MODULE ExportTable ------------------------------
(***************************************************************************)
(* The export of documents (core/utils/Exporter.cpp): as a table the       *)
(* columns are collected from all documents first, and every document is   *)
(* then looked up column by column; as JSON each document is written whole.*)
(*                                                                         *)
(* A document is a sequence of fields, a value a scalar, null or a         *)
(* document again.  A name with dots is the sequence of its segments, and  *)
(* so is the name of a column, so that the two are told apart no better    *)
(* than in the code.  How the documents are read and the file is opened is *)
(* in DriverOps.                                                           *)
(***************************************************************************)
EXTENDS Integers, Sequences, SequencesExt, FiniteSetsExt

CONSTANTS Exported,  \* the documents a result may have
          MaxDocs,    \* bound on their number
          MaxDataRows \* kMaxDataRows: what a sheet holds

ASSUME ExportAssumption == MaxDocs \in Nat /\ MaxDataRows \in Nat

VARIABLES exported, \* the documents
          format,   \* "csv", "json" or "xlsx"
          flatten,  \* flattenNested
          stage,    \* "columns", "rows", "closed" or "failed"
          seen,     \* documents whose columns have been collected
          columns,  \* cols
          rows,     \* the rows written
          count     \* the number reported

exportVars == <<exported, format, flatten, stage, seen, columns, rows, count>>

Missing == [kind |-> "missing"]
IsObject(v) == v.kind = "object"
Id == <<"_id">>

ExportInit ==
  /\ \E n \in 0..MaxDocs : exported \in [1..n -> Exported]
  /\ format \in {"csv", "json", "xlsx"} /\ flatten \in BOOLEAN
  /\ (format = "json" => ~flatten)
  /\ stage = IF format = "json" THEN "rows" ELSE "columns"
  /\ seen = 0 /\ columns = <<>> /\ rows = <<>> /\ count = 0

\* The columns of one document, in the order of its fields.
RECURSIVE ColumnsOf(_, _)
ColumnsOf(doc, prefix) ==
  FlattenSeq([k \in DOMAIN doc |->
    IF flatten /\ IsObject(doc[k].value) /\ doc[k].value.fields # <<>>
    THEN ColumnsOf(doc[k].value.fields, prefix \o doc[k].name)
    ELSE <<prefix \o doc[k].name>>])

\* collectColumns() for the next document.
CollectColumns ==
  /\ stage = "columns" /\ seen < Len(exported)
  /\ seen' = seen + 1
  /\ columns' = FoldLeft(LAMBDA cols, c : IF Contains(cols, c) THEN cols ELSE Append(cols, c),
                         columns, ColumnsOf(exported[seen + 1], <<>>))
  /\ UNCHANGED <<exported, format, flatten, stage, rows, count>>

\* The last step of buildColumns(): _id comes first.
Pinned(cols) ==
  IF Contains(cols, Id) THEN <<Id>> \o SelectSeq(cols, LAMBDA c : c # Id) ELSE cols

\* The columns are complete; a workbook that cannot be created ends the export.
ColumnsBuilt ==
  /\ stage = "columns" /\ seen = Len(exported)
  /\ columns' = Pinned(columns)
  /\ \/ stage' = "rows"
     \/ format = "xlsx" /\ stage' = "failed"
  /\ UNCHANGED <<exported, format, flatten, seen, rows, count>>

\* BSONObj::getField().
GetField(doc, name) ==
  LET ks == {k \in DOMAIN doc : doc[k].name = name} IN
  IF ks = {} THEN Missing ELSE doc[Min(ks)].value

\* Mutant: a path ends at its first segment.
ElementAtHead(doc, column) == GetField(doc, IF flatten THEN <<column[1]>> ELSE column)

\* withColumnElement(): the segments of the column, one document after the other.
RECURSIVE ElementOf(_, _)
ElementOf(doc, column) ==
  IF ~flatten THEN GetField(doc, column)
  ELSE LET e == GetField(doc, <<column[1]>>) IN
       IF Len(column) = 1 THEN e
       ELSE IF IsObject(e) THEN ElementOf(e.fields, Tail(column)) ELSE Missing

\* elementToCell(), writeXlsxCell(): a document in a cell is its JSON.
CellOf(v) == IF v.kind \in {"missing", "null"} THEN <<>> ELSE <<v>>

\* One row of a table, or one line of JSON; a full sheet leaves the others out.
WriteRow ==
  /\ stage = "rows" /\ Len(rows) < Len(exported)
  /\ (format = "xlsx" => Len(rows) < MaxDataRows)
  /\ LET doc == exported[Len(rows) + 1] IN
       rows' = Append(rows, IF format = "json" THEN <<<<[kind |-> "object", fields |-> doc]>>>>
                            ELSE [k \in DOMAIN columns |-> CellOf(ElementOf(doc, columns[k]))])
  /\ UNCHANGED <<exported, format, flatten, stage, seen, columns, count>>

\* The end of the file, which may fail.
CloseFile ==
  /\ stage = "rows"
  /\ \/ Len(rows) = Len(exported)
     \/ format = "xlsx" /\ Len(rows) = MaxDataRows
  /\ \/ stage' = "closed" /\ count' = (IF format = "xlsx" THEN Len(rows) ELSE Len(exported))
     \/ stage' = "failed" /\ count' = 0
  /\ UNCHANGED <<exported, format, flatten, seen, columns, rows>>

ExportNext == CollectColumns \/ ColumnsBuilt \/ WriteRow \/ CloseFile

ExportSpec == ExportInit /\ [][ExportNext]_exportVars
-----------------------------------------------------------------------------
\* The scalars of a document and the names that lead to each.
RECURSIVE Leaves(_, _)
Leaves(doc, path) ==
  UNION {IF IsObject(doc[k].value) THEN Leaves(doc[k].value.fields, Append(path, doc[k].name))
         ELSE {[path |-> Append(path, doc[k].name), value |-> doc[k].value]} : k \in DOMAIN doc}

\* Cell c of row r tells a leaf: its column is the path of the leaf, or leads to a document
\* that has the leaf at the rest of its path.
Tells(r, c, leaf) ==
  \E n \in 0..Len(leaf.path), v \in ToSet(rows[r][c]) :
    /\ FlattenSeq(SubSeq(leaf.path, 1, n)) = IF format = "json" THEN <<>> ELSE columns[c]
    /\ IF n = Len(leaf.path) THEN v = leaf.value
       ELSE /\ IsObject(v)
            /\ [leaf EXCEPT !.path = SubSeq(@, n + 1, Len(@))] \in Leaves(v.fields, <<>>)

NoDots(doc) == \A l \in Leaves(doc, <<>>) : \A k \in DOMAIN l.path : Len(l.path[k]) = 1

\* Every variable stays in its type: the rows are as wide as the header, no column is there
\* twice, and _id is the first if it is there.
ExportTypeOK ==
  /\ stage \in {"columns", "rows", "closed", "failed"}
  /\ seen \in 0..Len(exported) /\ count \in 0..Len(exported)
  /\ IsInjective(columns)
  /\ (stage = "rows" /\ Contains(columns, Id) => columns[1] = Id)
  /\ (format # "json" => \A r \in DOMAIN rows : Len(rows[r]) = Len(columns))

\* Exporter.cpp:92-147: whichever fields the other documents have, and wherever one has a
\* document and another a scalar, the row of a document tells every value it has; names with
\* dots are excepted, for they lead nowhere when nested documents are flattened.
EveryValueIsWritten ==
  \A r \in DOMAIN rows :
    (flatten => NoDots(exported[r])) =>
      \A leaf \in Leaves(exported[r], <<>>) :
        leaf.value.kind # "null" => \E c \in DOMAIN rows[r] : Tells(r, c, leaf)

\* The table has a place for every value of the documents, and each is in it.
ExportIsSound == ExportTypeOK /\ EveryValueIsWritten
=============================================================================
