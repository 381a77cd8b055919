--------------------------- MODULE MCMongoshEngine ---------------------------
(***************************************************************************)
(* Two databases and two scripts: broken is refused by the parse check,    *)
(* usesB has a statement `use b'.  Run in b, it leaves the process where   *)
(* it is, like a script without a `use'.                                   *)
(***************************************************************************)
EXTENDS MongoshEngine

CONSTANTS a, b, broken, usesB

MCSwitchesTo == [s \in Scripts |-> IF s = usesB THEN b ELSE NoDb]
=============================================================================
