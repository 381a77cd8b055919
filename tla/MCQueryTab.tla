----------------------------- MODULE MCQueryTab -----------------------------
(* Small instances of QueryTab: one script per shape of result. *)
EXTENDS QueryTab

CONSTANTS one, two, three, aggr, mixed, bad

MCPartsOf ==
  [s \in Scripts |->
    CASE s = one   -> <<"find">>
      [] s = two   -> <<"find", "find">>
      [] s = three -> <<"find", "find", "text">>
      [] s = aggr  -> <<"aggr">>
      [] s = mixed -> <<"find", "aggr">>
      [] s = bad   -> <<"text", "error">>]
=============================================================================
