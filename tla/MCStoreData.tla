----------------------------- MODULE MCStoreData -----------------------------
(* Model values and instances for the runs of StoreData.                      *)
EXTENDS StoreData
ThreeImports == {"loaded", "wide", "narrow"}
WideAndNarrow ==
    [i \in ThreeImports |-> CASE i = "loaded" -> {1} [] i = "wide" -> {1, 2} [] i = "narrow" -> {2}]
=============================================================================
