----------------------------- MODULE MCSessions -----------------------------
(* Instances of Sessions for TLC. *)
EXTENDS Sessions, TLC

(* Every tab in the one browser. *)
OneBrowser == [t \in Tab |-> CHOOSE b \in Browser : TRUE]
=============================================================================
