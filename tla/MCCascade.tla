------------------------------- MODULE MCCascade -------------------------------
(* PICascade on the catalog of MCLifecycle. *)
EXTENDS PICascade, MCLifecycle
=============================================================================
