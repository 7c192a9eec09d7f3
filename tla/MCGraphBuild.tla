----------------------------- MODULE MCGraphBuild -----------------------------
(* The instance of GraphBuild that TLC checks. *)
EXTENDS GraphBuild

MCNames == 0..2
===============================================================================
