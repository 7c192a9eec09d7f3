----------------------------- MODULE MCRunServer -----------------------------
(* Instances of RunServer: all its parameters are sets of model values and
   bounds, which the configurations give. *)
EXTENDS RunServer
===============================================================================
