---------------------------- MODULE MCMcdDriver ----------------------------
(* The MCI driver on small instances.                                      *)
EXTENDS McdDriver
=============================================================================
