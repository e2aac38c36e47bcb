----------------------------- MODULE MCMetronom -----------------------------
(* The decoders' rendezvous on small instances.                            *)
EXTENDS Metronom
=============================================================================
