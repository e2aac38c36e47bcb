---------------------------- MODULE MCNetBufCtrl ----------------------------
(* Network buffering on small instances.                                   *)
EXTENDS NetBufCtrl
=============================================================================
