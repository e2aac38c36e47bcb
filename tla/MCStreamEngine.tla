--------------------------- MODULE MCStreamEngine ---------------------------
(* Playback control on small instances.                                    *)
EXTENDS StreamEngine

(* Demux threads differ in nothing.                                        *)
Symmetry == Permutations(DemuxThreads)
=============================================================================
