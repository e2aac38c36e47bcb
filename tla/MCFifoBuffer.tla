---------------------------- MODULE MCFifoBuffer ----------------------------
(* The buffer fifo on a small instance.                                    *)
EXTENDS FifoBuffer

(* The elements of one pool are alike.                                     *)
Symmetry == Permutations(Elements)
=============================================================================
