---------------------------- MODULE MCTcpScanner ----------------------------
(* Small instances of TcpScanner.  p2 and p3 are calls of the same kind.   *)
EXTENDS TcpScanner, TLC
CONSTANTS p1, p2, p3
Symmetry == Permutations({p2, p3})
=============================================================================
