------------------------------ MODULE MCThread ------------------------------
(* Small instances of Thread for TLC. *)
EXTENDS Thread, TLC

CONSTANTS idle_, t1, t2, t3, w1, w2

OneThread == [p \in Priorities |-> IF p = 1 THEN <<t1>> ELSE <<>>]

\* t2 and t3 start alike: not allocated.
Alike == Permutations({t2, t3})

=============================================================================
