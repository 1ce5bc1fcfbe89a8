------------------------------ MODULE MCReplay ------------------------------
(***************************************************************************)
(* Transactions for model checking Replay: their values tell one body from *)
(* another, and MCNegative also writes a value with bit 63 set.            *)
(***************************************************************************)
EXTENDS Replay

Write(a, val) == [a |-> a, val |-> val]

MCShort == {<<Write(1, Word(FALSE, 7))>>, <<Write(1, Word(FALSE, 8))>>}

MCMixed == {<<Write(1, Word(FALSE, 7))>>,
            <<Write(1, Word(FALSE, 8)), Write(2, Word(FALSE, 9))>>}

MCNegative == {<<Write(1, Word(TRUE, 9))>>, <<Write(1, Word(FALSE, 7))>>}
=============================================================================
