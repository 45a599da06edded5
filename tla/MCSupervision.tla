--------------------------- MODULE MCSupervision ---------------------------
(***************************************************************************)
(* Values of the constants of Supervision for the runs.                    *)
(***************************************************************************)
EXTENDS Supervision

\* The owner of asset 1 may move it to another contract, that of asset 2 may not.
OneMoves == [a \in Assets |-> IF a = 1 THEN Contracts ELSE {"c1"}]
=============================================================================
