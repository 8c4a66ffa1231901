------------------------------ MODULE MCCondVar ------------------------------
(***************************************************************************)
(* Two threads that notify a third one.                                    *)
(***************************************************************************)
EXTENDS CondVar

CONSTANTS n1, n2
=============================================================================
