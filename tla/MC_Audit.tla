------------------------------ MODULE MC_Audit ------------------------------
(***************************************************************************)
(* Texts of up to three lines of every kind, a cap of two lines and one    *)
(* invalid entry per page: the cut, the single and the batch answers and a *)
(* pager of two pages all occur.                                           *)
(***************************************************************************)
EXTENDS Audit

MCInputs == UNION {[1..k -> LineKinds] : k \in 0..3}
=============================================================================
