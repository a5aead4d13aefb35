------------------------------ MODULE MC_Keygen ------------------------------
(***************************************************************************)
(* Two key ids (one empty) and date inputs at the edges of                 *)
(* buildNotAfterFromDate: empty, unparsable, a time under one second       *)
(* (which floors to 0, as the epoch does) and a positive time.             *)
(***************************************************************************)
EXTENDS Keygen

CONSTANTS k1

MCKeyIds == {"", k1}
MCDates == {Empty, NaN, 500, 2500}
=============================================================================
