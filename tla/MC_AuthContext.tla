---------------------------- MODULE MC_AuthContext ----------------------------
(* Two tokens of two subjects; the second token's grant list is malformed   *)
(* in the runs that set MCMalformed to {t2}.                                *)
EXTENDS AuthContext

MCSubjectOf == [t \in Tokens |-> IF t = "t1" THEN "alice" ELSE "bob"]
=============================================================================
