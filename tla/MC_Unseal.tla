------------------------------ MODULE MC_Unseal ------------------------------
(* The unseal page with two shares, texts of up to three lines, statuses   *)
(* that reach every early return and progress answers at the bar's edges, *)
(* one of them a threshold of 200 that Math.round fills one share early.  *)
EXTENDS Unseal

MCShares == {"s1", "s2"}

MCTexts == UNION {[1..n -> MCShares \cup {Blank}] : n \in 1..3}

\* A progress answer.
P(t, p, r) == [threshold |-> t, progress |-> p, total |-> 3, ready |-> r]

MCStatuses ==
  { [state |-> "SEALED",   sealedBy |-> "Shamir", progress |-> P(2, 1, FALSE)],
    [state |-> "SEALED",   sealedBy |-> "pgp",    progress |-> None],
    [state |-> "UNSEALED", sealedBy |-> "shamir", progress |-> P(None, None, TRUE)],
    [state |-> "SEALED",   sealedBy |-> "shamir", progress |-> P(3, None, FALSE)] }

MCResponses ==
  { None,
    [warning |-> TRUE,  data |-> P(3, 2, FALSE)],
    [warning |-> FALSE, data |-> P(2, 3, FALSE)],
    [warning |-> FALSE, data |-> P(0, 1, FALSE)],
    [warning |-> FALSE, data |-> P(200, 199, FALSE)],
    [warning |-> FALSE, data |-> None] }
=============================================================================
