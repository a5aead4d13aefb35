----------------------------- MODULE MC_Inventory -----------------------------
(***************************************************************************)
(* A small inventory: three keys, one logicalId filter that selects two of *)
(* them, one owner filter, a page size of one item, and three historical   *)
(* generations of key k1 shown one row per page.                           *)
(***************************************************************************)
EXTENDS Inventory

MCServerList == [f \in Filters |-> IF f = NoFilter THEN <<"k1", "k2", "k3">>
                                                     ELSE <<"k1", "k3">>]

MCOwnedBy == [o \in Owners \ {NoFilter} |-> {"k1", "k2"}]

MCHistList == <<"g1", "g2", "g3">>

\* Bound on the getInventory calls of a behaviour.
MaxFetches == 8

FetchBound == sent <= MaxFetches
=============================================================================
