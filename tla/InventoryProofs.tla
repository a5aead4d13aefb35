--------------------------- MODULE InventoryProofs ---------------------------
(***************************************************************************)
(* Proofs about Inventory for every page size, every number of rows per    *)
(* page and every list of generations: the historical table of a key card  *)
(* always shows a page that exists.                                        *)
(***************************************************************************)
EXTENDS Inventory, SequenceTheorems, TLAPS

\* The generations of HistId, as TypeOK states the rows.
Gens == Range(HistList)

\* The historical state the pager needs, and the property.
HistInv ==
  /\ hRows \in Seq(Gens) /\ hPage \in Nat \ {0} /\ hCursor \in Nat
  /\ hInflight \subseteq [id : Nat \ {0}, cur : Nat, first : BOOLEAN]
  /\ sent \in Nat
  /\ HistPageInRange

\* Math.max(1, Math.ceil(n / perPage)) is a page number.
LEMMA PagesPositive ==
  ASSUME NEW n \in Nat
  PROVE  Pages(n) \in Nat \ {0}
<1>1. PerPage \in Nat \ {0}
  BY InventoryAssumption
<1>. QED
  BY <1>1 DEF Pages

\* getInventory's page of the generations after a cursor is a list of them.
LEMMA ServerPageGens ==
  ASSUME NEW cur \in Nat
  PROVE  /\ ServerPage(HistList, cur) \in Seq(Gens)
         /\ NextCursor(HistList, cur) \in Nat
<1> DEFINE e == IF cur + Limit < Len(HistList) THEN cur + Limit ELSE Len(HistList)
<1>1. HistList \in Seq(Gens) /\ Limit \in Nat
  BY InventoryAssumption DEF Gens
<1>2. \A i \in cur + 1 .. e : HistList[i] \in Gens
  BY <1>1 DEF Gens, Range
<1>3. ServerPage(HistList, cur) \in Seq(Gens)
  BY <1>1, <1>2, SubSeqProperties DEF ServerPage
<1>. QED
  BY <1>3 DEF NextCursor

LEMMA InitHistInv == Init => HistInv
BY DEF Init, HistInv, HistPageInRange

\* The card's histbox is re-created empty.
LEMMA NoHistInv ==
  ASSUME NoHist, sent' \in Nat PROVE HistInv'
BY DEF NoHist, HistInv, HistPageInRange

LEMMA NextHistInv == HistInv /\ [Next]_vars => HistInv'
<1> SUFFICES ASSUME HistInv, [Next]_vars PROVE HistInv'
  OBVIOUS
<1>1. CASE Refresh \/ Clear \/ \E f \in Filters, o \in Owners : Apply(f, o)
  <2>1. NoHist /\ sent' = sent + 1
    BY <1>1 DEF Refresh, Clear, Apply, Reload, LoadPage
  <2>. QED
    BY <2>1, NoHistInv DEF HistInv
<1>2. CASE More
  BY <1>2 DEF More, LoadPage, histVars, HistInv, HistPageInRange
<1>3. ASSUME NEW r \in inflight, PageOk(r) \/ PageFails(r) PROVE HistInv'
  BY <1>3 DEF PageOk, PageFails, histVars, HistInv, HistPageInRange
<1>4. CASE ToggleHist
  <2>1. [id |-> sent + 1, cur |-> 0, first |-> TRUE] \in [id : Nat \ {0}, cur : Nat, first : BOOLEAN]
    BY DEF HistInv
  <2>2. CASE ~hVisible /\ ~hLoaded
    <3>1. /\ hBox' = "loading" /\ hRows' = <<>> /\ hCursor' = 0 /\ hPage' = 1
          /\ hInflight' = hInflight \cup {[id |-> sent + 1, cur |-> 0, first |-> TRUE]}
          /\ sent' = sent + 1
      BY <1>4, <2>2 DEF ToggleHist, FetchMore
    <3>2. hRows' \in Seq(Gens)
      BY <3>1, EmptySeq
    <3>3. hInflight' \subseteq [id : Nat \ {0}, cur : Nat, first : BOOLEAN]
      BY <2>1, <3>1 DEF HistInv
    <3>. QED
      BY <3>1, <3>2, <3>3 DEF HistInv, HistPageInRange
  <2>3. CASE ~(~hVisible /\ ~hLoaded)
    BY <1>4, <2>3 DEF ToggleHist, HistInv, HistPageInRange
  <2>. QED
    BY <2>2, <2>3
<1>5. CASE HistMore
  <2>1. [id |-> sent + 1, cur |-> hCursor, first |-> FALSE] \in [id : Nat \ {0}, cur : Nat, first : BOOLEAN]
    BY DEF HistInv
  <2>2. /\ hInflight' = hInflight \cup {[id |-> sent + 1, cur |-> hCursor, first |-> FALSE]}
        /\ sent' = sent + 1
        /\ UNCHANGED <<hBox, hRows, hCursor, hPage>>
    BY <1>5 DEF HistMore, FetchMore
  <2>. QED
    BY <2>1, <2>2 DEF HistInv, HistPageInRange
<1>6. CASE HistPrev \/ HistNext
  <2>1. Pages(Len(hRows)) \in Nat \ {0}
    BY PagesPositive DEF HistInv
  <2>. QED
    BY <1>6, <2>1 DEF HistPrev, HistNext, mainVars, HistInv, HistPageInRange
<1>7. ASSUME NEW r \in hInflight, HistAnswer(r) PROVE HistInv'
  <2> DEFINE rows == hRows \o ServerPage(HistList, r.cur)
             p    == IF hPage = 0 THEN 1 ELSE hPage
  <2>1. r.cur \in Nat
    BY DEF HistInv
  <2>2. rows \in Seq(Gens) /\ NextCursor(HistList, r.cur) \in Nat
    BY <2>1, ServerPageGens, ConcatProperties DEF HistInv
  <2>3. Pages(Len(rows)) \in Nat \ {0} /\ p \in Nat \ {0}
    <3>1. Len(rows) \in Nat
      BY <2>2, LenProperties
    <3>. QED
      BY <3>1, PagesPositive DEF HistInv
  <2>4. /\ hRows' = rows /\ hBox' = "table"
        /\ hPage' = IF p < Pages(Len(rows)) THEN p ELSE Pages(Len(rows))
        /\ hCursor' = NextCursor(HistList, r.cur)
        /\ hInflight' = hInflight \ {r} /\ sent' = sent
    BY <1>7 DEF HistAnswer
  <2>. QED
    BY <2>2, <2>3, <2>4 DEF HistInv, HistPageInRange
<1>8. ASSUME NEW r \in hInflight, HistFails(r) PROVE HistInv'
  BY <1>8 DEF HistFails, mainVars, HistInv, HistPageInRange
<1>9. CASE UNCHANGED vars
  BY <1>9 DEF vars, histVars, HistInv, HistPageInRange
<1>. QED
  BY <1>1, <1>2, <1>3, <1>4, <1>5, <1>6, <1>7, <1>8, <1>9 DEF Next

LEMMA HistInvariant == Spec => []HistInv
BY InitHistInv, NextHistInv, PTL DEF Spec

(***************************************************************************)
(* The historical table of a key card always shows a page that exists, 1   *)
(* to the page count, however Prev, Next, the Load more button and the     *)
(* answers of overlapping fetchMore() calls interleave: render() clamps    *)
(* the page after every push of rows (inventory.js lines 226-233) and the  *)
(* buttons are disabled at either end (lines 243-244, 273-274).            *)
(***************************************************************************)
THEOREM HistPageAlwaysExists == Spec => []HistPageInRange
<1>1. HistInv => HistPageInRange
  BY DEF HistInv
<1>. QED
  BY <1>1, HistInvariant, PTL
=============================================================================
