----------------------------- MODULE AuditProofs -----------------------------
(***************************************************************************)
(* Proofs about Audit for every cap, page size and set of texts: the pager *)
(* of invalid entries never shows a page that does not exist; the counts   *)
(* on screen and in a verify request are those of the text, counted by an  *)
(* injective numbering of its lines (VerifySendsCounted); every state is   *)
(* typed (AuditTypeCorrect).                                               *)
(***************************************************************************)
EXTENDS Audit, FiniteSetTheorems, Functions, TLAPS

\* A set of lines of a text is finite and has a natural cardinality.
LEMMA LinesCardinality ==
  ASSUME NEW s \in Seq(LineKinds), NEW S \in SUBSET DOMAIN s
  PROVE  Cardinality(S) \in Nat
<1>1. IsFiniteSet(1..Len(s))
  BY FS_Interval
<1>2. IsFiniteSet(S)
  BY <1>1, FS_Subset
<1>. QED
  BY <1>2, FS_CardinalityType

\* Math.max(1, Math.ceil(n / perPage)) is a page number.
LEMMA PagesPositive ==
  ASSUME NEW n \in Nat
  PROVE  Pages(n) \in Nat \ {0}
BY AuditAssumption DEF Pages

\* The part of TypeOK the pager needs, and the property itself.
PagerInv ==
  /\ input \in Seq(LineKinds)
  /\ result \in Results /\ locked \in BOOLEAN
  /\ req \in [n : Nat, invalid : Nat]
  /\ pager \in [wired : BOOLEAN, page : Nat \ {0}, total : Nat]
  /\ BatchPageInRange

\* The request a Verify step sends carries natural counts.
LEMMA VerifyCounts ==
  ASSUME NEW s \in Seq(LineKinds)
  PROVE  [n |-> Cardinality(Rows(s)),
          invalid |-> Cardinality({i \in Rows(s) : s[i] = "invalid"})] \in [n : Nat, invalid : Nat]
<1>1. Rows(s) \in SUBSET DOMAIN s
  BY DEF Rows
<1>2. {i \in Rows(s) : s[i] = "invalid"} \in SUBSET DOMAIN s
  BY <1>1
<1>. QED
  BY <1>1, <1>2, LinesCardinality

LEMMA PagerInductive == Spec => []PagerInv
<1>1. Init => PagerInv
  <2> SUFFICES ASSUME Init PROVE PagerInv
    OBVIOUS
  <2>1. input \in Seq(LineKinds)
    BY DEF Init
  <2>2. result \in Results /\ locked \in BOOLEAN
    BY DEF Init, Results
  <2>3. req \in [n : Nat, invalid : Nat] /\ pager \in [wired : BOOLEAN, page : Nat \ {0}, total : Nat]
    BY DEF Init, NoReq, NoPager
  <2>4. BatchPageInRange
    BY DEF Init, BatchPageInRange
  <2>. QED
    BY <2>1, <2>2, <2>3, <2>4 DEF PagerInv
<1>2. PagerInv /\ [Next]_vars => PagerInv'
  <2> SUFFICES ASSUME PagerInv, [Next]_vars PROVE PagerInv'
    OBVIOUS
  <2>1. ASSUME NEW s \in Inputs, Edit(s) PROVE PagerInv'
    BY <2>1, AuditAssumption DEF Edit, PagerInv, BatchPageInRange
  <2>2. CASE Clear
    BY <2>2 DEF Clear, PagerInv, BatchPageInRange, NoPager, Results
  <2>3. CASE Verify
    <3>1. result' \in {"none", "parseErrors"} /\ locked' \in BOOLEAN
          /\ req' \in [n : Nat, invalid : Nat] /\ pager' = NoPager
          /\ UNCHANGED input
      BY <2>3, VerifyCounts DEF Verify, PagerInv, NoReq
    <3>. QED
      BY <3>1 DEF PagerInv, BatchPageInRange, NoPager, Results
  <2>4. CASE Answered
    <3>1. Pages(req.invalid) \in Nat \ {0}
      BY PagesPositive DEF PagerInv
    <3>2. result' \in Results
      BY <2>4 DEF Answered, Results
    <3>3. pager' = [wired |-> FALSE, page |-> 1, total |-> req.invalid]
          /\ req' = NoReq /\ locked' = FALSE /\ UNCHANGED input
      BY <2>4 DEF Answered
    <3>4. req.invalid \in Nat
      BY DEF PagerInv
    <3>5. pager' \in [wired : BOOLEAN, page : Nat \ {0}, total : Nat]
      BY <3>3, <3>4
    <3>6. pager'.page \in 1..Pages(pager'.total)
      BY <3>1, <3>3
    <3>7. req' \in [n : Nat, invalid : Nat]
      BY <3>3 DEF NoReq
    <3>. QED
      BY <3>2, <3>3, <3>5, <3>6, <3>7 DEF PagerInv, BatchPageInRange
  <2>5. CASE Failed
    BY <2>5 DEF Failed, PagerInv, BatchPageInRange, NoReq
  <2>6. CASE Wire
    BY <2>6 DEF Wire, PagerInv, BatchPageInRange
  <2>7. CASE PrevPage
    <3>1. pager.page > 1 /\ result = "batchInvalid"
      BY <2>7 DEF PrevPage
    <3>2. pager' = [wired |-> pager.wired, page |-> pager.page - 1, total |-> pager.total]
          /\ UNCHANGED <<input, result, locked, req>>
      BY <2>7 DEF PrevPage, PagerInv
    <3>3. Pages(pager.total) \in Nat \ {0} /\ pager.page \in 1..Pages(pager.total)
      BY <3>1, PagesPositive DEF PagerInv, BatchPageInRange
    <3>4. pager' \in [wired : BOOLEAN, page : Nat \ {0}, total : Nat]
      BY <3>1, <3>2 DEF PagerInv
    <3>5. pager'.page \in 1..Pages(pager'.total)
      BY <3>1, <3>2, <3>3
    <3>. QED
      BY <3>2, <3>4, <3>5 DEF PagerInv, BatchPageInRange
  <2>8. CASE NextPage
    <3>1. Pages(pager.total) \in Nat \ {0}
      BY PagesPositive DEF PagerInv
    <3>2. pager.page < Pages(pager.total) /\ result = "batchInvalid"
      BY <2>8 DEF NextPage
    <3>3. pager' = [wired |-> pager.wired, page |-> pager.page + 1, total |-> pager.total]
          /\ UNCHANGED <<input, result, locked, req>>
      BY <2>8 DEF NextPage, PagerInv
    <3>4. pager' \in [wired : BOOLEAN, page : Nat \ {0}, total : Nat]
      BY <3>3 DEF PagerInv
    <3>5. pager'.page \in 1..Pages(pager'.total)
      BY <3>1, <3>2, <3>3 DEF PagerInv
    <3>. QED
      BY <3>3, <3>4, <3>5 DEF PagerInv, BatchPageInRange
  <2>9. CASE UNCHANGED vars
    BY <2>9 DEF vars, PagerInv, BatchPageInRange
  <2>. QED
    BY <2>1, <2>2, <2>3, <2>4, <2>5, <2>6, <2>7, <2>8, <2>9 DEF Next
<1>. QED
  BY <1>1, <1>2, PTL DEF Spec

(***************************************************************************)
(* The batch pager starts on page 1 and its Prev and Next guards keep it   *)
(* within Math.max(1, ceil(total / perPage)), for every page size.         *)
(***************************************************************************)
THEOREM PagerInRange == Spec => []BatchPageInRange
BY PagerInductive, PTL DEF PagerInv
-----------------------------------------------------------------------------
(***************************************************************************)
(* The counter and the request.  NonBlankUpTo(s, i) numbers the non-blank  *)
(* lines of a text: it grows by one at each of them, so it is one-to-one   *)
(* on them, and the lines parseNdjson considers are those numbered up to   *)
(* Cap.  Counting them needs no induction: they are mapped one-to-one into *)
(* 1..Cap, and the lines past the cut one-to-one into the numbers above    *)
(* Cap.                                                                    *)
(***************************************************************************)
NonBlankSet(s, i) == {j \in 1..i : s[j] # "blank"}
Lines(s) == {i \in DOMAIN s : s[i] # "blank"}
Considered(s) == {i \in DOMAIN s : ParseConsidered(s, i)}
Numbering(s, S) == [i \in S |-> NonBlankUpTo(s, i)]

\* The non-blank lines among the first i are a finite set of at most i.
LEMMA NonBlankType ==
  ASSUME NEW s \in Seq(LineKinds), NEW i \in 0..Len(s)
  PROVE  /\ IsFiniteSet(NonBlankSet(s, i))
         /\ NonBlankUpTo(s, i) = Cardinality(NonBlankSet(s, i))
         /\ NonBlankUpTo(s, i) \in 0..i
<1>1. IsFiniteSet(1..i) /\ Cardinality(1..i) = i
  BY FS_Interval
<1>2. NonBlankSet(s, i) \subseteq 1..i
  BY DEF NonBlankSet
<1>3. IsFiniteSet(NonBlankSet(s, i)) /\ Cardinality(NonBlankSet(s, i)) <= i
  BY <1>1, <1>2, FS_Subset
<1>4. Cardinality(NonBlankSet(s, i)) \in Nat
  BY <1>3, FS_CardinalityType
<1>. QED
  BY <1>3, <1>4 DEF NonBlankUpTo, NonBlankSet

\* The numbering never decreases along the text.
LEMMA NonBlankMonotone ==
  ASSUME NEW s \in Seq(LineKinds), NEW i \in 0..Len(s), NEW j \in i..Len(s)
  PROVE  NonBlankUpTo(s, i) <= NonBlankUpTo(s, j)
<1>1. NonBlankSet(s, i) \subseteq NonBlankSet(s, j)
  BY DEF NonBlankSet
<1>. QED
  BY <1>1, NonBlankType, FS_Subset

\* A non-blank line gets a number above that of every earlier line.
LEMMA NonBlankStrict ==
  ASSUME NEW s \in Seq(LineKinds), NEW i \in 0..Len(s), NEW j \in (i + 1)..Len(s),
         s[j] # "blank"
  PROVE  NonBlankUpTo(s, i) < NonBlankUpTo(s, j)
<1>1. NonBlankSet(s, i) \subseteq NonBlankSet(s, j)
  BY DEF NonBlankSet
<1>2. j \in NonBlankSet(s, j) /\ j \notin NonBlankSet(s, i)
  BY DEF NonBlankSet
<1>3. NonBlankSet(s, i) # NonBlankSet(s, j)
  BY <1>2
<1>4. IsFiniteSet(NonBlankSet(s, j))
  BY NonBlankType
<1>5. Cardinality(NonBlankSet(s, i)) <= Cardinality(NonBlankSet(s, j))
      /\ Cardinality(NonBlankSet(s, i)) # Cardinality(NonBlankSet(s, j))
  BY <1>1, <1>3, <1>4, FS_Subset
<1>. QED
  BY <1>5, NonBlankType

\* On the non-blank lines, the numbering is one-to-one into 1..N, where N
\* counts them all.
LEMMA NumberingInjective ==
  ASSUME NEW s \in Seq(LineKinds), NEW S \in SUBSET Lines(s), NEW T,
         \A i \in S : NonBlankUpTo(s, i) \in T
  PROVE  Numbering(s, S) \in Injection(S, T)
<1>1. Numbering(s, S) \in [S -> T]
  BY DEF Numbering
<1>2. ASSUME NEW a \in S, NEW b \in S, a # b
      PROVE  NonBlankUpTo(s, a) # NonBlankUpTo(s, b)
  <2>1. a \in 1..Len(s) /\ b \in 1..Len(s) /\ s[a] # "blank" /\ s[b] # "blank"
    BY DEF Lines
  <2>2. CASE a < b
    <3>1. a \in 0..Len(s) /\ b \in (a + 1)..Len(s)
      BY <2>1, <2>2
    <3>2. NonBlankUpTo(s, a) < NonBlankUpTo(s, b)
      BY <2>1, <3>1, NonBlankStrict
    <3>3. NonBlankUpTo(s, a) \in Nat /\ NonBlankUpTo(s, b) \in Nat
      BY <2>1, NonBlankType
    <3>. QED
      BY <3>2, <3>3
  <2>3. CASE b < a
    <3>1. b \in 0..Len(s) /\ a \in (b + 1)..Len(s)
      BY <2>1, <2>3
    <3>2. NonBlankUpTo(s, b) < NonBlankUpTo(s, a)
      BY <2>1, <3>1, NonBlankStrict
    <3>3. NonBlankUpTo(s, b) \in Nat /\ NonBlankUpTo(s, a) \in Nat
      BY <2>1, NonBlankType
    <3>. QED
      BY <3>2, <3>3
  <2>. QED
    BY <1>2, <2>1, <2>2, <2>3
<1>. QED
  BY <1>1, <1>2 DEF Injection, IsInjective, Numbering

\* Every non-blank line is numbered within 1..N.
LEMMA NumberRange ==
  ASSUME NEW s \in Seq(LineKinds), NEW i \in Lines(s)
  PROVE  NonBlankUpTo(s, i) \in 1..NonBlankUpTo(s, Len(s))
<1>1. i \in 1..Len(s) /\ s[i] # "blank"
  BY DEF Lines
<1>2. NonBlankUpTo(s, i - 1) < NonBlankUpTo(s, i)
  BY <1>1, NonBlankStrict
<1>3. NonBlankUpTo(s, i - 1) \in Nat /\ NonBlankUpTo(s, i) \in Nat
  BY <1>1, NonBlankType
<1>. QED
  BY <1>1, <1>2, <1>3, NonBlankMonotone

\* All the non-blank lines are the set that NonBlankUpTo(s, Len(s)) counts.
LEMMA LinesCount ==
  ASSUME NEW s \in Seq(LineKinds)
  PROVE  /\ IsFiniteSet(Lines(s))
         /\ Cardinality(Lines(s)) = NonBlankUpTo(s, Len(s))
<1>1. Lines(s) = NonBlankSet(s, Len(s))
  BY DEF Lines, NonBlankSet
<1>. QED
  BY <1>1, NonBlankType
(***************************************************************************)
(* parseNdjson considers as many lines as updateCount shows: all the       *)
(* non-blank lines below the cap, exactly Cap of them otherwise (the       *)
(* "count > 1000" break of lines 117 and 137, for every cap).              *)
(***************************************************************************)
LEMMA ConsideredCount ==
  ASSUME NEW s \in Seq(LineKinds)
  PROVE  /\ IsFiniteSet(Considered(s))
         /\ Cardinality(Considered(s)) = Count(s).n
<1> DEFINE N == NonBlankUpTo(s, Len(s))
           C == Considered(s)
           T == {i \in Lines(s) : NonBlankUpTo(s, i) > Cap}
           M == IF N < Cap THEN N ELSE Cap
<1>0. N \in Nat /\ Cap \in Nat \ {0} /\ Count(s).n = M
  BY NonBlankType, AuditAssumption DEF Count
<1>1. C = {i \in Lines(s) : NonBlankUpTo(s, i) <= Cap}
  BY DEF Considered, ParseConsidered, Lines
<1>2. IsFiniteSet(Lines(s)) /\ Cardinality(Lines(s)) = N
  BY LinesCount
<1>3. IsFiniteSet(C) /\ IsFiniteSet(T)
  BY <1>1, <1>2, FS_Subset
<1>4. Cardinality(C) <= M
  <2>1. \A i \in C : NonBlankUpTo(s, i) \in 1..M
    BY <1>0, <1>1, NumberRange
  <2>2. Numbering(s, C) \in Injection(C, 1..M)
    BY <1>1, <2>1, NumberingInjective
  <2>3. IsFiniteSet(1..M) /\ Cardinality(1..M) = M
    <3>1. M \in Nat
      BY <1>0
    <3>2. \A m \in Nat : IsFiniteSet(1..m) /\ Cardinality(1..m) = m
      BY FS_Interval
    <3>. QED
      BY <3>1, <3>2
  <2>. QED
    BY <2>2, <2>3, FS_Injection
<1>5. CASE N < Cap
  <2>1. C = Lines(s)
    BY <1>0, <1>1, <1>5, NumberRange
  <2>. QED
    BY <1>0, <1>2, <1>3, <1>5, <2>1
<1>6. CASE ~(N < Cap)
  <2>1. Cardinality(T) <= N - Cap
    <3>1. \A i \in T : NonBlankUpTo(s, i) \in (Cap + 1)..N
      BY <1>0, NumberRange
    <3>2. Numbering(s, T) \in Injection(T, (Cap + 1)..N)
      BY <3>1, NumberingInjective
    <3>3. IsFiniteSet((Cap + 1)..N) /\ Cardinality((Cap + 1)..N) = N - Cap
      <4>1. \A a, b \in Int : a <= b + 1 =>
              IsFiniteSet(a..b) /\ Cardinality(a..b) = b - a + 1
        BY FS_Interval
      <4>2. Cap + 1 \in Int /\ N \in Int /\ Cap + 1 <= N + 1
        BY <1>0, <1>6
      <4>3. IsFiniteSet((Cap + 1)..N) /\ Cardinality((Cap + 1)..N) = N - (Cap + 1) + 1
        BY <4>1, <4>2, Zenon
      <4>. QED
        BY <1>0, <4>3
    <3>. QED
      BY <3>2, <3>3, FS_Injection
  <2>2. Lines(s) = C \cup T /\ C \cap T = {}
    <3>1. \A i \in Lines(s) : NonBlankUpTo(s, i) \in Nat
      BY NumberRange, <1>0
    <3>2. \A i : i \in Lines(s) <=> i \in C \/ i \in T
      BY <1>0, <1>1, <3>1
    <3>3. \A i : ~(i \in C /\ i \in T)
      BY <1>0, <1>1, <3>1
    <3>. QED
      BY <3>2, <3>3
  <2>3. Cardinality(Lines(s)) = Cardinality(C) + Cardinality(T)
    <3>1. Cardinality(C \cup T) = Cardinality(C) + Cardinality(T) - Cardinality(C \cap T)
      BY <1>3, FS_Union
    <3>2. Cardinality(C \cap T) = 0
      BY <2>2, FS_EmptySet
    <3>3. Cardinality(C) \in Nat /\ Cardinality(T) \in Nat
      BY <1>3, FS_CardinalityType
    <3>4. Cardinality(Lines(s)) = Cardinality(C \cup T)
      BY <2>2, Zenon
    <3>. QED
      BY <3>1, <3>2, <3>3, <3>4
  <2>4. Cardinality(C) \in Nat /\ Cardinality(T) \in Nat
    BY <1>3, FS_CardinalityType
  <2>. QED
    BY <1>0, <1>2, <1>3, <1>4, <1>6, <2>1, <2>3, <2>4
<1>. QED
  BY <1>3, <1>5, <1>6
\* The request Verify sends for a text.
ReqOf(s) == [n |-> Cardinality(Rows(s)),
             invalid |-> Cardinality({i \in Rows(s) : s[i] = "invalid"})]

\* The counter of a text is a count up to Cap and a flag.
LEMMA CountType ==
  ASSUME NEW s \in Seq(LineKinds)
  PROVE  Count(s) \in [n : 0..Cap, red : BOOLEAN]
<1>1. NonBlankUpTo(s, Len(s)) \in Nat /\ Cap \in Nat
  BY NonBlankType, AuditAssumption
<1>. QED
  BY <1>1 DEF Count

\* A request carries at most Cap entries, and at most as many invalid ones:
\* the rows are among the lines considered.
LEMMA RequestBounded ==
  ASSUME NEW s \in Seq(LineKinds)
  PROVE  ReqOf(s) \in [n : 0..Cap, invalid : 0..Cap]
<1>1. Rows(s) \subseteq Considered(s)
  BY DEF Rows, Considered
<1>2. IsFiniteSet(Considered(s)) /\ Cardinality(Considered(s)) = Count(s).n
  BY ConsideredCount
<1>3. Count(s).n \in 0..Cap
  BY CountType
<1>4. IsFiniteSet(Rows(s)) /\ Cardinality(Rows(s)) <= Count(s).n
  BY <1>1, <1>2, FS_Subset
<1>5. {i \in Rows(s) : s[i] = "invalid"} \subseteq Rows(s)
  OBVIOUS
<1>6. Cardinality({i \in Rows(s) : s[i] = "invalid"}) <= Cardinality(Rows(s))
  BY <1>4, <1>5, FS_Subset
<1>7. Cardinality(Rows(s)) \in Nat /\ Cardinality({i \in Rows(s) : s[i] = "invalid"}) \in Nat
  BY <1>1, <1>5, LinesCardinality DEF Considered
<1>8. Cardinality(Rows(s)) \in 0..Cap
  BY <1>3, <1>4, <1>7, AuditAssumption
<1>9. Cardinality({i \in Rows(s) : s[i] = "invalid"}) \in 0..Cap
  BY <1>6, <1>7, <1>8, AuditAssumption
<1>. QED
  BY <1>8, <1>9 DEF ReqOf

(***************************************************************************)
(* A text without parse errors is sent whole up to the cut: its rows are   *)
(* the lines considered, as many as the counter shows, and the counter is  *)
(* not red (a red counter means a considered line failed to parse).        *)
(***************************************************************************)
LEMMA VerifyMatchesCount ==
  ASSUME NEW s \in Seq(LineKinds), ParseErrors(s) = {}
  PROVE  /\ Cardinality(Rows(s)) = Count(s).n
         /\ ~Count(s).red
<1>1. \A i \in Considered(s) : s[i] \in LineKinds \ {"blank"}
  BY DEF Considered, ParseConsidered
<1>2. \A i \in Considered(s) : s[i] \notin {"bad_json", "no_fields"}
  BY DEF Considered, ParseErrors
<1>3. Rows(s) = Considered(s)
  BY <1>1, <1>2 DEF Rows, Considered, LineKinds
<1>4. ~Count(s).red
  BY <1>2 DEF Count, CountConsidered, ParseConsidered, Considered
<1>. QED
  BY <1>3, <1>4, ConsideredCount
(***************************************************************************)
(* The inductive invariant of the counter and the request: the counter is  *)
(* that of the text (the input event runs updateCount, and the text cannot *)
(* change while locked), and a request in flight is the one Verify built   *)
(* from that text, which had no parse errors.                              *)
(***************************************************************************)
CountInv ==
  /\ shown = Count(input)
  /\ locked => ParseErrors(input) = {} /\ req = ReqOf(input)

\* The part of TypeOK that PagerInv does not give.
CountTypes ==
  /\ input \in Inputs \cup {<<>>}
  /\ shown \in [n : 0..Cap, red : BOOLEAN]
  /\ req \in [n : 0..Cap, invalid : 0..Cap]
  /\ pager.total \in 0..Cap

LEMMA TypeFromParts == CountTypes /\ PagerInv => TypeOK
BY DEF CountTypes, PagerInv, TypeOK

\* The empty text of Init and Clear is a text.
LEMMA EmptyText == <<>> \in Seq(LineKinds)
BY DEF LineKinds

LEMMA InputLines == CountTypes => input \in Seq(LineKinds)
<1>1. Inputs \subseteq Seq(LineKinds)
  BY AuditAssumption
<1>. QED
  BY <1>1, EmptyText DEF CountTypes

LEMMA InitCount == Init => CountTypes /\ CountInv
<1> SUFFICES ASSUME Init PROVE CountTypes /\ CountInv
  OBVIOUS
<1>1. Count(<<>>) \in [n : 0..Cap, red : BOOLEAN]
  BY EmptyText, CountType
<1>2. Cap \in Nat
  BY AuditAssumption
<1>. QED
  BY <1>1, <1>2 DEF Init, CountTypes, CountInv, NoReq, NoPager

LEMMA StepCount ==
  ASSUME CountTypes, CountInv, PagerInv, [Next]_vars
  PROVE  CountTypes' /\ CountInv'
<1>0. input \in Seq(LineKinds) /\ Cap \in Nat
  BY InputLines, AuditAssumption
<1>1. ASSUME NEW s \in Inputs, Edit(s) PROVE CountTypes' /\ CountInv'
  <2>1. s \in Seq(LineKinds)
    BY AuditAssumption
  <2>2. Count(s) \in [n : 0..Cap, red : BOOLEAN]
    BY <2>1, CountType
  <2>. QED
    BY <1>1, <2>2 DEF Edit, CountTypes, CountInv
<1>2. CASE Clear
  <2>1. Count(<<>>) \in [n : 0..Cap, red : BOOLEAN]
    BY EmptyText, CountType
  <2>. QED
    BY <1>0, <1>2, <2>1 DEF Clear, CountTypes, CountInv, NoPager
<1>3. CASE Verify
  <2>1. ~locked /\ pager' = NoPager /\ UNCHANGED <<input, shown>>
    BY <1>3 DEF Verify
  <2>2. CASE UNCHANGED <<locked, req>>
    BY <1>0, <2>1, <2>2 DEF CountTypes, CountInv, NoPager
  <2>3. CASE locked' = TRUE /\ ParseErrors(input) = {} /\ req' = ReqOf(input)
    <3>1. ReqOf(input) \in [n : 0..Cap, invalid : 0..Cap]
      BY <1>0, RequestBounded
    <3>. QED
      BY <1>0, <2>1, <2>3, <3>1 DEF CountTypes, CountInv, NoPager
  <2>. QED
    BY <1>3, <2>2, <2>3 DEF Verify, ReqOf
<1>4. CASE Answered
  <2>1. locked /\ locked' = FALSE /\ req' = NoReq /\ UNCHANGED <<input, shown>>
        /\ pager'.total = req.invalid
    BY <1>4 DEF Answered
  <2>. QED
    BY <1>0, <2>1 DEF CountTypes, CountInv, NoReq
<1>5. CASE Failed
  BY <1>0, <1>5 DEF Failed, CountTypes, CountInv, NoReq
<1>6. CASE Wire \/ PrevPage \/ NextPage
  <2>1. UNCHANGED <<input, shown, locked, req>> /\ pager'.total = pager.total
    BY <1>6 DEF Wire, PrevPage, NextPage, PagerInv
  <2>. QED
    BY <2>1 DEF CountTypes, CountInv
<1>7. CASE UNCHANGED vars
  BY <1>7 DEF vars, CountTypes, CountInv
<1>. QED
  BY <1>1, <1>2, <1>3, <1>4, <1>5, <1>6, <1>7 DEF Next

LEMMA CountInductive == Spec => [](CountTypes /\ CountInv)
BY InitCount, StepCount, PagerInductive, PTL DEF Spec

(***************************************************************************)
(* Every state of the audit page is well typed for every cap, page size    *)
(* and set of texts: in particular a verify request never carries more     *)
(* than Cap (1000) entries, nor the pager more than Cap invalid ones.      *)
(***************************************************************************)
THEOREM AuditTypeCorrect == Spec => []TypeOK
BY CountInductive, PagerInductive, TypeFromParts, PTL

(***************************************************************************)
(* A verify request in flight carries exactly as many entries as the       *)
(* counter shows, and the counter is not red: countLines and parseNdjson   *)
(* cut at the same line (lines 117 and 137), for every cap, and the text   *)
(* is locked while the request is in flight.                               *)
(***************************************************************************)
THEOREM VerifySendsCounted == Spec => []CountMatchesSent
<1>1. CountTypes /\ CountInv => CountMatchesSent
  <2> SUFFICES ASSUME CountTypes, CountInv, locked PROVE req.n = shown.n /\ ~shown.red
    BY DEF CountMatchesSent
  <2>1. input \in Seq(LineKinds) /\ ParseErrors(input) = {} /\ req = ReqOf(input)
        /\ shown = Count(input)
    BY InputLines DEF CountInv
  <2>. QED
    BY <2>1, VerifyMatchesCount DEF ReqOf
<1>. QED
  BY <1>1, CountInductive, PTL
=============================================================================
