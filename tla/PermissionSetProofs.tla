------------------------- MODULE PermissionSetProofs -------------------------
(***************************************************************************)
(* Proofs about PermissionSet for every value of the constants: the type   *)
(* invariant, that the decision cache never changes an answer, and that    *)
(* the cache holds, in FIFO order, the last CacheMax keys evaluated.       *)
(***************************************************************************)
EXTENDS PermissionSet, SequenceTheorems, TLAPS

USE CacheMaxAssumption, QueryListsAssumption

\* The evaluation, and so the decision, is a Boolean.
LEMMA EvaluateBool == \A g, p : Evaluate(g, p) \in BOOLEAN /\ Decision(g, p) \in BOOLEAN
BY DEF Evaluate, Decision

(***************************************************************************)
(* _remember keeps the cache a sequence of entries, and every entry it     *)
(* leaves is an old entry or the new one.                                  *)
(***************************************************************************)
LEMMA RememberEntries ==
  ASSUME NEW c \in Seq(Entry), NEW k \in Queries, NEW v \in BOOLEAN
  PROVE  /\ Remember(c, k, v) \in Seq(Entry)
         /\ \A i \in DOMAIN Remember(c, k, v) :
              Remember(c, k, v)[i] \in {c[j] : j \in DOMAIN c} \cup {[key |-> k, val |-> v]}
<1> DEFINE e == [key |-> k, val |-> v]
           c1 == Append(c, e)
<1>1. e \in Entry
  BY DEF Entry
<1>2. c1 \in Seq(Entry) /\ Len(c1) = Len(c) + 1
  BY <1>1, AppendProperties
<1>3. \A i \in DOMAIN c1 : c1[i] \in {c[j] : j \in DOMAIN c} \cup {e}
  BY <1>1, AppendProperties
<1>4. CASE Len(c1) > CacheMax
  <2>1. c1 # <<>>
    BY <1>2, <1>4
  <2>2. Tail(c1) \in Seq(Entry) /\ Len(Tail(c1)) = Len(c1) - 1
    BY <1>2, <2>1, HeadTailProperties
  <2>3. \A i \in DOMAIN Tail(c1) : Tail(c1)[i] = c1[i + 1]
    BY <1>2, <2>1, HeadTailProperties
  <2>4. \A i \in DOMAIN Tail(c1) : i + 1 \in DOMAIN c1
    BY <1>2, <2>2
  <2>. QED
    BY <1>4, <2>2, <2>3, <2>4, <1>3 DEF Remember
<1>5. CASE ~(Len(c1) > CacheMax)
  BY <1>2, <1>3, <1>5 DEF Remember
<1>. QED
  BY <1>4, <1>5

\* has() answers with a Boolean and leaves the cache a sequence of entries.
LEMMA HasTypes ==
  ASSUME NEW c \in Seq(Entry), NEW p \in Queries
  PROVE  /\ HasResult(c, p) \in BOOLEAN
         /\ HasCache(c, p) \in Seq(Entry)
<1>1. CASE IsCached(c, p)
  <2>1. \E i \in DOMAIN c : c[i].key = p
    BY <1>1 DEF IsCached
  <2> DEFINE j == CHOOSE i \in DOMAIN c : c[i].key = p
  <2>2. j \in DOMAIN c
    BY <2>1
  <2>3. c[j] \in Entry
    BY <2>2
  <2>4. CachedVal(c, p) \in BOOLEAN
    BY <2>3 DEF CachedVal, Entry
  <2>. QED
    BY <1>1, <2>4, EvaluateBool DEF HasResult, HasCache
<1>2. CASE ~IsCached(c, p)
  BY <1>2, EvaluateBool, RememberEntries DEF HasResult, HasCache
<1>. QED
  BY <1>1, <1>2

(***************************************************************************)
(* With a sound cache, has(p) answers the decision for p, and the cache it *)
(* leaves is sound.                                                        *)
(***************************************************************************)
LEMMA HasSound ==
  ASSUME NEW c \in Seq(Entry), NEW p \in Queries,
         \A i \in DOMAIN c : c[i].val = Evaluate(grants, c[i].key)
  PROVE  /\ HasResult(c, p) = Decision(grants, p)
         /\ \A i \in DOMAIN HasCache(c, p) :
              HasCache(c, p)[i].val = Evaluate(grants, HasCache(c, p)[i].key)
<1>1. CASE Blank(p)
  BY <1>1 DEF HasResult, HasCache, Decision
<1>2. CASE ~Blank(p) /\ IsCached(c, p)
  <2> DEFINE j == CHOOSE i \in DOMAIN c : c[i].key = p
  <2>1. j \in DOMAIN c /\ c[j].key = p
    BY <1>2 DEF IsCached
  <2>2. CachedVal(c, p) = Evaluate(grants, p)
    BY <2>1 DEF CachedVal
  <2>. QED
    BY <1>2, <2>2, EvaluateBool DEF HasResult, HasCache, Decision
<1>3. CASE ~Blank(p) /\ ~IsCached(c, p)
  <2>1. Evaluate(grants, p) \in BOOLEAN
    BY EvaluateBool
  <2>2. \A i \in DOMAIN Remember(c, p, Evaluate(grants, p)) :
          Remember(c, p, Evaluate(grants, p))[i]
            \in {c[j] : j \in DOMAIN c} \cup {[key |-> p, val |-> Evaluate(grants, p)]}
    BY <2>1, RememberEntries
  <2>. QED
    BY <1>3, <2>1, <2>2 DEF HasResult, HasCache, Decision
<1>. QED
  BY <1>1, <1>2, <1>3

-----------------------------------------------------------------------------
\* The type invariant.
LEMMA TypeStep == TypeOK /\ [Next]_vars => TypeOK'
  <2> SUFFICES ASSUME TypeOK, [Next]_vars PROVE TypeOK'
    OBVIOUS
  <2> USE DEF TypeOK
  <2>1. ASSUME NEW p \in Queries, Has(p) PROVE TypeOK'
    BY <2>1, HasTypes, AppendProperties DEF Has, HasMisses, Done_
  <2>2. ASSUME NEW ps \in QueryLists, NEW kind \in {"anyOf", "allOf"}, Call(kind, ps)
        PROVE TypeOK'
    BY <2>2 DEF Call, Call_
  <2>3. ASSUME NEW kind \in {"anyOf", "allOf"}, NEW stopOn \in BOOLEAN,
               Iterate(kind, stopOn)
        PROVE TypeOK'
    <3> DEFINE p == Head(op.todo)
    <3>1. op.todo \in Seq(Queries) /\ op.todo # <<>> /\ op.args \in Seq(Queries)
      BY <2>3 DEF Iterate, Call_
    <3>2. p \in Queries /\ Tail(op.todo) \in Seq(Queries)
      BY <3>1, HeadTailProperties
    <3>3. cache' \in Seq(Entry) /\ misses' \in Seq(Queries)
      BY <2>3, <3>2, HasTypes, AppendProperties DEF Iterate, HasMisses
    <3>4. [kind |-> kind, args |-> op.args, todo |-> Tail(op.todo)] \in Call_
      BY <3>1, <3>2 DEF Call_
    <3>5. op' \in Call_ /\ last' \in Done_
      <4>1. CASE HasResult(cache, p) = stopOn
        <5>1. op' = Idle /\ last' = [kind |-> kind, args |-> op.args, result |-> stopOn]
          BY <2>3, <4>1 DEF Iterate
        <5>. QED
          BY <5>1, <3>1 DEF Call_, Done_, Idle
      <4>2. CASE HasResult(cache, p) # stopOn
        <5>1. op' = [kind |-> kind, args |-> op.args, todo |-> Tail(op.todo)] /\ last' = last
          BY <2>3, <4>2 DEF Iterate
        <5>. QED
          BY <5>1, <3>4
      <4>. QED
        BY <4>1, <4>2
    <3>. QED
      BY <2>3, <3>3, <3>5 DEF Iterate
  <2>4. ASSUME NEW kind \in {"anyOf", "allOf"}, NEW result \in BOOLEAN,
               Exhausted(kind, result)
        PROVE TypeOK'
    BY <2>4 DEF Exhausted, Call_, Done_, Idle
  <2>5. CASE UNCHANGED vars
    BY <2>5 DEF vars
  <2>. QED
    BY <2>1, <2>2, <2>3, <2>4, <2>5
       DEF Next, AnyOfStep, AnyOfDone, AllOfStep, AllOfDone

THEOREM TypeCorrect == Spec => []TypeOK
<1>1. Init => TypeOK
  BY DEF Init, TypeOK, Idle, NoCall, Call_, Done_
<1>. QED
  BY <1>1, TypeStep, PTL DEF Spec

-----------------------------------------------------------------------------
(***************************************************************************)
(* Every call of has(), anyOf() and allOf() returns the decision of the    *)
(* allow and deny lists, whatever the cache holds, for every grant list,   *)
(* query set and cache bound.                                              *)
(***************************************************************************)
THEOREM CacheTransparent == Spec => []ResultCorrect
<1>1. Init => IInv
  BY DEF Init, IInv, TypeOK, CacheSound, OpInv, ResultCorrect, Idle, NoCall, Call_, Done_
<1>2. IInv /\ [Next]_vars => IInv'
  <2> SUFFICES ASSUME IInv, [Next]_vars PROVE IInv'
    OBVIOUS
  <2>0. TypeOK /\ CacheSound /\ OpInv /\ ResultCorrect
    BY DEF IInv
  <2>t. TypeOK'
    BY <2>0, TypeStep
  <2>1. ASSUME NEW p \in Queries, Has(p) PROVE IInv'
    <3>1. CacheSound' /\ ResultCorrect'
      BY <2>0, <2>1, HasSound DEF Has, TypeOK, CacheSound, ResultCorrect
    <3>2. OpInv'
      BY <2>1 DEF Has, OpInv, Idle
    <3>. QED
      BY <2>t, <3>1, <3>2 DEF IInv
  <2>2. ASSUME NEW ps \in QueryLists, NEW kind \in {"anyOf", "allOf"}, Call(kind, ps)
        PROVE IInv'
    <3>1. ps \in Seq(Queries)
      OBVIOUS
    <3>2. SubSeq(ps, 0 + 1, Len(ps)) = ps
      BY <3>1, SubSeqFull
    <3>3. OpInv'
      BY <2>2, <3>2 DEF Call, OpInv
    <3>. QED
      BY <2>0, <2>t, <2>2, <3>3 DEF Call, IInv, CacheSound, ResultCorrect
  <2>3. ASSUME NEW kind \in {"anyOf", "allOf"}, NEW stopOn \in BOOLEAN,
               stopOn = (kind = "anyOf"), Iterate(kind, stopOn)
        PROVE IInv'
    <3> DEFINE args == op.args
               L == Len(op.args)
               p == Head(op.todo)
    <3>1. op.kind = kind /\ op.todo # <<>> /\ args \in Seq(Queries)
      BY <2>0, <2>3 DEF Iterate, TypeOK, Call_
    <3>2. PICK n \in 0..L : /\ op.todo = SubSeq(args, n + 1, L)
                            /\ \A i \in 1..n : Decision(grants, args[i]) = (kind = "allOf")
      BY <2>0, <3>1 DEF OpInv
    <3>3. n + 1 <= L
      <4>1. SUFFICES ASSUME n + 1 > L PROVE FALSE
        OBVIOUS
      <4>2. SubSeq(args, n + 1, L) = <<>>
        BY <4>1, SubSeqEmpty
      <4>. QED
        BY <4>2, <3>1, <3>2
    <3>4. p = args[n + 1] /\ Tail(op.todo) = SubSeq(args, n + 2, L)
      BY <3>1, <3>2, <3>3, HeadTailOfSubSeq
    <3>5. p \in Queries
      BY <3>1, <3>3, <3>4
    <3>6. HasResult(cache, p) = Decision(grants, p) /\ CacheSound'
      BY <2>0, <2>3, <3>5, HasSound DEF Iterate, TypeOK, CacheSound
    <3>7. CASE HasResult(cache, p) = stopOn
      <4>1. op' = Idle /\ last' = [kind |-> kind, args |-> args, result |-> stopOn]
            /\ grants' = grants
        BY <2>3, <3>7 DEF Iterate
      <4>2. Decision(grants, args[n + 1]) = stopOn
        BY <3>4, <3>6, <3>7
      <4>3. ResultCorrect'
        <5>1. n + 1 \in DOMAIN args
          BY <3>1, <3>3
        <5>2. CASE kind = "anyOf"
          BY <4>1, <4>2, <5>1, <5>2, <2>3 DEF ResultCorrect
        <5>3. CASE kind = "allOf"
          BY <4>1, <4>2, <5>1, <5>3, <2>3 DEF ResultCorrect
        <5>. QED
          BY <5>2, <5>3
      <4>4. OpInv'
        BY <4>1 DEF OpInv, Idle
      <4>. QED
        BY <2>t, <3>6, <4>3, <4>4 DEF IInv
    <3>8. CASE HasResult(cache, p) # stopOn
      <4>1. op' = [kind |-> kind, args |-> args, todo |-> SubSeq(args, n + 2, L)]
            /\ last' = last /\ grants' = grants
        BY <2>3, <3>8, <3>4 DEF Iterate
      <4>2. Decision(grants, args[n + 1]) = (kind = "allOf")
        BY <3>4, <3>6, <3>8, <2>3, EvaluateBool
      <4>3. \A i \in 1..(n + 1) : Decision(grants, args[i]) = (kind = "allOf")
        BY <3>2, <4>2
      <4>4. OpInv'
        <5>1. n + 1 \in 0..L
          BY <3>3
        <5>. QED
          BY <4>1, <4>3, <5>1 DEF OpInv
      <4>5. ResultCorrect'
        BY <2>0, <4>1 DEF ResultCorrect
      <4>. QED
        BY <2>t, <3>6, <4>4, <4>5 DEF IInv
    <3>. QED
      BY <3>7, <3>8
  <2>4. ASSUME NEW kind \in {"anyOf", "allOf"}, NEW result \in BOOLEAN,
               result = (kind = "allOf"), Exhausted(kind, result)
        PROVE IInv'
    <3> DEFINE args == op.args
               L == Len(op.args)
    <3>1. op.kind = kind /\ op.todo = <<>> /\ args \in Seq(Queries)
      BY <2>0, <2>4 DEF Exhausted, TypeOK, Call_
    <3>2. PICK n \in 0..L : /\ op.todo = SubSeq(args, n + 1, L)
                            /\ \A i \in 1..n : Decision(grants, args[i]) = (kind = "allOf")
      BY <2>0, <3>1 DEF OpInv
    <3>3. n = L
      <4>1. SUFFICES ASSUME n < L PROVE FALSE
        OBVIOUS
      <4>2. Len(SubSeq(args, n + 1, L)) = L - n
        BY <3>1, SubSeqProperties
      <4>. QED
        BY <4>1, <4>2, <3>1, <3>2
    <3>4. \A i \in DOMAIN args : Decision(grants, args[i]) = result
      BY <3>1, <3>2, <3>3, <2>4
    <3>5. last' = [kind |-> kind, args |-> args, result |-> result] /\ grants' = grants
      BY <2>4 DEF Exhausted
    <3>6. ResultCorrect'
      <4>1. CASE kind = "anyOf"
        BY <3>4, <3>5, <4>1, <2>4 DEF ResultCorrect
      <4>2. CASE kind = "allOf"
        BY <3>4, <3>5, <4>2, <2>4 DEF ResultCorrect
      <4>. QED
        BY <4>1, <4>2
    <3>. QED
      BY <2>0, <2>t, <2>4, <3>6 DEF Exhausted, IInv, CacheSound, OpInv, Idle
  <2>5. CASE UNCHANGED vars
    BY <2>0, <2>t, <2>5 DEF vars, IInv, CacheSound, OpInv, ResultCorrect
  <2>. QED
    BY <2>1, <2>2, <2>3, <2>4, <2>5
       DEF Next, AnyOfStep, AnyOfDone, AllOfStep, AllOfDone
<1>. QED
  BY <1>1, <1>2, PTL DEF Spec, IInv
(***************************************************************************)
(* The FIFO order of the cache.  Keys(c) is the list of keys of a cache,   *)
(* Win(m) the number of keys the cache holds after the misses m, and       *)
(* Window(m) the last Win(m) of them: CacheFIFO says Keys(cache) =         *)
(* Window(misses).                                                         *)
(***************************************************************************)
Keys(c) == [i \in DOMAIN c |-> c[i].key]
Win(m) == IF Len(m) < CacheMax THEN Len(m) ELSE CacheMax
Window(m) == SubSeq(m, Len(m) - Win(m) + 1, Len(m))

\* The window is a list of Win(m) keys, the last ones of m in their order.
LEMMA WindowFacts ==
  ASSUME NEW m \in Seq(Queries)
  PROVE  /\ Win(m) \in 0..Len(m)
         /\ Window(m) \in Seq(Queries)
         /\ Len(Window(m)) = Win(m)
         /\ \A i \in 1..Win(m) : Window(m)[i] = m[Len(m) - Win(m) + i]
<1>1. Win(m) \in 0..Len(m)
  BY DEF Win
<1>2. \A i \in (Len(m) - Win(m) + 1)..Len(m) : m[i] \in Queries
  BY <1>1
<1>. QED
  BY <1>1, <1>2, SubSeqProperties DEF Window

\* The keys of a cache of entries are a list of queries, entry by entry.
LEMMA KeysFacts ==
  ASSUME NEW c \in Seq(Entry)
  PROVE  /\ Keys(c) \in Seq(Queries)
         /\ Len(Keys(c)) = Len(c)
         /\ \A i \in 1..Len(c) : Keys(c)[i] = c[i].key
<1>1. DOMAIN c = 1..Len(c) /\ \A i \in 1..Len(c) : c[i] \in Entry
  OBVIOUS
<1>2. \A i \in 1..Len(c) : c[i].key \in Queries
  BY <1>1 DEF Entry
<1>3. Keys(c) = [i \in 1..Len(c) |-> c[i].key]
  BY <1>1 DEF Keys
<1>. QED
  BY <1>2, <1>3

(***************************************************************************)
(* _remember of a missed key keeps the cache the window of the misses: the *)
(* new key is appended and, past CacheMax, the oldest one goes, which is   *)
(* the one the window of the longer list of misses leaves out.             *)
(***************************************************************************)
LEMMA RememberFIFO ==
  ASSUME NEW m \in Seq(Queries), NEW c \in Seq(Entry), Keys(c) = Window(m),
         NEW p \in Queries, NEW v \in BOOLEAN
  PROVE  Keys(Remember(c, p, v)) = Window(Append(m, p))
<1> DEFINE e == [key |-> p, val |-> v]
           c1 == Append(c, e)
           m1 == Append(m, p)
           k == Win(m)
           L == Len(m)
<1>1. e \in Entry
  BY DEF Entry
<1>2. c1 \in Seq(Entry) /\ Len(c1) = Len(c) + 1 /\ c1[Len(c) + 1] = e
      /\ \A i \in 1..Len(c) : c1[i] = c[i]
  BY <1>1, AppendProperties
<1>3. m1 \in Seq(Queries) /\ Len(m1) = L + 1 /\ m1[L + 1] = p
      /\ \A i \in 1..L : m1[i] = m[i]
  BY AppendProperties
<1>4. k \in 0..L /\ Len(c) = k
      /\ \A i \in 1..k : c[i].key = m[L - k + i]
  BY WindowFacts, KeysFacts
<1>5. /\ Window(m1) \in Seq(Queries) /\ Len(Window(m1)) = Win(m1)
      /\ \A i \in 1..Win(m1) : Window(m1)[i] = m1[L + 1 - Win(m1) + i]
  <2>1. /\ Window(m1) \in Seq(Queries) /\ Len(Window(m1)) = Win(m1)
        /\ \A i \in 1..Win(m1) : Window(m1)[i] = m1[Len(m1) - Win(m1) + i]
    BY <1>3, WindowFacts
  <2>2. Win(m1) \in Int /\ Len(m1) = L + 1
    BY <1>3 DEF Win
  <2>3. \A i \in 1..Win(m1) : Window(m1)[i] = m1[L + 1 - Win(m1) + i]
    <3> TAKE i \in 1..Win(m1)
    <3>1. Len(m1) - Win(m1) + i = L + 1 - Win(m1) + i
      BY <2>2
    <3>. QED
      BY <2>1, <3>1, Zenon
  <2>. QED
    BY <2>1, <2>3
<1>6. CASE L < CacheMax
  <2>0. k = L
    BY <1>6 DEF Win
  <2>a. Win(m1) = L + 1
    BY <1>3, <1>6 DEF Win
  <2>b. ~(Len(c1) > CacheMax)
    BY <1>2, <1>4, <1>6, <2>0
  <2>1. k = L /\ Win(m1) = L + 1 /\ ~(Len(c1) > CacheMax)
    BY <2>0, <2>a, <2>b
  <2>2. Remember(c, p, v) = c1
    BY <2>1 DEF Remember
  <2>3. Keys(c1) \in Seq(Queries) /\ Len(Keys(c1)) = L + 1
        /\ \A i \in 1..(L + 1) : Keys(c1)[i] = c1[i].key
    <3>1. Len(c1) = L + 1
      BY <1>2, <2>1, <1>4
    <3>. QED
      BY <1>2, <3>1, KeysFacts
  <2>4. \A i \in 1..(L + 1) : Keys(c1)[i] = Window(m1)[i]
    <3> TAKE i \in 1..(L + 1)
    <3>1. Window(m1)[i] = m1[i]
      BY <1>5, <2>1
    <3>2. CASE i <= L
      BY <3>1, <3>2, <2>3, <1>2, <1>3, <1>4, <2>1
    <3>3. CASE i = L + 1
      BY <3>1, <3>3, <2>3, <1>2, <1>3, <1>4, <2>1
    <3>. QED
      BY <3>2, <3>3
  <2>. QED
    BY <2>2, <2>3, <2>4, <1>5, <2>1, SeqEqual
<1>7. CASE ~(L < CacheMax)
  <2>1. k = CacheMax /\ Win(m1) = CacheMax /\ Len(c1) > CacheMax
    BY <1>2, <1>3, <1>4, <1>7 DEF Win
  <2>2. Remember(c, p, v) = Tail(c1)
    BY <2>1 DEF Remember
  <2>3. c1 # <<>>
    BY <1>2
  <2>4. Tail(c1) \in Seq(Entry) /\ Len(Tail(c1)) = CacheMax
        /\ \A i \in 1..CacheMax : Tail(c1)[i] = c1[i + 1]
    BY <1>2, <1>4, <2>1, <2>3, HeadTailProperties
  <2>5. Keys(Tail(c1)) \in Seq(Queries) /\ Len(Keys(Tail(c1))) = CacheMax
        /\ \A i \in 1..CacheMax : Keys(Tail(c1))[i] = c1[i + 1].key
    BY <2>4, KeysFacts
  <2>6. \A i \in 1..CacheMax : Keys(Tail(c1))[i] = Window(m1)[i]
    <3> TAKE i \in 1..CacheMax
    <3>1. Window(m1)[i] = m1[L + 1 - CacheMax + i]
      BY <1>5, <2>1
    <3>2. CASE i < CacheMax
      <4>1. c1[i + 1] = c[i + 1] /\ c[i + 1].key = m[L - CacheMax + i + 1]
        BY <3>2, <1>2, <1>4, <2>1
      <4>2. L + 1 - CacheMax + i \in 1..L /\ L + 1 - CacheMax + i = L - CacheMax + i + 1
        BY <3>2, <1>7
      <4>3. m1[L + 1 - CacheMax + i] = m[L - CacheMax + i + 1]
        BY <4>2, <1>3
      <4>4. Keys(Tail(c1))[i] = c[i + 1].key
        BY <4>1, <2>5
      <4>. QED
        BY <3>1, <4>1, <4>3, <4>4
    <3>3. CASE i = CacheMax
      BY <3>1, <3>3, <2>5, <1>2, <1>3, <1>4, <2>1
    <3>. QED
      BY <3>2, <3>3
  <2>. QED
    BY <2>2, <2>5, <2>6, <1>5, <2>1, SeqEqual
<1>. QED
  BY <1>6, <1>7
\* CacheFIFO is the equation between the keys and the window of the misses.
LEMMA FIFODef == CacheFIFO <=> Keys(cache) = Window(misses)
BY DEF CacheFIFO, CacheKeys, Keys, Window, Win

LEMMA FIFODefPrimed == CacheFIFO' <=> Keys(cache') = Window(misses')
BY DEF CacheFIFO, CacheKeys, Keys, Window, Win

\* has(p) keeps the cache the window of the misses: a blank key or a hit
\* changes neither, a miss is remembered and counted.
LEMMA HasFIFO ==
  ASSUME TypeOK, CacheFIFO, NEW p \in Queries
  PROVE  Keys(HasCache(cache, p)) = Window(HasMisses(cache, p))
<1>1. CASE Blank(p) \/ IsCached(cache, p)
  BY <1>1, FIFODef DEF HasCache, HasMisses
<1>2. CASE ~(Blank(p) \/ IsCached(cache, p))
  <2>1. HasCache(cache, p) = Remember(cache, p, Evaluate(grants, p))
        /\ HasMisses(cache, p) = Append(misses, p)
    BY <1>2 DEF HasCache, HasMisses
  <2>2. Evaluate(grants, p) \in BOOLEAN
    BY EvaluateBool
  <2>. QED
    BY <2>1, <2>2, FIFODef, RememberFIFO DEF TypeOK
<1>. QED
  BY <1>1, <1>2

(***************************************************************************)
(* The cache is FIFO and bounded in every reachable state, whatever        *)
(* CacheMax is: a hit never refreshes an entry and _remember evicts the    *)
(* oldest entry exactly when the bound is exceeded (permissions.js         *)
(* _remember and has()).  The inductive invariant is TypeOK /\ CacheFIFO.  *)
(***************************************************************************)
THEOREM CacheIsFIFO == Spec => []CacheFIFO
<1>1. Init => CacheFIFO
  <2> SUFFICES ASSUME Init PROVE CacheFIFO
    OBVIOUS
  <2>1. Keys(cache) = <<>> /\ Window(misses) = <<>>
    BY DEF Init, Keys, Window, Win
  <2>. QED
    BY <2>1, FIFODef
<1>2. TypeOK /\ CacheFIFO /\ [Next]_vars => CacheFIFO'
  <2> SUFFICES ASSUME TypeOK, CacheFIFO, [Next]_vars PROVE CacheFIFO'
    OBVIOUS
  <2>1. CASE \E p \in Queries : Has(p)
    BY <2>1, HasFIFO, FIFODefPrimed DEF Has
  <2>2. CASE \E kind \in {"anyOf", "allOf"}, stopOn \in BOOLEAN : Iterate(kind, stopOn)
    <3>1. PICK kind \in {"anyOf", "allOf"}, stopOn \in BOOLEAN : Iterate(kind, stopOn)
      BY <2>2
    <3>2. op.todo \in Seq(Queries) /\ op.todo # <<>>
      BY <3>1 DEF Iterate, TypeOK, Call_
    <3>3. Head(op.todo) \in Queries
      BY <3>2, HeadTailProperties
    <3>. QED
      BY <3>1, <3>3, HasFIFO, FIFODefPrimed DEF Iterate
  <2>3. CASE UNCHANGED <<cache, misses>>
    BY <2>3, FIFODef, FIFODefPrimed
  <2>. QED
    BY <2>1, <2>2, <2>3
       DEF Next, Call, AnyOfStep, AnyOfDone, AllOfStep, AllOfDone, Exhausted, vars
<1>. QED
  BY <1>1, <1>2, TypeCorrect, PTL DEF Spec
=============================================================================
