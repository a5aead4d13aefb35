---------------------------- MODULE PermissionSet ----------------------------
(***************************************************************************)
(* class PermissionSet of auth.js: the allow and deny lists compiled once  *)
(* by the constructor, has() with its FIFO decision cache, and the         *)
(* short-circuit loops anyOf() and allOf(), which call has() once per      *)
(* element and so update the cache element by element.                    *)
(*                                                                         *)
(* A call of anyOf/allOf is synchronous; it is modelled one element per    *)
(* step (op holds the elements still to test) so that the intermediate     *)
(* caches are states of the model too.                                     *)
(***************************************************************************)
EXTENDS PermMatch

CONSTANTS GrantLists, \* the pattern lists the constructor may be given
          Queries,    \* the values has() may be asked about
          QueryLists, \* the lists anyOf()/allOf() may be given
          CacheMax,   \* this._cacheMax (256 in the code)
          Probes      \* permissions the engine is compared on with the reference

ASSUME CacheMaxAssumption == CacheMax \in Nat \ {0}

ASSUME QueryListsAssumption == QueryLists \subseteq Seq(Queries)

VARIABLES grants, \* the constructor's argument perms
          cache,  \* this._cache: a Map, kept in insertion order
          op,     \* the anyOf/allOf call in progress, if any
          last,   \* the value returned by the last completed call
          misses  \* ghost: the keys has() evaluated, in order

vars == <<grants, cache, op, last, misses>>

Idle   == [kind |-> "idle", args |-> <<>>, todo |-> <<>>]
NoCall == [kind |-> "none", args |-> <<>>, result |-> FALSE]

(***************************************************************************)
(* The constructor: entries that are not strings, or empty, are skipped;   *)
(* one that starts with "-" is compiled without its first character into   *)
(* the deny list, any other into the allow list.                           *)
(***************************************************************************)
IsGrant(p) == p # NotString /\ p # << <<>> >>

IsDeny(p) == Len(p[1]) > 0 /\ p[1][1] = Dash

StripDash(p) == <<Tail(p[1])>> \o Tail(p)

AllowRaw(g) == SelectSeq(g, LAMBDA p : IsGrant(p) /\ ~IsDeny(p))

DenyRaw(g) == [i \in DOMAIN SelectSeq(g, LAMBDA p : IsGrant(p) /\ IsDeny(p)) |->
                 StripDash(SelectSeq(g, LAMBDA p : IsGrant(p) /\ IsDeny(p))[i])]

Allow(g) == [i \in DOMAIN AllowRaw(g) |-> ParseSegments(AllowRaw(g)[i])]

Deny(g) == [i \in DOMAIN DenyRaw(g) |-> ParseSegments(DenyRaw(g)[i])]

\* The constructor returns (it does not throw) when every pattern compiles.
Constructs(g) ==
  /\ \A i \in DOMAIN Allow(g) : ~Failed(Allow(g)[i])
  /\ \A i \in DOMAIN Deny(g) : ~Failed(Deny(g)[i])

\* _evaluate(permission): some allow pattern matches and no deny pattern.
Evaluate(g, p) ==
  /\ \E i \in DOMAIN Allow(g) : MatchPermission(Allow(g)[i], p)
  /\ ~\E i \in DOMAIN Deny(g) : MatchPermission(Deny(g)[i], p)

\* has() returns false, without touching the cache, for "" and non-strings.
Blank(p) == p = NotString \/ p = << <<>> >>

IsCached(c, p) == \E i \in DOMAIN c : c[i].key = p

CachedVal(c, p) == c[CHOOSE i \in DOMAIN c : c[i].key = p].val

\* _remember(key, value): insert, then drop the oldest entry when over the bound.
Remember(c, k, v) ==
  LET c1 == Append(c, [key |-> k, val |-> v])
  IN  IF Len(c1) > CacheMax THEN Tail(c1) ELSE c1

\* has(permission), as the value it returns and the cache it leaves.
HasResult(c, p) ==
  IF Blank(p) THEN FALSE
  ELSE IF IsCached(c, p) THEN CachedVal(c, p) ELSE Evaluate(grants, p)

\* Mutant: a hit moves its entry to the end (LRU instead of FIFO).
HasCacheLRU(c, p) ==
  IF Blank(p) THEN c
  ELSE IF IsCached(c, p)
       THEN Append(SelectSeq(c, LAMBDA e : e.key # p), [key |-> p, val |-> CachedVal(c, p)])
       ELSE Remember(c, p, Evaluate(grants, p))

HasCache(c, p) ==
  IF Blank(p) \/ IsCached(c, p) THEN c ELSE Remember(c, p, Evaluate(grants, p))

HasMisses(c, p) ==
  IF Blank(p) \/ IsCached(c, p) THEN misses ELSE Append(misses, p)

-----------------------------------------------------------------------------
Init ==
  /\ grants \in {g \in GrantLists : Constructs(g)}
  /\ cache = <<>>
  /\ op = Idle
  /\ last = NoCall
  /\ misses = <<>>

\* A call of has(p) from outside the loops.
Has(p) ==
  /\ op = Idle
  /\ cache' = HasCache(cache, p)
  /\ misses' = HasMisses(cache, p)
  /\ last' = [kind |-> "has", args |-> <<p>>, result |-> HasResult(cache, p)]
  /\ UNCHANGED <<grants, op>>

\* A call of anyOf(ps) or allOf(ps) begins.
Call(kind, ps) ==
  /\ op = Idle
  /\ op' = [kind |-> kind, args |-> ps, todo |-> ps]
  /\ UNCHANGED <<grants, cache, last, misses>>

\* One iteration of the loop: has() of the next element, then either the
\* loop returns (anyOf on true, allOf on false) or it moves on.
Iterate(kind, stopOn) ==
  /\ op.kind = kind
  /\ op.todo # <<>>
  /\ LET p == Head(op.todo)
         r == HasResult(cache, p)
     IN  /\ cache' = HasCache(cache, p)
         /\ misses' = HasMisses(cache, p)
         /\ IF r = stopOn
            THEN /\ op' = Idle
                 /\ last' = [kind |-> kind, args |-> op.args, result |-> stopOn]
            ELSE /\ op' = [kind |-> kind, args |-> op.args, todo |-> Tail(op.todo)]
                 /\ UNCHANGED last
  /\ UNCHANGED grants

\* Mutant: the loop falls off the end of the function without its final
\* return, and the call returns undefined (NotString: not a Boolean either).
ExhaustedNoReturn(kind, result) ==
  /\ op.kind = kind
  /\ op.todo = <<>>
  /\ op' = Idle
  /\ last' = [kind |-> kind, args |-> op.args, result |-> NotString]
  /\ UNCHANGED <<grants, cache, misses>>

\* The loop ran out of elements: anyOf returns false, allOf true.
Exhausted(kind, result) ==
  /\ op.kind = kind
  /\ op.todo = <<>>
  /\ op' = Idle
  /\ last' = [kind |-> kind, args |-> op.args, result |-> result]
  /\ UNCHANGED <<grants, cache, misses>>

AnyOfStep == Iterate("anyOf", TRUE)
AnyOfDone == Exhausted("anyOf", FALSE)
\* Mutant: allOf's loop copied from anyOf, returning on the first true.
AllOfStepCopied == Iterate("allOf", TRUE)

AllOfStep == Iterate("allOf", FALSE)
AllOfDone == Exhausted("allOf", TRUE)

Next ==
  \/ \E p \in Queries : Has(p)
  \/ \E ps \in QueryLists : Call("anyOf", ps) \/ Call("allOf", ps)
  \/ AnyOfStep \/ AnyOfDone \/ AllOfStep \/ AllOfDone

Spec == Init /\ [][Next]_vars

-----------------------------------------------------------------------------
Entry == [key : Queries, val : BOOLEAN]

Call_ == [kind : {"idle", "anyOf", "allOf"}, args : Seq(Queries), todo : Seq(Queries)]

Done_ == [kind : {"none", "has", "anyOf", "allOf"}, args : Seq(Queries), result : BOOLEAN]

TypeOK ==
  /\ grants \in GrantLists
  /\ cache \in Seq(Entry)
  /\ op \in Call_
  /\ last \in Done_
  /\ misses \in Seq(Queries)

\* What has(p) should answer: false for a blank p, the evaluation otherwise.
Decision(g, p) == ~Blank(p) /\ Evaluate(g, p)

(***************************************************************************)
(* Every call returns what the allow/deny evaluation says, whatever the    *)
(* cache holds: has(p) returns Decision(p), anyOf(ps) whether some element *)
(* is granted and allOf(ps) whether every element is.  It is about the     *)
(* cache hit of has() (line 126) and the short circuits of anyOf/allOf.    *)
(***************************************************************************)
ResultCorrect ==
  /\ last.kind = "has" => last.result = Decision(grants, last.args[1])
  /\ last.kind = "anyOf" =>
        last.result = \E i \in DOMAIN last.args : Decision(grants, last.args[i])
  /\ last.kind = "allOf" =>
        last.result = \A i \in DOMAIN last.args : Decision(grants, last.args[i])

(***************************************************************************)
(* The cache is FIFO and bounded: its keys are, oldest first, the last     *)
(* CacheMax keys that has() had to evaluate (all of them while fewer have  *)
(* been).  A hit does not refresh an entry, and _remember evicts the       *)
(* oldest entry exactly when the bound is exceeded (lines 151-157).        *)
(***************************************************************************)
CacheKeys == [i \in DOMAIN cache |-> cache[i].key]

CacheFIFO ==
  LET k == IF Len(misses) < CacheMax THEN Len(misses) ELSE CacheMax
  IN  CacheKeys = SubSeq(misses, Len(misses) - k + 1, Len(misses))

(***************************************************************************)
(* The strengthening of ResultCorrect that is inductive: every cached      *)
(* value is the evaluation of its key, and an anyOf/allOf in progress has  *)
(* a prefix of its list behind it, every element of which had the answer  *)
(* that does not stop the loop.                                            *)
(***************************************************************************)
CacheSound == \A i \in DOMAIN cache : cache[i].val = Evaluate(grants, cache[i].key)

OpInv ==
  op.kind \in {"anyOf", "allOf"} =>
    \E n \in 0..Len(op.args) :
      /\ op.todo = SubSeq(op.args, n + 1, Len(op.args))
      /\ \A i \in 1..n : Decision(grants, op.args[i]) = (op.kind = "allOf")

IInv == TypeOK /\ CacheSound /\ OpInv /\ ResultCorrect

(***************************************************************************)
(* The reference decision of spec.md section 4.2 over the raw patterns:    *)
(* granted when some allow pattern glob-matches and no deny pattern does.  *)
(***************************************************************************)
Granted(g, p) ==
  /\ ~Blank(p)
  /\ \E i \in DOMAIN AllowRaw(g) : GlobMatch(AllowRaw(g)[i], p)
  /\ ~\E i \in DOMAIN DenyRaw(g) : GlobMatch(DenyRaw(g)[i], p)

(***************************************************************************)
(* The compiled engine decides as the reference does on every probe: the   *)
(* matcher kinds createSegment picks (and the order it tests them in), the *)
(* length guard of the affix matcher, the segment-count and empty-path     *)
(* guards of matchPermission and the "-" stripping of the constructor      *)
(* together implement the glob semantics of the spec.                      *)
(***************************************************************************)
EngineMatchesSpec == \A p \in Probes : Decision(grants, p) = Granted(grants, p)

(***************************************************************************)
(* The engine decides as the reference in every state of a set: it does on *)
(* the patterns the constructor compiled, and no method compiles them      *)
(* again (_allow and _deny are assigned only in the constructor, auth.js   *)
(* lines 106-119, whatever has, anyOf and allOf do to the cache).          *)
(***************************************************************************)
EngineAlwaysMatchesSpec ==
  /\ \A p \in Probes : Decision(grants, p) = Granted(grants, p)
  /\ [][UNCHANGED grants]_vars
=============================================================================
