------------------------------ MODULE PermMatch ------------------------------
(***************************************************************************)
(* The pattern compiler and the segment matcher of auth.js: the pure part  *)
(* of the permission engine.                                               *)
(*                                                                         *)
(* A string is a sequence of characters.  A dotted string is kept as the   *)
(* sequence of the pieces between its dots, so "a..b" is                   *)
(* << <<"a">>, <<>>, <<"b">> >> and "" is << <<>> >>: joining the pieces   *)
(* with "." gives the JavaScript string back, and String.split(".") gives  *)
(* the pieces.  Characters of a piece are drawn from Chars, Star ("*") and *)
(* Dash ("-").                                                             *)
(***************************************************************************)
EXTENDS Naturals, Sequences, SequencesExt, FiniteSets

CONSTANTS Chars,     \* the ordinary characters of segments
          NotString  \* a grant or a query that is not a JavaScript string

Star == "*"
Dash == "-"

ASSUME CharsAssumption == Star \notin Chars /\ Dash \notin Chars

\* A segment as written: any sequence of characters.
Segment == Seq(Chars \cup {Star, Dash})

\* What createSegment throws.
CompileError == {"DeepWildcard", "TooManyWildcards"}

\* The compiled form of one pattern segment (createSegment's closures), or
\* the error createSegment throws for it, as a matcher of that kind.
Matcher == [kind : {"any", "exact", "prefix", "suffix", "affix"} \cup CompileError,
            pre : Segment, suf : Segment]

Err(e) == [kind |-> e, pre |-> <<>>, suf |-> <<>>]

StarCount(raw) == Cardinality({i \in DOMAIN raw : raw[i] = Star})

(***************************************************************************)
(* createSegment(raw): "**" is refused first, then "*" is Any, then the    *)
(* number of stars decides between Exact, an error, and the three one-star *)
(* forms, tested in the order of the code: trailing, leading, inner.       *)
(***************************************************************************)
CreateSegment(raw) ==
  LET idx == CHOOSE i \in DOMAIN raw : raw[i] = Star
  IN  CASE raw = <<Star, Star>> -> Err("DeepWildcard")
        [] raw = <<Star>>       -> [kind |-> "any", pre |-> <<>>, suf |-> <<>>]
        [] StarCount(raw) = 0   -> [kind |-> "exact", pre |-> raw, suf |-> <<>>]
        [] StarCount(raw) > 1   -> Err("TooManyWildcards")
        [] raw[Len(raw)] = Star ->
              [kind |-> "prefix", pre |-> SubSeq(raw, 1, Len(raw) - 1), suf |-> <<>>]
        [] raw[1] = Star        ->
              [kind |-> "suffix", pre |-> <<>>, suf |-> Tail(raw)]
        [] OTHER ->
              [kind |-> "affix", pre |-> SubSeq(raw, 1, idx - 1),
                                 suf |-> SubSeq(raw, idx + 1, Len(raw))]

\* Mutant: the affix closure without its length guard.
SegMatchesNoLen(m, v) ==
  CASE m.kind = "any"    -> TRUE
    [] m.kind = "exact"  -> v = m.pre
    [] m.kind = "prefix" -> IsPrefix(m.pre, v)
    [] m.kind = "suffix" -> IsSuffix(m.suf, v)
    [] m.kind = "affix"  -> IsPrefix(m.pre, v) /\ IsSuffix(m.suf, v)

\* The closure createSegment returns, applied to one permission segment v.
SegMatches(m, v) ==
  CASE m.kind = "any"    -> TRUE
    [] m.kind = "exact"  -> v = m.pre
    [] m.kind = "prefix" -> IsPrefix(m.pre, v)
    [] m.kind = "suffix" -> IsSuffix(m.suf, v)
    [] m.kind = "affix"  -> /\ IsPrefix(m.pre, v)
                            /\ IsSuffix(m.suf, v)
                            /\ Len(v) >= Len(m.pre) + Len(m.suf)

\* String(x).split(".").filter(Boolean): the non-empty pieces.
SplitRaw(s) == SelectSeq(s, LAMBDA piece : piece # <<>>)

\* parseSegments(pattern): the pieces compiled in order.
ParseSegments(s) ==
  LET segs == SplitRaw(s)
  IN  [i \in DOMAIN segs |-> CreateSegment(segs[i])]

\* parseSegments throws when some piece fails to compile.
Failed(pat) == \E i \in DOMAIN pat : pat[i].kind \in CompileError

\* matchPermission(patternSegments, permission).
MatchPermission(pat, perm) ==
  LET path == SplitRaw(perm)
  IN  /\ Len(path) # 0
      /\ Len(pat) = Len(path)
      /\ \A i \in 1..Len(pat) : SegMatches(pat[i], path[i])

-----------------------------------------------------------------------------
(***************************************************************************)
(* The reference semantics of spec.md section 3, written without the       *)
(* compiled matchers: a pattern segment without a star matches itself; one *)
(* with a single star matches every value that splits into what precedes   *)
(* the star, any middle, and what follows it.  A pattern matches a         *)
(* permission when both have the same non-zero number of segments and the *)
(* segments match position by position.                                    *)
(***************************************************************************)
GlobSeg(seg, v) ==
  IF StarCount(seg) = 0
  THEN v = seg
  ELSE LET k == CHOOSE i \in DOMAIN seg : seg[i] = Star
           before == SubSeq(seg, 1, k - 1)
           after  == SubSeq(seg, k + 1, Len(seg))
       IN  \E i, j \in 0..Len(v) :
             /\ i <= j
             /\ SubSeq(v, 1, i) = before
             /\ SubSeq(v, j + 1, Len(v)) = after

GlobMatch(pattern, perm) ==
  LET ps == SplitRaw(pattern)
      vs == SplitRaw(perm)
  IN  /\ Len(vs) > 0
      /\ Len(ps) = Len(vs)
      /\ \A i \in 1..Len(vs) : GlobSeg(ps[i], vs[i])
=============================================================================
