--------------------------- MODULE MC_PermissionSet ---------------------------
(***************************************************************************)
(* Small instances of PermissionSet for TLC.  Strings are written as       *)
(* sequences of pieces (see PermMatch); S(x, y) is the string "x.y".       *)
(***************************************************************************)
EXTENDS PermissionSet


A == <<"a">>
B == <<"b">>
AA == <<"a", "a">>
AB == <<"a", "b">>
ABA == <<"a", "b", "a">>
St == <<Star>>

\* The pieces of "x.y" and of "x".
S(x, y) == <<x, y>>
S1(x) == <<x>>

\* Patterns: "a.*", "*.b", "-a.b", "-*.a", "a*a" (one segment), "a..*",
\* "-" (a deny rule with no segments), and the refused "a.**" and "*a*".
PatternPool ==
  { S(A, St), S(St, B), S(<<Dash, "a">>, B), S(<<Dash, Star>>, A),
    S1(<<"a", Star, "a">>), <<A, <<>>, St>>, S1(<<Dash>>),
    S(A, <<Star, Star>>), S1(<<Star, "a", Star>>) }

\* Lists of at most two entries, an entry that is not a string included.
MCGrantLists ==
  {<<>>} \cup {<<p>> : p \in PatternPool \cup {NotString}}
         \cup {<<p, q>> : p, q \in PatternPool}

\* Queries: "a.b", "a.a", "a..b" (same pieces as "a.b", another cache key),
\* "a", "aa", "" and a non-string.
MCQueries == { S(A, B), S(A, A), <<A, <<>>, B>>, S1(A), S1(AA), << <<>> >>, NotString }

MCQueryLists == { <<S(A, B), S(A, A)>>, <<S(A, A), S1(A)>>, <<>> }

\* Probes for the first run: the queries.
MCProbes == MCQueries

\* For the engine run: every segment of one to three characters over a, b
\* and "*", as a one-segment allow rule, and as a deny rule under "*".
Words(alphabet, n) == UNION {[1..k -> alphabet] : k \in 1..n}

EngineGrantLists ==
  {<<S1(w)>> : w \in Words({"a", "b", Star}, 3)}
    \cup {<<S1(St), S1(<<Dash>> \o w)>> : w \in Words({"a", "b", Star}, 3)}
    \cup {<<S(A, St)>>, <<S(St, St), S(<<Dash, "a">>, B)>>, <<<<A, <<>>, St>>>>}

\* Every one-segment permission of up to three characters, and a few others.
EngineProbes ==
  {S1(w) : w \in Words({"a", "b"}, 3)}
    \cup {S(A, B), <<A, <<>>, B>>, S(B, A), <<A, B, A>>, << <<>>, <<>> >>, << <<>> >>}

EngineQueries == {S1(A), S(A, B)}

EngineQueryLists == {<<S1(A)>>}

\* Bound on the ghost history of evaluated keys.
MaxMisses == 4

MissesBound == Len(misses) <= MaxMisses

AllGrantLists == MCGrantLists \cup EngineGrantLists
AllProbes == MCProbes \cup EngineProbes
=============================================================================
