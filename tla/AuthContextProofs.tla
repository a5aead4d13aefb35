-------------------------- MODULE AuthContextProofs --------------------------
(***************************************************************************)
(* Proofs about AuthContext for every set of tokens, subjects and          *)
(* malformed grant lists and every request budget: the state is well      *)
(* typed, and Auth.loaded is set exactly when Auth.permissions was built   *)
(* from an identity response whose grant list compiled.                    *)
(***************************************************************************)
EXTENDS AuthContext, FiniteSetTheorems, TLAPS

\* The login form's requests among a set of pending requests.
LoginReqs(P) == {r \in P : r.caller = "login"}

\* Every pending request carries an id already handed out.
IdsBelow == \A r \in pending : r.id <= nextId

\* Before boot() nothing was sent.
StartClean == phase = "start" => nextId = 0 /\ pending = {}

\* The requests sent and still owed fit the budget.
WithinBudget == Committed <= MaxRequests

(***************************************************************************)
(* The inductive invariant.  TypeOK alone is not inductive: a login answer *)
(* sends a new getMe with id nextId + 1, which is a Request only because   *)
(* LoginSave reserved room for it, so the budget of the requests still     *)
(* owed (WithinBudget) and the freshness of ids (IdsBelow) come with it.  *)
(***************************************************************************)
AuthInv ==
  /\ TypeOK
  /\ IsFiniteSet(pending)
  /\ IdsBelow
  /\ StartClean
  /\ WithinBudget
  /\ LoadedImpliesBuilt

-----------------------------------------------------------------------------
\* The login requests of a finite set are a finite set.
LEMMA LoginReqsFinite ==
  ASSUME NEW P, IsFiniteSet(P)
  PROVE  /\ IsFiniteSet(LoginReqs(P))
         /\ Cardinality(LoginReqs(P)) \in Nat
<1>1. LoginReqs(P) \subseteq P
  BY DEF LoginReqs
<1>. QED
  BY <1>1, FS_Subset, FS_CardinalityType

\* An answered request leaves the pending set: one login request fewer
\* when it was the form's.
LEMMA LoginReqsRemove ==
  ASSUME NEW P, IsFiniteSet(P), NEW r \in P
  PROVE  /\ IsFiniteSet(P \ {r})
         /\ Cardinality(LoginReqs(P \ {r})) =
              IF r.caller = "login" THEN Cardinality(LoginReqs(P)) - 1
                                    ELSE Cardinality(LoginReqs(P))
<1>1. LoginReqs(P \ {r}) = LoginReqs(P) \ {r}
  BY DEF LoginReqs
<1>2. r \in LoginReqs(P) <=> r.caller = "login"
  BY DEF LoginReqs
<1>3. IsFiniteSet(LoginReqs(P))
  BY LoginReqsFinite
<1>. QED
  BY <1>1, <1>2, <1>3, FS_RemoveElement

\* A fresh request joins the pending set: one login request more when it
\* is the form's.
LEMMA LoginReqsAdd ==
  ASSUME NEW P, IsFiniteSet(P), NEW x, x \notin P
  PROVE  /\ IsFiniteSet(P \cup {x})
         /\ Cardinality(LoginReqs(P \cup {x})) =
              IF x.caller = "login" THEN Cardinality(LoginReqs(P)) + 1
                                    ELSE Cardinality(LoginReqs(P))
<1>1. CASE x.caller = "login"
  <2>1. LoginReqs(P \cup {x}) = LoginReqs(P) \cup {x}
    BY <1>1 DEF LoginReqs
  <2>2. x \notin LoginReqs(P)
    BY DEF LoginReqs
  <2>. QED
    BY <1>1, <2>1, <2>2, LoginReqsFinite, FS_AddElement
<1>2. CASE x.caller # "login"
  <2>1. LoginReqs(P \cup {x}) = LoginReqs(P)
    BY <1>2 DEF LoginReqs
  <2>. QED
    BY <1>2, <2>1, FS_AddElement
<1>. QED
  BY <1>1, <1>2

\* Committed counts the form's pending requests.
LEMMA CommittedDef ==
  Committed = nextId + Cardinality(LoginReqs(pending))
BY DEF Committed, LoginReqs

\* The same after a step.
LEMMA CommittedDefPrimed ==
  Committed' = nextId' + Cardinality(LoginReqs(pending'))
BY DEF Committed, LoginReqs

-----------------------------------------------------------------------------
LEMMA InitAuthInv == Init => AuthInv
<1> SUFFICES ASSUME Init PROVE AuthInv
  OBVIOUS
<1>1. TypeOK
  <2>1. nextId \in 0..MaxRequests
    BY AuthAssumption DEF Init
  <2>2. pending \subseteq Request
    BY DEF Init
  <2>. QED
    BY <2>1, <2>2 DEF Init, TypeOK
<1>2. IsFiniteSet(pending) /\ IdsBelow /\ StartClean
  BY FS_EmptySet DEF Init, IdsBelow, StartClean
<1>3. WithinBudget
  <2>1. LoginReqs(pending) = {}
    BY DEF Init, LoginReqs
  <2>. QED
    BY <2>1, FS_EmptySet, CommittedDef, AuthAssumption DEF Init, WithinBudget
<1>4. LoadedImpliesBuilt
  BY AuthAssumption DEF Init, LoadedImpliesBuilt
<1>. QED
  BY <1>1, <1>2, <1>3, <1>4 DEF AuthInv

\* Reset leaves Auth empty and unloaded, which LoadedImpliesBuilt allows.
LEMMA ResetBuilt ==
  ASSUME Reset PROVE LoadedImpliesBuilt'
BY DEF Reset, LoadedImpliesBuilt

\* Load of a compiled token's answer sets loaded over a set built from it.
LEMMA LoadBuilt ==
  ASSUME NEW tok \in Tokens, tok \notin Malformed, Load(tok)
  PROVE  LoadedImpliesBuilt' /\ subject' \in Subjects /\ permsFrom' \in Tokens
BY AuthAssumption DEF Load, LoadedImpliesBuilt

(***************************************************************************)
(* Removing an answered request keeps every conjunct about pending: the    *)
(* ids stay below nextId and the budget does not grow.                     *)
(***************************************************************************)
LEMMA AnswerKeeps ==
  ASSUME AuthInv, NEW r \in pending,
         pending' = pending \ {r}, nextId' = nextId, phase' # "start"
  PROVE  /\ pending' \subseteq Request /\ nextId' \in 0..MaxRequests
         /\ IsFiniteSet(pending') /\ IdsBelow' /\ StartClean' /\ WithinBudget'
<1>1. IsFiniteSet(pending)
  BY DEF AuthInv
<1>2. IsFiniteSet(pending') /\ Cardinality(LoginReqs(pending')) <= Cardinality(LoginReqs(pending))
  BY <1>1, LoginReqsRemove, LoginReqsFinite
<1>3. Cardinality(LoginReqs(pending')) \in Nat /\ Cardinality(LoginReqs(pending)) \in Nat
  BY <1>1, <1>2, LoginReqsFinite
<1>4. WithinBudget'
  <2>1. nextId \in Nat
    BY DEF AuthInv, TypeOK
  <2>2. Committed' <= Committed
    BY <1>2, <1>3, <2>1, CommittedDef, CommittedDefPrimed
  <2>3. Committed <= MaxRequests
    BY DEF AuthInv, WithinBudget
  <2>4. Committed \in Nat
    BY <1>3, <2>1, CommittedDef
  <2>. QED
    BY <2>2, <2>3, <2>4, <1>3, <2>1, CommittedDefPrimed, AuthAssumption DEF WithinBudget
<1>. QED
  BY <1>2, <1>4 DEF AuthInv, TypeOK, IdsBelow, StartClean

\* What every step may assume of the state it starts from.
LEMMA InvFacts ==
  ASSUME AuthInv
  PROVE  /\ TypeOK /\ IsFiniteSet(pending) /\ IdsBelow /\ StartClean
         /\ WithinBudget /\ LoadedImpliesBuilt
         /\ nextId \in Nat /\ Cardinality(LoginReqs(pending)) \in Nat
         /\ Committed = nextId + Cardinality(LoginReqs(pending))
BY LoginReqsFinite, CommittedDef DEF AuthInv, TypeOK

LEMMA NextAuthInv == AuthInv /\ [Next]_vars => AuthInv'
<1> SUFFICES ASSUME AuthInv, [Next]_vars PROVE AuthInv'
  OBVIOUS
<1>0. /\ TypeOK /\ IsFiniteSet(pending) /\ IdsBelow /\ StartClean
      /\ WithinBudget /\ LoadedImpliesBuilt
      /\ nextId \in Nat /\ Cardinality(LoginReqs(pending)) \in Nat
      /\ Committed = nextId + Cardinality(LoginReqs(pending))
  BY InvFacts
<1>1. CASE Boot
  <2>1. phase = "start" /\ nextId = 0 /\ pending = {}
    BY <1>0, <1>1 DEF Boot, StartClean
  <2>2. CASE token = None
    <3>1. /\ pending' = {} /\ nextId' = 0 /\ phase' = "ready"
          /\ Reset /\ token' = token
      BY <1>1, <2>1, <2>2 DEF Boot, StartHydrate
    <3>2. LoginReqs(pending') = {}
      BY <3>1 DEF LoginReqs
    <3>3. subject' = None /\ permsFrom' = None /\ loaded' = FALSE
      BY <3>1 DEF Reset
    <3>4. WithinBudget'
      BY <3>1, <3>2, FS_EmptySet, CommittedDefPrimed, AuthAssumption DEF WithinBudget
    <3>5. TypeOK'
      <4>1. pending' \subseteq Request /\ nextId' \in 0..MaxRequests
        BY <3>1, AuthAssumption
      <4>2. phase' \in {"start", "booting", "ready"} /\ token' \in Tokens \cup {None}
        BY <1>0, <3>1 DEF TypeOK
      <4>. QED
        BY <3>3, <4>1, <4>2 DEF TypeOK
    <3>6. IsFiniteSet(pending') /\ IdsBelow' /\ StartClean'
      BY <3>1, FS_EmptySet DEF IdsBelow, StartClean
    <3>. QED
      BY <3>4, <3>5, <3>6, ResetBuilt, <3>1 DEF AuthInv
  <2>3. CASE token # None
    <3>1. /\ pending' = {[id |-> 1, caller |-> "boot", tok |-> token]}
          /\ nextId' = 1 /\ phase' = "booting"
          /\ UNCHANGED <<token, subject, permsFrom, loaded>>
      BY <1>1, <2>1, <2>3 DEF Boot, StartHydrate
    <3>2. LoginReqs(pending') = {}
      BY <3>1 DEF LoginReqs
    <3>3. pending' \subseteq Request /\ nextId' \in 0..MaxRequests
      BY <1>0, <2>3, <3>1, AuthAssumption DEF TypeOK, Request, Callers
    <3>4. WithinBudget'
      BY <3>1, <3>2, FS_EmptySet, CommittedDefPrimed, AuthAssumption DEF WithinBudget
    <3>5. IsFiniteSet(pending') /\ IdsBelow' /\ StartClean'
      <4>1. IsFiniteSet(pending')
        BY <3>1, FS_Singleton
      <4>2. IdsBelow'
        BY <3>1 DEF IdsBelow
      <4>3. StartClean'
        BY <3>1 DEF StartClean
      <4>. QED
        BY <4>1, <4>2, <4>3
    <3>6. TypeOK'
      BY <1>0, <3>1, <3>3 DEF TypeOK
    <3>7. LoadedImpliesBuilt'
      BY <1>0, <3>1 DEF LoadedImpliesBuilt
    <3>. QED
      BY <3>4, <3>5, <3>6, <3>7 DEF AuthInv
  <2>. QED
    BY <2>2, <2>3
<1>2. CASE Logout
  <2>1. /\ token' = None /\ Reset
        /\ UNCHANGED <<phase, pending, nextId>>
    BY <1>2 DEF Logout
  <2>2. subject' = None /\ permsFrom' = None /\ loaded' = FALSE
    BY <2>1 DEF Reset
  <2>3. WithinBudget'
    BY <1>0, <2>1, CommittedDef, CommittedDefPrimed DEF WithinBudget
  <2>. QED
    BY <1>0, <2>1, <2>2, <2>3, ResetBuilt DEF AuthInv, TypeOK, IdsBelow, StartClean
<1>3. ASSUME NEW t \in Tokens, LoginSave(t) PROVE AuthInv'
  <2> DEFINE new == [id |-> nextId + 1, caller |-> "login", tok |-> t]
  <2>1. /\ phase = "ready" /\ Committed + 2 <= MaxRequests
        /\ token' = t /\ pending' = pending \cup {new} /\ nextId' = nextId + 1
        /\ UNCHANGED <<phase, subject, permsFrom, loaded>>
    BY <1>3 DEF LoginSave
  <2>2. new \notin pending
    <3>1. \A r \in pending : r.id \in Nat /\ r.id <= nextId
      BY <1>0 DEF TypeOK, Request, IdsBelow
    <3>. QED
      BY <3>1, <1>0
  <2>3. /\ IsFiniteSet(pending')
        /\ Cardinality(LoginReqs(pending')) = Cardinality(LoginReqs(pending)) + 1
    BY <1>0, <2>1, <2>2, LoginReqsAdd
  <2>4. Committed' = Committed + 2
    BY <1>0, <2>1, <2>3, CommittedDefPrimed
  <2>5. new \in Request /\ nextId' \in 0..MaxRequests
    BY <1>0, <2>1, AuthAssumption DEF Request, Callers
  <2>6. pending' \subseteq Request
    BY <1>0, <2>1, <2>5 DEF TypeOK
  <2>7. IdsBelow'
    BY <1>0, <2>1 DEF IdsBelow, TypeOK, Request
  <2>8. WithinBudget'
    BY <2>1, <2>4 DEF WithinBudget
  <2>. QED
    BY <1>0, <2>1, <2>3, <2>5, <2>6, <2>7, <2>8
       DEF AuthInv, TypeOK, StartClean, LoadedImpliesBuilt
<1>4. ASSUME NEW r \in pending,
             \/ HydrateResolves(r) \/ HydrateFails(r)
             \/ LoginResolves(r) \/ LoginThrows(r) \/ LoginFails(r)
      PROVE  AuthInv'
  <2>0. /\ phase # "start" /\ r \in Request
        /\ r.tok \in Tokens /\ r.id \in 1..MaxRequests
    BY <1>0 DEF StartClean, TypeOK, Request
  <2>1. CASE HydrateResolves(r)
    <3>1. /\ r.tok \notin Malformed /\ Load(r.tok)
          /\ pending' = pending \ {r} /\ Booted(r)
          /\ UNCHANGED <<token, nextId>>
      BY <2>1 DEF HydrateResolves
    <3>2. phase' \in {"booting", "ready"}
      BY <1>0, <2>0, <3>1 DEF Booted, TypeOK
    <3>3. /\ pending' \subseteq Request /\ nextId' \in 0..MaxRequests
          /\ IsFiniteSet(pending') /\ IdsBelow' /\ StartClean' /\ WithinBudget'
      BY <3>1, <3>2, AnswerKeeps
    <3>4. LoadedImpliesBuilt' /\ subject' \in Subjects /\ permsFrom' \in Tokens
      BY <2>0, <3>1, LoadBuilt
    <3>. QED
      BY <1>0, <3>1, <3>2, <3>3, <3>4 DEF AuthInv, TypeOK, Load
  <2>2. CASE HydrateFails(r)
    <3>1. /\ token' = None /\ Reset
          /\ pending' = pending \ {r} /\ Booted(r) /\ UNCHANGED nextId
      BY <2>2 DEF HydrateFails
    <3>2. phase' \in {"booting", "ready"}
      BY <1>0, <2>0, <3>1 DEF Booted, TypeOK
    <3>3. /\ pending' \subseteq Request /\ nextId' \in 0..MaxRequests
          /\ IsFiniteSet(pending') /\ IdsBelow' /\ StartClean' /\ WithinBudget'
      BY <3>1, <3>2, AnswerKeeps
    <3>4. subject' = None /\ permsFrom' = None /\ loaded' = FALSE
      BY <3>1 DEF Reset
    <3>. QED
      BY <3>1, <3>2, <3>3, <3>4, ResetBuilt DEF AuthInv, TypeOK
  <2>3. CASE LoginThrows(r) \/ LoginFails(r)
    <3>1. /\ r.caller = "login" /\ token' = None
          /\ pending' = pending \ {r}
          /\ UNCHANGED <<phase, permsFrom, loaded, nextId>>
          /\ subject' \in {subject, SubjectOf[r.tok]}
      BY <2>3 DEF LoginThrows, LoginFails
    <3>2. /\ pending' \subseteq Request /\ nextId' \in 0..MaxRequests
          /\ IsFiniteSet(pending') /\ IdsBelow' /\ StartClean' /\ WithinBudget'
      BY <2>0, <3>1, AnswerKeeps
    <3>3. subject' \in Subjects \cup {None}
      BY <1>0, <2>0, <3>1, AuthAssumption DEF TypeOK
    <3>. QED
      BY <1>0, <3>1, <3>2, <3>3 DEF AuthInv, TypeOK, LoadedImpliesBuilt
  <2>4. CASE LoginResolves(r)
    <3>1. /\ r.caller = "login" /\ r.tok \notin Malformed
          /\ IF token = None THEN Reset ELSE Load(r.tok)
          /\ StartHydrate("hydrate", pending \ {r})
          /\ UNCHANGED <<phase, token>>
      BY <2>4 DEF LoginResolves
    <3>2. CASE token = None
      <4>1. pending' = pending \ {r} /\ nextId' = nextId /\ Reset
        BY <3>1, <3>2 DEF StartHydrate
      <4>2. /\ pending' \subseteq Request /\ nextId' \in 0..MaxRequests
            /\ IsFiniteSet(pending') /\ IdsBelow' /\ StartClean' /\ WithinBudget'
        BY <2>0, <3>1, <4>1, AnswerKeeps
      <4>3. subject' = None /\ permsFrom' = None /\ loaded' = FALSE
        BY <4>1 DEF Reset
      <4>. QED
        BY <1>0, <3>1, <4>1, <4>2, <4>3, ResetBuilt DEF AuthInv, TypeOK
    <3>3. CASE token # None
      <4> DEFINE new == [id |-> nextId + 1, caller |-> "hydrate", tok |-> token]
      <4>1. /\ pending' = (pending \ {r}) \cup {new}
            /\ nextId' = nextId + 1 /\ Load(r.tok)
        BY <3>1, <3>3 DEF StartHydrate
      <4>2. /\ IsFiniteSet(pending \ {r})
            /\ Cardinality(LoginReqs(pending \ {r})) = Cardinality(LoginReqs(pending)) - 1
            /\ Cardinality(LoginReqs(pending \ {r})) \in Nat
        BY <1>0, <3>1, LoginReqsRemove, LoginReqsFinite
      <4>3. new \notin pending \ {r}
        <5>1. \A q \in pending : q.id \in Nat /\ q.id <= nextId
          BY <1>0 DEF TypeOK, Request, IdsBelow
        <5>. QED
          BY <5>1, <1>0
      <4>4. /\ IsFiniteSet(pending')
            /\ Cardinality(LoginReqs(pending')) = Cardinality(LoginReqs(pending \ {r}))
        BY <4>1, <4>2, <4>3, LoginReqsAdd
      <4>5. Committed' = Committed /\ nextId + 1 <= Committed
        BY <1>0, <4>1, <4>2, <4>4, CommittedDefPrimed
      <4>6. new \in Request /\ nextId' \in 0..MaxRequests
        BY <1>0, <3>3, <4>1, <4>5, AuthAssumption DEF Request, Callers, WithinBudget, TypeOK
      <4>7. pending' \subseteq Request /\ IdsBelow' /\ StartClean' /\ WithinBudget'
        BY <1>0, <2>0, <3>1, <4>1, <4>5, <4>6 DEF TypeOK, Request, IdsBelow, StartClean, WithinBudget
      <4>8. LoadedImpliesBuilt' /\ subject' \in Subjects /\ permsFrom' \in Tokens
        BY <2>0, <3>1, <4>1, LoadBuilt
      <4>. QED
        BY <1>0, <3>1, <4>1, <4>4, <4>6, <4>7, <4>8 DEF AuthInv, TypeOK, Load
    <3>. QED
      BY <3>2, <3>3
  <2>. QED
    BY <1>4, <2>1, <2>2, <2>3, <2>4
<1>5. CASE UNCHANGED vars
  <2>1. Committed' = Committed
    BY <1>0, <1>5, CommittedDef, CommittedDefPrimed DEF vars
  <2>. QED
    BY <1>0, <1>5, <2>1 DEF vars, AuthInv, TypeOK, IdsBelow, StartClean, WithinBudget, LoadedImpliesBuilt
<1>. QED
  BY <1>1, <1>2, <1>3, <1>4, <1>5 DEF Next

LEMMA AuthInvariant == Spec => []AuthInv
BY InitAuthInv, NextAuthInv, PTL DEF Spec

(***************************************************************************)
(* Type correctness of the Auth singleton and its getMe requests: every    *)
(* request boot(), hydrateMe() and the token form send carries an id       *)
(* within the budget and a token the user holds.                           *)
(***************************************************************************)
THEOREM AuthTypeCorrect == Spec => []TypeOK
<1>1. AuthInv => TypeOK
  BY DEF AuthInv
<1>. QED
  BY <1>1, AuthInvariant, PTL

(***************************************************************************)
(* Auth.loaded is true exactly when Auth.permissions was built from an     *)
(* identity response whose grant list compiled, in every interleaving of   *)
(* boot, logout, the token form and getMe answers: load() (auth.js lines   *)
(* 167-169) sets loaded only after new PermissionSet() returned, and every *)
(* catch either resets or leaves both alone.                               *)
(***************************************************************************)
THEOREM LoadedOnlyWhenBuilt == Spec => []LoadedImpliesBuilt
<1>1. AuthInv => LoadedImpliesBuilt
  BY DEF AuthInv
<1>. QED
  BY <1>1, AuthInvariant, PTL
=============================================================================
