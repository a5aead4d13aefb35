----------------------------- MODULE AuthContext -----------------------------
(***************************************************************************)
(* The Auth singleton of auth.js and the handlers that drive it: boot()    *)
(* and hydrateMe() of ui.js, the logout handler wired by wireLogout(), the *)
(* auth-changed listener, and the token form of login.js.                  *)
(*                                                                         *)
(* Auth.load() awaits api.getMe(), the only suspension point; each pending *)
(* getMe is a request that carries the token read when it was sent, and    *)
(* the network answers pending requests in any order.  A PermissionSet is  *)
(* identified by the token whose grant list it was built from (None: the   *)
(* empty set of reset()); its matching is the subject of PermissionSet.    *)
(***************************************************************************)
EXTENDS Naturals, FiniteSets

CONSTANTS Tokens,      \* the tokens a user may hold
          Subjects,    \* the subjects the identity source returns
          SubjectOf,   \* the subject getMe returns for a token
          Malformed,   \* tokens whose permission list fails to compile
          None,        \* no token, no subject, the empty PermissionSet
          MaxRequests  \* bound on the getMe requests of a behaviour

ASSUME AuthAssumption ==
  /\ None \notin Tokens \cup Subjects
  /\ SubjectOf \in [Tokens -> Subjects]
  /\ Malformed \subseteq Tokens
  /\ MaxRequests \in Nat \ {0}

Callers == {"boot", "hydrate", "login"}

VARIABLES phase,     \* "start", "booting" (awaiting boot's hydrateMe), "ready"
          token,     \* the token the api module stores
          subject,   \* Auth.subject
          permsFrom, \* whose grants Auth.permissions was built from
          loaded,    \* Auth.loaded
          pending,   \* the getMe requests in flight
          nextId     \* requests sent so far

vars == <<phase, token, subject, permsFrom, loaded, pending, nextId>>

Request == [id : 1..MaxRequests, caller : Callers, tok : Tokens]

\* Auth.reset().
Reset == subject' = None /\ permsFrom' = None /\ loaded' = FALSE

\* The rest of Auth.load() once getMe has answered for tok.
Load(tok) == subject' = SubjectOf[tok] /\ permsFrom' = tok /\ loaded' = TRUE

\* hydrateMe() up to its await: with a token, Auth.load() sends getMe with
\* it; without one hydrateMe resets (the caller writes that reset).
StartHydrate(caller, others) ==
  IF token = None
  THEN pending' = others /\ UNCHANGED nextId
  ELSE /\ pending' = others \cup {[id |-> nextId + 1, caller |-> caller, tok |-> token]}
       /\ nextId' = nextId + 1

Init ==
  /\ phase = "start"
  /\ token \in Tokens \cup {None}
  /\ subject = None /\ permsFrom = None /\ loaded = FALSE
  /\ pending = {} /\ nextId = 0

\* Mutant: hydrateMe without its "if (!token)" early return.
BootNoTokenCheck ==
  /\ phase = "start"
  /\ pending' = {[id |-> nextId + 1, caller |-> "boot", tok |-> token]}
  /\ nextId' = nextId + 1
  /\ phase' = "booting"
  /\ UNCHANGED <<token, subject, permsFrom, loaded>>

\* boot() up to the await of hydrateMe(); with no token hydrateMe returns at
\* once and boot goes on to render the pages.
Boot ==
  /\ phase = "start"
  /\ IF token = None THEN Reset ELSE UNCHANGED <<subject, permsFrom, loaded>>
  /\ StartHydrate("boot", pending)
  /\ phase' = IF token = None THEN "ready" ELSE "booting"
  /\ UNCHANGED token

\* The logout click, wired by boot() before anything else: clear the token
\* and reset Auth.
Logout ==
  /\ token' = None
  /\ Reset
  /\ UNCHANGED <<phase, pending, nextId>>

\* Requests sent, and the hydrateMe each pending login may still send.
Committed == nextId + Cardinality({r \in pending : r.caller = "login"})

\* The Save button of the token form: setToken(t), then Auth.load().  The
\* form is rendered by navigate(), after boot has awaited hydrateMe().
LoginSave(t) ==
  /\ phase = "ready"
  /\ Committed + 2 <= MaxRequests
  /\ token' = t
  /\ pending' = pending \cup {[id |-> nextId + 1, caller |-> "login", tok |-> t]}
  /\ nextId' = nextId + 1
  /\ UNCHANGED <<phase, subject, permsFrom, loaded>>

Booted(r) == phase' = IF r.caller = "boot" THEN "ready" ELSE phase

IsHydrate(r) == r.caller \in {"boot", "hydrate"}

\* getMe answers a hydrateMe's request and the list compiles: load() sets
\* the subject and the PermissionSet; hydrateMe renders the subject.
HydrateResolves(r) ==
  /\ IsHydrate(r) /\ r.tok \notin Malformed
  /\ Load(r.tok)
  /\ pending' = pending \ {r}
  /\ Booted(r)
  /\ UNCHANGED <<token, nextId>>

(***************************************************************************)
(* getMe rejects a hydrateMe's request, or it answers and new              *)
(* PermissionSet() throws: the catch clears the token and resets.          *)
(***************************************************************************)
HydrateFails(r) ==
  /\ IsHydrate(r)
  /\ token' = None
  /\ Reset
  /\ pending' = pending \ {r}
  /\ Booted(r)
  /\ UNCHANGED nextId

(***************************************************************************)
(* getMe answers the login form's request and the list compiles: load()    *)
(* sets the subject and the PermissionSet, the form dispatches             *)
(* auth-changed, and the listener's hydrateMe runs at once: it resets when *)
(* the token is gone meanwhile, and sends a new getMe otherwise.           *)
(***************************************************************************)
LoginResolves(r) ==
  /\ r.caller = "login" /\ r.tok \notin Malformed
  /\ IF token = None THEN Reset ELSE Load(r.tok)
  /\ StartHydrate("hydrate", pending \ {r})
  /\ UNCHANGED <<phase, token>>

\* Mutant: load() sets loaded before new PermissionSet() throws.
LoginThrowsEarlyLoaded(r) ==
  /\ r.caller = "login" /\ r.tok \in Malformed
  /\ token' = None
  /\ subject' = SubjectOf[r.tok] /\ loaded' = TRUE
  /\ pending' = pending \ {r}
  /\ UNCHANGED <<phase, permsFrom, nextId>>

(***************************************************************************)
(* getMe answers the login form's request, but new PermissionSet() throws  *)
(* after Auth.subject was assigned (auth.js line 167); the form's catch    *)
(* clears the token and does not reset.                                    *)
(***************************************************************************)
LoginThrows(r) ==
  /\ r.caller = "login" /\ r.tok \in Malformed
  /\ token' = None
  /\ subject' = SubjectOf[r.tok]
  /\ pending' = pending \ {r}
  /\ UNCHANGED <<phase, permsFrom, loaded, nextId>>

\* getMe rejects the login form's request: load() changed nothing, the
\* catch clears the token.
LoginFails(r) ==
  /\ r.caller = "login"
  /\ token' = None
  /\ pending' = pending \ {r}
  /\ UNCHANGED <<phase, subject, permsFrom, loaded, nextId>>

Next ==
  \/ Boot \/ Logout
  \/ \E t \in Tokens : LoginSave(t)
  \/ \E r \in pending : \/ HydrateResolves(r) \/ HydrateFails(r)
                        \/ LoginResolves(r) \/ LoginThrows(r) \/ LoginFails(r)

Spec == Init /\ [][Next]_vars

-----------------------------------------------------------------------------
TypeOK ==
  /\ phase \in {"start", "booting", "ready"}
  /\ token \in Tokens \cup {None}
  /\ subject \in Subjects \cup {None}
  /\ permsFrom \in Tokens \cup {None}
  /\ loaded \in BOOLEAN
  /\ pending \subseteq Request
  /\ nextId \in 0..MaxRequests

(***************************************************************************)
(* Auth.loaded is true exactly when Auth.permissions is a set built from   *)
(* an identity response, and that set compiled: a load() that throws in    *)
(* new PermissionSet() never leaves loaded set over the empty or previous  *)
(* set (the order of auth.js lines 167-169).                               *)
(***************************************************************************)
LoadedImpliesBuilt == loaded <=> (permsFrom # None /\ permsFrom \notin Malformed)

(***************************************************************************)
(* The subject the UI shows is the subject of the permissions it gates on: *)
(* spec.md 4.3 and 7 say a failed load() leaves the prior state untouched  *)
(* and a compile error leaves no partially built state.                    *)
(***************************************************************************)
SubjectMatchesPermissions ==
  subject # None => /\ loaded
                   /\ permsFrom # None
                   /\ SubjectOf[permsFrom] = subject

(***************************************************************************)
(* The permissions the UI gates on belong to the token the API calls       *)
(* carry: spec.md 3 says the set is discarded on logout and replaced on    *)
(* re-authentication.  It is about an answer to an earlier getMe arriving  *)
(* after logout or after a newer login.                                    *)
(***************************************************************************)
AuthMatchesToken == loaded => permsFrom = token

(***************************************************************************)
(* An answer to a request made with a token other than the stored one      *)
(* leaves the stored token alone: the catch of hydrateMe (ui.js line 83)  *)
(* and of the token form call api.clearToken() whatever token their        *)
(* request carried, so an older request failing after a newer login logs  *)
(* that login out.                                                          *)
(***************************************************************************)
StaleAnswerKeepsToken ==
  [][\A r \in pending : (r \notin pending' /\ r.tok # token) => token' = token]_vars
=============================================================================
