---------------------------- MODULE KeygenProofs ----------------------------
(***************************************************************************)
(* Proofs about Keygen for every set of key ids and date inputs: the type  *)
(* invariant, the submit lock, the authorization of every request sent,    *)
(* the mode its notification names, and the mode hint.                     *)
(***************************************************************************)
EXTENDS Keygen, TLAPS

\* buildNotAfterFromDate returns null or a positive number of seconds.
LEMMA BuildNotAfterPositive ==
  ASSUME NEW d \in Dates
  PROVE  /\ BuildNotAfter(d) \in NotAfter
         /\ BuildNotAfter(d) = None \/ BuildNotAfter(d).notAfter > 0
<1>1. CASE d \in {Empty, NaN} \/ d = 0 \/ d \div 1000 <= 0
  BY <1>1 DEF BuildNotAfter, NotAfter
<1>2. CASE ~(d \in {Empty, NaN} \/ d = 0 \/ d \div 1000 <= 0)
  <2>1. d \in Int
    BY <1>2, KeygenAssumption
  <2>2. d \div 1000 \in Int /\ d \div 1000 > 0
    BY <1>2, <2>1
  <2>. QED
    BY <1>2, <2>2 DEF BuildNotAfter, NotAfter
<1>. QED
  BY <1>1, <1>2

\* The body the submit handler builds from a well-typed form.
LEMMA BodyWellFormed ==
  ASSUME TypeOK
  PROVE  /\ Body \in Bodies
         /\ Body.keyId = keyId /\ Body.mode = mode
         /\ Body.policy # None =>
              \A t \in {Body.policy.apply, Body.policy.process} : t = None \/ t.notAfter > 0
<1> DEFINE a == BuildNotAfter(applyVal)
           p == BuildNotAfter(procVal)
<1>1. /\ a \in NotAfter /\ (a = None \/ a.notAfter > 0)
      /\ p \in NotAfter /\ (p = None \/ p.notAfter > 0)
  BY BuildNotAfterPositive DEF TypeOK
<1>2. CASE polEnabled
  <2>1. Body.policy = [allowHistoricalProcess |-> allowHist, apply |-> a, process |-> p]
    BY <1>2 DEF Body
  <2>2. Body.policy \in Policy
    BY <1>1, <2>1 DEF Policy, TypeOK
  <2>. QED
    BY <1>1, <2>1, <2>2 DEF Body, Bodies, TypeOK
<1>3. CASE ~polEnabled
  BY <1>3 DEF Body, Bodies, TypeOK
<1>. QED
  BY <1>2, <1>3

\* The two halves of TypeOK: the form's controls, and the request state.
FormOK ==
  /\ keyId \in KeyIds /\ mode \in Modes
  /\ polEnabled \in BOOLEAN /\ allowHist \in BOOLEAN
  /\ applyVal \in Dates /\ procVal \in Dates /\ hint \in BOOLEAN

ReqOK ==
  /\ held \subseteq {PERMS.create, PERMS.rotate, PERMS.refresh}
  /\ submitDisabled \in BOOLEAN /\ inflight \in Nat
  /\ body \in Bodies \cup {None}
  /\ note \in [kind : {"success", "danger"}, mode : Modes] \cup {None}
  /\ alert \in {None, "perm", "keyId"}

LEMMA TypeOKSplit == TypeOK <=> FormOK /\ ReqOK
BY DEF TypeOK, FormOK, ReqOK, Modes

\* IInv holds initially and is preserved by every step.
LEMMA IInvInductive == Spec => []IInv
<1>1. Init => IInv
  <2> SUFFICES ASSUME Init PROVE IInv
    OBVIOUS
  <2>1. FormOK
    BY KeygenAssumption, KeyIdsAssumption DEF Init, FormOK, Modes
  <2>2. ReqOK
    BY DEF Init, ReqOK, Modes
  <2>3. OneInFlight /\ SentAuthorized /\ NoteNamesSentMode
    BY DEF Init, OneInFlight, SentAuthorized, NoteNamesSentMode
  <2>4. HintMatchesMode
    BY DEF Init, HintMatchesMode, Allowed
  <2>5. inflight > 0 => submitDisabled /\ body \in Bodies
    BY DEF Init
  <2>. QED
    BY <2>1, <2>2, <2>3, <2>4, <2>5, TypeOKSplit DEF IInv
<1>2. IInv /\ [Next]_vars => IInv'
  <2> SUFFICES ASSUME IInv, [Next]_vars PROVE IInv'
    OBVIOUS
  <2>0. FormOK /\ ReqOK
    BY TypeOKSplit DEF IInv
  <2>a. FormOK' /\ ReqOK' => TypeOK'
    BY DEF TypeOK, FormOK, ReqOK, Modes
  <2>1. CASE Edit
    <3>1. FormOK'
      BY <2>0, <2>1 DEF Edit, UpdateHint, FormOK, Modes
    <3>2. ReqOK'
      BY <2>0, <2>1 DEF Edit, ReqOK, Modes
    <3>3. (OneInFlight /\ SentAuthorized /\ NoteNamesSentMode)'
      BY <2>1 DEF Edit, IInv, OneInFlight, SentAuthorized, NoteNamesSentMode, IsModeAllowed
    <3>4. HintMatchesMode'
      BY <2>1 DEF Edit, UpdateHint, IInv, HintMatchesMode, Allowed, IsModeAllowed
    <3>. QED
      BY <2>1, <2>a, <3>1, <3>2, <3>3, <3>4 DEF Edit, IInv
  <2>2. CASE Reset
    <3>1. FormOK'
      BY <2>2, KeygenAssumption, KeyIdsAssumption DEF Reset, UpdateHint, FormOK, Modes
    <3>2. ReqOK'
      BY <2>0, <2>2 DEF Reset, ReqOK, Modes
    <3>3. (OneInFlight /\ SentAuthorized /\ NoteNamesSentMode /\ HintMatchesMode)'
      BY <2>2 DEF Reset, UpdateHint, IInv, OneInFlight, SentAuthorized,
                  NoteNamesSentMode, HintMatchesMode, Allowed, IsModeAllowed
    <3>. QED
      BY <2>2, <2>a, <3>1, <3>2, <3>3 DEF Reset, IInv
  <2>3. CASE Submit
    <3>0. TypeOK /\ ~submitDisabled /\ inflight = 0
      BY <2>0, <2>3, TypeOKSplit DEF Submit, IInv, ReqOK
    <3>1. CASE IsModeAllowed(mode) /\ keyId # NoKeyId
      <4>1. /\ body' = Body /\ inflight' = 1 /\ submitDisabled'
            /\ UNCHANGED <<held, keyId, mode, polEnabled, allowHist, applyVal, procVal,
                           hint, note, alert>>
        BY <2>3, <3>0, <3>1 DEF Submit
      <4>2. /\ Body \in Bodies /\ Body.keyId = keyId /\ Body.mode = mode
            /\ Body.policy # None =>
                 \A t \in {Body.policy.apply, Body.policy.process} : t = None \/ t.notAfter > 0
        BY <3>0, BodyWellFormed
      <4>3. FormOK' /\ ReqOK'
        BY <2>0, <4>1, <4>2 DEF FormOK, ReqOK
      <4>4. (OneInFlight /\ SentAuthorized /\ NoteNamesSentMode /\ HintMatchesMode)'
        BY <3>1, <4>1, <4>2 DEF IInv, OneInFlight, SentAuthorized, NoteNamesSentMode,
                                HintMatchesMode, Allowed, IsModeAllowed
      <4>. QED
        BY <2>a, <4>1, <4>2, <4>3, <4>4 DEF IInv
    <3>2. CASE ~(IsModeAllowed(mode) /\ keyId # NoKeyId)
      <4>1. /\ UNCHANGED <<held, keyId, mode, polEnabled, allowHist, applyVal, procVal,
                           hint, note, submitDisabled, inflight, body>>
            /\ alert' \in {None, "perm", "keyId"}
        BY <2>3, <3>2 DEF Submit
      <4>2. FormOK' /\ ReqOK'
        BY <2>0, <4>1 DEF FormOK, ReqOK
      <4>3. (OneInFlight /\ SentAuthorized /\ NoteNamesSentMode /\ HintMatchesMode)'
        BY <4>1 DEF IInv, OneInFlight, SentAuthorized, NoteNamesSentMode,
                    HintMatchesMode, Allowed, IsModeAllowed
      <4>. QED
        BY <2>a, <4>1, <4>2, <4>3 DEF IInv
    <3>. QED
      BY <3>1, <3>2
  <2>4. CASE Answer \/ Fail
    <3>1. inflight = 1 /\ body \in Bodies
      BY <2>0, <2>4 DEF Answer, Fail, IInv, OneInFlight, ReqOK
    <3>2. /\ note' \in [kind : {"success", "danger"}, mode : Modes] /\ note'.mode = body.mode
          /\ inflight' = 0 /\ submitDisabled' = FALSE /\ alert' \in {None, "perm", "keyId"}
          /\ UNCHANGED <<held, keyId, mode, polEnabled, allowHist, applyVal, procVal, hint, body>>
      BY <2>0, <2>4, <3>1 DEF Answer, Fail, ReqOK, Bodies, Modes
    <3>3. FormOK' /\ ReqOK'
      BY <2>0, <3>2 DEF FormOK, ReqOK
    <3>4. (OneInFlight /\ SentAuthorized /\ NoteNamesSentMode /\ HintMatchesMode)'
      BY <3>2 DEF IInv, OneInFlight, SentAuthorized, NoteNamesSentMode,
                  HintMatchesMode, Allowed, IsModeAllowed
    <3>. QED
      BY <2>a, <3>2, <3>3, <3>4 DEF IInv
  <2>6. CASE UNCHANGED vars
    BY <2>6 DEF vars, IInv, TypeOK, OneInFlight, SentAuthorized,
                NoteNamesSentMode, HintMatchesMode, Allowed, IsModeAllowed
  <2>. QED
    BY <2>1, <2>2, <2>3, <2>4, <2>6 DEF Next
<1>. QED
  BY <1>1, <1>2, PTL DEF Spec

\* Every reachable state of the form is well typed.
THEOREM TypeCorrect == Spec => []TypeOK
BY IInvInductive, PTL DEF IInv

(***************************************************************************)
(* The submit handler's disabled button admits at most one dkgGenerate in  *)
(* flight, though the rest of the form stays live.                         *)
(***************************************************************************)
THEOREM SubmitExclusive == Spec => []OneInFlight
BY IInvInductive, PTL DEF IInv

(***************************************************************************)
(* Every dkgGenerate is for a permitted mode and a non-empty key id, with  *)
(* positive notAfter times only.                                           *)
(***************************************************************************)
THEOREM RequestsAuthorized == Spec => []SentAuthorized
BY IInvInductive, PTL DEF IInv

\* The notification of an answered request names the submitted mode.
THEOREM NoteMode == Spec => []NoteNamesSentMode
BY IInvInductive, PTL DEF IInv

\* The mode hint follows the select through changes and reset.
THEOREM HintCorrect == Spec => []HintMatchesMode
BY IInvInductive, PTL DEF IInv
\* The modes the user may request never change: held is fixed.
LEMMA AllowedFixed ==
  ASSUME [Next]_vars
  PROVE  {m \in Modes : IsModeAllowed(m)}' = {m \in Modes : IsModeAllowed(m)}
BY DEF Next, vars, Edit, Reset, Submit, Answer, Fail, IsModeAllowed

(***************************************************************************)
(* The DKG form implements DkgRequest under the mapping of Keygen: a click *)
(* that sends is Send (the disabled button gives ~busy, BodyWellFormed a   *)
(* well-formed body), an answer or a failure is Reply naming body.mode,    *)
(* reset is Dismiss, and editing and refused clicks are stutters.          *)
(***************************************************************************)
THEOREM KeygenRefinesDkg == Spec => RefinesDkgRequest
<1> DEFINE allowed == {m \in Modes : IsModeAllowed(m)}
<1>1. Init => Dkg!Init
  BY DEF Init, Dkg!Init
<1>2. IInv /\ [Next]_vars => [Dkg!Next]_Dkg!vars
  <2> SUFFICES ASSUME IInv, [Next]_vars PROVE [Dkg!Next]_Dkg!vars
    OBVIOUS
  <2>0. allowed' = allowed
    BY AllowedFixed
  <2>1. CASE Edit \/ UNCHANGED vars
    BY <2>0, <2>1 DEF Edit, vars, Dkg!vars
  <2>2. CASE Reset
    <3>1. note' = None /\ UNCHANGED <<inflight, body>>
      BY <2>2 DEF Reset
    <3>. QED
      BY <2>0, <3>1 DEF Dkg!Next, Dkg!Dismiss, Dkg!vars
  <2>3. CASE Submit
    <3>0. TypeOK /\ inflight = 0
      <4>1. TypeOK /\ inflight \in Nat /\ ~submitDisabled
        BY <2>3, TypeOKSplit DEF Submit, IInv, ReqOK
      <4>. QED
        BY <4>1 DEF IInv
    <3>1. CASE IsModeAllowed(mode) /\ keyId # NoKeyId
      <4>1. body' = Body /\ inflight' = 1 /\ UNCHANGED note
        BY <2>3, <3>0, <3>1 DEF Submit
      <4>2. Body \in WellFormedBodies /\ Body.mode \in allowed
        BY <3>0, <3>1, BodyWellFormed DEF WellFormedBodies, TypeOK
      <4>. QED
        BY <2>0, <3>0, <4>1, <4>2 DEF Dkg!Next, Dkg!Send
    <3>2. CASE ~(IsModeAllowed(mode) /\ keyId # NoKeyId)
      BY <2>0, <2>3, <3>2 DEF Submit, Dkg!vars
    <3>. QED
      BY <3>1, <3>2
  <2>4. CASE Answer \/ Fail
    <3>1. inflight = 1
      BY <2>4 DEF Answer, Fail, IInv, OneInFlight, TypeOK
    <3>2. /\ inflight' = 0 /\ UNCHANGED body
          /\ \E k \in Dkg!Outcomes : note' = [kind |-> k, mode |-> body.mode]
      BY <2>4, <3>1 DEF Answer, Fail, Dkg!Outcomes
    <3>. QED
      BY <2>0, <3>1, <3>2 DEF Dkg!Next, Dkg!Reply
  <2>. QED
    BY <2>1, <2>2, <2>3, <2>4 DEF Next
<1>. QED
  BY <1>1, <1>2, IInvInductive, PTL DEF Spec, RefinesDkgRequest, Dkg!Spec
=============================================================================
