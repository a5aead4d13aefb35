------------------------------- MODULE Keygen -------------------------------
(***************************************************************************)
(* The DKG form of keygen.js: the page gate (anyOf the three DKG           *)
(* permissions), the mode hint, the reset button, the clearable date       *)
(* inputs, and the submit handler, which validates, builds the request     *)
(* body (buildNotAfterFromDate for the policy times), disables the button  *)
(* and awaits api.dkgGenerate.  The rest of the form stays editable while  *)
(* the request is in flight.                                               *)
(*                                                                         *)
(* Auth.permissions is fixed while the page is shown (a logout navigates   *)
(* away); held is the subset of the three DKG permissions it grants.       *)
(***************************************************************************)
EXTENDS Integers

CONSTANTS KeyIds,  \* keyIdEl.value after trim ("" among them)
          Dates,   \* what a date input holds: Empty, NaN, or a time in ms
          Empty,   \* an empty date input
          NaN,     \* a date input new Date() cannot parse
          None     \* null

PERMS == [create |-> "tkeeper.dkg.create", rotate |-> "tkeeper.dkg.rotate",
          refresh |-> "tkeeper.dkg.refresh"]
Modes == {"CREATE", "ROTATE", "REFRESH"}

\* A key id that is empty after trim ("if (!keyId)").
NoKeyId == ""

ASSUME KeyIdsAssumption == NoKeyId \in KeyIds

ASSUME KeygenAssumption ==
  /\ {Empty, NaN} \subseteq Dates
  /\ \A d \in Dates \ {Empty, NaN} : d \in Int
  /\ None \notin Dates

VARIABLES held,       \* the DKG permissions Auth.permissions grants
          keyId, mode, polEnabled, allowHist, applyVal, procVal, \* the form
          hint,       \* modeHint shows "You don't have permission"
          submitDisabled,
          inflight,   \* dkgGenerate calls awaiting their answer
          body,       \* the body of the last request sent
          note,       \* the last notification: None or [kind, mode]
          alert       \* the page alert of showAlert: None, "perm" or "keyId"

vars == <<held, keyId, mode, polEnabled, allowHist, applyVal, procVal,
          hint, submitDisabled, inflight, body, note, alert>>

\* isModeAllowed(mode, Auth).
IsModeAllowed(m) ==
  CASE m = "CREATE"  -> PERMS.create \in held
    [] m = "ROTATE"  -> PERMS.rotate \in held
    [] m = "REFRESH" -> PERMS.refresh \in held
    [] OTHER         -> FALSE

\* The page gate: Auth.permissions.anyOf of the three DKG permissions.
Allowed == held # {}

\* Mutant: the "seconds <= 0" check is dropped.
BuildNotAfterNoSecondsCheck(d) ==
  IF d \in {Empty, NaN} \/ d = 0
  THEN None
  ELSE [unit |-> "SECONDS", notAfter |-> d \div 1000]

\* buildNotAfterFromDate(v): null for an empty or unparsable date, a zero
\* time, or a time that floors to no positive second.
BuildNotAfter(d) ==
  IF d \in {Empty, NaN} \/ d = 0 \/ d \div 1000 <= 0
  THEN None
  ELSE [unit |-> "SECONDS", notAfter |-> d \div 1000]

\* updateModeHint() after the select's value is m.
UpdateHint(m) == hint' = ~IsModeAllowed(m)

Init ==
  /\ held \in SUBSET {PERMS.create, PERMS.rotate, PERMS.refresh}
  /\ keyId = NoKeyId /\ mode = "CREATE" /\ polEnabled = FALSE /\ allowHist = TRUE
  /\ applyVal = Empty /\ procVal = Empty
  /\ hint = (Allowed /\ ~IsModeAllowed("CREATE")) \* init returns before updateModeHint() when not Allowed
  /\ submitDisabled = ~Allowed
  /\ inflight = 0 /\ body = None /\ note = None /\ alert = None

\* Editing a field; when not Allowed every control of the form is disabled.
Edit ==
  /\ Allowed
  /\ \/ \E k \in KeyIds : keyId' = k /\ UNCHANGED <<mode, polEnabled, allowHist, applyVal, procVal, hint>>
     \/ \E m \in Modes : mode' = m /\ UpdateHint(m) /\ UNCHANGED <<keyId, polEnabled, allowHist, applyVal, procVal>>
     \/ polEnabled' = ~polEnabled /\ UNCHANGED <<keyId, mode, allowHist, applyVal, procVal, hint>>
     \/ allowHist' = ~allowHist /\ UNCHANGED <<keyId, mode, polEnabled, applyVal, procVal, hint>>
     \/ \E d \in Dates : applyVal' = d /\ UNCHANGED <<keyId, mode, polEnabled, allowHist, procVal, hint>>
     \/ \E d \in Dates : procVal' = d /\ UNCHANGED <<keyId, mode, polEnabled, allowHist, applyVal, hint>>
  /\ UNCHANGED <<held, submitDisabled, inflight, body, note, alert>>

\* Mutant: reset sets the mode back to CREATE without updateModeHint().
ResetNoHint ==
  /\ Allowed
  /\ keyId' = NoKeyId /\ mode' = "CREATE" /\ polEnabled' = FALSE /\ allowHist' = TRUE
  /\ applyVal' = Empty /\ procVal' = Empty
  /\ note' = None
  /\ UNCHANGED <<held, hint, submitDisabled, inflight, body, alert>>

\* The reset button: defaults, notifications cleared, updateModeHint().
Reset ==
  /\ Allowed
  /\ keyId' = NoKeyId /\ mode' = "CREATE" /\ polEnabled' = FALSE /\ allowHist' = TRUE
  /\ applyVal' = Empty /\ procVal' = Empty
  /\ note' = None
  /\ UpdateHint("CREATE")
  /\ UNCHANGED <<held, submitDisabled, inflight, body, alert>>

\* Mutant: the policy object is built without allowHistoricalProcess.
BodyNoHistFlag ==
  [keyId |-> keyId, mode |-> mode,
   policy |-> IF polEnabled
              THEN [apply |-> BuildNotAfter(applyVal), process |-> BuildNotAfter(procVal)]
              ELSE None]

\* The request body of the submit handler (assetOwner and curve left out).
Body ==
  [keyId |-> keyId, mode |-> mode,
   policy |-> IF polEnabled
              THEN [allowHistoricalProcess |-> allowHist,
                    apply |-> BuildNotAfter(applyVal), process |-> BuildNotAfter(procVal)]
              ELSE None]

\* Mutant: the button is not disabled before the await.
SubmitNoLock ==
  /\ ~submitDisabled
  /\ IsModeAllowed(mode) /\ keyId # NoKeyId
  /\ inflight' = inflight + 1 /\ body' = Body
  /\ UNCHANGED <<held, keyId, mode, polEnabled, allowHist, applyVal, procVal, hint, note,
                 submitDisabled, alert>>

(***************************************************************************)
(* A click on the enabled submit button: a mode not allowed or an empty    *)
(* key id alerts and returns; otherwise the button is disabled and         *)
(* dkgGenerate is sent.                                                    *)
(***************************************************************************)
Submit ==
  /\ ~submitDisabled
  /\ \/ /\ ~IsModeAllowed(mode)
        /\ alert' = "perm"
        /\ UNCHANGED <<submitDisabled, inflight, body>>
     \/ /\ IsModeAllowed(mode) /\ keyId = NoKeyId
        /\ alert' = "keyId"
        /\ UNCHANGED <<submitDisabled, inflight, body>>
     \/ /\ IsModeAllowed(mode) /\ keyId # NoKeyId
        /\ UNCHANGED alert
        /\ submitDisabled' = TRUE
        /\ inflight' = inflight + 1
        /\ body' = Body
  /\ UNCHANGED <<held, keyId, mode, polEnabled, allowHist, applyVal, procVal, hint, note>>

\* Mutant: the success notification reads the mode select when it is shown.
AnswerLiveMode ==
  /\ inflight > 0
  /\ note' = [kind |-> "success", mode |-> mode]
  /\ inflight' = inflight - 1 /\ submitDisabled' = FALSE /\ alert' = None
  /\ UNCHANGED <<held, keyId, mode, polEnabled, allowHist, applyVal, procVal, hint, body>>

\* dkgGenerate resolves: the warning notification of the answer, if any
\* (not told apart here), then the success notification naming the mode
\* captured at the click; re-enable.
Answer ==
  /\ inflight > 0
  /\ note' = [kind |-> "success", mode |-> body.mode]
  /\ inflight' = inflight - 1 /\ submitDisabled' = FALSE /\ alert' = None
  /\ UNCHANGED <<held, keyId, mode, polEnabled, allowHist, applyVal, procVal, hint, body>>

\* Mutant: the re-enable is in the try block, not in finally.
FailNoFinally ==
  /\ inflight > 0
  /\ note' = [kind |-> "danger", mode |-> body.mode]
  /\ inflight' = inflight - 1
  /\ UNCHANGED <<held, keyId, mode, polEnabled, allowHist, applyVal, procVal, hint, body, alert,
                 submitDisabled>>

\* dkgGenerate throws: the error notification; re-enable.
Fail ==
  /\ inflight > 0
  /\ note' = [kind |-> "danger", mode |-> body.mode]
  /\ inflight' = inflight - 1 /\ submitDisabled' = FALSE
  /\ UNCHANGED <<held, keyId, mode, polEnabled, allowHist, applyVal, procVal, hint, body, alert>>

Next == Edit \/ Reset \/ Submit \/ Answer \/ Fail

Spec == Init /\ [][Next]_vars

\* Every dkgGenerate settles: the network answers or the call rejects.
FairSpec == Spec /\ WF_vars(Answer \/ Fail)

-----------------------------------------------------------------------------
NotAfter == [unit : {"SECONDS"}, notAfter : Int] \cup {None}
Policy == [allowHistoricalProcess : BOOLEAN, apply : NotAfter, process : NotAfter]
Bodies == [keyId : KeyIds, mode : Modes, policy : Policy \cup {None}]

TypeOK ==
  /\ held \subseteq {PERMS.create, PERMS.rotate, PERMS.refresh}
  /\ keyId \in KeyIds /\ mode \in Modes
  /\ polEnabled \in BOOLEAN /\ allowHist \in BOOLEAN
  /\ applyVal \in Dates /\ procVal \in Dates
  /\ hint \in BOOLEAN /\ submitDisabled \in BOOLEAN
  /\ inflight \in Nat
  /\ body \in Bodies \cup {None}
  /\ note \in [kind : {"success", "danger"}, mode : Modes] \cup {None}
  /\ alert \in {None, "perm", "keyId"}

(***************************************************************************)
(* At most one dkgGenerate is in flight: the submit handler disables the   *)
(* button before its await and only the finally clause re-enables it       *)
(* (lines 188, 202), while every other control stays live.                 *)
(***************************************************************************)
OneInFlight == inflight <= 1

(***************************************************************************)
(* Every request sent is for a mode the user holds the permission of and   *)
(* a non-empty key id, and each policy time it carries is a positive       *)
(* number of seconds (lines 160-169, 220-231).                             *)
(***************************************************************************)
SentAuthorized ==
  body # None =>
    /\ IsModeAllowed(body.mode) /\ body.keyId # NoKeyId
    /\ body.policy # None =>
         \A t \in {body.policy.apply, body.policy.process} : t = None \/ t.notAfter > 0

(***************************************************************************)
(* Once the request is answered, the result notification names the mode   *)
(* that was submitted, though the mode select may have changed during the  *)
(* request (line 198 uses the mode read at line 158).                      *)
(***************************************************************************)
NoteNamesSentMode == (note # None /\ inflight = 0) => note.mode = body.mode

(***************************************************************************)
(* The mode hint is shown exactly when the selected mode is not allowed,   *)
(* after a change of the select and after reset, which sets the select     *)
(* programmatically and fires no change event (lines 134-151, 206-210).    *)
(* A page without any DKG permission shows its banner and no hint.         *)
(***************************************************************************)
HintMatchesMode == Allowed => (hint = ~IsModeAllowed(mode))

(***************************************************************************)
(* The inductive invariant of the proofs: the properties above, and a      *)
(* request in flight keeps the submit button disabled, which makes         *)
(* OneInFlight inductive, and has a body, which its answer reads.          *)
(***************************************************************************)
IInv ==
  /\ TypeOK /\ OneInFlight /\ SentAuthorized /\ NoteNamesSentMode /\ HintMatchesMode
  /\ inflight > 0 => submitDisabled /\ body \in Bodies

(***************************************************************************)
(* On a page with a DKG permission, a disabled submit button is enabled    *)
(* again once the request settles, whether it succeeded or threw: the      *)
(* finally clause of line 202.  Without the permission it stays disabled   *)
(* (line 121).                                                              *)
(***************************************************************************)
ButtonReenabled == (Allowed /\ submitDisabled) ~> ~submitDisabled

-----------------------------------------------------------------------------
\* The bodies DkgRequest allows: a non-empty key id and positive times.
WellFormedBodies ==
  {b \in Bodies : /\ b.keyId # NoKeyId
                  /\ b.policy # None =>
                       \A t \in {b.policy.apply, b.policy.process} : t = None \/ t.notAfter > 0}

Dkg == INSTANCE DkgRequest WITH Requests <- WellFormedBodies,
                                allowed <- {m \in Modes : IsModeAllowed(m)},
                                busy <- inflight > 0, sent <- body, told <- note

(***************************************************************************)
(* The DKG form implements DkgRequest: one request at a time, for a mode   *)
(* held and a well-formed body, answered by an outcome naming it, however  *)
(* the form is edited and reset while the request is pending (the lock of  *)
(* line 188, the checks of 160-169, the mode read at 158).                 *)
(***************************************************************************)
RefinesDkgRequest == Dkg!Spec
=============================================================================
