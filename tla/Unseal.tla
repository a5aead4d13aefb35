------------------------------- MODULE Unseal -------------------------------
(***************************************************************************)
(* The unseal page of unseal.js.  init() returns to #/login without a      *)
(* subject and throws without DOMPurify; otherwise it awaits safeStatus()  *)
(* (api.getStatus, whose failure becomes a danger alert and null), shows   *)
(* the state and the progress, and attaches the submit handler only to a   *)
(* keeper SEALED by shamir.  A click splits the textarea into its          *)
(* non-blank lines, refuses an empty list, sends the first line as         *)
(* payload64 and the others as payloads64, renders the progress of the     *)
(* answer, awaits safeStatus() again and either redirects to #/welcome or  *)
(* says "Submitted. Keeper still sealed.".  Nothing locks the button, so   *)
(* clicks overlap.                                                          *)
(*                                                                         *)
(* ui.js's alert area holds one alert (showAlert clears it first) and is   *)
(* global; the page's elements belong to this visit.  A line's surrounding *)
(* whitespace is not told apart (trim): a line is a share or Blank.        *)
(***************************************************************************)
EXTENDS Naturals, Sequences

CONSTANTS Shares,    \* share lines, each one base64 text
          Blank,     \* a line that is empty once trimmed
          Texts,     \* textarea contents: the sequences its split("\n") gives
          Statuses,  \* what api.getStatus may answer
          Responses, \* what api.systemUnseal may answer
          None,      \* null or undefined
          MaxClicks  \* clicks of the submit button in a behaviour

ASSUME UnsealAssumption ==
  /\ MaxClicks \in Nat
  /\ Blank \notin Shares
  /\ None \notin Statuses     \* getStatus answers an object; its failure is BootFail
  /\ None \notin {"warning", "danger"}  \* null is no alert kind
  /\ None \notin Nat         \* nor a number
  /\ \A t \in Texts : t \in Seq(Shares \cup {Blank}) /\ Len(t) >= 1

VARIABLES hash,       \* the route: "unseal", "login", "welcome" or "other"
          phase,      \* "boot" (awaiting getStatus), "ready" (handler attached), "closed"
          st,         \* the status init() read, or None
          statusText, \* what statusEl says
          prog,       \* what progEl shows
          alert,      \* ui.js's alert area: None, "warning" or "danger"
          clicks,     \* clicks awaiting systemUnseal ("unseal") or getStatus ("status")
          nClicks,    \* clicks so far
          sent        \* the bodies systemUnseal sent, in order, with the text they came from

vars == <<hash, phase, st, statusText, prog, alert, clicks, nClicks, sent>>

\* (st.sealedBy || "").toLowerCase() for the spellings the server may use.
Lower(x) == CASE x = "Shamir" -> "shamir"
              [] x = "SHAMIR" -> "shamir"
              [] x = None     -> "none"
              [] OTHER        -> x

\* String(sharesEl.value).split("\n").map(trim).filter(Boolean).
NonBlank(text) == SelectSeq(text, LAMBDA x : x # Blank)

\* Mutant: lines.slice(0) for lines.slice(1), so the first share goes twice.
Payloads64All(lines) == IF Len(lines) > 1 THEN lines ELSE None

\* lines.length > 1 ? lines.slice(1) : null.
Payloads64(lines) == IF Len(lines) > 1 THEN Tail(lines) ELSE None

MinOf(a, b) == IF a <= b THEN a ELSE b

\* Mutant: no threshold > 0 test, so progress / 0 is Infinity (or NaN for
\* 0 / 0) and Math.min(100, Infinity) is 100.
PctNoZeroGuard(progress, threshold) ==
  IF threshold > 0 THEN MinOf(100, (200 * progress + threshold) \div (2 * threshold))
  ELSE IF progress > 0 THEN 100 ELSE 0

\* Mutant: neither Math.min(100, ...) is there.
PctNoClamp(progress, threshold) ==
  IF threshold > 0 THEN (200 * progress + threshold) \div (2 * threshold) ELSE 0

\* threshold > 0 ? Math.min(100, Math.round(progress / threshold * 100)) : 0;
\* Math.round(x) is floor(x + 1/2).  The Math.max/Math.min of safePct leave
\* a value in 0..100 as it is.
Pct(progress, threshold) ==
  IF threshold > 0 THEN MinOf(100, (200 * progress + threshold) \div (2 * threshold))
  ELSE 0

\* p.x || 0 for a count or a missing field.
OrZero(x) == IF x = None THEN 0 ELSE x

\* renderProgress(p): "No progress", the Shamir bar, "Ready", or the JSON;
\* the guards are exclusive, as the order of its early returns makes them.
RenderProgress(p) ==
  CASE p = None -> [kind |-> "none"]
    [] p # None /\ p.threshold # None ->
         [kind |-> "shamir", progress |-> OrZero(p.progress),
          threshold |-> p.threshold, total |-> OrZero(p.total),
          pct |-> Pct(OrZero(p.progress), p.threshold)]
    [] p # None /\ p.threshold = None /\ p.ready = TRUE -> [kind |-> "ready"]
    [] OTHER -> [kind |-> "json"]

\* res?.data ?? res: an answer without data is rendered as itself, a record
\* with neither threshold nor ready.
ProgressOf(res) ==
  CASE res = None       -> None
    [] res # None /\ res.data # None -> res.data
    [] OTHER            -> [threshold |-> None, progress |-> None, total |-> None, ready |-> FALSE]

\* navigate() has cleared the alerts and called init().
Init ==
  /\ \E subject, purify \in BOOLEAN :
       /\ hash = IF subject THEN "unseal" ELSE "login"
       /\ phase = IF subject /\ purify THEN "boot" ELSE "closed"
       /\ alert = IF subject /\ ~purify THEN "danger" ELSE None
  /\ st = None /\ statusText = "initial" /\ prog = [kind |-> "initial"]
  /\ clicks = {} /\ nClicks = 0 /\ sent = <<>>

\* Mutant: the handler is attached whatever the state, as long as the keeper
\* is sealed by shamir.
BootStatusNoSealedCheck(s) ==
  /\ phase = "boot"
  /\ st' = s /\ prog' = RenderProgress(s.progress)
  /\ IF Lower(s.sealedBy) # "shamir"
     THEN statusText' = "unsupported" /\ phase' = "closed"
     ELSE statusText' = "state" /\ phase' = "ready"
  /\ UNCHANGED <<hash, alert, clicks, nClicks, sent>>

\* safeStatus answers: the state, the progress, and the two early returns.
BootStatus(s) ==
  /\ phase = "boot"
  /\ st' = s /\ prog' = RenderProgress(s.progress)
  /\ CASE s.state # "SEALED" ->
            statusText' = "notSealed" /\ phase' = "closed"
       [] s.state = "SEALED" /\ Lower(s.sealedBy) # "shamir" ->
            statusText' = "unsupported" /\ phase' = "closed"
       [] OTHER ->
            statusText' = "state" /\ phase' = "ready"
  /\ UNCHANGED <<hash, alert, clicks, nClicks, sent>>

\* getStatus throws: showAlert("danger", ...) and init() returns.
BootFail ==
  /\ phase = "boot"
  /\ phase' = "closed" /\ alert' = "danger"
  /\ UNCHANGED <<hash, st, statusText, prog, clicks, nClicks, sent>>

\* A click on the submit button of the page on screen, with the textarea
\* holding text and the reset box checked or not.
Click(text, reset) ==
  LET lines == NonBlank(text) IN
  /\ phase = "ready" /\ hash = "unseal" /\ nClicks < MaxClicks
  /\ nClicks' = nClicks + 1 /\ statusText' = "empty"
  /\ IF lines = <<>>
     THEN alert' = "danger" /\ UNCHANGED <<clicks, sent>>
     ELSE /\ clicks' = clicks \cup {[id |-> nClicks + 1, stage |-> "unseal"]}
          /\ sent' = Append(sent, [payload64 |-> Head(lines),
                                   payloads64 |-> Payloads64(lines),
                                   reset |-> reset, text |-> text])
          /\ UNCHANGED alert
  /\ UNCHANGED <<hash, phase, st, prog>>

\* systemUnseal resolves: the warning, renderProgress, then safeStatus's call.
UnsealAnswer(c, res) ==
  /\ c.stage = "unseal"
  /\ clicks' = (clicks \ {c}) \cup {[c EXCEPT !.stage = "status"]}
  /\ alert' = IF res # None /\ res.warning THEN "warning" ELSE alert
  /\ prog' = RenderProgress(ProgressOf(res))
  /\ UNCHANGED <<hash, phase, st, statusText, nClicks, sent>>

\* Mutant: the catch swallows the error.
UnsealFailSilent(c) ==
  /\ c.stage = "unseal"
  /\ clicks' = clicks \ {c}
  /\ UNCHANGED <<hash, phase, st, statusText, prog, alert, nClicks, sent>>

\* systemUnseal throws: the catch's showAlert("danger", ...).
UnsealFail(c) ==
  /\ c.stage = "unseal"
  /\ clicks' = clicks \ {c} /\ alert' = "danger"
  /\ UNCHANGED <<hash, phase, st, statusText, prog, nClicks, sent>>

\* The second safeStatus ends: UNSEALED clears the alerts and sets
\* location.hash, from whatever page is on screen; any other answer, and a
\* failure (whose danger alert clearAlerts() removes at once), clears the
\* alerts and says the keeper is still sealed.
StatusAnswer(c, s) ==
  /\ c.stage = "status"
  /\ clicks' = clicks \ {c} /\ alert' = None
  /\ IF s # None /\ s.state = "UNSEALED"
     THEN hash' = "welcome" /\ UNCHANGED statusText
     ELSE statusText' = "stillSealed" /\ UNCHANGED hash
  /\ UNCHANGED <<phase, st, prog, nClicks, sent>>

\* The user opens another page: navigate() runs clearAlerts().
Leave ==
  /\ hash = "unseal"
  /\ hash' = "other" /\ alert' = None
  /\ UNCHANGED <<phase, st, statusText, prog, clicks, nClicks, sent>>

Next ==
  \/ BootFail \/ Leave
  \/ \E s \in Statuses : BootStatus(s)
  \/ \E t \in Texts, r \in BOOLEAN : Click(t, r)
  \/ \E c \in clicks :
       \/ UnsealFail(c)
       \/ \E res \in Responses : UnsealAnswer(c, res)
       \/ \E s \in Statuses \cup {None} : StatusAnswer(c, s)

Spec == Init /\ [][Next]_vars

-----------------------------------------------------------------------------
Progress == [threshold : Nat \cup {None}, progress : Nat \cup {None},
             total : Nat \cup {None}, ready : BOOLEAN]
Shown == [kind : {"none", "ready", "json", "initial"}] \cup
         [kind : {"shamir"}, progress : Nat, threshold : Nat, total : Nat, pct : 0..100]
Body == [payload64 : Shares, payloads64 : Seq(Shares) \cup {None},
         reset : BOOLEAN, text : Texts]

TypeOK ==
  /\ hash \in {"unseal", "login", "welcome", "other"}
  /\ phase \in {"boot", "ready", "closed"}
  /\ statusText \in {"initial", "state", "notSealed", "unsupported", "empty", "stillSealed"}
  /\ prog \in Shown
  /\ alert \in {None, "warning", "danger"}
  /\ clicks \subseteq [id : 1..MaxClicks, stage : {"unseal", "status"}]
  /\ nClicks \in 0..MaxClicks
  /\ sent \in Seq(Body) /\ Len(sent) <= nClicks

\* The shares a body carries: payload64, then payloads64.
SharesOf(b) == <<b.payload64>> \o (IF b.payloads64 = None THEN <<>> ELSE b.payloads64)

(***************************************************************************)
(* Every body sent to systemUnseal carries exactly the share lines of the  *)
(* textarea, in order, and no blank one: the split/trim/filter of lines    *)
(* 58-61 and the payload64/payloads64 split of lines 68-69, for text with  *)
(* blank lines anywhere, a trailing newline included.                      *)
(***************************************************************************)
SharesSentAsTyped ==
  \A i \in DOMAIN sent : SharesOf(sent[i]) = SelectSeq(sent[i].text, LAMBDA x : x \in Shares)

(***************************************************************************)
(* Shares are sent only by a page whose status said SEALED and shamir: the *)
(* early returns of lines 44-54 come before addEventListener, and the      *)
(* handler never reads the status again.                                   *)
(***************************************************************************)
SentOnlySealedShamir ==
  sent # <<>> => st # None /\ st.state = "SEALED" /\ Lower(st.sealedBy) = "shamir"

(***************************************************************************)
(* The progress bar is empty when the threshold is 0, full once a positive *)
(* threshold is reached, and, for a threshold below 200, full only then:   *)
(* the threshold > 0 test and Math.min/Math.round of lines 99-103,         *)
(* whichever answer was rendered last.  From 200 on, Math.round fills the  *)
(* bar at threshold - 1 shares, so the last conjunct stops at 199.         *)
(***************************************************************************)
ProgressBarHonest ==
  prog.kind = "shamir" =>
    /\ prog.threshold = 0 => prog.pct = 0
    /\ prog.threshold > 0 /\ prog.progress >= prog.threshold => prog.pct = 100
    /\ prog.threshold \in 1..199 /\ prog.pct = 100 => prog.progress >= prog.threshold

(***************************************************************************)
(* Once a click has been made and no click is awaiting an answer, the page *)
(* on screen tells the user something: a status text or an alert.  Every  *)
(* path of the handler ends in showAlert or a statusEl text (lines 63, 82- *)
(* 88), however the clicks overlap and whichever of them clears what      *)
(* another one showed.                                                      *)
(***************************************************************************)
OutcomeShown ==
  (hash = "unseal" /\ nClicks > 0 /\ clicks = {}) => (statusText # "empty" \/ alert # None)
=============================================================================
