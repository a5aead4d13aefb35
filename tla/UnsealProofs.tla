----------------------------- MODULE UnsealProofs -----------------------------
(***************************************************************************)
(* Proofs about the unseal page for every set of shares, texts, statuses  *)
(* and answers and every number of clicks: shares go out only from a page *)
(* whose status said SEALED by shamir, and a finished click always leaves *)
(* the user a status text or an alert.                                     *)
(***************************************************************************)
EXTENDS Unseal, TLAPS

\* The submit handler is attached only to a page that read a sealed shamir status.
ReadyMeansSealedShamir ==
  phase = "ready" => st # None /\ st.state = "SEALED" /\ Lower(st.sealedBy) = "shamir"

\* Bodies are sent only by the handler, which exists only on a ready page.
SentMeansReady == sent # <<>> => phase = "ready"

(***************************************************************************)
(* SentOnlySealedShamir is not inductive by itself: a Click appends to     *)
(* sent, and what makes the status right then is that the handler exists   *)
(* only on a page whose boot status passed both early returns.             *)
(***************************************************************************)
UnsealInv ==
  /\ phase \in {"boot", "ready", "closed"}
  /\ ReadyMeansSealedShamir
  /\ SentMeansReady
  /\ OutcomeShown

LEMMA InitUnsealInv == Init => UnsealInv
BY DEF Init, UnsealInv, ReadyMeansSealedShamir, SentMeansReady, OutcomeShown

LEMMA NextUnsealInv == UnsealInv /\ [Next]_vars => UnsealInv'
<1> SUFFICES ASSUME UnsealInv, [Next]_vars PROVE UnsealInv'
  OBVIOUS
<1>1. CASE BootFail
  BY <1>1, UnsealAssumption DEF BootFail, UnsealInv, ReadyMeansSealedShamir, SentMeansReady, OutcomeShown
<1>2. CASE Leave
  BY <1>2 DEF Leave, UnsealInv, ReadyMeansSealedShamir, SentMeansReady, OutcomeShown
<1>3. ASSUME NEW s \in Statuses, BootStatus(s) PROVE UnsealInv'
  <2>1. phase = "boot" /\ st' = s /\ sent' = sent /\ hash' = hash
        /\ alert' = alert /\ clicks' = clicks /\ nClicks' = nClicks
    BY <1>3 DEF BootStatus
  <2>2. \/ statusText' = "notSealed" /\ phase' = "closed"
        \/ statusText' = "unsupported" /\ phase' = "closed"
        \/ /\ s.state = "SEALED" /\ Lower(s.sealedBy) = "shamir"
           /\ statusText' = "state" /\ phase' = "ready"
    BY <1>3 DEF BootStatus
  <2>3. s # None
    BY UnsealAssumption
  <2>4. sent = <<>>
    BY <2>1 DEF UnsealInv, SentMeansReady
  <2>. QED
    BY <2>1, <2>2, <2>3, <2>4 DEF UnsealInv, ReadyMeansSealedShamir, SentMeansReady, OutcomeShown
<1>4. ASSUME NEW t \in Texts, NEW r \in BOOLEAN, Click(t, r) PROVE UnsealInv'
  <2> DEFINE lines == NonBlank(t)
  <2>1. /\ phase = "ready" /\ hash = "unseal"
        /\ nClicks' = nClicks + 1 /\ statusText' = "empty"
        /\ UNCHANGED <<hash, phase, st, prog>>
    BY <1>4 DEF Click
  <2>2. CASE lines = <<>>
    <3>1. alert' = "danger" /\ sent' = sent
      BY <1>4, <2>2 DEF Click
    <3>. QED
      BY <2>1, <3>1, UnsealAssumption DEF UnsealInv, ReadyMeansSealedShamir, SentMeansReady, OutcomeShown
  <2>3. CASE lines # <<>>
    <3>1. /\ clicks' = clicks \cup {[id |-> nClicks + 1, stage |-> "unseal"]}
          /\ sent' = Append(sent, [payload64 |-> Head(lines),
                                   payloads64 |-> Payloads64(lines),
                                   reset |-> r, text |-> t])
      BY <1>4, <2>3 DEF Click
    <3>2. clicks' # {}
      BY <3>1
    <3>. QED
      BY <2>1, <3>1, <3>2 DEF UnsealInv, ReadyMeansSealedShamir, SentMeansReady, OutcomeShown
  <2>. QED
    BY <2>2, <2>3
<1>5. ASSUME NEW c \in clicks, UnsealFail(c) PROVE UnsealInv'
  BY <1>5, UnsealAssumption DEF UnsealFail, UnsealInv, ReadyMeansSealedShamir, SentMeansReady, OutcomeShown
<1>6. ASSUME NEW c \in clicks, NEW res \in Responses, UnsealAnswer(c, res)
      PROVE  UnsealInv'
  <2>1. clicks' # {}
    BY <1>6 DEF UnsealAnswer
  <2>. QED
    BY <1>6, <2>1 DEF UnsealAnswer, UnsealInv, ReadyMeansSealedShamir, SentMeansReady, OutcomeShown
<1>7. ASSUME NEW c \in clicks, NEW s \in Statuses \cup {None}, StatusAnswer(c, s)
      PROVE  UnsealInv'
  <2>1. \/ hash' = "welcome"
        \/ statusText' = "stillSealed" /\ hash' = hash
    BY <1>7 DEF StatusAnswer
  <2>. QED
    BY <1>7, <2>1 DEF StatusAnswer, UnsealInv, ReadyMeansSealedShamir, SentMeansReady, OutcomeShown
<1>8. CASE UNCHANGED vars
  BY <1>8 DEF vars, UnsealInv, ReadyMeansSealedShamir, SentMeansReady, OutcomeShown
<1>. QED
  BY <1>1, <1>2, <1>3, <1>4, <1>5, <1>6, <1>7, <1>8 DEF Next

LEMMA UnsealInvariant == Spec => []UnsealInv
BY InitUnsealInv, NextUnsealInv, PTL DEF Spec

(***************************************************************************)
(* Shares are sent only by a page whose status said SEALED and shamir,     *)
(* whatever the clicks and answers: the early returns of unseal.js lines   *)
(* 44-54 come before addEventListener and the handler never re-reads the   *)
(* status.                                                                  *)
(***************************************************************************)
THEOREM SharesOnlyToSealedShamir == Spec => []SentOnlySealedShamir
<1>1. UnsealInv => SentOnlySealedShamir
  BY DEF UnsealInv, ReadyMeansSealedShamir, SentMeansReady, SentOnlySealedShamir
<1>. QED
  BY <1>1, UnsealInvariant, PTL

(***************************************************************************)
(* However clicks overlap, once none is awaiting an answer the unseal page *)
(* shows a status text or an alert (unseal.js lines 63, 82-88): no click's *)
(* clearAlerts() leaves the user with nothing.                             *)
(***************************************************************************)
THEOREM ClickOutcomeShown == Spec => []OutcomeShown
<1>1. UnsealInv => OutcomeShown
  BY DEF UnsealInv
<1>. QED
  BY <1>1, UnsealInvariant, PTL

-----------------------------------------------------------------------------
(***************************************************************************)
(* The progress bar.  Math.round(progress / threshold * 100) reaches 100   *)
(* as soon as 200 * progress >= 199 * threshold, which is the threshold    *)
(* itself only while the threshold is below 200.                           *)
(***************************************************************************)

\* A quotient is at least k exactly when the dividend is k divisors or more.
LEMMA DivAtLeast ==
  ASSUME NEW n \in Nat, NEW d \in Nat \ {0}, NEW k \in Nat
  PROVE  (n \div d >= k) <=> (n >= k * d)
<1>1. n \div d \in Nat /\ (n \div d) * d <= n /\ n < (n \div d) * d + d
  OBVIOUS
<1>. QED
  BY <1>1

\* For a positive threshold the bar is full exactly when 200p >= 199t.
LEMMA PctFullIff ==
  ASSUME NEW p \in Nat, NEW t \in Nat \ {0}
  PROVE  Pct(p, t) = 100 <=> 200 * p >= 199 * t
<1>1. (200 * p + t) \div (2 * t) >= 100 <=> 200 * p + t >= 100 * (2 * t)
  BY DivAtLeast
<1>2. (200 * p + t) \div (2 * t) \in Nat
  OBVIOUS
<1>. QED
  BY <1>1, <1>2 DEF Pct, MinOf

\* Below a threshold of 200 the bar is full exactly when it is reached.
LEMMA PctFullSmall ==
  ASSUME NEW p \in Nat, NEW t \in 1..199
  PROVE  Pct(p, t) = 100 <=> p >= t
BY PctFullIff

\* With a threshold of 0 the bar is empty.
LEMMA PctZero ==
  ASSUME NEW p PROVE Pct(p, 0) = 0
BY DEF Pct

(***************************************************************************)
(* The bar is full one share early once the threshold reaches 200: a       *)
(* Shamir threshold of 201 with 200 shares submitted renders 100%, since   *)
(* 200 / 201 * 100 = 99.50... rounds to 100 (unseal.js line 102).  No     *)
(* code bounds the threshold the server reports.                          *)
(***************************************************************************)
THEOREM BarFullBeforeThreshold == Pct(200, 201) = 100 /\ 200 < 201
BY PctFullIff

\* Once a positive threshold is reached the bar is full, whatever the threshold.
LEMMA PctFullWhenReached ==
  ASSUME NEW p \in Nat, NEW t \in Nat \ {0}, p >= t
  PROVE  Pct(p, t) = 100
<1>1. 200 * p >= 199 * t
  OBVIOUS
<1>. QED
  BY <1>1, PctFullIff

\* renderProgress of a well-formed answer draws an honest bar.
LEMMA RenderHonest ==
  ASSUME NEW p \in Progress \cup {None}
  PROVE  LET q == RenderProgress(p) IN
           q.kind = "shamir" =>
             /\ q.threshold = 0 => q.pct = 0
             /\ q.threshold > 0 /\ q.progress >= q.threshold => q.pct = 100
             /\ q.threshold \in 1..199 /\ q.pct = 100 => q.progress >= q.threshold
<1>1. CASE p = None
  BY <1>1 DEF RenderProgress
<1>2. CASE p # None /\ p.threshold # None
  <2>1. p.threshold \in Nat /\ OrZero(p.progress) \in Nat
    BY <1>2, UnsealAssumption DEF Progress, OrZero
  <2>2. RenderProgress(p) = [kind |-> "shamir", progress |-> OrZero(p.progress),
                             threshold |-> p.threshold, total |-> OrZero(p.total),
                             pct |-> Pct(OrZero(p.progress), p.threshold)]
    BY <1>2 DEF RenderProgress
  <2>3. p.threshold \in 1..199 /\ Pct(OrZero(p.progress), p.threshold) = 100
          => OrZero(p.progress) >= p.threshold
    BY <2>1, PctFullSmall
  <2>4. p.threshold > 0 /\ OrZero(p.progress) >= p.threshold
          => Pct(OrZero(p.progress), p.threshold) = 100
    BY <2>1, PctFullWhenReached
  <2>5. p.threshold = 0 => Pct(OrZero(p.progress), p.threshold) = 0
    BY PctZero
  <2>. QED
    BY <2>2, <2>3, <2>4, <2>5
<1>3. CASE p # None /\ p.threshold = None
  BY <1>3 DEF RenderProgress
<1>. QED
  BY <1>1, <1>2, <1>3

(***************************************************************************)
(* Whichever answer was rendered last, the progress bar is empty at a      *)
(* threshold of 0, full once a positive threshold is reached, and, below a *)
(* threshold of 200, full only then, for every set of well-formed status   *)
(* and unseal answers: the threshold > 0 test and Math.min/Math.round of   *)
(* unseal.js lines 99-103.  BarFullBeforeThreshold shows why the last      *)
(* conjunct stops at 199.                                                  *)
(***************************************************************************)
THEOREM ProgressBarAlwaysHonest ==
  ASSUME \A s \in Statuses : s.progress \in Progress \cup {None},
         \A r \in Responses : r = None \/ r.data \in Progress \cup {None}
  PROVE  Spec => []ProgressBarHonest
<1>1. Init => ProgressBarHonest
  BY DEF Init, ProgressBarHonest
<1>2. ProgressBarHonest /\ [Next]_vars => ProgressBarHonest'
  <2> SUFFICES ASSUME ProgressBarHonest, [Next]_vars PROVE ProgressBarHonest'
    OBVIOUS
  <2>1. ASSUME NEW s \in Statuses, BootStatus(s) PROVE ProgressBarHonest'
    <3>1. prog' = RenderProgress(s.progress)
      BY <2>1 DEF BootStatus
    <3>. QED
      BY <3>1, RenderHonest DEF ProgressBarHonest
  <2>2. ASSUME NEW c \in clicks, NEW res \in Responses, UnsealAnswer(c, res)
        PROVE  ProgressBarHonest'
    <3>1. prog' = RenderProgress(ProgressOf(res))
      BY <2>2 DEF UnsealAnswer
    <3>2. ProgressOf(res) \in Progress \cup {None}
      <4>1. CASE res = None
        BY <4>1 DEF ProgressOf
      <4>2. CASE res # None /\ res.data # None
        BY <4>2 DEF ProgressOf
      <4>3. CASE res # None /\ res.data = None
        BY <4>3 DEF ProgressOf, Progress
      <4>. QED
        BY <4>1, <4>2, <4>3
    <3>. QED
      BY <3>1, <3>2, RenderHonest DEF ProgressBarHonest
  <2>3. CASE BootFail \/ Leave \/ UNCHANGED vars
    BY <2>3 DEF BootFail, Leave, vars, ProgressBarHonest
  <2>4. ASSUME NEW t \in Texts, NEW r \in BOOLEAN, Click(t, r) PROVE ProgressBarHonest'
    BY <2>4 DEF Click, ProgressBarHonest
  <2>5. ASSUME NEW c \in clicks, UnsealFail(c) \/ \E s \in Statuses \cup {None} : StatusAnswer(c, s)
        PROVE  ProgressBarHonest'
    BY <2>5 DEF UnsealFail, StatusAnswer, ProgressBarHonest
  <2>. QED
    BY <2>1, <2>2, <2>3, <2>4, <2>5 DEF Next
<1>. QED
  BY <1>1, <1>2, PTL DEF Spec
=============================================================================
