-------------------------------- MODULE Audit --------------------------------
(***************************************************************************)
(* The audit page of audit.js: the NDJSON textarea with its line counter   *)
(* (countLines, updateCount), the Verify handler (parseNdjson, then one    *)
(* verifyAuditLine or verifyAuditBatch call under lock()), the rendering   *)
(* of the answer, and the pager of the invalid entries, wired by a         *)
(* setTimeout after the result is rendered.                                *)
(*                                                                         *)
(* A line of the textarea is its kind: "blank" (empty after trim),         *)
(* "bad_json" (JSON.parse throws), "no_fields" (no event or signature),    *)
(* "valid" or "invalid" (a well-formed entry whose signature the server    *)
(* finds valid or not).                                                    *)
(***************************************************************************)
EXTENDS Naturals, Sequences, FiniteSets

CONSTANTS Inputs,    \* the texts the user may type, as sequences of line kinds
          CanVerify, \* Auth.hasPermission("tkeeper.audit.log.verify")
          Cap,       \* the line limit (1000 in the code)
          PerPage    \* invalid entries per page (50)

LineKinds == {"blank", "bad_json", "no_fields", "valid", "invalid"}

ASSUME AuditAssumption ==
  /\ Inputs \subseteq Seq(LineKinds)
  /\ CanVerify \in BOOLEAN
  /\ Cap \in Nat \ {0} /\ PerPage \in Nat \ {0}

VARIABLES input,   \* els.input.value
          shown,   \* the counter: [n |-> shown count, red |-> parse failures]
          result,  \* what els.result holds
          locked,  \* lock(true) is in force
          req,     \* the verify request in flight
          pager    \* the batch pager: [wired, page, total]

vars == <<input, shown, result, locked, req, pager>>

NoReq == [n |-> 0, invalid |-> 0]
NoPager == [wired |-> FALSE, page |-> 1, total |-> 0]

\* Non-blank lines among the first i.
NonBlankUpTo(s, i) == Cardinality({j \in 1..i : s[j] # "blank"})

\* countLines: a non-blank line is counted, and JSON-parsed unless the
\* count has passed the cap (the loop breaks).
CountConsidered(s, i) == s[i] # "blank" /\ NonBlankUpTo(s, i) <= Cap

\* updateCount(): min(nonEmptyLines, 1000), red when some parse failed.
Count(s) ==
  [n   |-> IF NonBlankUpTo(s, Len(s)) < Cap THEN NonBlankUpTo(s, Len(s)) ELSE Cap,
   red |-> \E i \in DOMAIN s : CountConsidered(s, i) /\ s[i] = "bad_json"]

\* Mutant: parseNdjson breaks one line early (">=" for ">").
ParseConsideredEarly(s, i) == s[i] # "blank" /\ NonBlankUpTo(s, i) < Cap

\* parseNdjson: the lines its loop parses before it breaks.
ParseConsidered(s, i) == s[i] # "blank" /\ NonBlankUpTo(s, i) <= Cap

ParseErrors(s) == {i \in DOMAIN s : ParseConsidered(s, i) /\ s[i] \in {"bad_json", "no_fields"}}
Rows(s) == {i \in DOMAIN s : ParseConsidered(s, i) /\ s[i] \in {"valid", "invalid"}}

\* Math.max(1, Math.ceil(total / perPage)).
Pages(n) == IF n = 0 THEN 1 ELSE (n + PerPage - 1) \div PerPage

Init ==
  /\ input = <<>> /\ shown = Count(<<>>)
  /\ result = "none" /\ locked = FALSE /\ req = NoReq /\ pager = NoPager

\* Typing (the input event runs updateCount); the textarea is disabled
\* while locked.
Edit(s) ==
  /\ ~locked
  /\ input' = s /\ shown' = Count(s)
  /\ UNCHANGED <<result, locked, req, pager>>

\* The clear button (disabled while locked): empty text and result.
Clear ==
  /\ ~locked
  /\ input' = <<>> /\ shown' = Count(<<>>)
  /\ result' = "none" /\ pager' = NoPager
  /\ UNCHANGED <<locked, req>>

(***************************************************************************)
(* Verify (disabled while locked or without the permission): empty the     *)
(* result; nothing non-blank: an alert; parse errors: the error table;     *)
(* otherwise lock and send the first 1000 rows, one line or a batch.       *)
(***************************************************************************)
Verify ==
  /\ ~locked /\ CanVerify
  /\ pager' = NoPager
  /\ \/ /\ NonBlankUpTo(input, Len(input)) = 0
        /\ result' = "none"
        /\ UNCHANGED <<locked, req>>
     \/ /\ NonBlankUpTo(input, Len(input)) > 0 /\ ParseErrors(input) # {}
        /\ result' = "parseErrors"
        /\ UNCHANGED <<locked, req>>
     \/ /\ NonBlankUpTo(input, Len(input)) > 0 /\ ParseErrors(input) = {}
        /\ result' = "none"
        /\ locked' = TRUE
        /\ req' = [n |-> Cardinality(Rows(input)),
                   invalid |-> Cardinality({i \in Rows(input) : input[i] = "invalid"})]
  /\ UNCHANGED <<input, shown>>

\* Mutant: the pager starts on page 0.
AnsweredPageZero ==
  /\ locked
  /\ result' = CASE req.n = 1 /\ req.invalid = 0 -> "valid"
                 [] req.n = 1                    -> "invalid"
                 [] req.invalid = 0              -> "allValid"
                 [] OTHER                        -> "batchInvalid"
  /\ pager' = [wired |-> FALSE, page |-> 0, total |-> req.invalid]
  /\ locked' = FALSE /\ req' = NoReq
  /\ UNCHANGED <<input, shown>>

(***************************************************************************)
(* The server answers with a verdict per row: renderVerifyResult shows the *)
(* single verdict, or "Verified n/n", or the count of invalid entries and  *)
(* the pager over them (its state on page 1, wired later); then unlock.    *)
(***************************************************************************)
Answered ==
  /\ locked
  /\ result' = CASE req.n = 1 /\ req.invalid = 0 -> "valid"
                 [] req.n = 1                    -> "invalid"
                 [] req.invalid = 0              -> "allValid"
                 [] OTHER                        -> "batchInvalid"
  /\ pager' = [wired |-> FALSE, page |-> 1, total |-> req.invalid]
  /\ locked' = FALSE /\ req' = NoReq
  /\ UNCHANGED <<input, shown>>

\* The call throws: an alert, then unlock.
Failed ==
  /\ locked
  /\ locked' = FALSE /\ req' = NoReq
  /\ UNCHANGED <<input, shown, result, pager>>

\* The setTimeout of renderBatchInvalid runs wireBatchPagination.
Wire ==
  /\ result = "batchInvalid" /\ ~pager.wired
  /\ pager' = [pager EXCEPT !.wired = TRUE]
  /\ UNCHANGED <<input, shown, result, locked, req>>

\* Prev: "if (state.page > 1)", then render.
PrevPage ==
  /\ result = "batchInvalid" /\ pager.wired /\ pager.page > 1
  /\ pager' = [pager EXCEPT !.page = pager.page - 1]
  /\ UNCHANGED <<input, shown, result, locked, req>>

\* Mutant: Next's guard "<=" for "<".
NextOffByOne ==
  /\ result = "batchInvalid" /\ pager.wired /\ pager.page <= Pages(pager.total)
  /\ pager' = [pager EXCEPT !.page = pager.page + 1]
  /\ UNCHANGED <<input, shown, result, locked, req>>

\* Next: "if (state.page < pages)", then render.
NextPage ==
  /\ result = "batchInvalid" /\ pager.wired /\ pager.page < Pages(pager.total)
  /\ pager' = [pager EXCEPT !.page = pager.page + 1]
  /\ UNCHANGED <<input, shown, result, locked, req>>

Next ==
  \/ \E s \in Inputs : Edit(s)
  \/ Clear \/ Verify \/ Answered \/ Failed \/ Wire \/ PrevPage \/ NextPage

Spec == Init /\ [][Next]_vars

-----------------------------------------------------------------------------
Results == {"none", "parseErrors", "valid", "invalid", "allValid", "batchInvalid"}

TypeOK ==
  /\ input \in Inputs \cup {<<>>}
  /\ shown \in [n : 0..Cap, red : BOOLEAN]
  /\ result \in Results /\ locked \in BOOLEAN
  /\ req \in [n : 0..Cap, invalid : 0..Cap]
  /\ pager \in [wired : BOOLEAN, page : Nat \ {0}, total : 0..Cap]

(***************************************************************************)
(* A verify request carries exactly as many entries as the counter shows,  *)
(* and is sent only while the counter is not red: countLines and           *)
(* parseNdjson apply the same 1000-line cut (lines 117, 137) and the       *)
(* input is locked while the request is in flight (line 98).               *)
(***************************************************************************)
CountMatchesSent == locked => (req.n = shown.n /\ ~shown.red)

(***************************************************************************)
(* The pager of invalid entries always shows a page that exists (lines     *)
(* 268, 280-281, 291-292).                                                 *)
(***************************************************************************)
BatchPageInRange == result = "batchInvalid" => pager.page \in 1..Pages(pager.total)
=============================================================================
