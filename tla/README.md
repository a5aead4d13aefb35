# TLA+ models of the tkeeper web console

This directory holds TLA+ models of the browser console of tkeeper, under
`src/main/resources/ui/assets/app/`. It has the modules, the TLC
configurations that check them, and TLAPS proofs.
`PROJECT.json` lists:
- every component, with its status;
- every run, with the properties it checks;
- the mutants that show each property can fail;
- the source lines each definition models;
- the findings, the hazards and the theorems.

## The system

The console is a single-page application of eight modules.

- **auth.js** holds the authorization engine. `createSegment`,
  `parseSegments`, `splitRaw` and `matchPermission` compile a dot-separated
  permission pattern and match it. `class PermissionSet` holds the allow and
  deny lists that its constructor compiles. Its `has()` keeps a FIFO decision
  cache of 256 entries. `anyOf()` and `allOf()` are short-circuit loops over
  `has()`. The `Auth` singleton holds `subject`, `permissions` and `loaded`.
  `load()` awaits `api.getMe()` and then builds a new `PermissionSet`.
  `reset()` empties all three.
- **ui.js** is the shell. `boot()` wires the logout handler, then awaits
  `hydrateMe()`. `hydrateMe()` runs `Auth.load()` when a token is stored and
  resets otherwise. Its catch clears the token and resets. `boot()` then runs
  `gateByStatus()` and `navigate()`. The `tkeeper:auth-changed` listener runs
  `hydrateMe()` again. `applyNavPermissions()` enables the nav links through
  `Auth.permissions.anyOf`.
- **login.js** has the token form. Save stores the token and awaits
  `Auth.load()`. On success it dispatches `auth-changed`. On failure it clears
  the token and does not reset `Auth`.
- **inventory.js** pages the key inventory with a cursor and a `loading`
  lock. It also pages each key's historical generations, and that pager has no
  lock.
- **keygen.js**, **system.js**, **audit.js** and **unseal.js** are pages that
  gate on permissions and call the API.
- The pages share ui.js's alert area through `showAlert` and
  `clearAlerts`. `navigate()` empties it. A page's elements are replaced
  when the user navigates away, but its pending `await`s still resume.

The API client `api.js` is imported but is not part of this repository. Its
behaviour, and the server's, is assumed from how the pages use it. The server
is modelled only as the answers a request can get.

Everything is asynchronous and single-threaded. A handler runs to its next
`await` atomically. Between two such steps, any other handler may run, and
the answers to outstanding requests arrive in any order or fail. That is the
concurrency the models explore. Apart from `await`, every handler is one
atomic step: the synchronous `anyOf`/`allOf` loops are split only so that
their intermediate caches can be inspected. A split changes no outcome,
because nothing else runs in between.

## Modules

| module | models | state |
|---|---|---|
| `PermMatch` | `createSegment`, `parseSegments`, `splitRaw`, `matchPermission` (auth.js 48-102) | pure operators |
| `PermissionSet` | `class PermissionSet` (auth.js 104-158) | `grants`, `cache`, `op`, `last`, ghost `misses` |
| `PermissionSetProofs` | TLAPS proofs about `PermissionSet` | — |
| `AuthContext` | `Auth.load/reset`, `boot`, `hydrateMe`, logout, token form | `phase`, `token`, `subject`, `permsFrom`, `loaded`, `pending`, `nextId` |
| `Inventory` | `reload`, `loadPage`, the filter and more handlers, `loadHistorical`/`fetchMore`, Prev/Next | list, cursor, `loading`, requests in flight, the historical box |
| `Router` | `boot`, `gateByStatus`, `navigate`, `normalizeRoute`, the hashchange listener, logout and login redirects (ui.js, login.js) | `hash`, queued hashchanges, `listening`, `subject`, `status`, `title`, `view`, handlers in flight |
| `Audit` | `countLines`, `updateCount`, `parseNdjson`, the verify handler and `lock`, `renderVerifyResult`, the batch pager (audit.js) | input, counter, result, `locked`, request, pager |
| `Keygen` | the page gate, `isModeAllowed`, `updateModeHint`, reset, the submit handler, `buildNotAfterFromDate` (keygen.js) | held permissions, the form, hint, button lock, request, notification, alert |
| `DkgRequest` | what the DKG form promises: one request at a time, an allowed well-formed body, an outcome naming it | `allowed`, `busy`, `sent`, `told` |
| `KeygenProofs` | TLAPS proofs about `Keygen` | — |
| `AuditProofs` | TLAPS proofs about `Audit` | — |
| `SystemProofs` | TLAPS proofs about `System` | — |
| `AuthContextProofs` | TLAPS proofs about `AuthContext` | — |
| `RouterProofs` | TLAPS proofs about `Router` | — |
| `UnsealProofs` | TLAPS proofs about `Unseal` | — |
| `InventoryProofs` | TLAPS proofs about `Inventory` | — |
| `System` | `load`, `normalizePeers`, the count fallbacks, `clusterCapability`, the Refresh button (system.js), `navigate`'s and `showAlert`'s alert area (ui.js) | page on screen, visit, loads in flight, badge, cards, capability alerts, page alert |
| `Unseal` | `init`, `safeStatus`, the submit listener, `renderProgress` (unseal.js), `navigate`'s alert clearing (ui.js) | route, phase, status read, status text, progress shown, alert, clicks in flight, bodies sent |

**Strings.** A permission string is a sequence of its dot-separated pieces,
and a piece is a sequence of characters. So `"a..b"` is
`<< <<"a">>, <<>>, <<"b">> >>` and `""` is `<< <<>> >>`.
- `String.split(".")` is then the structure itself.
- `filter(Boolean)` is `SelectSeq` keeping non-empty pieces.
- `startsWith` and `endsWith` are `IsPrefix` and `IsSuffix`.
- The constructor's `p.slice(1)` on a leading `-` removes the first character
  of the first piece (`StripDash`).

A non-string is the model value `NotString`.

`createSegment` returns a matcher record. Its kind is `any`, `exact`,
`prefix`, `suffix` or `affix`, or one of the two compile errors. The errors
are the exceptions that make the constructor throw. The `CASE` of
`CreateSegment` tests in the code's order.

**PermissionSet.**
- The cache is a sequence of `[key, val]` in `Map` insertion order.
- `Remember` appends, then drops the head when the length exceeds `CacheMax`.
- A call of `has` is one action. A call of `anyOf`/`allOf` is `Call`, then
  one `Iterate` per element, then `Exhausted` if no element stopped it.
- `last` records what the last completed call returned.
- `misses` is a ghost history of the keys `has` evaluated. It is needed to
  state FIFO order.

**AuthContext.**
- A PermissionSet is identified by `permsFrom`, the token whose grant list it
  was built from. `None` is the empty set of `reset()`.
- Whether that list compiles is the constant `Malformed`. Matching itself is
  `PermissionSet`'s business.
- Each `await api.getMe()` is a pending request. It records its caller (boot,
  hydrate or login) and the token sent with it.
- A request is answered by one of three actions, chosen by the caller's
  continuation:
  - `HydrateResolves` / `LoginResolves`: the answer arrives and its list
    compiles;
  - `HydrateFails` / `LoginThrows`: the answer arrives and `new
    PermissionSet` throws;
  - `HydrateFails` / `LoginFails`: `getMe` rejects.
- `LoginResolves` includes the `auth-changed` listener's `hydrateMe()` up to
  its `await`, because `dispatchEvent` runs listeners synchronously.

**Inventory.**
- Items are model values. The server's list for a filter is a sequence, and
  the cursor is the position of the last item returned.
- The `loading` flag and `lock()` are one variable, because `lock` disables
  every control that could start a load.
- Only the historical table of one card (`HistId`) is modelled. A reload
  re-creates the cards, so it resets that table (`NoHist`).

**Router.**
- A handler in flight (boot's or a hashchange listener's) is a record whose
  `pc` is the await it is suspended at: `start` (about to gate), `status`
  (awaiting `getStatus`), `fetch` (awaiting the page HTML), `init` (awaiting
  the page module). Each resumption is one action, and any handler may resume
  next.
- Assigning `location.hash` queues a hashchange when the value changes;
  `Dispatch` delivers it later. Before boot has added its listener
  (`listening`), a dispatched event starts nothing.
- The gate's redirect target is `GateTarget`; after the redirect the same
  handler navigates to `normalizeRoute(location.hash)`.
- The keeper's state is fixed per behaviour; a `getStatus` that throws is
  the answer `"failed"`.

**Audit.**
- A line of the textarea is its kind: blank, bad JSON, missing fields, or a
  well-formed entry the server finds valid or invalid. The text is a sequence
  of kinds, and the 1000-line cap is the constant `Cap`.
- `countLines` and `parseNdjson` are modelled separately (`CountConsidered`,
  `ParseConsidered`), as the code writes two loops.
- `lock(true)` disables input, clear and verify, so `Edit`, `Clear` and
  `Verify` are guarded by `~locked`.
- The pager's `setTimeout` is the action `Wire`; until it runs, Prev and
  Next do nothing.

**Keygen.**
- `held` is which of the three DKG permissions `Auth.permissions` grants. It
  is chosen in `Init` and fixed: a logout navigates away from the page.
- The date inputs hold `Empty`, `NaN` or a time in milliseconds;
  `BuildNotAfter` is `buildNotAfterFromDate` with JavaScript's floor.
- A key id empty after trim is `NoKeyId` (`""`).
- Only the submit button is disabled during `dkgGenerate`; every other
  control stays enabled, so `Edit` and `Reset` may run between `Submit` and
  its `Answer` or `Fail`.
- Curve and asset owner are carried data and left out; notifications keep
  only their kind and the mode they name.

**System.**
- A getSystem answer is a record: `id`, `state`, `peers` (a map from some
  ids to raw states), `totalPeers`, `threshold`. A count is a number,
  `None` (missing) or `Bad` (a value `Number()` turns into NaN).
- `Upper` is `toUpperCase` on the spellings used. `NumberOr(v, f)` is
  `Number(v) || f`: a positive number stays, and 0, NaN and null give `f`.
- `Render` is what the rest of `load()` writes from one answer: counts,
  rows, capability. The rows are a set, since their sort is layout.
- A load is a record: its number, the visit it belongs to, and what the
  server answered (`None` until `Serve`). The server may answer any
  snapshot, as peers come and go. `Answer` and `Fail` may take any load,
  so answers arrive in any order.
- A visit is one rendering of the page. `Live(l)` holds when a load's visit
  is on screen. A load of a left visit still runs `clearAlerts` or
  `showAlert`, which are global. Its other writes go to detached elements.
- `okDone` is a ghost: the loads of this visit whose answer was rendered.
- The permission check's early return leaves an inert page. It is not
  modelled.

**Unseal** (`Unseal`, `MC_Unseal`).
- `Init` is the state right after `navigate()` called `init()`. Three cases:
  - without a subject, the page has set `#/login`;
  - without DOMPurify, `init()` has thrown and `navigate()` shows a danger
    alert;
  - otherwise `phase = "boot"`, awaiting the first `safeStatus`.
- `BootStatus` and `BootFail` are the two ends of that `safeStatus`.
  `BootStatus` shows the state and the progress. It takes the two early
  returns (not SEALED, `sealedBy` not shamir once lowercased). Otherwise it
  sets `phase = "ready"`: the listener is attached.
- A text is the list that `split("\n")` gives. A line is a share or
  `Blank`, since `trim` is not told apart. `Click` is the whole listener up
  to the `systemUnseal` await. It clears the status text, refuses an empty
  list with a danger alert, and sends `payload64` and `payloads64`. `sent`
  records each body with its text.
- A click in flight is at stage `unseal` or `status`. `UnsealAnswer` shows
  the warning and renders `res?.data ?? res`, then starts the second
  `safeStatus`. `UnsealFail` is the catch's danger alert. `StatusAnswer`
  takes an answer or `None`, a failed `safeStatus` whose alert
  `clearAlerts()` removes in the same step.
- The button is never disabled, so `Click` may run while other clicks are
  in flight.
- `Leave` is `navigate()` to another page. It is the only action that
  changes `hash` apart from the redirect, which `StatusAnswer` makes from
  whatever page is on screen.
- `RenderProgress` keeps the kind of what `progEl` shows and, for the
  Shamir bar, its numbers. `Pct` is `pct` with `Math.round` as
  floor(x + 1/2). The escaping of the JSON branch is left out.
- `RenderProgress`, `ProgressOf` and `BootStatus` are `CASE`s whose guards
  are exclusive. The code's early returns make the first arm that matches
  win, and a `CASE` with overlapping guards would leave the arm open.

## Runs

| run | checks | result |
|---|---|---|
| `ps_main` | `TypeOK`, `ResultCorrect`, `CacheFIFO`, `EngineAlwaysMatchesSpec` | pass |
| `auth_main` | `TypeOK`, `LoadedImpliesBuilt` | pass |
| `auth_subject_mismatch` | `SubjectMatchesPermissions` | violation (finding) |
| `auth_stale_answer` | `AuthMatchesToken` | violation (finding) |
| `inv_main` | `TypeOK`, `ShownListExact`, `HistPageInRange` | pass |
| `inv_hist_duplicates` | `HistRowsExact` | violation (finding) |
| `router_main` | `TypeOK`, `GateEnforced` | pass |
| `router_lost_hashchange` | `SettledViewMatchesHash` | violation (finding) |
| `audit_main` | `TypeOK`, `CountMatchesSent`, `BatchPageInRange` | pass |
| `keygen_main` | `TypeOK`, `HintMatchesMode`, `RefinesDkgRequest`, `ButtonReenabled` | pass |
| `system_main` | `TypeOK`, `BadgeSettles`, `CardReadyMeansAllReady` | pass |
| `unseal_main` | `TypeOK`, `SharesSentAsTyped`, `SentOnlySealedShamir`, `ProgressBarHonest`, `OutcomeShown` | pass |

**Bounds.**
- `ps_main` uses:
  - characters `a`, `b`;
  - nine patterns, including the refused `a.**` and `*a*`, a deny rule `-`
    with no segments and the empty-piece pattern `a..*`;
  - every grant list of up to two patterns, and a non-string grant;
  - seven queries, including `""`, a non-string and `a..b`. `a..b` is the
    same path as `a.b` but a different cache key.
  - `CacheMax = 2` and at most four evaluations (`MissesBound`). So
    eviction happens, and a hit on an old entry followed by an eviction
    happens too.
- `ps_main` also compares the compiled engine with the glob reference
  `GlobMatch`. `GlobMatch` is an existential split of the segment around its
  star. The comparison is made on:
  - every one-segment pattern of up to three characters over `a`, `b`, `*`,
    as an allow rule and as a deny rule under `*`;
  - every permission of up to three characters, and multi-segment and empty
    paths.

  `EngineAlwaysMatchesSpec` checks the comparison on the initial states,
  where every grant list is a value of `grants`. It also checks
  `[][UNCHANGED grants]_vars`, so the comparison holds in every later
  state too. Comparing in every state directly would take about eleven
  minutes, for the same answer.
- `auth_main` has two tokens, one of whose grant lists fails to compile, and
  `MaxRequests = 5`. The login guard `Committed + 2 <= MaxRequests` reserves
  room for the follow-up `hydrateMe`. That is enough for a boot request, a
  logout, two logins and their hydrates to interleave.
- `inv_main` has:
  - three keys;
  - a logicalId filter that drops one of them;
  - an owner filter;
  - a page size of one;
  - three historical generations shown one per page;
  - at most eight requests (`FetchBound`).

  So a list needs several pages, and refreshes, filter changes, failures and
  the historical pager interleave.
- `router_main` has seven routes (the six the gate names and one guarded
  page), the empty and an unknown hash, every keeper state, and the `unseal`
  permission only, so both a permitted and a refused redirect happen. At
  most three handlers are in flight and two hashchanges queued
  (`EventBound`): enough for boot's handler, a click's handler and a gate
  redirect's handler to overlap.
- `audit_main` has every text of up to three lines over the five kinds,
  `Cap = 2` and one invalid entry per page. So texts longer than the cap, a
  bad line past the cut, single and batch answers, and a two-page pager all
  occur.
- `keygen_main` has an empty and a non-empty key id, every subset of the
  three permissions, and date inputs empty, unparsable, `500` (under a
  second) and `2500` ms. This reaches each branch of
  `buildNotAfterFromDate` that can differ. The epoch `0` is left out: it
  gives null as `500` does, and a fifth date makes the liveness check
  take 60% longer. The run does not check deadlock: with no DKG
  permission every control of the form is disabled (keygen.js 117-123), and
  that page really has nothing left to do.

- `system_main` has two visits and three `load()` calls, so the initial
  load and two Refreshes overlap, and a load outlives its visit. It has
  five answers (`MCAnswers`):
  - one per capability;
  - an explicit `totalPeers` of 0 over a `NOT_READY` peer;
  - `Bad` counts;
  - lowercase states;
  - a node not among its peers, and one without an id.

  Each answer's positive `totalPeers` counts the peers it lists. The run
  does not check deadlock: once the bounds are spent and the loads are
  over, the page really is idle.

- `unseal_main` allows two clicks, so two clicks overlap at either stage.
  Its other inputs:
  - every text of one to three lines over two shares and `Blank`, which
    covers a blank first line and a trailing newline;
  - four statuses: SEALED by `Shamir` (case), SEALED by another flow,
    UNSEALED, and SEALED by `shamir` with no progress count;
  - six `systemUnseal` answers: `null`, one with a warning, more shares
    than the threshold, threshold 0 with one share, 199 shares of a
    threshold of 200 (a bar that `Math.round` fills one share early), and
    an answer without `data`.

  It reaches 2,658,262 distinct states in under a minute. It does not check
  deadlock: once the clicks are spent and answered, the page waits for the
  user.

**Fairness.** Only `keygen_main` assumes fairness. It checks `FairSpec`,
which is `Spec /\ WF_vars(Answer \/ Fail)`: every `dkgGenerate` settles,
because the call resolves or rejects. That is the network's promise, and
api.js is not part of the repository. Editing, clicks and the other runs'
answers get no fairness, since a user may stop and a request may be slow.

## Properties

- `ResultCorrect`: every call returns the allow/deny evaluation, whatever the
  cache holds.
- `CacheFIFO`: the cache's keys are the last `CacheMax` evaluated keys,
  oldest first. So a hit never refreshes an entry, and the eviction removes
  the oldest insertion exactly when the bound is exceeded.
- `EngineAlwaysMatchesSpec`: the compiled engine decides as the glob
  reference (`EngineMatchesSpec`), and in every state, since the compiled
  patterns never change.
- `LoadedImpliesBuilt`: `Auth.loaded` is set exactly when the permissions were
  built from a grant list that compiled.
- `SubjectMatchesPermissions` and `AuthMatchesToken` are the two
  consistencies that spec.md sections 3, 4.3 and 7 promise and the code
  breaks (see below).
- `ShownListExact`: the rendered key list is exactly the owner's items among
  the server's first `cursor` items, and "End of list." means it is complete.
- `HistPageInRange`: the historical table's page is in 1..pages.
- `HistRowsExact`: the historical rows are the server's rows up to the
  cursor, each shown once.
- `GateEnforced`: a guarded page is on screen only while the keeper is
  unsealed, across boot, clicks, redirects, logouts and the answers of
  `getStatus` and the page fetches in any order.
- `SettledViewMatchesHash`: once no handler is in flight and no hashchange is
  queued, the title and the page are those of `location.hash` (or the view is
  empty after a failed fetch).
- `CountMatchesSent`: a verify request carries exactly the count the counter
  shows, and only while the counter is not red. It ties the two loops' cuts
  together and the lock to the input.
- `BatchPageInRange`: the invalid-entries pager shows a page in 1..pages.
- `RefinesDkgRequest`: the DKG form implements the abstract `DkgRequest`
  under the mapping
  - `allowed` = the modes `isModeAllowed` accepts,
  - `busy` = `inflight > 0`, `sent` = `body`, `told` = `note`.

  A click that sends is `Send`: no request pending, a well-formed body for
  an allowed mode. An answer or a failure is `Reply`, and its outcome names
  the mode of the request sent. Reset is `Dismiss`. Editing and refused
  clicks are stutters. This is checked as the temporal PROPERTY
  `Dkg!Spec`. It implies the invariants `OneInFlight`, `SentAuthorized` and
  `NoteNamesSentMode` of `Keygen`, which the run therefore no longer checks
  one by one; they are proved below.
- `HintMatchesMode`: on a permitted page, the mode hint is shown exactly when
  the selected mode is not allowed, including after reset.
- `ButtonReenabled` (liveness, under `FairSpec`): on a page with a DKG
  permission, a disabled submit button is enabled again. The `finally` of
  keygen.js line 202 does it on both success and failure. No invariant
  sees a re-enable that is missing on the failure path: the form is then
  stuck, but every state is still correct.

- `BadgeSettles`: once no load of the page on screen is pending, its
  badge no longer says LOADING, whatever the overlap and failures.
- `CardReadyMeansAllReady`: "Ready" is shown only when every listed peer is
  READY, through the zero, missing and NaN count fallbacks.
- `AlertFromShownPage`, `ShowsLatestAnswer` and `OneCapabilityAlert` state
  what the system page's structure intends and the code breaks (findings
  5-7). No run checks them. Checking any one of them with `MC_System.cfg`
  in place of its invariants gives the trace below, at depth 4 to 6.

- `SharesSentAsTyped`: every body sent carries the share lines of its text,
  in order, and no blank one.
- `SentOnlySealedShamir`: shares are sent only from a page whose status
  said SEALED and shamir.
- `ProgressBarHonest`: the Shamir bar is empty when the threshold is 0 and
  full once a positive threshold is reached. For a threshold below 200 it
  is full only then. From 200 on, `Math.round` fills it at `threshold - 1`
  shares (finding 11), which the run's threshold-200 answer reaches. So
  the "only then" conjunct is stated for `1..199`.
- `OutcomeShown`: once a click was made and none is in flight, the page on
  screen shows a status text or an alert, however the clicks overlap.

## Findings

1. **Subject set before the permissions compile** (`auth_subject_mismatch`).
   - `Auth.load` assigns `subject` on auth.js line 167, and the constructor on
     line 168 can then throw.
   - The login form's catch only clears the token.
   - TLC's trace: boot with no token, save a token whose list contains `**`,
     and `Auth.subject` is that user. Meanwhile `loaded` is false and the
     permissions are empty.
2. **Stale identity answer** (`auth_stale_answer`).
   - `load()` applies whatever answer arrives.
   - TLC's trace: boot with a token sends `getMe`, the user logs out (the
     handler is wired first), and the answer then sets `loaded` and the
     permissions with no token stored.
   - A newer login can be overwritten the same way.
3. **Duplicate historical rows** (`inv_hist_duplicates`).
   - The historical "Load more" button is not disabled while its request is
     in flight.
   - Two clicks send the same cursor twice, and the page's rows are pushed
     twice.
4. **Lost hashchange during boot** (`router_lost_hashchange`).
   - `boot()` adds its hashchange listener only after the first `navigate()`
     has awaited the page HTML and the module's `init()` (ui.js 46-51).
   - TLC's trace: boot on an exempt route starts fetching its page, the user
     follows a link, the hashchange is dispatched with no listener, and boot
     finishes. The console stays on the first page while the address bar
     shows another.
   - A logout click in that window (its handler is wired first) is lost the
     same way.

5. **Error alert on the wrong page** (`AlertFromShownPage`).
   - `load()`'s catch (system.js 57) calls the global `showAlert`.
   - TLC's trace: visit the system page, leave it while `getSystem` is
     pending, and the request fails. The system page's danger alert then
     shows on the other page.
   - A late success likewise runs `clearAlerts()` (line 62) and wipes the
     other page's alert.
6. **Older answer overwrites newer** (`ShowsLatestAnswer`).
   - Refresh calls `load()` with no guard and no sequence check.
   - TLC's trace: the initial load and a Refresh are both pending, and the
     Refresh's answer arrives first. The initial load's older answer then
     replaces it.
7. **Two capability alerts** (`OneCapabilityAlert`).
   - `load()` empties the alert box before its await, and the answer
     appends after it.
   - With two loads pending, both append. The box can say READY and
     UNAVAILABLE at once.

8. **"Still sealed" after an unknown status** (unseal.js 79-86).
   - The second `safeStatus` fails. Its danger alert is removed at once by
     `clearAlerts()` on line 85, and the page says "Submitted. Keeper still
     sealed." The state is unknown and may be UNSEALED.
   - Trace in the model: `BootStatus` (SEALED, shamir), `Click`,
     `UnsealAnswer`, `StatusAnswer(None)`.
   - No run checks this. The hazard list records it.
9. **Redirect from another page** (unseal.js 82).
   - `location.hash = "#/welcome"` is set when the status answer arrives,
     whatever page is on screen.
   - Trace: `Click`, `Leave`, `UnsealAnswer`, then `StatusAnswer` with
     UNSEALED. The user is taken from the page they opened to the welcome
     page.
10. **An older failure logs a newer login out** (`StaleAnswerKeepsToken`).
   - The catches of `hydrateMe` (ui.js 83) and of the token form call
     `api.clearToken()` whatever token their request carried.
   - TLC's trace, with `MC_AuthContext.cfg` checking the action property
     `StaleAnswerKeepsToken` in place of its invariants: boot without a
     token, Save `t1`, Save `t2` while `t1`'s `getMe` is pending, then
     `t1`'s `getMe` fails. The token `t2` is cleared, though its own request
     is still pending.
   - No run checks it. The hazard list records it.
11. **The progress bar is full one share early** (unseal.js 99-103).
   - `Math.round(progress / threshold * 100)` is 100 as soon as
     `200 * progress >= 199 * threshold`. For a threshold of 200 or more,
     `threshold - 1` shares give 100%.
   - The theorem `BarFullBeforeThreshold` proves `Pct(200, 201) = 100`.
     No code bounds the threshold the server reports.
   - `ProgressBarHonest` therefore asks "full only when reached" only for
     thresholds below 200. `ProgressBarAlwaysHonest` proves it for every
     answer. The lemma `PctFullIff` gives the exact condition for a full
     bar.

## Proofs

`PermissionSetProofs` proves, for every value of the constants:
- `TypeCorrect`: `Spec => []TypeOK`.
- `CacheTransparent`: `Spec => []ResultCorrect`.

`ResultCorrect` alone is not inductive, because a cache hit returns a stored
value. The invariant `IInv` adds two things:
- `CacheSound`: every cached value is the evaluation of its key.
- `OpInv`: a loop in progress has a prefix of its list behind it, and every
  element of that prefix gave the answer that does not stop the loop.

`IInv` is checked by TLC too. The proof has one step per action, and lemmas
cover:
- what `Remember` keeps (`RememberEntries`, on `SubSeq`, `Append` and `Tail`);
- the types and the soundness of a `has()` step (`HasTypes`, `HasSound`).

The assumptions used are `CacheMax \in Nat \ {0}` and
`QueryLists \subseteq Seq(Queries)`.

`KeygenProofs` proves, for every set of key ids and date inputs:
- `TypeCorrect`: `Spec => []TypeOK`;
- `SubmitExclusive`: `Spec => []OneInFlight`;
- `RequestsAuthorized`: `Spec => []SentAuthorized`;
- `NoteMode`: `Spec => []NoteNamesSentMode`;
- `HintCorrect`: `Spec => []HintMatchesMode`;
- `KeygenRefinesDkg`: `Spec => RefinesDkgRequest`, the refinement.

All six follow from one inductive invariant `IInv`.
`OneInFlight` alone is not inductive: a state with one request in flight
and an enabled button would allow a second one. `IInv` adds that a request
in flight keeps the button disabled and has a body, the body its answer's
notification reads. The lemma `BuildNotAfterPositive` shows that
`buildNotAfterFromDate` returns null or a positive number of seconds for
every date (integer floor division). `BodyWellFormed` shows that the submit
body is well typed. The step proof has one case per action, and under each
one step for the type halves (`FormOK`, `ReqOK`) and one for the
properties. The assumptions are `KeygenAssumption` (dates are `Empty`,
`NaN` or integers; `None` is not a date) and `KeyIdsAssumption` (the empty
key id is a possible input). Each is cited only in the steps that need it.

`KeygenRefinesDkg` has the refinement's two halves:
- `Init` maps to `Dkg!Init`.
- Under `IInv`, every step of `Next` maps to a step of `Dkg!Next` or a
  stutter. The lemma `AllowedFixed` shows that the mapped `allowed` never
  changes. A sending `Submit` is `Send`. `IInv` gives `inflight = 0` from
  the enabled button, and `BodyWellFormed` puts the body in
  `WellFormedBodies`. `Answer` and `Fail` are `Reply`, since `OneInFlight`
  makes `inflight - 1` zero. `Reset` is `Dismiss`.

The temporal step combines these with `IInvInductive` by PTL.

`AuditProofs` proves `PagerInRange`: `Spec => []BatchPageInRange`, for
every cap, page size and set of texts. `BatchPageInRange` is not inductive
alone: the Prev and Next steps need the page and the total to be natural
numbers. The invariant `PagerInv` adds the types of the input, the result,
the request and the pager. It leaves out the counter, which no pager step
reads. `PagesPositive` shows that `Math.max(1, ceil(n / perPage))` is a
positive page number. `VerifyCounts` shows that the counts a Verify step
sends are natural numbers. Both use `PerPage \in Nat \ {0}` and the
finiteness of a subset of a sequence's domain (`FS_Interval`,
`FS_Subset`). An answer puts the pager on page 1, which is within range
because the page count is at least 1. Prev keeps the page above 0 by its
guard. Next keeps it at most the page count by its guard.

`SystemProofs` proves `BadgeSettlesAlways`: `Spec => []BadgeSettles`, for
every set of answers and every bound. The invariant `BInv` adds that the
loads are records with a number and a visit, and that `visit` and
`nextLoad` are natural numbers. With those, `BadgeSettles` is inductive.
- A new visit or a Refresh adds a load of the visit on screen.
- A live answer writes a capability, which is never LOADING
  (`CapNotLoading`).
- A live failure writes UNAVAILABLE.
- An answer or failure that is not live removes a load of another visit,
  or runs while another page is on screen.

`PermissionSetProofs` also proves `CacheIsFIFO`: `Spec => []CacheFIFO`,
for every `CacheMax`. `TypeOK /\ CacheFIFO` is inductive:
- A blank key or a hit changes neither the cache nor the misses.
- A miss appends to both. The lemma `RememberFIFO` shows that `_remember`
  keeps the keys equal to the window of the last `min(Len(misses),
  CacheMax)` misses. Past the bound, `Tail` drops exactly the key that the
  longer window leaves out.
- `WindowFacts` and `KeysFacts` give the length and the elements of both
  sides. `SeqEqual` closes each case.

`AuthContextProofs` proves `AuthTypeCorrect` (`Spec => []TypeOK`) and
`LoadedOnlyWhenBuilt` (`Spec => []LoadedImpliesBuilt`), for every request
budget. `TypeOK` is not inductive alone. A new request takes the id
`nextId + 1`, and `nextId` stays within `MaxRequests` only because the
committed requests are counted. The invariant `AuthInv` adds:
- `pending` is finite;
- every pending id is at most `nextId`;
- at "start", no request exists;
- `Committed <= MaxRequests`.
Lemmas count the login requests of `pending` before and after a request
is added or removed (`LoginReqsAdd`, `LoginReqsRemove`).

`RouterProofs` proves `RouterTypeCorrect` (`Spec => []TypeOK`) and
`GuardedPagesNeedUnsealed` (`Spec => []GateEnforced`).
`GateEnforced` is not inductive: a handler still fetching a guarded page
renders it later. `RouterInv` adds `PendingGuardedUnsealed`: a handler of a
guarded route that has yet to fetch or render exists only while the
status is UNSEALED. The proof needs `RouterAssumption`'s new conjunct
`"none" \notin Routes`: the empty view is no route.

`UnsealProofs` proves `SharesOnlyToSealedShamir`
(`Spec => []SentOnlySealedShamir`) and `ClickOutcomeShown`
(`Spec => []OutcomeShown`). Both use `UnsealInv`, which adds two facts:
- the handler is attached (phase "ready") only after a SEALED, shamir
  status;
- shares are sent only from phase "ready".
The proof needs the new conjuncts of `UnsealAssumption`: `None` is no
status, no alert kind and no number.

For the bar, `DivAtLeast` and `PctFullIff` state what `Pct` computes with
integer division. `PctFullWhenReached` gives a full bar at any reached
threshold, and `PctFullSmall` gives "full only when reached" below 200.
`ProgressBarAlwaysHonest` proves `Spec => []ProgressBarHonest`. Its
hypothesis is only that the status and unseal answers are well formed:
each progress record is in `Progress`, with numbers or null.
`BarFullBeforeThreshold` shows why the last conjunct stops at 199
(finding 11).

`SystemProofs` also proves `ReadyCardAllPeersReady`
(`Spec => []CardReadyMeansAllReady`). Its hypothesis `CountsHonest` says
that every answer's positive `totalPeers` is at least the number of peers
it lists. Without it a "Ready" card can have a peer that is not ready:
`readyCount >= totalPeers` is then met too early. `RowsFinite` shows that
the peer table is finite, by `FS_Surjection`. `RenderReadyAllReady` shows
the step.

`InventoryProofs` proves `HistPageAlwaysExists`
(`Spec => []HistPageInRange`), for every page size and history. `HistInv`
adds the types of the rows, the cursor and the requests in flight.
`ServerPageGens` shows, with `SubSeqProperties`, that the rows
`fetchMore()` pushes are generations. It uses `InventoryAssumption`'s new
conjunct: `HistList` is a finite sequence.

`AuditProofs` also proves `VerifySendsCounted`
(`Spec => []CountMatchesSent`) and `AuditTypeCorrect`
(`Spec => []TypeOK`), for every cap and page size. The count of non-blank
lines up to the cap is a fold, but it needs no induction:
- `NonBlankUpTo` is strictly increasing on the non-blank lines
  (`NonBlankStrict`), so the numbering of those lines is injective
  (`NumberingInjective`).
- The lines numbered at most `Cap` map injectively into `1..Cap`, and the
  others into `(Cap+1)..n`. `FS_Injection` and `FS_Union` then give
  `ConsideredCount`: the lines the parser considers are exactly
  `Count(s).n`, at most `Cap` (`CountType`, `RequestBounded`).
- The inductive invariant `CountInv` says that the counter is `Count` of
  the input, and that a locked request is `ReqOf` of the input and was sent
  with no parse error (`VerifyMatchesCount`). It was checked by TLC first,
  with `Cap = 2, PerPage = 1` and with `Cap = 1, PerPage = 2`.
- `StepCount` proves the step under `PagerInv`, which is already proved
  invariant; the PTL step cites both. `TypeFromParts` assembles `TypeOK`
  from `CountInv`, `PagerInv` and the count bounds.

`SystemProofs` also proves `SystemTypeCorrect` (`Spec => []TypeOK`). The
invariant `SInv` adds that the system page is shown only after a visit
(`visit >= 1`). `RowsTyped` and `RenderTyped` show that the peer table
and the card built from any answer are typed. Two conjuncts of
`SystemAssumption` are used, both facts about the answers rather than
about the code: an answer lists finitely many peers (a JSON object has
finitely many keys), and `None` (null) is not one of the state strings.
With the first, `CountsHonest` keeps only the `totalPeers` hypothesis.

Only model-checked:
- `EngineAlwaysMatchesSpec`, `Inventory`'s `ShownListExact` and
  `Unseal`'s `SharesSentAsTyped`. Each says what `SelectSeq` computes over
  a concatenation or a whole list. That needs induction over data, which
  the installed provers cannot do, and `SequenceTheorems` has no
  `SelectSeq` lemmas.
- The `TypeOK` invariants of `Unseal` and `Inventory`. Each includes a
  `SelectSeq` result: the shares of `filter(Boolean)` in `Seq(Shares)`,
  and the kept list in `Seq(Ids)`. Those memberships need the same
  induction.
- `ButtonReenabled`, the one liveness property. Liveness and `ENABLED`
  are beyond TLAPS here; TLC checks it under `FairSpec`.

## Not modelled

- The OIDC flow and `api.initAuth`.
- HTML rendering, escaping (DOMPurify) and time formatting.
- The `Permission` string templates (`fmt`).

- In `Router`: `applyNavPermissions` and `setActiveNav` (link styling), and
  the pages' own `init` beyond "it returns or throws".
- In `Audit`: the "Unexpected verification response" branch and the error
  table's 50-row slice.

- In `System`: the access-denied early return, the peer sort, the rows'
  HTML and `renderThisPeer`.

- In `Unseal`: what the server does with the shares (its answers are
  chosen from a set), so the order of progress answers is not compared
  with a count. Also the escaping of the JSON progress, and a revisit of
  the page.

PROJECT.json lists each component with its status.

## Plan

Next, in order:
1. Proofs:
   - `Unseal`'s and `Inventory`'s `TypeOK`, `SharesSentAsTyped` and
     `ShownListExact` stay with TLC until a prover that does induction over
     sequences is available.
