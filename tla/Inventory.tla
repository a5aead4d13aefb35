------------------------------ MODULE Inventory ------------------------------
(***************************************************************************)
(* The paging of inventory.js: the key list, fetched 'limit' items at a    *)
(* time with the lastSeen cursor and locked by the 'loading' flag while a  *)
(* page is in flight, and the historical table of one key's card, fetched  *)
(* the same way by fetchMore() with no such lock and shown 'perPage' rows  *)
(* per page.                                                               *)
(*                                                                         *)
(* Items are model values; the list the server holds for a filter is a     *)
(* sequence, and a cursor is the position of the last item returned (0 is  *)
(* null).  The owner filter is applied by the page to what the server      *)
(* returned.  Requests are answered in any order, or fail.                 *)
(***************************************************************************)
EXTENDS Naturals, Sequences, SequencesExt

CONSTANTS Ids,        \* inventory items (their logicalIds)
          Filters,    \* the logicalId filters a user may apply
          Owners,     \* the owner filters a user may apply
          NoFilter,   \* the null filter (currentFilter, currentOwner)
          ServerList, \* the items the server lists for each filter, in order
          OwnedBy,    \* the items each owner filter keeps
          HistId,     \* the item whose historical table is modelled
          HistList,   \* the generations the server holds for HistId
          Limit,      \* page size of getInventory (200 in the code)
          PerPage     \* rows per page of the historical table (50)

ASSUME InventoryAssumption ==
  /\ NoFilter \in Filters /\ NoFilter \in Owners
  /\ ServerList \in [Filters -> Seq(Ids)]
  /\ OwnedBy \in [Owners \ {NoFilter} -> SUBSET Ids]
  /\ HistId \in Ids
  /\ HistList \in Seq(Range(HistList))   \* a finite list of generations
  /\ Limit \in Nat \ {0} /\ PerPage \in Nat \ {0}

VARIABLES filter, owner,   \* currentFilter, currentOwner
          list,            \* the items rendered in #tk-inv-list, in order
          cursor, hasMore, \* cursor, hasMore
          endShown,        \* the footer reads "End of list."
          loading,         \* loading (and lock(): every control disabled)
          inflight,        \* getInventory calls of loadPage in flight
          hVisible,        \* the histbox of HistId is shown
          hLoaded,         \* its data-loaded attribute
          hBox,            \* what it holds: "none", "loading", "table", "error"
          hRows,           \* state.rows of loadHistorical
          hCursor, hHasMore, hPage, \* hCursor, hHasMore, state.page
          hInflight,       \* getInventory calls of fetchMore in flight
          sent             \* requests sent so far (bounded by the MC module)

mainVars == <<filter, owner, list, cursor, hasMore, endShown, loading, inflight>>
histVars == <<hVisible, hLoaded, hBox, hRows, hCursor, hHasMore, hPage, hInflight>>
vars == <<mainVars, histVars, sent>>

\* What the server answers to lastSeen = cur (the backend is not part of
\* this repository: its cursor contract is assumed).
ServerPage(s, cur) ==
  SubSeq(s, cur + 1, IF cur + Limit < Len(s) THEN cur + Limit ELSE Len(s))
NextCursor(s, cur) ==
  IF ServerPage(s, cur) = <<>> THEN 0 ELSE cur + Len(ServerPage(s, cur))
ServerHasMore(s, cur) == cur + Len(ServerPage(s, cur)) < Len(s)

\* The owner filter of loadPage: items.filter(... includes(q)).
Keeps(o, id) == o = NoFilter \/ id \in OwnedBy[o]
KeptBy(o, s) == SelectSeq(s, LAMBDA id : Keeps(o, id))

\* Math.max(1, Math.ceil(total / perPage)).
Pages(n) == IF n = 0 THEN 1 ELSE (n + PerPage - 1) \div PerPage

\* The card of HistId is re-created: its histbox is empty and hidden, and
\* answers to the old box's fetches land in a detached node.
NoHist == /\ hVisible' = FALSE /\ hLoaded' = FALSE /\ hBox' = "none"
          /\ hRows' = <<>> /\ hCursor' = 0 /\ hHasMore' = FALSE /\ hPage' = 1
          /\ hInflight' = {}

\* loadPage({append}) up to its await: lock, then getInventory(cursor).
LoadPage(append, cur, f) ==
  /\ loading' = TRUE
  /\ inflight' = inflight \cup {[id |-> sent + 1, append |-> append, cur |-> cur, f |-> f]}
  /\ sent' = sent + 1

\* reload(): forget the cursor, empty the list and the footer, loadPage.
Reload(f) ==
  /\ cursor' = 0 /\ hasMore' = FALSE /\ list' = <<>> /\ endShown' = FALSE
  /\ LoadPage(FALSE, 0, f)
  /\ NoHist

\* init() ends with "await reload()".
Init ==
  /\ filter = NoFilter /\ owner = NoFilter
  /\ list = <<>> /\ cursor = 0 /\ hasMore = FALSE /\ endShown = FALSE
  /\ loading = TRUE
  /\ inflight = {[id |-> 1, append |-> FALSE, cur |-> 0, f |-> NoFilter]}
  /\ hVisible = FALSE /\ hLoaded = FALSE /\ hBox = "none" /\ hRows = <<>>
  /\ hCursor = 0 /\ hHasMore = FALSE /\ hPage = 1 /\ hInflight = {}
  /\ sent = 1

\* The refresh button (disabled while loading).
Refresh ==
  /\ ~loading
  /\ Reload(filter)
  /\ UNCHANGED <<filter, owner>>

\* The apply button, or Enter in a filter field (disabled while loading).
Apply(f, o) ==
  /\ ~loading
  /\ filter' = f /\ owner' = o
  /\ Reload(f)

\* The clear button: both filters null, reload.
Clear ==
  /\ ~loading
  /\ filter' = NoFilter /\ owner' = NoFilter
  /\ Reload(NoFilter)

\* Mutant: the "more" handler without its loading check.
MoreNoGuard ==
  /\ hasMore
  /\ LoadPage(TRUE, cursor, filter)
  /\ UNCHANGED <<filter, owner, list, cursor, hasMore, endShown, histVars>>

\* The "more" button: "if (!hasMore || loading) return", then loadPage.
More ==
  /\ hasMore /\ ~loading
  /\ LoadPage(TRUE, cursor, filter)
  /\ UNCHANGED <<filter, owner, list, cursor, hasMore, endShown, histVars>>

(***************************************************************************)
(* A page arrives: keep the owner's items, append them or replace the      *)
(* list, take nextCursor and hasMore, set the footer; finally unlock.      *)
(***************************************************************************)
PageOk(r) ==
  LET s    == ServerList[r.f]
      kept == KeptBy(owner, ServerPage(s, r.cur))
  IN  /\ list' = IF r.append THEN list \o kept ELSE kept
      /\ cursor' = NextCursor(s, r.cur)
      /\ hasMore' = ServerHasMore(s, r.cur)
      /\ endShown' = ~ServerHasMore(s, r.cur)
      /\ loading' = FALSE
      /\ inflight' = inflight \ {r}
      /\ UNCHANGED <<filter, owner, histVars, sent>>

\* The call throws, or the payload has no inventory: an alert, then the
\* finally block unlocks; list, cursor and hasMore stay as they were.
PageFails(r) ==
  /\ loading' = FALSE
  /\ inflight' = inflight \ {r}
  /\ UNCHANGED <<filter, owner, list, cursor, hasMore, endShown, histVars, sent>>

\* fetchMore() up to its await: getInventory(hCursor).
FetchMore(cur, first) ==
  /\ hInflight' = hInflight \cup {[id |-> sent + 1, cur |-> cur, first |-> first]}
  /\ sent' = sent + 1

(***************************************************************************)
(* "View historical" on the card of HistId: toggle the box; the first time *)
(* it becomes visible, mark it loaded and run loadHistorical().            *)
(***************************************************************************)
ToggleHist ==
  /\ \E i \in DOMAIN list : list[i] = HistId
  /\ hVisible' = ~hVisible
  /\ IF ~hVisible /\ ~hLoaded
     THEN /\ hLoaded' = TRUE /\ hBox' = "loading"
          /\ hRows' = <<>> /\ hCursor' = 0 /\ hHasMore' = FALSE /\ hPage' = 1
          /\ FetchMore(0, TRUE)
     ELSE UNCHANGED <<hLoaded, hBox, hRows, hCursor, hHasMore, hPage, hInflight, sent>>
  /\ UNCHANGED mainVars

\* The "Load more" button of the table: enabled when hHasMore, and not
\* disabled while a fetch is in flight.
HistMore ==
  /\ hVisible /\ hBox = "table" /\ hHasMore
  /\ FetchMore(hCursor, FALSE)
  /\ UNCHANGED <<mainVars, hVisible, hLoaded, hBox, hRows, hCursor, hHasMore, hPage>>

\* A fetch answers: push its rows, take nextCursor and hasMore, render()
\* (which clamps the page to the page count).
HistAnswer(r) ==
  LET rows == hRows \o ServerPage(HistList, r.cur)
      p    == IF hPage = 0 THEN 1 ELSE hPage
  IN  /\ hRows' = rows
      /\ hCursor' = NextCursor(HistList, r.cur)
      /\ hHasMore' = ServerHasMore(HistList, r.cur)
      /\ hPage' = IF p < Pages(Len(rows)) THEN p ELSE Pages(Len(rows))
      /\ hBox' = "table"
      /\ hInflight' = hInflight \ {r}
      /\ UNCHANGED <<mainVars, hVisible, hLoaded, sent>>

\* A fetch throws: the first one's catch shows the error in the box; a
\* later one (from the button's handler) is an unhandled rejection.
HistFails(r) ==
  /\ hBox' = IF r.first THEN "error" ELSE hBox
  /\ hInflight' = hInflight \ {r}
  /\ UNCHANGED <<mainVars, hVisible, hLoaded, hRows, hCursor, hHasMore, hPage, sent>>

\* Mutant: Prev without its "disabled on page 1".
HistPrevNoGuard ==
  /\ hVisible /\ hBox = "table"
  /\ hPage' = hPage - 1
  /\ UNCHANGED <<mainVars, hVisible, hLoaded, hBox, hRows, hCursor, hHasMore, hInflight, sent>>

\* Prev and Next (disabled at the first and the last page), then render().
HistPrev ==
  /\ hVisible /\ hBox = "table" /\ hPage > 1
  /\ hPage' = hPage - 1
  /\ UNCHANGED <<mainVars, hVisible, hLoaded, hBox, hRows, hCursor, hHasMore, hInflight, sent>>

\* Mutant: Next enabled on the last page too.
HistNextOffByOne ==
  /\ hVisible /\ hBox = "table" /\ hPage <= Pages(Len(hRows))
  /\ hPage' = hPage + 1
  /\ UNCHANGED <<mainVars, hVisible, hLoaded, hBox, hRows, hCursor, hHasMore, hInflight, sent>>

HistNext ==
  /\ hVisible /\ hBox = "table" /\ hPage < Pages(Len(hRows))
  /\ hPage' = hPage + 1
  /\ UNCHANGED <<mainVars, hVisible, hLoaded, hBox, hRows, hCursor, hHasMore, hInflight, sent>>

Next ==
  \/ Refresh \/ Clear \/ More
  \/ \E f \in Filters, o \in Owners : Apply(f, o)
  \/ \E r \in inflight : PageOk(r) \/ PageFails(r)
  \/ ToggleHist \/ HistMore \/ HistPrev \/ HistNext
  \/ \E r \in hInflight : HistAnswer(r) \/ HistFails(r)

Spec == Init /\ [][Next]_vars

-----------------------------------------------------------------------------
Request == [id : Nat \ {0}, append : BOOLEAN, cur : Nat, f : Filters]

TypeOK ==
  /\ filter \in Filters /\ owner \in Owners
  /\ list \in Seq(Ids) /\ cursor \in Nat
  /\ hasMore \in BOOLEAN /\ endShown \in BOOLEAN /\ loading \in BOOLEAN
  /\ inflight \subseteq Request
  /\ hVisible \in BOOLEAN /\ hLoaded \in BOOLEAN
  /\ hBox \in {"none", "loading", "table", "error"}
  /\ hRows \in Seq(Range(HistList)) /\ hCursor \in Nat /\ hHasMore \in BOOLEAN
  /\ hPage \in Nat \ {0}
  /\ hInflight \subseteq [id : Nat \ {0}, cur : Nat, first : BOOLEAN]
  /\ sent \in Nat

(***************************************************************************)
(* The key list shows exactly the owner's items among the server's first   *)
(* 'cursor' items for the current filter, in server order, with no item    *)
(* twice and none skipped; and "End of list." is shown only when the list  *)
(* holds all of them.  It rests on the loading lock (lines 93, 109, 154),  *)
(* on reload() resetting cursor with the list, and on a failed page        *)
(* leaving cursor and hasMore alone.                                       *)
(***************************************************************************)
ShownListExact ==
  /\ list = KeptBy(owner, SubSeq(ServerList[filter], 1, cursor))
  /\ endShown => cursor = Len(ServerList[filter])

(***************************************************************************)
(* The historical table shows a page that exists: 1 <= state.page <=       *)
(* pages, through Prev, Next and the rows that fetchMore() pushes (lines   *)
(* 226-233, 243-244, 273-274, 296).                                        *)
(***************************************************************************)
HistPageInRange == hBox = "table" => hPage \in 1..Pages(Len(hRows))

(***************************************************************************)
(* The historical rows are the server's generations up to hCursor, each    *)
(* once: fetchMore() passes lastSeen = hCursor so that each call returns   *)
(* the rows after those already shown.                                     *)
(***************************************************************************)
HistRowsExact == hRows = SubSeq(HistList, 1, hCursor)
=============================================================================
