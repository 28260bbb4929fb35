----------------------------- MODULE CatalogPage -----------------------------
(***************************************************************************)
(* The search page (CatalogPage.tsx).  Its address is what it searches     *)
(* for; the box and the filter bar hold drafts that reach the address when *)
(* the user submits or applies them, or 300 ms after the last key.         *)
(*                                                                         *)
(* A handler runs without interruption and is one action.  A change of the *)
(* address is not: BrowserRouter renders it in a transition, and until the *)
(* page with its effects is there (Arrive) the handlers see the address of *)
(* before, keys are typed and another change may take its place.  Between  *)
(* handlers the delayed search fires and the answers of searches and       *)
(* exports arrive, in any order.                                           *)
(*                                                                         *)
(* lost and typed of going are history variables.                          *)
(*                                                                         *)
(* The three fixed filters are one; the filters on uploaded columns, the   *)
(* options of both, the checked items and the row density are left out.    *)
(***************************************************************************)
EXTENDS ItemDrawer

CONSTANTS
  Texts,      \* what a user may type, beside the empty text
  Filters,    \* values a filter may have; Nothing is the empty text or none
  MaxPage,    \* bound: pages of a result
  MaxMoves,   \* bound: what the user does
  MaxFailures \* bound: requests that fail

ASSUME CatalogPageAssumption ==
  /\ Nothing \notin Texts \cup Filters
  /\ MaxPage \in Nat
  /\ MaxMoves \in Nat
  /\ MaxFailures \in Nat

Text == Texts \cup {Nothing}
Filter == Filters \cup {Nothing}

Draft == [q : Text, filter : Filter]

Address == [q : Text, filter : Filter, offset : 0..MaxPage, browse : BOOLEAN,
            item : Items \cup {New, Nothing}]

Landing == [q |-> Nothing, filter |-> Nothing, offset |-> 0, browse |-> FALSE,
            item |-> Nothing]

\* What the search effect depends on.
Query == [q : Text, filter : Filter, offset : 0..MaxPage, browse : BOOLEAN]

\* An answer: for which query, and whether it fills the page.
Result == [for : Query, size : {"empty", "part", "full"}]

NoResult == [for |-> Nothing, size |-> "none"]
NoExport == [for |-> Nothing, overtaken |-> FALSE]

\* A change of the address under way, whether the delayed search made it, and
\* (history) whether the text in the box was changed since.
Change == [to : Address, by : {"delay", "other"}, typed : BOOLEAN]

Settled == [to |-> Landing, by |-> "none", typed |-> FALSE]

VARIABLES
  address,    \* searchParams of the page that is shown
  going,      \* the change of the address that has yet to be shown
  lost,       \* history: the change that had the text in the box was replaced before
              \* it was shown, and nothing has come to search for the text since
  previous,   \* the entry before the one on top in the history of the browser
  draft,      \* draftQ and the drafts of the filters
  timers,     \* delayed searches: the text, and the address of their render
  requests,   \* searches under way; cancelled: a later effect has begun
  result,
  loading,
  error,
  exporting,  \* the export under way
  notice,     \* exportAllNotice: what the last export was for
  creating,   \* saves of a new item under way, with the address of their render
  moves,
  failures

searchVars == <<address, going, lost, previous, draft, timers, requests, result,
                loading, error, exporting, notice, creating>>

vars == <<searchVars, drawerVars, moves, failures>>

\* overtaken (history): the search changed while the export was under way.
Export == [for : Draft, overtaken : BOOLEAN]

TypeOK ==
  /\ address \in Address
  /\ going \in Change \cup {Settled}
  /\ lost \in BOOLEAN
  /\ previous \in Address
  /\ draft \in Draft
  /\ timers \subseteq [q : Text, base : Address]
  /\ \A t \in timers : t.q = draft.q
  /\ requests \subseteq [for : Query, cancelled : BOOLEAN]
  /\ result \in Result \cup {NoResult}
  /\ loading \in BOOLEAN
  /\ error \in BOOLEAN
  /\ exporting \in Export \cup {NoExport}
  /\ notice \in Export \cup {NoExport}
  /\ creating \subseteq [item : Items, base : Address]
  /\ DrawerTypeOK
  /\ moves \in 0..MaxMoves
  /\ failures \in 0..MaxFailures

Init ==
  /\ address = Landing
  /\ going = Settled
  /\ lost = FALSE
  /\ previous = Landing
  /\ draft = [q |-> Nothing, filter |-> Nothing]
  /\ timers = {}
  /\ requests = {}
  /\ result = NoResult
  /\ loading = FALSE
  /\ error = FALSE
  /\ exporting = NoExport
  /\ notice = NoExport
  /\ creating = {}
  /\ DrawerInit
  /\ moves = 0
  /\ failures = 0

-----------------------------------------------------------------------------
QueryOf(a) == [q |-> a.q, filter |-> a.filter, offset |-> a.offset, browse |-> a.browse]
DraftOf(a) == [q |-> a.q, filter |-> a.filter]

\* isResults
IsResults(a) == a.browse \/ a.q # Nothing \/ a.filter # Nothing

\* The search effect, when its query changes.
Searches(a) ==
  IF QueryOf(a) = QueryOf(address)
  THEN UNCHANGED <<requests, result, loading, error>>
  ELSE IF IsResults(a)
  THEN /\ requests' = Cancelled(requests) \cup {[for |-> QueryOf(a), cancelled |-> FALSE]}
       /\ loading' = TRUE
       /\ error' = FALSE
       /\ UNCHANGED result
  ELSE /\ requests' = Cancelled(requests)
       /\ result' = NoResult
       /\ UNCHANGED <<loading, error>>

\* WRONG (breaks TypeOK): the delayed search of another text goes on
FollowsOnly(a) ==
  /\ draft' = DraftOf(a)
  /\ notice' = IF DraftOf(a) = DraftOf(address) THEN notice ELSE NoExport
  /\ UNCHANGED <<timers, exporting, lost>>

\* The effects on the text and the filters: the drafts follow the address, a
\* delayed search is dropped when that changes the text in the box, and what
\* the last export said is taken back.
Follows(a) ==
  IF DraftOf(a) = DraftOf(address)
  THEN UNCHANGED <<timers, draft, exporting, notice, lost>>
  ELSE /\ draft' = DraftOf(a)
       /\ timers' = IF a.q = draft.q THEN timers ELSE {}
       /\ notice' = NoExport
       /\ exporting' = [exporting EXCEPT !.overtaken = exporting # NoExport]
       /\ lost' = FALSE

\* The entry of the browser's history that is on top.
Here == IF going = Settled THEN address ELSE going.to

\* setParams, or the history of the browser: the page to come is a's.
Goes(a, by) ==
  /\ going' = [to |-> a, by |-> by, typed |-> FALSE]
  /\ previous' = Here
  /\ lost' = (a.q # draft.q /\ (lost \/ (going # Settled /\ going.to.q = draft.q)))
  /\ UNCHANGED <<address, draft, requests, result, loading, error, exporting, notice,
                 drawerVars>>

GoesTo(a) == Goes(a, "other") /\ UNCHANGED <<timers, creating>>

\* The new address is rendered, and its effects run.
Arrive ==
  /\ going # Settled
  /\ address' = going.to
  /\ going' = Settled
  /\ Searches(going.to)
  /\ Follows(going.to)
  /\ Turns(address.item, going.to.item)
  /\ UNCHANGED <<previous, creating, moves, failures>>

Moves == moves < MaxMoves /\ moves' = moves + 1 /\ UNCHANGED failures

Hits == result # NoResult /\ result.size # "empty"

-----------------------------------------------------------------------------
(* The user.                                                                 *)

\* WRONG (breaks TypingIsKept): the delay of an earlier text goes on
DelayedToo(q) == timers \cup {[q |-> q, base |-> address]}

\* WRONG (breaks CatchesUp): nothing is searched for when the box is emptied
DelayedText(q) ==
  IF q \in {address.q, Nothing} THEN {} ELSE {[q |-> q, base |-> address]}

\* The effect on draftQ: one delayed search, unless the text is searched for
\* already.
Delayed(q) == IF q = address.q THEN {} ELSE {[q |-> q, base |-> address]}

\* A key in the box; Escape empties it.
Type(q) ==
  /\ Moves
  /\ q # draft.q
  /\ draft' = [draft EXCEPT !.q = q]
  /\ timers' = Delayed(q)
  /\ going' = [going EXCEPT !.typed = going # Settled]
  /\ lost' = FALSE
  /\ UNCHANGED <<address, previous, requests, result, loading, error, exporting, notice,
                 creating, drawerVars>>

\* A value is picked in the filter bar.
Pick(f) ==
  /\ Moves
  /\ IsResults(address)
  /\ f # draft.filter
  /\ draft' = [draft EXCEPT !.filter = f]
  /\ UNCHANGED <<address, going, lost, previous, timers, requests, result, loading, error,
                 exporting, notice, creating, drawerVars>>

\* onSubmit: Enter or the Search button
Submit ==
  /\ Moves
  /\ GoesTo([address EXCEPT !.q = draft.q, !.filter = draft.filter, !.offset = 0,
                            !.browse = draft = [q |-> Nothing, filter |-> Nothing]])

\* applyFilters
Apply ==
  /\ Moves
  /\ IsResults(address)
  /\ GoesTo([address EXCEPT !.filter = draft.filter, !.offset = 0])

Clear ==
  /\ Moves
  /\ IsResults(address)
  /\ GoesTo(Landing)

BrowseAll ==
  /\ Moves
  /\ ~IsResults(address)
  /\ GoesTo([address EXCEPT !.browse = TRUE, !.offset = 0])

OpenNew ==
  /\ Moves
  /\ address.item # New
  /\ GoesTo([address EXCEPT !.item = New])

\* Next and Previous, while a page is shown that is not being replaced.
TurnPage(offset) ==
  /\ Moves
  /\ IsResults(address) /\ Hits /\ ~loading
  /\ \/ offset = address.offset + 1 /\ result.size = "full"
     \/ offset + 1 = address.offset
  /\ GoesTo([address EXCEPT !.offset = offset])

\* openItem on a row that is shown, closeItem
OpenItem(i) ==
  /\ Moves
  /\ IsResults(address) /\ Hits /\ ~loading
  /\ GoesTo([address EXCEPT !.item = i])

CloseItem ==
  /\ Moves
  /\ address.item # Nothing
  /\ GoesTo([address EXCEPT !.item = Nothing])

\* The back button of the browser, or forward after it.
Back ==
  /\ Moves
  /\ previous # Here
  /\ GoesTo(previous)

\* onExportAll
BeginExport ==
  /\ Moves
  /\ IsResults(address) /\ Hits
  /\ exporting = NoExport
  /\ exporting' = [for |-> DraftOf(address), overtaken |-> FALSE]
  /\ notice' = NoExport
  /\ UNCHANGED <<address, going, lost, previous, draft, timers, requests, result, loading,
                 error, creating, drawerVars>>

\* The form for a new item is sent.
SaveNew(i) ==
  /\ Moves
  /\ address.item = New
  /\ creating' = creating \cup {[item |-> i, base |-> address]}
  /\ UNCHANGED <<address, going, lost, previous, draft, timers, requests, result, loading,
                 error, exporting, notice, drawerVars>>

-----------------------------------------------------------------------------
(* What happens by itself.                                                   *)

\* The delay is over: the parameters of the render that began it are written,
\* with its text and back on the first page.
Fire(t) ==
  /\ Goes([t.base EXCEPT !.q = t.q, !.offset = 0, !.browse = FALSE], "delay")
  /\ timers' = timers \ {t}
  /\ UNCHANGED <<creating, moves, failures>>

FireAny == \E t \in timers : Fire(t)

\* The answer of a search; a cancelled one is dropped.
Answer(r, size) ==
  /\ requests' = requests \ {r}
  /\ IF r.cancelled
     THEN UNCHANGED <<result, loading>>
     ELSE result' = [for |-> r.for, size |-> size] /\ loading' = FALSE
  /\ UNCHANGED <<address, going, lost, previous, draft, timers, error, exporting, notice,
                 creating, drawerVars, moves, failures>>

SearchFails(r) ==
  /\ failures < MaxFailures
  /\ failures' = failures + 1
  /\ requests' = requests \ {r}
  /\ IF r.cancelled
     THEN UNCHANGED <<result, loading, error>>
     ELSE result' = NoResult /\ loading' = FALSE /\ error' = TRUE
  /\ UNCHANGED <<address, going, lost, previous, draft, timers, exporting, notice, creating,
                 drawerVars, moves>>

AnswerAny == \E r \in requests, size \in {"empty", "part", "full"} : Answer(r, size)

\* An export that fails leaves a notice too, which claims nothing.
EndExport(done) ==
  /\ exporting # NoExport
  /\ exporting' = NoExport
  /\ notice' = IF done THEN exporting ELSE NoExport
  /\ failures' = failures + (IF done THEN 0 ELSE 1)
  /\ failures' <= MaxFailures
  /\ UNCHANGED <<address, going, lost, previous, draft, timers, requests, result, loading,
                 error, creating, drawerVars, moves>>

-----------------------------------------------------------------------------
\* onCreated: a new item opens once it is saved, whatever the drawer shows by
\* then, in the address of the render that sent it.
Created(c, done) ==
  /\ creating' = creating \ {c}
  /\ IF done THEN Goes([c.base EXCEPT !.item = c.item], "other")
             ELSE UNCHANGED <<address, going, lost, previous, draft, requests, result,
                              loading, error, exporting, notice, drawerVars>>
  /\ UNCHANGED <<timers, moves, failures>>

User ==
  \/ \E q \in Text : Type(q)
  \/ \E f \in Filter : Pick(f)
  \/ Submit \/ Apply \/ Clear \/ BrowseAll \/ OpenNew \/ CloseItem \/ Back \/ BeginExport
  \/ \E offset \in 0..MaxPage : TurnPage(offset)
  \/ \E i \in Items : OpenItem(i) \/ SaveNew(i)
  \/ Moves /\ DrawerUser(address.item) /\ UNCHANGED searchVars

Alone ==
  \/ Arrive
  \/ FireAny
  \/ AnswerAny
  \/ \E r \in requests : SearchFails(r)
  \/ \E done \in BOOLEAN : EndExport(done)
  \/ DrawerAlone /\ UNCHANGED <<searchVars, moves, failures>>

Next == User \/ Alone \/ \E c \in creating, done \in BOOLEAN : Created(c, done)

\* The timer fires, a transition is rendered and every request ends.
Spec ==
  Init /\ [][Next]_vars /\ WF_vars(FireAny) /\ WF_vars(Arrive) /\ WF_vars(AnswerAny)

-----------------------------------------------------------------------------
(***************************************************************************)
(* What the page shows is about what is in its address: the result, or the *)
(* error, once nothing is loading (the search effect cancels the one       *)
(* before), and the notice of the last export ("would otherwise linger and *)
(* misdescribe the new result set", CatalogPage.tsx:347-348), unless the   *)
(* search changed while the export was under way: onExportAll sets its     *)
(* notice whatever has become of the search.  The same of the item in the  *)
(* drawer, which is what its Delete button removes.                        *)
(***************************************************************************)
ShownIsCurrent ==
  /\ IsResults(address) /\ ~loading => error \/ result.for = QueryOf(address)
  /\ notice # NoExport /\ ~notice.overtaken => notice.for = DraftOf(address)
  /\ NamesShown(address.item)

(***************************************************************************)
(* No timer and no answer changes the text in the box: the delayed search  *)
(* writes an address from an earlier render, and the drafts follow the     *)
(* address that arrives.  Two things do: a change of the address by the    *)
(* user or by the end of saving a new item, with the text of its render;   *)
(* and the delayed search itself, when a key was typed between its timer   *)
(* and the page it brings (setDraftQ(q), CatalogPage.tsx:298).             *)
(***************************************************************************)
TypingIsKept ==
  [][Alone => \/ draft'.q = draft.q
              \/ going.by = "other"
              \/ going.typed]_vars

(***************************************************************************)
(* "Live search as you type": once the user stops, the page comes to       *)
(* search for the text in the box and to show the answer - unless the      *)
(* search for it was about to be shown when a click made from the page of  *)
(* before took its place: nothing searches for the text any more.          *)
(***************************************************************************)
CatchesUp ==
  <>[](/\ draft.q = address.q \/ lost
       /\ IsResults(address) => ~loading)
=============================================================================
