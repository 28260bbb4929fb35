----------------------------- MODULE ItemDrawer -----------------------------
(***************************************************************************)
(* The drawer of the search page (ItemDrawer.tsx with ItemEditForm.tsx),   *)
(* which shows the versions of the item the page's address names and lets  *)
(* a steward edit, remove or create an item.                               *)
(*                                                                         *)
(* Loading an item is cancelled when the drawer turns to another; reading  *)
(* it again after a save or a removal is not.  A drawer that closes is     *)
(* unmounted at once here, and what it waits for has no effect any more.   *)
(* Saving a new item is an action of the page (CatalogPage).               *)
(*                                                                         *)
(* The parameter shown of an action is the item in the address.  The       *)
(* fields of the form, whether an item is removed already, copying and     *)
(* exporting one item, and the upload tab (UploadFlow) are left out; the   *)
(* user is a steward.                                                      *)
(***************************************************************************)
EXTENDS Naturals

CONSTANTS
  Items,      \* item codes
  New,        \* the drawer for a new item
  Nothing     \* no drawer, no item

ASSUME ItemDrawerAssumption == New \notin Items /\ Nothing \notin Items /\ New # Nothing

VARIABLES
  history,    \* history[0]: which item the drawer names
  opening,    \* loading
  loads,      \* loads of an item under way
  mode,       \* "view" or "edit"
  confirming, \* confirmingDelete
  works       \* saves, removals and the reads after them under way

drawerVars == <<history, opening, loads, mode, confirming, works>>

\* overtaken (history): the drawer turned to another item since.
Named == [item : Items, overtaken : BOOLEAN]

\* "edited" and "removed": done, and the item is being read again.
Work == [kind : {"edit", "edited", "remove", "removed"}, item : Items,
         overtaken : BOOLEAN]

NoName == [item |-> Nothing, overtaken |-> FALSE]

DrawerTypeOK ==
  /\ history \in Named \cup {NoName}
  /\ opening \in BOOLEAN
  /\ loads \subseteq [for : Items, cancelled : BOOLEAN]
  /\ mode \in {"view", "edit"}
  /\ confirming \in BOOLEAN
  /\ works \subseteq Work

DrawerInit ==
  /\ history = NoName
  /\ opening = FALSE
  /\ loads = {}
  /\ mode = "view"
  /\ confirming = FALSE
  /\ works = {}

-----------------------------------------------------------------------------
\* WRONG (breaks ShownIsCurrent): a request is not cancelled by the next one
NotCancelled(rs) == rs

\* The cleanup of an effect: the answers to come are dropped.
Cancelled(rs) == {[r EXCEPT !.cancelled = TRUE] : r \in rs}

\* What goes on when the drawer turns away: a closed one waits for nothing.
Outlive(i) == IF i = Nothing THEN {} ELSE {[w EXCEPT !.overtaken = TRUE] : w \in works}

\* The effect on itemCode: the drawer turns from one item to another, to the
\* form for a new one, or closes.
Turns(shown, i) ==
  IF i = shown THEN UNCHANGED drawerVars
  ELSE /\ mode' = "view"
       /\ confirming' = FALSE
       /\ history' = NoName
       /\ opening' = (i \in Items)
       /\ loads' = Cancelled(loads) \cup
                   (IF i \in Items THEN {[for |-> i, cancelled |-> FALSE]} ELSE {})
       /\ works' = Outlive(i)

\* The item is read, unknown to the server ([]), or the read fails.
Load(l) ==
  /\ loads' = loads \ {l}
  /\ IF l.cancelled
     THEN UNCHANGED <<history, opening>>
     ELSE /\ history' \in {NoName, [item |-> l.for, overtaken |-> FALSE]}
          /\ opening' = FALSE
  /\ UNCHANGED <<mode, confirming, works>>

\* An item is shown with its buttons.
Viewed(shown) == shown \in Items /\ ~opening /\ history # NoName /\ mode = "view"

Edit(shown) ==
  /\ Viewed(shown)
  /\ mode' = "edit"
  /\ UNCHANGED <<history, opening, loads, confirming, works>>

CancelEdit ==
  /\ mode = "edit"
  /\ mode' = "view"
  /\ UNCHANGED <<history, opening, loads, confirming, works>>

Begins(kind, i) ==
  /\ [kind |-> kind, item |-> i, overtaken |-> FALSE] \notin works
  /\ works' = works \cup {[kind |-> kind, item |-> i, overtaken |-> FALSE]}
  /\ UNCHANGED <<history, opening, loads, mode, confirming>>

\* The form holds the item that was named when it opened; the one to be read
\* again after it is the item of the address.
Save(shown) ==
  /\ shown \in Items /\ mode = "edit"
  /\ Begins("edit", shown)

AskRemove(shown) ==
  /\ Viewed(shown)
  /\ confirming' = TRUE
  /\ UNCHANGED <<history, opening, loads, mode, works>>

\* deleting: a removal is under way, until the item is read again.
Removing == \E w \in works : w.kind \in {"remove", "removed"}

CancelRemove(shown) ==
  /\ Viewed(shown) /\ confirming /\ ~Removing
  /\ confirming' = FALSE
  /\ UNCHANGED <<history, opening, loads, mode, works>>

\* onDelete: the item of the address is removed, whatever the drawer names.
Remove(shown) ==
  /\ Viewed(shown) /\ confirming /\ ~Removing
  /\ Begins("remove", shown)

\* A save or a removal succeeded; onSaved and onDelete read the item that the
\* drawer showed when they began.
Saved(w) ==
  /\ w.kind = "edit"
  /\ mode' = "view"
  /\ works' = (works \ {w}) \cup {[w EXCEPT !.kind = "edited"]}
  /\ UNCHANGED <<history, opening, loads, confirming>>

Removed(w) ==
  /\ w.kind = "remove"
  /\ works' = (works \ {w}) \cup {[w EXCEPT !.kind = "removed"]}
  /\ UNCHANGED <<history, opening, loads, mode, confirming>>

\* refetchHistory, for whichever item; a failure leaves what is shown.
ReadAgain(w) ==
  /\ w.kind \in {"edited", "removed"}
  /\ works' = works \ {w}
  /\ \/ history' = [item |-> w.item, overtaken |-> w.overtaken]
     \/ UNCHANGED history
  /\ confirming' = (confirming /\ w.kind = "edited")
  /\ UNCHANGED <<opening, loads, mode>>

\* A save or a removal failed: an error is shown.
WorkFails(w) ==
  /\ w.kind \in {"edit", "remove"}
  /\ works' = works \ {w}
  /\ UNCHANGED <<history, opening, loads, mode, confirming>>

-----------------------------------------------------------------------------
DrawerUser(shown) ==
  \/ Edit(shown) \/ CancelEdit \/ Save(shown)
  \/ AskRemove(shown) \/ CancelRemove(shown) \/ Remove(shown)

DrawerAlone ==
  \/ \E l \in loads : Load(l)
  \/ \E w \in works : Saved(w) \/ Removed(w) \/ ReadAgain(w) \/ WorkFails(w)

\* The drawer names the item of the address, if anything, unless it turned to
\* that one while a save or a removal of another was under way.
NamesShown(shown) ==
  shown \in Items /\ ~opening /\ ~history.overtaken =>
    history.item \in {Nothing, shown}
=============================================================================
