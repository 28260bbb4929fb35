------------------------- MODULE CatalogPageProofs -------------------------
(***************************************************************************)
(* What holds of the search page and its drawer for every set of texts,    *)
(* filters and items, and every number of pages, moves and failures.       *)
(*                                                                         *)
(* What is shown is what an answer brought, so the invariant is about what *)
(* is still under way: whatever has not been cancelled, and was not        *)
(* overtaken, is about what the address holds now.                         *)
(***************************************************************************)
EXTENDS CatalogPage, TLAPS

SearchesCurrent ==
  /\ \A r \in requests : r.cancelled \/ r.for = QueryOf(address)
  /\ IsResults(address) /\ ~loading => error \/ result.for = QueryOf(address)

ExportsCurrent ==
  /\ exporting # NoExport /\ ~exporting.overtaken => exporting.for = DraftOf(address)
  /\ notice # NoExport /\ ~notice.overtaken => notice.for = DraftOf(address)

DrawerCurrent ==
  /\ \A l \in loads : l.cancelled \/ l.for = address.item
  /\ \A w \in works : w.overtaken \/ w.item = address.item
  /\ NamesShown(address.item)

\* A delayed search is on its way with the text in the box.
DelayKept == going.by = "delay" /\ ~going.typed => going.to.q = draft.q

IInv == TypeOK /\ SearchesCurrent /\ ExportsCurrent /\ DrawerCurrent /\ DelayKept

\* A change of the address sets out, through a user's click, a delayed search or
\* the end of saving a new item.
Navigates ==
  /\ \E a \in Address, by \in {"delay", "other"} : Goes(a, by)
  /\ timers' \subseteq timers

\* The parts of the type invariant that change together.
BarTyped ==
  /\ draft \in Draft
  /\ timers \subseteq [q : Text, base : Address]
  /\ \A t \in timers : t.q = draft.q

ExportTyped ==
  /\ exporting \in Export \cup {NoExport}
  /\ notice \in Export \cup {NoExport}

SearchTyped ==
  /\ requests \subseteq [for : Query, cancelled : BOOLEAN]
  /\ result \in Result \cup {NoResult}
  /\ loading \in BOOLEAN
  /\ error \in BOOLEAN

GoingTyped == going \in Change \cup {Settled} /\ lost \in BOOLEAN

PageTyped ==
  /\ address \in Address
  /\ GoingTyped
  /\ previous \in Address
  /\ BarTyped
  /\ ExportTyped
  /\ SearchTyped
  /\ DrawerTypeOK

CountsTyped ==
  /\ creating \subseteq [item : Items, base : Address]
  /\ moves \in 0..MaxMoves
  /\ failures \in 0..MaxFailures

LEMMA TypeParts == TypeOK <=> PageTyped /\ CountsTyped
  BY Zenon DEF TypeOK, PageTyped, GoingTyped, BarTyped, ExportTyped, SearchTyped, CountsTyped

LEMMA TypePartsNext == TypeOK' <=> PageTyped' /\ CountsTyped'
  BY TypeParts, PTL

-----------------------------------------------------------------------------
(* Addresses.                                                                *)

LEMMA AddressParts ==
  ASSUME NEW a \in Address
  PROVE  QueryOf(a) \in Query /\ DraftOf(a) \in Draft /\ a.item \in Items \cup {New, Nothing}
  BY DEF Address, QueryOf, DraftOf, Query, Draft

LEMMA LandingIsAddress == Landing \in Address
  BY CatalogPageAssumption DEF Landing, Address, Text, Filter

LEMMA FirstPage == 0 \in 0..MaxPage
  BY CatalogPageAssumption

\* What a click, a timer or the end of saving an item may put into an address.
LEMMA PutSearch ==
  ASSUME NEW a \in Address, NEW q \in Text, NEW f \in Filter, NEW b \in BOOLEAN
  PROVE  [a EXCEPT !.q = q, !.filter = f, !.offset = 0, !.browse = b] \in Address
  BY FirstPage DEF Address

LEMMA PutText ==
  ASSUME NEW a \in Address, NEW q \in Text
  PROVE  [a EXCEPT !.q = q, !.offset = 0, !.browse = FALSE] \in Address
  BY FirstPage DEF Address

LEMMA PutFilter ==
  ASSUME NEW a \in Address, NEW f \in Filter
  PROVE  [a EXCEPT !.filter = f, !.offset = 0] \in Address
  BY FirstPage DEF Address

LEMMA PutBrowse ==
  ASSUME NEW a \in Address
  PROVE  [a EXCEPT !.browse = TRUE, !.offset = 0] \in Address
  BY FirstPage DEF Address

LEMMA PutOffset ==
  ASSUME NEW a \in Address, NEW o \in 0..MaxPage
  PROVE  [a EXCEPT !.offset = o] \in Address
  BY DEF Address

LEMMA PutItem ==
  ASSUME NEW a \in Address, NEW i \in Items \cup {New, Nothing}
  PROVE  [a EXCEPT !.item = i] \in Address
  BY DEF Address

LEMMA UserNavigates ==
  ASSUME PageTyped,
         \/ Submit \/ Apply \/ Clear \/ BrowseAll \/ OpenNew \/ CloseItem \/ Back
         \/ \E offset \in 0..MaxPage : TurnPage(offset)
         \/ \E i \in Items : OpenItem(i)
  PROVE  Navigates /\ Moves /\ UNCHANGED creating
<1>1. address \in Address /\ previous \in Address
  BY DEF PageTyped
<1>2. draft.q \in Text /\ draft.filter \in Filter
  BY DEF PageTyped, BarTyped, Draft
<1>3. ASSUME NEW a \in Address, GoesTo(a) PROVE Navigates /\ UNCHANGED creating
  BY <1>3 DEF GoesTo, Navigates
<1>4. CASE Submit
  <2> DEFINE b == draft = [q |-> Nothing, filter |-> Nothing]
  <2>1. b \in BOOLEAN
    OBVIOUS
  <2>2. [address EXCEPT !.q = draft.q, !.filter = draft.filter, !.offset = 0, !.browse = b]
          \in Address
    <3> HIDE DEF b
    <3> QED
      BY <1>1, <1>2, <2>1, PutSearch
  <2> QED
    BY <1>3, <1>4, <2>2, Zenon DEF Submit
<1>5. CASE Apply
  BY <1>1, <1>2, <1>3, <1>5, PutFilter DEF Apply
<1>6. CASE Clear
  BY <1>3, <1>6, LandingIsAddress DEF Clear
<1>7. CASE BrowseAll
  BY <1>1, <1>3, <1>7, PutBrowse DEF BrowseAll
<1>8. CASE OpenNew
  BY <1>1, <1>3, <1>8, PutItem DEF OpenNew
<1>9. CASE CloseItem
  BY <1>1, <1>3, <1>9, PutItem DEF CloseItem
<1>10. CASE Back
  BY <1>1, <1>3, <1>10 DEF Back
<1>11. ASSUME NEW offset \in 0..MaxPage, TurnPage(offset)
       PROVE  Navigates /\ Moves /\ UNCHANGED creating
  BY <1>1, <1>3, <1>11, PutOffset DEF TurnPage
<1>12. ASSUME NEW i \in Items, OpenItem(i) PROVE Navigates /\ Moves /\ UNCHANGED creating
  BY <1>1, <1>3, <1>12, PutItem DEF OpenItem
<1> QED
  BY <1>4, <1>5, <1>6, <1>7, <1>8, <1>9, <1>10, <1>11, <1>12

LEMMA FireNavigates ==
  ASSUME PageTyped, NEW t \in timers, Fire(t)
  PROVE  Navigates /\ UNCHANGED <<creating, moves, failures>>
<1>1. t.q \in Text /\ t.base \in Address
  BY DEF PageTyped, BarTyped
<1>2. [t.base EXCEPT !.q = t.q, !.offset = 0, !.browse = FALSE] \in Address
  BY <1>1, PutText
<1> QED
  BY <1>2 DEF Fire, Navigates

LEMMA CreatedNavigates ==
  ASSUME PageTyped, CountsTyped, NEW c \in creating, NEW done \in BOOLEAN, Created(c, done)
  PROVE  /\ Navigates \/ UNCHANGED <<address, going, lost, previous, draft, timers, requests,
                                     result, loading, error, exporting, notice, drawerVars>>
         /\ creating' \subseteq creating
         /\ UNCHANGED <<moves, failures>>
<1>1. c.item \in Items /\ c.base \in Address
  BY DEF CountsTyped
<1>2. [c.base EXCEPT !.item = c.item] \in Address
  BY <1>1, PutItem
<1>3. CASE done
  BY <1>2, <1>3 DEF Created, Navigates
<1>4. CASE ~done
  BY <1>4 DEF Created
<1> QED
  BY <1>3, <1>4

-----------------------------------------------------------------------------
(* What a change of the address does.                                        *)

LEMMA CancelledTyped ==
  ASSUME NEW S, NEW rs \in SUBSET [for : S, cancelled : BOOLEAN]
  PROVE  /\ Cancelled(rs) \subseteq [for : S, cancelled : BOOLEAN]
         /\ \A r \in Cancelled(rs) : r.cancelled
  BY DEF Cancelled

LEMMA SearchesTyped ==
  ASSUME SearchTyped, NEW a \in Address, Searches(a)
  PROVE  SearchTyped'
<1>1. [for |-> QueryOf(a), cancelled |-> FALSE] \in [for : Query, cancelled : BOOLEAN]
  BY AddressParts
<1>2. Cancelled(requests) \subseteq [for : Query, cancelled : BOOLEAN]
  BY CancelledTyped DEF SearchTyped
<1>3. CASE QueryOf(a) = QueryOf(address)
  BY <1>3 DEF Searches, SearchTyped
<1>4. CASE QueryOf(a) # QueryOf(address) /\ IsResults(a)
  BY <1>1, <1>2, <1>4 DEF Searches, SearchTyped
<1>5. CASE QueryOf(a) # QueryOf(address) /\ ~IsResults(a)
  BY <1>2, <1>5 DEF Searches, SearchTyped
<1> QED
  BY <1>3, <1>4, <1>5

LEMMA FollowsTyped ==
  ASSUME BarTyped, lost \in BOOLEAN, NEW a \in Address, Follows(a)
  PROVE  BarTyped' /\ lost' \in BOOLEAN
<1>1. CASE DraftOf(a) = DraftOf(address)
  BY <1>1 DEF Follows, BarTyped
<1>2. CASE DraftOf(a) # DraftOf(address)
  <2>1. draft' = DraftOf(a) /\ lost' = FALSE /\ timers' = IF a.q = draft.q THEN timers ELSE {}
    BY <1>2 DEF Follows
  <2>2. draft' \in Draft /\ draft'.q = a.q
    BY <2>1, AddressParts DEF DraftOf
  <2> QED
    BY <2>1, <2>2 DEF BarTyped
<1> QED
  BY <1>1, <1>2

\* An export that is under way when the search changes counts as overtaken.
LEMMA OvertakesExport ==
  ASSUME exporting \in Export \cup {NoExport},
         exporting' = [exporting EXCEPT !.overtaken = exporting # NoExport]
  PROVE  exporting' \in Export \cup {NoExport} /\ (exporting' = NoExport \/ exporting'.overtaken)
<1>1. CASE exporting = NoExport
  BY <1>1 DEF NoExport
<1>2. CASE exporting # NoExport
  <2>1. exporting' = [exporting EXCEPT !.overtaken = TRUE]
    BY <1>2
  <2> QED
    BY <1>2, <2>1 DEF Export
<1> QED
  BY <1>1, <1>2

LEMMA FollowsExports ==
  ASSUME ExportTyped, ExportsCurrent, NEW a, address' = a, Follows(a)
  PROVE  ExportTyped' /\ ExportsCurrent'
<1>1. CASE DraftOf(a) = DraftOf(address)
  BY <1>1 DEF Follows, ExportTyped, ExportsCurrent, DraftOf
<1>2. CASE DraftOf(a) # DraftOf(address)
  <2>1. notice' = NoExport /\ exporting' = [exporting EXCEPT !.overtaken = exporting # NoExport]
    BY <1>2 DEF Follows
  <2>2. /\ exporting' \in Export \cup {NoExport}
        /\ exporting' = NoExport \/ exporting'.overtaken
    BY <2>1, OvertakesExport DEF ExportTyped
  <2> QED
    BY <2>1, <2>2 DEF ExportTyped, ExportsCurrent
<1> QED
  BY <1>1, <1>2

LEMMA SearchesAnew ==
  ASSUME SearchTyped, SearchesCurrent, NEW a, address' = a, Searches(a)
  PROVE  SearchesCurrent'
<1>1. \A r \in Cancelled(requests) : r.cancelled
  BY CancelledTyped DEF SearchTyped
<1>2. CASE QueryOf(a) = QueryOf(address)
  <2>1. QueryOf(address') = QueryOf(address) /\ (IsResults(address') => IsResults(address))
    BY <1>2 DEF QueryOf, IsResults
  <2> QED
    BY <1>2, <2>1 DEF Searches, SearchesCurrent
<1>3. CASE QueryOf(a) # QueryOf(address) /\ IsResults(a)
  BY <1>1, <1>3 DEF Searches, SearchesCurrent
<1>4. CASE QueryOf(a) # QueryOf(address) /\ ~IsResults(a)
  BY <1>1, <1>4 DEF Searches, SearchesCurrent
<1> QED
  BY <1>2, <1>3, <1>4

LEMMA OutliveTyped ==
  ASSUME DrawerTypeOK, NEW i
  PROVE  Outlive(i) \subseteq Work /\ \A w \in Outlive(i) : w.overtaken
  BY DEF DrawerTypeOK, Outlive, Work

LEMMA TurnsTyped ==
  ASSUME DrawerTypeOK, NEW shown, NEW i, Turns(shown, i)
  PROVE  DrawerTypeOK'
<1>1. CASE i = shown
  BY <1>1 DEF Turns, drawerVars, DrawerTypeOK
<1>2. CASE i # shown
  <2>1. mode' = "view" /\ confirming' = FALSE /\ history' = NoName /\ works' = Outlive(i)
    BY <1>2 DEF Turns
  <2>2. loads' \subseteq [for : Items, cancelled : BOOLEAN]
    <3>1. Cancelled(loads) \subseteq [for : Items, cancelled : BOOLEAN]
      BY CancelledTyped DEF DrawerTypeOK
    <3>2. loads' = Cancelled(loads) \cup
                   (IF i \in Items THEN {[for |-> i, cancelled |-> FALSE]} ELSE {})
      BY <1>2 DEF Turns
    <3>3. i \in Items => [for |-> i, cancelled |-> FALSE] \in [for : Items, cancelled : BOOLEAN]
      OBVIOUS
    <3> QED
      BY <3>1, <3>2, <3>3
  <2>3. opening' \in BOOLEAN
    <3>1. opening' = (i \in Items)
      BY <1>2, Zenon DEF Turns
    <3>2. (i \in Items) \in BOOLEAN
      OBVIOUS
    <3> QED
      BY <3>1, <3>2, Zenon
  <2>4. confirming' \in BOOLEAN
    BY <2>1
  <2> QED
    BY <2>1, <2>2, <2>3, <2>4, OutliveTyped DEF DrawerTypeOK
<1> QED
  BY <1>1, <1>2

LEMMA TurnsCurrent ==
  ASSUME DrawerTypeOK, DrawerCurrent, NEW a, address' = a, Turns(address.item, a.item)
  PROVE  DrawerCurrent'
<1>1. CASE a.item = address.item
  BY <1>1 DEF Turns, drawerVars, DrawerCurrent, NamesShown
<1>2. CASE a.item # address.item
  <2>1. /\ history' = NoName
        /\ loads' = Cancelled(loads) \cup
                    (IF a.item \in Items THEN {[for |-> a.item, cancelled |-> FALSE]} ELSE {})
        /\ works' = Outlive(a.item)
    BY <1>2 DEF Turns
  <2>2. \A l \in Cancelled(loads) : l.cancelled
    BY CancelledTyped DEF DrawerTypeOK
  <2>3. \A l \in loads' : l.cancelled \/ l.for = address'.item
    BY <2>1, <2>2
  <2>4. \A w \in works' : w.overtaken
    BY <2>1, OutliveTyped
  <2> QED
    BY <2>1, <2>3, <2>4 DEF DrawerCurrent, NamesShown, NoName
<1> QED
  BY <1>1, <1>2

\* Until it arrives, a change of the address changes nothing that is shown.
LEMMA NavigateStep ==
  ASSUME PageTyped, SearchesCurrent, ExportsCurrent, DrawerCurrent, Navigates
  PROVE  PageTyped' /\ SearchesCurrent' /\ ExportsCurrent' /\ DrawerCurrent'
<1>1. PICK a \in Address, by \in {"delay", "other"} : Goes(a, by)
  BY DEF Navigates
<1>2. /\ going' = [to |-> a, by |-> by, typed |-> FALSE] /\ previous' = Here
      /\ lost' = (a.q # draft.q /\ (lost \/ (going # Settled /\ going.to.q = draft.q)))
      /\ UNCHANGED <<address, draft, requests, result, loading, error, exporting, notice,
                     drawerVars>>
  BY <1>1 DEF Goes
<1>3. GoingTyped'
  <2>1. going' \in Change
    BY <1>2 DEF Change
  <2>2. lost' \in BOOLEAN
    BY <1>2
  <2> QED
    BY <2>1, <2>2 DEF GoingTyped
<1>4. address' \in Address /\ previous' \in Address
  BY <1>2 DEF PageTyped, GoingTyped, Change, Here
<1>5. BarTyped'
  BY <1>2 DEF PageTyped, BarTyped, Navigates
<1>6. ExportTyped' /\ SearchTyped' /\ DrawerTypeOK'
  BY <1>2 DEF PageTyped, ExportTyped, SearchTyped, DrawerTypeOK, drawerVars
<1>7. SearchesCurrent' /\ ExportsCurrent' /\ DrawerCurrent'
  BY <1>2 DEF SearchesCurrent, ExportsCurrent, DrawerCurrent, NamesShown, drawerVars
<1> QED
  BY <1>3, <1>4, <1>5, <1>6, <1>7 DEF PageTyped

LEMMA ArriveStep ==
  ASSUME PageTyped, SearchesCurrent, ExportsCurrent, DrawerCurrent, Arrive
  PROVE  PageTyped' /\ SearchesCurrent' /\ ExportsCurrent' /\ DrawerCurrent'
<1>1. PICK a \in Address : a = going.to
  BY DEF Arrive, PageTyped, GoingTyped, Change
<1>2. /\ address' = a /\ going' = Settled /\ previous' = previous
      /\ Searches(a) /\ Follows(a) /\ Turns(address.item, a.item)
  BY <1>1 DEF Arrive
<1>3. address' \in Address /\ previous' \in Address
  BY <1>2 DEF PageTyped
<1>4. SearchTyped' /\ SearchesCurrent'
  BY <1>2, SearchesTyped, SearchesAnew DEF PageTyped
<1>5. BarTyped' /\ GoingTyped'
  BY <1>2, FollowsTyped DEF PageTyped, GoingTyped
<1>6. ExportTyped' /\ ExportsCurrent'
  BY <1>2, FollowsExports DEF PageTyped
<1>7. DrawerTypeOK' /\ DrawerCurrent'
  BY <1>2, TurnsTyped, TurnsCurrent DEF PageTyped
<1> QED
  BY <1>3, <1>4, <1>5, <1>6, <1>7 DEF PageTyped

-----------------------------------------------------------------------------
(* The drawer, while the address stays.                                      *)

LEMMA LoadStep ==
  ASSUME DrawerTypeOK, DrawerCurrent, address' = address, NEW l \in loads, Load(l)
  PROVE  DrawerTypeOK' /\ DrawerCurrent'
<1>1. /\ loads' = loads \ {l}
      /\ UNCHANGED <<mode, confirming, works>>
  BY DEF Load
<1>2. l.for \in Items
  BY DEF DrawerTypeOK
<1>3. CASE l.cancelled
  <2>1. UNCHANGED <<history, opening>>
    BY <1>3 DEF Load
  <2> QED
    BY <1>1, <2>1 DEF DrawerTypeOK, DrawerCurrent, NamesShown
<1>4. CASE ~l.cancelled
  <2>1. history' \in {NoName, [item |-> l.for, overtaken |-> FALSE]} /\ opening' = FALSE
    BY <1>4 DEF Load
  <2>2. l.for = address.item
    BY <1>4 DEF DrawerCurrent
  <2>3. [item |-> l.for, overtaken |-> FALSE] \in Named
    BY <1>2 DEF Named
  <2>4. history' \in Named \cup {NoName}
    BY <2>1, <2>3
  <2>5. history'.item \in {Nothing, address.item}
    BY <2>1, <2>2 DEF NoName
  <2>6. opening' \in BOOLEAN
    BY <2>1
  <2>7. DrawerTypeOK'
    BY <1>1, <2>4, <2>6 DEF DrawerTypeOK
  <2>8. DrawerCurrent'
    BY <1>1, <2>5 DEF DrawerCurrent, NamesShown
  <2> QED
    BY <2>7, <2>8
<1> QED
  BY <1>3, <1>4

\* Work that begins, goes on or ends.
LEMMA WorkStep ==
  ASSUME DrawerTypeOK, DrawerCurrent, address' = address,
         UNCHANGED <<history, opening, loads>>,
         mode' \in {"view", "edit"}, confirming' \in BOOLEAN,
         \A w \in works' : w \in Work /\ (w.overtaken \/ w.item = address.item)
  PROVE  DrawerTypeOK' /\ DrawerCurrent'
  BY DEF DrawerTypeOK, DrawerCurrent, NamesShown

LEMMA BeginsStep ==
  ASSUME DrawerTypeOK, DrawerCurrent, address' = address, NEW kind \in {"edit", "remove"},
         address.item \in Items, Begins(kind, address.item)
  PROVE  DrawerTypeOK' /\ DrawerCurrent'
<1> DEFINE w == [kind |-> kind, item |-> address.item, overtaken |-> FALSE]
<1>1. w \in Work /\ w.item = address.item
  BY DEF Work
<1>2. works' = works \cup {w} /\ UNCHANGED <<history, opening, loads, mode, confirming>>
  BY DEF Begins
<1> HIDE DEF w
<1>3. \A v \in works' : v \in Work /\ (v.overtaken \/ v.item = address.item)
  BY <1>1, <1>2 DEF DrawerTypeOK, DrawerCurrent
<1>4. mode' \in {"view", "edit"} /\ confirming' \in BOOLEAN
  BY <1>2 DEF DrawerTypeOK
<1> QED
  BY <1>2, <1>3, <1>4, WorkStep

LEMMA DrawerUserStep ==
  ASSUME DrawerTypeOK, DrawerCurrent, address' = address, DrawerUser(address.item)
  PROVE  DrawerTypeOK' /\ DrawerCurrent'
<1>1. \A w \in works : w \in Work /\ (w.overtaken \/ w.item = address.item)
  BY DEF DrawerTypeOK, DrawerCurrent
<1>2. CASE Edit(address.item) \/ CancelEdit \/ AskRemove(address.item)
             \/ CancelRemove(address.item)
  <2>1. UNCHANGED <<history, opening, loads, works>>
    BY <1>2 DEF Edit, CancelEdit, AskRemove, CancelRemove
  <2>2. mode' \in {"view", "edit"}
    BY <1>2 DEF Edit, CancelEdit, AskRemove, CancelRemove, DrawerTypeOK
  <2>3. confirming' \in BOOLEAN
    BY <1>2, Zenon DEF Edit, CancelEdit, AskRemove, CancelRemove, DrawerTypeOK
  <2> QED
    BY <1>1, <2>1, <2>2, <2>3, WorkStep
<1>3. CASE Save(address.item)
  BY <1>3, BeginsStep DEF Save
<1>4. CASE Remove(address.item)
  BY <1>4, BeginsStep DEF Remove, Viewed
<1> QED
  BY <1>2, <1>3, <1>4 DEF DrawerUser

\* A save or a removal under way that is done, and is read again.
LEMMA WorkGoesOn ==
  ASSUME DrawerTypeOK, DrawerCurrent, NEW w \in works, NEW kind \in {"edited", "removed"},
         works' = (works \ {w}) \cup {[w EXCEPT !.kind = kind]}
  PROVE  \A v \in works' : v \in Work /\ (v.overtaken \/ v.item = address.item)
<1> DEFINE u == [w EXCEPT !.kind = kind]
<1>1. w \in Work /\ (w.overtaken \/ w.item = address.item)
  BY DEF DrawerTypeOK, DrawerCurrent
<1>2. u \in Work
  BY <1>1 DEF Work
<1>3. u.overtaken = w.overtaken /\ u.item = w.item /\ works' \subseteq works \cup {u}
  BY <1>1 DEF Work
<1> HIDE DEF u
<1>4. u.overtaken \/ u.item = address.item
  BY <1>1, <1>3
<1>5. \A v \in works : v \in Work /\ (v.overtaken \/ v.item = address.item)
  BY DEF DrawerTypeOK, DrawerCurrent
<1> QED
  BY <1>2, <1>3, <1>4, <1>5

LEMMA ReadAgainStep ==
  ASSUME DrawerTypeOK, DrawerCurrent, address' = address, NEW w \in works, ReadAgain(w)
  PROVE  DrawerTypeOK' /\ DrawerCurrent'
<1>1. w \in Work /\ w.item \in Items /\ (w.overtaken \/ w.item = address.item)
  BY DEF DrawerTypeOK, DrawerCurrent, Work
<1>2. works' = works \ {w} /\ UNCHANGED <<opening, loads, mode>>
  BY DEF ReadAgain
<1>3. confirming' \in BOOLEAN
  BY Zenon DEF ReadAgain
<1>4. CASE history' = [item |-> w.item, overtaken |-> w.overtaken]
  <2>1. history' \in Named /\ (history'.overtaken \/ history'.item = address.item)
    BY <1>1, <1>4 DEF Named, Work
  <2>2. DrawerTypeOK'
    BY <1>2, <1>3, <2>1 DEF DrawerTypeOK
  <2>3. DrawerCurrent'
    BY <1>2, <2>1 DEF DrawerCurrent, NamesShown
  <2> QED
    BY <2>2, <2>3
<1>5. CASE history' = history
  <2>1. \A v \in works' : v \in Work /\ (v.overtaken \/ v.item = address.item)
    BY <1>2 DEF DrawerTypeOK, DrawerCurrent
  <2>2. mode' \in {"view", "edit"}
    BY <1>2 DEF DrawerTypeOK
  <2> QED
    BY <1>2, <1>3, <1>5, <2>1, <2>2, WorkStep
<1> QED
  BY <1>4, <1>5 DEF ReadAgain

LEMMA DrawerAloneStep ==
  ASSUME DrawerTypeOK, DrawerCurrent, address' = address, DrawerAlone
  PROVE  DrawerTypeOK' /\ DrawerCurrent'
<1>1. ASSUME NEW l \in loads, Load(l) PROVE DrawerTypeOK' /\ DrawerCurrent'
  BY <1>1, LoadStep
<1>2. ASSUME NEW w \in works, Saved(w) PROVE DrawerTypeOK' /\ DrawerCurrent'
  <2>1. /\ works' = (works \ {w}) \cup {[w EXCEPT !.kind = "edited"]}
        /\ mode' = "view" /\ UNCHANGED <<history, opening, loads, confirming>>
    BY <1>2 DEF Saved
  <2>2. \A v \in works' : v \in Work /\ (v.overtaken \/ v.item = address.item)
    BY <2>1, WorkGoesOn
  <2>3. confirming' \in BOOLEAN
    BY <2>1 DEF DrawerTypeOK
  <2> QED
    BY <2>1, <2>2, <2>3, WorkStep
<1>3. ASSUME NEW w \in works, Removed(w) PROVE DrawerTypeOK' /\ DrawerCurrent'
  <2>1. /\ works' = (works \ {w}) \cup {[w EXCEPT !.kind = "removed"]}
        /\ UNCHANGED <<history, opening, loads, mode, confirming>>
    BY <1>3 DEF Removed
  <2>2. \A v \in works' : v \in Work /\ (v.overtaken \/ v.item = address.item)
    BY <2>1, WorkGoesOn
  <2>3. mode' \in {"view", "edit"} /\ confirming' \in BOOLEAN
    BY <2>1 DEF DrawerTypeOK
  <2> QED
    BY <2>1, <2>2, <2>3, WorkStep
<1>4. ASSUME NEW w \in works, ReadAgain(w) PROVE DrawerTypeOK' /\ DrawerCurrent'
  BY <1>4, ReadAgainStep
<1>5. ASSUME NEW w \in works, WorkFails(w) PROVE DrawerTypeOK' /\ DrawerCurrent'
  <2>1. works' = works \ {w} /\ UNCHANGED <<history, opening, loads, mode, confirming>>
    BY <1>5 DEF WorkFails
  <2>2. \A v \in works' : v \in Work /\ (v.overtaken \/ v.item = address.item)
    BY <2>1 DEF DrawerTypeOK, DrawerCurrent
  <2>3. mode' \in {"view", "edit"} /\ confirming' \in BOOLEAN
    BY <2>1 DEF DrawerTypeOK
  <2> QED
    BY <2>1, <2>2, <2>3, WorkStep
<1> QED
  BY <1>1, <1>2, <1>3, <1>4, <1>5 DEF DrawerAlone

-----------------------------------------------------------------------------
(* Every step.                                                               *)

LEMMA CountsStep == TypeOK /\ Next => CountsTyped'
<1> SUFFICES ASSUME TypeOK, Next PROVE CountsTyped'
  OBVIOUS
<1>1. PageTyped /\ CountsTyped
  BY TypeParts
<1>2. ASSUME Moves, creating' = creating PROVE CountsTyped'
  BY <1>1, <1>2, CatalogPageAssumption DEF Moves, CountsTyped
<1>3. ASSUME UNCHANGED <<moves, failures>>, creating' \subseteq creating PROVE CountsTyped'
  BY <1>1, <1>3 DEF CountsTyped
<1>4. ASSUME NEW q \in Text, Type(q) PROVE CountsTyped'
  BY <1>2, <1>4 DEF Type
<1>5. ASSUME NEW f \in Filter, Pick(f) PROVE CountsTyped'
  BY <1>2, <1>5 DEF Pick
<1>6. CASE \/ Submit \/ Apply \/ Clear \/ BrowseAll \/ OpenNew \/ CloseItem \/ Back
           \/ \E offset \in 0..MaxPage : TurnPage(offset)
           \/ \E i \in Items : OpenItem(i)
  BY <1>1, <1>2, <1>6, UserNavigates
<1>7. CASE BeginExport
  BY <1>2, <1>7 DEF BeginExport
<1>8. ASSUME NEW i \in Items, SaveNew(i) PROVE CountsTyped'
  <2>1. creating' \subseteq [item : Items, base : Address]
    BY <1>1, <1>8 DEF SaveNew, CountsTyped, PageTyped
  <2>2. moves' \in 0..MaxMoves /\ failures' \in 0..MaxFailures
    BY <1>1, <1>8, CatalogPageAssumption DEF SaveNew, Moves, CountsTyped
  <2> QED
    BY <2>1, <2>2 DEF CountsTyped
<1>9. CASE Moves /\ UNCHANGED searchVars
  BY <1>2, <1>9 DEF searchVars
<1>10. CASE Arrive
  BY <1>3, <1>10 DEF Arrive
<1>11. ASSUME NEW t \in timers, Fire(t) PROVE CountsTyped'
  BY <1>1, <1>3, <1>11, FireNavigates
<1>12. CASE AnswerAny
  BY <1>3, <1>12 DEF AnswerAny, Answer
<1>13. ASSUME NEW r \in requests, SearchFails(r) PROVE CountsTyped'
  BY <1>1, <1>13, CatalogPageAssumption DEF SearchFails, CountsTyped
<1>14. ASSUME NEW done \in BOOLEAN, EndExport(done) PROVE CountsTyped'
  <2>1. failures' = failures \/ failures' = failures + 1
    BY <1>1, <1>14 DEF EndExport, CountsTyped
  <2> QED
    BY <1>1, <1>14, <2>1, CatalogPageAssumption DEF EndExport, CountsTyped
<1>15. CASE UNCHANGED <<searchVars, moves, failures>>
  BY <1>3, <1>15 DEF searchVars
<1>16. ASSUME NEW c \in creating, NEW done \in BOOLEAN, Created(c, done) PROVE CountsTyped'
  BY <1>1, <1>3, <1>16, CreatedNavigates
<1> QED
  BY <1>4, <1>5, <1>6, <1>7, <1>8, <1>9, <1>10, <1>11, <1>12, <1>13, <1>14, <1>15, <1>16
  DEF Next, User, Alone, FireAny

\* What a step keeps or changes when the address stays.
LEMMA BarStays ==
  ASSUME PageTyped, DrawerCurrent, UNCHANGED <<address, previous, drawerVars>>,
         GoingTyped', BarTyped', ExportTyped', SearchTyped'
  PROVE  PageTyped' /\ DrawerCurrent'
  BY DEF PageTyped, DrawerTypeOK, DrawerCurrent, NamesShown, drawerVars

LEMMA SearchStays ==
  ASSUME SearchTyped, SearchesCurrent, UNCHANGED <<address, requests, result, loading, error>>
  PROVE  SearchTyped' /\ SearchesCurrent'
  BY DEF SearchTyped, SearchesCurrent

LEMMA ExportStays ==
  ASSUME ExportTyped, ExportsCurrent, UNCHANGED <<address, exporting, notice>>
  PROVE  ExportTyped' /\ ExportsCurrent'
  BY DEF ExportTyped, ExportsCurrent

LEMMA DraftStays ==
  ASSUME GoingTyped, BarTyped, UNCHANGED <<going, lost, draft, timers>>
  PROVE  GoingTyped' /\ BarTyped'
  BY DEF GoingTyped, BarTyped

LEMMA TypeStep ==
  ASSUME PageTyped, NEW q \in Text, Type(q)
  PROVE  GoingTyped' /\ BarTyped'
<1>1. draft' = [draft EXCEPT !.q = q] /\ timers' = Delayed(q)
  BY DEF Type
<1>2. draft' \in Draft /\ draft'.q = q
  BY <1>1 DEF PageTyped, BarTyped, Draft
<1>3. BarTyped'
  BY <1>1, <1>2 DEF PageTyped, BarTyped, Delayed
<1>4. lost' = FALSE /\ going' = [going EXCEPT !.typed = going # Settled]
  BY DEF Type
<1>5. going' \in Change \cup {Settled}
  <2>1. CASE going = Settled
    BY <1>4, <2>1 DEF Settled
  <2>2. CASE going # Settled
    <3>1. going' = [going EXCEPT !.typed = TRUE]
      BY <1>4, <2>2
    <3> QED
      BY <2>2, <3>1 DEF PageTyped, GoingTyped, Change
  <2> QED
    BY <2>1, <2>2
<1> QED
  BY <1>3, <1>4, <1>5 DEF GoingTyped

LEMMA PickStep ==
  ASSUME PageTyped, NEW f \in Filter, Pick(f)
  PROVE  GoingTyped' /\ BarTyped'
<1>1. draft' = [draft EXCEPT !.filter = f] /\ UNCHANGED <<timers, going, lost>>
  BY DEF Pick
<1>2. draft' \in Draft /\ draft'.q = draft.q
  BY <1>1 DEF PageTyped, BarTyped, Draft
<1> QED
  BY <1>1, <1>2 DEF PageTyped, GoingTyped, BarTyped

\* The answer of a search, or its failure.
LEMMA RequestEnds ==
  ASSUME PageTyped, SearchesCurrent, NEW r \in requests,
         address' = address, requests' = requests \ {r},
         \/ r.cancelled /\ UNCHANGED <<result, loading, error>>
         \/ /\ ~r.cancelled /\ loading' = FALSE
            /\ \/ /\ \E size \in {"empty", "part", "full"} :
                       result' = [for |-> r.for, size |-> size]
                  /\ error' = error
               \/ result' = NoResult /\ error' = TRUE
  PROVE  SearchTyped' /\ SearchesCurrent'
<1>1. r.for \in Query /\ requests' \subseteq [for : Query, cancelled : BOOLEAN]
  BY DEF PageTyped, SearchTyped
<1>2. CASE r.cancelled /\ UNCHANGED <<result, loading, error>>
  BY <1>1, <1>2 DEF PageTyped, SearchTyped, SearchesCurrent
<1>3. ASSUME NEW size \in {"empty", "part", "full"},
             ~r.cancelled, loading' = FALSE, result' = [for |-> r.for, size |-> size],
             error' = error
      PROVE  SearchTyped' /\ SearchesCurrent'
  <2>1. r.for = QueryOf(address)
    BY <1>3 DEF SearchesCurrent
  <2>2. result' \in Result
    BY <1>1, <1>3 DEF Result
  <2>3. loading' \in BOOLEAN /\ error' \in BOOLEAN
    BY <1>3 DEF PageTyped, SearchTyped
  <2>4. SearchTyped'
    BY <1>1, <2>2, <2>3 DEF SearchTyped
  <2>5. SearchesCurrent'
    BY <1>3, <2>1 DEF SearchesCurrent
  <2> QED
    BY <2>4, <2>5
<1>4. CASE ~r.cancelled /\ loading' = FALSE /\ result' = NoResult /\ error' = TRUE
  BY <1>1, <1>4 DEF SearchTyped, SearchesCurrent
<1> QED
  BY <1>2, <1>3, <1>4

LEMMA AnswerStep ==
  ASSUME PageTyped, SearchesCurrent, NEW r \in requests, NEW size \in {"empty", "part", "full"},
         Answer(r, size)
  PROVE  SearchTyped' /\ SearchesCurrent'
  BY RequestEnds DEF Answer

LEMMA FailsStep ==
  ASSUME PageTyped, SearchesCurrent, NEW r \in requests, SearchFails(r)
  PROVE  SearchTyped' /\ SearchesCurrent'
  BY RequestEnds DEF SearchFails

LEMMA BeginExportStep ==
  ASSUME PageTyped, BeginExport
  PROVE  ExportTyped' /\ ExportsCurrent'
<1>1. /\ exporting' = [for |-> DraftOf(address), overtaken |-> FALSE] /\ notice' = NoExport
      /\ address' = address
  BY DEF BeginExport
<1>2. exporting' \in Export /\ exporting'.for = DraftOf(address)
  BY <1>1, AddressParts DEF PageTyped, Export
<1> QED
  BY <1>1, <1>2 DEF ExportTyped, ExportsCurrent

LEMMA EndExportStep ==
  ASSUME PageTyped, ExportsCurrent, NEW done \in BOOLEAN, EndExport(done)
  PROVE  ExportTyped' /\ ExportsCurrent'
<1>1. exporting' = NoExport /\ notice' \in {exporting, NoExport} /\ address' = address
  BY DEF EndExport
<1> QED
  BY <1>1 DEF PageTyped, ExportTyped, ExportsCurrent

-----------------------------------------------------------------------------
(* The invariant and the theorems.                                           *)

LEMMA PageStep ==
  TypeOK /\ SearchesCurrent /\ ExportsCurrent /\ DrawerCurrent /\ Next =>
    PageTyped' /\ SearchesCurrent' /\ ExportsCurrent' /\ DrawerCurrent'
<1> DEFINE Goal == PageTyped' /\ SearchesCurrent' /\ ExportsCurrent' /\ DrawerCurrent'
<1> SUFFICES ASSUME TypeOK, SearchesCurrent, ExportsCurrent, DrawerCurrent, Next
             PROVE  Goal
  OBVIOUS
<1>1. PageTyped /\ CountsTyped
  BY TypeParts
<1>2. GoingTyped /\ BarTyped /\ ExportTyped /\ SearchTyped /\ DrawerTypeOK
  BY <1>1 DEF PageTyped
<1>3. Navigates => Goal
  BY <1>1, NavigateStep
<1>4. UNCHANGED <<searchVars, drawerVars>> => Goal
  BY <1>1, <1>2, BarStays, SearchStays, ExportStays, DraftStays DEF searchVars
<1>5. ASSUME NEW q \in Text, Type(q) PROVE Goal
  <2>1. UNCHANGED <<address, previous, requests, result, loading, error, exporting, notice,
                    drawerVars>>
    BY <1>5 DEF Type
  <2> QED
    BY <1>1, <1>2, <1>5, <2>1, TypeStep, BarStays, SearchStays, ExportStays
<1>6. ASSUME NEW f \in Filter, Pick(f) PROVE Goal
  <2>1. UNCHANGED <<address, previous, requests, result, loading, error, exporting, notice,
                    drawerVars>>
    BY <1>6 DEF Pick
  <2> QED
    BY <1>1, <1>2, <1>6, <2>1, PickStep, BarStays, SearchStays, ExportStays
<1>7. CASE \/ Submit \/ Apply \/ Clear \/ BrowseAll \/ OpenNew \/ CloseItem \/ Back
           \/ \E offset \in 0..MaxPage : TurnPage(offset)
           \/ \E i \in Items : OpenItem(i)
  BY <1>1, <1>3, <1>7, UserNavigates
<1>8. CASE BeginExport
  <2>1. UNCHANGED <<address, going, lost, previous, draft, timers, requests, result, loading,
                    error, drawerVars>>
    BY <1>8 DEF BeginExport
  <2> QED
    BY <1>1, <1>2, <1>8, <2>1, BeginExportStep, BarStays, SearchStays, DraftStays
<1>9. ASSUME NEW i \in Items, SaveNew(i) PROVE Goal
  <2>1. UNCHANGED <<address, going, lost, previous, draft, timers, requests, result, loading,
                    error, exporting, notice, drawerVars>>
    BY <1>9 DEF SaveNew
  <2> QED
    BY <1>1, <1>2, <2>1, BarStays, SearchStays, ExportStays, DraftStays
<1>10. ASSUME UNCHANGED searchVars, DrawerTypeOK' /\ DrawerCurrent' PROVE Goal
  <2>1. UNCHANGED <<address, going, lost, previous, draft, timers, requests, result, loading,
                    error, exporting, notice>>
    BY <1>10 DEF searchVars
  <2>2. address' \in Address /\ previous' \in Address
    BY <1>1, <2>1 DEF PageTyped
  <2> QED
    BY <1>1, <1>2, <1>10, <2>1, <2>2, SearchStays, ExportStays, DraftStays DEF PageTyped
<1>11. CASE DrawerUser(address.item) /\ UNCHANGED searchVars
  BY <1>2, <1>10, <1>11, DrawerUserStep DEF searchVars
<1>12. CASE DrawerAlone /\ UNCHANGED searchVars
  BY <1>2, <1>10, <1>12, DrawerAloneStep DEF searchVars
<1>13. ASSUME NEW t \in timers, Fire(t) PROVE Goal
  BY <1>1, <1>3, <1>13, FireNavigates
<1>14. ASSUME UNCHANGED <<address, going, lost, previous, draft, timers, exporting, notice, drawerVars>>,
              SearchTyped' /\ SearchesCurrent'
       PROVE  Goal
  BY <1>1, <1>2, <1>14, BarStays, ExportStays, DraftStays
<1>15. ASSUME NEW r \in requests, NEW size \in {"empty", "part", "full"}, Answer(r, size)
       PROVE  Goal
  BY <1>1, <1>14, <1>15, AnswerStep DEF Answer
<1>16. ASSUME NEW r \in requests, SearchFails(r) PROVE Goal
  BY <1>1, <1>14, <1>16, FailsStep DEF SearchFails
<1>17. ASSUME NEW done \in BOOLEAN, EndExport(done) PROVE Goal
  <2>1. UNCHANGED <<address, going, lost, previous, draft, timers, requests, result, loading,
                    error, drawerVars>>
    BY <1>17 DEF EndExport
  <2> QED
    BY <1>1, <1>2, <1>17, <2>1, EndExportStep, BarStays, SearchStays, DraftStays
<1>18. ASSUME NEW c \in creating, NEW done \in BOOLEAN, Created(c, done) PROVE Goal
  <2>1. CASE UNCHANGED <<address, going, lost, previous, draft, timers, requests, result, loading,
                         error, exporting, notice, drawerVars>>
    BY <1>1, <1>2, <2>1, BarStays, SearchStays, ExportStays, DraftStays
  <2> QED
    BY <1>1, <1>3, <1>18, <2>1, CreatedNavigates
<1> HIDE DEF Goal
<1>19. CASE User
  BY <1>5, <1>6, <1>7, <1>8, <1>9, <1>11, <1>19 DEF User
<1>20. CASE Alone
  <2>1. AnswerAny => Goal
    BY <1>15 DEF AnswerAny
  <2>2. UNCHANGED <<searchVars, moves, failures>> => UNCHANGED searchVars
    OBVIOUS
  <2>3. Arrive => Goal
    BY <1>1, ArriveStep DEF Goal
  <2> QED
    BY <1>12, <1>13, <1>16, <1>17, <1>20, <2>1, <2>2, <2>3 DEF Alone, FireAny
<1> QED
  BY <1>18, <1>19, <1>20 DEF Next

\* Where the text in the box changes, no delayed search is on its way, or it is
\* marked.
LEMMA DelayStep == TypeOK /\ DelayKept /\ Next => DelayKept'
<1> SUFFICES ASSUME TypeOK, DelayKept, Next PROVE DelayKept'
  OBVIOUS
<1>1. draft \in Draft /\ going \in Change \cup {Settled}
  BY DEF TypeOK
<1>2. UNCHANGED <<going, draft>> => DelayKept'
  BY DEF DelayKept
<1>3. ASSUME NEW a, Goes(a, "other") PROVE DelayKept'
  BY <1>3 DEF Goes, DelayKept
<1>4. ASSUME NEW q \in Text, Type(q) PROVE DelayKept'
  <2>1. going' = [going EXCEPT !.typed = going # Settled]
    BY <1>4 DEF Type
  <2>2. CASE going = Settled
    BY <2>1, <2>2 DEF Settled, DelayKept
  <2>3. CASE going # Settled
    <3>1. going' = [going EXCEPT !.typed = TRUE]
      BY <2>1, <2>3
    <3> QED
      BY <1>1, <2>3, <3>1 DEF Change, DelayKept
  <2> QED
    BY <2>2, <2>3
<1>5. ASSUME NEW f \in Filter, Pick(f) PROVE DelayKept'
  BY <1>1, <1>5 DEF Pick, DelayKept, Draft
<1>6. ASSUME \/ Submit \/ Apply \/ Clear \/ BrowseAll \/ OpenNew \/ CloseItem \/ Back
             \/ \E offset \in 0..MaxPage : TurnPage(offset)
             \/ \E i \in Items : OpenItem(i)
      PROVE  DelayKept'
  BY <1>3, <1>6 DEF Submit, Apply, Clear, BrowseAll, OpenNew, CloseItem, Back, TurnPage,
                    OpenItem, GoesTo
<1>7. ASSUME NEW i \in Items, SaveNew(i) PROVE DelayKept'
  BY <1>2, <1>7 DEF SaveNew
<1>8. CASE BeginExport
  BY <1>2, <1>8 DEF BeginExport
<1>9. CASE UNCHANGED searchVars
  BY <1>2, <1>9 DEF searchVars
<1>10. CASE Arrive
  BY <1>10 DEF Arrive, DelayKept, Settled
<1>11. ASSUME NEW t \in timers, Fire(t) PROVE DelayKept'
  <2> DEFINE a == [t.base EXCEPT !.q = t.q, !.offset = 0, !.browse = FALSE]
  <2>1. t.base \in Address /\ t.q = draft.q
    BY DEF TypeOK
  <2>2. a.q = draft.q
    BY <2>1 DEF Address
  <2>3. Goes(a, "delay")
    BY <1>11 DEF Fire
  <2> HIDE DEF a
  <2> QED
    BY <2>2, <2>3 DEF Goes, DelayKept
<1>12. CASE AnswerAny
  BY <1>2, <1>12 DEF AnswerAny, Answer
<1>13. ASSUME NEW r \in requests, SearchFails(r) PROVE DelayKept'
  BY <1>2, <1>13 DEF SearchFails
<1>14. ASSUME NEW done \in BOOLEAN, EndExport(done) PROVE DelayKept'
  BY <1>2, <1>14 DEF EndExport
<1>15. ASSUME NEW c \in creating, NEW done \in BOOLEAN, Created(c, done) PROVE DelayKept'
  BY <1>2, <1>3, <1>15 DEF Created
<1>16. CASE User
  BY <1>4, <1>5, <1>6, <1>7, <1>8, <1>9, <1>16 DEF User
<1>17. CASE Alone
  <2>1. UNCHANGED <<searchVars, moves, failures>> => UNCHANGED searchVars
    OBVIOUS
  <2> QED
    BY <1>9, <1>10, <1>11, <1>12, <1>13, <1>14, <1>17, <2>1 DEF Alone, FireAny
<1> QED
  BY <1>15, <1>16, <1>17 DEF Next

LEMMA InitIInv == Init => IInv
<1> SUFFICES ASSUME Init PROVE IInv
  OBVIOUS
<1>1. Nothing \in Text /\ Nothing \in Filter
  BY DEF Text, Filter
<1>2. address \in Address /\ previous \in Address
  BY LandingIsAddress DEF Init
<1>3. GoingTyped /\ BarTyped
  BY <1>1 DEF Init, GoingTyped, BarTyped, Draft
<1>4. ExportTyped
  BY DEF Init, ExportTyped
<1>5. SearchTyped
  BY DEF Init, SearchTyped
<1>6. DrawerTypeOK
  BY DEF Init, DrawerInit, DrawerTypeOK
<1>7. CountsTyped
  BY CatalogPageAssumption DEF Init, CountsTyped
<1>8. TypeOK
  BY <1>2, <1>3, <1>4, <1>5, <1>6, <1>7, TypeParts DEF PageTyped
<1>9. SearchesCurrent
  BY DEF Init, SearchesCurrent, IsResults, Landing
<1>10. ExportsCurrent
  BY DEF Init, ExportsCurrent
<1>11. DrawerCurrent
  BY ItemDrawerAssumption DEF Init, DrawerInit, DrawerCurrent, NamesShown, Landing
<1>12. DelayKept
  BY DEF Init, DelayKept, Settled
<1> QED
  BY <1>8, <1>9, <1>10, <1>11, <1>12 DEF IInv

LEMMA NextIInv == IInv /\ [Next]_vars => IInv'
<1> SUFFICES ASSUME IInv, [Next]_vars PROVE IInv'
  OBVIOUS
<1>1. CASE Next
  <2>1. CountsTyped' /\ PageTyped'
    BY <1>1, CountsStep, PageStep DEF IInv
  <2>2. TypeOK'
    BY <2>1, TypePartsNext
  <2>3. DelayKept'
    BY <1>1, DelayStep DEF IInv
  <2> QED
    BY <1>1, <2>2, <2>3, PageStep DEF IInv
<1>2. CASE UNCHANGED vars
  <2>1. UNCHANGED searchVars /\ UNCHANGED drawerVars /\ UNCHANGED <<moves, failures>>
    BY <1>2 DEF vars
  <2>2. TypeOK'
    BY <2>1 DEF IInv, TypeOK, DrawerTypeOK, searchVars, drawerVars
  <2>3. SearchesCurrent' /\ ExportsCurrent' /\ DrawerCurrent'
    BY <2>1 DEF IInv, SearchesCurrent, ExportsCurrent, DrawerCurrent, NamesShown, searchVars,
               drawerVars
  <2>4. DelayKept'
    BY <2>1 DEF IInv, DelayKept, searchVars
  <2> QED
    BY <2>2, <2>3, <2>4 DEF IInv
<1> QED
  BY <1>1, <1>2

LEMMA Invariant == Spec => []IInv
  BY InitIInv, NextIInv, PTL DEF Spec

\* Every variable of the page and of its drawer keeps its type; in particular a
\* delayed search that is waiting is for the text in the box (the effect on
\* draftQ).
THEOREM TypeCorrect == Spec => []TypeOK
<1>1. IInv => TypeOK
  BY DEF IInv
<1> QED
  BY <1>1, Invariant, PTL

\* The result, the notice of an export and the item in the drawer are about what
\* the address holds, with the exceptions that ShownIsCurrent names.
THEOREM PageShowsItsAddress == Spec => []ShownIsCurrent
<1>1. IInv => ShownIsCurrent
  BY DEF IInv, SearchesCurrent, ExportsCurrent, DrawerCurrent, ShownIsCurrent
<1> QED
  BY <1>1, Invariant, PTL

\* No timer and no answer of a search, an export or the drawer changes the text
\* in the box, and a change of the address that arrives does so only with the two
\* exceptions that TypingIsKept names.
THEOREM NothingRetypes == Spec => TypingIsKept
<1> DEFINE Kept == \/ draft'.q = draft.q
                   \/ going.by = "other"
                   \/ going.typed
<1>1. IInv /\ [Next]_vars => [Alone => Kept]_vars
  <2> SUFFICES ASSUME IInv, Alone PROVE Kept
    OBVIOUS
  <2>1. CASE Arrive
    <3>1. draft' = draft \/ draft' = DraftOf(going.to)
      BY <2>1 DEF Arrive, Follows
    <3>2. going \in Change
      BY <2>1 DEF Arrive, IInv, TypeOK
    <3>3. going.by = "delay" /\ ~going.typed => going.to.q = draft.q
      BY DEF IInv, DelayKept
    <3> QED
      BY <3>1, <3>2, <3>3 DEF Change, DraftOf
  <2>2. CASE FireAny
    BY <2>2 DEF FireAny, Fire, Goes
  <2>3. CASE AnswerAny
    BY <2>3 DEF AnswerAny, Answer
  <2>4. ASSUME NEW r \in requests, SearchFails(r) PROVE Kept
    BY <2>4 DEF SearchFails
  <2>5. ASSUME NEW done \in BOOLEAN, EndExport(done) PROVE Kept
    BY <2>5 DEF EndExport
  <2>6. CASE UNCHANGED searchVars
    BY <2>6 DEF searchVars
  <2> QED
    BY <2>1, <2>2, <2>3, <2>4, <2>5, <2>6 DEF Alone
<1> QED
  BY <1>1, Invariant, PTL DEF Spec, TypingIsKept
=============================================================================
