--------------------------- MODULE MergeIdentity ---------------------------
(***************************************************************************)
(* Which catalog item a row of an uploaded file is (item-identity.ts and   *)
(* the merge loop of processBatchJob): rows of one file are matched by     *)
(* alias, or by item code if they have none, and the last one is kept;     *)
(* kept rows are matched with the live catalog, by alias first and then    *)
(* by item code.  Pure operators; Intake applies them when a file has been *)
(* read.                                                                   *)
(*                                                                         *)
(* An item is a record with at least a code and an alias.  Its fingerprint *)
(* is the item itself: the code hashes all the fields that Intake keeps of *)
(* an item.  (The hash also depends on the order of the extra columns, so  *)
(* a file whose columns moved counts more rows as updated.)                *)
(*                                                                         *)
(* live is the set of live items.  It names a code once: the lookup by     *)
(* code takes one row if there are more, and does not say which.  items    *)
(* are the rows of the file.                                               *)
(*                                                                         *)
(* Aliases are stored as they are written, and two conversions bring them  *)
(* to one form: JavaScript's, which trims every kind of white space, and   *)
(* the database's, which trims spaces only and has its own lower case.     *)
(***************************************************************************)
EXTENDS Naturals, Sequences

CONSTANTS
  Lower,    \* trim() and toLowerCase() of JavaScript
  SqlLower  \* lower(trim()) of the database

NoText == ""

\* No alias, and an alias of nothing but spaces, is NoText.
normalizeAlias(alias) == IF alias = NoText THEN NoText ELSE Lower[alias]

HasAlias(item) == normalizeAlias(item.alias) # NoText

\* WRONG (breaks AliasesStayUnique): aliases are compared as they are written
identityKeyAsWritten(item) ==
  IF HasAlias(item) THEN <<"alias", item.alias>> ELSE <<"code", Lower[item.code]>>

identityKey(item) ==
  IF HasAlias(item) THEN <<"alias", normalizeAlias(item.alias)>>
                    ELSE <<"code", Lower[item.code]>>

\* WRONG (breaks FileShown): the first row of an identity is kept
KeptFirst(items) ==
  {i \in 1..Len(items) :
     \A j \in 1..(i - 1) : identityKey(items[j]) # identityKey(items[i])}

\* dedupeByAlias: the positions of the rows that are kept
Kept(items) ==
  {i \in 1..Len(items) :
     \A j \in (i + 1)..Len(items) : identityKey(items[j]) # identityKey(items[i])}

-----------------------------------------------------------------------------
SameAlias(r, s) == HasAlias(r) /\ normalizeAlias(r.alias) = normalizeAlias(s.alias)

\* The two conversions make two aliases of this one.
ToldApart(item) == SqlLower[item.alias] # Lower[item.alias]

\* The live items that the database finds for the aliases of the file.
Fetched(live, items) ==
  LET aliases == {normalizeAlias(items[i].alias) : i \in {k \in Kept(items) : HasAlias(items[k])}}
  IN  {r \in live : SqlLower[r.alias] \in aliases}

LiveByAlias(live, items, item) == {r \in Fetched(live, items) : SameAlias(item, r)}
LiveByCode(live, item) == {r \in live : r.code = item.code}

\* the alias belongs to several live items already
Ambiguous(live, items, item) ==
  \E r, s \in LiveByAlias(live, items, item) : r # s

\* the alias is live on one item and the code on another
Conflicting(live, items, item) ==
  \E r \in LiveByAlias(live, items, item), s \in LiveByCode(live, item) : r # s

\* reported, and not merged
Refused(live, items, item) == Ambiguous(live, items, item) \/ Conflicting(live, items, item)

\* The live item that an accepted row updates, as a set of at most one.
CurrentRows(live, items, item) ==
  IF LiveByAlias(live, items, item) # {} THEN LiveByAlias(live, items, item)
                                         ELSE LiveByCode(live, item)

\* A row whose alias is live under another code is merged under that code.
Incoming(live, items, item) ==
  IF LiveByAlias(live, items, item) # {}
  THEN [item EXCEPT !.code = (CHOOSE r \in LiveByAlias(live, items, item) : TRUE).code]
  ELSE item

Unchanged(live, items, item) == Incoming(live, items, item) \in CurrentRows(live, items, item)

\* What a file inserts.
ToInsert(live, items) ==
  {Incoming(live, items, items[i]) :
     i \in {k \in Kept(items) :
              ~Refused(live, items, items[k]) /\ ~Unchanged(live, items, items[k])}}

\* The live items once rows are published: their codes are superseded.
AfterPublish(live, rows) ==
  {r \in live : \A s \in rows : s.code # r.code} \cup rows
=============================================================================
