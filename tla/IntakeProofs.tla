---------------------------- MODULE IntakeProofs ----------------------------
(***************************************************************************)
(* What holds of Intake for every set of texts, rows, catalogs and edits,  *)
(* and every file: the types of the scan, that it misses no row and takes  *)
(* none twice, and the two promises of the merge.  The scan rests on       *)
(* SheetsInv, which says of a sheet that is half read what it has given so *)
(* far.  The merge rests on two lemmas about the pure operators of         *)
(* MergeIdentity, MergeKeepsAliasesUnique and MergeShowsFile, and on the   *)
(* invariant that what waits to be published is what the merge of the file *)
(* with the live catalog gives, as long as that catalog is the same.       *)
(***************************************************************************)
EXTENDS Intake, WellFoundedInduction, FiniteSetTheorems, TLAPS

-----------------------------------------------------------------------------
(* Layouts.                                                                  *)

LEMMA LeastElement ==
  ASSUME NEW S \in SUBSET Nat, S # {}
  PROVE  \E n \in S : \A m \in S : n <= m
<1> DEFINE R == OpToRel(<, Nat)
<1>1. IsWellFoundedOn(R, Nat)
  BY NatLessThanWellFounded
<1>2. \A m, n \in Nat : m < n => <<m, n>> \in R
  BY DEF OpToRel
<1> HIDE DEF R
<1>3. PICK n \in S : \A m \in S : ~(<<m, n>> \in R)
  BY <1>1, WFMin
<1>4. ASSUME NEW m \in S PROVE n <= m
  <2>1. m \in Nat /\ n \in Nat
    BY <1>3
  <2>2. ~(m < n)
    BY <1>2, <1>3, <2>1
  <2> QED
    BY <2>1, <2>2
<1> QED
  BY <1>4

\* A column of a header row is at a place of that row.
LEMMA ColumnIsThere ==
  ASSUME NEW heading \in Seq(Texts), NEW c \in Columns(heading)
  PROVE  ColumnAt(heading, c) \in 1..Len(heading)
<1> DEFINE places == {i \in 1..Len(heading) : NormalHeader[heading[i]] = c}
<1>1. places \in SUBSET Nat /\ places # {}
  BY DEF Columns
<1>2. PICK i \in places : \A j \in places : i <= j
  BY <1>1, LeastElement
<1>3. /\ i \in 1..Len(heading)
      /\ NormalHeader[heading[i]] = c
      /\ \A j \in 1..(i - 1) : NormalHeader[heading[j]] # c
  BY <1>2
<1> QED
  BY <1>3 DEF ColumnAt

LEMMA CellIsText ==
  ASSUME NEW heading \in Seq(Texts), NEW r \in Seq(Texts), NEW c
  PROVE  Cell(heading, r, c) \in Texts
<1>1. CASE c = FirstCell
  BY <1>1, LayoutsAssumption DEF Cell
<1>2. CASE c # FirstCell /\ c \in Columns(heading)
  BY <1>2, ColumnIsThere, LayoutsAssumption DEF Cell
<1>3. CASE c # FirstCell /\ c \notin Columns(heading)
  BY <1>3, LayoutsAssumption DEF Cell
<1> QED
  BY <1>1, <1>2, <1>3

LEMMA FirstFilledIsText ==
  ASSUME NEW heading \in Seq(Texts), NEW r \in Seq(Texts), NEW places
  PROVE  FirstFilled(heading, r, places) \in Texts
  BY CellIsText, LayoutsAssumption DEF FirstFilled

LEMMA LayoutIsKnown ==
  ASSUME NEW r
  PROVE  LayoutOf(r) \in Range(Registry) \cup {NoLayout}
<1> DEFINE accepting == {k \in 1..Len(Registry) : Detects(Registry[k], r)}
<1>1. CASE accepting = {}
  BY <1>1 DEF LayoutOf
<1>2. CASE accepting # {}
  <2>1. PICK k \in accepting : \A j \in accepting : k <= j
    <3>1. accepting \in SUBSET Nat
      BY DEF Registry
    <3> QED
      BY <1>2, <3>1, LeastElement
  <2> DEFINE first == CHOOSE i \in accepting : \A j \in accepting : i <= j
  <2>2. first \in 1..Len(Registry)
    BY <2>1
  <2>3. LayoutOf(r) = Registry[first]
    BY <1>2 DEF LayoutOf
  <2> HIDE DEF first
  <2> QED
    BY <2>2, <2>3 DEF Range, Registry
<1> QED
  BY <1>1, <1>2

LEMMA ParsedIsItem ==
  ASSUME NEW layout \in Range(Registry), NEW heading \in Seq(Texts), NEW r \in Seq(Texts)
  PROVE  ParsedItem(layout, heading, r) \in Item
<1>1. CodeOf(layout, heading, r) \in Texts /\ NameOf(layout, heading, r) \in Texts
  BY FirstFilledIsText DEF CodeOf, NameOf
<1>2. \A c : Cell(heading, r, c) \in Texts
  BY CellIsText
<1>3. Columns(heading) \subseteq Texts
  BY LayoutsAssumption DEF Columns
<1>4. \A c \in Columns(heading) : heading[ColumnAt(heading, c)] \in Texts
  BY ColumnIsThere
<1>5. {<<c, Cell(heading, r, c)>> :
         c \in {d \in Columns(heading) \cap layout.captured : Cell(heading, r, d) # Blank}}
      \in SUBSET (Texts \X Texts)
  BY <1>2, <1>3
<1>6. {<<heading[ColumnAt(heading, c)], Cell(heading, r, c)>> :
         c \in {d \in Columns(heading) \ knownHeaderKeys(layout) :
                  ~isPlaceholderValue(Cell(heading, r, d))}}
      \in SUBSET (Texts \X Texts)
  BY <1>2, <1>4
<1> QED
  BY <1>1, <1>2, <1>3, <1>5, <1>6 DEF ParsedItem, Item

LEMMA LabelsAreTexts ==
  ASSUME NEW layout, NEW heading \in Seq(Texts)
  PROVE  ExtraLabels(layout, heading) \subseteq Texts
  BY ColumnIsThere DEF ExtraLabels

-----------------------------------------------------------------------------
(* MergeIdentity.                                                            *)

\* Merging a row under another code keeps everything else of it.
LEMMA IncomingIsItem ==
  ASSUME NEW known \in SUBSET Item, NEW items, NEW item \in Item
  PROVE  Incoming(known, items, item) \in Item /\ Incoming(known, items, item).alias = item.alias
<1>1. CASE LiveByAlias(known, items, item) # {}
  <2> DEFINE c == CHOOSE r \in LiveByAlias(known, items, item) : TRUE
  <2>1. c \in known
    BY <1>1 DEF LiveByAlias, Fetched
  <2>2. c.code \in Texts
    BY <2>1 DEF Item
  <2>3. Incoming(known, items, item) = [item EXCEPT !.code = c.code]
    BY <1>1 DEF Incoming
  <2> HIDE DEF c
  <2> QED
    BY <2>2, <2>3 DEF Item
<1>2. CASE LiveByAlias(known, items, item) = {}
  BY <1>2 DEF Incoming
<1> QED
  BY <1>1, <1>2

LEMMA InsertsItems ==
  ASSUME NEW known \in SUBSET Item, NEW items \in Seq(Item)
  PROVE  ToInsert(known, items) \subseteq Item
<1>1. \A i \in Kept(items) : items[i] \in Item
  BY DEF Kept
<1> QED
  BY <1>1, IncomingIsItem DEF ToInsert

\* The alias of a row that is kept is looked up: the query finds the live items
\* that have it, but for those whose alias it tells apart.
LEMMA FindsAlias ==
  ASSUME NEW known \in SUBSET Item, NEW items, NEW i \in Kept(items),
         NEW r \in known, SameAlias(items[i], r), ~ToldApart(r)
  PROVE  r \in LiveByAlias(known, items, items[i])
<1>1. Lower[r.alias] = normalizeAlias(items[i].alias) /\ HasAlias(items[i])
  BY DEF SameAlias, HasAlias, normalizeAlias
<1>2. SqlLower[r.alias] = normalizeAlias(items[i].alias)
  BY <1>1 DEF ToldApart
<1> QED
  BY <1>1, <1>2 DEF LiveByAlias, Fetched

\* A row that is merged takes the code of the live item found for its alias.
LEMMA TakesCodeOfAlias ==
  ASSUME NEW known \in SUBSET Item, NEW items, NEW item \in Item,
         ~Refused(known, items, item), NEW r \in LiveByAlias(known, items, item)
  PROVE  Incoming(known, items, item).code = r.code
<1>1. LiveByAlias(known, items, item) = {r}
  BY DEF Refused, Ambiguous
<1>2. Incoming(known, items, item) = [item EXCEPT !.code = r.code]
  BY <1>1 DEF Incoming
<1> QED
  BY <1>2 DEF Item

\* Two items with one alias after a merge were two items with it before, or one
\* that the query does not find.
LEMMA MergeKeepsAliasesUnique ==
  ASSUME NEW known \in SUBSET Item, NEW items \in Seq(Item),
         NEW r \in AfterPublish(known, ToInsert(known, items)),
         NEW s \in AfterPublish(known, ToInsert(known, items)),
         r # s, SameAlias(r, s)
  PROVE  \/ \E p, q \in known : p # q /\ SameAlias(p, q) /\ SameAlias(p, r)
         \/ \E p \in known : SameAlias(p, r) /\ ToldApart(p)
<1> DEFINE rows == ToInsert(known, items)
           stays(t) == t \in known /\ \A x \in rows : x.code # t.code
<1>1. (stays(r) \/ r \in rows) /\ (stays(s) \/ s \in rows)
  BY DEF AfterPublish
<1>2. SameAlias(s, r) /\ SameAlias(r, r)
  BY DEF SameAlias, HasAlias
<1>3. \A x \in rows : \E i \in Kept(items) :
        items[i] \in Item /\ ~Refused(known, items, items[i]) /\ x = Incoming(known, items, items[i])
  BY DEF ToInsert, Kept
\* a row with the alias of a live item supersedes that item
<1>4. ASSUME NEW x \in rows, NEW t, stays(t), SameAlias(x, t), ~ToldApart(t)
      PROVE  FALSE
  <2>1. PICK i \in Kept(items) :
          items[i] \in Item /\ ~Refused(known, items, items[i]) /\ x = Incoming(known, items, items[i])
    BY <1>3
  <2>2. x.alias = items[i].alias
    BY <2>1, IncomingIsItem
  <2>3. SameAlias(items[i], t)
    BY <1>4, <2>2 DEF SameAlias, HasAlias
  <2>4. t \in LiveByAlias(known, items, items[i])
    BY <1>4, <2>3, FindsAlias
  <2>5. x.code = t.code
    BY <2>1, <2>4, TakesCodeOfAlias
  <2> QED
    BY <1>4, <2>5
\* of the rows of a file with one alias, one is kept
<1>5. ASSUME NEW x \in rows, NEW y \in rows, SameAlias(x, y)
      PROVE  x = y
  <2>1. PICK i \in Kept(items) : items[i] \in Item /\ x = Incoming(known, items, items[i])
    BY <1>3
  <2>2. PICK j \in Kept(items) : items[j] \in Item /\ y = Incoming(known, items, items[j])
    BY <1>3
  <2>3. x.alias = items[i].alias /\ y.alias = items[j].alias
    BY <2>1, <2>2, IncomingIsItem
  <2>4. identityKey(items[i]) = identityKey(items[j])
    BY <1>5, <2>3 DEF SameAlias, HasAlias, identityKey
  <2>5. i = j
    BY <2>4 DEF Kept
  <2> QED
    BY <2>1, <2>2, <2>5
<1>6. CASE stays(r) /\ stays(s)
  BY <1>2, <1>6
<1>7. CASE r \in rows /\ stays(s)
  BY <1>2, <1>4, <1>7
<1>8. CASE stays(r) /\ s \in rows
  BY <1>2, <1>4, <1>8
<1>9. CASE r \in rows /\ s \in rows
  BY <1>5, <1>9
<1> QED
  BY <1>1, <1>6, <1>7, <1>8, <1>9

\* A kept row that is merged under a code of its own is live afterwards,
\* inserted or as it was.
LEMMA MergeShowsFile ==
  ASSUME NEW known \in SUBSET Item, NEW items \in Seq(Item),
         NEW i \in Kept(items), ~Refused(known, items, items[i]),
         \A j \in Kept(items) :
           j # i => Incoming(known, items, items[j]).code # Incoming(known, items, items[i]).code
  PROVE  Incoming(known, items, items[i]) \in AfterPublish(known, ToInsert(known, items))
<1> DEFINE x == Incoming(known, items, items[i])
<1>1. CASE ~Unchanged(known, items, items[i])
  BY <1>1 DEF ToInsert, AfterPublish
<1>2. CASE Unchanged(known, items, items[i])
  <2>1. x \in known
    BY <1>2 DEF Unchanged, CurrentRows, LiveByAlias, Fetched, LiveByCode
  <2>2. \A s \in ToInsert(known, items) : s.code # x.code
    BY <1>2 DEF ToInsert
  <2> QED
    BY <2>1, <2>2 DEF AfterPublish
<1> QED
  BY <1>1, <1>2

-----------------------------------------------------------------------------
(* Sheets that grow by a row, and files that grow by a sheet.                *)

LEMMA HeaderIsFirst ==
  ASSUME NEW s, Len(s) \in Nat, HeaderRows(s) # {}
  PROVE  /\ HeaderRow(s) \in HeaderRows(s)
         /\ \A j \in HeaderRows(s) : HeaderRow(s) <= j
<1> DEFINE found == HeaderRows(s)
<1>1. found \in SUBSET Nat /\ found # {}
  BY DEF HeaderRows
<1> HIDE DEF found
<1>2. \E i \in found : \A j \in found : i <= j
  BY <1>1, LeastElement
<1>3. HeaderRow(s) = CHOOSE i \in found : \A j \in found : i <= j
  BY DEF HeaderRow, found
<1>4. HeaderRow(s) \in found /\ \A j \in found : HeaderRow(s) <= j
  BY <1>2, <1>3
<1> QED
  BY <1>4 DEF found

LEMMA AppendedRow ==
  ASSUME NEW s \in Seq(Rows), NEW r \in Rows
  PROVE  /\ Append(s, r) \in Seq(Rows)
         /\ Len(Append(s, r)) = Len(s) + 1
         /\ Append(s, r)[Len(s) + 1] = r
         /\ \A i \in 1..Len(s) : Append(s, r)[i] = s[i]
         /\ Len(s) \in Nat
  OBVIOUS

\* A header that has been found stays the header, and the row is below it.
LEMMA RowBelow ==
  ASSUME NEW s \in Seq(Rows), NEW r \in Rows, HeaderRows(s) # {}
  PROVE  LET t == Append(s, r)
         IN  /\ HeaderRows(t) # {}
             /\ HeaderOf(t) = HeaderOf(s)
             /\ Below(t) = Below(s) \cup {Len(s) + 1}
             /\ Len(s) + 1 \notin Below(s)
             /\ HeaderRow(s) \in 1..Len(s)
<1> DEFINE t == Append(s, r)
<1>1. /\ Len(t) = Len(s) + 1 /\ t[Len(s) + 1] = r /\ Len(s) \in Nat
      /\ \A i \in 1..Len(s) : t[i] = s[i]
  BY AppendedRow
<1> HIDE DEF t
<1>2. HeaderRow(s) \in HeaderRows(s) /\ \A j \in HeaderRows(s) : HeaderRow(s) <= j
  BY <1>1, HeaderIsFirst
<1>3. HeaderRow(s) \in 1..Len(s) /\ HeaderRow(s) <= HeaderLimit
  BY <1>2 DEF HeaderRows
<1>4. HeaderRow(s) \in HeaderRows(t)
  BY <1>1, <1>2, <1>3 DEF HeaderRows
<1>5. \A j \in HeaderRows(t) : HeaderRow(s) <= j
  <2> TAKE j \in HeaderRows(t)
  <2>1. j \in 1..Len(s) => j \in HeaderRows(s)
    BY <1>1 DEF HeaderRows
  <2>2. j \in 1..(Len(s) + 1)
    BY <1>1 DEF HeaderRows
  <2> QED
    BY <1>1, <1>2, <1>3, <2>1, <2>2
<1>6. HeaderRow(t) \in HeaderRows(t) /\ \A j \in HeaderRows(t) : HeaderRow(t) <= j
  BY <1>1, <1>4, HeaderIsFirst
<1>7. HeaderRow(t) \in Nat
  BY <1>1, <1>6 DEF HeaderRows
<1>8. HeaderRow(t) = HeaderRow(s)
  BY <1>3, <1>4, <1>5, <1>6, <1>7
<1>9. HeaderOf(t) = HeaderOf(s)
  BY <1>1, <1>3, <1>8 DEF HeaderOf
<1>10. Below(s) = (HeaderRow(s) + 1)..Len(s) /\ Below(t) = (HeaderRow(s) + 1)..(Len(s) + 1)
  BY <1>1, <1>4, <1>8 DEF Below
<1>11. Below(t) = Below(s) \cup {Len(s) + 1} /\ Len(s) + 1 \notin Below(s)
  BY <1>1, <1>3, <1>10
<1> QED
  BY <1>3, <1>4, <1>9, <1>11 DEF t

LEMMA RowIsHeader ==
  ASSUME NEW s \in Seq(Rows), NEW r \in Rows, HeaderRows(s) = {},
         Len(s) < HeaderLimit, LayoutOf(r) # NoLayout
  PROVE  LET t == Append(s, r)
         IN  /\ HeaderRows(t) # {}
             /\ HeaderOf(t) = r
             /\ Below(t) = {}
<1> DEFINE t == Append(s, r)
<1>1. /\ Len(t) = Len(s) + 1 /\ t[Len(s) + 1] = r /\ Len(s) \in Nat
      /\ \A i \in 1..Len(s) : t[i] = s[i]
  BY AppendedRow
<1> HIDE DEF t
<1>2. HeaderLimit \in Nat
  BY IntakeAssumption
<1>3. Len(s) + 1 \in HeaderRows(t)
  BY <1>1, <1>2 DEF HeaderRows
<1>4. \A j \in HeaderRows(t) : j = Len(s) + 1
  <2> TAKE j \in HeaderRows(t)
  <2>1. j \in 1..(Len(s) + 1)
    BY <1>1 DEF HeaderRows
  <2>2. j \notin 1..Len(s)
    BY <1>1 DEF HeaderRows
  <2> QED
    BY <1>1, <2>1, <2>2
<1>5. HeaderRow(t) = Len(s) + 1
  BY <1>1, <1>3, <1>4, HeaderIsFirst
<1>6. HeaderOf(t) = r
  BY <1>1, <1>5 DEF HeaderOf
<1>7. Below(t) = {}
  BY <1>1, <1>5 DEF Below
<1> QED
  BY <1>3, <1>6, <1>7 DEF t

LEMMA RowIsNoHeader ==
  ASSUME NEW s \in Seq(Rows), NEW r \in Rows, HeaderRows(s) = {}, LayoutOf(r) = NoLayout
  PROVE  HeaderRows(Append(s, r)) = {}
<1> DEFINE t == Append(s, r)
<1>1. /\ Len(t) = Len(s) + 1 /\ t[Len(s) + 1] = r /\ Len(s) \in Nat
      /\ \A i \in 1..Len(s) : t[i] = s[i]
  BY AppendedRow
<1> HIDE DEF t
<1>2. \A j \in 1..(Len(s) + 1) : j \in 1..Len(s) \/ j = Len(s) + 1
  BY <1>1
<1>3. HeaderRows(t) = {}
  BY <1>1, <1>2 DEF HeaderRows
<1> QED
  BY <1>3 DEF t

\* Which rows and sheets of a file change when its last sheet does.
LEMMA LastSheet ==
  ASSUME NEW file \in Seq(Seq(Rows)), file # <<>>, NEW t \in Seq(Rows)
  PROVE  LET n == Len(file)
             g == [file EXCEPT ![n] = t]
         IN  /\ n \in 1..Len(file) /\ n \in Nat
             /\ g \in Seq(Seq(Rows)) /\ Len(g) = n /\ g[n] = t
             /\ \A k \in 1..n : k # n => g[k] = file[k]
             /\ file[n] \in Seq(Rows)
  OBVIOUS

LEMMA SameSheetRows ==
  ASSUME NEW file \in Seq(Seq(Rows)), file # <<>>, NEW t \in Seq(Rows),
         Below(file[Len(file)]) = {}, Below(t) = {}
  PROVE  LET g == [file EXCEPT ![Len(file)] = t]
         IN  /\ DataRows(g) = DataRows(file)
             /\ AcceptedRows(g) = AcceptedRows(file)
             /\ \A p \in AcceptedRows(file) : ItemAt(g, p) = ItemAt(file, p)
<1> DEFINE n == Len(file)
           g == [file EXCEPT ![n] = t]
<1>1. /\ n \in 1..n /\ Len(g) = n /\ g[n] = t
      /\ \A k \in 1..n : k # n => g[k] = file[k]
  BY LastSheet
<1> HIDE DEF g, n
<1>2. Accepted(file[n]) = {} /\ Accepted(t) = {}
  BY DEF Accepted, n
<1>3. \A k \in 1..n : Below(g[k]) = Below(file[k]) /\ Accepted(g[k]) = Accepted(file[k])
  BY <1>1, <1>2 DEF n
<1>4. DataRows(g) = DataRows(file) /\ AcceptedRows(g) = AcceptedRows(file)
  BY <1>1, <1>3 DEF DataRows, AcceptedRows, n
<1>5. ASSUME NEW p \in AcceptedRows(file) PROVE ItemAt(g, p) = ItemAt(file, p)
  <2>1. PICK k \in 1..n : p \in {k} \X Accepted(file[k])
    BY DEF AcceptedRows, n
  <2>2. k # n /\ p[1] = k
    BY <1>2, <2>1
  <2> QED
    BY <1>1, <2>1, <2>2 DEF ItemAt
<1> QED
  BY <1>4, <1>5 DEF g, n

\* A row read below the header of the last sheet.
LEMMA RowRead ==
  ASSUME NEW file \in Seq(Seq(Rows)), file # <<>>, NEW r \in Rows,
         HeaderRows(file[Len(file)]) # {}
  PROVE  LET n == Len(file)
             s == file[n]
             h == HeaderOf(s)
             q == <<n, Len(s) + 1>>
             g == [file EXCEPT ![n] = Append(s, r)]
         IN  /\ DataRows(g) = DataRows(file) \cup {q} /\ q \notin DataRows(file)
             /\ AcceptedRows(g) =
                  AcceptedRows(file) \cup (IF Skips(LayoutOf(h), h, r) THEN {} ELSE {q})
             /\ ItemAt(g, q) = ParsedItem(LayoutOf(h), h, r)
             /\ \A p \in AcceptedRows(file) : Before(p, q) /\ ItemAt(g, p) = ItemAt(file, p)
<1> DEFINE n == Len(file)
           s == file[n]
           h == HeaderOf(s)
           m == Len(s) + 1
           q == <<n, m>>
           t == Append(s, r)
           g == [file EXCEPT ![n] = t]
           skipped == Skips(LayoutOf(h), h, r)
<1>1. s \in Seq(Rows) /\ t \in Seq(Rows) /\ HeaderRows(s) # {}
  BY LastSheet, AppendedRow
<1>2. /\ n \in 1..n /\ n \in Nat /\ Len(g) = n /\ g[n] = t
      /\ \A k \in 1..n : k # n => g[k] = file[k]
  BY <1>1, LastSheet
<1>3. /\ t[m] = r /\ m \in Nat
      /\ \A i \in 1..Len(s) : t[i] = s[i]
  BY <1>1, AppendedRow
<1>4. /\ HeaderOf(t) = h
      /\ Below(t) = Below(s) \cup {m} /\ m \notin Below(s)
      /\ HeaderRow(s) \in 1..Len(s)
  BY <1>1, RowBelow
<1>5. Below(s) \subseteq 1..Len(s)
  BY <1>1, <1>4 DEF Below
<1>6. Len(file) = n /\ file[n] = s
  OBVIOUS
<1> HIDE DEF n, s, h, m, t, g, skipped
<1>7. Accepted(t) = Accepted(s) \cup (IF skipped THEN {} ELSE {m})
  <2>1. \A i \in Below(s) : t[i] = s[i]
    BY <1>3, <1>5
  <2>2. Accepted(s) = {i \in Below(s) : ~Skips(LayoutOf(h), h, s[i])}
    BY DEF Accepted, h
  <2>3. Accepted(t) = {i \in Below(t) : ~Skips(LayoutOf(h), h, t[i])}
    BY <1>4 DEF Accepted
  <2>4. Skips(LayoutOf(h), h, t[m]) <=> skipped
    BY <1>3 DEF skipped
  <2> QED
    BY <1>4, <2>1, <2>2, <2>3, <2>4
<1>8. DataRows(g) = DataRows(file) \cup {q}
  <2>1. DataRows(g) = UNION {{k} \X Below(g[k]) : k \in 1..n}
    BY <1>2 DEF DataRows
  <2>2. DataRows(file) = UNION {{k} \X Below(file[k]) : k \in 1..n}
    BY <1>6 DEF DataRows
  <2>3. \A k \in 1..n : {k} \X Below(g[k]) =
                          ({k} \X Below(file[k])) \cup (IF k = n THEN {q} ELSE {})
    BY <1>2, <1>4, <1>6
  <2> QED
    BY <1>2, <2>1, <2>2, <2>3
<1>9. q \notin DataRows(file)
  BY <1>4, <1>6 DEF DataRows
<1>10. AcceptedRows(g) = AcceptedRows(file) \cup (IF skipped THEN {} ELSE {q})
  <2>1. AcceptedRows(g) = UNION {{k} \X Accepted(g[k]) : k \in 1..n}
    BY <1>2 DEF AcceptedRows
  <2>2. AcceptedRows(file) = UNION {{k} \X Accepted(file[k]) : k \in 1..n}
    BY <1>6 DEF AcceptedRows
  <2>3. \A k \in 1..n : {k} \X Accepted(g[k]) =
          ({k} \X Accepted(file[k])) \cup (IF k = n /\ ~skipped THEN {q} ELSE {})
    BY <1>2, <1>6, <1>7
  <2> QED
    BY <1>2, <2>1, <2>2, <2>3
<1>11. ItemAt(g, q) = ParsedItem(LayoutOf(h), h, r)
  BY <1>2, <1>3, <1>4 DEF ItemAt
<1>12. ASSUME NEW p \in AcceptedRows(file) PROVE Before(p, q) /\ ItemAt(g, p) = ItemAt(file, p)
  <2>1. PICK k \in 1..n : p \in {k} \X Accepted(file[k])
    BY <1>6 DEF AcceptedRows
  <2>2. PICK i \in Accepted(file[k]) : p = <<k, i>>
    BY <2>1
  <2>3. CASE k # n
    <3>1. k < n
      BY <1>2, <2>3
    <3>2. g[k] = file[k]
      BY <1>2, <2>3
    <3> QED
      BY <2>2, <3>1, <3>2 DEF Before, ItemAt
  <2>4. CASE k = n
    <3>1. i \in Below(s)
      BY <1>6, <2>2, <2>4 DEF Accepted
    <3>2. i < m /\ t[i] = s[i]
      BY <1>1, <1>3, <1>5, <3>1 DEF m
    <3> QED
      BY <1>2, <1>4, <1>6, <2>2, <2>4, <3>2 DEF Before, ItemAt, h
  <2> QED
    BY <2>3, <2>4
<1> QED
  BY <1>8, <1>9, <1>10, <1>11, <1>12 DEF n, s, h, m, t, g, skipped

\* A sheet that is opened.
LEMMA SheetOpened ==
  ASSUME NEW file \in Seq(Seq(Rows))
  PROVE  LET g == Append(file, <<>>)
         IN  /\ g \in Seq(Seq(Rows)) /\ Len(g) = Len(file) + 1 /\ g # <<>>
             /\ g[Len(g)] = <<>>
             /\ DataRows(g) = DataRows(file)
             /\ AcceptedRows(g) = AcceptedRows(file)
             /\ \A p \in AcceptedRows(file) : ItemAt(g, p) = ItemAt(file, p)
             /\ Unreadable(g) = Unreadable(file) \cup {Len(file) + 1}
             /\ Len(file) + 1 \notin Unreadable(file)
<1> DEFINE g == Append(file, <<>>)
           n == Len(file)
<1>1. /\ n \in Nat /\ g \in Seq(Seq(Rows)) /\ Len(g) = n + 1 /\ g # <<>> /\ g[n + 1] = <<>>
      /\ \A k \in 1..n : g[k] = file[k]
  <2>1. <<>> \in Seq(Rows) /\ n \in Nat
    OBVIOUS
  <2>2. g \in Seq(Seq(Rows)) /\ Len(g) = n + 1
    BY <2>1
  <2>3. g # <<>>
    BY <2>1, <2>2
  <2> QED
    BY <2>1, <2>2, <2>3
<1>2. Len(file) = n
  OBVIOUS
<1> HIDE DEF g, n
<1>3. HeaderRows(g[n + 1]) = {}
  BY <1>1 DEF HeaderRows
<1>4. Below(g[n + 1]) = {} /\ Accepted(g[n + 1]) = {}
  BY <1>3 DEF Below, Accepted
<1>5. \A k \in 1..(n + 1) : k \in 1..n \/ k = n + 1
  BY <1>1
<1>6. 1..n \subseteq 1..(n + 1) /\ n + 1 \in 1..(n + 1) /\ n + 1 \notin 1..n
  BY <1>1
<1>7. DataRows(g) = DataRows(file)
  BY <1>1, <1>2, <1>4, <1>5, <1>6 DEF DataRows
<1>8. AcceptedRows(g) = AcceptedRows(file)
  BY <1>1, <1>2, <1>4, <1>5, <1>6 DEF AcceptedRows
<1>9. ASSUME NEW p \in AcceptedRows(file) PROVE ItemAt(g, p) = ItemAt(file, p)
  <2>1. p[1] \in 1..n
    BY <1>2 DEF AcceptedRows
  <2> QED
    BY <1>1, <2>1 DEF ItemAt
<1>10. Unreadable(g) = Unreadable(file) \cup {n + 1} /\ n + 1 \notin Unreadable(file)
  BY <1>1, <1>2, <1>3, <1>5, <1>6 DEF Unreadable
<1> QED
  BY <1>1, <1>2, <1>7, <1>8, <1>9, <1>10 DEF g, n

\* The unreadable sheets, when the last one grows.
LEMMA SheetRead ==
  ASSUME NEW file \in Seq(Seq(Rows)), file # <<>>, NEW t \in Seq(Rows)
  PROVE  LET n == Len(file)
             g == [file EXCEPT ![n] = t]
         IN  Unreadable(g) =
               (Unreadable(file) \ {n}) \cup (IF HeaderRows(t) = {} THEN {n} ELSE {})
<1> DEFINE n == Len(file)
           g == [file EXCEPT ![n] = t]
<1>1. /\ n \in 1..n /\ Len(g) = n /\ g[n] = t
      /\ \A k \in 1..n : k # n => g[k] = file[k]
  BY LastSheet
<1>2. Len(file) = n
  OBVIOUS
<1> HIDE DEF g, n
<1>3. Unreadable(g) = (Unreadable(file) \ {n}) \cup (IF HeaderRows(t) = {} THEN {n} ELSE {})
  BY <1>1, <1>2 DEF Unreadable
<1> QED
  BY <1>3 DEF g, n

-----------------------------------------------------------------------------
(* Lists of rows.                                                            *)

LEMMA ListsStill ==
  ASSUME NEW items, NEW file, NEW g, Lists(items, file),
         AcceptedRows(g) = AcceptedRows(file),
         \A p \in AcceptedRows(file) : ItemAt(g, p) = ItemAt(file, p)
  PROVE  Lists(items, g)
  BY DEF Lists

LEMMA ListsOneMore ==
  ASSUME NEW items \in Seq(Item), NEW file, NEW g, NEW q, Lists(items, file),
         AcceptedRows(g) = AcceptedRows(file) \cup {q},
         \A p \in AcceptedRows(file) : Before(p, q) /\ ItemAt(g, p) = ItemAt(file, p),
         NEW item, item = ItemAt(g, q), item \in Item
  PROVE  Lists(Append(items, item), g)
<1> DEFINE n == Len(items)
           more == Append(items, item)
<1>1. /\ n \in Nat /\ Len(more) = n + 1 /\ more[n + 1] = item
      /\ \A i \in 1..n : more[i] = items[i]
  OBVIOUS
<1>2. PICK place \in [1..n -> AcceptedRows(file)] :
        /\ \A i, j \in 1..n : i < j => Before(place[i], place[j])
        /\ \A p \in AcceptedRows(file) : \E i \in 1..n : place[i] = p
        /\ \A i \in 1..n : items[i] = ItemAt(file, place[i])
  BY DEF Lists
<1> DEFINE next == [i \in 1..(n + 1) |-> IF i = n + 1 THEN q ELSE place[i]]
<1> HIDE DEF n, more
<1>3. /\ \A i \in 1..(n + 1) : i \in 1..n \/ i = n + 1
      /\ \A i \in 1..n : i \in 1..(n + 1) /\ i # n + 1
      /\ n + 1 \in 1..(n + 1)
  BY <1>1
<1>4. next[n + 1] = q /\ \A i \in 1..n : next[i] = place[i]
  BY <1>3
<1>5. next \in [1..(n + 1) -> AcceptedRows(g)]
  BY <1>2, <1>3
<1> HIDE DEF next
<1>6. ASSUME NEW i \in 1..(n + 1), NEW j \in 1..(n + 1), i < j
      PROVE  Before(next[i], next[j])
  <2>1. i \in 1..n
    BY <1>1, <1>6
  <2>2. CASE j \in 1..n
    BY <1>2, <1>4, <1>6, <2>1, <2>2
  <2>3. CASE j = n + 1
    BY <1>2, <1>4, <2>1, <2>3
  <2> QED
    BY <1>3, <2>2, <2>3
<1>7. \A p \in AcceptedRows(g) : \E i \in 1..(n + 1) : next[i] = p
  BY <1>2, <1>3, <1>4
<1>8. \A i \in 1..(n + 1) : more[i] = ItemAt(g, next[i])
  BY <1>1, <1>2, <1>3, <1>4
<1>9. Len(more) = n + 1
  BY <1>1
<1>10. /\ next \in [1..Len(more) -> AcceptedRows(g)]
       /\ \A i, j \in 1..Len(more) : i < j => Before(next[i], next[j])
       /\ \A p \in AcceptedRows(g) : \E i \in 1..Len(more) : next[i] = p
       /\ \A i \in 1..Len(more) : more[i] = ItemAt(g, next[i])
  BY <1>5, <1>6, <1>7, <1>8, <1>9
<1>11. Lists(more, g)
  BY <1>10, Zenon DEF Lists
<1> QED
  BY <1>11 DEF more

-----------------------------------------------------------------------------
(* The invariant.                                                            *)

\* While rows are tried as a header there is one left to try.
ScanInv == stage = "sheet" /\ detector = NoLayout => rowsScanned < HeaderLimit

\* A sheet is being read only after it was opened, and under its header.
ReadInv == stage = "sheet" => read # <<>> /\ (detector # NoLayout => header \in Rows)

\* What waits is what the merge decides, as long as the catalog is the same.
PendingInv == stage = "held" /\ fresh => pending = ToInsert(live, result.items)

IInv == TypeOK /\ ScanInv /\ ReadInv /\ PendingInv

\* Counting a sheet, or a row that is skipped or accepted, keeps it a result.
LEMMA ResultCounts ==
  ASSUME NEW R \in Results, NEW s \in Skip
  PROVE  /\ [R EXCEPT !.totalSheets = @ + 1] \in Results
         /\ [R EXCEPT !.recognizedSheets = @ + 1] \in Results
         /\ [R EXCEPT !.skippedSheets = @ + 1, !.skips = Append(@, s)] \in Results
         /\ [R EXCEPT !.totalRows = @ + 1, !.skippedRows = @ + 1,
                      !.skips = Append(@, s)] \in Results
<1>1. /\ R.totalSheets + 1 \in Nat /\ R.recognizedSheets + 1 \in Nat
      /\ R.skippedSheets + 1 \in Nat /\ R.totalRows + 1 \in Nat
      /\ R.skippedRows + 1 \in Nat
  BY DEF Results
<1>2. R.skips \in Seq(Skip)
  BY DEF Results
<1>3. Append(R.skips, s) \in Seq(Skip)
  BY <1>2
<1>4. [R EXCEPT !.totalSheets = @ + 1] \in Results
  BY <1>1, Zenon DEF Results
<1>5. [R EXCEPT !.recognizedSheets = @ + 1] \in Results
  BY <1>1, Zenon DEF Results
<1>6. [R EXCEPT !.skippedSheets = @ + 1, !.skips = Append(@, s)] \in Results
  BY <1>1, <1>3, Zenon DEF Results
<1>7. [R EXCEPT !.totalRows = @ + 1, !.skippedRows = @ + 1, !.skips = Append(@, s)] \in Results
  BY <1>1, <1>3, Zenon DEF Results
<1> QED
  BY <1>4, <1>5, <1>6, <1>7

LEMMA ResultAccepts ==
  ASSUME NEW R \in Results, NEW i \in Item
  PROVE  [R EXCEPT !.totalRows = @ + 1, !.acceptedRows = @ + 1,
                   !.items = Append(@, i)] \in Results
<1>1. R.totalRows + 1 \in Nat /\ R.acceptedRows + 1 \in Nat /\ R.items \in Seq(Item)
  BY DEF Results
<1>2. Append(R.items, i) \in Seq(Item)
  BY <1>1
<1> QED
  BY <1>1, <1>2, Zenon DEF Results

LEMMA InitIInv == Init => IInv
<1> SUFFICES ASSUME Init PROVE IInv
  OBVIOUS
<1>1. result \in Results
  <2>1. 0 \in Nat /\ <<>> \in Seq(Item) /\ <<>> \in Seq(Skip)
    OBVIOUS
  <2>2. emptyResult \in Results
    BY <2>1, Zenon DEF Results, emptyResult
  <2> QED
    BY <2>2 DEF Init
<1>2. read \in Seq(Seq(Rows))
  BY DEF Init
<1>3. live \subseteq Item /\ HeaderLimit \in Nat
  BY IntakeAssumption, ItemsAssumption DEF Init
<1>4. header \in Rows \cup {<<>>} /\ rowsScanned \in 0..HeaderLimit
  BY <1>3 DEF Init
<1>5. /\ stage \in {"between", "sheet", "held", "published"}
      /\ detector \in Range(Registry) \cup {NoLayout}
      /\ extraHeaders \subseteq Texts /\ pending \subseteq Item /\ fresh \in BOOLEAN
  BY Zenon DEF Init
<1>6. TypeOK
  BY <1>1, <1>2, <1>3, <1>4, <1>5, Zenon DEF TypeOK
<1> QED
  BY <1>6 DEF Init, IInv, ScanInv, ReadInv, PendingInv

LEMMA ReadsIsRead ==
  ASSUME IInv, stage = "sheet", NEW r \in Rows, Reads(r)
  PROVE  read' \in Seq(Seq(Rows)) /\ read' # <<>>
<1>1. read \in Seq(Seq(Rows)) /\ read # <<>> /\ Len(read) \in 1..Len(read)
  BY DEF IInv, TypeOK, ReadInv
<1>2. Append(read[Len(read)], r) \in Seq(Rows)
  BY <1>1
<1> QED
  BY <1>1, <1>2 DEF Reads

LEMMA OpenSheetStep ==
  ASSUME IInv, OpenSheet
  PROVE  IInv'
<1>1. result' \in Results
  <2>1. result' = [result EXCEPT !.totalSheets = @ + 1] /\ "MISSING_ITEM_CODE" \in Skip
    BY DEF OpenSheet, Skip
  <2> QED
    BY <2>1, ResultCounts DEF IInv, TypeOK
<1>2. read' \in Seq(Seq(Rows)) /\ read' # <<>>
  <2>1. <<>> \in Seq(Rows) /\ read \in Seq(Seq(Rows)) /\ read' = Append(read, <<>>)
    BY DEF IInv, TypeOK, OpenSheet
  <2> QED
    BY <2>1
<1>3. HeaderLimit \in Nat /\ 0 < HeaderLimit
  BY IntakeAssumption
<1>4. TypeOK'
  BY <1>1, <1>2, <1>3 DEF IInv, TypeOK, OpenSheet
<1> QED
  BY <1>2, <1>3, <1>4 DEF ScanInv, ReadInv, PendingInv, OpenSheet, IInv

LEMMA FindHeaderStep ==
  ASSUME IInv, NEW r \in Rows, FindHeader(r)
  PROVE  IInv'
<1>1. LayoutOf(r) \in Range(Registry) /\ ExtraLabels(LayoutOf(r), r) \subseteq Texts
  BY LayoutIsKnown, LabelsAreTexts, IntakeAssumption DEF FindHeader
<1>2. result' \in Results
  <2>1. result' = [result EXCEPT !.recognizedSheets = @ + 1] /\ "MISSING_ITEM_CODE" \in Skip
    BY DEF FindHeader, Skip
  <2> QED
    BY <2>1, ResultCounts DEF IInv, TypeOK
<1>3. read' \in Seq(Seq(Rows)) /\ read' # <<>>
  BY ReadsIsRead DEF FindHeader
<1>4. rowsScanned' \in 0..HeaderLimit
  BY IntakeAssumption DEF IInv, TypeOK, ScanInv, FindHeader
<1>5. TypeOK'
  BY <1>1, <1>2, <1>3, <1>4 DEF IInv, TypeOK, FindHeader
<1> QED
  BY <1>3, <1>5 DEF IInv, ScanInv, ReadInv, PendingInv, FindHeader

LEMMA UnrecognizedOK ==
  ASSUME IInv
  PROVE  Unrecognized \in Results
<1>1. "UNRECOGNIZED_SHEET" \in Skip /\ result \in Results
  BY DEF IInv, TypeOK, Skip
<1> QED
  BY <1>1, ResultCounts DEF Unrecognized

LEMMA ScanRowStep ==
  ASSUME IInv, NEW r \in Rows, ScanRow(r)
  PROVE  IInv'
<1>1. /\ stage' \in {"sheet", "between"}
      /\ stage' = "sheet" => rowsScanned' < HeaderLimit
      /\ rowsScanned' \in 0..HeaderLimit
  BY IntakeAssumption DEF IInv, TypeOK, ScanInv, ScanRow, GivesUp
<1>2. result' \in Results
  BY UnrecognizedOK DEF IInv, TypeOK, ScanRow
<1>3. read' \in Seq(Seq(Rows)) /\ read' # <<>>
  BY ReadsIsRead DEF ScanRow
<1>4. TypeOK'
  BY <1>1, <1>2, <1>3 DEF IInv, TypeOK, ScanRow
<1> QED
  BY <1>1, <1>3, <1>4 DEF IInv, ScanInv, ReadInv, PendingInv, ScanRow

LEMMA ParseRowStep ==
  ASSUME IInv, NEW r \in Rows, ParseRow(r)
  PROVE  IInv'
<1>1. ParsedItem(detector, header, r) \in Item
  BY ParsedIsItem, IntakeAssumption DEF IInv, TypeOK, ReadInv, ParseRow
<1>2. result' \in Results
  <2> DEFINE why == IF MissingCode(detector, header, r)
                    THEN "MISSING_ITEM_CODE" ELSE "MISSING_ITEM_NAME"
  <2>1. why \in Skip /\ result \in Results
    BY DEF IInv, TypeOK, Skip
  <2>2. CASE Skips(detector, header, r)
    <3>1. result' = [result EXCEPT !.totalRows = @ + 1, !.skippedRows = @ + 1,
                                   !.skips = Append(@, why)]
      BY <2>2 DEF ParseRow
    <3> QED
      BY <2>1, <3>1, ResultCounts
  <2>3. CASE ~Skips(detector, header, r)
    BY <1>1, <2>1, <2>3, ResultAccepts DEF ParseRow
  <2> QED
    BY <2>2, <2>3
<1>3. read' \in Seq(Seq(Rows)) /\ read' # <<>>
  BY ReadsIsRead DEF ParseRow
<1>4. TypeOK'
  BY <1>2, <1>3 DEF IInv, TypeOK, ParseRow, scan
<1> QED
  BY <1>3, <1>4 DEF IInv, ScanInv, ReadInv, PendingInv, ParseRow, scan

LEMMA EndSheetStep ==
  ASSUME IInv, EndSheet
  PROVE  IInv'
<1>1. result' \in Results
  BY UnrecognizedOK DEF IInv, TypeOK, EndSheet
<1> QED
  BY <1>1 DEF IInv, TypeOK, ScanInv, ReadInv, PendingInv, EndSheet, scan

LEMMA MergeStep ==
  ASSUME IInv, Merge
  PROVE  IInv'
<1>1. pending' \subseteq Item
  BY InsertsItems DEF IInv, TypeOK, Results, Merge
<1> QED
  BY <1>1 DEF IInv, TypeOK, ScanInv, ReadInv, PendingInv, Merge, scan

LEMMA PublishBatchStep ==
  ASSUME IInv, PublishBatch
  PROVE  IInv'
<1>1. live' \subseteq Item
  BY DEF IInv, TypeOK, PublishBatch, AfterPublish
<1> QED
  BY <1>1 DEF IInv, TypeOK, ScanInv, ReadInv, PendingInv, PublishBatch, scan

LEMMA EditSteps ==
  ASSUME IInv, NEW item \in Item, EditItem(item) \/ DeleteItem(item)
  PROVE  IInv'
<1>1. /\ live' \subseteq Item /\ fresh' = FALSE
      /\ UNCHANGED <<stage, header, detector, rowsScanned, result, extraHeaders, pending, read>>
  BY DEF IInv, TypeOK, EditItem, DeleteItem, AfterPublish, scan
<1> QED
  BY <1>1 DEF IInv, TypeOK, ScanInv, ReadInv, PendingInv

LEMMA NextIInv == IInv /\ [Next]_vars => IInv'
<1> SUFFICES ASSUME IInv, [Next]_vars PROVE IInv'
  OBVIOUS
<1>1. CASE OpenSheet \/ EndSheet \/ Merge \/ PublishBatch
  BY <1>1, OpenSheetStep, EndSheetStep, MergeStep, PublishBatchStep
<1>2. ASSUME NEW r \in Rows, FindHeader(r) \/ ScanRow(r) \/ ParseRow(r) PROVE IInv'
  BY <1>2, FindHeaderStep, ScanRowStep, ParseRowStep
<1>3. ASSUME NEW item \in Edits, EditItem(item) PROVE IInv'
  BY <1>3, EditSteps, ItemsAssumption
<1>4. ASSUME NEW item \in live, DeleteItem(item) PROVE IInv'
  BY <1>4, EditSteps DEF IInv, TypeOK
<1>5. CASE UNCHANGED vars
  BY <1>5 DEF IInv, TypeOK, ScanInv, ReadInv, PendingInv, vars, scan
<1> QED
  BY <1>1, <1>2, <1>3, <1>4, <1>5 DEF Next, Finished

-----------------------------------------------------------------------------
(* The sheets and their rows, as far as they have been read.                 *)

\* An open sheet without a header is not reported yet.
Untold == IF stage = "sheet" /\ detector = NoLayout THEN 1 ELSE 0

CountsRows ==
  /\ IsFiniteSet(DataRows(read))
  /\ result.totalRows = Cardinality(DataRows(read))
  /\ result.acceptedRows = Len(result.items)
  /\ result.totalRows = result.acceptedRows + result.skippedRows
  /\ Len(result.skips) = result.skippedRows + result.skippedSheets

CountsSheets ==
  /\ IsFiniteSet(Unreadable(read))
  /\ result.totalSheets = Len(read)
  /\ result.skippedSheets + Untold = Cardinality(Unreadable(read))
  /\ result.recognizedSheets + result.skippedSheets + Untold = result.totalSheets

LabelsKnown ==
  \A i \in 1..Len(result.items) : \A e \in result.items[i].extra : e[1] \in extraHeaders

\* What is known of the open sheet is what it says so far.
OpenSheetRead ==
  stage = "sheet" =>
    LET s == read[Len(read)]
    IN  IF detector = NoLayout
        THEN HeaderRows(s) = {} /\ Len(s) = rowsScanned
        ELSE /\ HeaderRows(s) # {}
             /\ header = HeaderOf(s)
             /\ detector = LayoutOf(header)
             /\ ExtraLabels(detector, header) \subseteq extraHeaders

SheetsInv ==
  Lists(result.items, read) /\ CountsRows /\ CountsSheets /\ LabelsKnown /\ OpenSheetRead

LEMMA ResultFields ==
  ASSUME TypeOK
  PROVE  /\ result.totalSheets \in Nat /\ result.recognizedSheets \in Nat
         /\ result.skippedSheets \in Nat /\ result.totalRows \in Nat
         /\ result.acceptedRows \in Nat /\ result.skippedRows \in Nat
         /\ result.items \in Seq(Item) /\ result.skips \in Seq(Skip)
  BY DEF TypeOK, Results

LEMMA InitSheets == Init => SheetsInv
<1> SUFFICES ASSUME Init PROVE SheetsInv
  OBVIOUS
<1>1. read = <<>> /\ Len(read) = 0 /\ stage = "between"
  BY DEF Init
<1>2. /\ result.items = <<>> /\ result.skips = <<>>
      /\ result.totalSheets = 0 /\ result.recognizedSheets = 0 /\ result.skippedSheets = 0
      /\ result.totalRows = 0 /\ result.acceptedRows = 0 /\ result.skippedRows = 0
  BY DEF Init, emptyResult
<1>3. DataRows(read) = {} /\ AcceptedRows(read) = {} /\ Unreadable(read) = {}
  BY <1>1 DEF DataRows, AcceptedRows, Unreadable
<1>4. Lists(result.items, read)
  <2> DEFINE nowhere == [i \in 1..0 |-> i]
  <2>1. 1..0 = {} /\ Len(result.items) = 0
    BY <1>2
  <2>2. nowhere \in [1..Len(result.items) -> AcceptedRows(read)]
    BY <1>3, <2>1
  <2> HIDE DEF nowhere
  <2>3. /\ \A i, j \in 1..Len(result.items) : i < j => Before(nowhere[i], nowhere[j])
        /\ \A p \in AcceptedRows(read) : \E i \in 1..Len(result.items) : nowhere[i] = p
        /\ \A i \in 1..Len(result.items) : result.items[i] = ItemAt(read, nowhere[i])
    BY <1>3, <2>1
  <2> QED
    BY <2>2, <2>3, Zenon DEF Lists
<1>5. CountsRows
  BY <1>2, <1>3, FS_EmptySet DEF CountsRows
<1>6. CountsSheets
  <2>1. Untold = 0
    BY <1>1 DEF Untold
  <2>2. IsFiniteSet(Unreadable(read)) /\ Cardinality(Unreadable(read)) = 0
    BY <1>3, FS_EmptySet
  <2> QED
    BY <1>1, <1>2, <2>1, <2>2 DEF CountsSheets
<1> QED
  BY <1>1, <1>2, <1>4, <1>5, <1>6 DEF SheetsInv, LabelsKnown, OpenSheetRead

\* Whatever leaves the scan alone.
LEMMA SheetsRest ==
  ASSUME SheetsInv, UNCHANGED <<result, extraHeaders, read>>,
         stage # "sheet", stage' # "sheet"
  PROVE  SheetsInv'
  BY DEF SheetsInv, CountsRows, CountsSheets, LabelsKnown, OpenSheetRead, Untold

LEMMA OpenSheetSheets ==
  ASSUME IInv, SheetsInv, OpenSheet
  PROVE  SheetsInv'
<1>1. /\ stage = "between" /\ stage' = "sheet" /\ detector' = NoLayout /\ rowsScanned' = 0
      /\ read' = Append(read, <<>>) /\ read \in Seq(Seq(Rows)) /\ extraHeaders' = extraHeaders
  BY DEF IInv, TypeOK, OpenSheet
<1>2. result' = [result EXCEPT !.totalSheets = @ + 1] /\ result \in Results
  BY DEF IInv, TypeOK, OpenSheet
<1>3. /\ result'.totalSheets = result.totalSheets + 1
      /\ result'.recognizedSheets = result.recognizedSheets
      /\ result'.skippedSheets = result.skippedSheets
      /\ result'.totalRows = result.totalRows
      /\ result'.acceptedRows = result.acceptedRows
      /\ result'.skippedRows = result.skippedRows
      /\ result'.items = result.items
      /\ result'.skips = result.skips
  BY <1>2 DEF Results
<1>4. /\ Len(read') = Len(read) + 1 /\ read'[Len(read')] = <<>>
      /\ DataRows(read') = DataRows(read)
      /\ AcceptedRows(read') = AcceptedRows(read)
      /\ \A p \in AcceptedRows(read) : ItemAt(read', p) = ItemAt(read, p)
      /\ Unreadable(read') = Unreadable(read) \cup {Len(read) + 1}
      /\ Len(read) + 1 \notin Unreadable(read)
  BY <1>1, SheetOpened
<1>5. Lists(result'.items, read')
  BY <1>3, <1>4, ListsStill DEF SheetsInv
<1>6. CountsRows'
  BY <1>3, <1>4 DEF SheetsInv, CountsRows
<1>7. CountsSheets'
  <2>1. /\ IsFiniteSet(Unreadable(read')) /\ Cardinality(Unreadable(read)) \in Nat
        /\ Cardinality(Unreadable(read')) = Cardinality(Unreadable(read)) + 1
    BY <1>4, FS_AddElement, FS_CardinalityType DEF SheetsInv, CountsSheets
  <2>2. Untold = 0 /\ Untold' = 1
    BY <1>1 DEF Untold
  <2> QED
    BY <1>1, <1>3, <1>4, <2>1, <2>2, ResultFields DEF IInv, SheetsInv, CountsSheets
<1>8. LabelsKnown'
  BY <1>1, <1>3 DEF SheetsInv, LabelsKnown
<1>9. OpenSheetRead'
  <2>1. HeaderRows(<<>>) = {}
    BY DEF HeaderRows
  <2> QED
    BY <1>1, <1>4, <2>1 DEF OpenSheetRead
<1> QED
  BY <1>5, <1>6, <1>7, <1>8, <1>9 DEF SheetsInv

\* A row that is tried as the header of the open sheet: what all such rows do.
LEMMA TriedRow ==
  ASSUME IInv, SheetsInv, stage = "sheet", detector = NoLayout, NEW r \in Rows, Reads(r)
  PROVE  LET n == Len(read)
             s == read[n]
         IN  /\ read \in Seq(Seq(Rows)) /\ read # <<>> /\ s \in Seq(Rows)
             /\ HeaderRows(s) = {} /\ Len(s) = rowsScanned /\ Len(s) < HeaderLimit
             /\ read' = [read EXCEPT ![n] = Append(s, r)]
             /\ Append(s, r) \in Seq(Rows)
             /\ Len(read') = n /\ read'[n] = Append(s, r)
             /\ n \in Unreadable(read)
             /\ Unreadable(read') = (Unreadable(read) \ {n}) \cup
                  (IF HeaderRows(Append(s, r)) = {} THEN {n} ELSE {})
             /\ Below(Append(s, r)) = {} =>
                  /\ DataRows(read') = DataRows(read)
                  /\ Lists(result.items, read')
<1> DEFINE n == Len(read)
           s == read[n]
           t == Append(s, r)
<1>1. read \in Seq(Seq(Rows)) /\ read # <<>>
  BY DEF IInv, TypeOK, ReadInv
<1>2. s \in Seq(Rows) /\ n \in 1..n
  BY <1>1, LastSheet
<1>3. HeaderRows(s) = {} /\ Len(s) = rowsScanned /\ rowsScanned < HeaderLimit
  BY DEF SheetsInv, OpenSheetRead, IInv, ScanInv
<1>4. read' = [read EXCEPT ![n] = t]
  BY DEF Reads
<1>5. t \in Seq(Rows)
  BY <1>2, AppendedRow
<1> HIDE DEF t
<1>6. Len(read') = n /\ read'[n] = t
  BY <1>1, <1>4, <1>5, LastSheet
<1>7. n \in Unreadable(read)
  BY <1>2, <1>3 DEF Unreadable
<1>8. Unreadable(read') = (Unreadable(read) \ {n}) \cup (IF HeaderRows(t) = {} THEN {n} ELSE {})
  BY <1>1, <1>4, <1>5, SheetRead
<1>9. ASSUME Below(t) = {}
      PROVE  DataRows(read') = DataRows(read) /\ Lists(result.items, read')
  <2>1. Below(s) = {}
    BY <1>3 DEF Below
  <2>2. /\ DataRows(read') = DataRows(read)
        /\ AcceptedRows(read') = AcceptedRows(read)
        /\ \A p \in AcceptedRows(read) : ItemAt(read', p) = ItemAt(read, p)
    BY <1>1, <1>4, <1>5, <1>9, <2>1, SameSheetRows
  <2> QED
    BY <2>2, ListsStill DEF SheetsInv
<1> QED
  BY <1>1, <1>2, <1>3, <1>4, <1>5, <1>6, <1>7, <1>8, <1>9 DEF t

LEMMA FindHeaderSheets ==
  ASSUME IInv, SheetsInv, NEW r \in Rows, FindHeader(r)
  PROVE  SheetsInv'
<1> DEFINE n == Len(read)
           t == Append(read[n], r)
<1>1. /\ stage = "sheet" /\ detector = NoLayout /\ LayoutOf(r) # NoLayout /\ Reads(r)
      /\ stage' = "sheet" /\ header' = r /\ detector' = LayoutOf(r)
      /\ extraHeaders' = extraHeaders \cup ExtraLabels(LayoutOf(r), r)
  BY DEF FindHeader
<1>2. result' = [result EXCEPT !.recognizedSheets = @ + 1] /\ result \in Results
  BY DEF IInv, TypeOK, FindHeader
<1>3. /\ result'.totalSheets = result.totalSheets
      /\ result'.recognizedSheets = result.recognizedSheets + 1
      /\ result'.skippedSheets = result.skippedSheets
      /\ result'.totalRows = result.totalRows
      /\ result'.acceptedRows = result.acceptedRows
      /\ result'.skippedRows = result.skippedRows
      /\ result'.items = result.items
      /\ result'.skips = result.skips
  BY <1>2 DEF Results
<1>4. /\ read[n] \in Seq(Rows) /\ HeaderRows(read[n]) = {} /\ Len(read[n]) < HeaderLimit
      /\ Len(read') = n /\ read'[n] = t /\ n \in Unreadable(read)
      /\ Unreadable(read') = (Unreadable(read) \ {n}) \cup
           (IF HeaderRows(t) = {} THEN {n} ELSE {})
      /\ Below(t) = {} => DataRows(read') = DataRows(read) /\ Lists(result.items, read')
  BY <1>1, TriedRow
<1>5. HeaderRows(t) # {} /\ HeaderOf(t) = r /\ Below(t) = {}
  BY <1>1, <1>4, RowIsHeader
<1> HIDE DEF n, t
<1>6. Lists(result'.items, read') /\ DataRows(read') = DataRows(read)
  BY <1>3, <1>4, <1>5
<1>7. CountsRows'
  BY <1>3, <1>6 DEF SheetsInv, CountsRows
<1>8. CountsSheets'
  <2>1. Unreadable(read') = Unreadable(read) \ {n}
    BY <1>4, <1>5
  <2>2. /\ IsFiniteSet(Unreadable(read')) /\ Cardinality(Unreadable(read)) \in Nat
        /\ Cardinality(Unreadable(read')) = Cardinality(Unreadable(read)) - 1
    BY <1>4, <2>1, FS_RemoveElement, FS_CardinalityType DEF SheetsInv, CountsSheets
  <2>3. Untold = 1 /\ Untold' = 0
    BY <1>1 DEF Untold
  <2>4. /\ result.skippedSheets + 1 = Cardinality(Unreadable(read))
        /\ result.recognizedSheets + result.skippedSheets + 1 = result.totalSheets
        /\ result.totalSheets = n
    BY <2>3 DEF SheetsInv, CountsSheets, n
  <2>5. result.recognizedSheets \in Nat /\ result.skippedSheets \in Nat
    BY ResultFields DEF IInv
  <2>6. /\ result'.skippedSheets + Untold' = Cardinality(Unreadable(read'))
        /\ result'.recognizedSheets + result'.skippedSheets + Untold' = result'.totalSheets
    BY <1>3, <2>2, <2>3, <2>4, <2>5
  <2> QED
    BY <1>3, <1>4, <2>2, <2>4, <2>6 DEF CountsSheets
<1>9. LabelsKnown'
  BY <1>1, <1>3 DEF SheetsInv, LabelsKnown
<1>10. OpenSheetRead'
  BY <1>1, <1>4, <1>5 DEF OpenSheetRead
<1> QED
  BY <1>6, <1>7, <1>8, <1>9, <1>10 DEF SheetsInv

\* A sheet that ends without a header is reported.
LEMMA ReportedSheet ==
  ASSUME TypeOK
  PROVE  /\ Unrecognized.totalSheets = result.totalSheets
         /\ Unrecognized.recognizedSheets = result.recognizedSheets
         /\ Unrecognized.skippedSheets = result.skippedSheets + 1
         /\ Unrecognized.totalRows = result.totalRows
         /\ Unrecognized.acceptedRows = result.acceptedRows
         /\ Unrecognized.skippedRows = result.skippedRows
         /\ Unrecognized.items = result.items
         /\ Len(Unrecognized.skips) = Len(result.skips) + 1
<1>1. result \in Results /\ result.skips \in Seq(Skip) /\ "UNRECOGNIZED_SHEET" \in Skip
  BY ResultFields DEF TypeOK, Skip
<1>2. Len(Append(result.skips, "UNRECOGNIZED_SHEET")) = Len(result.skips) + 1
  BY <1>1
<1>3. Unrecognized.skips = Append(result.skips, "UNRECOGNIZED_SHEET")
  BY <1>1 DEF Unrecognized, Results
<1>4. /\ Unrecognized.totalSheets = result.totalSheets
      /\ Unrecognized.recognizedSheets = result.recognizedSheets
      /\ Unrecognized.skippedSheets = result.skippedSheets + 1
      /\ Unrecognized.totalRows = result.totalRows
      /\ Unrecognized.acceptedRows = result.acceptedRows
      /\ Unrecognized.skippedRows = result.skippedRows
      /\ Unrecognized.items = result.items
  BY <1>1 DEF Unrecognized, Results
<1> QED
  BY <1>2, <1>3, <1>4

\* A sheet is reported: its rows, if any, are no data rows.
LEMMA ReportedRows ==
  ASSUME TypeOK, CountsRows, DataRows(read') = DataRows(read), result' = Unrecognized
  PROVE  CountsRows'
<1>1. /\ result'.skippedSheets = result.skippedSheets + 1
      /\ result'.totalRows = result.totalRows
      /\ result'.acceptedRows = result.acceptedRows
      /\ result'.skippedRows = result.skippedRows
      /\ result'.items = result.items
      /\ Len(result'.skips) = Len(result.skips) + 1
  BY ReportedSheet
<1>2. result.skippedRows \in Nat /\ result.skippedSheets \in Nat
  BY ResultFields
<1>3. Len(result.skips) = result.skippedRows + result.skippedSheets
  BY DEF CountsRows
<1>4. Len(result'.skips) = result'.skippedRows + result'.skippedSheets
  BY <1>1, <1>2, <1>3
<1> QED
  BY <1>1, <1>4 DEF CountsRows

LEMMA ReportedCount ==
  ASSUME TypeOK, CountsSheets, Len(read') = Len(read), Unreadable(read') = Unreadable(read),
         result' = Unrecognized, Untold = 1, Untold' = 0
  PROVE  CountsSheets'
<1>1. /\ result'.totalSheets = result.totalSheets
      /\ result'.recognizedSheets = result.recognizedSheets
      /\ result'.skippedSheets = result.skippedSheets + 1
  BY ReportedSheet
<1>2. result.recognizedSheets \in Nat /\ result.skippedSheets \in Nat
  BY ResultFields
<1>3. /\ result.skippedSheets + 1 = Cardinality(Unreadable(read))
      /\ result.recognizedSheets + result.skippedSheets + 1 = result.totalSheets
  BY DEF CountsSheets
<1>4. /\ result'.skippedSheets + Untold' = Cardinality(Unreadable(read'))
      /\ result'.recognizedSheets + result'.skippedSheets + Untold' = result'.totalSheets
  BY <1>1, <1>2, <1>3
<1> QED
  BY <1>1, <1>4 DEF CountsSheets

LEMMA ScanRowSheets ==
  ASSUME IInv, SheetsInv, NEW r \in Rows, ScanRow(r)
  PROVE  SheetsInv'
<1> DEFINE n == Len(read)
           t == Append(read[n], r)
<1>1. /\ stage = "sheet" /\ detector = NoLayout /\ LayoutOf(r) = NoLayout /\ Reads(r)
      /\ rowsScanned' = rowsScanned + 1
      /\ detector' = NoLayout /\ extraHeaders' = extraHeaders
  BY DEF ScanRow
<1>2. \/ stage' = "between" /\ result' = Unrecognized
      \/ stage' = "sheet" /\ result' = result
  BY DEF ScanRow
<1>3. /\ read[n] \in Seq(Rows) /\ HeaderRows(read[n]) = {} /\ Len(read[n]) = rowsScanned
      /\ Len(read') = n /\ read'[n] = t /\ n \in Unreadable(read)
      /\ Unreadable(read') = (Unreadable(read) \ {n}) \cup
           (IF HeaderRows(t) = {} THEN {n} ELSE {})
      /\ Below(t) = {} => DataRows(read') = DataRows(read) /\ Lists(result.items, read')
  BY <1>1, TriedRow
<1>4. HeaderRows(t) = {} /\ Len(t) = rowsScanned + 1
  BY <1>1, <1>3, RowIsNoHeader, AppendedRow
<1> HIDE DEF n, t
<1>5. Below(t) = {} /\ Unreadable(read') = Unreadable(read)
  BY <1>3, <1>4 DEF Below
<1>6. Lists(result.items, read') /\ DataRows(read') = DataRows(read)
  BY <1>3, <1>5
<1>7. OpenSheetRead'
  BY <1>1, <1>3, <1>4 DEF OpenSheetRead
<1>8. CASE stage' = "sheet" /\ result' = result
  BY <1>1, <1>3, <1>5, <1>6, <1>7, <1>8
  DEF SheetsInv, CountsRows, CountsSheets, LabelsKnown, Untold, n
<1>9. CASE stage' = "between" /\ result' = Unrecognized
  <2>1. result' = Unrecognized /\ result'.items = result.items
    BY <1>9, ReportedSheet DEF IInv
  <2>2. CountsRows'
    BY <1>6, <2>1, ReportedRows DEF IInv, SheetsInv
  <2>3. Untold = 1 /\ Untold' = 0
    BY <1>1, <1>9 DEF Untold
  <2>4. CountsSheets'
    BY <1>3, <1>5, <2>1, <2>3, ReportedCount DEF IInv, SheetsInv, n
  <2> QED
    BY <1>1, <1>6, <1>7, <2>1, <2>2, <2>4 DEF SheetsInv, LabelsKnown
<1> QED
  BY <1>2, <1>8, <1>9

LEMMA EndSheetSheets ==
  ASSUME IInv, SheetsInv, EndSheet
  PROVE  SheetsInv'
<1>1. /\ stage = "sheet" /\ stage' = "between"
      /\ UNCHANGED <<detector, extraHeaders, read>>
      /\ result' = IF detector = NoLayout THEN Unrecognized ELSE result
  BY DEF EndSheet, scan
<1>2. OpenSheetRead'
  BY <1>1 DEF OpenSheetRead
<1>3. CASE detector # NoLayout
  BY <1>1, <1>2, <1>3 DEF SheetsInv, CountsRows, CountsSheets, LabelsKnown, Untold
<1>4. CASE detector = NoLayout
  <2>1. result' = Unrecognized /\ result'.items = result.items
    BY <1>1, <1>4, ReportedSheet DEF IInv
  <2>2. CountsRows'
    BY <1>1, <2>1, ReportedRows DEF IInv, SheetsInv
  <2>3. Untold = 1 /\ Untold' = 0
    BY <1>1, <1>4 DEF Untold
  <2>4. CountsSheets'
    BY <1>1, <2>1, <2>3, ReportedCount DEF IInv, SheetsInv
  <2> QED
    BY <1>1, <1>2, <2>1, <2>2, <2>4 DEF SheetsInv, LabelsKnown
<1> QED
  BY <1>3, <1>4

\* A row below a header: where it is, and what it does to the file.
LEMMA RowUnderHeader ==
  ASSUME IInv, SheetsInv, NEW r \in Rows, ParseRow(r)
  PROVE  \E q :
           /\ DataRows(read') = DataRows(read) \cup {q} /\ q \notin DataRows(read)
           /\ AcceptedRows(read') =
                AcceptedRows(read) \cup (IF Skips(detector, header, r) THEN {} ELSE {q})
           /\ ItemAt(read', q) = ParsedItem(detector, header, r)
           /\ \A p \in AcceptedRows(read) :
                Before(p, q) /\ ItemAt(read', p) = ItemAt(read, p)
           /\ Unreadable(read') = Unreadable(read)
           /\ Len(read') = Len(read)
           /\ OpenSheetRead'
<1> DEFINE n == Len(read)
           s == read[n]
           t == Append(s, r)
           q == <<n, Len(s) + 1>>
<1>1. read \in Seq(Seq(Rows)) /\ read # <<>>
  BY DEF IInv, TypeOK, ReadInv, ParseRow
<1>2. s \in Seq(Rows) /\ n \in 1..n
  BY <1>1, LastSheet
<1>3. /\ HeaderRows(s) # {} /\ header = HeaderOf(s) /\ detector = LayoutOf(header)
      /\ ExtraLabels(detector, header) \subseteq extraHeaders
  BY DEF SheetsInv, OpenSheetRead, ParseRow
<1>4. read' = [read EXCEPT ![n] = t]
  BY DEF ParseRow, Reads
<1>5. /\ DataRows(read') = DataRows(read) \cup {q} /\ q \notin DataRows(read)
      /\ AcceptedRows(read') =
           AcceptedRows(read) \cup (IF Skips(detector, header, r) THEN {} ELSE {q})
      /\ ItemAt(read', q) = ParsedItem(detector, header, r)
      /\ \A p \in AcceptedRows(read) : Before(p, q) /\ ItemAt(read', p) = ItemAt(read, p)
  BY <1>1, <1>3, <1>4, RowRead
<1>6. t \in Seq(Rows) /\ HeaderRows(t) # {} /\ HeaderOf(t) = HeaderOf(s)
  BY <1>2, <1>3, AppendedRow, RowBelow
<1> HIDE DEF t
<1>7. Len(read') = n /\ read'[n] = t
  BY <1>1, <1>4, <1>6, LastSheet
<1>8. Unreadable(read') = (Unreadable(read) \ {n}) \cup (IF HeaderRows(t) = {} THEN {n} ELSE {})
  BY <1>1, <1>4, <1>6, SheetRead
<1>9. n \notin Unreadable(read)
  BY <1>3 DEF Unreadable
<1>10. Unreadable(read') = Unreadable(read)
  BY <1>6, <1>8, <1>9
<1>11. UNCHANGED <<stage, header, detector, extraHeaders>> /\ detector # NoLayout
  BY DEF ParseRow, scan
<1>12. OpenSheetRead'
  BY <1>3, <1>6, <1>7, <1>11 DEF OpenSheetRead
<1> HIDE DEF q
<1> QED
  BY <1>5, <1>7, <1>10, <1>12

\* The extra columns of an item are columns of its header.
LEMMA ExtrasAreLabels ==
  ASSUME NEW layout, NEW heading, NEW r, NEW e \in ParsedItem(layout, heading, r).extra
  PROVE  e[1] \in ExtraLabels(layout, heading)
  BY DEF ParsedItem, ExtraLabels

\* What a row does to the counts.
LEMMA RowCounts ==
  ASSUME TypeOK, NEW r \in Rows, ParseRow(r)
  PROVE  /\ result'.totalSheets = result.totalSheets
         /\ result'.recognizedSheets = result.recognizedSheets
         /\ result'.skippedSheets = result.skippedSheets
         /\ result'.totalRows = result.totalRows + 1
         /\ Skips(detector, header, r) =>
              /\ result'.acceptedRows = result.acceptedRows
              /\ result'.skippedRows = result.skippedRows + 1
              /\ result'.items = result.items
              /\ Len(result'.skips) = Len(result.skips) + 1
         /\ ~Skips(detector, header, r) =>
              /\ result'.acceptedRows = result.acceptedRows + 1
              /\ result'.skippedRows = result.skippedRows
              /\ result'.items = Append(result.items, ParsedItem(detector, header, r))
              /\ result'.skips = result.skips
<1> DEFINE why == IF MissingCode(detector, header, r)
                  THEN "MISSING_ITEM_CODE" ELSE "MISSING_ITEM_NAME"
           item == ParsedItem(detector, header, r)
<1>1. result \in Results /\ result.skips \in Seq(Skip) /\ why \in Skip
  BY ResultFields DEF TypeOK, Skip
<1>2. Len(Append(result.skips, why)) = Len(result.skips) + 1
  BY <1>1
<1>3. CASE Skips(detector, header, r)
  <2>1. result' = [result EXCEPT !.totalRows = @ + 1, !.skippedRows = @ + 1,
                                 !.skips = Append(@, why)]
    BY <1>3 DEF ParseRow
  <2> HIDE DEF why
  <2>2. result'.skips = Append(result.skips, why)
    BY <1>1, <2>1 DEF Results
  <2> QED
    BY <1>1, <1>2, <1>3, <2>1, <2>2 DEF Results
<1>4. CASE ~Skips(detector, header, r)
  <2>1. result' = [result EXCEPT !.totalRows = @ + 1, !.acceptedRows = @ + 1,
                                 !.items = Append(@, item)]
    BY <1>4 DEF ParseRow
  <2> HIDE DEF item
  <2>2. result'.items = Append(result.items, item)
    BY <1>1, <2>1 DEF Results
  <2>3. /\ result'.totalSheets = result.totalSheets
        /\ result'.recognizedSheets = result.recognizedSheets
        /\ result'.skippedSheets = result.skippedSheets
        /\ result'.totalRows = result.totalRows + 1
        /\ result'.acceptedRows = result.acceptedRows + 1
        /\ result'.skippedRows = result.skippedRows
        /\ result'.skips = result.skips
    BY <1>1, <2>1 DEF Results
  <2> QED
    BY <1>4, <2>2, <2>3 DEF item
<1> QED
  BY <1>3, <1>4

LEMMA ParseRowSheets ==
  ASSUME IInv, SheetsInv, NEW r \in Rows, ParseRow(r)
  PROVE  SheetsInv'
<1> DEFINE item == ParsedItem(detector, header, r)
           skipped == Skips(detector, header, r)
<1>1. PICK q :
        /\ DataRows(read') = DataRows(read) \cup {q} /\ q \notin DataRows(read)
        /\ AcceptedRows(read') = AcceptedRows(read) \cup (IF skipped THEN {} ELSE {q})
        /\ ItemAt(read', q) = item
        /\ \A p \in AcceptedRows(read) : Before(p, q) /\ ItemAt(read', p) = ItemAt(read, p)
        /\ Unreadable(read') = Unreadable(read)
        /\ Len(read') = Len(read)
        /\ OpenSheetRead'
  BY RowUnderHeader
<1>2. UNCHANGED <<stage, detector, extraHeaders>>
  BY DEF ParseRow, scan
<1>3. /\ result'.totalSheets = result.totalSheets
      /\ result'.recognizedSheets = result.recognizedSheets
      /\ result'.skippedSheets = result.skippedSheets
      /\ result'.totalRows = result.totalRows + 1
      /\ skipped =>
           /\ result'.acceptedRows = result.acceptedRows
           /\ result'.skippedRows = result.skippedRows + 1
           /\ result'.items = result.items
           /\ Len(result'.skips) = Len(result.skips) + 1
      /\ ~skipped =>
           /\ result'.acceptedRows = result.acceptedRows + 1
           /\ result'.skippedRows = result.skippedRows
           /\ result'.items = Append(result.items, item)
           /\ result'.skips = result.skips
  BY RowCounts DEF IInv
<1>4. item \in Item
  BY ParsedIsItem, IntakeAssumption DEF IInv, TypeOK, ReadInv, ParseRow
<1>5. \A e \in item.extra : e[1] \in extraHeaders
  BY ExtrasAreLabels DEF SheetsInv, OpenSheetRead, ParseRow
<1> HIDE DEF item, skipped
<1>6. result.items \in Seq(Item) /\ Len(result.items) \in Nat
  BY ResultFields DEF IInv
<1>7. Lists(result'.items, read')
  <2>1. CASE skipped
    <3>1. AcceptedRows(read') = AcceptedRows(read) /\ result'.items = result.items
      BY <1>1, <1>3, <2>1, Zenon
    <3> QED
      BY <1>1, <3>1, ListsStill DEF SheetsInv
  <2>2. CASE ~skipped
    <3>1. /\ AcceptedRows(read') = AcceptedRows(read) \cup {q}
          /\ result'.items = Append(result.items, item)
      BY <1>1, <1>3, <2>2, Zenon
    <3>2. ItemAt(read', q) = item
      BY <1>1
    <3>3. \A p \in AcceptedRows(read) : Before(p, q) /\ ItemAt(read', p) = ItemAt(read, p)
      BY <1>1
    <3>4. Lists(result.items, read)
      BY DEF SheetsInv
    <3> QED
      BY <1>4, <1>6, <3>1, <3>2, <3>3, <3>4, ListsOneMore
  <2> QED
    BY <2>1, <2>2
<1>8. CountsRows'
  <2>1. /\ IsFiniteSet(DataRows(read'))
        /\ Cardinality(DataRows(read')) = Cardinality(DataRows(read)) + 1
    <3>1. DataRows(read') = DataRows(read) \cup {q} /\ q \notin DataRows(read)
      BY <1>1
    <3>2. IsFiniteSet(DataRows(read))
      BY DEF SheetsInv, CountsRows
    <3> QED
      BY <3>1, <3>2, FS_AddElement
  <2>2. /\ result.totalRows = Cardinality(DataRows(read))
        /\ result.acceptedRows = Len(result.items)
        /\ result.totalRows = result.acceptedRows + result.skippedRows
        /\ Len(result.skips) = result.skippedRows + result.skippedSheets
    BY DEF SheetsInv, CountsRows
  <2>3. /\ result.skippedSheets \in Nat /\ result.totalRows \in Nat
        /\ result.acceptedRows \in Nat /\ result.skippedRows \in Nat
    BY ResultFields DEF IInv
  <2>4. ~skipped => Len(result'.items) = Len(result.items) + 1
    BY <1>3, <1>4, <1>6
  <2>5. /\ result'.acceptedRows = Len(result'.items)
        /\ result'.totalRows = result'.acceptedRows + result'.skippedRows
        /\ Len(result'.skips) = result'.skippedRows + result'.skippedSheets
    <3>1. CASE skipped
      <4>1. /\ result'.acceptedRows = result.acceptedRows
            /\ result'.skippedRows = result.skippedRows + 1
            /\ result'.items = result.items
            /\ Len(result'.skips) = Len(result.skips) + 1
        BY <1>3, <3>1, Zenon
      <4> QED
        BY <1>3, <2>2, <2>3, <4>1
    <3>2. CASE ~skipped
      <4>1. /\ result'.acceptedRows = result.acceptedRows + 1
            /\ result'.skippedRows = result.skippedRows
            /\ result'.skips = result.skips
        BY <1>3, <3>2, Zenon
      <4> QED
        BY <1>3, <2>2, <2>3, <2>4, <3>2, <4>1
    <3> QED
      BY <3>1, <3>2
  <2> QED
    BY <1>3, <2>1, <2>2, <2>5 DEF CountsRows
<1>9. CountsSheets'
  BY <1>1, <1>2, <1>3 DEF SheetsInv, CountsSheets, Untold
<1>10. LabelsKnown'
  <2>1. CASE skipped
    BY <1>2, <1>3, <2>1 DEF SheetsInv, LabelsKnown
  <2>2. CASE ~skipped
    <3>1. /\ \A i \in 1..Len(result'.items) :
               i \in 1..Len(result.items) \/ result'.items[i] = item
          /\ \A i \in 1..Len(result.items) : result'.items[i] = result.items[i]
      BY <1>3, <1>4, <1>6, <2>2
    <3> QED
      BY <1>2, <1>5, <3>1 DEF SheetsInv, LabelsKnown
  <2> QED
    BY <2>1, <2>2
<1> QED
  BY <1>1, <1>7, <1>8, <1>9, <1>10 DEF SheetsInv

LEMMA NextSheets == IInv /\ SheetsInv /\ [Next]_vars => SheetsInv'
<1> SUFFICES ASSUME IInv, SheetsInv, [Next]_vars PROVE SheetsInv'
  OBVIOUS
<1>1. CASE OpenSheet \/ EndSheet
  BY <1>1, OpenSheetSheets, EndSheetSheets
<1>2. ASSUME NEW r \in Rows, FindHeader(r) \/ ScanRow(r) \/ ParseRow(r) PROVE SheetsInv'
  BY <1>2, FindHeaderSheets, ScanRowSheets, ParseRowSheets
<1>3. CASE Merge \/ PublishBatch
  BY <1>3, SheetsRest DEF Merge, PublishBatch
<1>4. ASSUME NEW item, EditItem(item) \/ DeleteItem(item) PROVE SheetsInv'
  BY <1>4, SheetsRest DEF EditItem, DeleteItem
<1>5. CASE UNCHANGED vars
  BY <1>5 DEF SheetsInv, CountsRows, CountsSheets, LabelsKnown, OpenSheetRead, Untold, vars, scan
<1> QED
  BY <1>1, <1>2, <1>3, <1>4, <1>5 DEF Next, Finished

\* The publish of an unchanged catalog is what the merge lemmas are about.
LEMMA FreshPublish ==
  ASSUME IInv, [Next]_vars, PublishesFresh
  PROVE  /\ live' = AfterPublish(live, ToInsert(live, result.items))
         /\ live \in SUBSET Item /\ result.items \in Seq(Item)
<1>1. PublishBatch
  BY DEF PublishesFresh, Next, OpenSheet, EndSheet, Merge, Finished, FindHeader, ScanRow,
     ParseRow, EditItem, DeleteItem, vars
<1> QED
  BY <1>1 DEF IInv, TypeOK, Results, PendingInv, PublishesFresh, PublishBatch

-----------------------------------------------------------------------------
(***************************************************************************)
(* However long the sheets are and whatever is in them, the scan keeps its *)
(* types: no more than HeaderLimit rows are tried as a header, every item  *)
(* is made of texts of the sheet (ingestSheet, the detectors), and what is *)
(* pending or live is items.                                               *)
(***************************************************************************)
THEOREM TypeCorrect == Spec => []TypeOK
<1>1. IInv => TypeOK
  BY DEF IInv
<1> QED
  BY <1>1, InitIInv, NextIInv, PTL DEF Spec

(***************************************************************************)
(* Publishing a file the catalog has not overtaken makes no alias          *)
(* ambiguous, whatever the file and the catalog hold, unless a live item   *)
(* has that alias with white space or letters that the database converts   *)
(* otherwise (processBatchJob, publishBatch).                              *)
(***************************************************************************)
THEOREM PublishKeepsAliasesUnique == Spec => AliasesStayUnique
<1>1. IInv /\ [Next]_vars =>
        [PublishesFresh =>
           \A r, s \in live' : r # s /\ SameAlias(r, s) =>
             \/ \E p, q \in live : p # q /\ SameAlias(p, q) /\ SameAlias(p, r)
             \/ \E p \in live : SameAlias(p, r) /\ ToldApart(p)]_vars
  <2> SUFFICES ASSUME IInv, [Next]_vars, PublishesFresh,
                      NEW r \in live', NEW s \in live', r # s, SameAlias(r, s)
      PROVE  \/ \E p, q \in live : p # q /\ SameAlias(p, q) /\ SameAlias(p, r)
             \/ \E p \in live : SameAlias(p, r) /\ ToldApart(p)
    OBVIOUS
  <2> QED
    BY FreshPublish, MergeKeepsAliasesUnique
<1> QED
  BY <1>1, InitIInv, NextIInv, PTL DEF Spec, AliasesStayUnique

(***************************************************************************)
(* Publishing such a file shows the last row of each of its identities,    *)
(* unless it was refused or another row took its code.                     *)
(***************************************************************************)
THEOREM PublishShowsFile == Spec => FileShown
<1>1. IInv /\ [Next]_vars =>
        [PublishesFresh =>
           \A i \in 1..Len(result.items) :
             /\ LastOfIdentity(i)
             /\ ~Refused(live, result.items, result.items[i])
             /\ \A j \in 1..Len(result.items) :
                  j # i /\ LastOfIdentity(j) => MergedAs(j).code # MergedAs(i).code
             => MergedAs(i) \in live']_vars
  <2> SUFFICES ASSUME IInv, [Next]_vars, PublishesFresh,
                      NEW i \in 1..Len(result.items), LastOfIdentity(i),
                      ~Refused(live, result.items, result.items[i]),
                      \A j \in 1..Len(result.items) :
                        j # i /\ LastOfIdentity(j) => MergedAs(j).code # MergedAs(i).code
      PROVE  MergedAs(i) \in live'
    OBVIOUS
  <2>1. result.items \in Seq(Item)
    BY FreshPublish
  <2>2. Kept(result.items) = {j \in 1..Len(result.items) : LastOfIdentity(j)}
    BY <2>1 DEF Kept, LastOfIdentity
  <2> QED
    BY <2>1, <2>2, FreshPublish, MergeShowsFile DEF MergedAs
<1> QED
  BY <1>1, InitIInv, NextIInv, PTL DEF Spec, FileShown

(***************************************************************************)
(* The scan of any file, of any sheets and rows, is what one would say of  *)
(* its sheets one by one, with nothing lost and nothing counted twice      *)
(* (ingestSheet, the detectors, extraHeadersFromHeaderRow).                *)
(***************************************************************************)
THEOREM ScanIsComplete == Spec => []ScanMatchesSheets
<1>1. IInv /\ SheetsInv => ScanMatchesSheets
  <2> SUFFICES ASSUME IInv, SheetsInv, stage # "sheet" PROVE ScanMatchesSheets
    BY DEF ScanMatchesSheets
  <2>1. Untold = 0
    BY DEF Untold
  <2>2. result.recognizedSheets \in Nat /\ result.skippedSheets \in Nat
    BY ResultFields DEF IInv
  <2>3. /\ result.skippedSheets = Cardinality(Unreadable(read))
        /\ result.recognizedSheets + result.skippedSheets = result.totalSheets
    BY <2>1, <2>2 DEF SheetsInv, CountsSheets
  <2> QED
    BY <2>3 DEF SheetsInv, CountsRows, CountsSheets, LabelsKnown, ScanMatchesSheets
<1> QED
  BY <1>1, InitIInv, NextIInv, InitSheets, NextSheets, PTL DEF Spec
=============================================================================
