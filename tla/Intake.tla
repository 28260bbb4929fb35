------------------------------- MODULE Intake -------------------------------
(***************************************************************************)
(* One uploaded file on its way into the catalog: ingestSheet scans each   *)
(* sheet row by row for a header and then for items, processBatchJob       *)
(* decides what to insert against the catalog as it is at that moment, and *)
(* publishBatch puts that decision on, whatever the catalog is by then.    *)
(*                                                                         *)
(* Layouts says what a header and a row are, MergeIdentity which item a    *)
(* row is.  Here a live item is the item; Catalog has its versions, and    *)
(* ParseJob the jobs, retries and failures around the parse.               *)
(*                                                                         *)
(* Abstracted: reading the workbook (xlsx, xls, csv) into rows of texts;   *)
(* which rows are reported as skipped is kept, the wording is not.         *)
(*                                                                         *)
(* read and fresh are history variables.                                   *)
(***************************************************************************)
EXTENDS Layouts, MergeIdentity, Functions

CONSTANTS
  Rows,         \* rows a sheet may have
  Catalogs,     \* live catalogs the upload may meet
  Edits,        \* items a steward may save by hand
  HeaderLimit,  \* rows of a sheet that are tried as its header (20 in the code)
  MaxSheets,    \* bound: sheets of a file
  MaxRows       \* bound: rows read of a file

NamesCodesOnce(live) == \A r, s \in live : r.code = s.code => r = s

ASSUME IntakeAssumption ==
  /\ Rows \subseteq Seq(Texts)
  /\ Lower \in [Texts -> Texts] /\ SqlLower \in [Texts -> Texts]
  /\ HeaderLimit \in Nat \ {0}
  /\ \A known \in Catalogs : NamesCodesOnce(known)

VARIABLES
  stage,         \* where the file is
  header,        \* headerRow of the current sheet, empty while there is none
  detector,      \* its layout
  rowsScanned,   \* rows of the current sheet tried as its header
  result,        \* ParseResult: its counts, items and skips
  extraHeaders,  \* ParseResult.extraHeaders, as a set
  live,          \* the live catalog
  pending,       \* rows inserted by the parse, not live before the publish
  read,          \* history: the sheets of the file, as far as they were read
  fresh          \* history: live is as it was when the file was merged

scan == <<header, detector, rowsScanned>>
vars == <<stage, scan, result, extraHeaders, live, pending, read, fresh>>

Item == [layout : {layout.key : layout \in Range(Registry)},
         code : Texts, alias : Texts, name : Texts,
         fields : SUBSET (Texts \X Texts), extra : SUBSET (Texts \X Texts)]

ASSUME ItemsAssumption ==
  /\ Edits \subseteq Item
  /\ \A known \in Catalogs : known \subseteq Item

Skip == {"MISSING_ITEM_CODE", "MISSING_ITEM_NAME", "UNRECOGNIZED_SHEET"}

\* ParseResult
Results == [totalSheets : Nat, recognizedSheets : Nat, skippedSheets : Nat,
            totalRows : Nat, acceptedRows : Nat, skippedRows : Nat,
            items : Seq(Item), skips : Seq(Skip)]

TypeOK ==
  /\ stage \in {"between", "sheet", "held", "published"}
  /\ header \in Rows \cup {<<>>}
  /\ detector \in Range(Registry) \cup {NoLayout}
  /\ rowsScanned \in 0..HeaderLimit
  /\ result \in Results
  /\ extraHeaders \subseteq Texts
  /\ live \subseteq Item
  /\ pending \subseteq Item
  /\ read \in Seq(Seq(Rows))
  /\ fresh \in BOOLEAN

emptyResult ==
  [totalSheets |-> 0, recognizedSheets |-> 0, skippedSheets |-> 0,
   totalRows |-> 0, acceptedRows |-> 0, skippedRows |-> 0,
   items |-> <<>>, skips |-> <<>>]

Init ==
  /\ stage = "between"
  /\ header = <<>>
  /\ detector = NoLayout
  /\ rowsScanned = 0
  /\ result = emptyResult
  /\ extraHeaders = {}
  /\ live \in Catalogs
  /\ pending = {}
  /\ read = <<>>
  /\ fresh = FALSE

-----------------------------------------------------------------------------
(* ingestSheet.                                                              *)

RowsRead == FoldFunction(LAMBDA s, n : Len(s) + n, 0, read)

Reads(r) == read' = [read EXCEPT ![Len(read)] = Append(@, r)]

\* WRONG (breaks ScanMatchesSheets): the last sheet's header stays
OpenSheetAsIs ==
  /\ stage = "between"
  /\ Len(read) < MaxSheets
  /\ stage' = "sheet"
  /\ result' = [result EXCEPT !.totalSheets = @ + 1]
  /\ read' = Append(read, <<>>)
  /\ UNCHANGED <<scan, extraHeaders, live, pending, fresh>>

OpenSheet ==
  /\ stage = "between"
  /\ Len(read) < MaxSheets
  /\ stage' = "sheet"
  /\ header' = <<>>
  /\ detector' = NoLayout
  /\ rowsScanned' = 0
  /\ result' = [result EXCEPT !.totalSheets = @ + 1]
  /\ read' = Append(read, <<>>)
  /\ UNCHANGED <<extraHeaders, live, pending, fresh>>

\* A sheet that is left without a header is counted and reported.
Unrecognized ==
  [result EXCEPT !.skippedSheets = @ + 1,
                 !.skips = Append(@, "UNRECOGNIZED_SHEET")]

FindHeader(r) ==
  /\ stage = "sheet"
  /\ detector = NoLayout
  /\ LayoutOf(r) # NoLayout
  /\ rowsScanned' = rowsScanned + 1
  /\ header' = r
  /\ detector' = LayoutOf(r)
  /\ result' = [result EXCEPT !.recognizedSheets = @ + 1]
  /\ extraHeaders' = extraHeaders \cup ExtraLabels(LayoutOf(r), r)
  /\ Reads(r)
  /\ UNCHANGED <<stage, live, pending, fresh>>

\* WRONG (breaks TypeOK): one more row is tried
GivesUpLate(n) == n > HeaderLimit

GivesUp(n) == n >= HeaderLimit

\* The rest of the sheet is not read once HeaderLimit rows were no header.
ScanRow(r) ==
  /\ stage = "sheet"
  /\ detector = NoLayout
  /\ LayoutOf(r) = NoLayout
  /\ rowsScanned' = rowsScanned + 1
  /\ IF GivesUp(rowsScanned')
     THEN stage' = "between" /\ result' = Unrecognized
     ELSE UNCHANGED <<stage, result>>
  /\ Reads(r)
  /\ UNCHANGED <<header, detector, extraHeaders, live, pending, fresh>>

ParseRow(r) ==
  /\ stage = "sheet"
  /\ detector # NoLayout
  /\ result' =
       IF Skips(detector, header, r)
       THEN [result EXCEPT
               !.totalRows = @ + 1,
               !.skippedRows = @ + 1,
               !.skips = Append(@, IF MissingCode(detector, header, r)
                                   THEN "MISSING_ITEM_CODE" ELSE "MISSING_ITEM_NAME")]
       ELSE [result EXCEPT
               !.totalRows = @ + 1,
               !.acceptedRows = @ + 1,
               !.items = Append(@, ParsedItem(detector, header, r))]
  /\ Reads(r)
  /\ UNCHANGED <<stage, scan, extraHeaders, live, pending, fresh>>

\* The sheet has no more rows.
EndSheet ==
  /\ stage = "sheet"
  /\ stage' = "between"
  /\ result' = IF detector = NoLayout THEN Unrecognized ELSE result
  /\ UNCHANGED <<scan, extraHeaders, live, pending, read, fresh>>

-----------------------------------------------------------------------------
(* processBatchJob merges the file when all of it has been parsed, and       *)
(* publishBatch puts on what was decided then.                               *)

Merge ==
  /\ stage = "between"
  /\ stage' = "held"
  /\ pending' = ToInsert(live, result.items)
  /\ fresh' = TRUE
  /\ UNCHANGED <<scan, result, extraHeaders, live, read>>

PublishBatch ==
  /\ stage = "held"
  /\ stage' = "published"
  /\ live' = AfterPublish(live, pending)
  /\ UNCHANGED <<scan, result, extraHeaders, pending, read, fresh>>

\* A steward saves one item by hand, or deletes one, while the file waits.
\* (Before the merge it would only be another catalog to meet.)
EditItem(item) ==
  /\ stage = "held"
  /\ fresh
  /\ live' = AfterPublish(live, {item})
  /\ fresh' = FALSE
  /\ UNCHANGED <<stage, scan, result, extraHeaders, pending, read>>

DeleteItem(item) ==
  /\ stage = "held"
  /\ fresh
  /\ item \in live
  /\ live' = live \ {item}
  /\ fresh' = FALSE
  /\ UNCHANGED <<stage, scan, result, extraHeaders, pending, read>>

Finished == stage = "published" /\ UNCHANGED vars

Next ==
  \/ OpenSheet \/ EndSheet \/ Merge \/ PublishBatch \/ Finished
  \/ RowsRead < MaxRows /\ \E r \in Rows : FindHeader(r) \/ ScanRow(r) \/ ParseRow(r)
  \/ \E item \in Edits : EditItem(item)
  \/ \E item \in live : DeleteItem(item)

Spec == Init /\ [][Next]_vars

-----------------------------------------------------------------------------
(* The scan, said of whole sheets.  A row of a file is named by its sheet    *)
(* and its place in that sheet.                                              *)

HeaderRows(s) ==
  {i \in 1..Len(s) : i <= HeaderLimit /\ LayoutOf(s[i]) # NoLayout}

HeaderRow(s) ==
  LET found == HeaderRows(s) IN CHOOSE i \in found : \A j \in found : i <= j

HeaderOf(s) == s[HeaderRow(s)]

Below(s) == IF HeaderRows(s) = {} THEN {} ELSE (HeaderRow(s) + 1)..Len(s)

\* The rows below its header that a sheet's layout does not skip.
Accepted(s) ==
  LET h == HeaderOf(s)
      layout == LayoutOf(h)
  IN  {i \in Below(s) : ~Skips(layout, h, s[i])}

DataRows(file) == UNION {{k} \X Below(file[k]) : k \in 1..Len(file)}

AcceptedRows(file) == UNION {{k} \X Accepted(file[k]) : k \in 1..Len(file)}

ItemAt(file, p) ==
  LET h == HeaderOf(file[p[1]]) IN ParsedItem(LayoutOf(h), h, file[p[1]][p[2]])

Before(p, q) == p[1] < q[1] \/ (p[1] = q[1] /\ p[2] < q[2])

\* The accepted rows of a file, one by one and in order.
Lists(items, file) ==
  LET accepted == AcceptedRows(file)
  IN  \E place \in [1..Len(items) -> accepted] :
        /\ \A i, j \in 1..Len(items) : i < j => Before(place[i], place[j])
        /\ \A p \in accepted : \E i \in 1..Len(items) : place[i] = p
        /\ \A i \in 1..Len(items) : items[i] = ItemAt(file, place[i])

Unreadable(file) == {k \in 1..Len(file) : HeaderRows(file[k]) = {}}

(***************************************************************************)
(* However sheets, headers and rows are mixed, the scan of a file is what  *)
(* one would say of its sheets one by one: the items of each sheet come    *)
(* from the rows below its own first header, under that header, every data *)
(* row is an item or a reported skip, every sheet without a header is      *)
(* reported (a short one used to vanish silently: ingestSheet's comment),  *)
(* and the extra column of every item is among the file's headers.         *)
(***************************************************************************)
ScanMatchesSheets ==
  stage # "sheet" =>
    /\ Lists(result.items, read)
    /\ result.acceptedRows = Len(result.items)
    /\ result.totalRows = Cardinality(DataRows(read))
    /\ result.totalRows = result.acceptedRows + result.skippedRows
    /\ result.totalSheets = Len(read)
    /\ result.skippedSheets = Cardinality(Unreadable(read))
    /\ result.recognizedSheets + result.skippedSheets = result.totalSheets
    /\ Len(result.skips) = result.skippedRows + result.skippedSheets
    /\ \A i \in 1..Len(result.items) : \A e \in result.items[i].extra :
         e[1] \in extraHeaders

PublishesFresh == stage = "held" /\ stage' = "published" /\ fresh

LastOfIdentity(i) ==
  \A j \in 1..Len(result.items) :
    j > i => identityKey(result.items[j]) # identityKey(result.items[i])

MergedAs(i) == Incoming(live, result.items, result.items[i])

(***************************************************************************)
(* A file that is published before the catalog has changed shows what it   *)
(* says: the last row of each identity is live as it stands in the file,   *)
(* counted as new, updated or unchanged alike, unless it was refused as    *)
(* ambiguous or conflicting.  (The merge loop of processBatchJob.)  The    *)
(* exception is a file that has two rows for one item under two aliases:   *)
(* then a row counted as unchanged may be superseded by the other.         *)
(***************************************************************************)
FileShown ==
  [][PublishesFresh =>
       \A i \in 1..Len(result.items) :
         /\ LastOfIdentity(i)
         /\ ~Refused(live, result.items, result.items[i])
         /\ \A j \in 1..Len(result.items) :
              j # i /\ LastOfIdentity(j) => MergedAs(j).code # MergedAs(i).code
         => MergedAs(i) \in live']_vars

(***************************************************************************)
(* Publishing a file never makes an alias ambiguous: two items with one    *)
(* alias (in any casing) are live after it only if that alias was on two   *)
(* items before, or on one whose alias the database converts to something  *)
(* else than the merge does, so that its query does not find it - provided *)
(* the catalog has not changed since the file was merged                   *)
(* (item-identity.ts: the alias is the merge identity; the schema has no   *)
(* unique index on it).                                                    *)
(***************************************************************************)
AliasesStayUnique ==
  [][PublishesFresh =>
       \A r, s \in live' : r # s /\ SameAlias(r, s) =>
         \/ \E p, q \in live : p # q /\ SameAlias(p, q) /\ SameAlias(p, r)
         \/ \E p \in live : SameAlias(p, r) /\ ToldApart(p)]_vars
=============================================================================
