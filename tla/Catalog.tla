------------------------------ MODULE Catalog ------------------------------
(***************************************************************************)
(* The versioned item catalog: what ItemMasterService does to the tables   *)
(* item_master_batch and item_master_row, one action per transaction.      *)
(*                                                                         *)
(* A batch is one uploaded file, or one manual add, edit or delete.  Its   *)
(* rows are versions of items, keyed by item code.  Publishing a batch     *)
(* closes (valid_to) the current published versions of its codes; taking   *)
(* it off search reopens older versions; search sees the open, undeleted   *)
(* rows of published batches.                                              *)
(*                                                                         *)
(* publishBatch and holdBatch each run in one transaction under the global *)
(* advisory lock 'item-master-publish', so each is one action here.  A     *)
(* manual edit is two transactions (insert, then publish) and two actions: *)
(* other requests and a crash may fall between them.                       *)
(*                                                                         *)
(* A run of the parse job is its read of the batch, and one step for all   *)
(* it writes: rows deleted and inserted, the status read again, the batch  *)
(* saved, the commit.  Whatever happens in between goes before that step,  *)
(* and a status that another transaction saves between the second read     *)
(* and the save is overwritten, as if it had never come; ParseJob has the  *)
(* two apart, and the queue.  Here the queue may start a run of an         *)
(* uploaded batch at any time, any number of times, whatever its status.   *)
(*                                                                         *)
(* Abstracted: sheet names, an item's fields (a row carries its code and   *)
(* the extra columns of its sheet), valid_to's value (a row is open or     *)
(* not) and valid_from.  Rows are ordered by id where the code orders them *)
(* by valid_from and then id; the two orders differ only when a manual     *)
(* edit commits while a parse is running, and that case is left out.       *)
(*                                                                         *)
(* An operator whose comment begins with WRONG is a deliberately broken    *)
(* variant of the definition that follows it.  Nothing uses it: it shows   *)
(* that the property it names would notice that bug.                       *)
(***************************************************************************)
EXTENDS Naturals, Sequences, FiniteSets

CONSTANTS
  Batches,      \* item_master_batch ids
  Uploads,      \* the batches that have a source file; the others are manual
  Codes,        \* item codes
  Columns,      \* extra column headers a sheet may have
  Files,        \* what merging one uploaded file may insert (see File)
  MaxRow,       \* bound: the largest item_master_row id
  MaxRequests,  \* bound: manual requests in flight at once
  MaxRuns,      \* bound: runs of the parse job and their failures at once
  MaxFaults,    \* bound: runs that fail, jobs delivered again, and retries
  NoRow,        \* an unused row id
  NoRequest,    \* no manual request is between its two transactions
  NoRetry       \* no retry request is between its read and its save

(***************************************************************************)
(* What a parsed file contributes: the codes of the rows it inserts, in    *)
(* order (none when every row is unchanged), and its extra headers.  Which *)
(* rows are inserted depends on the catalog too, so every run may insert   *)
(* what any of Files says.                                                 *)
(***************************************************************************)
File == [codes : Seq(Codes), headers : SUBSET Columns]

\* The publish body: a sheet of its own (named or not), or the live batch to
\* add the rows to.
Dest == {"own"} \cup Batches

ASSUME CatalogAssumption ==
  /\ Uploads \subseteq Batches
  /\ MaxRow \in Nat
  /\ Files \subseteq File
  /\ MaxRequests \in Nat
  /\ MaxRuns \in Nat
  /\ MaxFaults \in Nat
  /\ NoRequest \notin Dest

RowIds == 1..MaxRow

Row == [batch : Batches, code : Codes, deleted : BOOLEAN, open : BOOLEAN,
        columns : SUBSET Columns]

ASSUME NoRowAssumption == NoRow \notin Row

\* What a retry request saves of the copy of the batch that it read.
Copy == [headers : SUBSET Columns]

ASSUME NoRetryAssumption == NoRetry \notin Copy

\* "none": no such batch row exists yet
Status == {"none", "processing", "held", "published", "rejected"}

VARIABLES
  status,     \* item_master_batch.status
  headers,    \* extra_headers, as a set
  row,        \* item_master_row by id; open means valid_to IS NULL
  lastRow,    \* the id sequence of item_master_row
  request,    \* destination of a manual request inserted but not yet published
  checked,    \* codes a delete request has found live and not yet marked
  run,        \* the status that the run under way has read, "none" without one
  failing,    \* batches whose run was rolled back and has yet to reject them
  retry,      \* the copy of the batch that a retry request has yet to save
  faults,     \* how many runs have failed or been repeated, and retries
  twice,      \* codes that some run inserted twice (history)
  relisted    \* live batches whose rows a run has put in place (history)

job == <<run, failing, retry, faults>>
vars == <<status, headers, row, lastRow, request, checked, job, twice, relisted>>

TypeOK ==
  /\ status \in [Batches -> Status]
  /\ headers \in [Batches -> SUBSET Columns]
  /\ row \in [RowIds -> Row \cup {NoRow}]
  /\ lastRow \in 0..MaxRow
  /\ request \in [Batches -> Dest \cup {NoRequest}]
  /\ checked \subseteq Codes
  /\ run \in [Batches -> Status]
  /\ failing \subseteq Batches
  /\ retry \in [Batches -> Copy \cup {NoRetry}]
  /\ faults \in 0..MaxFaults
  /\ twice \subseteq Codes
  /\ relisted \subseteq Batches

Init ==
  /\ status = [b \in Batches |-> "none"]
  /\ headers = [b \in Batches |-> {}]
  /\ row = [r \in RowIds |-> NoRow]
  /\ lastRow = 0
  /\ request = [b \in Batches |-> NoRequest]
  /\ checked = {}
  /\ run = [b \in Batches |-> "none"]
  /\ failing = {}
  /\ retry = [b \in Batches |-> NoRetry]
  /\ faults = 0
  /\ twice = {}
  /\ relisted = {}

-----------------------------------------------------------------------------
(* The queries over the two tables.  rw and st stand for row and status, so  *)
(* that a query can also be asked of the tables as they would be after an    *)
(* update.                                                                   *)

RowsIn(rw, b) == {r \in RowIds : rw[r] # NoRow /\ rw[r].batch = b}
CodesIn(rw, b) == {rw[r].code : r \in RowsIn(rw, b)}

\* an open version of a published batch, deletion markers included
Current(rw, st, r) ==
  /\ rw[r] # NoRow
  /\ st[rw[r].batch] = "published"
  /\ rw[r].open

\* ItemSearchService.visibleRows: the one filter every query shares
Visible(rw, st, r) == Current(rw, st, r) /\ ~rw[r].deleted

VisibleRows(rw, st) == {r \in RowIds : Visible(rw, st, r)}

\* MetaService.getLiveSources: the files that contribute a live row
LiveSources(rw, st) == {rw[r].batch : r \in VisibleRows(rw, st)}

-----------------------------------------------------------------------------
(* Uploads.  An upload commits its batch as 'processing' and queues the      *)
(* parse; a failed or stuck parse can be retried.  The runs, the failures    *)
(* and the retries write the status column whatever it says by then.         *)

Upload(b) ==
  /\ b \in Uploads
  /\ status[b] = "none"
  /\ status' = [status EXCEPT ![b] = "processing"]
  /\ UNCHANGED <<headers, row, lastRow, request, checked, job, twice, relisted>>

\* Bounds.
Fault == faults < MaxFaults /\ faults' = faults + 1
MayRun == Cardinality({b \in Batches : run[b] # "none"}) + Cardinality(failing) < MaxRuns

\* A job is delivered, for the first time or again, and the batch is read.  The
\* advisory lock keeps the runs of a batch apart.
StartRun(b) ==
  /\ MayRun
  /\ b \in Uploads
  /\ status[b] # "none"
  /\ run[b] = "none"
  /\ run' = [run EXCEPT ![b] = status[b]]
  /\ \/ status[b] = "processing" /\ UNCHANGED faults
     \/ Fault
  /\ UNCHANGED <<status, headers, row, lastRow, request, checked, failing,
                 retry, twice, relisted>>

\* WRONG (breaks HistoryKept): deletes every version of the file's codes
ParsedRowsByCode(b, f) ==
  [r \in RowIds |->
     IF r \in (lastRow + 1)..(lastRow + Len(f.codes))
     THEN [batch |-> b, code |-> f.codes[r - lastRow], deleted |-> FALSE,
           open |-> TRUE, columns |-> f.headers]
     ELSE IF row[r] # NoRow /\ \E i \in 1..Len(f.codes) : f.codes[i] = row[r].code
     THEN NoRow ELSE row[r]]

\* The rows a parse leaves: batch b's earlier rows are deleted first, then one
\* open row per code is inserted under the next ids.
ParsedRows(b, f) ==
  [r \in RowIds |->
     IF r \in (lastRow + 1)..(lastRow + Len(f.codes))
     THEN [batch |-> b, code |-> f.codes[r - lastRow], deleted |-> FALSE,
           open |-> TRUE, columns |-> f.headers]
     ELSE IF r \in RowsIn(row, b) THEN NoRow ELSE row[r]]

\* The codes that two rows of the file have.
Repeated(f) ==
  {f.codes[i] : i \in {j \in 1..Len(f.codes) :
                         \E k \in 1..Len(f.codes) : k # j /\ f.codes[k] = f.codes[j]}}

\* A status other than 'processing' is meant to stay, but the copy that is saved
\* has the one read at the start.
SavedStatus(b) == IF status[b] = "processing" THEN "held" ELSE run[b]

\* The run writes and commits.
ProcessBatchJob(b, f) ==
  /\ run[b] # "none"
  /\ lastRow + Len(f.codes) <= MaxRow
  /\ row' = ParsedRows(b, f)
  /\ lastRow' = lastRow + Len(f.codes)
  /\ headers' = [headers EXCEPT ![b] = f.headers]
  /\ status' = [status EXCEPT ![b] = SavedStatus(b)]
  /\ run' = [run EXCEPT ![b] = "none"]
  /\ twice' = twice \cup Repeated(f)
  /\ relisted' = IF SavedStatus(b) = "published" THEN relisted \cup {b} ELSE relisted \ {b}
  /\ UNCHANGED <<request, checked, failing, retry, faults>>

\* The file cannot be read or parsed, or a statement fails: rollback.
FailRun(b) ==
  /\ Fault
  /\ run[b] # "none"
  /\ run' = [run EXCEPT ![b] = "none"]
  /\ failing' = failing \cup {b}
  /\ UNCHANGED <<status, headers, row, lastRow, request, checked, retry,
                 twice, relisted>>

\* A second transaction rejects the batch, live or not.
RejectBatch(b) ==
  /\ b \in failing
  /\ failing' = failing \ {b}
  /\ status' = [status EXCEPT ![b] = "rejected"]
  /\ relisted' = relisted \ {b}
  /\ UNCHANGED <<headers, row, lastRow, request, checked, run, retry, faults, twice>>

\* That transaction fails too; the handler swallows both errors.
RejectFails(b) ==
  /\ b \in failing
  /\ failing' = failing \ {b}
  /\ UNCHANGED <<status, headers, row, lastRow, request, checked, run, retry,
                 faults, twice, relisted>>

\* retryBatch reads the batch outside of its transaction and checks its status ...
RetryRead(b) ==
  /\ Fault
  /\ status[b] \in {"processing", "rejected"}
  /\ retry[b] = NoRetry
  /\ retry' = [retry EXCEPT ![b] = [headers |-> headers[b]]]
  /\ UNCHANGED <<status, headers, row, lastRow, request, checked, run, failing,
                 twice, relisted>>

\* ... and saves the copy it read, whatever the row says by then.
RetryBatch(b) ==
  /\ retry[b] # NoRetry
  /\ status' = [status EXCEPT ![b] = "processing"]
  /\ headers' = [headers EXCEPT ![b] = retry[b].headers]
  /\ retry' = [retry EXCEPT ![b] = NoRetry]
  /\ relisted' = relisted \ {b}
  /\ UNCHANGED <<row, lastRow, request, checked, run, failing, faults, twice>>

-----------------------------------------------------------------------------
(* Publishing.                                                               *)

\* WRONG (breaks HeldRowsUntouched): closes rows of held uploads too
ToCloseAnyStatus(rw, st, b) ==
  {r \in RowIds : /\ rw[r] # NoRow
                  /\ rw[r].open
                  /\ rw[r].batch # b
                  /\ rw[r].code \in CodesIn(rw, b)}

\* WRONG (breaks UniqueVisible): a batch whose rows have all been
\* open from the start closes nothing
ToCloseNothing(rw, st, b) == {}

\* Close only currently live published rows of these codes; pending rows on
\* another held upload stay untouched.
ToClose(rw, st, b) ==
  {r \in RowIds : /\ Current(rw, st, r)
                  /\ rw[r].batch # b
                  /\ rw[r].code \in CodesIn(rw, b)}

Superseded(rw, st, b) ==
  LET closed == ToClose(rw, st, b)
  IN  [r \in RowIds |-> IF r \in closed THEN [rw[r] EXCEPT !.open = FALSE] ELSE rw[r]]

\* WRONG (breaks AbsorbsWhole): moves the open rows only
MovedOpen(rw, b, owner) ==
  [r \in RowIds |-> IF r \in RowsIn(rw, b) /\ rw[r].open
                    THEN [rw[r] EXCEPT !.batch = owner]
                    ELSE rw[r]]

\* Every row of b, closed ones included, moves to the batch it is added to.
Moved(rw, b, owner) ==
  [r \in RowIds |-> IF r \in RowsIn(rw, b)
                    THEN [rw[r] EXCEPT !.batch = owner]
                    ELSE rw[r]]

\* WRONG (breaks TypeOK): takes the destination for a batch id
OwnerIsDest(b, d) == d

\* The batch that owns b's rows once b is published to destination d.
Owner(b, d) == IF d \in Batches THEN d ELSE b

\* WRONG (breaks HeadersCoverRows): the target keeps its own headers only
UnmergedHeaders(b, d) == headers

MergedHeaders(b, d) ==
  [headers EXCEPT ![Owner(b, d)] = headers[Owner(b, d)] \cup headers[b]]

\* publishBatch refuses anything but a held batch, and a target that is not
\* live; the transaction then rolls back and nothing changes.
CanPublish(b, d) ==
  /\ status[b] = "held"
  /\ d \in Batches => status[d] = "published"

Publish(b, d) ==
  /\ CanPublish(b, d)
  /\ row' = Moved(Superseded(row, status, b), b, Owner(b, d))
  /\ headers' = MergedHeaders(b, d)
  /\ status' = [status EXCEPT ![b] = "published"]
  /\ UNCHANGED <<lastRow, job, twice, relisted>>

PublishBatch(b, d) ==
  /\ Publish(b, d)
  /\ UNCHANGED <<request, checked>>

-----------------------------------------------------------------------------
(* Taking a file off search.                                                 *)

\* Closed, undeleted versions of code c in the other published batches.
OlderVersions(rw, st, b, c) ==
  {r \in RowIds : /\ rw[r] # NoRow
                  /\ rw[r].code = c
                  /\ rw[r].batch # b
                  /\ ~rw[r].deleted
                  /\ ~rw[r].open
                  /\ st[rw[r].batch] = "published"}

\* WRONG (breaks HoldKeepsCodes): counts the batch that is being taken off
LiveAnywhere(rw, st, b, c) ==
  \E r \in VisibleRows(rw, st) : rw[r].code = c

LiveElsewhere(rw, st, b, c) ==
  \E r \in VisibleRows(rw, st) : rw[r].batch # b /\ rw[r].code = c

\* WRONG (breaks OnlyItsCodes, UndoIsExact): considers every code, not only those of b
ToReopenAll(rw, st, b) ==
  {r \in RowIds :
     \E c \in Codes :
       /\ r \in OlderVersions(rw, st, b, c)
       /\ \A s \in OlderVersions(rw, st, b, c) : s <= r
       /\ ~LiveElsewhere(rw, st, b, c)}

\* For each code of b that is not live elsewhere, the newest older version.
ToReopen(rw, st, b) ==
  {r \in RowIds :
     \E c \in CodesIn(rw, b) :
       /\ r \in OlderVersions(rw, st, b, c)
       /\ \A s \in OlderVersions(rw, st, b, c) : s <= r
       /\ ~LiveElsewhere(rw, st, b, c)}

Restored(rw, st, b) ==
  LET reopened == ToReopen(rw, st, b)
  IN  [r \in RowIds |-> IF r \in reopened THEN [rw[r] EXCEPT !.open = TRUE] ELSE rw[r]]

\* On a batch that is already held the call changes nothing.
HoldBatch(b) ==
  /\ status[b] = "published"
  /\ row' = Restored(row, status, b)
  /\ status' = [status EXCEPT ![b] = "held"]
  /\ relisted' = relisted \ {b}
  /\ UNCHANGED <<headers, lastRow, request, checked, job, twice>>

-----------------------------------------------------------------------------
(* Manual add, edit and delete: one transaction inserts a held one-row       *)
(* batch, a second one publishes it.                                         *)

\* Bound.  A request that is only waiting for its second transaction leaves a
\* held batch that anybody may publish, so more of them add no behaviour.
MayRequest ==
  Cardinality({b \in Batches : request[b] # NoRequest}) + Cardinality(checked)
    < MaxRequests

InsertManual(b, c, deletion, d) ==
  /\ b \notin Uploads
  /\ status[b] = "none"
  /\ lastRow < MaxRow
  /\ row' = [row EXCEPT ![lastRow + 1] =
               [batch |-> b, code |-> c, deleted |-> deletion, open |-> TRUE,
                columns |-> {}]]
  /\ lastRow' = lastRow + 1
  /\ status' = [status EXCEPT ![b] = "held"]
  /\ request' = [request EXCEPT ![b] = d]
  /\ UNCHANGED <<headers, job, twice, relisted>>

ManualUpsert(b, c, d) ==
  /\ MayRequest
  /\ InsertManual(b, c, FALSE, d)
  /\ UNCHANGED checked

\* manualDelete reads the live version in a query of its own (404 if none) ...
CheckDelete(c) ==
  /\ MayRequest
  /\ \E r \in VisibleRows(row, status) : row[r].code = c
  /\ checked' = checked \cup {c}
  /\ UNCHANGED <<status, headers, row, lastRow, request, job, twice, relisted>>

\* ... and inserts the deletion marker afterwards, whatever is live by then.
ManualDelete(b, c) ==
  /\ c \in checked
  /\ InsertManual(b, c, TRUE, "own")
  /\ checked' = checked \ {c}

ManualPublish(b) ==
  /\ request[b] # NoRequest
  /\ Publish(b, request[b])
  /\ request' = [request EXCEPT ![b] = NoRequest]
  /\ UNCHANGED checked

\* The second transaction fails (the target is not live, or somebody else has
\* published the batch meanwhile) and the first one stays.
ManualFails(b) ==
  /\ request[b] # NoRequest
  /\ ~CanPublish(b, request[b])
  /\ request' = [request EXCEPT ![b] = NoRequest]
  /\ UNCHANGED <<status, headers, row, lastRow, checked, job, twice, relisted>>

\* The process stops: requests between two transactions are gone, open runs are
\* rolled back and their failures not recorded.
Crash ==
  /\ request' = [b \in Batches |-> NoRequest]
  /\ checked' = {}
  /\ run' = [b \in Batches |-> "none"]
  /\ failing' = {}
  /\ retry' = [b \in Batches |-> NoRetry]
  /\ UNCHANGED <<status, headers, row, lastRow, faults, twice, relisted>>

-----------------------------------------------------------------------------
Next ==
  \/ \E b \in Batches : \/ Upload(b) \/ StartRun(b) \/ FailRun(b)
                        \/ RejectBatch(b) \/ RejectFails(b)
                        \/ RetryRead(b) \/ RetryBatch(b)
                        \/ HoldBatch(b) \/ ManualPublish(b) \/ ManualFails(b)
  \/ \E b \in Batches, f \in Files : ProcessBatchJob(b, f)
  \/ \E b \in Batches, d \in Dest : PublishBatch(b, d)
  \/ \E b \in Batches, c \in Codes, d \in Dest : ManualUpsert(b, c, d)
  \/ \E c \in Codes : CheckDelete(c)
  \/ \E b \in Batches, c \in Codes : ManualDelete(b, c)
  \/ Crash

Spec == Init /\ [][Next]_vars

-----------------------------------------------------------------------------
(* Properties.                                                               *)

VisibleOf(rw, st, c) == {r \in VisibleRows(rw, st) : rw[r].code = c}

TakesOff(b) == status[b] = "published" /\ status'[b] = "held"
PutsOn(b) == status[b] = "held" /\ status'[b] = "published"

\* The step is a run of the parse job for b that commits.  What it may do to the
\* rows and the status of a batch that is no longer 'processing' (a job that is
\* delivered again, a save of an old copy) is the exception of the properties
\* below: no check in the code prevents it.
ParsesIn(b) == \E f \in Files : ProcessBatchJob(b, f)

(***************************************************************************)
(* Search shows two versions of one item code only if one file named the   *)
(* code twice, and then in one batch, or if a run of the parse job for a   *)
(* batch that was live has put rows in place, which supersedes nothing.    *)
(* Whatever is published, absorbed, taken off, edited or deleted, and in   *)
(* which order, does not: item_master_row has no unique index that would   *)
(* enforce it (publishBatch, holdBatch).                                   *)
(***************************************************************************)
UniqueVisible ==
  \A r, s \in RowIds :
    Visible(row, status, r) /\ Visible(row, status, s) /\ row[r].code = row[s].code =>
      \/ r = s
      \/ row[r].batch = row[s].batch /\ row[r].code \in twice
      \/ row[r].batch # row[s].batch /\ (row[r].batch \in relisted \/ row[s].batch \in relisted)

(***************************************************************************)
(* Publishing one batch leaves the pending rows of every other held batch  *)
(* as they are, so that file can still be accepted (publishBatch closes    *)
(* rows of published batches only).  So does every step but a run of the   *)
(* parse job for that batch itself.                                        *)
(***************************************************************************)
HeldRowsUntouched ==
  [][\A r \in RowIds :
       /\ row[r] # NoRow
       /\ status[row[r].batch] = "held"
       /\ status'[row[r].batch] = "held"
       => row'[r] = row[r] \/ ParsesIn(row[r].batch)]_vars

(***************************************************************************)
(* What search shows for a code changes only when a batch with a row of    *)
(* that code goes live or ceases to be live, or is parsed again: not by    *)
(* uploads or the first half of a manual edit, not by the parsing, retry   *)
(* or failure of any other batch, not by a crash; and publishing or        *)
(* holding a batch does not disturb other codes.                           *)
(***************************************************************************)
OnlyItsCodes ==
  [][\A c \in Codes :
       \/ VisibleOf(row', status', c) = VisibleOf(row, status, c)
       \/ \E b \in Batches :
            /\ c \in CodesIn(row, b) \cup CodesIn(row', b)
            /\ \/ (status[b] = "published") # (status'[b] = "published")
               \/ ParsesIn(b)]_vars

(***************************************************************************)
(* Taking a batch off search never makes an item disappear while some      *)
(* other published batch has an undeleted version of it: the live version  *)
(* stays, or an older one comes back (holdBatch's reopening update).  A    *)
(* run that saves an old 'held' over 'published' reopens nothing and is    *)
(* excepted.                                                               *)
(***************************************************************************)
HoldKeepsCodes ==
  [][\A b \in Batches : TakesOff(b) /\ ~ParsesIn(b) =>
       \A r \in RowIds :
         /\ row[r] # NoRow
         /\ row[r].batch # b
         /\ ~row[r].deleted
         /\ status[row[r].batch] = "published"
         /\ VisibleOf(row, status, row[r].code) # {}
         => VisibleOf(row', status', row[r].code) # {}]_vars

(***************************************************************************)
(* For a batch that has codes no other batch shows, which is every live    *)
(* batch unless it was superseded or UniqueVisible's exceptions apply,     *)
(* taking it off search and putting it back is an exact undo: search shows *)
(* the same rows again (holdBatch followed by publishBatch).               *)
(***************************************************************************)
UndoIsExact ==
  \A b \in Batches :
    LET off == [status EXCEPT ![b] = "held"]
        held == Restored(row, status, b)
        back == Superseded(held, off, b)
    IN  /\ status[b] = "published"
        /\ \A c \in CodesIn(row, b) : ~LiveElsewhere(row, status, b, c)
        => VisibleRows(back, status) = VisibleRows(row, status)

(***************************************************************************)
(* Version history is never lost or rewritten: a row keeps its code, its   *)
(* deletion mark and its columns, and changes batch only when a batch goes *)
(* live into another live batch (getItemHistory reads these rows).  Only   *)
(* a run of the parse job for the batch that has a row may delete it.      *)
(***************************************************************************)
HistoryKept ==
  [][\A r \in RowIds : row[r] # NoRow =>
       \/ /\ row'[r] # NoRow
          /\ [row'[r] EXCEPT !.open = row[r].open, !.batch = row[r].batch] = row[r]
          /\ row'[r].batch # row[r].batch =>
               PutsOn(row[r].batch) /\ status'[row'[r].batch] = "published"
       \/ row'[r] = NoRow /\ ParsesIn(row[r].batch)]_vars

(***************************************************************************)
(* Adding a batch to a live sheet leaves one live file in the pane: all    *)
(* its rows move, so the absorbed batch contributes no live row            *)
(* (publishBatch with destination 'existing', getLiveSources).             *)
(***************************************************************************)
AbsorbsWhole ==
  [][\A r, s \in RowIds :
       /\ row[r] # NoRow
       /\ row'[r] # NoRow
       /\ row'[r].batch # row[r].batch
       /\ s \in RowsIn(row, row[r].batch)
       => /\ row'[s].batch = row'[r].batch
          /\ row[r].batch \notin LiveSources(row', status')]_vars

(***************************************************************************)
(* The headers of a batch that is or may go live cover the extra columns   *)
(* of every row it owns, after any number of absorbed files, although a    *)
(* late retry may save older headers: copy and export pad from them, so    *)
(* that a column the sheet had is never missing (getExportExtraKeys).      *)
(***************************************************************************)
HeadersCoverRows ==
  \A r \in RowIds :
    row[r] # NoRow /\ status[row[r].batch] \in {"held", "published"} =>
      row[r].columns \subseteq headers[row[r].batch]

(***************************************************************************)
(* The claim "Once published, that file's rows are searchable"             *)
(* (docs/ARCHITECTURE.md:20-21): after a batch goes live, each item it has *)
(* an undeleted version of is in search.  The code breaks it: publishing   *)
(* never reopens the batch's own rows, so a batch that was superseded,     *)
(* taken off and put back closes the live versions and shows none.         *)
(***************************************************************************)
PublishedIsSearchable ==
  [][\A b \in Batches : PutsOn(b) /\ ~ParsesIn(b) =>
       \A r \in RowsIn(row, b) :
         ~row[r].deleted => VisibleOf(row', status', row[r].code) # {}]_vars

-----------------------------------------------------------------------------
(* The inductive invariants.  RowsInv, behind the action properties: rows    *)
(* belong to batches that exist, ids above the sequence are unused, and      *)
(* relisted names live batches.                                              *)
(* IInv, behind UniqueVisible: no batch holds two open undeleted versions of *)
(* one code that no file named twice - not even while it is off search, for  *)
(* it may be published again as it is.                                       *)

Offered(r) == row[r] # NoRow /\ row[r].open /\ ~row[r].deleted

RowsHaveBatch == \A r \in RowIds : row[r] # NoRow => status[row[r].batch] # "none"

IdsAreFresh == \A r \in RowIds : r > lastRow => row[r] = NoRow

RelistedIsLive == \A b \in relisted : status[b] = "published"

OneOfferPerBatch ==
  \A r, s \in RowIds :
    /\ Offered(r) /\ Offered(s)
    /\ row[r].batch = row[s].batch /\ row[r].code = row[s].code
    => r = s \/ row[r].code \in twice

RowsInv ==
  /\ TypeOK
  /\ RowsHaveBatch
  /\ IdsAreFresh
  /\ RelistedIsLive

IInv ==
  /\ RowsInv
  /\ OneOfferPerBatch
  /\ UniqueVisible
=============================================================================
