--------------------------- MODULE CatalogProofs ---------------------------
(***************************************************************************)
(* Proofs about Catalog for every set of batches, codes, columns and files *)
(* and every bound: type correctness, the uniqueness of the visible        *)
(* version of a code, and the action properties that follow from the same  *)
(* invariant.  Nothing is assumed of the queue or of the files: what a job *)
(* that runs again, or a file that names a code twice, may do is in the    *)
(* properties.                                                             *)
(***************************************************************************)
EXTENDS Catalog, WellFoundedInduction, TLAPS

USE CatalogAssumption, NoRowAssumption, NoRetryAssumption

-----------------------------------------------------------------------------
(* What the row-updating operators do to one row.                            *)

LEMMA SupersededRow ==
  ASSUME NEW rw \in [RowIds -> Row \cup {NoRow}],
         NEW st \in [Batches -> Status],
         NEW b \in Batches
  PROVE  /\ Superseded(rw, st, b) \in [RowIds -> Row \cup {NoRow}]
         /\ \A r \in RowIds :
              LET s == Superseded(rw, st, b)[r] IN
              IF r \in ToClose(rw, st, b)
              THEN /\ rw[r] # NoRow
                   /\ s # NoRow
                   /\ s.batch = rw[r].batch
                   /\ s.code = rw[r].code
                   /\ s.deleted = rw[r].deleted
                   /\ s.columns = rw[r].columns
                   /\ ~s.open
              ELSE s = rw[r]
<1>1. ASSUME NEW r \in RowIds, r \in ToClose(rw, st, b)
      PROVE  /\ rw[r] \in Row
             /\ [rw[r] EXCEPT !.open = FALSE] \in Row
  BY <1>1 DEF ToClose, Current, Row
<1>2. ASSUME NEW r \in RowIds
      PROVE  Superseded(rw, st, b)[r] =
               IF r \in ToClose(rw, st, b)
               THEN [rw[r] EXCEPT !.open = FALSE] ELSE rw[r]
  BY DEF Superseded
<1>3. Superseded(rw, st, b) \in [RowIds -> Row \cup {NoRow}]
  BY <1>1 DEF Superseded
<1>. QED
  BY <1>1, <1>2, <1>3 DEF Row

LEMMA MovedRow ==
  ASSUME NEW rw \in [RowIds -> Row \cup {NoRow}],
         NEW b \in Batches, NEW owner \in Batches
  PROVE  /\ Moved(rw, b, owner) \in [RowIds -> Row \cup {NoRow}]
         /\ \A r \in RowIds :
              LET m == Moved(rw, b, owner)[r] IN
              IF r \in RowsIn(rw, b)
              THEN /\ rw[r] # NoRow
                   /\ m # NoRow
                   /\ m.batch = owner
                   /\ m.code = rw[r].code
                   /\ m.deleted = rw[r].deleted
                   /\ m.columns = rw[r].columns
                   /\ m.open = rw[r].open
              ELSE m = rw[r]
<1>1. ASSUME NEW r \in RowIds, r \in RowsIn(rw, b)
      PROVE  /\ rw[r] \in Row
             /\ [rw[r] EXCEPT !.batch = owner] \in Row
  BY <1>1 DEF RowsIn, Row
<1>2. ASSUME NEW r \in RowIds
      PROVE  Moved(rw, b, owner)[r] =
               IF r \in RowsIn(rw, b)
               THEN [rw[r] EXCEPT !.batch = owner] ELSE rw[r]
  BY DEF Moved
<1>3. Moved(rw, b, owner) \in [RowIds -> Row \cup {NoRow}]
  BY <1>1 DEF Moved
<1>. QED
  BY <1>1, <1>2, <1>3 DEF Row

LEMMA RestoredRow ==
  ASSUME NEW rw \in [RowIds -> Row \cup {NoRow}],
         NEW st \in [Batches -> Status],
         NEW b \in Batches
  PROVE  /\ Restored(rw, st, b) \in [RowIds -> Row \cup {NoRow}]
         /\ \A r \in RowIds :
              LET s == Restored(rw, st, b)[r] IN
              IF r \in ToReopen(rw, st, b)
              THEN /\ rw[r] # NoRow
                   /\ s # NoRow
                   /\ s.batch = rw[r].batch
                   /\ s.code = rw[r].code
                   /\ s.deleted = rw[r].deleted
                   /\ s.columns = rw[r].columns
                   /\ s.open
              ELSE s = rw[r]
<1>1. ASSUME NEW r \in RowIds, r \in ToReopen(rw, st, b)
      PROVE  /\ rw[r] \in Row
             /\ [rw[r] EXCEPT !.open = TRUE] \in Row
  BY <1>1 DEF ToReopen, OlderVersions, Row
<1>2. ASSUME NEW r \in RowIds
      PROVE  Restored(rw, st, b)[r] =
               IF r \in ToReopen(rw, st, b)
               THEN [rw[r] EXCEPT !.open = TRUE] ELSE rw[r]
  BY DEF Restored
<1>3. Restored(rw, st, b) \in [RowIds -> Row \cup {NoRow}]
  BY <1>1 DEF Restored
<1>. QED
  BY <1>1, <1>2, <1>3 DEF Row

\* A row inserted by a parse, with its position in the file.
LEMMA ParsedRow ==
  ASSUME TypeOK, NEW b \in Batches, NEW f \in Files,
         lastRow + Len(f.codes) <= MaxRow
  PROVE  /\ Len(f.codes) \in Nat
         /\ ParsedRows(b, f) \in [RowIds -> Row \cup {NoRow}]
         /\ \A r \in RowIds :
              LET p == ParsedRows(b, f)[r] IN
              IF r > lastRow /\ r <= lastRow + Len(f.codes)
              THEN /\ r - lastRow \in 1..Len(f.codes)
                   /\ p # NoRow
                   /\ p.batch = b
                   /\ p.code = f.codes[r - lastRow]
                   /\ p.deleted = FALSE
                   /\ p.open = TRUE
                   /\ p.columns = f.headers
              ELSE IF r \in RowsIn(row, b) THEN p = NoRow ELSE p = row[r]
<1>1. f.codes \in Seq(Codes) /\ f.headers \in SUBSET Columns
  BY DEF File
<1>2. Len(f.codes) \in Nat /\ lastRow \in Nat
  BY <1>1 DEF TypeOK
<1>3. ASSUME NEW r \in RowIds, r > lastRow, r <= lastRow + Len(f.codes)
      PROVE  /\ r - lastRow \in 1..Len(f.codes)
             /\ f.codes[r - lastRow] \in Codes
             /\ r \in (lastRow + 1)..(lastRow + Len(f.codes))
             /\ [batch |-> b, code |-> f.codes[r - lastRow], deleted |-> FALSE,
                 open |-> TRUE, columns |-> f.headers] \in Row
  <2>1. r - lastRow \in 1..Len(f.codes) /\ r \in (lastRow + 1)..(lastRow + Len(f.codes))
    BY <1>2, <1>3 DEF RowIds
  <2>2. f.codes[r - lastRow] \in Codes
    BY <1>1, <2>1
  <2>. QED
    BY <1>1, <2>1, <2>2 DEF Row
<1>4. ASSUME NEW r \in RowIds, r \in (lastRow + 1)..(lastRow + Len(f.codes))
      PROVE  r > lastRow /\ r <= lastRow + Len(f.codes)
  BY <1>2, <1>4 DEF RowIds
<1>5. ParsedRows(b, f) \in [RowIds -> Row \cup {NoRow}]
  BY <1>3, <1>4 DEF ParsedRows, TypeOK
<1>. QED
  BY <1>2, <1>3, <1>4, <1>5 DEF ParsedRows

-----------------------------------------------------------------------------
(* Type correctness, action by action.                                       *)

LEMMA ProcessBatchJobType ==
  ASSUME TypeOK, NEW b \in Batches, NEW f \in Files, ProcessBatchJob(b, f)
  PROVE  TypeOK'
<1>1. lastRow + Len(f.codes) <= MaxRow
  BY DEF ProcessBatchJob
<1>2. row' \in [RowIds -> Row \cup {NoRow}] /\ Len(f.codes) \in Nat
  BY <1>1, ParsedRow DEF ProcessBatchJob
<1>3. lastRow' \in 0..MaxRow
  BY <1>1, <1>2 DEF ProcessBatchJob, TypeOK
<1>4. headers' \in [Batches -> SUBSET Columns]
  <2>1. f.headers \in SUBSET Columns
    BY DEF File
  <2>. QED
    BY <2>1 DEF ProcessBatchJob, TypeOK
<1>5. SavedStatus(b) \in Status \ {"none"}
  BY DEF ProcessBatchJob, SavedStatus, TypeOK, Status
<1>6. status' \in [Batches -> Status] /\ run' \in [Batches -> Status]
  BY <1>5 DEF ProcessBatchJob, TypeOK, Status
<1>7. twice' \subseteq Codes
  <2>1. f.codes \in Seq(Codes)
    BY DEF File
  <2>2. Repeated(f) \subseteq Codes
    BY <2>1 DEF Repeated
  <2>. QED
    BY <2>2 DEF ProcessBatchJob, TypeOK
<1>8. relisted' \subseteq Batches
  BY DEF ProcessBatchJob, TypeOK
<1>. QED
  BY <1>2, <1>3, <1>4, <1>6, <1>7, <1>8 DEF ProcessBatchJob, TypeOK

LEMMA PublishType ==
  ASSUME TypeOK, NEW b \in Batches, NEW d \in Dest, Publish(b, d)
  PROVE  /\ UNCHANGED <<job, twice, relisted>>
         /\ Owner(b, d) \in Batches
         /\ row' \in [RowIds -> Row \cup {NoRow}]
         /\ headers' \in [Batches -> SUBSET Columns]
         /\ status' \in [Batches -> Status]
         /\ lastRow' = lastRow
<1>1. Owner(b, d) \in Batches
  BY DEF Owner
<1>2. Superseded(row, status, b) \in [RowIds -> Row \cup {NoRow}]
  BY SupersededRow DEF TypeOK
<1>3. row' \in [RowIds -> Row \cup {NoRow}]
  BY <1>1, <1>2, MovedRow DEF Publish
<1>4. headers' \in [Batches -> SUBSET Columns]
  BY <1>1 DEF Publish, MergedHeaders, TypeOK
<1>. QED
  BY <1>1, <1>3, <1>4 DEF Publish, TypeOK, Status

LEMMA InsertManualType ==
  ASSUME TypeOK, NEW b \in Batches, NEW c \in Codes, NEW deletion \in BOOLEAN,
         NEW d \in Dest, InsertManual(b, c, deletion, d), checked' \subseteq checked
  PROVE  TypeOK'
<1>1. lastRow + 1 \in RowIds
  BY DEF InsertManual, TypeOK, RowIds
<1>2. [batch |-> b, code |-> c, deleted |-> deletion, open |-> TRUE, columns |-> {}] \in Row
  BY DEF Row
<1>3. row' \in [RowIds -> Row \cup {NoRow}]
  BY <1>1, <1>2 DEF InsertManual, TypeOK
<1>4. lastRow' \in 0..MaxRow
  BY DEF InsertManual, TypeOK
<1>5. request' \in [Batches -> Dest \cup {NoRequest}]
  BY DEF InsertManual, TypeOK
<1>. QED
  BY <1>3, <1>4, <1>5 DEF InsertManual, TypeOK, Status, job

LEMMA HoldBatchType ==
  ASSUME TypeOK, NEW b \in Batches, HoldBatch(b)
  PROVE  TypeOK'
<1>1. row' \in [RowIds -> Row \cup {NoRow}]
  BY RestoredRow DEF HoldBatch, TypeOK
<1>. QED
  BY <1>1 DEF HoldBatch, TypeOK, Status, job

\* The steps of uploads, runs, failures and retries other than the commit of a run.
Pipeline(b) ==
  \/ Upload(b) \/ StartRun(b) \/ FailRun(b) \/ RejectBatch(b) \/ RejectFails(b)
  \/ RetryRead(b) \/ RetryBatch(b)

LEMMA PipelineType ==
  ASSUME TypeOK, NEW b \in Batches, Pipeline(b)
  PROVE  TypeOK'
<1>1. CASE Upload(b)
  BY <1>1 DEF Upload, TypeOK, Status, job
<1>2. CASE StartRun(b)
  BY <1>2 DEF StartRun, Fault, TypeOK, Status
<1>3. CASE FailRun(b)
  BY <1>3 DEF FailRun, Fault, TypeOK, Status
<1>4. CASE RejectBatch(b) \/ RejectFails(b)
  BY <1>4 DEF RejectBatch, RejectFails, TypeOK, Status
<1>5. CASE RetryRead(b)
  <2>1. [headers |-> headers[b]] \in Copy
    BY DEF TypeOK, Copy
  <2>. QED
    BY <1>5, <2>1 DEF RetryRead, Fault, TypeOK
<1>6. CASE RetryBatch(b)
  <2>1. retry[b].headers \in SUBSET Columns
    BY <1>6 DEF RetryBatch, TypeOK, Copy
  <2>. QED
    BY <1>6, <2>1 DEF RetryBatch, TypeOK, Status
<1>. QED
  BY <1>1, <1>2, <1>3, <1>4, <1>5, <1>6 DEF Pipeline

LEMMA TypeOKStep == TypeOK /\ [Next]_vars => TypeOK'
<1>. SUFFICES ASSUME TypeOK, [Next]_vars PROVE TypeOK'
  OBVIOUS
<1>1. CASE UNCHANGED vars
  BY <1>1 DEF vars, job, TypeOK
<1>2. ASSUME NEW b \in Batches, Pipeline(b)
      PROVE  TypeOK'
  BY <1>2, PipelineType
<1>3. ASSUME NEW b \in Batches, NEW f \in Files, ProcessBatchJob(b, f)
      PROVE  TypeOK'
  BY <1>3, ProcessBatchJobType
<1>4. ASSUME NEW b \in Batches, NEW d \in Dest, PublishBatch(b, d)
      PROVE  TypeOK'
  BY <1>4, PublishType DEF PublishBatch, TypeOK, job
<1>5. ASSUME NEW b \in Batches, HoldBatch(b)
      PROVE  TypeOK'
  BY <1>5, HoldBatchType
<1>6. ASSUME NEW b \in Batches, NEW c \in Codes, NEW d \in Dest, ManualUpsert(b, c, d)
      PROVE  TypeOK'
  BY <1>6, InsertManualType DEF ManualUpsert
<1>7. ASSUME NEW c \in Codes, CheckDelete(c)
      PROVE  TypeOK'
  BY <1>7 DEF CheckDelete, TypeOK, job
<1>8. ASSUME NEW b \in Batches, NEW c \in Codes, ManualDelete(b, c)
      PROVE  TypeOK'
  BY <1>8, InsertManualType DEF ManualDelete, Dest
<1>9. ASSUME NEW b \in Batches, ManualPublish(b)
      PROVE  TypeOK'
  <2>1. request[b] \in Dest
    BY <1>9 DEF ManualPublish, TypeOK
  <2>2. request' \in [Batches -> Dest \cup {NoRequest}]
    BY <1>9 DEF ManualPublish, TypeOK
  <2>. QED
    BY <1>9, <2>1, <2>2, PublishType DEF ManualPublish, TypeOK, job
<1>10. ASSUME NEW b \in Batches, ManualFails(b)
       PROVE  TypeOK'
  BY <1>10 DEF ManualFails, TypeOK, job
<1>11. CASE Crash
  BY <1>11 DEF Crash, TypeOK, Status
<1>. QED
  BY <1>1, <1>2, <1>3, <1>4, <1>5, <1>6, <1>7, <1>8, <1>9, <1>10, <1>11
     DEF Next, Pipeline

(***************************************************************************)
(* Every variable keeps its type, for any number of batches and rows.      *)
(***************************************************************************)
THEOREM TypeCorrect == Spec => []TypeOK
<1>1. Init => TypeOK
  BY DEF Init, TypeOK, Status
<1>. QED
  BY <1>1, TypeOKStep, PTL DEF Spec

-----------------------------------------------------------------------------
(* What publishing and taking off search do to one row, in the terms the     *)
(* properties use.                                                           *)

LEMMA PublishRow ==
  ASSUME TypeOK, NEW b \in Batches, NEW d \in Dest, Publish(b, d)
  PROVE  \A r \in RowIds :
           /\ row'[r] = NoRow <=> row[r] = NoRow
           /\ row[r] # NoRow =>
                /\ row[r].batch \in Batches
                /\ row'[r].code = row[r].code
                /\ row'[r].deleted = row[r].deleted
                /\ row'[r].columns = row[r].columns
                /\ row'[r].open => row[r].open
                /\ row[r].batch = b => /\ row'[r].batch = Owner(b, d)
                                       /\ row'[r].open = row[r].open
                /\ row[r].batch # b => row'[r].batch = row[r].batch
                /\ r \in ToClose(row, status, b) => ~row'[r].open
                /\ row[r].batch # b /\ r \notin ToClose(row, status, b)
                     => row'[r] = row[r]
<1>. DEFINE sup == Superseded(row, status, b)
<1>1. /\ sup \in [RowIds -> Row \cup {NoRow}]
      /\ Owner(b, d) \in Batches
      /\ row' = Moved(sup, b, Owner(b, d))
  BY SupersededRow, PublishType DEF TypeOK, Publish
<1>3. \A r \in RowIds : r \in ToClose(row, status, b) => row[r].batch # b
  BY DEF ToClose
<1>4. \A r \in RowIds : row[r] # NoRow => row[r] \in Row
  BY DEF TypeOK
<1>. HIDE DEF sup
<1>5. \A r \in RowIds :
        IF r \in ToClose(row, status, b)
        THEN /\ row[r] # NoRow /\ sup[r] # NoRow
             /\ sup[r].batch = row[r].batch /\ sup[r].code = row[r].code
             /\ sup[r].deleted = row[r].deleted /\ sup[r].columns = row[r].columns
             /\ ~sup[r].open
        ELSE sup[r] = row[r]
  <2>1. row \in [RowIds -> Row \cup {NoRow}] /\ status \in [Batches -> Status]
    BY DEF TypeOK
  <2>. QED
    BY ONLY <2>1, SupersededRow, b \in Batches DEF sup
<1>2. \A r \in RowIds : r \in RowsIn(sup, b) <=> r \in RowsIn(row, b)
  BY <1>5 DEF RowsIn
<1>6. \A r \in RowIds :
        IF r \in RowsIn(sup, b)
        THEN /\ sup[r] # NoRow /\ row'[r] # NoRow
             /\ row'[r].batch = Owner(b, d) /\ row'[r].code = sup[r].code
             /\ row'[r].deleted = sup[r].deleted /\ row'[r].columns = sup[r].columns
             /\ row'[r].open = sup[r].open
        ELSE row'[r] = sup[r]
  BY <1>1, MovedRow
<1>7. ASSUME NEW r \in RowIds, row[r] = NoRow
      PROVE  row'[r] = NoRow
  BY <1>2, <1>5, <1>6, <1>7 DEF RowsIn
<1>8. ASSUME NEW r \in RowIds, row[r] # NoRow
      PROVE  /\ row'[r] # NoRow
             /\ row'[r].code = row[r].code
             /\ row'[r].deleted = row[r].deleted
             /\ row'[r].columns = row[r].columns
             /\ row'[r].open => row[r].open
             /\ row[r].batch = b => /\ row'[r].batch = Owner(b, d)
                                    /\ row'[r].open = row[r].open
             /\ row[r].batch # b => row'[r].batch = row[r].batch
             /\ r \in ToClose(row, status, b) => ~row'[r].open
             /\ row[r].batch # b /\ r \notin ToClose(row, status, b)
                  => row'[r] = row[r]
  <2>1. CASE row[r].batch = b
    BY <1>2, <1>3, <1>5, <1>6, <1>8, <2>1 DEF RowsIn
  <2>2. CASE row[r].batch # b
    <3>1. row'[r] = sup[r]
      BY <1>2, <1>6, <2>2 DEF RowsIn
    <3>. QED
      BY <1>5, <1>8, <2>2, <3>1 DEF ToClose, Current
  <2>. QED
    BY <2>1, <2>2
<1>. QED
  BY <1>4, <1>7, <1>8 DEF Row

LEMMA HoldRow ==
  ASSUME TypeOK, NEW b \in Batches, HoldBatch(b)
  PROVE  \A r \in RowIds :
           /\ row'[r] = NoRow <=> row[r] = NoRow
           /\ row[r] # NoRow =>
                /\ row[r].batch \in Batches
                /\ row'[r].batch = row[r].batch
                /\ row'[r].code = row[r].code
                /\ row'[r].deleted = row[r].deleted
                /\ row'[r].columns = row[r].columns
                /\ IF r \in ToReopen(row, status, b)
                   THEN /\ row'[r].open
                        /\ r \in OlderVersions(row, status, b, row[r].code)
                        /\ row[r].code \in CodesIn(row, b)
                        /\ \A s \in OlderVersions(row, status, b, row[r].code) : s <= r
                        /\ ~LiveElsewhere(row, status, b, row[r].code)
                   ELSE row'[r] = row[r]
<1>1. row' = Restored(row, status, b) /\ row \in [RowIds -> Row \cup {NoRow}]
        /\ status \in [Batches -> Status]
  BY DEF HoldBatch, TypeOK
<1>2. \A r \in RowIds :
        IF r \in ToReopen(row, status, b)
        THEN /\ row[r] # NoRow /\ row'[r] # NoRow
             /\ row'[r].batch = row[r].batch /\ row'[r].code = row[r].code
             /\ row'[r].deleted = row[r].deleted /\ row'[r].columns = row[r].columns
             /\ row'[r].open
        ELSE row'[r] = row[r]
  BY <1>1, RestoredRow
<1>3. \A r \in RowIds : row[r] # NoRow => row[r].batch \in Batches
  BY <1>1 DEF Row
<1>4. ASSUME NEW r \in RowIds, r \in ToReopen(row, status, b)
      PROVE  /\ r \in OlderVersions(row, status, b, row[r].code)
             /\ row[r].code \in CodesIn(row, b)
             /\ \A s \in OlderVersions(row, status, b, row[r].code) : s <= r
             /\ ~LiveElsewhere(row, status, b, row[r].code)
  <2>1. PICK c \in CodesIn(row, b) :
          /\ r \in OlderVersions(row, status, b, c)
          /\ \A s \in OlderVersions(row, status, b, c) : s <= r
          /\ ~LiveElsewhere(row, status, b, c)
    BY <1>4 DEF ToReopen
  <2>2. row[r].code = c
    BY <2>1 DEF OlderVersions
  <2>. QED
    BY <2>1, <2>2
<1>. QED
  BY <1>2, <1>3, <1>4

-----------------------------------------------------------------------------
(* Rows belong to batches that exist, ids are fresh and relisted batches are *)
(* live, action by action.                                                   *)

\* The steps that leave the rows alone and stop a batch at most from being live.
Quiet == UNCHANGED <<row, lastRow, headers, status, twice, relisted>>

Stalled(b) ==
  /\ UNCHANGED <<row, lastRow, twice>>
  /\ relisted' = relisted \ {b}
  /\ status'[b] \in {"processing", "rejected"}
  /\ \A e \in Batches : e # b => status'[e] = status[e] /\ headers'[e] = headers[e]

LEMMA StalledRows ==
  ASSUME RowsInv, TypeOK', NEW b \in Batches, Stalled(b)
  PROVE  RowsInv'
<1>. USE DEF RowsInv, Stalled
<1>1. RowsHaveBatch'
  BY DEF RowsHaveBatch, TypeOK, Row
<1>2. RelistedIsLive'
  BY DEF RelistedIsLive, TypeOK
<1>. QED
  BY <1>1, <1>2 DEF IdsAreFresh

LEMMA ProcessBatchJobRows ==
  ASSUME RowsInv, NEW b \in Batches, NEW f \in Files, ProcessBatchJob(b, f)
  PROVE  /\ RowsInv'
         /\ \A e \in Batches : status'[e] = IF e = b THEN SavedStatus(b) ELSE status[e]
         /\ \A r \in RowIds :
              IF r > lastRow /\ r <= lastRow + Len(f.codes)
              THEN /\ row[r] = NoRow
                   /\ r - lastRow \in 1..Len(f.codes)
                   /\ row'[r] # NoRow
                   /\ row'[r].batch = b
                   /\ row'[r].code = f.codes[r - lastRow]
                   /\ row'[r].open = TRUE
              ELSE IF r \in RowsIn(row, b) THEN row'[r] = NoRow ELSE row'[r] = row[r]
         /\ \A r \in RowIds : row[r] # NoRow => row[r].batch \in Batches
<1>. USE DEF RowsInv
<1>1. TypeOK'
  BY ProcessBatchJobType
<1>2. /\ lastRow + Len(f.codes) <= MaxRow
      /\ row' = ParsedRows(b, f)
      /\ lastRow' = lastRow + Len(f.codes)
      /\ \A e \in Batches : status'[e] = IF e = b THEN SavedStatus(b) ELSE status[e]
  BY DEF ProcessBatchJob, TypeOK
<1>3. \A r \in RowIds : row[r] # NoRow => row[r].batch \in Batches
  BY DEF TypeOK, Row
<1>4. lastRow \in Nat /\ \A r \in RowIds : r \in Nat
  BY DEF TypeOK, RowIds
<1>5. /\ Len(f.codes) \in Nat
      /\ \A r \in RowIds :
           IF r > lastRow /\ r <= lastRow + Len(f.codes)
           THEN /\ r - lastRow \in 1..Len(f.codes)
                /\ row'[r] # NoRow
                /\ row'[r].batch = b
                /\ row'[r].code = f.codes[r - lastRow]
                /\ row'[r].open = TRUE
           ELSE IF r \in RowsIn(row, b) THEN row'[r] = NoRow ELSE row'[r] = row[r]
  BY <1>2, ParsedRow
<1>6. \A r \in RowIds : r > lastRow => row[r] = NoRow
  BY DEF IdsAreFresh
<1>7. SavedStatus(b) # "none"
  BY DEF ProcessBatchJob, SavedStatus
<1>8. RowsHaveBatch'
  BY <1>2, <1>3, <1>5, <1>7 DEF RowsHaveBatch
<1>9. IdsAreFresh'
  BY <1>2, <1>4, <1>5, <1>6 DEF IdsAreFresh, RowsIn
<1>10. RelistedIsLive'
  BY <1>2 DEF ProcessBatchJob, RelistedIsLive, TypeOK
<1>. QED
  BY <1>1, <1>2, <1>3, <1>5, <1>6, <1>8, <1>9, <1>10

LEMMA PublishRows ==
  ASSUME RowsInv, NEW b \in Batches, NEW d \in Dest, Publish(b, d), TypeOK'
  PROVE  /\ RowsInv'
         /\ status[b] = "held"
         /\ Owner(b, d) \in Batches
         /\ Owner(b, d) # b => status[Owner(b, d)] = "published"
         /\ \A e \in Batches : status'[e] = IF e = b THEN "published" ELSE status[e]
<1>. USE DEF RowsInv
<1>1. /\ status[b] = "held"
      /\ lastRow' = lastRow
      /\ Owner(b, d) \in Batches
      /\ Owner(b, d) # b => status[Owner(b, d)] = "published"
      /\ \A e \in Batches : status'[e] = IF e = b THEN "published" ELSE status[e]
  BY PublishType DEF Publish, CanPublish, Owner, TypeOK
<1>2. \A r \in RowIds :
           /\ row'[r] = NoRow <=> row[r] = NoRow
           /\ row[r] # NoRow =>
                /\ row[r].batch \in Batches
                /\ row[r].batch = b => row'[r].batch = Owner(b, d)
                /\ row[r].batch # b => row'[r].batch = row[r].batch
  BY PublishRow
<1>3. RowsHaveBatch'
  BY <1>1, <1>2 DEF RowsHaveBatch
<1>4. IdsAreFresh'
  BY <1>1, <1>2 DEF IdsAreFresh
<1>5. RelistedIsLive'
  BY <1>1, PublishType DEF RelistedIsLive, TypeOK
<1>. QED
  BY <1>1, <1>3, <1>4, <1>5

LEMMA HoldBatchRows ==
  ASSUME RowsInv, NEW b \in Batches, HoldBatch(b)
  PROVE  /\ RowsInv'
         /\ status[b] = "published"
         /\ \A e \in Batches : status'[e] = IF e = b THEN "held" ELSE status[e]
<1>. USE DEF RowsInv
<1>1. TypeOK'
  BY HoldBatchType
<1>2. \A r \in RowIds :
        /\ row'[r] = NoRow <=> row[r] = NoRow
        /\ row[r] # NoRow => row[r].batch \in Batches /\ row'[r].batch = row[r].batch
  BY HoldRow
<1>3. /\ lastRow' = lastRow
      /\ status[b] = "published"
      /\ \A e \in Batches : status'[e] = IF e = b THEN "held" ELSE status[e]
  BY DEF HoldBatch, TypeOK
<1>4. RowsHaveBatch'
  BY <1>2, <1>3 DEF RowsHaveBatch
<1>5. IdsAreFresh'
  BY <1>2, <1>3 DEF IdsAreFresh
<1>6. RelistedIsLive'
  BY <1>3 DEF HoldBatch, RelistedIsLive, TypeOK
<1>. QED
  BY <1>1, <1>3, <1>4, <1>5, <1>6

LEMMA InsertManualRows ==
  ASSUME RowsInv, NEW b \in Batches, NEW c \in Codes, NEW deletion \in BOOLEAN,
         NEW d \in Dest, InsertManual(b, c, deletion, d), TypeOK'
  PROVE  /\ RowsInv'
         /\ \A e \in Batches : status'[e] = IF e = b THEN "held" ELSE status[e]
         /\ lastRow + 1 \in RowIds
         /\ row[lastRow + 1] = NoRow
         /\ row'[lastRow + 1] # NoRow
         /\ row'[lastRow + 1].batch = b
         /\ row'[lastRow + 1].columns = {}
         /\ \A r \in RowIds : r # lastRow + 1 => row'[r] = row[r]
         /\ \A r \in RowIds : row[r] # NoRow => row[r].batch \in Batches /\ row[r].batch # b
<1>. USE DEF RowsInv
<1>. DEFINE new == [batch |-> b, code |-> c, deleted |-> deletion, open |-> TRUE,
                    columns |-> {}]
<1>1. /\ status[b] = "none"
      /\ lastRow < MaxRow
      /\ row' = [row EXCEPT ![lastRow + 1] = new]
      /\ lastRow' = lastRow + 1
      /\ status' = [status EXCEPT ![b] = "held"]
  BY DEF InsertManual
<1>2. /\ lastRow \in Nat /\ lastRow + 1 \in RowIds
      /\ \A r \in RowIds : r \in Nat
      /\ \A e \in Batches : status'[e] = IF e = b THEN "held" ELSE status[e]
  BY <1>1 DEF TypeOK, RowIds
<1>3. row'[lastRow + 1] = new
        /\ \A r \in RowIds : r # lastRow + 1 => row'[r] = row[r]
  BY <1>1, <1>2 DEF TypeOK
<1>4. new # NoRow /\ new.batch = b /\ new.columns = {}
  <2>1. new \in Row
    BY DEF Row
  <2>. QED
    BY <2>1
<1>. HIDE DEF new
<1>5. \A r \in RowIds : row[r] # NoRow => row[r].batch \in Batches /\ row[r].batch # b
  BY <1>1 DEF TypeOK, Row, RowsHaveBatch
<1>6. RowsHaveBatch'
  BY <1>2, <1>3, <1>4, <1>5 DEF RowsHaveBatch
<1>7. IdsAreFresh' /\ row[lastRow + 1] = NoRow
  BY <1>1, <1>2, <1>3 DEF IdsAreFresh
<1>8. RelistedIsLive'
  BY <1>1, <1>2 DEF InsertManual, RelistedIsLive, TypeOK
<1>. QED
  BY <1>2, <1>3, <1>4, <1>5, <1>6, <1>7, <1>8

\* Uploads, runs, failures and retries are quiet or stall a batch, but for the
\* commit of a run.
LEMMA PipelineCases ==
  ASSUME RowsInv, NEW b \in Batches, Pipeline(b)
  PROVE  Quiet \/ Stalled(b)
<1>1. CASE StartRun(b) \/ FailRun(b) \/ RejectFails(b) \/ RetryRead(b)
  BY <1>1 DEF StartRun, FailRun, RejectFails, RetryRead, Quiet
<1>2. CASE Upload(b)
  BY <1>2 DEF Upload, Stalled, RowsInv, TypeOK, RelistedIsLive
<1>3. CASE RejectBatch(b)
  BY <1>3 DEF RejectBatch, Stalled, RowsInv, TypeOK
<1>4. CASE RetryBatch(b)
  BY <1>4 DEF RetryBatch, Stalled, RowsInv, TypeOK
<1>. QED
  BY <1>1, <1>2, <1>3, <1>4 DEF Pipeline

(***************************************************************************)
(* Every step commits a run, publishes, holds, inserts a manual row,       *)
(* stalls a batch, or is quiet.                                            *)
(***************************************************************************)
LEMMA NextCases ==
  ASSUME RowsInv, [Next]_vars, NEW ACTION P,
         Quiet => P,
         \A b \in Batches : Stalled(b) => P,
         \A b \in Batches, f \in Files : ProcessBatchJob(b, f) => P,
         \A b \in Batches, d \in Dest : Publish(b, d) => P,
         \A b \in Batches : HoldBatch(b) => P,
         \A b \in Batches, c \in Codes, del \in BOOLEAN, d \in Dest :
           InsertManual(b, c, del, d) => P
  PROVE  P
<1>1. CASE UNCHANGED vars
  BY <1>1 DEF vars, Quiet
<1>2. ASSUME NEW b \in Batches, Pipeline(b)
      PROVE  P
  BY <1>2, PipelineCases
<1>3. ASSUME NEW b \in Batches, ManualPublish(b)
      PROVE  P
  BY <1>3 DEF ManualPublish, RowsInv, TypeOK
<1>4. ASSUME NEW b \in Batches, ManualFails(b)
      PROVE  P
  BY <1>4 DEF ManualFails, Quiet
<1>5. ASSUME NEW b \in Batches, NEW d \in Dest, PublishBatch(b, d)
      PROVE  P
  BY <1>5 DEF PublishBatch
<1>6. ASSUME NEW b \in Batches, NEW c \in Codes, NEW d \in Dest, ManualUpsert(b, c, d)
      PROVE  P
  BY <1>6 DEF ManualUpsert
<1>7. ASSUME NEW c \in Codes, CheckDelete(c)
      PROVE  P
  BY <1>7 DEF CheckDelete, Quiet
<1>8. ASSUME NEW b \in Batches, NEW c \in Codes, ManualDelete(b, c)
      PROVE  P
  BY <1>8 DEF ManualDelete, Dest
<1>9. CASE Crash
  BY <1>9 DEF Crash, Quiet
<1>. QED
  BY <1>1, <1>2, <1>3, <1>4, <1>5, <1>6, <1>7, <1>8, <1>9
     DEF Next, Pipeline

LEMMA RowsInvStep == RowsInv /\ [Next]_vars => RowsInv'
<1>. SUFFICES ASSUME RowsInv, [Next]_vars PROVE RowsInv'
  OBVIOUS
<1>1. TypeOK'
  BY TypeOKStep DEF RowsInv
<1>2. Quiet => RowsInv'
  BY <1>1 DEF Quiet, RowsInv, RowsHaveBatch, IdsAreFresh, RelistedIsLive
<1>7. \A b \in Batches : Stalled(b) => RowsInv'
  BY <1>1, StalledRows
<1>3. \A b \in Batches, f \in Files : ProcessBatchJob(b, f) => RowsInv'
  BY ProcessBatchJobRows
<1>4. \A b \in Batches, d \in Dest : Publish(b, d) => RowsInv'
  BY <1>1, PublishRows
<1>5. \A b \in Batches : HoldBatch(b) => RowsInv'
  BY HoldBatchRows
<1>6. \A b \in Batches, c \in Codes, del \in BOOLEAN, d \in Dest :
        InsertManual(b, c, del, d) => RowsInv'
  BY <1>1, InsertManualRows
<1>. QED
  BY <1>2, <1>3, <1>4, <1>5, <1>6, <1>7, NextCases

LEMMA RowsInvInit == Init => RowsInv
BY DEF Init, RowsInv, TypeOK, Status, RowsHaveBatch, IdsAreFresh, RelistedIsLive

(***************************************************************************)
(* Publishing a batch, and every other step but a run of the parse job for *)
(* it, leaves the rows of a held batch that stays held exactly as they     *)
(* are.                                                                    *)
(***************************************************************************)
THEOREM OtherUploadsUntouched == Spec => HeldRowsUntouched
<1>. DEFINE P == \A r \in RowIds :
                   /\ row[r] # NoRow
                   /\ status[row[r].batch] = "held"
                   /\ status'[row[r].batch] = "held"
                   => row'[r] = row[r] \/ ParsesIn(row[r].batch)
<1>1. ASSUME RowsInv, [Next]_vars PROVE P
  <2>1. /\ Quiet => P
        /\ \A b \in Batches : Stalled(b) => P
    BY DEF Quiet, Stalled
  <2>2. \A b \in Batches, f \in Files : ProcessBatchJob(b, f) => P
    BY <1>1, ProcessBatchJobRows DEF ParsesIn, RowsIn
  <2>3. ASSUME NEW b \in Batches, NEW d \in Dest, Publish(b, d) PROVE P
    <3>1. TypeOK'
      BY <1>1, TypeOKStep DEF RowsInv
    <3>2. \A e \in Batches : status'[e] = IF e = b THEN "published" ELSE status[e]
      BY <1>1, <2>3, <3>1, PublishRows
    <3>3. \A r \in RowIds : row[r] # NoRow =>
            /\ row[r].batch \in Batches
            /\ row[r].batch # b /\ r \notin ToClose(row, status, b) => row'[r] = row[r]
      BY <1>1, <2>3, PublishRow DEF RowsInv
    <3>4. \A r \in ToClose(row, status, b) : status[row[r].batch] = "published"
      BY DEF ToClose, Current
    <3>. QED
      BY <3>2, <3>3, <3>4
  <2>4. ASSUME NEW b \in Batches, HoldBatch(b) PROVE P
    <3>1. \A r \in RowIds : row[r] # NoRow =>
            (r \notin ToReopen(row, status, b) => row'[r] = row[r])
      BY <1>1, <2>4, HoldRow DEF RowsInv
    <3>2. \A r \in ToReopen(row, status, b) : status[row[r].batch] = "published"
      BY DEF ToReopen, OlderVersions
    <3>. QED
      BY <3>1, <3>2
  <2>5. \A b \in Batches, c \in Codes, del \in BOOLEAN, d \in Dest :
          InsertManual(b, c, del, d) => P
    BY <1>1, TypeOKStep, InsertManualRows DEF RowsInv
  <2>. HIDE DEF P
  <2>. QED
    BY <1>1, <2>1, <2>2, <2>3, <2>4, <2>5, NextCases
<1>. QED
  BY <1>1, RowsInvInit, RowsInvStep, PTL DEF Spec, HeldRowsUntouched

(***************************************************************************)
(* No step but a run of the parse job for its batch deletes a version of   *)
(* an item, none rewrites what it says, and a version changes batch only   *)
(* when its batch goes live into a live one.                               *)
(***************************************************************************)
THEOREM VersionsAreKept == Spec => HistoryKept
<1>. DEFINE P == \A r \in RowIds : row[r] # NoRow =>
                   \/ /\ row'[r] # NoRow
                      /\ [row'[r] EXCEPT !.open = row[r].open, !.batch = row[r].batch] = row[r]
                      /\ row'[r].batch # row[r].batch =>
                           PutsOn(row[r].batch) /\ status'[row'[r].batch] = "published"
                   \/ row'[r] = NoRow /\ ParsesIn(row[r].batch)
<1>1. ASSUME RowsInv, [Next]_vars PROVE P
  <2>1. TypeOK'
    BY <1>1, TypeOKStep DEF RowsInv
  <2>2. \A r \in RowIds : row[r] # NoRow => row[r] \in Row
    BY <1>1 DEF RowsInv, TypeOK
  <2>3. \A r \in RowIds : row'[r] # NoRow => row'[r] \in Row
    BY <2>1 DEF TypeOK
  \* records of the type are equal when their fields are
  <2>4. ASSUME NEW r \in RowIds, row[r] # NoRow, row'[r] # NoRow,
               row'[r].code = row[r].code, row'[r].deleted = row[r].deleted,
               row'[r].columns = row[r].columns
        PROVE  [row'[r] EXCEPT !.open = row[r].open, !.batch = row[r].batch] = row[r]
    <3>1. row[r] \in Row /\ row'[r] \in Row
      BY <2>2, <2>3, <2>4
    <3>. QED
      BY <2>4, <3>1 DEF Row
  <2>5. ASSUME \A r \in RowIds : row[r] # NoRow => row'[r] = row[r]
        PROVE  P
    BY <2>4, <2>5
  <2>6. /\ Quiet => P
        /\ \A b \in Batches : Stalled(b) => P
    BY <2>5 DEF Quiet, Stalled
  <2>7. ASSUME NEW b \in Batches, NEW f \in Files, ProcessBatchJob(b, f) PROVE P
    <3>1. \A r \in RowIds : row[r] # NoRow =>
            row'[r] = row[r] \/ (row'[r] = NoRow /\ row[r].batch = b)
      BY <1>1, <2>7, ProcessBatchJobRows DEF RowsIn
    <3>2. ParsesIn(b)
      BY <2>7 DEF ParsesIn
    <3>. QED
      BY <2>4, <3>1, <3>2
  <2>8. ASSUME NEW b \in Batches, NEW d \in Dest, Publish(b, d) PROVE P
    <3>1. /\ status[b] = "held" /\ Owner(b, d) \in Batches
          /\ Owner(b, d) # b => status[Owner(b, d)] = "published"
          /\ \A e \in Batches : status'[e] = IF e = b THEN "published" ELSE status[e]
      BY <1>1, <2>1, <2>8, PublishRows
    <3>2. \A r \in RowIds : row[r] # NoRow =>
            /\ row'[r] # NoRow
            /\ row'[r].code = row[r].code /\ row'[r].deleted = row[r].deleted
            /\ row'[r].columns = row[r].columns
            /\ row[r].batch = b => row'[r].batch = Owner(b, d)
            /\ row[r].batch # b => row'[r].batch = row[r].batch
      BY <1>1, <2>8, PublishRow DEF RowsInv
    <3>3. ASSUME NEW r \in RowIds, row[r] # NoRow, row'[r].batch # row[r].batch
          PROVE  PutsOn(row[r].batch) /\ status'[row'[r].batch] = "published"
      <4>1. row[r].batch = b /\ row'[r].batch = Owner(b, d) /\ Owner(b, d) # b
        BY <3>2, <3>3
      <4>. QED
        BY <2>8, <3>1, <4>1 DEF PutsOn, Publish, CanPublish
    <3>. QED
      BY <2>4, <3>2, <3>3
  <2>9. ASSUME NEW b \in Batches, HoldBatch(b) PROVE P
    <3>1. \A r \in RowIds : row[r] # NoRow =>
            /\ row'[r] # NoRow
            /\ row'[r].batch = row[r].batch
            /\ row'[r].code = row[r].code /\ row'[r].deleted = row[r].deleted
            /\ row'[r].columns = row[r].columns
      BY <1>1, <2>9, HoldRow DEF RowsInv
    <3>. QED
      BY <2>4, <3>1
  <2>10. \A b \in Batches, c \in Codes, del \in BOOLEAN, d \in Dest :
           InsertManual(b, c, del, d) => P
    BY <1>1, <2>1, <2>5, InsertManualRows
  <2>. HIDE DEF P
  <2>. QED
    BY <1>1, <2>6, <2>7, <2>8, <2>9, <2>10, NextCases
<1>. QED
  BY <1>1, RowsInvInit, RowsInvStep, PTL DEF Spec, HistoryKept

(***************************************************************************)
(* What search shows for a code changes only when a batch with a row of    *)
(* that code goes live, ceases to be live or is parsed.                    *)
(***************************************************************************)
THEOREM SearchChangesByItsCodes == Spec => OnlyItsCodes
<1>. DEFINE P == \A c \in Codes :
                   \/ VisibleOf(row', status', c) = VisibleOf(row, status, c)
                   \/ \E b \in Batches :
                        /\ c \in CodesIn(row, b) \cup CodesIn(row', b)
                        /\ \/ (status[b] = "published") # (status'[b] = "published")
                           \/ ParsesIn(b)
<1>1. ASSUME RowsInv, [Next]_vars PROVE P
  <2>1. TypeOK'
    BY <1>1, TypeOKStep DEF RowsInv
  \* a step that leaves each row of c visible or not, as it was
  <2>2. ASSUME NEW c \in Codes,
               \A r \in RowIds :
                 Visible(row', status', r) /\ row'[r].code = c
                   <=> Visible(row, status, r) /\ row[r].code = c
        PROVE  VisibleOf(row', status', c) = VisibleOf(row, status, c)
    BY <2>2 DEF VisibleOf, VisibleRows
  <2>3. ASSUME Quiet PROVE P
    BY <2>2, <2>3 DEF Quiet, Visible, Current
  \* a step that touches the rows of b and its status only
  <2>4. ASSUME NEW b \in Batches, NEW c \in Codes,
               \A e \in Batches : e # b => status'[e] = status[e],
               \A r \in RowIds : row[r] # NoRow =>
                 /\ row[r].batch \in Batches
                 /\ row'[r] = row[r] \/ (row[r].batch = b /\ row'[r] = NoRow),
               \A r \in RowIds : row[r] = NoRow /\ row'[r] # NoRow => row'[r].batch = b,
               c \notin CodesIn(row, b) \cup CodesIn(row', b)
        PROVE  VisibleOf(row', status', c) = VisibleOf(row, status, c)
    <3>1. \A r \in RowIds :
            /\ row[r] # NoRow /\ row[r].code = c => row[r].batch # b
            /\ row'[r] # NoRow /\ row'[r].code = c => row'[r].batch # b
      BY <2>4 DEF CodesIn, RowsIn
    <3>2. \A r \in RowIds :
            Visible(row', status', r) /\ row'[r].code = c
              <=> Visible(row, status, r) /\ row[r].code = c
      BY <2>4, <3>1 DEF Visible, Current
    <3>. QED
      BY <2>2, <3>2
  <2>5. ASSUME NEW b \in Batches, NEW f \in Files, ProcessBatchJob(b, f) PROVE P
    <3>1. /\ \A e \in Batches : e # b => status'[e] = status[e]
          /\ \A r \in RowIds : row[r] # NoRow =>
               /\ row[r].batch \in Batches
               /\ row'[r] = row[r] \/ (row[r].batch = b /\ row'[r] = NoRow)
          /\ \A r \in RowIds : row[r] = NoRow /\ row'[r] # NoRow => row'[r].batch = b
      <4>1. /\ \A e \in Batches : status'[e] = IF e = b THEN SavedStatus(b) ELSE status[e]
            /\ \A r \in RowIds : row[r] # NoRow => row[r].batch \in Batches
            /\ \A r \in RowIds :
                 IF r > lastRow /\ r <= lastRow + Len(f.codes)
                 THEN row[r] = NoRow /\ row'[r].batch = b
                 ELSE IF r \in RowsIn(row, b) THEN row'[r] = NoRow ELSE row'[r] = row[r]
        BY <1>1, <2>5, ProcessBatchJobRows
      <4>. QED
        BY <4>1 DEF RowsIn
    <3>2. ParsesIn(b)
      BY <2>5 DEF ParsesIn
    <3>. QED
      BY <2>4, <3>1, <3>2
  <2>6. ASSUME NEW b \in Batches, NEW c \in Codes, NEW del \in BOOLEAN, NEW d \in Dest,
               InsertManual(b, c, del, d)
        PROVE  P
    <3>1. /\ \A e \in Batches : status'[e] = IF e = b THEN "held" ELSE status[e]
          /\ \A r \in RowIds : row[r] # NoRow => /\ row'[r] = row[r]
                                                 /\ row[r].batch \in Batches
                                                 /\ row[r].batch # b
          /\ \A r \in RowIds : row[r] = NoRow /\ row'[r] # NoRow => row'[r].batch = b
      BY <1>1, <2>1, <2>6, InsertManualRows
    <3>2. \A r \in RowIds : Visible(row', status', r) <=> Visible(row, status, r)
      BY <3>1 DEF Visible, Current
    <3>. QED
      BY <2>2, <3>1, <3>2 DEF Visible, Current
  <2>9. ASSUME NEW b \in Batches, Stalled(b) PROVE P
    <3>1. \A r \in RowIds : row[r] # NoRow => row[r].batch \in Batches
      BY <1>1 DEF RowsInv, TypeOK, Row
    <3>2. CASE status[b] = "published"
      BY <2>4, <2>9, <3>1, <3>2 DEF Stalled
    <3>3. CASE status[b] # "published"
      <4>1. \A r \in RowIds : Visible(row', status', r) <=> Visible(row, status, r)
        BY <2>9, <3>1, <3>3 DEF Stalled, Visible, Current
      <4>. QED
        BY <2>2, <2>9, <4>1 DEF Stalled
    <3>. QED
      BY <3>2, <3>3
  <2>7. ASSUME NEW b \in Batches, NEW d \in Dest, Publish(b, d) PROVE P
    <3>1. /\ status[b] = "held" /\ status'[b] = "published"
          /\ \A e \in Batches : e # b => status'[e] = status[e]
      BY <1>1, <2>1, <2>7, PublishRows
    <3>2. \A r \in RowIds :
            /\ row'[r] = NoRow <=> row[r] = NoRow
            /\ row[r] # NoRow =>
                 /\ row[r].batch \in Batches
                 /\ row'[r].code = row[r].code
                 /\ row[r].batch # b /\ r \notin ToClose(row, status, b) => row'[r] = row[r]
      BY <1>1, <2>7, PublishRow DEF RowsInv
    <3>3. ASSUME NEW c \in Codes, c \notin CodesIn(row, b)
          PROVE  VisibleOf(row', status', c) = VisibleOf(row, status, c)
      <4>1. \A r \in RowIds : row[r] # NoRow /\ row[r].code = c =>
              row[r].batch # b /\ r \notin ToClose(row, status, b)
        BY <3>3 DEF CodesIn, RowsIn, ToClose
      <4>2. \A r \in RowIds :
              Visible(row', status', r) /\ row'[r].code = c
                <=> Visible(row, status, r) /\ row[r].code = c
        BY <3>1, <3>2, <4>1 DEF Visible, Current
      <4>. QED
        BY <2>2, <4>2
    <3>. QED
      BY <3>1, <3>3
  <2>8. ASSUME NEW b \in Batches, HoldBatch(b) PROVE P
    <3>1. /\ status[b] = "published" /\ status'[b] = "held"
          /\ \A e \in Batches : e # b => status'[e] = status[e]
      BY <1>1, <2>8, HoldBatchRows
    <3>2. \A r \in RowIds :
            /\ row'[r] = NoRow <=> row[r] = NoRow
            /\ row[r] # NoRow =>
                 /\ row[r].batch \in Batches
                 /\ row'[r].code = row[r].code
                 /\ r \in ToReopen(row, status, b) => row[r].code \in CodesIn(row, b)
                 /\ r \notin ToReopen(row, status, b) => row'[r] = row[r]
      BY <1>1, <2>8, HoldRow DEF RowsInv
    <3>3. ASSUME NEW c \in Codes, c \notin CodesIn(row, b)
          PROVE  VisibleOf(row', status', c) = VisibleOf(row, status, c)
      <4>1. \A r \in RowIds : row[r] # NoRow /\ row[r].code = c =>
              row[r].batch # b /\ row'[r] = row[r]
        BY <3>2, <3>3 DEF CodesIn, RowsIn
      <4>2. \A r \in RowIds :
              Visible(row', status', r) /\ row'[r].code = c
                <=> Visible(row, status, r) /\ row[r].code = c
        BY <3>1, <3>2, <4>1 DEF Visible, Current
      <4>. QED
        BY <2>2, <4>2
    <3>. QED
      BY <3>1, <3>3
  <2>. HIDE DEF P
  <2>. QED
    BY <1>1, <2>3, <2>5, <2>6, <2>7, <2>8, <2>9, NextCases
<1>. QED
  BY <1>1, RowsInvInit, RowsInvStep, PTL DEF Spec, OnlyItsCodes

(***************************************************************************)
(* The rows of an absorbed batch all move, and it contributes none of the  *)
(* live rows afterwards: no second live file for one sheet.                *)
(***************************************************************************)
THEOREM AbsorbedBatchIsEmpty == Spec => AbsorbsWhole
<1>. DEFINE P == \A r, s \in RowIds :
                   /\ row[r] # NoRow
                   /\ row'[r] # NoRow
                   /\ row'[r].batch # row[r].batch
                   /\ s \in RowsIn(row, row[r].batch)
                   => /\ row'[s].batch = row'[r].batch
                      /\ row[r].batch \notin LiveSources(row', status')
<1>1. ASSUME RowsInv, [Next]_vars PROVE P
  <2>1. TypeOK'
    BY <1>1, TypeOKStep DEF RowsInv
  <2>2. ASSUME \A r \in RowIds : row[r] # NoRow /\ row'[r] # NoRow =>
                 row'[r].batch = row[r].batch
        PROVE  P
    BY <2>2
  <2>3. /\ Quiet => P
        /\ \A b \in Batches : Stalled(b) => P
    BY <2>2 DEF Quiet, Stalled
  <2>4. ASSUME NEW b \in Batches, NEW f \in Files, ProcessBatchJob(b, f) PROVE P
    <3>1. \A r \in RowIds : row[r] # NoRow /\ row'[r] # NoRow => row'[r] = row[r]
      BY <1>1, <2>4, ProcessBatchJobRows
    <3>. QED
      BY <2>2, <3>1
  <2>5. \A b \in Batches, c \in Codes, del \in BOOLEAN, d \in Dest :
          InsertManual(b, c, del, d) => P
    BY <1>1, <2>1, <2>2, InsertManualRows
  <2>6. \A b \in Batches : HoldBatch(b) => P
    BY <1>1, <2>2, HoldRow DEF RowsInv
  <2>7. ASSUME NEW b \in Batches, NEW d \in Dest, Publish(b, d) PROVE P
    <3>1. \A r \in RowIds :
            /\ row'[r] = NoRow <=> row[r] = NoRow
            /\ row[r] # NoRow =>
                 /\ row[r].batch = b => row'[r].batch = Owner(b, d)
                 /\ row[r].batch # b => row'[r].batch = row[r].batch
      BY <1>1, <2>7, PublishRow DEF RowsInv
    <3>2. ASSUME NEW r \in RowIds, NEW s \in RowIds, row[r] # NoRow,
                 row'[r].batch # row[r].batch, s \in RowsIn(row, row[r].batch)
          PROVE  row'[s].batch = row'[r].batch
      BY <3>1, <3>2 DEF RowsIn
    <3>3. ASSUME NEW r \in RowIds, row[r] # NoRow, row'[r].batch # row[r].batch
          PROVE  row[r].batch \notin LiveSources(row', status')
      <4>1. row[r].batch = b /\ Owner(b, d) # b
        BY <3>1, <3>3
      <4>2. \A s \in RowIds : row'[s] # NoRow => row'[s].batch # b
        BY <3>1, <4>1
      <4>. QED
        BY <4>1, <4>2 DEF LiveSources, VisibleRows, Visible, Current
    <3>. QED
      BY <3>2, <3>3
  <2>. HIDE DEF P
  <2>. QED
    BY <1>1, <2>3, <2>4, <2>5, <2>6, <2>7, NextCases
<1>. QED
  BY <1>1, RowsInvInit, RowsInvStep, PTL DEF Spec, AbsorbsWhole

(***************************************************************************)
(* The headers of a held or live batch cover the columns of its rows,      *)
(* whatever was absorbed into it and however late a retry saves the        *)
(* headers it read, so that no extra column is left out of an export.      *)
(***************************************************************************)
THEOREM ExportColumnsAreCovered == Spec => []HeadersCoverRows
<1>1. Init => HeadersCoverRows
  BY DEF Init, HeadersCoverRows
<1>2. ASSUME RowsInv, HeadersCoverRows, [Next]_vars PROVE HeadersCoverRows'
  <2>1. TypeOK' /\ TypeOK
    BY <1>2, TypeOKStep DEF RowsInv
  <2>2. Quiet => HeadersCoverRows'
    BY <1>2 DEF Quiet, HeadersCoverRows
  <2>7. ASSUME NEW b \in Batches, Stalled(b)
        PROVE  HeadersCoverRows'
    <3>1. \A r \in RowIds : row[r] # NoRow => row[r].batch \in Batches
      BY <2>1 DEF TypeOK, Row
    <3>. QED
      BY <1>2, <2>7, <3>1 DEF Stalled, HeadersCoverRows
  <2>3. ASSUME NEW b \in Batches, NEW f \in Files, ProcessBatchJob(b, f)
        PROVE  HeadersCoverRows'
    <3>1. \A e \in Batches : headers'[e] = IF e = b THEN f.headers ELSE headers[e]
      BY <2>1, <2>3 DEF ProcessBatchJob, TypeOK
    <3>2. \A r \in RowIds :
            IF r > lastRow /\ r <= lastRow + Len(f.codes)
            THEN row'[r].batch = b /\ row'[r].columns = f.headers
            ELSE IF r \in RowsIn(row, b) THEN row'[r] = NoRow ELSE row'[r] = row[r]
      BY <2>1, <2>3, ParsedRow DEF ProcessBatchJob
    <3>3. /\ \A r \in RowIds : row[r] # NoRow => row[r].batch \in Batches
          /\ \A e \in Batches : e # b => status'[e] = status[e]
      BY <1>2, <2>3, ProcessBatchJobRows
    <3>4. ASSUME NEW r \in RowIds, row'[r] # NoRow,
                 status'[row'[r].batch] \in {"held", "published"}
          PROVE  row'[r].columns \subseteq headers'[row'[r].batch]
      <4>1. CASE row'[r].batch = b /\ row'[r].columns = f.headers
        BY <3>1, <4>1
      <4>2. CASE row[r] # NoRow /\ row'[r] = row[r] /\ row[r].batch # b
        BY <1>2, <3>1, <3>3, <3>4, <4>2 DEF HeadersCoverRows
      <4>. QED
        BY <3>2, <3>4, <4>1, <4>2 DEF RowsIn
    <3>. QED
      BY <3>4 DEF HeadersCoverRows
  <2>4. ASSUME NEW b \in Batches, NEW d \in Dest, Publish(b, d)
        PROVE  HeadersCoverRows'
    <3>1. /\ Owner(b, d) \in Batches
          /\ status[b] = "held"
          /\ Owner(b, d) # b => status[Owner(b, d)] = "published"
          /\ \A e \in Batches : e # b => status'[e] = status[e]
      BY <1>2, <2>1, <2>4, PublishRows
    <3>2. \A e \in Batches :
            headers'[e] = IF e = Owner(b, d) THEN headers[e] \cup headers[b] ELSE headers[e]
      BY <2>1, <2>4, <3>1 DEF Publish, MergedHeaders, TypeOK
    <3>3. \A r \in RowIds :
            /\ row'[r] = NoRow <=> row[r] = NoRow
            /\ row[r] # NoRow =>
                 /\ row[r].batch \in Batches
                 /\ row'[r].columns = row[r].columns
                 /\ row[r].batch = b => row'[r].batch = Owner(b, d)
                 /\ row[r].batch # b => row'[r].batch = row[r].batch
      BY <2>1, <2>4, PublishRow
    <3>4. ASSUME NEW r \in RowIds, row[r] # NoRow,
                 status'[row'[r].batch] \in {"held", "published"}
          PROVE  row'[r].columns \subseteq headers'[row'[r].batch]
      <4>1. row[r].columns \subseteq headers[row[r].batch]
        BY <1>2, <3>1, <3>3, <3>4 DEF HeadersCoverRows
      <4>. QED
        BY <3>1, <3>2, <3>3, <3>4, <4>1
    <3>. QED
      BY <3>3, <3>4 DEF HeadersCoverRows
  <2>5. ASSUME NEW b \in Batches, HoldBatch(b) PROVE HeadersCoverRows'
    <3>1. \A r \in RowIds :
            /\ row'[r] = NoRow <=> row[r] = NoRow
            /\ row[r] # NoRow => /\ row'[r].batch = row[r].batch
                                 /\ row'[r].columns = row[r].columns
      BY <2>1, <2>5, HoldRow
    <3>2. /\ headers' = headers
          /\ status[b] = "published"
          /\ \A e \in Batches : status'[e] = IF e = b THEN "held" ELSE status[e]
      BY <2>1, <2>5 DEF HoldBatch, TypeOK
    <3>3. \A r \in RowIds : row[r] # NoRow => row[r].batch \in Batches
      BY <2>1 DEF TypeOK, Row
    <3>. QED
      BY <1>2, <3>1, <3>2, <3>3 DEF HeadersCoverRows
  <2>6. ASSUME NEW b \in Batches, NEW c \in Codes, NEW del \in BOOLEAN, NEW d \in Dest,
               InsertManual(b, c, del, d)
        PROVE  HeadersCoverRows'
    <3>1. /\ row'[lastRow + 1].columns = {}
          /\ \A r \in RowIds : r # lastRow + 1 => row'[r] = row[r]
          /\ \A e \in Batches : status'[e] = IF e = b THEN "held" ELSE status[e]
          /\ \A r \in RowIds : row[r] # NoRow => row[r].batch \in Batches /\ row[r].batch # b
      BY <1>2, <2>1, <2>6, InsertManualRows
    <3>2. headers' = headers
      BY <2>6 DEF InsertManual
    <3>. QED
      BY <1>2, <3>1, <3>2 DEF HeadersCoverRows
  <2>. QED
    BY <1>2, <2>2, <2>3, <2>4, <2>5, <2>6, <2>7, NextCases
<1>. QED
  BY <1>1, <1>2, RowsInvInit, RowsInvStep, PTL DEF Spec

-----------------------------------------------------------------------------
(* One visible version of a code, action by action.                          *)

LEMMA ProcessBatchJobIInv ==
  ASSUME IInv, NEW b \in Batches, NEW f \in Files, ProcessBatchJob(b, f)
  PROVE  IInv'
<1>. USE DEF IInv
<1>1. /\ RowsInv'
      /\ \A e \in Batches : status'[e] = IF e = b THEN SavedStatus(b) ELSE status[e]
      /\ \A r \in RowIds : row[r] # NoRow => row[r].batch \in Batches
  BY ProcessBatchJobRows
<1>2. /\ twice' = twice \cup Repeated(f)
      /\ \A e \in Batches : e # b /\ e \in relisted => e \in relisted'
      /\ status'[b] = "published" => b \in relisted'
  BY <1>1 DEF ProcessBatchJob
<1>. DEFINE New(r) == r > lastRow /\ r <= lastRow + Len(f.codes)
<1>3. /\ \A r \in RowIds : New(r) =>
           /\ r - lastRow \in 1..Len(f.codes)
           /\ row'[r].batch = b
           /\ row'[r].code = f.codes[r - lastRow]
      /\ \A r \in RowIds : ~New(r) /\ row'[r] # NoRow => row'[r] = row[r] /\ row[r].batch # b
  BY ProcessBatchJobRows DEF RowsIn
<1>4. \A r, s \in RowIds : r # s => r - lastRow # s - lastRow
  BY DEF RowsInv, TypeOK, RowIds
<1>. HIDE DEF New
<1>5. ASSUME NEW r \in RowIds, NEW s \in RowIds, New(r), New(s), r # s,
             row'[r].code = row'[s].code
      PROVE  row'[r].code \in twice'
  <2>1. row'[r].code \in Repeated(f)
    BY <1>3, <1>4, <1>5 DEF Repeated
  <2>. QED
    BY <1>2, <2>1
<1>6. OneOfferPerBatch'
  <2>. SUFFICES ASSUME NEW r \in RowIds, NEW s \in RowIds,
                       Offered(r)', Offered(s)',
                       row'[r].batch = row'[s].batch, row'[r].code = row'[s].code
                PROVE  r = s \/ row'[r].code \in twice'
    BY DEF OneOfferPerBatch
  <2>1. row'[r] # NoRow /\ row'[s] # NoRow
    BY DEF Offered
  <2>2. CASE New(r) \/ New(s)
    BY <1>3, <1>5, <2>1, <2>2
  <2>3. CASE ~New(r) /\ ~New(s)
    BY <1>2, <1>3, <2>1, <2>3 DEF OneOfferPerBatch, Offered
  <2>. QED
    BY <2>2, <2>3
<1>7. UniqueVisible'
  <2>. SUFFICES ASSUME NEW r \in RowIds, NEW s \in RowIds,
                       Visible(row, status, r)', Visible(row, status, s)',
                       row'[r].code = row'[s].code, r # s
                PROVE  \/ row'[r].batch = row'[s].batch /\ row'[r].code \in twice'
                       \/ /\ row'[r].batch # row'[s].batch
                          /\ row'[r].batch \in relisted' \/ row'[s].batch \in relisted'
    BY DEF UniqueVisible
  <2>1. /\ row'[r] # NoRow /\ row'[s] # NoRow
        /\ status'[row'[r].batch] = "published" /\ status'[row'[s].batch] = "published"
    BY DEF Visible, Current
  <2>2. CASE New(r) /\ New(s)
    BY <1>3, <1>5, <2>2
  <2>3. CASE New(r) /\ ~New(s)
    BY <1>2, <1>3, <2>1, <2>3
  <2>4. CASE ~New(r) /\ New(s)
    BY <1>2, <1>3, <2>1, <2>4
  <2>5. CASE ~New(r) /\ ~New(s)
    <3>1. Visible(row, status, r) /\ Visible(row, status, s) /\ row[r].code = row[s].code
      BY <1>1, <1>3, <2>1, <2>5 DEF Visible, Current
    <3>. QED
      BY <1>1, <1>2, <1>3, <2>1, <2>5, <3>1 DEF UniqueVisible
  <2>. QED
    BY <2>2, <2>3, <2>4, <2>5
<1>. QED
  BY <1>1, <1>6, <1>7

LEMMA PublishIInv ==
  ASSUME IInv, NEW b \in Batches, NEW d \in Dest, Publish(b, d), TypeOK'
  PROVE  IInv'
<1>. USE DEF IInv
<1>1. /\ RowsInv'
      /\ status[b] = "held"
      /\ Owner(b, d) \in Batches
      /\ Owner(b, d) # b => status[Owner(b, d)] = "published"
  BY PublishRows
<1>2. \A e \in Batches : status'[e] = IF e = b THEN "published" ELSE status[e]
  BY PublishRows
<1>5. twice' = twice /\ relisted' = relisted
  BY PublishType DEF RowsInv
<1>3. \A r \in RowIds :
           /\ row'[r] = NoRow <=> row[r] = NoRow
           /\ row[r] # NoRow =>
                /\ row[r].batch \in Batches
                /\ row'[r].code = row[r].code
                /\ row'[r].deleted = row[r].deleted
                /\ row'[r].open => row[r].open
                /\ row[r].batch = b => row'[r].batch = Owner(b, d)
                /\ row[r].batch # b => row'[r].batch = row[r].batch
                /\ r \in ToClose(row, status, b) => ~row'[r].open
  BY PublishRow DEF RowsInv
\* an offered row of b is met by no other current row of its code
<1>4. ASSUME NEW r \in RowIds, NEW s \in RowIds,
             row[r] # NoRow, row[r].batch = b,
             row[s] # NoRow, row[s].batch # b, status[row[s].batch] = "published",
             row[s].open, row[r].code = row[s].code
      PROVE  ~row'[s].open
  <2>1. row[s].code \in CodesIn(row, b)
    BY <1>4 DEF CodesIn, RowsIn
  <2>2. s \in ToClose(row, status, b)
    BY <1>4, <2>1 DEF ToClose, Current
  <2>. QED
    BY <1>3, <1>4, <2>2
<1>7. OneOfferPerBatch'
  <2>. SUFFICES ASSUME NEW r \in RowIds, NEW s \in RowIds,
                       Offered(r)', Offered(s)',
                       row'[r].batch = row'[s].batch, row'[r].code = row'[s].code
                PROVE  r = s \/ row'[r].code \in twice'
    BY DEF OneOfferPerBatch
  <2>1. Offered(r) /\ Offered(s) /\ row[r].code = row[s].code
    BY <1>3 DEF Offered
  <2>2. CASE row[r].batch = row[s].batch
    BY <1>3, <1>5, <2>1, <2>2 DEF OneOfferPerBatch, Offered
  <2>3. CASE row[r].batch = b /\ row[s].batch # b
    BY <1>1, <1>3, <1>4, <2>1, <2>3 DEF Offered
  <2>4. CASE row[s].batch = b /\ row[r].batch # b
    BY <1>1, <1>3, <1>4, <2>1, <2>4 DEF Offered
  <2>5. CASE row[s].batch # b /\ row[r].batch # b
    BY <1>3, <2>1, <2>2, <2>5 DEF Offered
  <2>. QED
    BY <2>2, <2>3, <2>4, <2>5
<1>8. UniqueVisible'
  <2>. SUFFICES ASSUME NEW r \in RowIds, NEW s \in RowIds,
                       Visible(row, status, r)', Visible(row, status, s)',
                       row'[r].code = row'[s].code, r # s
                PROVE  \/ row'[r].batch = row'[s].batch /\ row'[r].code \in twice'
                       \/ /\ row'[r].batch # row'[s].batch
                          /\ row'[r].batch \in relisted' \/ row'[s].batch \in relisted'
    BY DEF UniqueVisible
  <2>1. /\ Offered(r) /\ Offered(s) /\ row[r].code = row[s].code
        /\ row'[r].open /\ row'[s].open
    BY <1>3 DEF Offered, Visible, Current
  <2>2. /\ row[r].batch # b => status[row[r].batch] = "published"
        /\ row[s].batch # b => status[row[s].batch] = "published"
    BY <1>2, <1>3, <2>1 DEF Visible, Current, Offered
  <2>3. CASE row[r].batch = b /\ row[s].batch = b
    BY <1>3, <1>5, <2>1, <2>3 DEF OneOfferPerBatch, Offered
  <2>4. CASE row[r].batch = b /\ row[s].batch # b
    BY <1>4, <2>1, <2>2, <2>4 DEF Offered
  <2>5. CASE row[s].batch = b /\ row[r].batch # b
    BY <1>4, <2>1, <2>2, <2>5 DEF Offered
  <2>6. CASE row[s].batch # b /\ row[r].batch # b
    <3>1. Visible(row, status, r) /\ Visible(row, status, s)
      BY <2>1, <2>2, <2>6 DEF Visible, Current, Offered
    <3>2. row'[r].batch = row[r].batch /\ row'[s].batch = row[s].batch
            /\ row'[r].code = row[r].code
      BY <1>3, <2>1, <2>6 DEF Offered
    <3>. QED
      BY <1>5, <2>1, <3>1, <3>2 DEF UniqueVisible
  <2>. QED
    BY <2>3, <2>4, <2>5, <2>6
<1>. QED
  BY <1>1, <1>7, <1>8

LEMMA HoldBatchIInv ==
  ASSUME IInv, NEW b \in Batches, HoldBatch(b)
  PROVE  IInv'
<1>. USE DEF IInv
<1>1. RowsInv'
  BY HoldBatchRows
<1>2. \A r \in RowIds :
        /\ row'[r] = NoRow <=> row[r] = NoRow
        /\ row[r] # NoRow =>
             /\ row[r].batch \in Batches
             /\ row'[r].batch = row[r].batch
             /\ row'[r].code = row[r].code
             /\ row'[r].deleted = row[r].deleted
             /\ IF r \in ToReopen(row, status, b)
                THEN /\ r \in OlderVersions(row, status, b, row[r].code)
                     /\ \A s \in OlderVersions(row, status, b, row[r].code) : s <= r
                     /\ ~LiveElsewhere(row, status, b, row[r].code)
                ELSE row'[r] = row[r]
  BY HoldRow DEF RowsInv
<1>3. /\ status[b] = "published"
      /\ \A e \in Batches : status'[e] = IF e = b THEN "held" ELSE status[e]
      /\ twice' = twice
      /\ relisted' = relisted \ {b}
  BY HoldBatchRows DEF HoldBatch
<1>4. \A r \in RowIds : r \in Nat
  BY DEF RowIds
\* two rows that are reopened for the same code are the same row
<1>7. ASSUME NEW r \in RowIds, NEW s \in RowIds, row[r] # NoRow, row[s] # NoRow,
             row[r].code = row[s].code,
             r \in ToReopen(row, status, b), s \in ToReopen(row, status, b)
      PROVE  r = s
  BY <1>2, <1>4, <1>7
\* a row is not reopened beside an open one of a published batch other than b
<1>8. ASSUME NEW r \in RowIds, NEW s \in RowIds, row[r] # NoRow,
             row[r].code = row[s].code, r \in ToReopen(row, status, b),
             Offered(s), status[row[s].batch] = "published", row[s].batch # b
      PROVE  FALSE
  <2>1. LiveElsewhere(row, status, b, row[r].code)
    BY <1>8 DEF LiveElsewhere, VisibleRows, Visible, Current, Offered
  <2>. QED
    BY <1>2, <1>8, <2>1
<1>9. ASSUME NEW r \in RowIds, row[r] # NoRow, r \in ToReopen(row, status, b)
      PROVE  status[row[r].batch] = "published" /\ row[r].batch # b
  BY <1>2, <1>9 DEF OlderVersions
<1>10. ASSUME NEW r \in RowIds, Offered(r)'
       PROVE  row[r] # NoRow /\ (r \notin ToReopen(row, status, b) => Offered(r))
  BY <1>2, <1>10 DEF Offered
<1>11. OneOfferPerBatch'
  <2>. SUFFICES ASSUME NEW r \in RowIds, NEW s \in RowIds,
                       Offered(r)', Offered(s)',
                       row'[r].batch = row'[s].batch, row'[r].code = row'[s].code
                PROVE  r = s \/ row'[r].code \in twice'
    BY DEF OneOfferPerBatch
  <2>1. /\ row[r] # NoRow /\ row[s] # NoRow
        /\ row[r].batch = row[s].batch /\ row[r].code = row[s].code
    BY <1>2, <1>10
  <2>2. CASE r \notin ToReopen(row, status, b) /\ s \notin ToReopen(row, status, b)
    BY <1>2, <1>3, <1>10, <2>1, <2>2 DEF OneOfferPerBatch
  <2>. QED
    BY <1>7, <1>8, <1>9, <1>10, <2>1, <2>2
<1>12. UniqueVisible'
  <2>. SUFFICES ASSUME NEW r \in RowIds, NEW s \in RowIds,
                       Visible(row, status, r)', Visible(row, status, s)',
                       row'[r].code = row'[s].code, r # s
                PROVE  \/ row'[r].batch = row'[s].batch /\ row'[r].code \in twice'
                       \/ /\ row'[r].batch # row'[s].batch
                          /\ row'[r].batch \in relisted' \/ row'[s].batch \in relisted'
    BY DEF UniqueVisible
  <2>1. Offered(r)' /\ Offered(s)'
    BY DEF Offered, Visible, Current
  <2>2. /\ row[r] # NoRow /\ row[s] # NoRow
        /\ row[r].code = row[s].code
        /\ status[row[r].batch] = "published" /\ row[r].batch # b
        /\ status[row[s].batch] = "published" /\ row[s].batch # b
    BY <1>2, <1>3, <1>10, <2>1 DEF Visible, Current
  <2>3. CASE r \notin ToReopen(row, status, b) /\ s \notin ToReopen(row, status, b)
    <3>1. Visible(row, status, r) /\ Visible(row, status, s)
      BY <1>10, <2>1, <2>2, <2>3 DEF Visible, Current, Offered
    <3>. QED
      BY <1>2, <1>3, <2>2, <2>3, <3>1 DEF UniqueVisible
  <2>4. CASE r \in ToReopen(row, status, b) \/ s \in ToReopen(row, status, b)
    BY <1>7, <1>8, <1>10, <2>1, <2>2, <2>4
  <2>. QED
    BY <2>3, <2>4
<1>. QED
  BY <1>1, <1>11, <1>12

LEMMA InsertManualIInv ==
  ASSUME IInv, NEW b \in Batches, NEW c \in Codes, NEW deletion \in BOOLEAN,
         NEW d \in Dest, InsertManual(b, c, deletion, d), TypeOK'
  PROVE  IInv'
<1>. USE DEF IInv
<1>1. /\ RowsInv'
      /\ \A e \in Batches : status'[e] = IF e = b THEN "held" ELSE status[e]
      /\ row'[lastRow + 1].batch = b
      /\ \A r \in RowIds : r # lastRow + 1 => row'[r] = row[r]
      /\ \A r \in RowIds : row[r] # NoRow => row[r].batch \in Batches /\ row[r].batch # b
  BY InsertManualRows
<1>4. twice' = twice /\ relisted' = relisted
  BY DEF InsertManual
<1>2. OneOfferPerBatch'
  BY <1>1, <1>4 DEF OneOfferPerBatch, Offered
<1>3. UniqueVisible'
  <2>1. \A r \in RowIds : Visible(row, status, r)' => Visible(row, status, r) /\ row'[r] = row[r]
    BY <1>1 DEF Visible, Current
  <2>. QED
    BY <1>4, <2>1 DEF UniqueVisible
<1>. QED
  BY <1>1, <1>2, <1>3

LEMMA IInvStep ==
  IInv /\ [Next]_vars => IInv'
<1>. SUFFICES ASSUME IInv, [Next]_vars PROVE IInv'
  OBVIOUS
<1>. USE DEF IInv
<1>1. RowsInv' /\ TypeOK'
  BY RowsInvStep DEF RowsInv
<1>2. ASSUME Quiet PROVE IInv'
  BY <1>1, <1>2 DEF Quiet, OneOfferPerBatch, Offered, UniqueVisible, Visible, Current
<1>8. ASSUME NEW b \in Batches, Stalled(b) PROVE IInv'
  <2>1. UNCHANGED <<row, twice>> /\ relisted' = relisted \ {b}
    BY <1>8 DEF Stalled
  <2>2. \A r \in RowIds :
          Visible(row, status, r)' => Visible(row, status, r) /\ row[r].batch # b
    BY <1>8, <2>1 DEF Stalled, Visible, Current, RowsInv, TypeOK, Row
  <2>3. UniqueVisible'
    BY <2>1, <2>2 DEF UniqueVisible
  <2>4. OneOfferPerBatch'
    BY <2>1 DEF OneOfferPerBatch, Offered
  <2>. QED
    BY <1>1, <2>3, <2>4
<1>3. \A b \in Batches, f \in Files : ProcessBatchJob(b, f) => IInv'
  BY ProcessBatchJobIInv
<1>4. \A b \in Batches, d \in Dest : Publish(b, d) => IInv'
  BY <1>1, PublishIInv
<1>5. \A b \in Batches : HoldBatch(b) => IInv'
  BY HoldBatchIInv
<1>6. \A b \in Batches, c \in Codes, del \in BOOLEAN, d \in Dest :
        InsertManual(b, c, del, d) => IInv'
  BY <1>1, InsertManualIInv
<1>. HIDE DEF IInv
<1>7. RowsInv
  BY DEF IInv
<1>. QED
  BY <1>2, <1>3, <1>4, <1>5, <1>6, <1>7, <1>8, NextCases

LEMMA IInvInit == Init => IInv
BY RowsInvInit DEF Init, IInv, OneOfferPerBatch, Offered, UniqueVisible, Visible, Current

(***************************************************************************)
(* Search shows two versions of one code only where a file named the code  *)
(* twice or a run of the parse job has put rows in place in a live batch,  *)
(* for any number of batches, codes and rows and any sequence of uploads,  *)
(* runs, failures, retries, publishes, holds and manual edits.             *)
(***************************************************************************)
THEOREM SearchIsUnambiguous == Spec => []UniqueVisible
<1>1. Init => IInv
  BY IInvInit
<1>2. IInv /\ [Next]_vars => IInv'
  BY IInvStep
<1>3. IInv => UniqueVisible
  BY DEF IInv
<1>. QED
  BY <1>1, <1>2, <1>3, PTL DEF Spec

-----------------------------------------------------------------------------
(* Taking a file off search.                                                 *)

LEMMA NewestRow ==
  ASSUME NEW S \in SUBSET RowIds, S # {}
  PROVE  \E m \in S : \A s \in S : s <= m
<1>. DEFINE R == OpToRel(<, Nat)
            T == {MaxRow - s : s \in S}
<1>1. \A m, n \in Nat : m < n => <<m, n>> \in R
  BY DEF OpToRel
<1>2. T \in SUBSET Nat /\ T # {}
  <2>1. \A s \in S : MaxRow - s \in Nat
    BY DEF RowIds
  <2>. QED
    BY <2>1
<1>3. IsWellFoundedOn(R, Nat)
  BY NatLessThanWellFounded
<1>. HIDE DEF R, T
<1>4. PICK t \in T : \A n \in T : ~(<<n, t>> \in R)
  BY <1>2, <1>3, WFMin
<1>5. PICK m \in S : t = MaxRow - m
  BY <1>4 DEF T
<1>6. ASSUME NEW s \in S PROVE s <= m
  <2>1. MaxRow - s \in T /\ MaxRow - s \in Nat /\ t \in Nat
    BY <1>2, <1>4 DEF T
  <2>2. ~(MaxRow - s < t)
    BY <1>1, <1>4, <2>1
  <2>. QED
    BY <1>5, <2>2 DEF RowIds
<1>. QED
  BY <1>6

\* Only HoldBatch, and the save of a run, take a batch off.
LEMMA OffByHold ==
  ASSUME TypeOK, [Next]_vars, NEW b \in Batches, TakesOff(b), ~ParsesIn(b)
  PROVE  HoldBatch(b)
<1>1. ASSUME NEW e \in Batches, NEW d \in Dest, Publish(e, d) PROVE FALSE
  BY <1>1 DEF Publish, TakesOff, TypeOK
<1>2. ASSUME NEW e \in Batches, Upload(e) \/ RejectBatch(e) \/ RetryBatch(e) PROVE FALSE
  BY <1>2 DEF Upload, RejectBatch, RetryBatch, TakesOff, TypeOK
<1>3. ASSUME NEW e \in Batches, NEW f \in Files, ProcessBatchJob(e, f) PROVE FALSE
  <2>1. e # b
    BY <1>3 DEF ParsesIn
  <2>. QED
    BY <1>3, <2>1 DEF ProcessBatchJob, TakesOff, TypeOK
<1>4. ASSUME NEW e \in Batches, NEW c \in Codes, NEW del, NEW d, InsertManual(e, c, del, d)
      PROVE  FALSE
  BY <1>4 DEF InsertManual, TakesOff, TypeOK
<1>5. ASSUME NEW e \in Batches, HoldBatch(e) PROVE HoldBatch(b)
  BY <1>5 DEF HoldBatch, TakesOff, TypeOK
<1>6. ASSUME NEW e \in Batches, ManualPublish(e) PROVE FALSE
  BY <1>1, <1>6 DEF ManualPublish, TypeOK
<1>7. ASSUME UNCHANGED status PROVE FALSE
  BY <1>7 DEF TakesOff
<1>. QED
  BY <1>1, <1>2, <1>3, <1>4, <1>5, <1>6, <1>7
     DEF Next, vars, StartRun, FailRun, RejectFails, RetryRead, PublishBatch, ManualUpsert, ManualDelete, CheckDelete, ManualFails, Crash

\* Of the closed versions of a code of b, the newest comes back, unless the
\* code is live in another batch.
LEMMA HoldRestores ==
  ASSUME TypeOK, NEW b \in Batches, HoldBatch(b), NEW c \in CodesIn(row, b),
         OlderVersions(row, status, b, c) # {}
  PROVE  VisibleOf(row', status', c) # {}
<1>1. /\ \A e \in Batches : e # b => status'[e] = status[e]
      /\ row' = Restored(row, status, b)
  BY DEF HoldBatch, TypeOK
<1>2. \A r \in RowIds : row[r] # NoRow =>
        /\ row'[r] # NoRow /\ row[r].batch \in Batches /\ row'[r].batch = row[r].batch
        /\ row'[r].code = row[r].code /\ row'[r].deleted = row[r].deleted
        /\ IF r \in ToReopen(row, status, b) THEN row'[r].open ELSE row'[r] = row[r]
  BY HoldRow
<1>3. CASE LiveElsewhere(row, status, b, c)
  <2>1. PICK s \in RowIds : Visible(row, status, s) /\ row[s].batch # b /\ row[s].code = c
    BY <1>3 DEF LiveElsewhere, VisibleRows
  <2>2. Visible(row', status', s) /\ row'[s].code = c
    BY <1>1, <1>2, <2>1 DEF Visible, Current
  <2>. QED
    BY <2>2 DEF VisibleOf, VisibleRows
<1>4. CASE ~LiveElsewhere(row, status, b, c)
  <2>1. OlderVersions(row, status, b, c) \in SUBSET RowIds
    BY DEF OlderVersions
  <2>2. PICK m \in OlderVersions(row, status, b, c) :
          \A s \in OlderVersions(row, status, b, c) : s <= m
    BY <2>1, NewestRow
  <2>3. m \in ToReopen(row, status, b)
    BY <1>4, <2>1, <2>2 DEF ToReopen
  <2>4. /\ m \in RowIds /\ row[m] # NoRow /\ row[m].code = c /\ row[m].batch # b
        /\ ~row[m].deleted /\ status[row[m].batch] = "published"
    BY <2>2 DEF OlderVersions
  <2>5. Visible(row', status', m) /\ row'[m].code = c
    BY <1>1, <1>2, <2>3, <2>4 DEF Visible, Current
  <2>. QED
    BY <2>4, <2>5 DEF VisibleOf, VisibleRows
<1>. QED
  BY <1>3, <1>4

(***************************************************************************)
(* Taking a file off search never makes an item vanish that another        *)
(* published file still has, unless it is a late save that takes it off.   *)
(***************************************************************************)
THEOREM ItemsSurviveHold == Spec => HoldKeepsCodes
<1>1. ASSUME TypeOK, [Next]_vars, NEW b \in Batches, TakesOff(b), ~ParsesIn(b), NEW r \in RowIds,
             row[r] # NoRow, row[r].batch # b, ~row[r].deleted,
             status[row[r].batch] = "published",
             VisibleOf(row, status, row[r].code) # {}
      PROVE  VisibleOf(row', status', row[r].code) # {}
  <2>1. HoldBatch(b)
    BY <1>1, OffByHold
  <2>2. \A e \in Batches : e # b => status'[e] = status[e]
    BY <1>1, <2>1 DEF HoldBatch, TypeOK
  <2>3. \A s \in RowIds : row[s] # NoRow =>
          /\ row'[s] # NoRow /\ row[s].batch \in Batches /\ row'[s].batch = row[s].batch
          /\ row'[s].code = row[s].code /\ row'[s].deleted = row[s].deleted
          /\ IF s \in ToReopen(row, status, b) THEN row'[s].open ELSE row'[s] = row[s]
    BY <1>1, <2>1, HoldRow
  <2>4. PICK v \in RowIds : Visible(row, status, v) /\ row[v].code = row[r].code
    BY <1>1 DEF VisibleOf, VisibleRows
  <2>5. CASE row[v].batch # b
    <3>1. Visible(row', status', v) /\ row'[v].code = row[r].code
      BY <2>2, <2>3, <2>4, <2>5 DEF Visible, Current
    <3>. QED
      BY <3>1 DEF VisibleOf, VisibleRows
  <2>6. CASE row[v].batch = b
    <3>1. row[r].code \in CodesIn(row, b)
      BY <2>4, <2>6 DEF CodesIn, RowsIn, Visible, Current
    <3>2. CASE row[r].open
      <4>1. Visible(row', status', r) /\ row'[r].code = row[r].code
        BY <1>1, <2>2, <2>3, <3>2 DEF Visible, Current
      <4>. QED
        BY <4>1 DEF VisibleOf, VisibleRows
    <3>3. CASE ~row[r].open
      <4>1. r \in OlderVersions(row, status, b, row[r].code)
        BY <1>1, <3>3 DEF OlderVersions
      <4>. QED
        BY <1>1, <2>1, <3>1, <4>1, HoldRestores
    <3>. QED
      BY <3>2, <3>3
  <2>. QED
    BY <2>5, <2>6
<1>2. TypeOK /\ [Next]_vars =>
        [\A b \in Batches : TakesOff(b) /\ ~ParsesIn(b) =>
           \A r \in RowIds :
             /\ row[r] # NoRow
             /\ row[r].batch # b
             /\ ~row[r].deleted
             /\ status[row[r].batch] = "published"
             /\ VisibleOf(row, status, row[r].code) # {}
             => VisibleOf(row', status', row[r].code) # {}]_vars
  BY <1>1
<1>. QED
  BY <1>2, TypeCorrect, PTL DEF Spec, HoldKeepsCodes

\* Hold and publish again, row by row.
LEMMA UndoRow ==
  ASSUME TypeOK, NEW b \in Batches, status[b] = "published",
         \A c \in CodesIn(row, b) : ~LiveElsewhere(row, status, b, c),
         NEW STATE off, off = [status EXCEPT ![b] = "held"],
         NEW STATE held, held = Restored(row, status, b),
         NEW STATE back, back = Superseded(held, off, b),
         NEW r \in RowIds
  PROVE  Visible(back, status, r) <=> Visible(row, status, r)
<1>1. /\ row \in [RowIds -> Row \cup {NoRow}] /\ status \in [Batches -> Status]
      /\ off \in [Batches -> Status]
      /\ \A e \in Batches : off[e] = IF e = b THEN "held" ELSE status[e]
  BY DEF TypeOK, Status
<1>2. /\ held \in [RowIds -> Row \cup {NoRow}]
      /\ \A s \in RowIds :
           IF s \in ToReopen(row, status, b)
           THEN /\ row[s] # NoRow /\ held[s] # NoRow
                /\ held[s].batch = row[s].batch /\ held[s].code = row[s].code
                /\ held[s].deleted = row[s].deleted /\ held[s].open
           ELSE held[s] = row[s]
  BY <1>1, RestoredRow
<1>3. \A s \in RowIds :
        IF s \in ToClose(held, off, b)
        THEN /\ held[s] # NoRow /\ back[s] # NoRow
             /\ back[s].batch = held[s].batch /\ back[s].code = held[s].code
             /\ back[s].deleted = held[s].deleted /\ ~back[s].open
        ELSE back[s] = held[s]
  <2>1. held \in [RowIds -> Row \cup {NoRow}] /\ off \in [Batches -> Status]
    BY <1>1, <1>2
  <2>. QED
    BY ONLY <2>1, SupersededRow, back = Superseded(held, off, b), b \in Batches
<1>4. CodesIn(held, b) = CodesIn(row, b)
  <2>1. RowsIn(held, b) = RowsIn(row, b)
    BY <1>2 DEF RowsIn
  <2>2. \A s \in RowsIn(row, b) : held[s].code = row[s].code
    BY <1>2 DEF RowsIn
  <2>. QED
    BY <2>1, <2>2 DEF CodesIn
<1>5. \A s \in RowIds : row[s] # NoRow => row[s].batch \in Batches
  BY <1>1 DEF Row
\* what was reopened is closed again
<1>6. CASE r \in ToReopen(row, status, b)
  <2>1. /\ row[r] # NoRow /\ row[r].batch # b /\ ~row[r].open
        /\ status[row[r].batch] = "published" /\ row[r].code \in CodesIn(row, b)
    BY <1>6 DEF ToReopen, OlderVersions
  <2>2. r \in ToClose(held, off, b)
    BY <1>1, <1>2, <1>4, <1>5, <1>6, <2>1 DEF ToClose, Current
  <2>. QED
    BY <1>3, <2>1, <2>2 DEF Visible, Current
\* and nothing else that was visible
<1>7. CASE r \notin ToReopen(row, status, b)
  <2>1. held[r] = row[r]
    BY <1>2, <1>7
  <2>2. CASE r \in ToClose(held, off, b)
    <3>1. row[r] # NoRow /\ row[r].batch # b /\ row[r].code \in CodesIn(row, b)
      BY <1>4, <2>1, <2>2 DEF ToClose, Current
    <3>3. ~Visible(row, status, r)
      BY <3>1 DEF LiveElsewhere, VisibleRows
    <3>. QED
      BY <1>3, <2>2, <3>3 DEF Visible, Current
  <2>3. CASE r \notin ToClose(held, off, b)
    BY <1>3, <2>1, <2>3 DEF Visible, Current
  <2>. QED
    BY <2>2, <2>3
<1>. QED
  BY <1>6, <1>7

(***************************************************************************)
(* Taking off search a file none of whose items is shown from another      *)
(* file, and putting it back, changes nothing: publishing closes what the  *)
(* hold reopened, and no more.                                             *)
(***************************************************************************)
THEOREM HoldCanBeUndone == Spec => []UndoIsExact
<1>1. TypeOK => UndoIsExact
  BY UndoRow DEF UndoIsExact, VisibleRows
<1>. QED
  BY <1>1, TypeCorrect, PTL
=============================================================================
