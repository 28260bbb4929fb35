--------------------------- MODULE CatalogHistory ---------------------------
(***************************************************************************)
(* Catalog with a history variable: what the catalog showed just before a  *)
(* batch went live, which is what the documentation says holdBatch         *)
(* restores.  The history variable has no counterpart in the code; that    *)
(* there is none is what the run catalog_hold_deleted is about.            *)
(***************************************************************************)
EXTENDS Catalog

VARIABLE covered  \* rows whose code was in search when their batch last went live

hvars == <<vars, covered>>

HInit == Init /\ covered = {}

InSearch(c) == VisibleOf(row, status, c) # {}

HNext ==
  /\ Next
  /\ covered' =
       {r \in RowIds :
          IF \E b \in Batches : PutsOn(b) /\ r \in RowsIn(row, b)
          THEN InSearch(row[r].code)
          ELSE r \in covered}

HSpec == HInit /\ [][HNext]_hvars

(***************************************************************************)
(* "Hold ... take a published batch off search, restoring whatever was     *)
(* live before it for any item codes it was the current version of"        *)
(* (docs/ARCHITECTURE.md:189-191): if nothing was live for a code whenever *)
(* the batch brought it in, nothing is live for it once the batch is off   *)
(* search.                                                                 *)
(***************************************************************************)
HoldRestoresWhatWasLive ==
  [][\A b \in Batches : TakesOff(b) /\ ~ParsesIn(b) =>
       \A c \in Codes :
         /\ \E r \in RowsIn(row, b) : row[r].code = c /\ Visible(row, status, r)
         /\ \A r \in RowsIn(row, b) : row[r].code = c => r \notin covered
         => VisibleOf(row', status', c) = {}]_hvars
=============================================================================
