------------------------------- MODULE Backup -------------------------------
(***************************************************************************)
(* ops/backup.sh and ops/restore.sh around the object store: a backup is a *)
(* dump of the database and then an archive of the uploads, two files with *)
(* one time stamp, each written under its final name; the script may stop  *)
(* at any point and leaves the file it was at cut off; both kinds are      *)
(* pruned by their age, and "latest" takes the newest file of each kind.   *)
(*                                                                         *)
(* The database is reduced to rows, the source files it knows.  A restore  *)
(* runs while the backend is stopped (docs/DEPLOYMENT.md, Rollback).       *)
(*                                                                         *)
(* mixed is a history variable.                                            *)
(***************************************************************************)
EXTENDS ObjectStore

CONSTANT MaxBackups  \* bound: backups taken, numbered in order of their time stamp

Stamps == 1..MaxBackups

ASSUME BackupAssumption == MaxBackups \in Nat

\* A file of the backup directory, what is in it, and whether its end was
\* written; tar comes to one object after the other.
Dump == [stamp : Stamps, rows : SUBSET Files, whole : BOOLEAN]
Tar == [stamp : Stamps, objects : [Files -> Object \cup {"unread"}], whole : BOOLEAN]

VARIABLES
  taken,    \* backups begun so far
  step,     \* what the backup or restore script under way has done
  dumps,    \* db-<stamp>.dump
  tars,     \* uploads-<stamp>.tar.gz
  restored, \* the stamps that a restore under way works from; 0 for no archive
  mixed     \* history: a restore brought rows back without the objects of the
            \* same backup, or with part of them

backupVars == <<taken, step, dumps, tars, restored, mixed>>
vars == <<storeVars, backupVars>>

TypeOK ==
  /\ StoreTypeOK
  /\ taken \in 0..MaxBackups
  /\ step \in {"idle", "first file", "second file", "restored db"}
  /\ dumps \subseteq Dump
  /\ tars \subseteq Tar
  /\ restored \in [db : 0..MaxBackups, uploads : 0..MaxBackups]
  /\ mixed \in BOOLEAN

Init ==
  /\ StoreInit
  /\ taken = 0
  /\ step = "idle"
  /\ dumps = {}
  /\ tars = {}
  /\ restored = [db |-> 0, uploads |-> 0]
  /\ mixed = FALSE

-----------------------------------------------------------------------------
(* backup.sh                                                                 *)

\* WRONG (breaks PairIsComplete): the uploads are archived first
ScriptSwapped == <<"tar", "dump">>

Script == <<"dump", "tar">>

\* The file that pg_dump or tar opens; pg_dump works from a snapshot.
OpenedDump(kind, k) ==
  IF kind = "dump" THEN {[stamp |-> k, rows |-> rows, whole |-> FALSE]} ELSE {}
OpenedTar(kind, k) ==
  IF kind = "tar" THEN {[stamp |-> k, objects |-> [f \in Files |-> "unread"],
                         whole |-> FALSE]}
                  ELSE {}

\* The file under way has its end.
Closed(files) ==
  {IF x.stamp = taken THEN [x EXCEPT !.whole = TRUE] ELSE x : x \in files}

BackingUp == step \in {"first file", "second file"}

BeginBackup ==
  /\ step = "idle"
  /\ taken < MaxBackups
  /\ taken' = taken + 1
  /\ step' = "first file"
  /\ dumps' = dumps \cup OpenedDump(Script[1], taken + 1)
  /\ tars' = tars \cup OpenedTar(Script[1], taken + 1)
  /\ UNCHANGED <<storeVars, restored, mixed>>

\* tar: an object that is being written goes into the archive as it is.
ArchiveObject(f) ==
  /\ BackingUp
  /\ \E x \in tars :
       /\ x.stamp = taken
       /\ x.objects[f] = "unread"
       /\ tars' = (tars \ {x}) \cup {[x EXCEPT !.objects[f] = object[f]]}
  /\ cut' = IF object[f] = "partial" THEN cut \cup {f} ELSE cut
  /\ UNCHANGED <<object, rows, upload, reading, parsed, shared, taken, step, dumps,
                 restored, mixed>>

AllArchived == \A x \in tars, f \in Files : x.stamp = taken => x.objects[f] # "unread"

\* There may be no uploads directory yet, and then no archive.
NothingStored == \A f \in Files : object[f] = "absent"

NextFile ==
  /\ step = "first file"
  /\ AllArchived
  /\ step' = "second file"
  /\ dumps' = Closed(dumps) \cup OpenedDump(Script[2], taken)
  /\ \/ tars' = Closed(tars) \cup OpenedTar(Script[2], taken)
     \/ NothingStored /\ tars' = Closed(tars)
  /\ UNCHANGED <<storeVars, taken, restored, mixed>>

\* find -mtime -delete
Since(files, oldest) == {x \in files : x.stamp >= oldest}

\* Both kinds are pruned by their age: of a pair the one that was written first
\* may go one backup earlier.
FinishBackup ==
  /\ step = "second file"
  /\ AllArchived
  /\ \E oldest \in 1..taken, late \in {0, 1} :
       /\ oldest + late <= taken
       /\ dumps' = Since(Closed(dumps), oldest + late)
       /\ tars' = Since(Closed(tars), oldest)
  /\ step' = "idle"
  /\ UNCHANGED <<storeVars, taken, restored, mixed>>

\* set -e, a full disk, or the host stops: what was written so far stays, but a
\* dump that is found empty is removed.
StopBackup ==
  /\ BackingUp
  /\ step' = "idle"
  /\ \/ dumps' = dumps
     \/ step = "first file" /\ dumps' = {d \in dumps : d.stamp # taken}
  /\ UNCHANGED <<storeVars, taken, tars, restored, mixed>>

-----------------------------------------------------------------------------
(* restore.sh                                                                *)

Stopped == (\A u \in Uploads : upload[u] = Idle) /\ \A f \in Files : reading[f] = "none"

StampsOf(files) == {x.stamp : x \in files}

Newest(files) ==
  IF files = {} THEN 0 ELSE CHOOSE k \in StampsOf(files) : \A x \in files : x.stamp <= k

LatestPair == [db |-> Newest(dumps), uploads |-> Newest(tars)]

\* "latest", or a dump and its archive by name
Pairs == {LatestPair} \cup
         {[db |-> k, uploads |-> k] : k \in StampsOf(dumps) \cap StampsOf(tars)}

\* pg_restore
RestoreDatabase(p) ==
  /\ step = "idle"
  /\ Stopped
  /\ restored' = p
  /\ \E d \in dumps : d.stamp = p.db /\ d.whole /\ rows' = d.rows
  /\ step' = "restored db"
  /\ UNCHANGED <<object, upload, reading, parsed, cut, shared, taken, dumps,
                 tars, mixed>>

\* pg_restore meets the end of a dump that was cut off, before it has dropped the
\* tables, or before or after it has filled the one of the source files; the
\* script stops and leaves the uploads as they are.
RestoreCutDump(p) ==
  /\ step = "idle"
  /\ Stopped
  /\ \E d \in dumps : d.stamp = p.db /\ ~d.whole /\ rows' \in {rows, {}, d.rows}
  /\ mixed' = (mixed \/ ~(rows' \subseteq rows))
  /\ UNCHANGED <<object, upload, reading, parsed, cut, shared, taken, step, dumps,
                 tars, restored>>

\* tar -x; of an archive that was cut off any object may be missing, or its end.
Extracted(x) ==
  {o \in [Files -> Object] :
     \A f \in Files : o[f] = x.objects[f] \/ (~x.whole /\ o[f] \in {"absent", "partial"})}

\* The uploads are replaced by those of the archive; without one they stay.
RestoreUploads ==
  /\ step = "restored db"
  /\ \/ restored.uploads = 0 /\ object' = object /\ mixed' = TRUE
     \/ \E x \in tars :
          /\ x.stamp = restored.uploads
          /\ object' \in Extracted(x)
          /\ mixed' = (mixed \/ ~x.whole \/ x.stamp # restored.db)
  /\ step' = "idle"
  /\ restored' = [db |-> 0, uploads |-> 0]
  /\ UNCHANGED <<rows, upload, reading, parsed, cut, shared, taken, dumps, tars>>

\* The backend is not started in the middle of a restore.
Next ==
  \/ step # "restored db" /\ StoreNext /\ UNCHANGED backupVars
  \/ BeginBackup \/ NextFile \/ FinishBackup \/ StopBackup
  \/ \E f \in Files : ArchiveObject(f)
  \/ \E p \in Pairs : RestoreDatabase(p) \/ RestoreCutDump(p)
  \/ RestoreUploads

Spec == Init /\ [][Next]_vars

-----------------------------------------------------------------------------
(***************************************************************************)
(* A source file in the database has its whole object on disk, while the   *)
(* program runs and after a restore - unless a write of that file was cut  *)
(* off (put takes what was left for complete), somebody is writing it once *)
(* more, or a restore took the rows of one backup without all the objects  *)
(* of it (mixed: "latest" with a file that was cut off, or with two        *)
(* backups).                                                               *)
(***************************************************************************)
CommittedIsStored ==
  \A f \in rows :
    \/ object[f] = "whole"
    \/ f \in cut
    \/ WritersOf(f) # {}
    \/ mixed \/ step = "restored db"

(***************************************************************************)
(* A parse never takes part of a file for the file, unless a write of it   *)
(* was cut off, two uploads had it in hand at the same time, or a restore  *)
(* was mixed: a CSV that ends early parses without an error                *)
(* (processBatchJob, objectStore.get).                                     *)
(***************************************************************************)
ParsedIsWhole ==
  \A f \in Files :
    parsed[f] = "partial" => f \in cut \cup shared \/ mixed

(***************************************************************************)
(* A backup whose two files were finished can be restored: every source    *)
(* file in the dump has its object in the archive, though uploads go on    *)
(* while the two are written (backup.sh dumps the database first, and      *)
(* objects are stored before their rows).  Of a backup that was stopped it *)
(* says nothing, and "latest" may pick its files (restore.sh).             *)
(***************************************************************************)
PairIsComplete ==
  \A d \in dumps, x \in tars : d.stamp = x.stamp /\ d.whole /\ x.whole =>
    \A f \in d.rows : x.objects[f] = "whole" \/ f \in cut \/ mixed
=============================================================================
