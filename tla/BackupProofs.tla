---------------------------- MODULE BackupProofs ----------------------------
(***************************************************************************)
(* What holds of the object store and its backups for every set of files   *)
(* and uploads and every number of backups.                                *)
(*                                                                         *)
(* The three invariants lean on each other: a restore is whole because the *)
(* pair it takes is complete, a pair is complete because what was in the   *)
(* database was on disk, and a parse sees half a file only where two       *)
(* uploads met.  SoundFile says of one file what all of that needs, as     *)
(* long as no write of it was cut off and no restore was mixed.            *)
(***************************************************************************)
EXTENDS Backup, WellFoundedInduction, TLAPS

\* Uploads that are done with the object and have yet to commit.
HoldersOf(f) == {u \in Uploads : At(u, "stored") /\ upload[u].file = f}

\* A path that holds part of a file is being written by a stream that will
\* complete it; what is stored or committed is there.
OnDisk(f) ==
  /\ object[f] = "partial" => \E u \in WritersOf(f) : upload[u].full
  /\ WritersOf(f) # {} \/ f \in rows \/ HoldersOf(f) # {} =>
       object[f] # "absent"

\* Where two have the file in hand it is marked.
Marked(f) ==
  /\ f \in rows /\ WritersOf(f) # {} => f \in shared
  /\ \A u \in WritersOf(f), v \in WritersOf(f) \cup HoldersOf(f) :
       u # v => f \in shared
  /\ reading[f] # "none" => f \in rows
  /\ reading[f] = "partial" \/ parsed[f] = "partial" => f \in shared

\* An archive that has part of a file was made in the middle of a write; of the
\* files in the dump it has all that it has come to, and in the end every one.
Archived(f) ==
  /\ \A x \in tars :
       x.objects[f] # "partial" /\ (x.whole => x.objects[f] # "unread")
  /\ \A d \in dumps, x \in tars : d.stamp = x.stamp /\ f \in d.rows =>
       x.objects[f] \in {"whole", "unread"}

SoundFile(f) == (step # "restored db" => OnDisk(f)) /\ Marked(f) /\ Archived(f)

StoreInv == ~mixed => \A f \in Files \ cut : SoundFile(f)

\* The dump of a backup under way has rows that are still there.
StampsInv ==
  /\ \A d \in dumps : d.stamp <= taken
  /\ \A x \in tars : x.stamp <= taken
  /\ BackingUp => /\ taken > 0
                  /\ \A d \in dumps : d.stamp = taken => d.rows \subseteq rows

\* A restore that is half done has the rows of its dump, and nothing runs.
RestoreInv ==
  step = "restored db" =>
    /\ Stopped
    /\ restored.db # 0
    /\ \E d \in dumps : d.stamp = restored.db /\ rows = d.rows

IInv == TypeOK /\ StoreInv /\ StampsInv /\ RestoreInv

-----------------------------------------------------------------------------
(* Types.                                                                    *)

LEMMA GreatestStamp ==
  ASSUME NEW S \in SUBSET Stamps, S # {}
  PROVE  \E k \in S : \A j \in S : j <= k
<1> DEFINE R == OpToRel(<, Nat)
           T == {MaxBackups - k : k \in S}
<1>1. IsWellFoundedOn(R, Nat)
  BY NatLessThanWellFounded
<1>2. \A m, n \in Nat : m < n => <<m, n>> \in R
  BY DEF OpToRel
<1>3. T \in SUBSET Nat /\ T # {}
  <2>1. \A k \in S : MaxBackups - k \in Nat
    BY BackupAssumption DEF Stamps
  <2> QED
    BY <2>1
<1> HIDE DEF R, T
<1>4. PICK t \in T : \A m \in T : ~(<<m, t>> \in R)
  BY <1>1, <1>3, WFMin
<1>5. PICK k \in S : t = MaxBackups - k
  BY <1>4 DEF T
<1>6. ASSUME NEW j \in S PROVE j <= k
  <2>1. MaxBackups - j \in T /\ MaxBackups - j \in Nat /\ t \in Nat
    BY <1>3, <1>4 DEF T
  <2>2. ~(MaxBackups - j < t)
    BY <1>2, <1>4, <2>1
  <2> QED
    BY <1>5, <2>2, BackupAssumption DEF Stamps
<1> QED
  BY <1>6

LEMMA NewestIsStamp ==
  ASSUME NEW files, \A x \in files : x.stamp \in Stamps
  PROVE  Newest(files) \in 0..MaxBackups
<1>1. CASE files = {}
  BY <1>1, BackupAssumption DEF Newest
<1>2. CASE files # {}
  <2>1. StampsOf(files) \in SUBSET Stamps /\ StampsOf(files) # {}
    BY <1>2 DEF StampsOf
  <2>2. PICK k \in StampsOf(files) : \A j \in StampsOf(files) : j <= k
    BY <2>1, GreatestStamp
  <2>3. \A x \in files : x.stamp <= k
    BY <2>2 DEF StampsOf
  <2>4. (CHOOSE m \in StampsOf(files) : \A x \in files : x.stamp <= m) \in StampsOf(files)
    BY <2>3
  <2> QED
    BY <1>2, <2>1, <2>4, BackupAssumption DEF Newest, Stamps
<1> QED
  BY <1>1, <1>2

LEMMA PairIsStamps ==
  ASSUME TypeOK, NEW p \in Pairs
  PROVE  p \in [db : 0..MaxBackups, uploads : 0..MaxBackups]
<1>1. \A d \in dumps : d.stamp \in Stamps
  BY DEF TypeOK, Dump
<1>2. \A x \in tars : x.stamp \in Stamps
  BY DEF TypeOK, Tar
<1>3. LatestPair \in [db : 0..MaxBackups, uploads : 0..MaxBackups]
  BY <1>1, <1>2, NewestIsStamp DEF LatestPair
<1>4. StampsOf(dumps) \subseteq 0..MaxBackups
  BY <1>1, BackupAssumption DEF StampsOf, Stamps
<1> QED
  BY <1>3, <1>4 DEF Pairs

\* An upload under way, and the streams of a file.
LEMMA UploadIsTyped ==
  ASSUME StoreTypeOK, NEW u \in Uploads, NEW s, At(u, s)
  PROVE  upload[u] \in Upload /\ upload[u].file \in Files
  BY DEF StoreTypeOK, At, Upload

LEMMA SpoilsType ==
  ASSUME StoreTypeOK, NEW f \in Files
  PROVE  /\ Spoils(f) \in [Uploads -> Upload \cup {Idle}]
         /\ \A v \in Uploads :
              /\ Spoils(f)[v] = Idle <=> upload[v] = Idle
              /\ upload[v] # Idle => /\ Spoils(f)[v].file = upload[v].file
                                     /\ Spoils(f)[v].step = upload[v].step
              /\ v \notin WritersOf(f) => Spoils(f)[v] = upload[v]
<1>1. ASSUME NEW v \in WritersOf(f)
      PROVE  /\ [upload[v] EXCEPT !.full = FALSE] \in Upload
             /\ [upload[v] EXCEPT !.full = FALSE].file = upload[v].file
             /\ [upload[v] EXCEPT !.full = FALSE].step = upload[v].step
  <2>1. upload[v] \in Upload
    BY <1>1 DEF WritersOf, At, StoreTypeOK
  <2> QED
    BY <2>1 DEF Upload
<1> QED
  BY <1>1, ObjectStoreAssumption DEF Spoils, StoreTypeOK, WritersOf, At

LEMMA StoreTypeStep == StoreTypeOK /\ StoreNext => StoreTypeOK'
<1> SUFFICES ASSUME StoreTypeOK, StoreNext PROVE StoreTypeOK'
  OBVIOUS
<1> USE DEF StoreTypeOK
<1>1. ASSUME NEW u \in Uploads, NEW f \in Files, Begin(u, f) PROVE StoreTypeOK'
  BY <1>1 DEF Begin, Upload
<1>2. ASSUME NEW u \in Uploads, Exists(u) \/ FinishWrite(u) PROVE StoreTypeOK'
  <2>1. upload[u] \in Upload /\ upload[u].file \in Files
    BY <1>2, UploadIsTyped DEF Exists, FinishWrite
  <2> QED
    BY <1>2, <2>1 DEF Exists, FinishWrite, GoesTo, AfterExists, Upload, Object
<1>3. ASSUME NEW u \in Uploads, OpenWrite(u) PROVE StoreTypeOK'
  <2>1. upload[u].file \in Files
    BY <1>3, UploadIsTyped DEF OpenWrite
  <2>2. Spoils(upload[u].file) \in [Uploads -> Upload \cup {Idle}]
    BY <2>1, SpoilsType
  <2>3. [file |-> upload[u].file, step |-> "write", full |-> TRUE] \in Upload
    BY <2>1 DEF Upload
  <2>4. upload' \in [Uploads -> Upload \cup {Idle}]
    BY <1>3, <2>2, <2>3 DEF OpenWrite
  <2> QED
    BY <1>3, <2>1, <2>4 DEF OpenWrite, Object, Seen
<1>4. ASSUME NEW u \in Uploads, FailWrite(u) PROVE StoreTypeOK'
  <2>1. upload[u].file \in Files
    BY <1>4, UploadIsTyped DEF FailWrite
  <2>2. Spoils(upload[u].file) \in [Uploads -> Upload \cup {Idle}]
    BY <2>1, SpoilsType
  <2>3. upload' \in [Uploads -> Upload \cup {Idle}]
    BY <1>4, <2>2 DEF FailWrite
  <2> QED
    BY <1>4, <2>1, <2>3 DEF FailWrite, Object
<1>5. ASSUME NEW u \in Uploads, Commit(u) \/ Rollback(u) PROVE StoreTypeOK'
  <2>1. upload[u].file \in Files
    BY <1>5, UploadIsTyped DEF Commit, Rollback, Returned
  <2> QED
    BY <1>5, <2>1 DEF Commit, Rollback
<1>6. ASSUME NEW f \in Files, BeginRead(f) PROVE StoreTypeOK'
  BY <1>6 DEF BeginRead, Gets, Object, Seen
<1>7. ASSUME NEW f \in Files, FinishRead(f) PROVE StoreTypeOK'
  BY <1>7 DEF FinishRead, Seen
<1>8. CASE Crash
  BY <1>8 DEF Crash, Seen
<1> QED
  BY <1>1, <1>2, <1>3, <1>4, <1>5, <1>6, <1>7, <1>8 DEF StoreNext

LEMMA ScriptIs == /\ Script[1] = "dump" /\ Script[2] = "tar"
                  /\ \A k : OpenedDump("dump", k) =
                             {[stamp |-> k, rows |-> rows, whole |-> FALSE]}
                  /\ \A k : OpenedDump("tar", k) = {}
                  /\ \A k : OpenedTar("tar", k) =
                             {[stamp |-> k, objects |-> [f \in Files |-> "unread"],
                               whole |-> FALSE]}
                  /\ \A k : OpenedTar("dump", k) = {}
  BY DEF Script, OpenedDump, OpenedTar

\* A file that is closed keeps its stamp and its content.
LEMMA ClosedDumps ==
  ASSUME TypeOK
  PROVE  /\ Closed(dumps) \subseteq Dump
         /\ \A d \in Closed(dumps) : \E e \in dumps : d.stamp = e.stamp /\ d.rows = e.rows
<1>1. ASSUME NEW e \in Dump
      PROVE  /\ [e EXCEPT !.whole = TRUE] \in Dump
             /\ [e EXCEPT !.whole = TRUE].stamp = e.stamp
             /\ [e EXCEPT !.whole = TRUE].rows = e.rows
  BY <1>1 DEF Dump
<1> QED
  BY <1>1 DEF Closed, TypeOK

LEMMA ClosedTars ==
  ASSUME TypeOK
  PROVE  /\ Closed(tars) \subseteq Tar
         /\ \A x \in Closed(tars) : \E y \in tars :
              /\ x.stamp = y.stamp /\ x.objects = y.objects
              /\ x.whole => y.whole \/ y.stamp = taken
<1>1. ASSUME NEW y \in Tar
      PROVE  /\ [y EXCEPT !.whole = TRUE] \in Tar
             /\ [y EXCEPT !.whole = TRUE].stamp = y.stamp
             /\ [y EXCEPT !.whole = TRUE].objects = y.objects
  BY <1>1 DEF Tar
<1> QED
  BY <1>1 DEF Closed, TypeOK

\* tar comes to one object.
LEMMA ArchivedObject ==
  ASSUME TypeOK, NEW g \in Files, NEW x \in tars
  PROVE  LET y == [x EXCEPT !.objects[g] = object[g]]
         IN  /\ y \in Tar /\ y.stamp = x.stamp /\ y.whole = x.whole
             /\ y.objects[g] = object[g]
             /\ \A f \in Files \ {g} : y.objects[f] = x.objects[f]
<1>1. x \in Tar /\ object[g] \in Object
  BY DEF TypeOK, StoreTypeOK
<1> QED
  BY <1>1 DEF Tar

LEMMA TypeStep == IInv /\ [Next]_vars => TypeOK'
<1> SUFFICES ASSUME TypeOK, StampsInv, [Next]_vars PROVE TypeOK'
  BY DEF IInv
<1> DEFINE dump(k) == [stamp |-> k, rows |-> rows, whole |-> FALSE]
           tar(k) == [stamp |-> k, objects |-> [f \in Files |-> "unread"], whole |-> FALSE]
<1>a. taken \in 0..MaxBackups /\ rows \subseteq Files /\ object \in [Files -> Object]
      /\ dumps \subseteq Dump /\ tars \subseteq Tar /\ cut \subseteq Files
  BY DEF TypeOK, StoreTypeOK
<1>b. \A k \in Stamps : dump(k) \in Dump /\ tar(k) \in Tar
  BY <1>a DEF Dump, Tar
<1>1. ASSUME StoreNext, UNCHANGED backupVars PROVE TypeOK'
  BY <1>1, StoreTypeStep DEF TypeOK, backupVars
<1>2. CASE BeginBackup
  <2>1. taken + 1 \in 1..MaxBackups
    <3>1. taken < MaxBackups
      BY <1>2 DEF BeginBackup
    <3> QED
      BY <1>a, <3>1, BackupAssumption
  <2>2. dumps' \subseteq Dump /\ tars' \subseteq Tar
    <3>1. dumps' = dumps \cup {dump(taken + 1)} /\ tars' = tars
      BY <1>2, ScriptIs DEF BeginBackup
    <3> QED
      BY <1>a, <1>b, <2>1, <3>1 DEF Stamps
  <2>3. taken' \in 0..MaxBackups
    <3>1. taken' = taken + 1
      BY <1>2 DEF BeginBackup
    <3> QED
      BY <2>1, <3>1, BackupAssumption
  <2> QED
    BY <1>2, <2>2, <2>3 DEF BeginBackup, TypeOK, StoreTypeOK, storeVars
<1>3. ASSUME NEW f \in Files, ArchiveObject(f) PROVE TypeOK'
  <2>1. PICK x \in tars : tars' = (tars \ {x}) \cup {[x EXCEPT !.objects[f] = object[f]]}
    BY <1>3 DEF ArchiveObject
  <2>2. tars' \subseteq Tar
    BY <1>a, <2>1, ArchivedObject
  <2>3. cut' \subseteq Files
    BY <1>3, <1>a DEF ArchiveObject
  <2> QED
    BY <1>3, <2>2, <2>3 DEF ArchiveObject, TypeOK, StoreTypeOK
<1>4. CASE NextFile
  <2>1. taken \in Stamps
    <3>1. taken > 0
      BY <1>4 DEF NextFile, StampsInv, BackingUp
    <3> QED
      BY <1>a, <3>1, BackupAssumption DEF Stamps
  <2>2. dumps' = Closed(dumps) /\ tars' \subseteq Closed(tars) \cup {tar(taken)}
    BY <1>4, ScriptIs DEF NextFile
  <2>3. dumps' \subseteq Dump /\ tars' \subseteq Tar
    BY <1>b, <2>1, <2>2, ClosedDumps, ClosedTars
  <2> QED
    BY <1>4, <2>3 DEF NextFile, TypeOK, StoreTypeOK, storeVars
<1>5. CASE FinishBackup
  <2>1. dumps' \subseteq Dump /\ tars' \subseteq Tar
    BY <1>5, ClosedDumps, ClosedTars DEF FinishBackup, Since
  <2> QED
    BY <1>5, <2>1 DEF FinishBackup, TypeOK, StoreTypeOK, storeVars
<1>6. CASE StopBackup
  BY <1>6 DEF StopBackup, storeVars, TypeOK, StoreTypeOK
<1>7. ASSUME NEW p \in Pairs, RestoreDatabase(p) PROVE TypeOK'
  <2>1. restored' \in [db : 0..MaxBackups, uploads : 0..MaxBackups]
    BY <1>7, PairIsStamps DEF RestoreDatabase
  <2>2. rows' \subseteq Files
    BY <1>7 DEF RestoreDatabase, TypeOK, Dump
  <2> QED
    BY <1>7, <2>1, <2>2 DEF RestoreDatabase, TypeOK, StoreTypeOK
<1>8. ASSUME NEW p \in Pairs, RestoreCutDump(p) PROVE TypeOK'
  <2>1. rows' \subseteq Files
    BY <1>a, <1>8 DEF RestoreCutDump, Dump
  <2>2. mixed' \in BOOLEAN
    BY <1>8 DEF RestoreCutDump
  <2> QED
    BY <1>8, <2>1, <2>2 DEF RestoreCutDump, TypeOK, StoreTypeOK
<1>9. CASE RestoreUploads
  <2>1. object' \in [Files -> Object]
    BY <1>9, <1>a DEF RestoreUploads, Extracted
  <2>2. mixed' \in BOOLEAN
    BY <1>9 DEF RestoreUploads
  <2>3. restored' \in [db : 0..MaxBackups, uploads : 0..MaxBackups]
    <3>1. restored' = [db |-> 0, uploads |-> 0]
      BY <1>9 DEF RestoreUploads
    <3> QED
      BY <3>1, BackupAssumption
  <2> QED
    BY <1>9, <2>1, <2>2, <2>3 DEF RestoreUploads, TypeOK, StoreTypeOK
<1>10. CASE UNCHANGED vars
  BY <1>10 DEF vars, storeVars, backupVars, TypeOK, StoreTypeOK
<1> QED
  BY <1>1, <1>2, <1>3, <1>4, <1>5, <1>6, <1>7, <1>8, <1>9, <1>10 DEF Next

-----------------------------------------------------------------------------
(* One file through a step of the store.                                     *)

\* Nothing happens to the file, but that an upload may let go of it.
Kept(f) ==
  /\ WritersOf(f)' = WritersOf(f) /\ HoldersOf(f)' \subseteq HoldersOf(f)
  /\ \A v \in WritersOf(f) : upload'[v] = upload[v]
  /\ object'[f] = object[f] /\ reading'[f] = reading[f] /\ parsed'[f] = parsed[f]
  /\ f \in rows' <=> f \in rows
  /\ shared \subseteq shared'

LEMMA KeptIsSound ==
  ASSUME NEW f \in Files, OnDisk(f), Marked(f), Kept(f)
  PROVE  OnDisk(f)' /\ Marked(f)'
<1>1. OnDisk(f)'
  BY DEF Kept, OnDisk
<1>2. Marked(f)'
  BY DEF Kept, Marked
<1> QED
  BY <1>1, <1>2

\* Of the uploads that have a file in hand, only the one that steps may change.
LEMMA OthersUnmoved ==
  ASSUME NEW u \in Uploads, \A v \in Uploads \ {u} : upload'[v] = upload[v],
         NEW f \in Files
  PROVE  /\ WritersOf(f)' \ {u} = WritersOf(f) \ {u}
         /\ HoldersOf(f)' \ {u} = HoldersOf(f) \ {u}
         /\ \A v \in WritersOf(f) \ {u} : upload'[v] = upload[v]
  BY DEF WritersOf, HoldersOf, At

LEMMA BeginSound ==
  ASSUME TypeOK, NEW u \in Uploads, NEW g \in Files, Begin(u, g),
         NEW f \in Files, OnDisk(f), Marked(f)
  PROVE  OnDisk(f)' /\ Marked(f)'
<1>1. /\ \A v \in Uploads \ {u} : upload'[v] = upload[v]
      /\ upload[u] = Idle /\ upload'[u] = [file |-> g, step |-> "found", full |-> FALSE]
      /\ UNCHANGED <<object, rows, reading, parsed, shared>>
  BY DEF Begin, TypeOK, StoreTypeOK
<1>2. u \notin WritersOf(f) /\ u \notin WritersOf(f)' /\ u \notin HoldersOf(f)'
  BY <1>1 DEF WritersOf, HoldersOf, At
<1>3. /\ WritersOf(f)' = WritersOf(f) /\ HoldersOf(f)' \subseteq HoldersOf(f)
      /\ \A v \in WritersOf(f) : upload'[v] = upload[v]
  BY <1>1, <1>2, OthersUnmoved
<1>4. Kept(f)
  BY <1>1, <1>3 DEF Kept
<1> QED
  BY <1>4, KeptIsSound

LEMMA ExistsSound ==
  ASSUME TypeOK, NEW u \in Uploads, Exists(u),
         NEW f \in Files, OnDisk(f), Marked(f)
  PROVE  OnDisk(f)' /\ Marked(f)'
<1> DEFINE s == AfterExists(u)
<1>1. /\ upload[u] \in Upload /\ upload[u].step = "found" /\ upload[u] # Idle
      /\ \A v \in Uploads \ {u} : upload'[v] = upload[v]
      /\ s \in {"open", "stored"}
      /\ UNCHANGED <<object, rows, reading, parsed>> /\ shared \subseteq shared'
  BY DEF Exists, GoesTo, AfterExists, At, TypeOK, StoreTypeOK
<1>2. upload'[u].file = upload[u].file /\ upload'[u].step = s /\ upload'[u] # Idle
  <2>1. upload'[u] = [upload[u] EXCEPT !.step = s]
    BY DEF Exists, GoesTo, TypeOK, StoreTypeOK
  <2> QED
    BY <1>1, <2>1, ObjectStoreAssumption DEF Upload
<1>3. u \notin WritersOf(f) /\ u \notin WritersOf(f)' /\ u \notin HoldersOf(f)
  BY <1>1, <1>2 DEF WritersOf, HoldersOf, At
<1>4. /\ WritersOf(f)' = WritersOf(f) /\ HoldersOf(f)' \subseteq HoldersOf(f) \cup {u}
      /\ \A v \in WritersOf(f) : upload'[v] = upload[v]
  BY <1>1, <1>3, OthersUnmoved
<1>5. CASE u \in HoldersOf(f)'
  <2>1. s = "stored" /\ upload[u].file = f
    BY <1>2, <1>5 DEF HoldersOf, At
  <2>2. object[f] # "absent" /\ (WritersOf(f) # {} => f \in shared')
    BY <2>1 DEF AfterExists, Exists
  <2>3. OnDisk(f)'
    BY <1>1, <1>4, <2>2 DEF OnDisk
  <2>4. Marked(f)'
    BY <1>1, <1>4, <2>2 DEF Marked
  <2> QED
    BY <2>3, <2>4
<1>6. CASE u \notin HoldersOf(f)'
  <2>1. Kept(f)
    BY <1>1, <1>4, <1>6 DEF Kept
  <2> QED
    BY <2>1, KeptIsSound
<1> QED
  BY <1>5, <1>6

\* The path is emptied, and this stream alone will make it whole.
LEMMA OpenWriteSound ==
  ASSUME TypeOK, NEW u \in Uploads, OpenWrite(u),
         NEW f \in Files, OnDisk(f), Marked(f)
  PROVE  OnDisk(f)' /\ Marked(f)'
<1>1. PICK g \in Files : g = upload[u].file
  BY UploadIsTyped DEF OpenWrite, TypeOK
<1>2. /\ upload[u] # Idle /\ upload[u].step = "open"
      /\ object'[g] = "partial" /\ \A c \in Files \ {g} : object'[c] = object[c]
      /\ reading'[g] = (IF reading[g] = "none" THEN "none" ELSE "partial")
      /\ \A c \in Files \ {g} : reading'[c] = reading[c]
      /\ shared' = IF object[g] = "absent" THEN shared ELSE shared \cup {g}
      /\ UNCHANGED <<rows, parsed>>
  BY <1>1 DEF OpenWrite, At, TypeOK, StoreTypeOK
<1>3. upload' = [Spoils(g) EXCEPT ![u] = [file |-> g, step |-> "write", full |-> TRUE]]
  BY <1>1 DEF OpenWrite
<1>4. \A v \in Uploads \ {u} :
        /\ upload'[v] = Idle <=> upload[v] = Idle
        /\ upload[v] # Idle => /\ upload'[v].file = upload[v].file
                               /\ upload'[v].step = upload[v].step
        /\ v \notin WritersOf(g) => upload'[v] = upload[v]
  BY <1>3, SpoilsType DEF TypeOK
<1>5. upload'[u] = [file |-> g, step |-> "write", full |-> TRUE] /\ upload'[u] # Idle
  <2>1. Spoils(g) \in [Uploads -> Upload \cup {Idle}]
    BY SpoilsType DEF TypeOK
  <2>2. [file |-> g, step |-> "write", full |-> TRUE] \in Upload
    BY DEF Upload
  <2> QED
    BY <1>3, <2>1, <2>2, ObjectStoreAssumption
<1>6. /\ u \notin WritersOf(f) /\ u \notin HoldersOf(f) /\ u \notin HoldersOf(f)'
      /\ u \in WritersOf(f)' <=> f = g
  BY <1>2, <1>5 DEF WritersOf, HoldersOf, At
<1>7. WritersOf(f)' \ {u} = WritersOf(f) \ {u} /\ HoldersOf(f)' \ {u} = HoldersOf(f) \ {u}
  BY <1>4 DEF WritersOf, HoldersOf, At
<1>8. HoldersOf(f)' = HoldersOf(f) /\ WritersOf(f)' \subseteq WritersOf(f) \cup {u}
  BY <1>6, <1>7
<1>9. CASE f # g
  <2>1. \A v \in WritersOf(f) : v \in Uploads /\ v \notin WritersOf(g)
    BY <1>9 DEF WritersOf
  <2>2. WritersOf(f)' = WritersOf(f) /\ \A v \in WritersOf(f) : upload'[v] = upload[v]
    BY <1>4, <1>6, <1>7, <1>9, <2>1
  <2>3. Kept(f)
    BY <1>2, <1>8, <1>9, <2>2 DEF Kept
  <2> QED
    BY <2>3, KeptIsSound
<1>10. CASE f = g
  <2>1. object'[f] = "partial" /\ u \in WritersOf(f)' /\ upload'[u].full
    BY <1>2, <1>5, <1>6, <1>10
  <2>2. OnDisk(f)'
    BY <2>1 DEF OnDisk
  <2>3. object[f] # "absent" => f \in shared'
    BY <1>2, <1>10
  <2>4. f \in rows \/ WritersOf(f) # {} \/ HoldersOf(f) # {} => f \in shared'
    BY <2>3 DEF OnDisk
  <2>5. ASSUME NEW x \in WritersOf(f)', NEW v \in WritersOf(f)' \cup HoldersOf(f)', x # v
        PROVE  f \in shared'
    BY <1>8, <2>4, <2>5
  <2>6. (reading'[f] # "none" => f \in rows') /\ (reading'[f] = "partial" => f \in shared')
    <3>1. reading'[f] # "none" => reading[f] # "none"
      BY <1>2, <1>10
    <3> QED
      BY <1>2, <2>4, <3>1 DEF Marked
  <2>7. parsed'[f] = "partial" => f \in shared'
    BY <1>2 DEF Marked
  <2>8. Marked(f)'
    BY <1>2, <2>4, <2>5, <2>6, <2>7 DEF Marked
  <2> QED
    BY <2>2, <2>8
<1> QED
  BY <1>9, <1>10

LEMMA FinishWriteSound ==
  ASSUME TypeOK, NEW u \in Uploads, FinishWrite(u),
         NEW f \in Files, OnDisk(f), Marked(f)
  PROVE  OnDisk(f)' /\ Marked(f)'
<1>1. /\ upload[u] \in Upload /\ upload[u] # Idle /\ upload[u].step = "write"
      /\ upload[u].file \in Files
      /\ \A v \in Uploads \ {u} : upload'[v] = upload[v]
      /\ UNCHANGED <<rows, reading, parsed, shared>>
  BY UploadIsTyped DEF FinishWrite, GoesTo, At, TypeOK, StoreTypeOK
<1>2. /\ upload'[u].file = upload[u].file /\ upload'[u].step = "stored"
      /\ upload'[u] # Idle
  <2>1. upload'[u] = [upload[u] EXCEPT !.step = "stored"]
    BY DEF FinishWrite, GoesTo, TypeOK, StoreTypeOK
  <2> QED
    BY <1>1, <2>1, ObjectStoreAssumption DEF Upload
<1>3. u \notin WritersOf(f)' /\ u \notin HoldersOf(f)
      /\ (u \in HoldersOf(f)' <=> u \in WritersOf(f))
  BY <1>1, <1>2 DEF WritersOf, HoldersOf, At
<1>4. /\ WritersOf(f)' = WritersOf(f) \ {u}
      /\ HoldersOf(f)' = HoldersOf(f) \cup (WritersOf(f) \cap {u})
      /\ \A v \in WritersOf(f) \ {u} : upload'[v] = upload[v]
  BY <1>1, <1>3, OthersUnmoved
<1>5. CASE u \notin WritersOf(f)
  <2>1. upload[u].file # f
    BY <1>1, <1>5 DEF WritersOf, At
  <2>2. object'[f] = object[f]
    BY <1>1, <2>1 DEF FinishWrite, TypeOK, StoreTypeOK
  <2>3. Kept(f)
    BY <1>1, <1>4, <1>5, <2>2 DEF Kept
  <2> QED
    BY <2>3, KeptIsSound
<1>6. CASE u \in WritersOf(f)
  <2>1. upload[u].file = f /\ object[f] # "absent"
    BY <1>6 DEF WritersOf, OnDisk
  <2>2. object'[f] = IF upload[u].full THEN "whole" ELSE object[f]
    BY <2>1 DEF FinishWrite, TypeOK, StoreTypeOK
  <2>3. OnDisk(f)'
    BY <1>4, <2>1, <2>2 DEF OnDisk
  <2>4. Marked(f)'
    BY <1>1, <1>4, <1>6 DEF Marked
  <2> QED
    BY <2>3, <2>4
<1> QED
  BY <1>5, <1>6

\* The removal of the path is marked; other files do not notice.
LEMMA FailWriteSound ==
  ASSUME TypeOK, NEW u \in Uploads, FailWrite(u),
         NEW f \in Files, f \notin cut', OnDisk(f), Marked(f)
  PROVE  OnDisk(f)' /\ Marked(f)'
<1>1. PICK g \in Files : g = upload[u].file
  BY UploadIsTyped DEF FailWrite, TypeOK
<1>2. /\ f # g /\ upload' = [Spoils(g) EXCEPT ![u] = Idle]
      /\ object'[f] = object[f] /\ UNCHANGED <<rows, reading, parsed, shared>>
  BY <1>1 DEF FailWrite, TypeOK, StoreTypeOK
<1>3. /\ upload'[u] = Idle
      /\ \A v \in Uploads \ {u} :
           /\ upload'[v] = Idle <=> upload[v] = Idle
           /\ upload[v] # Idle => /\ upload'[v].file = upload[v].file
                                  /\ upload'[v].step = upload[v].step
           /\ v \notin WritersOf(g) => upload'[v] = upload[v]
  BY <1>2, SpoilsType DEF TypeOK
<1>4. /\ u \notin WritersOf(f) /\ u \notin WritersOf(f)' /\ u \notin HoldersOf(f)'
      /\ WritersOf(f)' \ {u} = WritersOf(f) \ {u} /\ HoldersOf(f)' \ {u} = HoldersOf(f) \ {u}
  BY <1>1, <1>2, <1>3 DEF WritersOf, HoldersOf, At
<1>5. \A v \in WritersOf(f) : v \in Uploads /\ v \notin WritersOf(g)
  BY <1>2 DEF WritersOf
<1>6. WritersOf(f)' = WritersOf(f) /\ HoldersOf(f)' \subseteq HoldersOf(f)
  BY <1>4
<1>7. \A v \in WritersOf(f) : upload'[v] = upload[v]
  BY <1>3, <1>4, <1>5
<1>8. Kept(f)
  BY <1>2, <1>6, <1>7 DEF Kept
<1> QED
  BY <1>8, KeptIsSound

LEMMA CommitSound ==
  ASSUME TypeOK, NEW u \in Uploads, Commit(u) \/ Rollback(u),
         NEW f \in Files, OnDisk(f), Marked(f)
  PROVE  OnDisk(f)' /\ Marked(f)'
<1>1. /\ upload[u] # Idle /\ upload[u].step = "stored" /\ upload'[u] = Idle
      /\ \A v \in Uploads \ {u} : upload'[v] = upload[v]
      /\ UNCHANGED <<object, reading, parsed, shared>>
      /\ rows \subseteq rows' /\ rows' \subseteq rows \cup {upload[u].file}
  BY DEF Commit, Rollback, Returned, At, TypeOK, StoreTypeOK
<1>2. u \notin WritersOf(f) /\ u \notin WritersOf(f)' /\ u \notin HoldersOf(f)'
  BY <1>1 DEF WritersOf, HoldersOf, At
<1>3. /\ WritersOf(f)' = WritersOf(f) /\ HoldersOf(f)' \subseteq HoldersOf(f)
      /\ \A v \in WritersOf(f) : upload'[v] = upload[v]
  BY <1>1, <1>2, OthersUnmoved
<1>4. CASE f \in rows' /\ f \notin rows
  <2>1. u \in HoldersOf(f)
    BY <1>1, <1>4 DEF HoldersOf, At
  <2>2. OnDisk(f)'
    BY <1>1, <1>3, <2>1 DEF OnDisk
  <2>3. Marked(f)'
    BY <1>1, <1>2, <1>3, <1>4, <2>1 DEF Marked
  <2> QED
    BY <2>2, <2>3
<1>5. CASE ~(f \in rows' /\ f \notin rows)
  <2>1. Kept(f)
    BY <1>1, <1>3, <1>5 DEF Kept
  <2> QED
    BY <2>1, KeptIsSound
<1> QED
  BY <1>4, <1>5

\* The job finds half a file only while it is being written.
LEMMA ReadSound ==
  ASSUME TypeOK, NEW g \in Files, BeginRead(g) \/ FinishRead(g),
         NEW f \in Files, OnDisk(f), Marked(f)
  PROVE  OnDisk(f)' /\ Marked(f)'
<1>1. UNCHANGED <<object, rows, upload, shared>>
  BY DEF BeginRead, FinishRead
<1>2. WritersOf(f)' = WritersOf(f) /\ HoldersOf(f)' = HoldersOf(f)
  BY <1>1 DEF WritersOf, HoldersOf, At
<1>3. OnDisk(f)'
  BY <1>1, <1>2 DEF OnDisk
<1>4. reading'[f] # "none" => f \in rows
  BY DEF BeginRead, FinishRead, Marked, TypeOK, StoreTypeOK
<1>5. parsed'[f] = "partial" => f \in shared
  BY DEF BeginRead, FinishRead, Marked, TypeOK, StoreTypeOK
<1>6. reading'[f] = "partial" => f \in shared
  <2>1. object[f] = "partial" /\ f \in rows => f \in shared
    BY DEF OnDisk, Marked
  <2> QED
    BY <2>1 DEF BeginRead, FinishRead, Marked, TypeOK, StoreTypeOK
<1>7. Marked(f)'
  BY <1>1, <1>2, <1>4, <1>5, <1>6 DEF Marked
<1> QED
  BY <1>3, <1>7

LEMMA CrashSound ==
  ASSUME TypeOK, Crash,
         NEW f \in Files, f \notin cut', OnDisk(f), Marked(f)
  PROVE  OnDisk(f)' /\ Marked(f)'
<1>1. /\ UNCHANGED <<object, rows, parsed, shared>> /\ reading'[f] = "none"
      /\ \A u \in Uploads : upload'[u] = Idle
      /\ WritersOf(f) = {}
  BY DEF Crash
<1>2. WritersOf(f)' = {} /\ HoldersOf(f)' = {}
  BY <1>1 DEF WritersOf, HoldersOf, At
<1>3. OnDisk(f)'
  BY <1>1, <1>2 DEF OnDisk
<1>4. Marked(f)'
  BY <1>1, <1>2 DEF Marked
<1> QED
  BY <1>3, <1>4

LEMMA StoreSound ==
  ASSUME TypeOK, StoreNext, NEW f \in Files, f \notin cut', OnDisk(f), Marked(f)
  PROVE  OnDisk(f)' /\ Marked(f)'
<1>1. ASSUME NEW u \in Uploads,
             Exists(u) \/ OpenWrite(u) \/ FinishWrite(u)
               \/ FailWrite(u) \/ Commit(u) \/ Rollback(u)
      PROVE  OnDisk(f)' /\ Marked(f)'
  BY <1>1, ExistsSound, OpenWriteSound, FinishWriteSound, FailWriteSound, CommitSound
<1> QED
  BY <1>1, BeginSound, ReadSound, CrashSound DEF StoreNext

LEMMA CutStays == StoreNext => cut \subseteq cut' /\ rows \subseteq rows'
  BY DEF StoreNext, Begin, Exists, OpenWrite, FinishWrite, FailWrite, Commit, Rollback,
     BeginRead, FinishRead, Crash

-----------------------------------------------------------------------------
(* The scripts.                                                              *)

LEMMA DiskIsSame ==
  ASSUME UNCHANGED <<object, rows, upload, reading, parsed, shared>>, NEW f
  PROVE  (OnDisk(f) => OnDisk(f)') /\ (Marked(f) => Marked(f)')
<1>1. WritersOf(f)' = WritersOf(f) /\ HoldersOf(f)' = HoldersOf(f)
  BY DEF WritersOf, HoldersOf, At
<1> QED
  BY <1>1 DEF OnDisk, Marked

LEMMA StoreStep ==
  ASSUME IInv, step # "restored db", StoreNext, UNCHANGED backupVars
  PROVE  StoreInv' /\ StampsInv' /\ RestoreInv'
<1>1. /\ UNCHANGED <<taken, step, dumps, tars, restored, mixed>>
      /\ cut \subseteq cut' /\ rows \subseteq rows'
  BY CutStays DEF backupVars
<1>2. ASSUME ~mixed, NEW f \in Files \ cut' PROVE SoundFile(f)'
  <2>1. SoundFile(f)
    BY <1>1, <1>2 DEF IInv, StoreInv
  <2>2. OnDisk(f)' /\ Marked(f)'
    BY <1>2, <2>1, StoreSound DEF IInv, SoundFile
  <2>3. Archived(f)'
    BY <1>1, <2>1 DEF SoundFile, Archived
  <2> QED
    BY <2>2, <2>3 DEF SoundFile
<1>3. StoreInv'
  BY <1>1, <1>2 DEF StoreInv
<1>4. StampsInv'
  BY <1>1 DEF IInv, StampsInv, BackingUp
<1>5. RestoreInv'
  BY <1>1 DEF RestoreInv
<1> QED
  BY <1>3, <1>4, <1>5

LEMMA StampsAreNat ==
  ASSUME IInv
  PROVE  /\ taken \in Nat /\ taken <= taken
         /\ \A x \in tars : x.stamp \in Nat
         /\ \A d \in dumps : d.stamp \in Nat
<1>1. taken \in 0..MaxBackups /\ tars \subseteq Tar /\ dumps \subseteq Dump
  BY DEF IInv, TypeOK
<1>2. taken \in Nat
  BY <1>1, BackupAssumption
<1>3. taken <= taken
  BY <1>2
<1>4. \A x \in Tar : x.stamp \in Stamps
  BY DEF Tar
<1>5. \A d \in Dump : d.stamp \in Stamps
  BY DEF Dump
<1>6. Stamps \subseteq Nat
  BY BackupAssumption DEF Stamps
<1> QED
  BY <1>1, <1>2, <1>3, <1>4, <1>5, <1>6

\* A new dump has no archive yet.
LEMMA BeginBackupStep ==
  ASSUME IInv, BeginBackup
  PROVE  StoreInv' /\ StampsInv' /\ RestoreInv'
<1> DEFINE d == [stamp |-> taken + 1, rows |-> rows, whole |-> FALSE]
<1>1. /\ UNCHANGED <<object, rows, upload, reading, parsed, shared, mixed, tars>>
      /\ step = "idle" /\ step' = "first file" /\ taken' = taken + 1
      /\ dumps' = dumps \cup {d} /\ cut' = cut
  BY ScriptIs DEF BeginBackup, storeVars
<1>2. /\ \A x \in tars : x.stamp < taken + 1
      /\ \A e \in dumps : e.stamp < taken + 1
      /\ taken + 1 > 0
  <2>1. /\ \A x \in tars : x.stamp <= taken
        /\ \A e \in dumps : e.stamp <= taken
    BY DEF IInv, StampsInv
  <2> QED
    BY <2>1, StampsAreNat
<1>3. d.stamp = taken + 1 /\ d.rows = rows
  OBVIOUS
<1> HIDE DEF d
<1>4. ASSUME ~mixed, NEW f \in Files \ cut PROVE SoundFile(f)'
  <2>1. OnDisk(f) /\ Marked(f) /\ Archived(f)
    BY <1>1, <1>4 DEF IInv, StoreInv, SoundFile
  <2>2. \A x \in tars : x.stamp # d.stamp
    <3>1. \A n \in Nat : ~(n < n)
      OBVIOUS
    <3>2. taken + 1 \in Nat
      BY StampsAreNat
    <3> QED
      BY <1>2, <1>3, <3>1, <3>2, Zenon
  <2>3. tars' = tars /\ dumps' = dumps \cup {d}
    BY <1>1
  <2>4. Archived(f)'
    BY <2>1, <2>2, <2>3 DEF Archived
  <2> QED
    BY <1>1, <2>1, <2>4, DiskIsSame DEF SoundFile
<1>5. StoreInv'
  BY <1>1, <1>4 DEF StoreInv
<1>6. StampsInv'
  <2>1. tars' = tars /\ dumps' = dumps \cup {d} /\ taken' = taken + 1 /\ rows' = rows
    BY <1>1
  <2>2. \A e \in dumps : e.stamp <= taken + 1 /\ e.stamp # taken + 1
    <3>1. \A m, n \in Nat : m < n => m <= n /\ m # n
      OBVIOUS
    <3>2. taken + 1 \in Nat
      BY StampsAreNat
    <3> QED
      BY <1>2, <3>1, <3>2, StampsAreNat, Zenon
  <2>3. \A x \in tars : x.stamp <= taken + 1
    <3>1. \A m, n \in Nat : m < n => m <= n
      OBVIOUS
    <3>2. taken + 1 \in Nat
      BY StampsAreNat
    <3> QED
      BY <1>2, <3>1, <3>2, StampsAreNat, Zenon
  <2>4. taken + 1 <= taken + 1
    BY StampsAreNat
  <2>5. \A e \in dumps' : e.stamp <= taken' /\ (e.stamp = taken' => e.rows \subseteq rows')
    BY <1>3, <2>1, <2>2, <2>4, Zenon
  <2>6. taken' > 0 /\ \A x \in tars' : x.stamp <= taken'
    BY <1>2, <2>1, <2>3
  <2> QED
    BY <2>5, <2>6 DEF StampsInv
<1>7. RestoreInv'
  BY <1>1 DEF RestoreInv
<1> QED
  BY <1>5, <1>6, <1>7

\* What the dump names is still in the database, and so on disk.
LEMMA ArchiveObjectStep ==
  ASSUME IInv, NEW g \in Files, ArchiveObject(g)
  PROVE  StoreInv' /\ StampsInv' /\ RestoreInv'
<1>1. /\ UNCHANGED <<object, rows, upload, reading, parsed, shared, mixed, taken, step, dumps>>
      /\ BackingUp /\ cut \subseteq cut' /\ (object[g] = "partial" => g \in cut')
  BY DEF ArchiveObject
<1>2. PICK x \in tars :
        /\ x.stamp = taken /\ x.objects[g] = "unread"
        /\ tars' = (tars \ {x}) \cup {[x EXCEPT !.objects[g] = object[g]]}
  BY DEF ArchiveObject
<1> DEFINE y == [x EXCEPT !.objects[g] = object[g]]
<1>3. /\ y.stamp = x.stamp /\ y.whole = x.whole /\ y.objects[g] = object[g]
      /\ \A f \in Files \ {g} : y.objects[f] = x.objects[f]
  BY ArchivedObject DEF IInv
<1>4. tars' = (tars \ {x}) \cup {y}
  BY <1>2
<1> HIDE DEF y
<1>5. ASSUME ~mixed, NEW f \in Files \ cut' PROVE SoundFile(f)'
  <2>1. OnDisk(f) /\ Marked(f) /\ Archived(f)
    BY <1>1, <1>5 DEF IInv, StoreInv, SoundFile, BackingUp
  <2>2. CASE f = g
    <3>1. object[g] # "partial" /\ object[g] \in Object
      BY <1>1, <1>5, <2>2 DEF IInv, TypeOK, StoreTypeOK
    <3>2. ~x.whole
      BY <1>2, <2>1, <2>2 DEF Archived
    <3>3. ASSUME NEW d \in dumps, d.stamp = taken, g \in d.rows PROVE object[g] = "whole"
      <4>1. g \in rows
        BY <1>1, <3>3 DEF IInv, StampsInv
      <4> QED
        BY <2>1, <2>2, <3>1, <4>1 DEF OnDisk, Object
    <3> QED
      BY <1>1, <1>2, <1>3, <1>4, <2>1, <2>2, <3>1, <3>2, <3>3, DiskIsSame
      DEF SoundFile, Archived
  <2>3. CASE f # g
    <3>1. y.objects[f] = x.objects[f]
      BY <1>3, <2>3
    <3>2. Archived(f)'
      BY <1>1, <1>2, <1>3, <1>4, <2>1, <3>1 DEF Archived
    <3> QED
      BY <1>1, <2>1, <3>2, DiskIsSame DEF SoundFile
  <2> QED
    BY <2>2, <2>3
<1>6. StoreInv'
  BY <1>1, <1>5 DEF StoreInv
<1>7. StampsInv'
  BY <1>1, <1>2, <1>3, <1>4 DEF IInv, StampsInv, BackingUp
<1>8. RestoreInv'
  BY <1>1 DEF RestoreInv, BackingUp
<1> QED
  BY <1>6, <1>7, <1>8

\* A dump, or an archive, that goes on or was closed; or the archive just opened.
OfDumps(d) == \E e \in dumps : d.stamp = e.stamp /\ d.rows = e.rows
OfTars(x) == \E y \in tars : /\ x.stamp = y.stamp /\ x.objects = y.objects
                             /\ x.whole => y.whole \/ y.stamp = taken
JustOpened(x) == x.stamp = taken /\ ~x.whole /\ \A f \in Files : x.objects[f] = "unread"

\* An archive that is closed has come to everything, one just opened to nothing.
LEMMA CloseStep ==
  ASSUME IInv, BackingUp, AllArchived, step' \in {"second file", "idle"},
         UNCHANGED <<object, rows, upload, reading, parsed, cut, shared, taken, mixed>>,
         \A d \in dumps' : OfDumps(d), \A x \in tars' : OfTars(x) \/ JustOpened(x)
  PROVE  StoreInv' /\ StampsInv' /\ RestoreInv'
<1>1. ASSUME ~mixed, NEW f \in Files \ cut PROVE SoundFile(f)'
  <2>1. OnDisk(f) /\ Marked(f) /\ Archived(f)
    BY <1>1 DEF IInv, StoreInv, SoundFile, BackingUp
  <2>2. ASSUME NEW x \in tars'
        PROVE  x.objects[f] # "partial" /\ (x.whole => x.objects[f] # "unread")
    <3>1. CASE OfTars(x)
      <4>1. PICK y \in tars : /\ x.stamp = y.stamp /\ x.objects = y.objects
                              /\ x.whole => y.whole \/ y.stamp = taken
        BY <3>1 DEF OfTars
      <4>2. /\ y.objects[f] # "partial"
            /\ y.whole \/ y.stamp = taken => y.objects[f] # "unread"
        BY <2>1 DEF Archived, AllArchived
      <4> QED
        BY <4>1, <4>2
    <3>2. CASE JustOpened(x)
      BY <3>2 DEF JustOpened
    <3> QED
      BY <3>1, <3>2
  <2>3. ASSUME NEW d \in dumps', NEW x \in tars', d.stamp = x.stamp, f \in d.rows
        PROVE  x.objects[f] \in {"whole", "unread"}
    <3>1. PICK e \in dumps : d.stamp = e.stamp /\ d.rows = e.rows
      BY DEF OfDumps
    <3>2. CASE OfTars(x)
      <4>1. PICK y \in tars : x.stamp = y.stamp /\ x.objects = y.objects
        BY <3>2 DEF OfTars
      <4> QED
        BY <2>1, <2>3, <3>1, <4>1, Zenon DEF Archived
    <3>3. CASE JustOpened(x)
      BY <3>3 DEF JustOpened
    <3> QED
      BY <3>2, <3>3
  <2>4. Archived(f)'
    BY <2>2, <2>3 DEF Archived
  <2> QED
    BY <2>1, <2>4, DiskIsSame DEF SoundFile
<1>2. StoreInv'
  BY <1>1 DEF StoreInv
<1>3. StampsInv'
  <2>1. taken > 0
    BY DEF IInv, StampsInv
  <2>2. taken <= taken
    BY StampsAreNat
  <2>3. \A d \in dumps' : d.stamp <= taken
    BY DEF IInv, StampsInv, OfDumps
  <2>4. \A x \in tars' : x.stamp <= taken
    BY <2>2, Zenon DEF IInv, StampsInv, OfTars, JustOpened
  <2>5. \A d \in dumps' : d.stamp = taken => d.rows \subseteq rows
    BY DEF IInv, StampsInv, OfDumps
  <2> QED
    BY <2>1, <2>3, <2>4, <2>5 DEF StampsInv
<1>4. RestoreInv'
  BY DEF RestoreInv
<1> QED
  BY <1>2, <1>3, <1>4

LEMMA NextFileStep ==
  ASSUME IInv, NextFile
  PROVE  StoreInv' /\ StampsInv' /\ RestoreInv'
<1> DEFINE y == [stamp |-> taken, objects |-> [f \in Files |-> "unread"], whole |-> FALSE]
<1>1. dumps' = Closed(dumps) /\ tars' \subseteq Closed(tars) \cup {y}
  BY ScriptIs DEF NextFile
<1>2. JustOpened(y)
  BY DEF JustOpened
<1> HIDE DEF y
<1>3. \A d \in dumps' : OfDumps(d)
  BY <1>1, ClosedDumps DEF IInv, OfDumps
<1>4. \A x \in tars' : OfTars(x) \/ JustOpened(x)
  BY <1>1, <1>2, ClosedTars DEF IInv, OfTars
<1> QED
  BY <1>3, <1>4, CloseStep DEF NextFile, BackingUp, storeVars

LEMMA FinishBackupStep ==
  ASSUME IInv, FinishBackup
  PROVE  StoreInv' /\ StampsInv' /\ RestoreInv'
<1>1. dumps' \subseteq Closed(dumps) /\ tars' \subseteq Closed(tars)
  BY DEF FinishBackup, Since
<1>2. \A d \in dumps' : OfDumps(d)
  BY <1>1, ClosedDumps DEF IInv, OfDumps
<1>3. \A x \in tars' : OfTars(x) \/ JustOpened(x)
  BY <1>1, ClosedTars DEF IInv, OfTars
<1> QED
  BY <1>2, <1>3, CloseStep DEF FinishBackup, BackingUp, storeVars

\* The rows of the dump are there, and their objects are to come.
LEMMA RestoreDatabaseStep ==
  ASSUME IInv, NEW p \in Pairs, RestoreDatabase(p)
  PROVE  StoreInv' /\ StampsInv' /\ RestoreInv'
<1>1. /\ UNCHANGED <<object, upload, reading, parsed, cut, shared, taken, dumps, tars, mixed>>
      /\ step' = "restored db" /\ restored' = p /\ Stopped
      /\ step = "idle"
  BY DEF RestoreDatabase
<1>2. PICK d \in dumps : d.stamp = p.db /\ rows' = d.rows
  BY DEF RestoreDatabase
<1>3. p.db # 0
  <2>1. d.stamp \in Stamps
    BY DEF IInv, TypeOK, Dump
  <2> QED
    BY <1>2, <2>1 DEF Stamps
<1>4. \A f \in Files : WritersOf(f)' = {} /\ reading'[f] = "none"
  BY <1>1 DEF Stopped, WritersOf, At
<1>5. ASSUME ~mixed, NEW f \in Files \ cut PROVE SoundFile(f)'
  <2>1. Marked(f) /\ Archived(f)
    BY <1>5 DEF IInv, StoreInv, SoundFile
  <2>2. Marked(f)' /\ Archived(f)'
    BY <1>1, <1>4, <2>1 DEF Marked, Archived
  <2> QED
    BY <1>1, <2>2 DEF SoundFile
<1>6. StoreInv'
  BY <1>1, <1>5 DEF StoreInv
<1>7. StampsInv'
  BY <1>1 DEF IInv, StampsInv, BackingUp
<1>8. RestoreInv'
  BY <1>1, <1>2, <1>3 DEF RestoreInv, Stopped
<1> QED
  BY <1>6, <1>7, <1>8

\* Without new rows everything in the database is still on disk.
LEMMA RestoreCutDumpStep ==
  ASSUME IInv, NEW p \in Pairs, RestoreCutDump(p)
  PROVE  StoreInv' /\ StampsInv' /\ RestoreInv'
<1>1. /\ UNCHANGED <<object, upload, reading, parsed, cut, shared, taken, step, dumps, tars>>
      /\ step = "idle" /\ Stopped
      /\ mixed' <=> mixed \/ ~(rows' \subseteq rows)
  BY DEF RestoreCutDump
<1>2. \A f \in Files : /\ WritersOf(f) = {} /\ reading'[f] = "none"
                       /\ WritersOf(f)' = {} /\ HoldersOf(f)' = {}
  BY <1>1 DEF Stopped, WritersOf, HoldersOf, At
<1>3. ASSUME ~mixed', NEW f \in Files \ cut PROVE SoundFile(f)'
  <2>1. OnDisk(f) /\ Marked(f) /\ Archived(f) /\ rows' \subseteq rows
    BY <1>1, <1>3 DEF IInv, StoreInv, SoundFile
  <2>2. OnDisk(f)'
    BY <1>1, <1>2, <2>1 DEF OnDisk
  <2>3. Marked(f)' /\ Archived(f)'
    BY <1>1, <1>2, <2>1 DEF Marked, Archived
  <2> QED
    BY <2>2, <2>3 DEF SoundFile
<1>4. StoreInv'
  BY <1>1, <1>3 DEF StoreInv
<1>5. StampsInv'
  BY <1>1 DEF IInv, StampsInv, BackingUp
<1>6. RestoreInv'
  BY <1>1 DEF RestoreInv
<1> QED
  BY <1>4, <1>5, <1>6

\* A dump and the archive of the same backup, or mixed.
LEMMA RestoreUploadsStep ==
  ASSUME IInv, RestoreUploads
  PROVE  StoreInv' /\ StampsInv' /\ RestoreInv'
<1>1. /\ UNCHANGED <<rows, upload, reading, parsed, cut, shared, taken, dumps, tars>>
      /\ step = "restored db" /\ step' = "idle" /\ (mixed => mixed')
  BY DEF RestoreUploads
<1>2. Stopped /\ \E d \in dumps : d.stamp = restored.db /\ rows = d.rows
  BY <1>1 DEF IInv, RestoreInv
<1>3. PICK d \in dumps : d.stamp = restored.db /\ rows = d.rows
  BY <1>2
<1>4. \A f \in Files : WritersOf(f)' = {} /\ HoldersOf(f)' = {} /\ reading'[f] = "none"
  BY <1>1, <1>2 DEF Stopped, WritersOf, HoldersOf, At
<1>5. ASSUME ~mixed', NEW f \in Files \ cut PROVE SoundFile(f)'
  <2>1. PICK x \in tars : x.stamp = restored.db /\ x.whole /\ object' \in Extracted(x)
    BY <1>5 DEF RestoreUploads
  <2>2. Marked(f) /\ Archived(f)
    BY <1>1, <1>5 DEF IInv, StoreInv, SoundFile
  <2>3. object'[f] = x.objects[f]
    BY <2>1, <1>5 DEF Extracted
  <2>4. object'[f] # "partial" /\ (f \in rows => object'[f] = "whole")
    <3>1. x.objects[f] # "partial" /\ x.objects[f] # "unread"
      BY <2>1, <2>2, Zenon DEF Archived
    <3>2. f \in d.rows => x.objects[f] \in {"whole", "unread"}
      BY <1>3, <2>1, <2>2, Zenon DEF Archived
    <3> QED
      BY <1>3, <2>3, <3>1, <3>2
  <2>5. OnDisk(f)'
    BY <1>1, <1>4, <2>4 DEF OnDisk
  <2>6. Marked(f)' /\ Archived(f)'
    BY <1>1, <1>4, <2>2 DEF Marked, Archived
  <2> QED
    BY <2>5, <2>6 DEF SoundFile
<1>6. StoreInv'
  BY <1>1, <1>5 DEF StoreInv
<1>7. StampsInv'
  BY <1>1 DEF IInv, StampsInv, BackingUp
<1>8. RestoreInv'
  BY <1>1 DEF RestoreInv
<1> QED
  BY <1>6, <1>7, <1>8

LEMMA StutterStep ==
  ASSUME IInv, UNCHANGED <<object, rows, upload, reading, parsed, cut, shared>>,
         UNCHANGED <<taken, tars, restored, mixed>>,
         \/ step' = step /\ dumps' = dumps
         \/ BackingUp /\ step' = "idle" /\ dumps' \subseteq dumps
  PROVE  StoreInv' /\ StampsInv' /\ RestoreInv'
<1>1. ASSUME ~mixed, NEW f \in Files \ cut PROVE SoundFile(f)'
  <2>1. SoundFile(f)
    BY <1>1 DEF IInv, StoreInv
  <2>2. Archived(f)'
    BY <2>1 DEF SoundFile, Archived
  <2> QED
    BY <2>1, <2>2, DiskIsSame DEF SoundFile, BackingUp
<1>2. StoreInv'
  BY <1>1 DEF StoreInv
<1>3. StampsInv'
  BY DEF IInv, StampsInv, BackingUp
<1>4. RestoreInv'
  BY DEF IInv, RestoreInv, Stopped
<1> QED
  BY <1>2, <1>3, <1>4

-----------------------------------------------------------------------------
LEMMA InitIInv == Init => IInv
<1> SUFFICES ASSUME Init PROVE IInv
  OBVIOUS
<1>1. TypeOK
  <2>1. StoreTypeOK
    BY DEF Init, StoreInit, StoreTypeOK, Object, Seen
  <2>2. 0 \in 0..MaxBackups
    BY BackupAssumption
  <2>3. taken \in 0..MaxBackups /\ restored \in [db : 0..MaxBackups, uploads : 0..MaxBackups]
    BY <2>2 DEF Init
  <2>4. mixed \in BOOLEAN
    BY DEF Init
  <2>5. /\ step \in {"idle", "first file", "second file", "restored db"}
        /\ dumps \subseteq Dump /\ tars \subseteq Tar
    BY DEF Init
  <2> QED
    BY <2>1, <2>3, <2>4, <2>5 DEF TypeOK
<1>2. ASSUME NEW f \in Files PROVE SoundFile(f)
  <2>1. WritersOf(f) = {} /\ HoldersOf(f) = {}
    BY DEF Init, StoreInit, WritersOf, HoldersOf, At
  <2> QED
    BY <2>1 DEF Init, StoreInit, SoundFile, OnDisk, Marked, Archived
<1>3. StampsInv /\ RestoreInv
  BY DEF Init, StampsInv, RestoreInv, BackingUp
<1> QED
  BY <1>1, <1>2, <1>3 DEF IInv, StoreInv

LEMMA NextIInv == IInv /\ [Next]_vars => IInv'
<1> SUFFICES ASSUME IInv, [Next]_vars PROVE IInv'
  OBVIOUS
<1>1. TypeOK'
  BY TypeStep DEF IInv
<1>2. ASSUME StopBackup \/ UNCHANGED vars PROVE StoreInv' /\ StampsInv' /\ RestoreInv'
  BY <1>2, StutterStep DEF StopBackup, vars, storeVars, backupVars
<1>3. ASSUME Next PROVE StoreInv' /\ StampsInv' /\ RestoreInv'
  BY <1>2, <1>3, StoreStep, BeginBackupStep, ArchiveObjectStep, NextFileStep,
     FinishBackupStep, RestoreDatabaseStep, RestoreCutDumpStep, RestoreUploadsStep DEF Next
<1> QED
  BY <1>1, <1>2, <1>3 DEF IInv

(***************************************************************************)
(* Every variable keeps its type; "latest" always names a backup there is, *)
(* or none.                                                                *)
(***************************************************************************)
THEOREM TypeCorrect == Spec => []TypeOK
<1>1. IInv => TypeOK
  BY DEF IInv
<1> QED
  BY <1>1, InitIInv, NextIInv, PTL DEF Spec

(***************************************************************************)
(* What the database knows is on disk, whole, with the three exceptions    *)
(* that CommittedIsStored names.                                           *)
(***************************************************************************)
THEOREM CommittedFilesAreStored == Spec => []CommittedIsStored
<1>1. IInv => CommittedIsStored
  <2> SUFFICES ASSUME IInv, NEW f \in rows, f \notin cut, WritersOf(f) = {},
                      ~mixed, step # "restored db"
      PROVE  object[f] = "whole"
    BY DEF CommittedIsStored
  <2>1. f \in Files /\ object[f] \in Object
    BY DEF IInv, TypeOK, StoreTypeOK
  <2>2. OnDisk(f)
    BY <2>1 DEF IInv, StoreInv, SoundFile
  <2> QED
    BY <2>1, <2>2 DEF OnDisk, Object
<1> QED
  BY <1>1, InitIInv, NextIInv, PTL DEF Spec

(***************************************************************************)
(* The parse job is given whole files, with the exceptions that            *)
(* ParsedIsWhole names.                                                    *)
(***************************************************************************)
THEOREM ParsesSeeWholeFiles == Spec => []ParsedIsWhole
<1>1. IInv => ParsedIsWhole
  BY DEF IInv, StoreInv, SoundFile, Marked, ParsedIsWhole
<1> QED
  BY <1>1, InitIInv, NextIInv, PTL DEF Spec

(***************************************************************************)
(* backup.sh: when both files of a backup were finished, the archive has   *)
(* every file of the dump.                                                 *)
(***************************************************************************)
THEOREM BackupsAreComplete == Spec => []PairIsComplete
<1>1. IInv => PairIsComplete
  <2>1. ASSUME IInv, NEW d \in dumps, NEW x \in tars, d.stamp = x.stamp,
               x.whole, NEW f \in d.rows, f \notin cut, ~mixed
        PROVE  x.objects[f] = "whole"
    <3>1. f \in Files
      BY <2>1 DEF IInv, TypeOK, Dump
    <3> QED
      BY <2>1, <3>1 DEF IInv, StoreInv, SoundFile, Archived
  <2> QED
    BY <2>1 DEF PairIsComplete
<1> QED
  BY <1>1, InitIInv, NextIInv, PTL DEF Spec
=============================================================================
