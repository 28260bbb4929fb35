---------------------------- MODULE ObjectStore ----------------------------
(***************************************************************************)
(* Uploaded files on disk and their rows in the database:                  *)
(* LocalFsObjectStore, processUpload from the look-up of the file to the   *)
(* commit, and the parse job's copy of the object.                         *)
(*                                                                         *)
(* An object is stored under the hash of its content, so every upload of a *)
(* file writes the same bytes to the same path.  put asks whether the path *)
(* exists, opens it (which empties it), writes, and removes it when the    *)
(* write fails: separate steps, between which other uploads, the job and a *)
(* crash may come.  Nothing tells a finished object from one that was left *)
(* in the middle of a write.                                               *)
(*                                                                         *)
(* Each upload runs in a transaction; the unique index on sha256 lets only *)
(* one of two commit.  The batch row is written with the source-file row.  *)
(*                                                                         *)
(* cut and shared are history variables.                                   *)
(***************************************************************************)
EXTENDS Naturals, FiniteSets

CONSTANTS
  Files,    \* contents, by their hash
  Uploads,  \* uploads that may run at the same time
  Idle      \* the upload is not running

Object == {"absent", "partial", "whole"}

\* found: about to ask whether the object exists; open: it does not; write: the
\* stream is open; stored: put has returned.  full: the path holds the whole
\* file once this stream is done - not so if the path has since been emptied or
\* removed by somebody else.
Upload == [file : Files, step : {"found", "open", "write", "stored"}, full : BOOLEAN]

ASSUME ObjectStoreAssumption == Idle \notin Upload

VARIABLES
  object,    \* what the path of a file holds
  rows,      \* files with a committed source_file row
  upload,    \* uploads under way
  reading,   \* the parse job's read of a file: none, or what it has seen so far
  parsed,    \* what the last parse of a file got to see
  cut,       \* history: files of which a write was cut off, so that less than
             \* the whole may have stayed behind
  shared     \* history: files that one upload wrote or took for stored while
             \* another was writing them, or after it

storeVars == <<object, rows, upload, reading, parsed, cut, shared>>

Seen == {"none", "partial", "whole"}

StoreTypeOK ==
  /\ object \in [Files -> Object]
  /\ rows \subseteq Files
  /\ upload \in [Uploads -> Upload \cup {Idle}]
  /\ reading \in [Files -> Seen]
  /\ parsed \in [Files -> Seen]
  /\ cut \subseteq Files
  /\ shared \subseteq Files

StoreInit ==
  /\ object = [f \in Files |-> "absent"]
  /\ rows = {}
  /\ upload = [u \in Uploads |-> Idle]
  /\ reading = [f \in Files |-> "none"]
  /\ parsed = [f \in Files |-> "none"]
  /\ cut = {}
  /\ shared = {}

-----------------------------------------------------------------------------
At(u, step) == upload[u] # Idle /\ upload[u].step = step

WritersOf(f) == {u \in Uploads : At(u, "write") /\ upload[u].file = f}

\* processUpload finds neither a batch nor a source file of this content.
Begin(u, f) ==
  /\ upload[u] = Idle
  /\ f \notin rows
  /\ upload' = [upload EXCEPT ![u] = [file |-> f, step |-> "found", full |-> FALSE]]
  /\ UNCHANGED <<object, rows, reading, parsed, cut, shared>>

GoesTo(u, step) == upload' = [upload EXCEPT ![u].step = step]

\* put takes an object that exists for complete.
AfterExists(u) == IF object[upload[u].file] = "absent" THEN "open" ELSE "stored"

Exists(u) ==
  /\ At(u, "found")
  /\ GoesTo(u, AfterExists(u))
  /\ shared' = IF WritersOf(upload[u].file) = {} THEN shared
                                                 ELSE shared \cup {upload[u].file}
  /\ UNCHANGED <<object, rows, reading, parsed, cut>>

\* The other streams on a path that is emptied or removed no longer make it whole.
Spoils(f) ==
  [v \in Uploads |-> IF v \in WritersOf(f) THEN [upload[v] EXCEPT !.full = FALSE]
                                           ELSE upload[v]]

\* createWriteStream: whatever the path held is gone.
OpenWrite(u) ==
  LET f == upload[u].file
  IN  /\ At(u, "open")
      /\ object' = [object EXCEPT ![f] = "partial"]
      /\ upload' = [Spoils(f) EXCEPT ![u] = [file |-> f, step |-> "write", full |-> TRUE]]
      /\ reading' = [reading EXCEPT ![f] = IF @ = "none" THEN @ ELSE "partial"]
      /\ shared' = IF object[f] = "absent" THEN shared ELSE shared \cup {f}
      /\ UNCHANGED <<rows, parsed, cut>>

FinishWrite(u) ==
  /\ At(u, "write")
  /\ object' = IF upload[u].full THEN [object EXCEPT ![upload[u].file] = "whole"]
                                 ELSE object
  /\ GoesTo(u, "stored")
  /\ UNCHANGED <<rows, reading, parsed, cut, shared>>

\* WRONG (breaks CommittedIsStored, ParsedIsWhole): put returns while the stream is being written
ReturnsEarly(u) == At(u, "write") \/ At(u, "stored")

Returned(u) == At(u, "stored")

\* A stream error: the path is removed, whoever else is writing to it.
FailWrite(u) ==
  LET f == upload[u].file
  IN  /\ At(u, "write")
      /\ object' = [object EXCEPT ![f] = "absent"]
      /\ upload' = [Spoils(f) EXCEPT ![u] = Idle]
      /\ cut' = cut \cup {f}
      /\ UNCHANGED <<rows, reading, parsed, shared>>

\* source_file and item_master_batch are saved and committed, unless another
\* upload of the file was first (23505) or the database fails.
Commit(u) ==
  /\ Returned(u)
  /\ upload[u].file \notin rows
  /\ rows' = rows \cup {upload[u].file}
  /\ upload' = [upload EXCEPT ![u] = Idle]
  /\ UNCHANGED <<object, reading, parsed, cut, shared>>

Rollback(u) ==
  /\ Returned(u)
  /\ upload' = [upload EXCEPT ![u] = Idle]
  /\ UNCHANGED <<object, rows, reading, parsed, cut, shared>>

-----------------------------------------------------------------------------
(* The parse job copies the object before it reads it.                       *)

\* WRONG (breaks TypeOK): get does not ask
GetsAnyway(f) == TRUE

Gets(f) == object[f] # "absent"

\* objectStore.get; without an object the job fails and the batch is rejected.
BeginRead(f) ==
  /\ f \in rows
  /\ reading[f] = "none"
  /\ Gets(f)
  /\ reading' = [reading EXCEPT ![f] = object[f]]
  /\ UNCHANGED <<object, rows, upload, parsed, cut, shared>>

\* A read of an object that was partial may still meet all of it.
FinishRead(f) ==
  /\ reading[f] # "none"
  /\ \E seen \in {reading[f]} \cup ({object[f]} \cap {"whole"}) :
       parsed' = [parsed EXCEPT ![f] = seen]
  /\ reading' = [reading EXCEPT ![f] = "none"]
  /\ UNCHANGED <<object, rows, upload, cut, shared>>

\* The backend stops: transactions are rolled back, streams end where they are.
Crash ==
  /\ upload' = [u \in Uploads |-> Idle]
  /\ reading' = [f \in Files |-> "none"]
  /\ cut' = cut \cup {f \in Files : WritersOf(f) # {}}
  /\ UNCHANGED <<object, rows, parsed, shared>>

StoreNext ==
  \/ \E u \in Uploads, f \in Files : Begin(u, f)
  \/ \E u \in Uploads : \/ Exists(u) \/ OpenWrite(u) \/ FinishWrite(u)
                        \/ FailWrite(u) \/ Commit(u) \/ Rollback(u)
  \/ \E f \in Files : BeginRead(f) \/ FinishRead(f)
  \/ Crash
=============================================================================
