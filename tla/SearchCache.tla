---------------------------- MODULE SearchCache ----------------------------
(***************************************************************************)
(* The three in-memory caches of ItemSearchService - the fixed facets, the *)
(* list of extra columns, and one entry per extra column - and what        *)
(* publishBatch and holdBatch do to them, and what the steps do that       *)
(* change what search shows without a word to the caches.                  *)
(*                                                                         *)
(* A cached answer is served for a minute.  A call that finds none runs    *)
(* its queries (several for the fixed facets, each with a snapshot of its  *)
(* own) and stores the answer when they are done, whatever has happened    *)
(* meanwhile.  A publish or hold clears all caches, after its transaction  *)
(* has committed.                                                          *)
(*                                                                         *)
(* Abstracted: an answer is the version of the catalog it was computed     *)
(* from (how many changes of what search shows had committed), the oldest  *)
(* one if its queries saw several; the time of an entry is its age.        *)
(*                                                                         *)
(* An operator whose comment begins with WRONG is a deliberately broken    *)
(* variant of the definition that follows it.                              *)
(***************************************************************************)
EXTENDS Naturals, FiniteSets

CONSTANTS
  Fields,        \* extra columns somebody asks for
  Calls,         \* calls that may be computing an answer at once
  None,          \* no entry in the cache; a call that is not in use
  FacetQueries,  \* queries of the fixed facets, a snapshot each (3)
  TTL,           \* how long an entry is served, in ticks (60 seconds)
  MaxEntries,    \* entries in extraFacetCache (200)
  MaxVersion     \* bound: changes of what search shows

ASSUME SearchCacheAssumption ==
  /\ FacetQueries \in Nat \ {0}
  /\ TTL \in Nat
  /\ MaxEntries \in Nat \ {0}
  /\ MaxVersion \in Nat
  /\ IsFiniteSet(Fields)
  /\ {"facets", "fields"} \cap Fields = {}

Versions == 0..MaxVersion
Slots == {"facets", "fields"} \cup Fields

\* overlapped: the caches were cleared while the answer was being computed
Entry == [age : 0..TTL, value : Versions, overlapped : BOOLEAN]
Call == [slot : Slots, left : 0..FacetQueries, value : Versions, overlapped : BOOLEAN]

ASSUME NoneAssumption == None \notin Entry \cup Call

VARIABLES
  version,   \* of the catalog
  clearing,  \* publishes and holds that have committed and not yet cleared
  cache,     \* facetsCache, extraFieldsCache and extraFacetCache, by slot
  call,      \* calls under way: the slot, queries left, the oldest version seen
  silent     \* versions that came about without a clear (history)

vars == <<version, clearing, cache, call, silent>>

TypeOK ==
  /\ version \in Versions
  /\ clearing \in Versions
  /\ cache \in [Slots -> Entry \cup {None}]
  /\ call \in [Calls -> Call \cup {None}]
  /\ silent \subseteq 1..MaxVersion

Init ==
  /\ version = 0
  /\ clearing = 0
  /\ cache = [s \in Slots |-> None]
  /\ call = [k \in Calls |-> None]
  /\ silent = {}

-----------------------------------------------------------------------------
Entries == {f \in Fields : cache[f] # None}

\* WRONG (breaks Converges): an entry is served as long as it is there
ServedUntilCleared(s) == cache[s] # None

\* An entry that is there and young enough is served.
Served(s) == cache[s] # None /\ cache[s].age < TTL

Queries(s) == IF s = "facets" THEN FacetQueries ELSE 1

\* A call that finds no entry to serve begins to compute one.
Begin(k, s) ==
  /\ call[k] = None
  /\ ~Served(s)
  /\ call' = [call EXCEPT ![k] = [slot |-> s, left |-> Queries(s), value |-> MaxVersion,
                                  overlapped |-> FALSE]]
  /\ UNCHANGED <<version, clearing, cache, silent>>

\* WRONG (breaks TypeOK): a query runs once more although all have answered
QueryAgain(k) ==
  /\ call[k] # None
  /\ call' = [call EXCEPT ![k].left = @ - 1,
                          ![k].value = IF version < @ THEN version ELSE @]
  /\ UNCHANGED <<version, clearing, cache, silent>>

\* One of its queries takes its snapshot.
Query(k) ==
  /\ call[k] # None
  /\ call[k].left > 0
  /\ call' = [call EXCEPT ![k].left = @ - 1,
                          ![k].value = IF version < @ THEN version ELSE @]
  /\ UNCHANGED <<version, clearing, cache, silent>>

\* WRONG (breaks CapHolds): room is made for one entry too late
RoomLate(s) ==
  IF s \in Fields /\ Cardinality(Entries) > MaxEntries
  THEN [t \in Slots |-> IF t \in Fields THEN None ELSE cache[t]]
  ELSE cache

\* The caches with room for slot s: a full extraFacetCache is emptied.
Room(s) ==
  IF s \in Fields /\ Cardinality(Entries) >= MaxEntries
  THEN [t \in Slots |-> IF t \in Fields THEN None ELSE cache[t]]
  ELSE cache

\* The answer is stored and returned.
Fill(k) ==
  /\ call[k] # None
  /\ call[k].left = 0
  /\ cache' = [Room(call[k].slot) EXCEPT ![call[k].slot] =
                 [age |-> 0, value |-> call[k].value, overlapped |-> call[k].overlapped]]
  /\ call' = [call EXCEPT ![k] = None]
  /\ UNCHANGED <<version, clearing, silent>>

\* A query fails, and the call with it.
Fail(k) ==
  /\ call[k] # None
  /\ call[k].left > 0
  /\ call' = [call EXCEPT ![k] = None]
  /\ UNCHANGED <<version, clearing, cache, silent>>

-----------------------------------------------------------------------------
\* The transaction of a publish or a hold commits ...
Commit ==
  /\ version < MaxVersion
  /\ version' = version + 1
  /\ clearing' = clearing + 1
  /\ UNCHANGED <<cache, call, silent>>

\* The rows or the status of a published batch are written by a step that clears
\* nothing: the parse job once more, with the status it read, the handler of its
\* failure, or a retry that saves an old copy.
CommitUncleared ==
  /\ version < MaxVersion
  /\ version' = version + 1
  /\ silent' = silent \cup {version + 1}
  /\ UNCHANGED <<clearing, cache, call>>

\* WRONG (breaks StaleOnlyByOverlap): the entries per column stay
ClearFixed ==
  /\ clearing > 0
  /\ clearing' = clearing - 1
  /\ cache' = [s \in Slots |-> IF s \in Fields THEN cache[s] ELSE None]
  /\ call' = [k \in Calls |-> IF call[k] = None THEN None
                              ELSE [call[k] EXCEPT !.overlapped = TRUE]]
  /\ UNCHANGED <<version, silent>>

\* ... and then clears the caches, but not the calls under way.
Clear ==
  /\ clearing > 0
  /\ clearing' = clearing - 1
  /\ cache' = [s \in Slots |-> None]
  /\ call' = [k \in Calls |-> IF call[k] = None THEN None
                              ELSE [call[k] EXCEPT !.overlapped = TRUE]]
  /\ UNCHANGED <<version, silent>>

\* Time passes; entries at the end of their time are as good as none.
Tick ==
  /\ cache' = [s \in Slots |->
       IF cache[s] # None /\ cache[s].age < TTL
       THEN [cache[s] EXCEPT !.age = @ + 1] ELSE cache[s]]
  /\ UNCHANGED <<version, clearing, call, silent>>

\* The process is restarted.
Restart ==
  /\ clearing' = 0
  /\ cache' = [s \in Slots |-> None]
  /\ call' = [k \in Calls |-> None]
  /\ UNCHANGED <<version, silent>>

-----------------------------------------------------------------------------
Next ==
  \/ \E k \in Calls, s \in Slots : Begin(k, s)
  \/ \E k \in Calls : Query(k) \/ Fill(k) \/ Fail(k)
  \/ Commit \/ CommitUncleared \/ Clear \/ Tick \/ Restart

Spec == Init /\ [][Next]_vars

\* Time passes, and a query that is running returns.
FairSpec ==
  /\ Spec
  /\ WF_vars(Tick)
  /\ WF_vars(Clear)
  /\ \A k \in Calls : WF_vars(Query(k)) /\ WF_vars(Fill(k))

-----------------------------------------------------------------------------
(* Properties.                                                               *)

(***************************************************************************)
(* Once the clears of all publishes and holds are done, an answer in a     *)
(* cache knows all of them, unless the caches were cleared while it was    *)
(* being computed (clearFacetsCache, and the assignments at the end of     *)
(* getFacets, getAvailableExtraFields and getExtraFacet).  What else it    *)
(* may miss are the changes that clear nothing.                            *)
(***************************************************************************)
StaleOnlyByOverlap ==
  clearing = 0 => \A s \in Slots :
    cache[s] # None /\ ~cache[s].overlapped =>
      (cache[s].value + 1)..version \subseteq silent

(***************************************************************************)
(* extraFacetCache never holds more than its number of entries, although   *)
(* its keys come from the clients and calls for different keys overlap.    *)
(***************************************************************************)
CapHolds == Cardinality(Entries) <= MaxEntries

(***************************************************************************)
(* When changes stop, search filters come to agree with the catalog and    *)
(* stay so: an answer that was stored too late, or that no clear took      *)
(* away, is served for a minute at most, and is not kept alive by being    *)
(* asked for.                                                              *)
(***************************************************************************)
Converges ==
  <>[](\A s \in Slots : Served(s) => cache[s].value = version)
=============================================================================
