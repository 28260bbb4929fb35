------------------------- MODULE SearchCacheProofs -------------------------
(***************************************************************************)
(* What holds of SearchCache for every set of columns and calls, every     *)
(* size of the cache and every time to live.                               *)
(*                                                                         *)
(* StaleOnlyByOverlap needs to know of the calls under way what it says of *)
(* the entries: while nothing waits to be cleared, a call that no clear    *)
(* has overlapped misses silent changes only.                              *)
(***************************************************************************)
EXTENDS SearchCache, FiniteSetTheorems, TLAPS

CallsMissSilent ==
  clearing = 0 => \A k \in Calls :
    call[k] # None /\ ~call[k].overlapped =>
      (call[k].value + 1)..version \subseteq silent

FreshInv ==
  /\ TypeOK
  /\ clearing <= version
  /\ CallsMissSilent
  /\ StaleOnlyByOverlap

LEMMA InitFresh == Init => FreshInv
  BY SearchCacheAssumption DEF Init, FreshInv, TypeOK, Versions, CallsMissSilent,
     StaleOnlyByOverlap

LEMMA BeginStep ==
  ASSUME FreshInv, NEW k \in Calls, NEW s \in Slots, Begin(k, s)
  PROVE  FreshInv'
<1> DEFINE c == [slot |-> s, left |-> Queries(s), value |-> MaxVersion, overlapped |-> FALSE]
<1>1. call' = [call EXCEPT ![k] = c] /\ UNCHANGED <<version, clearing, cache, silent>>
  BY DEF Begin
<1>2. c \in Call /\ c.value = MaxVersion /\ c.left > 0
  BY SearchCacheAssumption DEF Call, Queries, Versions
<1> HIDE DEF c
<1>3. TypeOK' /\ StaleOnlyByOverlap' /\ clearing' <= version'
  BY <1>1, <1>2 DEF FreshInv, TypeOK, StaleOnlyByOverlap
<1>4. (c.value + 1)..version \subseteq silent
  BY <1>2, SearchCacheAssumption DEF FreshInv, TypeOK, Versions
<1>5. CallsMissSilent'
  BY <1>1, <1>4 DEF FreshInv, TypeOK, CallsMissSilent
<1> QED
  BY <1>3, <1>5 DEF FreshInv

LEMMA QueryStep ==
  ASSUME FreshInv, NEW k \in Calls, Query(k)
  PROVE  FreshInv'
<1> DEFINE c == [call[k] EXCEPT !.left = @ - 1,
                                !.value = IF version < @ THEN version ELSE @]
<1>1. /\ call[k] \in Call /\ call[k].left > 0
      /\ call' = [call EXCEPT ![k] = c] /\ UNCHANGED <<version, clearing, cache, silent>>
  BY DEF Query, FreshInv, TypeOK
<1>2. /\ c \in Call /\ c.overlapped = call[k].overlapped
      /\ c.value = IF version < call[k].value THEN version ELSE call[k].value
  <2>1. /\ call[k].slot \in Slots /\ call[k].left - 1 \in 0..FacetQueries
        /\ call[k].value \in Versions /\ call[k].overlapped \in BOOLEAN
    <3>1. /\ call[k].slot \in Slots /\ call[k].left \in 0..FacetQueries
          /\ call[k].value \in Versions /\ call[k].overlapped \in BOOLEAN
      BY <1>1 DEF Call
    <3> QED
      BY <1>1, <3>1, SearchCacheAssumption
  <2>2. version \in Versions
    BY DEF FreshInv, TypeOK
  <2> DEFINE d == [call[k] EXCEPT !.left = @ - 1]
             v == IF version < call[k].value THEN version ELSE call[k].value
  <2>3. d = [slot |-> call[k].slot, left |-> call[k].left - 1,
             value |-> call[k].value, overlapped |-> call[k].overlapped]
    BY <1>1 DEF Call
  <2>4. c = [d EXCEPT !.value = v]
    OBVIOUS
  <2> HIDE DEF d, c
  <2>5. c = [slot |-> call[k].slot, left |-> call[k].left - 1,
             value |-> v, overlapped |-> call[k].overlapped]
    BY <2>3, <2>4
  <2> QED
    BY <2>1, <2>2, <2>5 DEF Call
<1>3. clearing = 0 /\ ~c.overlapped => (c.value + 1)..version \subseteq silent
  <2>1. call[k] # None
    BY DEF Query
  <2> QED
    BY <1>1, <1>2, <2>1, SearchCacheAssumption DEF FreshInv, TypeOK, CallsMissSilent, Versions, Call
<1> HIDE DEF c
<1> QED
  BY <1>1, <1>2, <1>3 DEF FreshInv, TypeOK, CallsMissSilent, StaleOnlyByOverlap

LEMMA FillStep ==
  ASSUME FreshInv, NEW k \in Calls, Fill(k)
  PROVE  FreshInv'
<1> DEFINE s == call[k].slot
           e == [age |-> 0, value |-> call[k].value, overlapped |-> call[k].overlapped]
<1>1. /\ call[k] \in Call /\ call[k] # None /\ call[k].left = 0
      /\ cache' = [Room(s) EXCEPT ![s] = e]
      /\ call' = [call EXCEPT ![k] = None] /\ UNCHANGED <<version, clearing, silent>>
  BY DEF Fill, FreshInv, TypeOK
<1>2. /\ Room(s) \in [Slots -> Entry \cup {None}]
      /\ \A t \in Slots : Room(s)[t] = cache[t] \/ Room(s)[t] = None
  BY DEF Room, FreshInv, TypeOK
<1>3. e \in Entry /\ s \in Slots
  BY <1>1, SearchCacheAssumption DEF Entry, Call
<1>4. clearing = 0 /\ ~e.overlapped => (e.value + 1)..version \subseteq silent
  BY <1>1 DEF FreshInv, CallsMissSilent
<1> HIDE DEF e, s
<1>5. TypeOK'
  BY <1>1, <1>2, <1>3 DEF FreshInv, TypeOK
<1>6. StaleOnlyByOverlap'
  BY <1>1, <1>2, <1>3, <1>4 DEF FreshInv, StaleOnlyByOverlap
<1>7. CallsMissSilent'
  BY <1>1 DEF FreshInv, TypeOK, CallsMissSilent
<1> QED
  BY <1>1, <1>5, <1>6, <1>7 DEF FreshInv

LEMMA FailStep ==
  ASSUME FreshInv, NEW k \in Calls, Fail(k)
  PROVE  FreshInv'
  BY DEF Fail, FreshInv, TypeOK, CallsMissSilent, StaleOnlyByOverlap

LEMMA CommitStep ==
  ASSUME FreshInv, Commit
  PROVE  FreshInv'
  BY SearchCacheAssumption DEF Commit, FreshInv, TypeOK, Versions, CallsMissSilent,
     StaleOnlyByOverlap

LEMMA CommitUnclearedStep ==
  ASSUME FreshInv, CommitUncleared
  PROVE  FreshInv'
<1>1. /\ version \in Nat /\ version + 1 \in 1..MaxVersion
      /\ version' = version + 1 /\ silent' = silent \cup {version + 1}
      /\ UNCHANGED <<clearing, cache, call>>
  BY SearchCacheAssumption DEF CommitUncleared, FreshInv, TypeOK, Versions
<1>2. ASSUME NEW v \in Versions, (v + 1)..version \subseteq silent
      PROVE  (v + 1)..version' \subseteq silent'
  BY <1>1, <1>2, SearchCacheAssumption DEF Versions
<1>3. TypeOK' /\ clearing' <= version'
  BY <1>1, SearchCacheAssumption DEF FreshInv, TypeOK, Versions
<1>4. CallsMissSilent'
  BY <1>1, <1>2 DEF FreshInv, TypeOK, CallsMissSilent, Call
<1>5. StaleOnlyByOverlap'
  BY <1>1, <1>2 DEF FreshInv, TypeOK, StaleOnlyByOverlap, Entry
<1> QED
  BY <1>3, <1>4, <1>5 DEF FreshInv

LEMMA ClearStep ==
  ASSUME FreshInv, Clear
  PROVE  FreshInv'
<1>1. /\ \A s \in Slots : cache'[s] = None
      /\ \A k \in Calls : call'[k] # None => call'[k] \in Call /\ call'[k].overlapped
  BY DEF Clear, FreshInv, TypeOK, Call
<1>2. TypeOK' /\ clearing' <= version'
  BY <1>1, SearchCacheAssumption DEF Clear, FreshInv, TypeOK, Versions
<1> QED
  BY <1>1, <1>2 DEF FreshInv, CallsMissSilent, StaleOnlyByOverlap

LEMMA TickStep ==
  ASSUME FreshInv, Tick
  PROVE  FreshInv'
<1>1. ASSUME NEW s \in Slots
      PROVE  /\ cache'[s] \in Entry \cup {None}
             /\ cache'[s] # None =>
                  /\ cache[s] # None
                  /\ cache'[s].value = cache[s].value
                  /\ cache'[s].overlapped = cache[s].overlapped
  BY SearchCacheAssumption DEF Tick, FreshInv, TypeOK, Entry
<1>2. TypeOK'
  BY <1>1 DEF Tick, FreshInv, TypeOK
<1> QED
  BY <1>1, <1>2 DEF Tick, FreshInv, CallsMissSilent, StaleOnlyByOverlap

LEMMA RestartStep ==
  ASSUME FreshInv, Restart
  PROVE  FreshInv'
  BY SearchCacheAssumption DEF Restart, FreshInv, TypeOK, Versions, CallsMissSilent,
     StaleOnlyByOverlap

LEMMA NextFresh == FreshInv /\ [Next]_vars => FreshInv'
<1> SUFFICES ASSUME FreshInv, [Next]_vars PROVE FreshInv'
  OBVIOUS
<1>1. CASE UNCHANGED vars
  BY <1>1 DEF vars, FreshInv, TypeOK, CallsMissSilent, StaleOnlyByOverlap
<1> QED
  BY <1>1, BeginStep, QueryStep, FillStep, FailStep, CommitStep, CommitUnclearedStep,
     ClearStep, TickStep, RestartStep DEF Next

-----------------------------------------------------------------------------
\* The size of extraFacetCache: storing an answer adds one entry at most.
LEMMA EntriesFinite == Entries \subseteq Fields /\ IsFiniteSet(Entries)
  BY SearchCacheAssumption, FS_Subset DEF Entries

LEMMA FillKeepsCap ==
  ASSUME TypeOK, CapHolds, NEW k \in Calls, Fill(k)
  PROVE  CapHolds'
<1> DEFINE s == call[k].slot
<1>1. /\ s \in Slots
      /\ cache' = [Room(s) EXCEPT ![s] = [age |-> 0, value |-> call[k].value,
                                          overlapped |-> call[k].overlapped]]
  BY DEF Fill, TypeOK, Call
<1> HIDE DEF s
<1>2. Room(s) \in [Slots -> Entry \cup {None}]
  BY DEF Room, TypeOK
<1>3. CASE s \in Fields /\ Cardinality(Entries) >= MaxEntries
  <2>1. Entries' \subseteq {s}
    BY <1>1, <1>2, <1>3 DEF Entries, Room, Slots
  <2>2. IsFiniteSet({s}) /\ Cardinality({s}) = 1
    BY FS_Singleton
  <2>3. Cardinality(Entries') <= 1 /\ IsFiniteSet(Entries')
    BY <2>1, <2>2, FS_Subset
  <2>4. Cardinality(Entries') \in Nat
    BY <2>3, FS_CardinalityType
  <2> QED
    BY <2>3, <2>4, SearchCacheAssumption DEF CapHolds
<1>4. CASE s \in Fields /\ ~(Cardinality(Entries) >= MaxEntries)
  <2>1. Entries' \subseteq Entries \cup {s}
    BY <1>1, <1>4 DEF Entries, Room, TypeOK, Slots
  <2>2. /\ IsFiniteSet(Entries \cup {s})
        /\ Cardinality(Entries \cup {s}) <= Cardinality(Entries) + 1
    <3>1. Cardinality(Entries) \in Nat
      BY EntriesFinite, FS_CardinalityType
    <3>2. /\ IsFiniteSet(Entries \cup {s})
          /\ Cardinality(Entries \cup {s}) =
               IF s \in Entries THEN Cardinality(Entries) ELSE Cardinality(Entries) + 1
      BY EntriesFinite, FS_AddElement
    <3> QED
      BY <3>1, <3>2, SMT
  <2>3. Cardinality(Entries') <= Cardinality(Entries \cup {s}) /\ IsFiniteSet(Entries')
    BY <2>1, <2>2, FS_Subset
  <2>4. /\ Cardinality(Entries') \in Nat /\ Cardinality(Entries) \in Nat
        /\ Cardinality(Entries \cup {s}) \in Nat
    BY <2>2, <2>3, EntriesFinite, FS_CardinalityType
  <2> QED
    BY <1>4, <2>2, <2>3, <2>4, SearchCacheAssumption DEF CapHolds
<1>5. CASE s \notin Fields
  <2>1. cache' = [cache EXCEPT ![s] = [age |-> 0, value |-> call[k].value,
                                       overlapped |-> call[k].overlapped]]
    BY <1>1, <1>5 DEF Room
  <2>2. Entries' = Entries
    BY <1>5, <2>1 DEF Entries, TypeOK, Slots
  <2> QED
    BY <2>2 DEF CapHolds
<1> QED
  BY <1>3, <1>4, <1>5

LEMMA NextKeepsCap == TypeOK /\ CapHolds /\ [Next]_vars => CapHolds'
<1> SUFFICES ASSUME TypeOK, CapHolds, [Next]_vars PROVE CapHolds'
  OBVIOUS
<1>1. ASSUME NEW k \in Calls, Fill(k) PROVE CapHolds'
  BY <1>1, FillKeepsCap
<1>2. CASE Clear \/ Restart
  <2>1. Entries' = {}
    BY <1>2 DEF Clear, Restart, Entries, Slots
  <2> QED
    BY <2>1, FS_EmptySet, SearchCacheAssumption DEF CapHolds
<1>3. CASE Tick
  <2>1. Entries' \subseteq Entries
    BY <1>3 DEF Tick, Entries, Slots
  <2>2. Cardinality(Entries') <= Cardinality(Entries) /\ IsFiniteSet(Entries')
    BY <2>1, EntriesFinite, FS_Subset
  <2>3. Cardinality(Entries') \in Nat /\ Cardinality(Entries) \in Nat
    BY <2>2, EntriesFinite, FS_CardinalityType
  <2> QED
    BY <2>2, <2>3, SearchCacheAssumption DEF CapHolds
<1>4. CASE UNCHANGED cache
  BY <1>4 DEF CapHolds, Entries
<1> QED
  BY <1>1, <1>2, <1>3, <1>4 DEF Next, Begin, Query, Fail, Commit, CommitUncleared, vars

-----------------------------------------------------------------------------
(***************************************************************************)
(* Every variable keeps its type; publishes that have yet to clear are no  *)
(* more than publishes.                                                    *)
(***************************************************************************)
THEOREM TypeCorrect == Spec => []TypeOK
<1>1. FreshInv => TypeOK
  BY DEF FreshInv
<1> QED
  BY <1>1, InitFresh, NextFresh, PTL DEF Spec

(***************************************************************************)
(* Once all publishes and holds have cleared the caches, an old answer     *)
(* misses only changes that clear nothing, or was being computed during a  *)
(* clear.                                                                  *)
(***************************************************************************)
THEOREM OldAnswersOverlapped == Spec => []StaleOnlyByOverlap
<1>1. FreshInv => StaleOnlyByOverlap
  BY DEF FreshInv
<1> QED
  BY <1>1, InitFresh, NextFresh, PTL DEF Spec

(***************************************************************************)
(* extraFacetCache never grows beyond its number of entries, whatever      *)
(* columns clients ask for and however their calls overlap.                *)
(***************************************************************************)
THEOREM CacheIsBounded == Spec => []CapHolds
<1>1. Init => CapHolds
  <2>1. Init => Entries = {}
    BY DEF Init, Entries, Slots
  <2> QED
    BY <2>1, FS_EmptySet, SearchCacheAssumption DEF CapHolds
<1> QED
  BY <1>1, TypeCorrect, NextKeepsCap, PTL DEF Spec
=============================================================================
