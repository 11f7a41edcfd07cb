-------------------------- MODULE AggHashTableProofs --------------------------
(***************************************************************************)
(* Proofs about AggHashTable for any number of columns, any key ranges,    *)
(* hash function, entry limit and input: one lemma per step, which keeps   *)
(* the invariant of AggTableLemmas, and the theorems.                      *)
(***************************************************************************)
EXTENDS AggTableLemmas

\* How long the provers may take for a step, in seconds.
USE SMTT(30), ZenonT(30)

-----------------------------------------------------------------------------
(* The steps                                                                *)

\* A new hash table satisfies the invariant.
LEMMA InvInit == Init => IInv
<1> SUFFICES ASSUME Init PROVE IInv
  OBVIOUS
<1> USE AggAssumption DEF Init
<1>1. DOMAIN NoSlots = {} /\ NoSlots = [s \in {} |-> NoSlots[s]]
  BY DEF NoSlots
<1>2. Ranges(lo, hi) /\ \A c \in KeyCols : TypeMin <= lo[c] /\ hi[c] <= TypeMax
  BY DEF Ranges
<1>3. Types
  <2>1. mode \in {"range", "direct"} /\ entryNum \in 1..EntryLimit
    OBVIOUS
  <2>2. /\ batch \in Seq(Seq(Keys)) /\ mask \subseteq DOMAIN batch
        /\ pos \in 1..Len(batch) + 1 /\ out \in Seq(SUBSET Nat)
    OBVIOUS
  <2>3. dirty \in [KeyCols -> BOOLEAN] /\ prior \in [Keys -> Nat] /\ redone \in [Keys -> Nat]
    OBVIOUS
  <2>4. needRehash \in BOOLEAN /\ match = 1 /\ phase = "idle" /\ batch = <<>> /\ rehashes = 0 /\ iter = 0
    BY ZenonT(30)
  <2> HIDE AggAssumption DEF Init
  <2> QED BY <1>2, <2>1, <2>2, <2>3, <2>4 DEF Types
<1>4. Lookup
  <2>1. IsTable(table, entryNum) /\ OneRowPerKey(table) /\ Sound(table, Hasher, entryNum)
    BY <1>1 DEF IsTable, OneRowPerKey, Sound
  <2>2. CASE ForceDirect
    <3>1. mode = "direct" /\ entryNum = EntryLimit /\ Hasher.mode = "direct" /\ ~needRehash
      BY <2>2 DEF Hasher
    <3> QED BY <1>1, <2>1, <3>1 DEF Lookup, Fits
  <2>3. CASE ~ForceDirect
    <3>1. mode = "range" /\ entryNum = 1 /\ ~needRehash
      BY <2>3
    <3>2. Hasher.mode = "range" /\ Hasher.lo = lo /\ Hasher.hi = hi
      BY <3>1 DEF Hasher
    <3> DEFINE S == Slots(lo, hi)
    <3>3. IsSlots(S, lo, hi)
      BY <1>2, SlotsDef
    <3> HIDE DEF S
    <3>4. \A c \in 1..Cols : S[c] = S[c - 1]
      <4>1. TAKE c \in 1..Cols
      <4>2. c \in KeyCols /\ lo[c] = 0 /\ hi[c] = -1
        BY ColsType
      <4>3. c - 1 \in 0..Cols
        BY ColsType
      <4>4. S[c - 1] \in Nat /\ S[c] = S[c - 1] * (hi[c] - lo[c] + 2)
        BY <3>3, <4>3, ZenonT(30) DEF IsSlots
      <4>5. hi[c] - lo[c] + 2 = 1
        BY <4>2
      <4>6. S[c] = S[c - 1] * 1
        BY <4>4, <4>5
      <4> QED BY <4>4, <4>6
    <3>5. S[Cols] = 1
      <4> DEFINE T == {c \in 0..Cols : S[c] = 1}
      <4>1. Cols \in Nat /\ 0 \in T
        BY <3>3, ColsType DEF IsSlots
      <4>2. \A c \in 1..Cols : c - 1 \in T => c \in T
        BY <3>4, <4>1
      <4>3. \A c \in 0..Cols : c \in T
        <5> HIDE DEF T
        <5> QED BY <4>1, <4>2, UpTo, ZenonT(30)
      <4> QED BY <4>1, <4>3
    <3>6. Fits(Hasher, entryNum)
      BY <1>2, <3>1, <3>2, <3>5 DEF Fits, S
    <3> QED BY <1>1, <2>1, <3>1, <3>6 DEF Lookup
  <2> QED BY <2>2, <2>3
<1>5. Passes
  BY DEF Passes
<1>6. Fetches
  BY DEF Fetches
<1>7. Counted
  <2>1. ASSUME NEW k \in Keys PROVE InProgress(k) = 0
    BY DEF InProgress, InPass
  <2>2. ASSUME NEW k \in Keys PROVE OccursIn(batch, k, mask) = 0 /\ TotalIn(table, k) = 0
    BY <1>1, OccursNone, TotalNone
  <2>3. ASSUME NEW k \in Keys PROVE prior[k] = 0 /\ redone[k] = 0
    OBVIOUS
  <2> QED BY <2>1, <2>2, <2>3 DEF Counted
<1> QED BY <1>3, <1>4, <1>5, <1>6, <1>7, CountedIs DEF IInv

\* Taking a batch keeps the invariant.
LEMMA ProcessNextBatchKeeps ==
  ASSUME IInv, ProcessNextBatch PROVE IInv'
<1> USE DEF ProcessNextBatch
<1>0. Types /\ Lookup /\ Counted /\ Fetches
  BY CountedIs DEF IInv
<1>1. Types'
  <2>1. batch' \in Seq(Seq(Keys)) /\ pos' \in 1..Len(batch') + 1
    BY AggAssumption
  <2> QED BY <1>0, <2>1 DEF Types, hasherVars, fetchVars
<1>2. Lookup'
  BY <1>0, LookupKept
<1>3. Passes'
  BY DEF Passes
<1>4. Fetches'
  <2>1. out' = <<>>
    BY <1>0 DEF Fetches, fetchVars
  <2> QED BY <2>1, FetchesNone
<1>5. Counted'
  <2>1. mask = {}
    BY <1>0 DEF Types
  <2>2. ASSUME NEW k \in Keys
        PROVE  TotalIn(table', k) = prior'[k] + OccursIn(batch', k, mask') + InProgress(k)' + redone'[k]
    <3>1. InProgress(k) = 0 /\ InProgress(k)' = 0
      BY <1>0, InProgressIs, InProgressNext DEF AtMatch, InPass
    <3>2. OccursIn(batch, k, mask) = 0 /\ OccursIn(batch', k, mask') = 0
      BY <2>1, OccursNone
    <3>3. TotalIn(table, k) = prior[k] + OccursIn(batch, k, mask) + InProgress(k) + redone[k]
      BY <1>0 DEF Counted
    <3> QED BY <3>1, <3>2, <3>3
  <2> QED BY <2>2 DEF Counted
<1> QED BY <1>1, <1>2, <1>3, <1>4, <1>5, CountedNext DEF IInv

\* What a step that moves on to the next row does to the count.
LEMMA RowLeftCounts ==
  ASSUME Types, Counted, RowLeft, UNCHANGED <<table, batch, prior>>
  PROVE  Counted'
<1>1. ASSUME NEW k \in Keys
      PROVE  TotalIn(table', k) = prior'[k] + OccursIn(batch', k, mask') + InProgress(k)' + redone'[k]
  <2>1. InProgress(k) \in Nat /\ InProgress(k)' = 0 /\ redone'[k] = redone[k] + InProgress(k)
    BY InProgressIs, InProgressNext DEF RowLeft
  <2>2. prior[k] \in Nat /\ redone[k] \in Nat /\ OccursIn(batch, k, mask) \in Nat
    BY PlacesFinite DEF Types
  <2>3. TotalIn(table, k) = prior[k] + OccursIn(batch, k, mask) + InProgress(k) + redone[k]
    BY DEF Counted
  <2>4. /\ TotalIn(table', k) = TotalIn(table, k) /\ prior'[k] = prior[k]
        /\ OccursIn(batch', k, mask') = OccursIn(batch, k, mask)
    BY DEF RowLeft
  <2> QED BY <2>1, <2>2, <2>3, <2>4
<1> QED BY <1>1 DEF Counted

\* Going on to the next row without the one at pos keeps the types.
LEMMA RowLeftTypes ==
  ASSUME Types, InPass, RowLeft, UNCHANGED <<mode, entryNum, batch, prior, rehashes, phase, fetchVars>>,
         Ranges(lo, hi)', \A c \in KeyCols : TypeMin <= lo'[c] /\ hi'[c] <= TypeMax,
         dirty' \in [KeyCols -> BOOLEAN], needRehash' \in BOOLEAN
  PROVE  Types'
<1>1. pos' \in 1..Len(batch') + 1
  BY DEF Types, InPass, RowLeft
<1>2. redone' \in [Keys -> Nat]
  <2>1. ASSUME NEW k \in Keys PROVE redone[k] + InProgress(k) \in Nat
    BY InProgressIs DEF Types
  <2> QED BY <2>1 DEF RowLeft
<1> QED BY <1>1, <1>2 DEF Types, RowLeft, fetchVars

\* Passing a row that is in the table already keeps the invariant.
LEMMA SkipRowKeeps ==
  ASSUME IInv, SkipRow PROVE IInv'
<1> USE DEF SkipRow
<1>0. Types /\ Lookup /\ Counted /\ Fetches /\ Passes /\ RowLeft
  BY CountedIs DEF IInv
<1>1. Types'
  BY <1>0, RowLeftTypes DEF Types, hasherVars
<1>2. Lookup'
  BY <1>0, LookupKept
<1>3. Passes'
  <2>1. pos \in Nat /\ 1..pos' - 1 = 1..pos - 1 \cup {pos}
    BY <1>0 DEF Types, RowLeft
  <2>2. UNCHANGED <<mode, lo, hi, needRehash, table, batch, mask, rehashes, phase>>
    BY <1>0 DEF hasherVars, RowLeft
  <2> QED BY <1>0, <2>1, <2>2 DEF Passes, Single, Full, Passed, Covered
<1>4. Fetches'
  BY <1>0, FetchesNone DEF Fetches, fetchVars, InPass
<1>5. Counted'
  BY <1>0, RowLeftCounts
<1> QED BY <1>1, <1>2, <1>3, <1>4, <1>5, CountedNext DEF IInv

\* Going on to the next row with the one at pos done keeps the types.
LEMMA RowDoneTypes ==
  ASSUME Types, InPass, RowDone, phase' = "pass",
         UNCHANGED <<hasherVars, entryNum, batch, prior, rehashes, fetchVars>>
  PROVE  Types'
<1>1. pos' \in 1..Len(batch') + 1
  BY DEF Types, InPass, RowDone
<1>2. mask' \subseteq DOMAIN batch'
  BY DEF Types, InPass, RowDone
<1> QED BY <1>1, <1>2 DEF Types, RowDone, fetchVars, hasherVars

\* Passing a row without a match keeps the invariant.
LEMMA FilteredRowKeeps ==
  ASSUME IInv, FilteredRow PROVE IInv'
<1> USE DEF FilteredRow
<1>0. Types /\ Lookup /\ Counted /\ Fetches /\ Passes /\ RowDone
  BY CountedIs DEF IInv
<1>1. Types'
  BY <1>0, RowDoneTypes DEF InPass
<1>2. Lookup'
  BY <1>0, LookupKept
<1>3. Passes'
  <2>1. pos \in Nat /\ 1..pos' - 1 = 1..pos - 1 \cup {pos} /\ mask' = mask \cup {pos}
    BY <1>0 DEF Types, RowDone
  <2>2. UNCHANGED <<mode, lo, hi, needRehash, table, batch, rehashes, phase>>
    BY <1>0 DEF hasherVars
  <2> QED BY <1>0, <2>1, <2>2 DEF Passes, Single, Full, Passed, Covered
<1>4. Fetches'
  BY <1>0, FetchesNone DEF Fetches, fetchVars, InPass
<1>5. Counted'
  <2>1. ASSUME NEW k \in Keys
        PROVE  TotalIn(table', k) = prior'[k] + OccursIn(batch', k, mask') + InProgress(k)' + redone'[k]
    <3>1. InProgress(k) = 0 /\ InProgress(k)' = 0
      BY <1>0, InProgressIs, InProgressNext DEF AtMatch, RowDone
    <3>2. OccursIn(batch, k, mask \cup {pos}) = OccursIn(batch, k, mask)
      <4>1. /\ batch \in Seq(Seq(Keys)) /\ mask \in SUBSET DOMAIN batch
            /\ pos \in DOMAIN batch \ mask /\ Len(batch[pos]) = 0
        BY <1>0 DEF Types, InPass
      <4>2. Part(batch[pos], 0, k) = 0 /\ OccursIn(batch, k, mask) \in Nat
        BY <4>1, PartType, PlacesFinite
      <4>3. OccursIn(batch, k, mask \cup {pos}) =
              OccursIn(batch, k, mask) + Part(batch[pos], Len(batch[pos]), k)
        BY <4>1, OccursAdd, ZenonT(30)
      <4> QED BY <4>1, <4>2, <4>3
    <3>3. TotalIn(table, k) = prior[k] + OccursIn(batch, k, mask) + InProgress(k) + redone[k]
      BY <1>0 DEF Counted
    <3> QED BY <1>0, <3>1, <3>2, <3>3 DEF RowDone
  <2> QED BY <2>1 DEF Counted
<1> QED BY <1>1, <1>2, <1>3, <1>4, <1>5, CountedNext DEF IInv

\* The key that is being aggregated is a key of a row that is still to be done.
LEMMA KeyType ==
  ASSUME Types, AtMatch
  PROVE  /\ ThisKey \in Keys /\ batch[pos] \in Seq(Keys) /\ match \in 1..Len(batch[pos])
         /\ pos \in DOMAIN batch \ mask /\ mask \in SUBSET DOMAIN batch /\ phase = "pass"
         /\ Single => match = 1 /\ Len(batch[pos]) = 1
<1>1. batch[pos] \in Seq(Keys) /\ pos \in DOMAIN batch \ mask
  BY DEF Types, AtMatch, InPass
<1>2. match \in 1..Len(batch[pos])
  BY <1>1 DEF AtMatch
<1>3. ThisKey \in Keys
  BY <1>1, <1>2 DEF ThisKey
<1>4. Single => match = 1 /\ Len(batch[pos]) = 1
  <2>1. HAVE Single
  <2>2. Len(batch[pos]) \in Nat /\ Len(batch[pos]) <= 1
    BY <1>1, <2>1 DEF Single
  <2> DEFINE n == Len(batch[pos])
  <2>3. match \in 1..n /\ n \in Nat /\ n <= 1
    BY <1>2, <2>2
  <2> HIDE DEF n
  <2>4. match = 1 /\ n = 1
    BY <2>3
  <2> QED BY <2>4 DEF n
<1> QED BY <1>1, <1>2, <1>3, <1>4 DEF Types, AtMatch, InPass

\* Leaving a row for which the full table has no slot keeps the invariant.
LEMMA NoSlotKeeps ==
  ASSUME IInv, NoSlot PROVE IInv'
<1> USE DEF NoSlot
<1>0. Types /\ Lookup /\ Counted /\ Fetches /\ Passes /\ RowLeft
  BY CountedIs DEF IInv
<1>1. Types'
  BY <1>0, RowLeftTypes, ZenonT(30) DEF Types, hasherVars, AtMatch
<1>2. Lookup'
  BY <1>0, LookupKept
<1>3. Passes'
  <2>1. pos \in Nat /\ 1..pos' - 1 = 1..pos - 1 \cup {pos}
    BY <1>0 DEF Types, RowLeft
  <2>2. UNCHANGED <<mode, lo, hi, needRehash, table, batch, mask, rehashes, phase>>
    BY <1>0 DEF hasherVars, RowLeft
  <2>3. ASSUME mode = "direct" PROVE Full
    <3>1. Slot(ThisKey, Hasher, table, entryNum) = -1
      BY <2>3
    <3>2. /\ Fits(Hasher, entryNum) /\ Sound(table, Hasher, entryNum)
          /\ entryNum = EntryLimit /\ entryNum \in Nat
      BY <1>0, <2>3, AggAssumption DEF Lookup
    <3>3. ThisKey \in Keys /\ Hashable(ThisKey, Hasher)
      BY <1>0, <2>3, KeyType DEF Hashable, Hasher
    <3>4. DOMAIN table = 0..entryNum - 1
      <4>1. -1 \notin 0..entryNum - 1
        BY <3>2
      <4> QED BY <3>1, <3>2, <3>3, <4>1, SlotFinds
    <3> QED BY <3>2, <3>4 DEF Full
  <2>4. ASSUME mode = "range", Single PROVE Passed(pos) /\ needRehash
    <3>1. Covered(ThisKey) /\ needRehash
      BY <2>4
    <3> QED BY <1>0, <2>4, <3>1, KeyType DEF Passed, ThisKey
  <2> QED BY <1>0, <2>1, <2>2, <2>3, <2>4 DEF Passes, Single, Full, Passed, Covered
<1>4. Fetches'
  BY <1>0, FetchesNone DEF Fetches, fetchVars, InPass, AtMatch
<1>5. Counted'
  BY <1>0, RowLeftCounts
<1> QED BY <1>1, <1>2, <1>3, <1>4, <1>5, CountedNext DEF IInv

\* Ending a batch of which every row is done keeps the invariant.
LEMMA BatchDoneKeeps ==
  ASSUME IInv, BatchDone PROVE IInv'
<1> USE DEF BatchDone
<1>0. Types /\ Lookup /\ Counted /\ Fetches
  BY CountedIs DEF IInv
<1>1. ~AtMatch /\ match = 1 /\ mask = DOMAIN batch /\ batch \in Seq(Seq(Keys)) /\ phase = "pass"
  BY <1>0 DEF Types, EndOfPass, AtMatch, InPass, AllRowsSet
<1>2. ASSUME NEW k \in Keys
      PROVE  prior'[k] = prior[k] + OccursIn(batch, k, mask) /\ prior'[k] \in Nat
  <2>1. Occurrences(k, DOMAIN batch) = OccursIn(batch, k, mask)
    BY <1>1, Zenon DEF Occurrences, OccursIn, Places
  <2>2. OccursIn(batch, k, mask) \in Nat /\ prior[k] \in Nat
    BY <1>0, <1>1, PlacesFinite DEF Types
  <2> QED BY <2>1, <2>2
<1>3. Types'
  <2>1. prior' \in [Keys -> Nat]
    <3>1. prior' = [k \in Keys |-> prior'[k]]
      OBVIOUS
    <3> QED BY <1>2, <3>1
  <2>2. batch' \in Seq(Seq(Keys)) /\ pos' \in 1..Len(batch') + 1 /\ mask' \subseteq DOMAIN batch'
    OBVIOUS
  <2> QED BY <1>0, <1>1, <2>1, <2>2 DEF Types, hasherVars, fetchVars
<1>4. Lookup'
  BY <1>0, LookupKept
<1>5. Passes'
  BY DEF Passes
<1>6. Fetches'
  BY <1>0, <1>1, FetchesNone DEF Fetches, fetchVars
<1>7. Counted'
  <2>1. ASSUME NEW k \in Keys
        PROVE  TotalIn(table', k) = prior'[k] + OccursIn(batch', k, mask') + InProgress(k)' + redone'[k]
    <3>1. InProgress(k) = 0 /\ InProgress(k)' = 0
      BY <1>0, <1>1, InProgressIs, InProgressNext
    <3>2. OccursIn(batch', k, mask') = 0
      BY OccursNone
    <3>3. TotalIn(table, k) = prior[k] + OccursIn(batch, k, mask) + InProgress(k) + redone[k]
      BY <1>0 DEF Counted
    <3>4. prior'[k] \in Nat /\ redone[k] \in Nat
      BY <1>0, <1>2 DEF Types
    <3> QED BY <1>2, <3>1, <3>2, <3>3, <3>4
  <2> QED BY <2>1 DEF Counted
<1> QED BY <1>3, <1>4, <1>5, <1>6, <1>7, CountedNext DEF IInv

\* Giving up keeps the invariant.
LEMMA SpillKeeps ==
  ASSUME IInv, SpillNotSupported PROVE IInv'
<1> USE DEF SpillNotSupported
<1>0. Types /\ Lookup /\ Counted /\ Fetches /\ Passes
  BY CountedIs DEF IInv
<1>1. ~AtMatch /\ match = 1 /\ phase = "pass" /\ mode = "direct"
  BY <1>0 DEF Types, EndOfPass, AtMatch, InPass, AtLimit
<1>2. UNCHANGED <<mode, table, batch, mask, prior, redone>>
  BY DEF hasherVars, batchVars
<1>3. Types'
  BY <1>0, <1>1 DEF Types, hasherVars, fetchVars, batchVars, AtMatch
<1>4. Lookup'
  BY <1>0, LookupKept
<1>5. Passes'
  <2>1. PICK i \in DOMAIN batch : i \notin mask
    BY <1>0, ZenonT(30) DEF Types, AllRowsSet
  <2>2. i \in 1..pos - 1
    BY <1>0 DEF Types, EndOfPass
  <2>3. Full
    BY <1>0, <1>1, <2>1, <2>2 DEF Passes
  <2> QED BY <1>1, <1>2, <2>3 DEF Passes, Full
<1>6. Fetches'
  BY <1>0, <1>1, FetchesNone DEF Fetches, fetchVars
<1>7. Counted'
  <2>1. ASSUME NEW k \in Keys PROVE InProgress(k)' = InProgress(k)
    BY <1>0, <1>1, InProgressIs, InProgressNext
  <2> QED BY <1>0, <1>2, <2>1 DEF Counted
<1> QED BY <1>3, <1>4, <1>5, <1>6, <1>7, CountedNext DEF IInv

\* Leaving a row whose key is out of range, and widening the ranges, keeps the invariant.
LEMMA OutOfRangeKeeps ==
  ASSUME IInv, OutOfRange PROVE IInv'
<1> USE DEF OutOfRange
<1>0. Types /\ Lookup /\ Counted /\ Fetches /\ Passes /\ RowLeft
  BY CountedIs DEF IInv
<1> DEFINE k == ThisKey
           g == Grown(k)
<1>1. /\ k \in Keys /\ lo' = g.lo /\ hi' = g.hi
      /\ Wider(g) /\ CoveredBy(k, g.lo, g.hi)
  BY <1>0, KeyType, GrownWider
<1>2. Types'
  <2>1. Ranges(lo', hi') /\ \A c \in KeyCols : TypeMin <= lo'[c] /\ hi'[c] <= TypeMax
    BY <1>1 DEF Wider
  <2>2. dirty' \in [KeyCols -> BOOLEAN]
    <3>1. dirty \in [KeyCols -> BOOLEAN]
      BY <1>0 DEF Types
    <3>2. ASSUME NEW c \in KeyCols
          PROVE  (dirty[c] \/ ~InRange(ThisKey[c], lo[c], hi[c])) \in BOOLEAN
      OBVIOUS
    <3> QED BY <3>1, <3>2
  <2> QED BY <1>0, <2>1, <2>2, RowLeftTypes DEF AtMatch
<1>3. ASSUME NEW m \in Keys, CoveredBy(m, lo, hi) PROVE CoveredBy(m, lo', hi')
  BY <1>0, <1>1, <1>3, StillCovered DEF Types
<1>4. Lookup'
  <2>1. Hasher'.mode = "range" /\ Hasher'.lo = lo' /\ Hasher'.hi = hi' /\ mode' # "direct"
    BY DEF Hasher
  <2>2. ASSUME NEW s \in DOMAIN table PROVE Hashable(table[s].key, Hasher')
    <3>1. table[s].key \in Keys /\ CoveredBy(table[s].key, lo, hi)
      BY <1>0 DEF Lookup, IsTable, Entry, Hashable, Hasher
    <3> QED BY <1>3, <2>1, <3>1 DEF Hashable
  <2> QED BY <1>0, <2>1, <2>2 DEF Lookup
<1>5. Passes'
  <2>1. pos \in Nat /\ 1..pos' - 1 = 1..pos - 1 \cup {pos} /\ DOMAIN batch = 1..Len(batch)
    <3>1. pos \in 1..Len(batch) + 1 /\ batch \in Seq(Seq(Keys)) /\ pos' = pos + 1
      BY <1>0, Zenon DEF Types, RowLeft
    <3> QED BY <3>1
  <2>2. UNCHANGED <<mode, table, batch, mask, rehashes, phase>> /\ mode' = "range" /\ phase = "pass"
    BY <1>0, KeyType, ZenonT(30) DEF RowLeft
  <2>3. ASSUME NEW i \in DOMAIN batch, Passed(i) PROVE Passed(i)'
    <3>1. batch[i] # <<>> /\ CoveredBy(batch[i][1], lo, hi)
      BY <2>3, CoveredIs DEF Passed
    <3>2. batch[i][1] \in Keys
      <4>1. batch[i] \in Seq(Keys)
        BY <1>0 DEF Types
      <4> QED BY <3>1, <4>1
    <3>3. CoveredBy(batch[i][1], lo', hi')
      BY <1>3, <3>1, <3>2
    <3> QED BY <2>2, <3>1, <3>3 DEF Passed, Covered, CoveredBy
  <2>4. ASSUME Single, NEW i, i = pos PROVE Passed(i)' /\ rehashes # 1
    <3>1. match = 1 /\ k = batch[i][1] /\ batch[i] # <<>> /\ i \in DOMAIN batch \ mask
      BY <1>0, <2>4, KeyType DEF ThisKey
    <3>2. Passed(i)'
      BY <1>1, <2>2, <3>1 DEF Passed, Covered, CoveredBy
    <3>3. ~Passed(i)
      BY <3>1 DEF Passed
    <3> QED BY <1>0, <2>2, <2>4, <3>1, <3>2, <3>3 DEF Passes
  <2>5. Single' => Single
    BY <2>2 DEF Single
  <2>6. ASSUME Single, NEW i \in 1..pos' - 1 PROVE i \in mask \/ Passed(i)'
    <3>1. CASE i = pos
      BY <2>4, <2>6, <3>1
    <3>2. CASE i \in 1..pos - 1
      <4>1. i \in mask \/ Passed(i)
        BY <1>0, <2>2, <2>6, <3>2 DEF Passes
      <4>2. i \in DOMAIN batch
        BY <1>0, <2>1, <3>2 DEF Types
      <4> QED BY <2>3, <4>1, <4>2
    <3> QED BY <2>1, <2>6, <3>1, <3>2
  <2>7. Single => rehashes <= 1
    BY <1>0, <2>2 DEF Passes
  <2> QED BY <2>2, <2>4, <2>5, <2>6, <2>7 DEF Passes
<1>6. Fetches'
  BY <1>0, FetchesNone DEF Fetches, fetchVars, InPass, AtMatch
<1>7. Counted'
  BY <1>0, RowLeftCounts
<1> QED BY <1>2, <1>4, <1>5, <1>6, <1>7, CountedNext DEF IInv

\* What getGroupTargetPtr and the aggregate function do to the table.
LEMMA AggregateTable ==
  ASSUME Types, Lookup, Aggregate
  PROVE  /\ phase' = "pass" /\ DOMAIN table \subseteq DOMAIN table'
         /\ Sound(table', Hasher, entryNum) /\ ~needRehash /\ Fits(Hasher, entryNum)
         /\ \A m \in Keys :
              /\ TotalIn(table, m) \in Nat
              /\ TotalIn(table', m) = TotalIn(table, m) + (IF ThisKey = m THEN 1 ELSE 0)
<1> DEFINE k == ThisKey
           n == entryNum
           h == Hasher
           s == Slot(k, h, table, n)
           old == IF s \in DOMAIN table THEN table[s] ELSE [key |-> k, count |-> 0]
           row == [old EXCEPT !.count = @ + 1]
<1>1. k \in Keys /\ (mode = "range" => Covered(k) /\ ~needRehash) /\ s # -1
  BY KeyType DEF Aggregate
<1>2. table' = Put(table, s, row) /\ phase' = IF s < n THEN "pass" ELSE "broken"
  BY DEF Aggregate
<1>3. ~needRehash /\ Fits(h, n) /\ Sound(table, h, n) /\ Hashable(k, h)
  <2>1. ~needRehash
    BY <1>1 DEF Types, Lookup
  <2> QED BY <1>1, <2>1, CoveredIs DEF Lookup, Hashable, Hasher
<1> HIDE DEF h, n, k
<1>4. /\ s \in 0..n - 1 /\ (s \in DOMAIN table => table[s].key = k)
      /\ (s \notin DOMAIN table => \A u \in DOMAIN table : table[u].key # k)
  BY <1>1, <1>3, SlotFinds
<1>5. IsTable(table, n) /\ OneRowPerKey(table) /\ n \in Nat
  BY <1>3, SoundUnique DEF Sound, Fits
<1>6. old \in Entry /\ old.key = k /\ old.count = IF s \in DOMAIN table THEN table[s].count ELSE 0
  <2> HIDE DEF s
  <2>1. CASE s \in DOMAIN table
    BY <1>4, <1>5, <2>1 DEF IsTable
  <2>2. CASE s \notin DOMAIN table
    BY <1>1, <2>2 DEF Entry
  <2> QED BY <2>1, <2>2
<1> HIDE DEF old
<1>7. row \in Entry /\ row.key = k /\ row.count = old.count + 1
  BY <1>6 DEF Entry
<1> HIDE DEF row
<1>8. Sound(table', h, n)
  <2>1. Slot(row.key, h, table, n) # -1 /\ Hashable(row.key, h) /\ s = Slot(row.key, h, table, n)
    BY <1>1, <1>3, <1>7
  <2>2. Sound(Put(table, Slot(row.key, h, table, n), row), h, n)
    BY <1>3, <1>7, <2>1, PutSound
  <2> QED BY <1>2, <2>1, <2>2
<1>9. IsTable(table', n) /\ OneRowPerKey(table')
  BY <1>8, SoundUnique DEF Sound
<1> HIDE DEF s
<1>10. ASSUME NEW m \in Keys
       PROVE  /\ TotalIn(table, m) \in Nat
              /\ TotalIn(table', m) = TotalIn(table, m) + (IF k = m THEN 1 ELSE 0)
  <2>1. /\ TotalIn(table, row.key) = IF s \in DOMAIN table THEN table[s].count ELSE 0
        /\ TotalIn(Put(table, s, row), m) = IF m = row.key THEN row.count ELSE TotalIn(table, m)
    <3>1. s \in DOMAIN table => table[s].key = row.key
      BY <1>4, <1>7
    <3>2. s \notin DOMAIN table => \A u \in DOMAIN table : table[u].key # row.key
      BY <1>4, <1>7
    <3>3. IsTable(Put(table, s, row), n) /\ OneRowPerKey(Put(table, s, row))
      BY <1>2, <1>9
    <3> QED BY <1>5, <3>1, <3>2, <3>3, TotalPut
  <2>2. TotalIn(table, m) \in Nat
    <3>1. CASE \E u \in DOMAIN table : table[u].key = m
      <4>1. PICK u \in DOMAIN table : table[u].key = m
        BY <3>1
      <4>2. TotalIn(table, table[u].key) = table[u].count
        BY <1>5, TotalOne
      <4> QED BY <1>5, <4>1, <4>2 DEF IsTable, Entry
    <3>2. CASE ~\E u \in DOMAIN table : table[u].key = m
      BY <3>2, TotalNone
    <3> QED BY <3>1, <3>2
  <2>3. TotalIn(table, k) = old.count
    BY <1>6, <1>7, <2>1
  <2>4. CASE m = k
    BY <1>2, <1>7, <2>1, <2>2, <2>3, <2>4
  <2>5. CASE m # k
    BY <1>2, <1>7, <2>1, <2>2, <2>5
  <2> QED BY <2>2, <2>4, <2>5
<1>11. phase' = "pass"
  BY <1>2, <1>4, <1>5
<1>12. DOMAIN table \subseteq DOMAIN table'
  BY <1>2 DEF Put
<1> QED BY <1>3, <1>8, <1>10, <1>11, <1>12 DEF h, n, k

\* Aggregating a match keeps the invariant: its row is found or made, and counted.
LEMMA AggregateKeeps ==
  ASSUME IInv, Aggregate PROVE IInv'
<1> DEFINE last == match = Len(batch[pos])
<1>0. Types /\ Lookup /\ Counted /\ Fetches /\ Passes
  BY CountedIs DEF IInv
<1>1. AtMatch /\ UNCHANGED <<hasherVars, entryNum, batch, batches, prior, rehashes, fetchVars>>
  BY DEF Aggregate
<1>2. /\ phase' = "pass" /\ DOMAIN table \subseteq DOMAIN table' /\ ~needRehash
      /\ Sound(table', Hasher, entryNum) /\ Fits(Hasher, entryNum)
  BY <1>0, AggregateTable
<1>3. /\ ThisKey \in Keys /\ batch[pos] \in Seq(Keys) /\ match \in 1..Len(batch[pos])
      /\ pos \in DOMAIN batch \ mask /\ mask \in SUBSET DOMAIN batch /\ phase = "pass"
      /\ Single => match = 1 /\ Len(batch[pos]) = 1
  BY <1>0, <1>1, KeyType
<1>4. \/ last /\ RowDone
      \/ ~last /\ match' = match + 1 /\ UNCHANGED <<mask, pos, redone>>
  BY DEF Aggregate
<1>5. UNCHANGED <<mode, lo, hi, needRehash, Hasher, rehashes, batch, entryNum>>
  BY <1>1 DEF hasherVars, Hasher
<1> HIDE DEF last
<1>6. Types'
  <2>1. CASE RowDone
    BY <1>0, <1>1, <1>2, <2>1, RowDoneTypes DEF AtMatch
  <2>2. CASE ~last /\ match' = match + 1 /\ UNCHANGED <<mask, pos, redone>>
    <3>1. match' \in 1..Len(batch[pos])
      BY <1>3, <2>2 DEF last
    <3>2. match' \in DOMAIN batch[pos]
      BY <1>3, <3>1
    <3>3. AtMatch'
      BY <1>1, <1>2, <2>2, <3>2 DEF AtMatch, InPass
    <3>4. match' \in Nat \ {0}
      BY <1>3, <3>1
    <3> QED BY <1>0, <1>1, <1>2, <2>2, <3>3, <3>4 DEF Types, hasherVars, fetchVars
  <2> QED BY <1>4, <2>1, <2>2
<1>7. Lookup'
  <2>1. OneRowPerKey(table') /\ IsTable(table', entryNum)
    BY <1>2, SoundUnique DEF Sound
  <2> QED BY <1>0, <1>2, <1>5, <2>1 DEF Lookup, Sound
<1>8. Passes'
  <2>1. mode = "direct" /\ Full => Full'
    <3>1. DOMAIN table' \subseteq 0..entryNum - 1
      BY <1>2 DEF Sound, IsTable
    <3> QED BY <1>0, <1>2, <3>1, ZenonT(30) DEF Full, Lookup
  <2>2. pos \in Nat
    BY <1>0 DEF Types
  <2>3. /\ mask \subseteq mask' /\ mode' = mode /\ Single' = Single
        /\ \A i \in 1..pos' - 1 : i \in 1..pos - 1 \/ i \in mask'
    <3>1. CASE RowDone
      BY <1>5, <2>2, <3>1 DEF RowDone, Single
    <3>2. CASE UNCHANGED <<mask, pos>>
      BY <1>5, <3>2 DEF Single
    <3> QED BY <1>4, <3>1, <3>2
  <2>4. ASSUME NEW i PROVE Passed(i)' = Passed(i)
    BY <1>5 DEF Passed, Covered
  <2> QED BY <1>0, <1>2, <1>3, <1>5, <2>1, <2>3, <2>4 DEF Passes
<1>9. Fetches'
  BY <1>0, <1>1, <1>2, <1>3, FetchesNone DEF Fetches, fetchVars
<1>10. Counted'
  <2>1. ASSUME NEW m \in Keys
        PROVE  TotalIn(table', m) = prior'[m] + OccursIn(batch', m, mask') + InProgress(m)' + redone'[m]
    <3> DEFINE one == IF ThisKey = m THEN 1 ELSE 0
               part == Part(batch[pos], match, m)
    <3>1. TotalIn(table, m) \in Nat /\ TotalIn(table', m) = TotalIn(table, m) + one
      BY <1>0, AggregateTable
    <3>2. InProgress(m) \in Nat /\ part = InProgress(m) + one
      <4>1. InProgress(m) \in Nat /\ InProgress(m) = Part(batch[pos], match - 1, m)
        BY <1>0, <1>1, InProgressIs
      <4>2. match \in Nat \ {0}
        BY <1>0 DEF Types
      <4>3. Part(batch[pos], match, m) =
              Part(batch[pos], match - 1, m) + (IF batch[pos][match] = m THEN 1 ELSE 0)
        BY <4>2, PartStep
      <4> QED BY <4>1, <4>3 DEF ThisKey
    <3>3. TotalIn(table, m) = prior[m] + OccursIn(batch, m, mask) + InProgress(m) + redone[m]
      BY <1>0 DEF Counted
    <3>4. /\ prior[m] \in Nat /\ redone[m] \in Nat /\ OccursIn(batch, m, mask) \in Nat
          /\ prior' = prior /\ batch' = batch
      BY <1>0, <1>1, PlacesFinite DEF Types
    <3>5. one \in Nat
      OBVIOUS
    <3> HIDE DEF one, part
    <3>6. TotalIn(table', m) = prior[m] + OccursIn(batch, m, mask) + part + redone[m]
      BY <3>1, <3>2, <3>3, <3>4, <3>5
    <3>7. CASE last /\ RowDone
      <4>1. InProgress(m)' = 0
        BY <3>7, InProgressNext DEF RowDone
      <4>2. OccursIn(batch, m, mask \cup {pos}) = OccursIn(batch, m, mask) + part
        BY <1>0, <1>3, <3>7, OccursAdd, ZenonT(30) DEF part, last, Types
      <4>3. part \in Nat
        BY <3>2, <3>5
      <4> QED BY <3>4, <3>6, <3>7, <4>1, <4>2, <4>3 DEF RowDone
    <3>8. CASE ~last /\ match' = match + 1 /\ UNCHANGED <<mask, pos, redone>>
      <4>1. match \in Nat
        BY <1>0 DEF Types
      <4>2. 1..match' - 1 = 1..match
        BY <3>8, <4>1
      <4>3. InPass' /\ pos' \notin mask'
        BY <1>1, <1>2, <3>8 DEF InPass, AtMatch
      <4>4. InProgress(m)' = Cardinality({j \in 1..match : batch[pos][j] = m})
        BY <3>4, <3>8, <4>2, <4>3, Zenon DEF InProgress
      <4>5. InProgress(m)' = part
        BY <4>4, Zenon DEF part, Part, Prefix
      <4> QED BY <3>4, <3>6, <3>8, <4>5
    <3> QED BY <1>4, <3>7, <3>8
  <2> QED BY <2>1 DEF Counted
<1> QED BY <1>6, <1>7, <1>8, <1>9, <1>10, CountedNext DEF IInv

\* The rehash before another pass keeps the invariant: every row of the table is moved.
LEMMA RetryKeeps ==
  ASSUME IInv, Retry PROVE IInv'
<1>0. Types /\ Lookup /\ Counted /\ Fetches /\ Passes
  BY CountedIs DEF IInv
<1>1. /\ phase = "pass" /\ pos \notin DOMAIN batch /\ mask # DOMAIN batch /\ Rehash
      /\ pos' = 1 /\ rehashes' = Min({rehashes + 1, 2})
      /\ UNCHANGED <<batch, mask, match, batches, prior, redone, fetchVars>>
  BY DEF Retry, EndOfPass, AllRowsSet
<1>2. mode = "range"
  BY <1>0 DEF Retry, AtLimit, Types, Lookup
<1>3. ~AtMatch /\ match = 1
  BY <1>0, <1>1 DEF AtMatch, InPass, Types
<1>4. /\ mode' \in {"range", "direct"} /\ entryNum' \in 1..EntryLimit
      /\ mode' = "direct" => entryNum' = EntryLimit
      /\ Wider([lo |-> lo', hi |-> hi'])
      /\ Fits(Hasher', entryNum') /\ Sound(table', Hasher', entryNum')
      /\ \A k \in Keys : TotalIn(table', k) = TotalIn(table, k)
      /\ phase' = "pass"
  BY <1>0, <1>1, <1>2, RehashTable
<1>5. needRehash' = FALSE /\ dirty' = [c \in KeyCols |-> FALSE]
  BY <1>1, ZenonT(30) DEF Rehash
<1>6. rehashes' \in 0..2 /\ (rehashes = 0 => rehashes' = 1)
  BY <1>0, <1>1, MinTwo, ZenonT(30) DEF Types
<1>7. Types'
  <2>1. Ranges(lo', hi') /\ \A c \in KeyCols : TypeMin <= lo'[c] /\ hi'[c] <= TypeMax
    BY <1>4 DEF Wider
  <2>2. dirty' \in [KeyCols -> BOOLEAN] /\ needRehash' \in BOOLEAN
    BY <1>5, ZenonT(30)
  <2>3. pos' \in 1..Len(batch') + 1
    BY <1>0, <1>1 DEF Types
  <2> QED BY <1>0, <1>1, <1>3, <1>4, <1>6, <2>1, <2>2, <2>3 DEF Types, fetchVars
<1>8. Lookup'
  <2>1. OneRowPerKey(table') /\ IsTable(table', entryNum')
    BY <1>4, SoundUnique DEF Sound
  <2> QED BY <1>4, <1>5, <2>1 DEF Lookup, Sound
<1>9. Passes'
  <2>1. Single' = Single
    BY <1>1 DEF Single
  <2>2. pos = Len(batch) + 1 /\ DOMAIN batch = 1..Len(batch) /\ mask \subseteq DOMAIN batch
    <3>1. batch \in Seq(Seq(Keys)) /\ pos \in 1..Len(batch) + 1 /\ mask \subseteq DOMAIN batch
      BY <1>0 DEF Types
    <3> QED BY <1>1, <3>1
  <2>3. 1..pos - 1 = DOMAIN batch
    <3>1. Len(batch) \in Nat
      BY <1>0 DEF Types
    <3> QED BY <2>2, <3>1
  <2>4. ASSUME Single PROVE rehashes = 0
    <3>1. rehashes <= 1 /\ (rehashes = 1 => 1..pos - 1 \subseteq mask)
      BY <1>0, <1>1, <1>2, <2>4 DEF Passes
    <3>2. rehashes # 1
      BY <1>1, <2>2, <2>3, <3>1, ZenonT(30)
    <3>3. rehashes \in 0..2
      BY <1>0 DEF Types
    <3> QED BY <3>1, <3>2, <3>3
  <2>5. ASSUME Single, NEW i \in DOMAIN batch \ mask PROVE Passed(i)'
    <3>1. Passed(i)
      BY <1>0, <1>1, <1>2, <2>3, <2>5, ZenonT(30) DEF Passes
    <3>2. batch[i] # <<>> /\ CoveredBy(batch[i][1], lo, hi)
      BY <3>1, CoveredIs DEF Passed
    <3>3. batch[i][1] \in Keys
      <4>1. batch[i] \in Seq(Keys)
        BY <1>0 DEF Types
      <4> QED BY <3>2, <4>1
    <3>4. CoveredBy(batch[i][1], lo', hi')
      <4> DEFINE h == [lo |-> lo', hi |-> hi']
      <4>1. h.lo = lo' /\ h.hi = hi' /\ Wider(h)
        BY <1>4
      <4> HIDE DEF h
      <4>2. CoveredBy(batch[i][1], h.lo, h.hi)
        BY <1>0, <3>2, <3>3, <4>1, StillCovered DEF Types
      <4> QED BY <4>1, <4>2
    <3> QED BY <1>1, <3>2, <3>4 DEF Passed, Covered, CoveredBy
  <2>6. 1..pos' - 1 = {}
    BY <1>1
  <2> QED BY <1>1, <1>4, <1>5, <1>6, <2>1, <2>4, <2>5, <2>6 DEF Passes
<1>10. Fetches'
  BY <1>0, <1>1, <1>4, FetchesNone DEF Fetches, fetchVars
<1>11. Counted'
  <2>1. ASSUME NEW k \in Keys PROVE InProgress(k)' = InProgress(k)
    BY <1>0, <1>1, <1>3, InProgressIs, InProgressNext
  <2> QED BY <1>0, <1>1, <1>4, <2>1, ZenonT(30) DEF Counted
<1> QED BY <1>7, <1>8, <1>9, <1>10, <1>11, CountedNext DEF IInv

\* Beginning to fetch keeps the invariant.
LEMMA NoMoreInputKeeps ==
  ASSUME IInv, NoMoreInput PROVE IInv'
<1> USE DEF NoMoreInput
<1>0. Types /\ Lookup /\ Counted /\ Fetches
  BY CountedIs DEF IInv
<1>1. DOMAIN table \in SUBSET (0..entryNum - 1) /\ entryNum \in Nat /\ out = <<>>
  BY <1>0 DEF Types, Lookup, IsTable, Fetches
<1>2. iter' \in Nat /\ \A s \in DOMAIN table : iter' <= s
  BY <1>1, IteratorAt, ZenonT(30)
<1>3. UNCHANGED <<mode, table, batch, mask, match, prior, redone, out>>
  BY DEF hasherVars, batchVars
<1>4. match = 1
  BY <1>0 DEF Types, AtMatch, InPass
<1>5. Types'
  BY <1>0, <1>2, <1>4, ZenonT(30) DEF Types, hasherVars, batchVars
<1>6. Lookup'
  BY <1>0, LookupKept
<1>7. Passes'
  BY DEF Passes
<1>8. Fetches'
  <2>1. Pending' = DOMAIN table
    BY <1>1, <1>2, <1>3, ZenonT(30) DEF Pending
  <2>2. DOMAIN out' = {}
    BY <1>1, <1>3
  <2> QED BY <1>1, <1>3, <2>1, <2>2 DEF Fetches
<1>9. Counted'
  <2>1. ASSUME NEW k \in Keys PROVE InProgress(k)' = InProgress(k)
    BY <1>0, InProgressIs, InProgressNext DEF AtMatch, InPass
  <2> QED BY <1>0, <1>3, <2>1 DEF Counted
<1> QED BY <1>5, <1>6, <1>7, <1>8, <1>9, CountedNext DEF IInv

\* Fetching a chunk keeps the invariant: the iterator goes on behind it.
LEMMA FetchResultsKeeps ==
  ASSUME IInv, FetchResults PROVE IInv'
<1> DEFINE rest == Pending \ Chunk
<1>0. Types /\ Lookup /\ Counted /\ Fetches
  BY CountedIs DEF IInv
<1>1. /\ phase = "fetch" /\ out' = Append(out, Chunk) /\ iter' = Min(rest \cup {entryNum})
      /\ phase' = IF rest = {} THEN "done" ELSE "fetch"
      /\ UNCHANGED <<hasherVars, entryNum, table, batchVars>>
  BY Zenon DEF FetchResults, Chunk
<1>2. /\ Pending \in SUBSET (0..entryNum - 1) /\ Chunk \in SUBSET Pending
      /\ \A s \in Chunk, r \in Pending \ Chunk : s < r
      /\ Chunk = {} => Pending = {}
  BY <1>0, ChunkFirst
<1>3. /\ entryNum \in Nat /\ DOMAIN table \subseteq 0..entryNum - 1
      /\ iter \in Nat /\ out \in Seq(SUBSET Nat)
  BY <1>0 DEF Types, Lookup, IsTable
<1>4. UNCHANGED <<mode, table, batch, mask, match, prior, redone>> /\ match = 1
  BY <1>0, <1>1 DEF hasherVars, batchVars, Types, AtMatch, InPass
<1>5. /\ iter' \in rest \cup {entryNum} /\ iter' \in Nat
      /\ \A s \in rest : iter' <= s
  <2>1. rest \in SUBSET (0..entryNum - 1)
    BY <1>2
  <2> HIDE DEF rest
  <2> QED BY <1>1, <1>3, <2>1, IteratorAt, ZenonT(30)
<1>6. Pending' = rest
  <2>1. ASSUME NEW s \in DOMAIN table, s >= iter' PROVE s \in rest
    <3>1. s \in 0..entryNum - 1 /\ s < entryNum /\ s \in Int
      BY <1>3
    <3>2. iter' # entryNum
      BY <1>5, <2>1, <3>1
    <3>3. iter' \in rest
      BY <1>5, <3>2
    <3>4. iter' \in Pending /\ iter <= iter'
      BY <3>3 DEF Pending
    <3>5. s >= iter
      BY <1>3, <1>5, <2>1, <3>1, <3>4
    <3>6. s \in Pending
      BY <3>5 DEF Pending
    <3>7. s \notin Chunk
      BY <1>2, <1>5, <2>1, <3>1, <3>3
    <3> QED BY <3>6, <3>7
  <2>2. ASSUME NEW s \in rest PROVE s \in DOMAIN table /\ s >= iter'
    <3>1. s \in Pending /\ s \in Int
      BY <1>2
    <3> QED BY <1>5, <3>1 DEF Pending
  <2> QED BY <1>4, <2>1, <2>2 DEF Pending
<1>7. Types'
  <2>1. Chunk \in SUBSET Nat
    BY <1>2
  <2>2. out' \in Seq(SUBSET Nat)
    BY <1>1, <1>3, <2>1
  <2>3. phase' \in {"fetch", "done"}
    BY <1>1
  <2> QED BY <1>0, <1>1, <1>4, <1>5, <2>2, <2>3 DEF Types, hasherVars, batchVars
<1>8. Lookup'
  BY <1>0, <1>1, LookupKept
<1>9. Passes'
  BY <1>1 DEF Passes
<1>10. Fetches'
  <2>1. /\ DOMAIN out' = DOMAIN out \cup {Len(out) + 1} /\ Len(out) + 1 \notin DOMAIN out
        /\ out'[Len(out) + 1] = Chunk /\ \A i \in DOMAIN out : out'[i] = out[i]
    BY <1>1, <1>3
  <2>2. UNION {out[i] : i \in DOMAIN out} = DOMAIN table \ Pending
    BY <1>0, <1>1 DEF Fetches
  <2>3. \A i, j \in DOMAIN out' : i # j => out'[i] \cap out'[j] = {}
    <3>1. \A i \in DOMAIN out : out[i] \cap Chunk = {}
      BY <1>2, <2>2, ZenonT(30)
    <3> QED BY <1>0, <2>1, <3>1 DEF Fetches
  <2>4. \A i \in DOMAIN out' : out'[i] = {} => DOMAIN table' = {}
    <3>1. ASSUME Chunk = {} PROVE DOMAIN table = {}
      <4>1. Pending = {}
        BY <1>2, <3>1
      <4>2. out = <<>>
        BY <1>0, <1>1, <4>1 DEF Fetches
      <4>3. UNION {out[i] : i \in DOMAIN out} = {}
        BY <4>2
      <4> QED BY <2>2, <4>1, <4>3, ZenonT(30)
    <3> QED BY <1>0, <1>4, <2>1, <3>1 DEF Fetches
  <2>5. UNION {out'[i] : i \in DOMAIN out'} = DOMAIN table' \ Pending'
    <3>1. UNION {out'[i] : i \in DOMAIN out'} =
            (UNION {out[i] : i \in DOMAIN out}) \cup Chunk
      BY <2>1
    <3>2. Pending \subseteq DOMAIN table
      BY DEF Pending
    <3> QED BY <1>2, <1>4, <1>6, <2>2, <3>1, <3>2
  <2>6. phase' = "fetch" => Pending' # {}
    BY <1>1, <1>6
  <2>7. phase' = "done" => Pending' = {}
    BY <1>1, <1>6
  <2>8. phase' \in {"fetch", "done"}
    BY <1>1
  <2> QED BY <2>3, <2>4, <2>5, <2>6, <2>7, <2>8 DEF Fetches
<1>11. Counted'
  <2>1. ASSUME NEW k \in Keys PROVE InProgress(k)' = InProgress(k)
    BY <1>0, <1>1, <1>4, InProgressIs, InProgressNext DEF AtMatch, InPass
  <2> QED BY <1>0, <1>4, <2>1 DEF Counted
<1> QED BY <1>7, <1>8, <1>9, <1>10, <1>11, CountedNext DEF IInv

\* Every step preserves the invariant.
LEMMA InvNext == IInv /\ [Next]_vars => IInv'
<1> SUFFICES ASSUME IInv, [Next]_vars PROVE IInv'
  OBVIOUS
<1>1. CASE ProcessNextBatch
  BY <1>1, ProcessNextBatchKeeps
<1>2. CASE SkipRow
  BY <1>2, SkipRowKeeps
<1>3. CASE FilteredRow
  BY <1>3, FilteredRowKeeps
<1>4. CASE OutOfRange
  BY <1>4, OutOfRangeKeeps
<1>5. CASE NoSlot
  BY <1>5, NoSlotKeeps
<1>6. CASE Aggregate
  BY <1>6, AggregateKeeps
<1>7. CASE BatchDone
  BY <1>7, BatchDoneKeeps
<1>8. CASE Retry
  BY <1>8, RetryKeeps
<1>9. CASE SpillNotSupported
  BY <1>9, SpillKeeps
<1>10. CASE NoMoreInput
  BY <1>10, NoMoreInputKeeps
<1>11. CASE FetchResults
  BY <1>11, FetchResultsKeeps
<1>12. CASE UNCHANGED vars
  <2>1. /\ UNCHANGED <<hasherVars, entryNum, table>> /\ UNCHANGED <<mode, lo, hi, dirty, needRehash>>
        /\ UNCHANGED <<batch, mask, pos, match, batches, prior, redone, rehashes, phase, iter, out>>
    BY <1>12 DEF vars, hasherVars, batchVars, fetchVars
  <2>2. Types'
    BY <2>1 DEF IInv, Types, AtMatch, InPass
  <2>3. Lookup'
    BY <2>1, LookupKept DEF IInv
  <2>4. Passes' /\ Fetches'
    BY <2>1, ZenonT(30) DEF IInv, Passes, Fetches, Single, Full, Passed, Covered, Pending
  <2>5. Counted'
    BY <2>1, CountedIs, ZenonT(30) DEF IInv, Counted, InProgress, InPass
  <2> QED BY <2>2, <2>3, <2>4, <2>5, CountedNext DEF IInv
<1> QED BY <1>1, <1>2, <1>3, <1>4, <1>5, <1>6, <1>7, <1>8, <1>9, <1>10, <1>11, <1>12
        DEF Next, PassStep, Stopped

\* The inductive invariant holds in every reachable state.
THEOREM InvHolds == Spec => []IInv
<1> QED BY InvInit, InvNext, PTL DEF Spec

\* No row is lost and none is counted twice but the matches of a row that is run again.
THEOREM RowsCounted == Spec => []ExactlyOnce
<1>1. IInv => ExactlyOnce
  BY DEF IInv
<1> QED BY <1>1, InvHolds, PTL

\* Every group is found again where its key hashes to.
THEOREM GroupsFound == Spec => []LookupFindsRow
<1>1. IInv => LookupFindsRow
  BY DEF IInv, Lookup, Sound, LookupFindsRow
<1> QED BY <1>1, InvHolds, PTL

\* No write leaves the buffer and no row is lost by a rehash.
THEOREM WritesInBounds == Spec => []InBounds
<1>1. IInv => InBounds
  BY ZenonT(30) DEF IInv, Types, InBounds
<1> QED BY <1>1, InvHolds, PTL

\* The table gives up only when all the entries that the limit allows hold a group.
THEOREM GivesUpWhenFull == Spec => []FailsOnlyWhenFull
<1>1. IInv => FailsOnlyWhenFull
  BY DEF IInv, Passes, Full, FailsOnlyWhenFull
<1> QED BY <1>1, InvHolds, PTL

\* Without a join one rehash is enough for a batch.
THEOREM OneRehash == Spec => []OneRehashPerBatch
<1>1. IInv => OneRehashPerBatch
  <2> SUFFICES ASSUME IInv, phase = "pass", \A i \in DOMAIN batch : ~(Len(batch[i]) > 1)
               PROVE  rehashes <= 1
    BY DEF OneRehashPerBatch
  <2>1. \A i \in DOMAIN batch : Len(batch[i]) \in Nat
    <3>1. TAKE i \in DOMAIN batch
    <3>2. batch[i] \in Seq(Keys)
      BY DEF IInv, Types
    <3> QED BY <3>2
  <2>2. Single
    BY <2>1 DEF Single
  <2> QED BY <2>2 DEF IInv, Passes
<1> QED BY <1>1, InvHolds, PTL

\* The chunks of fetchResults are the groups, each once.
THEOREM GroupsFetched == Spec => []FetchedOnce
<1>1. IInv => FetchedOnce
  BY ZenonT(30) DEF IInv, Fetches, FetchedOnce
<1> QED BY <1>1, InvHolds, PTL

=============================================================================
