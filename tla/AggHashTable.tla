----------------------------- MODULE AggHashTable -----------------------------
(***************************************************************************)
(* The group-by of CiderRuntimeModule: the passes of groupByProcessImpl    *)
(* over a batch with its row skip mask, CiderAggHashTable with its two     *)
(* hash modes, its rehash, and the chunked fetchResults.                   *)
(*                                                                         *)
(* A group key is a function from key columns to a value of the column's   *)
(* type or Null.  The aggregate of a group is its COUNT( * ): it tells     *)
(* apart every loss and every double count.  A row of a batch is the       *)
(* sequence of group keys it contributes to: one key without a join, none  *)
(* when the filter drops it, one per match with a join.  The code compares *)
(* ranges and products in 64 bits and treats an overflow like a value      *)
(* above the limit, so unbounded integers decide alike.                    *)
(***************************************************************************)
EXTENDS Integers, Sequences, FiniteSets, FiniteSetsExt

CONSTANTS
  Cols,          \* number of key columns
  TypeMin,       \* get_min_value of the key columns' type
  TypeMax,       \* get_max_value of the key columns' type
  Null,          \* a null key value
  EntryLimit,    \* buffer_memory_limit_ / row_width_
  ForceDirect,   \* force_direct_hash
  DirectHash,    \* MurmurHash3 of a key, a function of the key
  Inputs,        \* the batches that may arrive
  MaxBatches,    \* bound: how many of them do
  MaxRow         \* max_row of fetchResults

KeyCols == 1..Cols
Keys == [KeyCols -> (TypeMin..TypeMax) \cup {Null}]

ASSUME AggAssumption ==
  /\ Cols \in Nat \ {0} /\ MaxBatches \in Nat /\ MaxRow \in Nat \ {0}
  /\ TypeMin \in Int /\ TypeMax \in Int /\ TypeMin <= 0 /\ TypeMax >= 0
  /\ EntryLimit \in Nat \ {0, 1}
  /\ ForceDirect \in BOOLEAN
  /\ Null \notin Int
  /\ DirectHash \in [Keys -> Nat]
  /\ Inputs \subseteq Seq(Seq(Keys))

VARIABLES
  mode,        \* CiderHasher::mode_
  lo, hi,      \* cols_range_[c].min and .max
  dirty,       \* cols_range_[c].need_rehash
  needRehash,  \* CiderHasher::need_rehash_
  entryNum,    \* buffer_entry_num_
  table,       \* the rows [key, count] of the slots set in the empty map
  batch,       \* the batch in processNextBatch
  mask,        \* row_skip_mask: the rows already aggregated
  pos,         \* the row the current pass is at
  match,       \* the match of that row
  phase,       \* idle, pass, fetch, done; failed: exception; broken: see below
  batches,     \* batches accepted so far
  prior,       \* ghost: rows of each key in the earlier batches
  redone,      \* ghost: matches of each key aggregated by a row that was then left
  rehashes,    \* ghost: rehashes during this batch, at most 2 are told apart
  iter,        \* row_index_ of group_by_agg_iterator_
  out          \* rows returned by fetchResults so far

hasherVars == <<mode, lo, hi, dirty, needRehash>>
batchVars  == <<batch, mask, pos, match, batches, prior, redone, rehashes>>
fetchVars  == <<iter, out>>
vars == <<hasherVars, entryNum, table, batchVars, phase, fetchVars>>

NoSlots == [s \in {} |-> 0]              \* every bit of the empty map is clear
Put(t, s, row) == [x \in DOMAIN t \cup {s} |-> IF x = s THEN row ELSE t[x]]

-----------------------------------------------------------------------------
(* Hashing                                                                  *)

InRange(v, l, h) == v # Null => l <= v /\ v <= h

\* Mutant: no slot for null.
SlotsNoNull(l, h) ==
  LET s[c \in 0..Cols] == IF c = 0 THEN 1 ELSE s[c - 1] * (h[c] - l[c] + 1)
  IN  s

\* The number of slots for the first c columns: one per value, one for null.
Slots(l, h) ==
  LET s[c \in 0..Cols] == IF c = 0 THEN 1 ELSE s[c - 1] * (h[c] - l[c] + 2)
  IN  s

\* rangeHash of a key that lies in the ranges.
RangeIndex(k, l, h) ==
  LET term(c) == IF k[c] = Null THEN 0 ELSE Slots(l, h)[c - 1] * (k[c] - l[c] + 1)
      sum[c \in 0..Cols] == IF c = 0 THEN 0 ELSE sum[c - 1] + term(c)
  IN  sum[Cols]

\* Mutant: the probe stops at the end of the buffer.
DirectSlotNoWrap(k, t, n) ==
  LET hits == {s \in (DirectHash[k] % n)..n-1 : s \notin DOMAIN t \/ t[s].key = k}
  IN  IF hits = {} THEN -1 ELSE Min(hits)

\* The slot of direct mode in a buffer of n: the first of the probe sequence that
\* is empty or has the key, or -1 when the probe is back at its start.
DirectSlot(k, t, n) ==
  LET at(o) == (DirectHash[k] + o) % n
      hits == {o \in 0..n-1 : at(o) \notin DOMAIN t \/ t[at(o)].key = k}
  IN  IF hits = {} THEN -1 ELSE at(Min(hits))

\* A hasher h is a record of its mode and ranges.
Slot(k, h, t, n) ==
  IF h.mode = "range" THEN RangeIndex(k, h.lo, h.hi) ELSE DirectSlot(k, t, n)

Hasher == [mode |-> mode, lo |-> lo, hi |-> hi]

\* rangeHash on a key outside the ranges: they grow to the key.
Grown(k) ==
  [lo |-> [c \in KeyCols |-> IF k[c] # Null /\ k[c] < lo[c] THEN k[c] ELSE lo[c]],
   hi |-> [c \in KeyCols |-> IF k[c] # Null /\ k[c] > hi[c] THEN k[c] ELSE hi[c]]]

-----------------------------------------------------------------------------
(* rehash                                                                   *)

\* An int64 compared with an unsigned limit: a negative range is a huge one.
Exceeds(range) == range < 0 \/ range > EntryLimit - 2

\* updateHashKeyRange: a quarter of the range is reserved at each end, within
\* the type.
Widened(c) ==
  LET reserve == (hi[c] - lo[c] + 1) \div 4
  IN  [lo |-> IF TypeMin + reserve > lo[c] THEN TypeMin ELSE lo[c] - reserve,
       hi |-> IF TypeMax - reserve < hi[c] THEN TypeMax ELSE hi[c] + reserve]

\* updateHashMode: the new hasher and the new number of entries.  In direct mode
\* the ranges are never read again.
UpdateHashMode ==
  LET new(c) == IF dirty[c] THEN Widened(c) ELSE [lo |-> lo[c], hi |-> hi[c]]
      l == [c \in KeyCols |-> new(c).lo]
      h == [c \in KeyCols |-> new(c).hi]
      tooWide == \E c \in KeyCols :
                   (dirty[c] /\ Exceeds(hi[c] - lo[c])) \/ Exceeds(h[c] - l[c])
      expect == Slots(l, h)[Cols]
      direct(n) == [mode |-> "direct", lo |-> lo, hi |-> hi, n |-> n]
  IN  IF mode = "direct"
        THEN direct(IF EntryLimit \div 2 < entryNum THEN EntryLimit ELSE entryNum * 2)
      ELSE IF tooWide \/ expect > EntryLimit THEN direct(EntryLimit)
      ELSE [mode |-> "range", lo |-> l, hi |-> h, n |-> expect]

\* Mutant: the rows are copied without being hashed again.
ReinsertedInPlace(h) == {table}

\* The buffers (one) that result from putting the rows of the old buffer, in slot
\* order, into an empty one.  A row with no slot there is a write through a null
\* pointer, and two rows in one slot lose one: both leave fewer rows (broken).
Reinserted(h) ==
  LET put(t, row) ==
        {IF s \in 0..h.n-1 THEN Put(t, s, row) ELSE t : s \in {Slot(row.key, h, t, h.n)}}
      after[i \in 0..entryNum] ==
        IF i = 0 THEN {NoSlots}
        ELSE IF i - 1 \in DOMAIN table
               THEN UNION {put(t, table[i - 1]) : t \in after[i - 1]}
        ELSE after[i - 1]
  IN  after[entryNum]

Rehash ==
  \E h \in {UpdateHashMode} : \E t \in Reinserted(h) :
      /\ mode' = h.mode /\ lo' = h.lo /\ hi' = h.hi
      /\ needRehash' = FALSE /\ dirty' = [c \in KeyCols |-> FALSE]
      /\ entryNum' = h.n /\ table' = t
      /\ phase' = IF Cardinality(DOMAIN t) = Cardinality(DOMAIN table)
                    THEN "pass" ELSE "broken"

-----------------------------------------------------------------------------
(* Batches                                                                  *)

Init ==
  /\ mode = IF ForceDirect THEN "direct" ELSE "range"
  /\ lo = [c \in KeyCols |-> 0] /\ hi = [c \in KeyCols |-> -1]
  /\ dirty = [c \in KeyCols |-> FALSE] /\ needRehash = FALSE
  /\ entryNum = IF ForceDirect THEN EntryLimit ELSE 1
  /\ table = NoSlots
  /\ batch = <<>> /\ mask = {} /\ pos = 1 /\ match = 1
  /\ batches = 0 /\ rehashes = 0
  /\ prior = [k \in Keys |-> 0] /\ redone = [k \in Keys |-> 0]
  /\ phase = "idle" /\ iter = 0 /\ out = <<>>

\* processNextBatch: a fresh mask, then the first pass.
ProcessNextBatch ==
  /\ phase = "idle" /\ batches < MaxBatches
  /\ batch' \in Inputs
  /\ mask' = {} /\ pos' = 1 /\ match' = 1 /\ rehashes' = 0
  /\ batches' = batches + 1 /\ phase' = "pass"
  /\ UNCHANGED <<hasherVars, entryNum, table, prior, redone, fetchVars>>

InPass == phase = "pass" /\ pos \in DOMAIN batch

\* The row function returned 0: its bit in the mask is set.
RowDone == mask' = mask \cup {pos} /\ pos' = pos + 1 /\ match' = 1 /\ UNCHANGED redone

\* The part of a row's matches that the current call of the row function did.
InProgress(k) ==
  IF InPass /\ pos \notin mask
    THEN Cardinality({j \in 1..match-1 : batch[pos][j] = k}) ELSE 0

\* The row function returned -1, or the row is skipped: the mask is left alone, and
\* what the row function aggregated before stays in the table.
RowLeft ==
  /\ UNCHANGED mask /\ pos' = pos + 1 /\ match' = 1
  /\ redone' = [k \in Keys |-> redone[k] + InProgress(k)]

SkipRow ==
  /\ InPass /\ pos \in mask
  /\ RowLeft
  /\ UNCHANGED <<hasherVars, entryNum, table, batch, batches, prior, rehashes, phase, fetchVars>>

\* The filter drops the row, or it has no match.
FilteredRow ==
  /\ InPass /\ pos \notin mask /\ batch[pos] = <<>>
  /\ RowDone
  /\ UNCHANGED <<hasherVars, entryNum, table, batch, batches, prior, rehashes, phase, fetchVars>>

AtMatch == InPass /\ pos \notin mask /\ match \in DOMAIN batch[pos]
ThisKey == batch[pos][match]
Covered(k) == \A c \in KeyCols : InRange(k[c], lo[c], hi[c])

\* Mutant: only the first key outside the ranges is noted.
OutOfRangeFirst ==
  /\ AtMatch /\ mode = "range" /\ ~Covered(ThisKey)
  /\ lo' = IF needRehash THEN lo ELSE Grown(ThisKey).lo
  /\ hi' = IF needRehash THEN hi ELSE Grown(ThisKey).hi
  /\ dirty' = [c \in KeyCols |-> dirty[c] \/ ~InRange(ThisKey[c], lo[c], hi[c])]
  /\ needRehash' = TRUE
  /\ RowLeft
  /\ UNCHANGED <<mode, entryNum, table, batch, batches, prior, rehashes, phase, fetchVars>>

\* getGroupTargetPtr in range mode, for a key outside the ranges: they grow, a
\* rehash becomes due and the row is left for the next pass.
OutOfRange ==
  /\ AtMatch /\ mode = "range" /\ ~Covered(ThisKey)
  /\ lo' = Grown(ThisKey).lo /\ hi' = Grown(ThisKey).hi
  /\ dirty' = [c \in KeyCols |-> dirty[c] \/ ~InRange(ThisKey[c], lo[c], hi[c])]
  /\ needRehash' = TRUE
  /\ RowLeft
  /\ UNCHANGED <<mode, entryNum, table, batch, batches, prior, rehashes, phase, fetchVars>>

\* In range mode while a rehash is due, or in direct mode with a full buffer:
\* no slot, and the row is left for the next pass.
NoSlot ==
  /\ AtMatch
  /\ \/ mode = "range" /\ Covered(ThisKey) /\ needRehash
     \/ mode = "direct" /\ Slot(ThisKey, Hasher, table, entryNum) = -1
  /\ RowLeft
  /\ UNCHANGED <<hasherVars, entryNum, table, batch, batches, prior, rehashes, phase, fetchVars>>

\* A slot is found: a new row is started or the existing one is aggregated into.
\* A slot past the buffer is a write out of bounds (broken).
Aggregate ==
  /\ AtMatch
  /\ mode = "range" => Covered(ThisKey) /\ ~needRehash
  /\ LET s == Slot(ThisKey, Hasher, table, entryNum)
         old == IF s \in DOMAIN table THEN table[s] ELSE [key |-> ThisKey, count |-> 0]
     IN  /\ s # -1
         /\ table' = Put(table, s, [old EXCEPT !.count = @ + 1])
         /\ phase' = IF s < entryNum THEN "pass" ELSE "broken"
  /\ IF match = Len(batch[pos]) THEN RowDone
     ELSE match' = match + 1 /\ UNCHANGED <<mask, pos, redone>>
  /\ UNCHANGED <<hasherVars, entryNum, batch, batches, prior, rehashes, fetchVars>>

EndOfPass == phase = "pass" /\ pos \notin DOMAIN batch
AllRowsSet == mask = DOMAIN batch        \* countSetBits(row_skip_mask) == num_rows

\* How often key k occurs in the rows R of the batch.
Occurrences(k, R) ==
  Cardinality({w \in UNION {{i} \X DOMAIN batch[i] : i \in R} : batch[w[1]][w[2]] = k})

BatchDone ==
  /\ EndOfPass /\ AllRowsSet
  /\ phase' = "idle"
  /\ prior' = [k \in Keys |-> prior[k] + Occurrences(k, DOMAIN batch)]
  /\ batch' = <<>> /\ mask' = {} /\ pos' = 1
  /\ UNCHANGED <<hasherVars, entryNum, table, match, batches, redone, rehashes, fetchVars>>

\* Mutant: rehash never gives up.
AtLimitNever == FALSE

\* rehash returns false: the direct table is as large as it may get.
AtLimit == mode = "direct" /\ entryNum = EntryLimit

\* Mutant: the retry starts with a cleared mask.
RetryFresh ==
  /\ EndOfPass /\ ~AllRowsSet /\ ~AtLimit
  /\ Rehash
  /\ pos' = 1 /\ rehashes' = Min({rehashes + 1, 2}) /\ mask' = {}
  /\ UNCHANGED <<batch, match, batches, prior, redone, fetchVars>>

\* groupByProcessImpl calls itself after a rehash; the mask keeps what is done.
Retry ==
  /\ EndOfPass /\ ~AllRowsSet /\ ~AtLimit
  /\ Rehash
  /\ pos' = 1 /\ rehashes' = Min({rehashes + 1, 2})
  /\ UNCHANGED <<batch, mask, match, batches, prior, redone, fetchVars>>

SpillNotSupported ==
  /\ EndOfPass /\ ~AllRowsSet /\ AtLimit
  /\ phase' = "failed"
  /\ UNCHANGED <<hasherVars, entryNum, table, batchVars, fetchVars>>

-----------------------------------------------------------------------------
(* Results                                                                  *)

\* CiderStatefulOperator fetches only after noMoreInput; getRowIterator starts at
\* the first set slot.
NoMoreInput ==
  /\ phase = "idle"
  /\ phase' = "fetch"
  /\ iter' = Min(DOMAIN table \cup {entryNum})
  /\ UNCHANGED <<hasherVars, entryNum, table, batchVars, out>>

Pending == {s \in DOMAIN table : s >= iter}

\* Mutant: toNextRow starts at the slot after the next one when a chunk ends.
FetchResultsSkip ==
  /\ phase = "fetch"
  /\ LET chunk == {s \in Pending : Cardinality({r \in Pending : r < s}) < MaxRow}
         rest == {s \in Pending \ chunk : s - 1 \in DOMAIN table}
     IN  /\ out' = Append(out, chunk)
         /\ iter' = Min(rest \cup {entryNum})
         /\ phase' = IF rest = {} THEN "done" ELSE "fetch"
  /\ UNCHANGED <<hasherVars, entryNum, table, batchVars>>

\* fetchResults: the next max_row rows; kNoMoreOutput when the iterator is at
\* the end of the buffer, and then the operator is finished.
FetchResults ==
  /\ phase = "fetch"
  /\ LET chunk == {s \in Pending : Cardinality({r \in Pending : r < s}) < MaxRow}
         rest == Pending \ chunk
     IN  /\ out' = Append(out, chunk)
         /\ iter' = Min(rest \cup {entryNum})
         /\ phase' = IF rest = {} THEN "done" ELSE "fetch"
  /\ UNCHANGED <<hasherVars, entryNum, table, batchVars>>

Stopped == phase \in {"done", "failed", "broken"} /\ UNCHANGED vars

PassStep ==
  \/ SkipRow \/ FilteredRow \/ OutOfRange \/ NoSlot \/ Aggregate
  \/ BatchDone \/ Retry \/ SpillNotSupported

Next == ProcessNextBatch \/ PassStep \/ NoMoreInput \/ FetchResults \/ Stopped

Spec == Init /\ [][Next]_vars

\* processNextBatch and a started fetch run to their end on the caller's thread.
FairSpec == Spec /\ WF_vars(PassStep) /\ WF_vars(FetchResults)

-----------------------------------------------------------------------------

Total(k) ==
  MapThenSumSet(LAMBDA s : table[s].count, {s \in DOMAIN table : table[s].key = k})

\* Every row is aggregated exactly once, whatever rehashes interrupt the batch: a
\* group's count is what the earlier batches and the masked rows of this one
\* contain, so no row is lost by a null group pointer or counted by two passes.
\* The one thing counted twice is a match of a row of a join whose later match found
\* no slot: the next pass runs the row from its first match again.
ExactlyOnce ==
  \A k \in Keys : Total(k) = prior[k] + Occurrences(k, mask) + InProgress(k) + redone[k]

\* getGroupTargetPtr leads back to every group: its row is where its key hashes
\* to, after any number of rehashes and in both modes (so no key has two rows).
LookupFindsRow ==
  ~needRehash => \A s \in DOMAIN table : Slot(table[s].key, Hasher, table, entryNum) = s

\* No write leaves the buffer, and rehash finds a slot for every row it moves.
InBounds == phase # "broken"

\* "Group-by aggregation spill not supported." is only thrown when every entry
\* that the memory limit allows holds a group.
FailsOnlyWhenFull ==
  phase = "failed" => mode = "direct" /\ DOMAIN table = 0..EntryLimit-1

\* One rehash is enough for a batch without a row of several matches: the first pass
\* collects the ranges of all its rows, so groupByProcessImpl never recurses twice.
OneRehashPerBatch ==
  phase = "pass" => rehashes <= 1 \/ \E i \in DOMAIN batch : Len(batch[i]) > 1

\* processNextBatch returns or throws.
BatchEnds == phase = "pass" ~> phase # "pass"

\* The chunks of fetchResults are the groups, each once; only an empty table
\* yields an empty chunk, so kMoreOutput is never followed by nothing.
FetchedOnce ==
  /\ \A i, j \in DOMAIN out : i # j => out[i] \cap out[j] = {}
  /\ \A i \in DOMAIN out : out[i] = {} => DOMAIN table = {}
  /\ phase = "done" => UNION {out[i] : i \in DOMAIN out} = DOMAIN table
=============================================================================
