-------------------------- MODULE StringDictionary --------------------------
(***************************************************************************)
(* The string dictionary of cider/type/data/string: strings get dense ids  *)
(* 0, 1, 2, ... in the order they are added, are appended to two mapped    *)
(* files (bytes, and one offset entry per string), are found again through *)
(* an open-addressing table of ids, and are searched through caches that   *)
(* an insertion empties.  A string is a sequence of positive characters.   *)
(*                                                                         *)
(* The "write_lock" of getOrAddImpl, getOrAddBulk, getLike and getCompare  *)
(* is a std::shared_lock, so no caller excludes another one: every caller  *)
(* takes the steps of its call whenever it likes.                          *)
(***************************************************************************)
EXTENDS Integers, Sequences, FiniteSets, SequencesExt, TLC

CONSTANTS
    Callers,          \* threads that use the dictionary
    Strings,          \* strings they add
    Batches,          \* string vectors they pass to getOrAddBulk
    ComparePatterns,  \* strings they compare with
    LikePatterns,     \* patterns they pass to getLike
    Like(_, _),       \* Like(s, p): is_like of string s and pattern p
    InitialCapacity,  \* initial_capacity, a power of two
    HashRange,        \* hashes are taken modulo this; 2^32 in the code
    OffsetChunk,      \* entries one growth of the offset file adds at least
    MaxValidId,       \* max_valid_int_value of the id type of a bulk
    MaxStrLen         \* MAX_STRLEN

ASSUME CapacityAssumption == InitialCapacity \in {2^k : k \in 1..8}

ASSUME ChunkAssumption == OffsetChunk \in Nat \ {0}

ASSUME StringsAssumption ==
    /\ Strings \subseteq Seq(Nat \ {0})
    /\ \A s \in Strings : Len(s) \in 1..MaxStrLen

VARIABLES
    payload,       \* DictPayload, the bytes written so far
    offsets,       \* DictOffsets, a sequence of entries or canaries
    materialize,   \* materialize_hashes_
    table,         \* string_id_string_dict_hash_table_
    hashCache,     \* hash_cache_
    strCount,      \* str_count_
    payloadOff,    \* payload_file_off_
    sortedCache,   \* sorted_cache
    compareCache,  \* compare_cache_
    equalCache,    \* equal_cache_
    likeCache,     \* like_cache_; gen and count of an entry are auxiliary
    call,          \* what each caller is executing
    issued,        \* auxiliary: every <<id, string>> a call has returned
    stale          \* auxiliary: entries a failed bulk left in the caches

files == <<payload, offsets>>
index == <<table, hashCache>>
caches == <<compareCache, equalCache, likeCache>>
vars == <<payload, offsets, materialize, table, hashCache, strCount, payloadOff,
          sortedCache, compareCache, equalCache, likeCache, call, issued, stale>>

-----------------------------------------------------------------------------
(* Strings and storage. *)

INVALID_STR_ID == -1
Canary == [off |-> 0, size |-> -1]
NoEntries == <<>>

hash_string(s) == FoldLeft(LAMBDA h, c : (h * 997 + c) % HashRange, 1, s)

\* StringCompare(s, t) < 0: at the first place where they differ, the end of a
\* string counting as a zero, s has the smaller character.
string_lt(s, t) ==
    \E k \in 1..Len(t) :
        /\ k - 1 <= Len(s)
        /\ \A j \in 1..(k - 1) : s[j] = t[j]
        /\ k > Len(s) \/ s[k] < t[k]

IsCanary(i) == offsets[i + 1] = Canary

getStringFromStorage(i) ==
    LET meta == offsets[i + 1]
    IN IF meta = Canary THEN <<>>
       ELSE SubSeq(payload, meta.off + 1, meta.off + meta.size)

\* Binary search for the first canary of the offset file.
getNumStringsFromStorage ==
    LET slots == Len(offsets)
        search[lo \in 0..slots, hi \in -1..(slots - 1)] ==
            LET guess == (lo + hi) \div 2
            IN IF IsCanary(guess)
               THEN IF lo <= guess - 1 THEN search[lo, guess - 1] ELSE guess
               ELSE IF guess + 1 <= hi THEN search[guess + 1, hi] ELSE guess + 1
    IN IF slots = 0 THEN 0 ELSE search[0, slots - 1]

Canaries(n) == [k \in 1..n |-> Canary]

\* The offset file with room for an entry at strCount.  The comparison is >=,
\* so that a canary always follows the last entry.
RoomForOffset ==
    IF strCount + 1 >= Len(offsets)
    THEN LET needed == 1 - (Len(offsets) - strCount)
         IN offsets \o Canaries(Max({OffsetChunk, needed + 1}))
    ELSE offsets

-----------------------------------------------------------------------------
(* The table of ids. *)

EmptyTable(size) == [b \in 0..(size - 1) |-> INVALID_STR_ID]
TableSize(t) == Cardinality(DOMAIN t)

\* The k-th bucket probed for hash h in table t.
Probe(t, h, k) == (h + k) % TableSize(t)

\* The first of some buckets that the probing for h meets.
FirstProbe(t, h, buckets) ==
    Probe(t, h, Min({k \in 0..(TableSize(t) - 1) : Probe(t, h, k) \in buckets}))

FreeBuckets(t) == {b \in DOMAIN t : t[b] = INVALID_STR_ID}

\* The bucket that holds s, or the free one where the probing for s ends.
computeBucket(t, s) ==
    LET h == hash_string(s)
        holds == {b \in DOMAIN t \ FreeBuckets(t) :
                     /\ materialize => hashCache[t[b]] = h
                     /\ getStringFromStorage(t[b]) = s}
    IN FirstProbe(t, h, holds \cup FreeBuckets(t))

computeUniqueBucketWithHash(t, h) == FirstProbe(t, h, FreeBuckets(t))

\* A table of the given size with ids 0 .. n-1 entered in that order; hashes are
\* those of the ids.
Rehash(size, n, hashes) ==
    LET fill[i \in 0..n] ==
            IF i = 0 THEN EmptyTable(size)
            ELSE LET t == fill[i - 1]
                 IN [t EXCEPT ![computeUniqueBucketWithHash(t, hashes[i - 1])] = i - 1]
    IN fill[n]

StoredHashes(n) == [i \in 0..(n - 1) |-> hash_string(getStringFromStorage(i))]

\* Mutant: the table is grown one string too late.
FillRateIsHighLate == TableSize(table) < strCount * 2

fillRateIsHigh == TableSize(table) <= strCount * 2

\* Mutant: the ids stay in their buckets as the table grows.
IncreaseInPlace ==
    [b \in 0..(2 * TableSize(table) - 1) |->
        IF b \in DOMAIN table THEN table[b] ELSE INVALID_STR_ID]

increaseHashTableCapacity ==
    Rehash(TableSize(table) * 2, strCount,
           IF materialize THEN hashCache ELSE StoredHashes(strCount))

\* hash_cache_.resize(2 * size): the new elements are zero.
GrownHashCache ==
    IF materialize
    THEN LET size == Cardinality(DOMAIN hashCache)
         IN [i \in 0..(2 * size - 1) |-> IF i < size THEN hashCache[i] ELSE 0]
    ELSE hashCache

getUnlocked(s) == table[computeBucket(table, s)]

-----------------------------------------------------------------------------
(* getOrAdd and getOrAddBulk. *)

Idle == [pc |-> "idle", bulk |-> FALSE, todo |-> <<>>, bucket |-> 0, off |-> 0,
         id |-> 0, initial |-> 0]

Current(c) == Head(call[c].todo)

KeepCaches == UNCHANGED <<caches, stale>>

\* Mutants: compare_cache_ or like_cache_ is forgotten.
InvalidateAllButCompare ==
    /\ equalCache' = NoEntries
    /\ likeCache' = NoEntries
    /\ stale' = {}
    /\ UNCHANGED compareCache
InvalidateAllButLike ==
    /\ compareCache' = NoEntries
    /\ equalCache' = NoEntries
    /\ stale' = {}
    /\ UNCHANGED likeCache

invalidateInvertedIndex ==
    /\ compareCache' = NoEntries
    /\ equalCache' = NoEntries
    /\ likeCache' = NoEntries
    /\ stale' = {}

\* The current string of c is answered with id.  The call goes on with the next
\* string of its vector, or returns; it empties the caches as it returns if it
\* has added a string.  count is str_count_ after this string.
Answer(c, id, count) ==
    /\ issued' = issued \cup {<<id, Current(c)>>}
    /\ IF Len(call[c].todo) > 1
       THEN /\ call' = [call EXCEPT ![c].pc = "write", ![c].todo = Tail(@)]
            /\ KeepCaches
       ELSE /\ call' = [call EXCEPT ![c] = Idle]
            /\ IF count > (IF call[c].bulk THEN call[c].initial ELSE strCount)
               THEN invalidateInvertedIndex
               ELSE KeepCaches

getOrAdd(c, s) ==
    /\ call[c].pc = "idle"
    /\ call' = [call EXCEPT ![c] = [Idle EXCEPT !.pc = "read", !.todo = <<s>>]]
    /\ UNCHANGED <<files, materialize, index, strCount, payloadOff, sortedCache,
                   caches, issued, stale>>

\* The empty strings of a vector become the null id at once and are left out.
getOrAddBulk(c, batch) ==
    /\ call[c].pc = "idle"
    /\ LET todo == SelectSeq(batch, LAMBDA s : s # <<>>)
       IN /\ todo # <<>>
          /\ call' = [call EXCEPT ![c] = [Idle EXCEPT !.pc = "write", !.bulk = TRUE,
                                             !.todo = todo, !.initial = strCount]]
    /\ UNCHANGED <<files, materialize, index, strCount, payloadOff, sortedCache,
                   caches, issued, stale>>

\* getOrAddImpl under its read lock, which it then gives up.
ReadLocked(c) ==
    /\ call[c].pc = "read"
    /\ LET id == getUnlocked(Current(c))
       IN IF id # INVALID_STR_ID THEN Answer(c, id, strCount)
          ELSE /\ call' = [call EXCEPT ![c].pc = "write"]
               /\ UNCHANGED <<caches, issued, stale>>
    /\ UNCHANGED <<files, materialize, index, strCount, payloadOff, sortedCache>>

\* getOrAddImpl grows the table first and then looks for the string again.
LocateOne(c) ==
    /\ call[c].pc = "write" /\ ~call[c].bulk
    /\ LET grown == IF fillRateIsHigh THEN increaseHashTableCapacity ELSE table
           bucket == computeBucket(grown, Current(c))
       IN /\ table' = grown
          /\ hashCache' = IF fillRateIsHigh THEN GrownHashCache ELSE hashCache
          /\ IF grown[bucket] # INVALID_STR_ID THEN Answer(c, grown[bucket], strCount)
             ELSE /\ call' = [call EXCEPT ![c].pc = "payload", ![c].bucket = bucket]
                  /\ UNCHANGED <<caches, issued, stale>>
    /\ UNCHANGED <<files, materialize, strCount, payloadOff, sortedCache>>

\* getOrAddBulk looks for the string first, and grows the table to add it.
LocateBulk(c) ==
    /\ call[c].pc = "write" /\ call[c].bulk
    /\ LET id == getUnlocked(Current(c))
           grown == IF fillRateIsHigh THEN increaseHashTableCapacity ELSE table
       IN \/ /\ id # INVALID_STR_ID
             /\ Answer(c, id, strCount)
             /\ UNCHANGED index
          \/ /\ id = INVALID_STR_ID
             /\ strCount <= MaxValidId
             /\ table' = grown
             /\ hashCache' = IF fillRateIsHigh THEN GrownHashCache ELSE hashCache
             /\ call' = [call EXCEPT ![c].pc = "payload",
                                     ![c].bucket = computeBucket(grown, Current(c))]
             /\ UNCHANGED <<caches, issued, stale>>
    /\ UNCHANGED <<files, materialize, strCount, payloadOff, sortedCache>>

\* throw_encoding_error: the ids of the bulk's type are used up.  The strings
\* the bulk has added stay, and the caches are not emptied.
BulkFails(c) ==
    /\ call[c].pc = "write" /\ call[c].bulk
    /\ getUnlocked(Current(c)) = INVALID_STR_ID
    /\ strCount > MaxValidId
    /\ call' = [call EXCEPT ![c] = Idle]
    /\ stale' = IF strCount > call[c].initial
                THEN {<<"compare", p>> : p \in DOMAIN compareCache}
                     \cup {<<"like", p>> : p \in DOMAIN likeCache}
                ELSE stale
    /\ UNCHANGED <<files, materialize, index, strCount, payloadOff, sortedCache,
                   caches, issued>>

\* appendToStorage, the bytes.
AppendPayload(c) ==
    /\ call[c].pc = "payload"
    /\ LET s == Current(c)
       IN /\ payload' = SubSeq(payload, 1, payloadOff) \o s
                        \o SubSeq(payload, payloadOff + Len(s) + 1, Len(payload))
          /\ payloadOff' = payloadOff + Len(s)
    /\ call' = [call EXCEPT ![c].pc = "offset", ![c].off = payloadOff]
    /\ UNCHANGED <<offsets, materialize, index, strCount, sortedCache, caches,
                   issued, stale>>

\* appendToStorage, the entry.
AppendOffset(c) ==
    /\ call[c].pc = "offset"
    /\ offsets' = [RoomForOffset EXCEPT ![strCount + 1] =
                      [off |-> call[c].off, size |-> Len(Current(c))]]
    /\ call' = [call EXCEPT ![c].pc = "publish"]
    /\ UNCHANGED <<payload, materialize, index, strCount, payloadOff, sortedCache,
                   caches, issued, stale>>

\* The new id enters the table, and its hash the hash cache.
Publish(c) ==
    /\ call[c].pc = "publish"
    /\ table' = [table EXCEPT ![call[c].bucket] = strCount]
    /\ hashCache' = IF materialize
                    THEN [hashCache EXCEPT ![strCount] = hash_string(Current(c))]
                    ELSE hashCache
    /\ call' = [call EXCEPT ![c].pc = "count", ![c].id = strCount]
    /\ UNCHANGED <<files, materialize, strCount, payloadOff, sortedCache, caches,
                   issued, stale>>

\* The string is counted, and the call goes on or returns.  getOrAddImpl returns
\* what the bucket holds, getOrAddBulk the id it had put there.
Count(c) ==
    /\ call[c].pc = "count"
    /\ strCount' = strCount + 1
    /\ Answer(c, IF call[c].bulk THEN call[c].id ELSE table[call[c].bucket], strCount + 1)
    /\ UNCHANGED <<files, materialize, index, payloadOff, sortedCache>>

-----------------------------------------------------------------------------
(* getLike and getCompare. *)

\* Matches of p among the strings below a generation.
Matching(p, gen) == {i \in 0..(gen - 1) : Like(getStringFromStorage(i), p)}

\* like_cache_ is keyed by the pattern alone, not by the generation.
LikeEntry(p, gen) ==
    IF p \in DOMAIN likeCache THEN likeCache[p]
    ELSE [ids |-> Matching(p, gen), gen |-> gen, count |-> strCount]

getLike(c, p, gen) ==
    /\ call[c].pc = "idle"
    /\ likeCache' = (p :> LikeEntry(p, gen)) @@ likeCache
    /\ UNCHANGED <<files, materialize, index, strCount, payloadOff, sortedCache,
                   compareCache, equalCache, call, issued, stale>>

IdLess(i, j) == string_lt(getStringFromStorage(i), getStringFromStorage(j))

mergeSortedCache(temp) ==
    LET merge[t \in 1..(Len(temp) + 1), s \in 1..(Len(sortedCache) + 1)] ==
            IF t > Len(temp) THEN SubSeq(sortedCache, s, Len(sortedCache))
            ELSE IF s > Len(sortedCache) THEN SubSeq(temp, t, Len(temp))
            ELSE IF IdLess(temp[t], sortedCache[s])
                 THEN <<temp[t]>> \o merge[t + 1, s]
                 ELSE <<sortedCache[s]>> \o merge[t, s + 1]
    IN merge[1, 1]

buildSortedCache ==
    mergeSortedCache(SetToSortSeq(Len(sortedCache)..(strCount - 1), IdLess))

\* What compare_cache_ keeps of pattern p: the position, from 0, of p in the
\* sorted ids or of the last string before it, and whether it is p (diff 0).
\* std::lower_bound on the sorted ids skips exactly the smaller strings.
CompareValue(sorted, p) ==
    LET pos == Cardinality({k \in 1..Len(sorted) :
                               string_lt(getStringFromStorage(sorted[k]), p)})
    IN IF pos < Len(sorted) /\ getStringFromStorage(sorted[pos + 1]) = p
       THEN [index |-> pos, diff |-> 0]
       ELSE [index |-> pos - 1, diff |-> 1]

\* The positions, from 0, where "<" stops and ">=" starts, and where ">" starts.
StopOf(v) ==
    IF v.diff = 0 THEN v.index ELSE IF v.index = 0 THEN 0 ELSE v.index + 1
StartAfter(v) ==
    IF v.diff = 1 /\ v.index = 0 THEN 0 ELSE v.index + 1

\* The ids getCompare reads off the sorted cache.
CompareIds(sorted, v, op) ==
    LET all == Len(sorted)
        Slice(from, to) == {sorted[k] : k \in (from + 1)..to}
    IN CASE op = "<"  -> Slice(0, StopOf(v))
         [] op = "<=" -> Slice(0, v.index + 1)
         [] op = ">"  -> Slice(StartAfter(v), all)
         [] op = ">=" -> Slice(StopOf(v), all)
         [] op = "="  -> IF v.diff = 0 THEN {sorted[v.index + 1]} ELSE {}
         [] op = "<>" -> IF v.diff = 0
                         THEN Slice(0, v.index) \cup Slice(v.index + 1, all)
                         ELSE Slice(0, all)

\* getEquals scans the strings below the generation.  An absent string has the
\* id MAX_STRLEN + 1, and the loop for "<>" runs to the count inclusive.
EqualAnswer(p, op, gen) ==
    LET cached == p \in DOMAIN equalCache
        found == {i \in 0..(gen - 1) : getStringFromStorage(i) = p}
        eqId == IF cached THEN equalCache[p]
                ELSE IF found # {} THEN Min(found) ELSE MaxStrLen + 1
        result == IF cached THEN (IF op = "=" THEN {eqId} ELSE {}) ELSE found
    IN [ids |-> IF op = "=" THEN result ELSE result \cup ((0..strCount) \ {eqId}),
        equal |-> IF ~cached /\ found # {} THEN (p :> eqId) @@ equalCache
                  ELSE equalCache]

Operators == {"<", "<=", ">", ">=", "=", "<>"}

ByScan(op) == Len(sortedCache) < strCount /\ op \in {"=", "<>"}

\* The ids getCompare returns and the caches it leaves.
CompareAnswer(p, op, gen) ==
    LET sorted == IF Len(sortedCache) < strCount THEN buildSortedCache ELSE sortedCache
        value == IF p \in DOMAIN compareCache THEN compareCache[p]
                 ELSE CompareValue(sorted, p)
        scan == EqualAnswer(p, op, gen)
    IN CASE strCount = 0 ->
              [ids |-> {}, sorted |-> sortedCache, compare |-> compareCache,
               equal |-> equalCache]
         [] strCount > 0 /\ ByScan(op) ->
              [ids |-> scan.ids, sorted |-> sortedCache, compare |-> compareCache,
               equal |-> scan.equal]
         [] OTHER ->
              [ids |-> CompareIds(sorted, value, op), sorted |-> sorted,
               compare |-> (p :> value) @@ compareCache, equal |-> equalCache]

getCompare(c, p, op, gen) ==
    /\ call[c].pc = "idle"
    /\ LET answer == CompareAnswer(p, op, gen)
       IN /\ sortedCache' = answer.sorted
          /\ compareCache' = answer.compare
          /\ equalCache' = answer.equal
    /\ UNCHANGED <<files, materialize, index, strCount, payloadOff, likeCache, call,
                   issued, stale>>

-----------------------------------------------------------------------------
(* Opening the dictionary, and the insertions. *)

round_up_p2(n) == Min({p \in {2^k : k \in 0..16} : p >= n})

\* Mutant: the sizes of the recovered strings are not added up.
RecoveredPayloadStart(n) == 0

\* processDictionaryFutures adds up the sizes of the first n strings.
RecoveredPayloadOff(n) ==
    FoldLeft(+, 0, [i \in 1..n |-> Len(getStringFromStorage(i - 1))])

\* The constructor with recover, on the files as they are.  The process had been
\* killed, at any step of any call; what it had written to the mapped files is in
\* them.
Recovered ==
    LET n == getNumStringsFromStorage
        size == Max({round_up_p2(2 * n + 1), round_up_p2(InitialCapacity)})
        hashes == StoredHashes(n)
    IN /\ strCount' = n
       /\ table' = Rehash(size, n, hashes)
       /\ hashCache' =
            IF materialize
            THEN [i \in 0..((size \div 2) - 1) |-> IF i < n THEN hashes[i] ELSE 0]
            ELSE [i \in 0..(InitialCapacity - 1) |-> 0]
       /\ payloadOff' = RecoveredPayloadOff(n)

Restart ==
    /\ Recovered
    /\ sortedCache' = <<>>
    /\ invalidateInvertedIndex
    /\ call' = [c \in Callers |-> Idle]
    /\ UNCHANGED <<files, materialize, issued>>

\* An empty folder opened with recover.
Init ==
    /\ payload = <<>>
    /\ offsets = Canaries(OffsetChunk)
    /\ materialize \in BOOLEAN
    /\ table = EmptyTable(InitialCapacity)
    /\ hashCache = [i \in 0..((IF materialize THEN InitialCapacity \div 2
                               ELSE InitialCapacity) - 1) |-> 0]
    /\ strCount = 0
    /\ payloadOff = 0
    /\ sortedCache = <<>>
    /\ compareCache = NoEntries
    /\ equalCache = NoEntries
    /\ likeCache = NoEntries
    /\ call = [c \in Callers |-> Idle]
    /\ issued = {}
    /\ stale = {}

Insert(c) ==
    \/ \E s \in Strings : getOrAdd(c, s)
    \/ \E batch \in Batches : getOrAddBulk(c, batch)
    \/ ReadLocked(c)
    \/ LocateOne(c)
    \/ LocateBulk(c)
    \/ BulkFails(c)
    \/ AppendPayload(c)
    \/ AppendOffset(c)
    \/ Publish(c)
    \/ Count(c)

-----------------------------------------------------------------------------
(* Properties. *)

Counted == 0..(strCount - 1)

\* A string that is in the dictionary is found, and at its own id, whatever was
\* added, rehashed by increaseHashTableCapacity or rebuilt by the constructor
\* since; and an id that is found is counted, or is the one its caller is about
\* to count.
LookupExact ==
    /\ \A i \in Counted : getUnlocked(getStringFromStorage(i)) = i
    /\ \A b \in DOMAIN table :
          \/ table[b] < strCount
          \/ \E c \in Callers : call[c].pc = "count" /\ call[c].bucket = b

\* No string has two ids.  getOrAddImpl looks the string up again under its
\* "write_lock" so as not to add what another caller has added.
OneId ==
    \A i, j \in Counted : getStringFromStorage(i) = getStringFromStorage(j) => i = j

\* An id that getOrAdd or getOrAddBulk has returned names the same string for
\* ever: later insertions, a bulk that fails, a kill between any two writes of
\* appendToStorage and the recovery that follows do not change it.
IssuedStays ==
    \A pair \in issued :
        /\ pair[1] \in Counted
        /\ getStringFromStorage(pair[1]) = pair[2]

\* The probing of computeBucket always meets a free bucket, the hash of the next
\* id has a place in hash_cache_, which the constructor and
\* increaseHashTableCapacity size apart from the table, and the offset file ends
\* in a canary, without which the binary search of the constructor and the
\* reader of the next slot would run past it.
RoomLeft ==
    LET used == DOMAIN table \ FreeBuckets(table)
    IN /\ 2 * Cardinality(used) <= TableSize(table)
       /\ materialize => Cardinality(used) <= Cardinality(DOMAIN hashCache)
       /\ Last(offsets) = Canary

=============================================================================
