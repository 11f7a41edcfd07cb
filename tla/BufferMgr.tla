------------------------------ MODULE BufferMgr ------------------------------
(***************************************************************************)
(* The slab allocator of BufferMgr and CpuBufferMgr: page segments inside  *)
(* slabs, first fit, new slabs, eviction of unpinned buffers, growth of a  *)
(* buffer in place or by moving it, and coalescing of free segments.       *)
(*                                                                         *)
(* Sizes are in pages.  Each operation is one step: DataMgr serialises     *)
(* them with buffer_access_mutex_.  buffer_epoch_ only orders the touches, *)
(* so the order of the last touches stands for last_touched.  What a       *)
(* buffer contains, its dirty flags and the parent manager are left out;   *)
(* putBuffer is not modelled, as no manager has this one as its parent.    *)
(***************************************************************************)
EXTENDS Integers, Sequences, FiniteSets, FiniteSetsExt, SeqFilter

CONSTANTS
  Keys,          \* chunk keys
  None,          \* the chunk key of a FREE segment
  Prefixes,      \* sets of keys that share a prefix
  PoolPages,     \* max_buffer_pool_num_pages_
  MaxSlab,       \* max_num_pages_per_slab_
  MinSlab,       \* min_num_pages_per_slab_
  MaxRequest,    \* bound: the largest request
  MaxPins        \* bound: pins of one buffer

ASSUME BufferAssumption ==
  /\ None \notin Keys /\ \A P \in Prefixes : P \subseteq Keys
  /\ PoolPages \in Nat \ {0} /\ MinSlab \in Nat \ {0} /\ MaxSlab \in Nat
  /\ MinSlab <= MaxSlab
  /\ MaxRequest \in Nat /\ MaxPins \in Nat \ {0}

VARIABLES
  slabs,      \* slab_segments_: for each slab its segments in order
  unsized,    \* the keys in unsized_segs_
  index,      \* the keys of chunk_index_
  pins,       \* pin_count_ of each buffer
  order,      \* the keys in slabs, least recently touched first
  cur,        \* current_max_slab_page_size_
  capped,     \* allocations_capped_
  allocated,  \* num_pages_allocated_
  undefined,  \* slab_segments_[0] was read with no slab
  passed      \* auxiliary: the buffers a delete of their prefix has passed over

vars == <<slabs, unsized, index, pins, order, cur, capped, allocated, undefined, passed>>

Free(start, num) == [start |-> start, num |-> num, key |-> None]
Used(start, num, k) == [start |-> start, num |-> num, key |-> k]

IsFree(seg) == seg.key = None

SumOf(s) ==
  LET sum[i \in 0..Len(s)] == IF i = 0 THEN 0 ELSE sum[i - 1] + s[i]
  IN  sum[Len(s)]

\* The pages of the segments from..to of a slab.
Pages(segs, from, to) == SumOf([i \in 1..to - from + 1 |-> segs[from + i - 1].num])

\* The segments from..to of a slab replaced by the sequence with.
Splice(segs, from, to, with) ==
  SubSeq(segs, 1, from - 1) \o with \o SubSeq(segs, to + 1, Len(segs))

Without(s, K) == Those(s, Keys \ K)
Touch(s, k) == Append(Without(s, {k}), k)

Where(ss, k) == {w \in UNION {{s} \X (DOMAIN ss[s]) : s \in DOMAIN ss} : ss[w[1]][w[2]].key = k}
InSlabs(ss) == (UNION {{ss[s][i].key : i \in DOMAIN ss[s]} : s \in DOMAIN ss}) \ {None}

Place(ss, k) == CHOOSE w \in Where(ss, k) : TRUE

-----------------------------------------------------------------------------
(* findFreeBuffer                                                           *)

\* The state the operators below transform, and the outcome so far.
Pool == [slabs |-> slabs, unsized |-> unsized, index |-> index, pins |-> pins,
         order |-> order, cur |-> cur, capped |-> capped, allocated |-> allocated,
         result |-> "ok"]

Fits(segs, n) == {i \in DOMAIN segs : IsFree(segs[i]) /\ segs[i].num >= n}

\* findFreeBufferInSlab: the first free segment that fits is split.
TakeFree(p, s, n, k) ==
  LET segs == p.slabs[s]
      i == Min(Fits(segs, n))
      excess == segs[i].num - n
      rest == IF excess > 0 THEN <<Free(segs[i].start + n, excess)>> ELSE <<>>
  IN  [p EXCEPT !.slabs[s] = Splice(segs, i, i, <<Used(segs[i].start, n, k)>> \o rest),
                !.order = Touch(@, k)]

\* Mutant: the size of a new slab is not limited to the pages left in the pool.
AddSlabUnlimited(p, n, k) ==
  IF p.capped \/ p.allocated >= PoolPages THEN {[p EXCEPT !.result = "full"]}
  ELSE {TakeFree([p EXCEPT !.slabs = Append(@, <<Free(0, MaxSlab)>>),
                           !.allocated = @ + MaxSlab], Len(p.slabs) + 1, n, k)}

\* The condition and the first statements of the loop that adds a slab.
MayAdd(p) == ~p.capped /\ p.allocated < PoolPages
Limited(p) == IF MayAdd(p) THEN [p EXCEPT !.cur = Min({@, PoolPages - p.allocated})] ELSE p
Attempts(p, n) == MayAdd(p) /\ n <= p.cur

SlabAdded(p, n, k) ==
  TakeFree([p EXCEPT !.slabs = Append(@, <<Free(0, p.cur)>>), !.allocated = @ + p.cur],
           Len(p.slabs) + 1, n, k)

\* A failure lowers the size of the next attempt, until allocations are capped.
SlabFailed(p, n) ==
  LET half == p.cur \div 2
  IN  Limited(IF n > half /\ p.cur # n THEN [p EXCEPT !.cur = n]
              ELSE [p EXCEPT !.cur = half, !.capped = half < MinSlab])

\* The outcomes of the loop: any number of attempts fail, as long as another is made.
AddSlab(p, n, k) ==
  LET failed[i \in 0..MaxSlab] ==
        IF i = 0 THEN Limited(p)
        ELSE LET q == failed[i - 1] IN IF Attempts(q, n) THEN SlabFailed(q, n) ELSE q
  IN  {IF Attempts(q, n) THEN SlabAdded(q, n, k) ELSE [q EXCEPT !.result = "full"] :
         q \in {failed[i] : i \in 0..MaxSlab}}

\* The runs i..j of segments of a slab that eviction may take for n pages: none is
\* pinned, and j is the first to make it large enough.
Windows(p, n) ==
  {w \in UNION {{s} \X (DOMAIN p.slabs[s]) \X (DOMAIN p.slabs[s]) : s \in DOMAIN p.slabs} :
     LET segs == p.slabs[w[1]]
     IN  /\ w[2] <= w[3]
         /\ Pages(segs, w[2], w[3]) >= n
         /\ Pages(segs, w[2], w[3] - 1) < n
         /\ \A i \in w[2]..w[3] : ~IsFree(segs[i]) => p.pins[segs[i].key] = 0}

\* The most recent touch in the run; free segments do not count.
Score(p, w) ==
  Max({0} \cup {r \in DOMAIN p.order : \E i \in w[2]..w[3] : p.order[r] = p.slabs[w[1]][i].key})

Before(w, v) == w[1] < v[1] \/ (w[1] = v[1] /\ w[2] < v[2])

Best(p, n) ==
  LET windows == Windows(p, n)
  IN  CHOOSE w \in windows : \A v \in windows \ {w} :
        Score(p, w) < Score(p, v) \/ (Score(p, w) = Score(p, v) /\ Before(w, v))

\* Mutant: the evicted chunks stay in chunk_index_.
EvictKeepsIndex(p, w, n, k) ==
  LET segs == p.slabs[w[1]]
      gone == {segs[i].key : i \in w[2]..w[3]} \ {None}
      start == segs[w[2]].start
      excess == Pages(segs, w[2], w[3]) - n
      rest == IF excess = 0 THEN <<>> ELSE <<Free(start + n, excess)>>
  IN  [p EXCEPT !.slabs[w[1]] = Splice(segs, w[2], w[3], <<Used(start, n, k)>> \o rest),
                !.order = Touch(Without(@, gone), k)]

\* Mutant: the excess of the run does not join a free successor.
EvictNoJoin(p, w, n, k) ==
  LET segs == p.slabs[w[1]]
      gone == {segs[i].key : i \in w[2]..w[3]} \ {None}
      start == segs[w[2]].start
      excess == Pages(segs, w[2], w[3]) - n
      rest == IF excess = 0 THEN <<>> ELSE <<Free(start + n, excess)>>
  IN  [p EXCEPT !.slabs[w[1]] = Splice(segs, w[2], w[3], <<Used(start, n, k)>> \o rest),
                !.index = @ \ gone,
                !.order = Touch(Without(@, gone), k)]

\* evict: the run becomes the new segment; its excess joins a free successor.
Evict(p, w, n, k) ==
  LET segs == p.slabs[w[1]]
      gone == {segs[i].key : i \in w[2]..w[3]} \ {None}
      start == segs[w[2]].start
      excess == Pages(segs, w[2], w[3]) - n
      joins == excess > 0 /\ w[3] < Len(segs) /\ IsFree(segs[w[3] + 1])
      rest == IF excess = 0 THEN <<>>
              ELSE <<Free(start + n, excess + IF joins THEN segs[w[3] + 1].num ELSE 0)>>
  IN  [p EXCEPT !.slabs[w[1]] = Splice(segs, w[2], IF joins THEN w[3] + 1 ELSE w[3],
                                       <<Used(start, n, k)>> \o rest),
                !.index = @ \ gone,
                !.order = Touch(Without(@, gone), k)]

FindFreeBuffer(p, n, k) ==
  LET fits == {s \in DOMAIN p.slabs : Fits(p.slabs[s], n) # {}}
      make(q) ==
        IF q.result = "ok" THEN q
        ELSE IF q.allocated = 0 /\ q.capped THEN [q EXCEPT !.result = "oom"]
        ELSE IF q.slabs = <<>> THEN [q EXCEPT !.result = "undefined"]
        ELSE IF Windows(q, n) = {} THEN [q EXCEPT !.result = "oom"]
        ELSE Evict([q EXCEPT !.result = "ok"], Best(q, n), n, k)
  IN  IF n > MaxSlab THEN {[p EXCEPT !.result = "oom"]}
      ELSE IF fits # {} THEN {TakeFree(p, Min(fits), n, k)}
      ELSE {make(q) : q \in AddSlab(p, n, k)}

\* Mutant: a segment that joins its free predecessor keeps its own start.
RemoveSegmentStart(p, s, i) ==
  LET segs == p.slabs[s]
      from == IF i > 1 /\ IsFree(segs[i - 1]) THEN i - 1 ELSE i
      to == IF i < Len(segs) /\ IsFree(segs[i + 1]) THEN i + 1 ELSE i
  IN  [p EXCEPT !.slabs[s] = Splice(segs, from, to,
                                    <<Free(segs[i].start, Pages(segs, from, to))>>)]

\* removeSegment: the segment becomes free and joins its free neighbours.
RemoveSegment(p, s, i) ==
  LET segs == p.slabs[s]
      from == IF i > 1 /\ IsFree(segs[i - 1]) THEN i - 1 ELSE i
      to == IF i < Len(segs) /\ IsFree(segs[i + 1]) THEN i + 1 ELSE i
  IN  [p EXCEPT !.slabs[s] = Splice(segs, from, to,
                                    <<Free(segs[from].start, Pages(segs, from, to))>>)]

-----------------------------------------------------------------------------
(* The operations                                                           *)

\* reserveBuffer: into the free successor, or to a new segment.
Reserve(p, k, n) ==
  LET w == Place(p.slabs, k)
      segs == p.slabs[w[1]]
      extra == n - segs[w[2]].num
      next == segs[w[2] + 1]
      inPlace == /\ k \notin p.unsized
                 /\ w[2] < Len(segs) /\ IsFree(next) /\ next.num >= extra
      leave(q) ==
        IF q.result # "ok" THEN q
        ELSE IF k \in p.unsized THEN [q EXCEPT !.unsized = @ \ {k}]
        ELSE RemoveSegment(q, w[1], CHOOSE i \in DOMAIN q.slabs[w[1]] :
               /\ q.slabs[w[1]][i].key = k
               /\ q.slabs[w[1]][i].start = segs[w[2]].start)
  IN  IF inPlace
      THEN {[p EXCEPT !.slabs[w[1]] = Splice(segs, w[2], w[2] + 1,
               <<Used(segs[w[2]].start, n, k),
                 Free(segs[w[2]].start + n, next.num - extra)>>)]}
      ELSE {leave(q) : q \in FindFreeBuffer(p, n, k)}

Size(p, k) == IF k \in p.unsized THEN 0
              ELSE LET w == Place(p.slabs, k) IN p.slabs[w[1]][w[2]].num

\* deleteBuffer, whatever the pins.
Deleted(p, k) ==
  LET w == Place(p.slabs, k)
      q == IF k \in p.unsized THEN [p EXCEPT !.unsized = @ \ {k}]
           ELSE RemoveSegment(p, w[1], w[2])
  IN  [q EXCEPT !.index = @ \ {k}, !.order = Without(@, {k}), !.pins[k] = 0]

\* createBuffer: pinned and unsized first, then given its pages, or undone.
Created(p, k, n) ==
  LET q == [p EXCEPT !.index = @ \cup {k}, !.unsized = @ \cup {k}, !.pins[k] = 1]
  IN  IF n = 0 THEN {q}
      ELSE {IF r.result = "oom" THEN Deleted(r, k) ELSE r : r \in Reserve(q, k, n)}

\* getBuffer of a chunk in the pool: the pin and the touch come before the fetch
\* that may make it grow, and stay when that fails.
Found(p, k, n) ==
  LET q == [p EXCEPT !.pins[k] = @ + 1,
                     !.order = IF k \in p.unsized THEN @ ELSE Touch(@, k)]
  IN  IF n > Size(q, k) THEN Reserve(q, k, n) ELSE {q}

\* The pool p is the next state; K are buffers that a delete passes over now.
Become(p, K) ==
  /\ slabs' = p.slabs /\ unsized' = p.unsized /\ index' = p.index /\ pins' = p.pins
  /\ order' = p.order /\ cur' = p.cur /\ capped' = p.capped /\ allocated' = p.allocated
  /\ undefined' = (p.result = "undefined")
  /\ passed' = (passed \cup K) \cap (InSlabs(p.slabs) \cup p.unsized)

\* createBuffer, alloc, and getBuffer of a chunk that is not in the pool.
CreateBuffer(k, n) ==
  /\ ~undefined
  /\ k \notin index
  /\ \E p \in Created(Pool, k, n) : Become(p, {})

\* Buffer::reserve, write or append by a holder of a pin.
GrowBuffer(k, n) ==
  /\ ~undefined
  /\ k \in index /\ pins[k] > 0
  /\ n > Size(Pool, k)
  /\ \E p \in Reserve(Pool, k, n) : Become(p, {})

GetBuffer(k, n) ==
  /\ ~undefined
  /\ k \in index /\ pins[k] < MaxPins
  /\ \E p \in Found(Pool, k, n) : Become(p, {})

UnPin(k) ==
  /\ ~undefined
  /\ k \in index /\ pins[k] > 0
  /\ pins' = [pins EXCEPT ![k] = @ - 1]
  /\ UNCHANGED <<slabs, unsized, index, order, cur, capped, allocated, undefined, passed>>

\* deleteBuffer and free.
DeleteBuffer(k) ==
  /\ ~undefined
  /\ k \in index
  /\ Become(Deleted(Pool, k), {})

\* The elements of K in some order, each once.
Listed(K) ==
  CHOOSE f \in [1..Cardinality(K) -> K] :
    \A i, j \in 1..Cardinality(K) : f[i] = f[j] => i = j

\* Deletes the buffers of the keys in K; their order makes no difference.
DeletedAll(p, K) ==
  LET keys == Listed(K)
      deleted[i \in 0..Cardinality(K)] ==
        IF i = 0 THEN p ELSE Deleted(deleted[i - 1], keys[i])
  IN  deleted[Cardinality(K)]

\* Mutant: deleteBuffersWithPrefix without the test of the pin count.
DeletePrefixPinned(P) ==
  /\ ~undefined
  /\ Become(DeletedAll(Pool, P \cap index), {})

\* deleteBuffersWithPrefix.  A pinned buffer stays as it is, in the index too.
DeletePrefix(P) ==
  /\ ~undefined
  /\ Become(DeletedAll(Pool, {k \in P \cap index : pins[k] = 0}),
            {k \in P \cap index : pins[k] > 0})

\* The state after freeAllMem, clear and reinit.
Cleared(p) ==
  [p EXCEPT !.slabs = <<>>, !.unsized = {}, !.index = {}, !.pins = [k \in Keys |-> 0],
            !.order = <<>>, !.cur = MaxSlab, !.capped = FALSE, !.allocated = 0]

ClearSlabs ==
  /\ ~undefined
  /\ LET loose == {k \in InSlabs(slabs) : pins[k] = 0}
         p == DeletedAll(Pool, loose)
     IN  Become(IF InSlabs(slabs) = loose THEN Cleared(p) ELSE p, {})

Init ==
  /\ slabs = <<>> /\ unsized = {} /\ index = {} /\ order = <<>>
  /\ pins = [k \in Keys |-> 0]
  /\ cur = MaxSlab /\ capped = FALSE /\ allocated = 0
  /\ undefined = FALSE /\ passed = {}

Next ==
  \/ \E k \in Keys : \/ \E n \in 0..MaxRequest : CreateBuffer(k, n) \/ GetBuffer(k, n)
                     \/ \E n \in 1..MaxRequest : GrowBuffer(k, n)
                     \/ UnPin(k)
                     \/ DeleteBuffer(k)
  \/ \E P \in Prefixes : DeletePrefix(P)
  \/ ClearSlabs

Spec == Init /\ [][Next]_vars

-----------------------------------------------------------------------------
(* Properties                                                               *)

\* The types of the pool's state; in particular the slabs never exceed the pool and
\* the pins never fall below zero.
TypeOK ==
  /\ \A s \in DOMAIN slabs : \A i \in DOMAIN slabs[s] :
       slabs[s][i] \in [start : 0..MaxSlab, num : 0..MaxSlab, key : Keys \cup {None}]
  /\ unsized \subseteq Keys /\ index \subseteq Keys
  /\ pins \in [Keys -> 0..MaxPins]
  /\ cur \in 0..MaxSlab /\ allocated \in 0..PoolPages
  /\ capped \in BOOLEAN /\ undefined \in BOOLEAN /\ passed \subseteq Keys

\* The segments of a slab tile it: each starts where the one before ends, from page
\* 0 to the pages the slab was allocated with, so no page is lost or given to two
\* buffers, and the slabs together are the pages counted as allocated.
Tiling ==
  /\ \A s \in DOMAIN slabs :
       LET segs == slabs[s]
       IN  /\ segs # <<>> /\ segs[1].start = 0
           /\ \A i \in 1..Len(segs) - 1 : segs[i + 1].start = segs[i].start + segs[i].num
  /\ SumOf([s \in DOMAIN slabs |-> Pages(slabs[s], 1, Len(slabs[s]))]) = allocated

\* Free segments are always joined: no two are neighbours.  evict relies on it ("We
\* can assume here that buffer for evictStart either doesn't exist ... or was not
\* free"), and first fit sees fragmented space as full without it.
NoAdjacentFree ==
  \A s \in DOMAIN slabs : \A i \in 1..Len(slabs[s]) - 1 :
    ~(IsFree(slabs[s][i]) /\ IsFree(slabs[s][i + 1]))

\* chunk_index_ names only buffers that exist, and all of them but those that
\* deleteBuffersWithPrefix had to pass over, which it is to hide (PassedOverGone); each
\* is in one segment, sized or unsized, with its last touch on record.
IndexExact ==
  ~undefined =>
    /\ index \subseteq InSlabs(slabs) \cup unsized
    /\ (InSlabs(slabs) \cup unsized) \ index \subseteq passed
    /\ InSlabs(slabs) \cap unsized = {}
    /\ \A k \in InSlabs(slabs) : Cardinality(Where(slabs, k)) = 1
    /\ {order[r] : r \in DOMAIN order} = InSlabs(slabs)

\* deleteBuffersWithPrefix of a pinned buffer: "once unpinned, the buffer will be
\* inaccessible and evicted", so getBuffer never finds the deleted chunk again.
PassedOverGone == \A k \in passed : pins[k] = 0 => k \notin index

\* Buffer k is in new where it is in old, and has no fewer pages.
StaysPut(old, new, k) ==
  /\ k \in InSlabs(new)
  /\ LET w == Place(old, k)
         v == Place(new, k)
         before == old[w[1]][w[2]]
         after == new[v[1]][v[2]]
     IN  v[1] = w[1] /\ after.start = before.start /\ after.num >= before.num

\* What a step may do to the pinned buffers.
PinnedStep ==
  \A k \in InSlabs(slabs) : pins[k] > 0 =>
    \/ StaysPut(slabs, slabs', k)
    \/ DeleteBuffer(k)
    \/ \E n \in 1..MaxRequest : GrowBuffer(k, n) \/ GetBuffer(k, n)

\* The memory of a pinned buffer is neither taken, shrunk nor moved by what others
\* do: it changes its place, or goes, only when it is itself grown or deleted.
PinnedStays == [][PinnedStep]_vars

=============================================================================
