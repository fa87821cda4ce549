------------------------------- MODULE Arena -------------------------------
(***************************************************************************)
(* The arena of a shard (src/internal/arena): blocks cut from segments,    *)
(* one free list per block size, holes left by dedicated blocks that went  *)
(* back to the heap, and references that carry a generation.  Sizes are    *)
(* the ones of the code, in bytes.  A payload is a sequence of model       *)
(* bytes, each of which stands for Unit bytes of data.                     *)
(***************************************************************************)
EXTENDS Integers, Sequences, FiniteSets, SequencesExt, FiniteSetsExt

CONSTANT GenerationMask   \* the largest generation of a block: 2^18 - 1

SegmentBytes == 8192
SegmentMetadata == 24
FreeTableBytes == 137 * 8 + 24

Unit == 2500   \* bytes of data a model byte stands for

NoRef == [at |-> "none", seg |-> 0, off |-> 0, gen |-> 0, data |-> <<>>, size |-> 0]

RoundUp(n, k) == ((n + k - 1) \div k) * k

\* Steps of an eighth from 1024 to half a segment.
Geometric == {1024, 1152, 1296, 1458, 1640, 1845, 2075, 2334, 2625, 2953, 3322, 3737, 4096}

\* Size classes of the Go allocator above half a segment.
GoClasses == {4864, 5376, 6144, 6528, 6784, 6912, 8192, 9472, 9728, 10240, 10880, 12288}

Least(S, size) == Min({b \in S : b >= size})

BlockClass(size) ==
  CASE size \in 17..24 -> 24
    [] size \in 81..88 -> 88
    [] size \in 49..56 -> 56
    [] size <= 128 \/ size \in 257..512 -> RoundUp(size, 16)
    [] size <= 1024 -> RoundUp(size, 32)
    [] size <= SegmentBytes \div 2 -> Least(Geometric, size)
    [] size <= 12288 -> Least(GoClasses, size)
    [] OTHER -> RoundUp(size, SegmentBytes)

Block(n) == BlockClass(IF n + 8 < 16 THEN 16 ELSE n + 8)

Dedicated(block) == block > SegmentBytes \div 2

SegmentSizeForBlock(block) ==
  IF block > SegmentBytes THEN block
  ELSE IF block <= 1024 THEN SegmentBytes
  ELSE (SegmentBytes \div block) * block

SegmentSize(block, existing) ==
  IF block > 1024 \/ existing >= 2 THEN SegmentSizeForBlock(block)
  ELSE LET target == IF existing = 1 THEN 1024 ELSE IF block = 24 THEN 192 ELSE 256
       IN IF target < block THEN block ELSE (target \div block) * block

----------------------------------------------------------------------------
\* segs: capacity and used bytes of each segment; slots: capacity of the
\* segment slice; table: whether the free table exists; free: the freed
\* blocks, last freed first; holes: released segments; cells: live blocks.

EmptyArena ==
  [segs |-> <<>>, slots |-> 0, table |-> FALSE, free |-> <<>>, holes |-> <<>>,
   gen |-> 0, cells |-> {}]

NextGeneration(a) == IF a.gen + 1 > GenerationMask THEN 1 ELSE a.gen + 1

TotalMemory(a) ==
  a.slots * SegmentMetadata + FoldLeft(LAMBDA n, s : n + s.cap, 0, a.segs)
    + (IF a.table THEN FreeTableBytes ELSE 0)

FreeGrowth(a, ref) ==
  IF ref.at # "block" \/ a.table THEN 0 ELSE FreeTableBytes

AllocationBytes(ref) == IF ref.at = "block" THEN Block(ref.size) ELSE 0

NextSlots(n) == IF n = 0 THEN 1 ELSE 2 * n

\* What the allocation of payloads of these sizes would add, without doing it.
Opened(g, size, slots) ==
  [g EXCEPT !.size = size, !.count = @ + 1, !.slots = slots,
            !.growth = @ + size + (slots - g.slots) * SegmentMetadata]

Planned(g, block) ==
  CASE \E i \in DOMAIN g.free : g.free[i].block = block ->
         [g EXCEPT !.free = RemoveAt(@, SelectInSeq(@, LAMBDA f : f.block = block))]
    [] Dedicated(block) /\ g.holes > 0 ->
         [g EXCEPT !.holes = @ - 1, !.growth = @ + SegmentSizeForBlock(block)]
    [] g.size - g.used >= block -> [g EXCEPT !.used = @ + block]
    [] OTHER -> Opened([g EXCEPT !.used = block], SegmentSize(block, g.count),
                       IF g.count = g.slots THEN NextSlots(g.slots) ELSE g.slots)

GrowthFor(a, sizes) ==
  FoldLeft(LAMBDA g, n : IF n = 0 THEN g ELSE Planned(g, Block(n)),
           [free |-> a.free, holes |-> Len(a.holes), count |-> Len(a.segs), slots |-> a.slots,
            used |-> IF a.segs = <<>> THEN 0 ELSE Last(a.segs).used,
            size |-> IF a.segs = <<>> THEN 0 ELSE Last(a.segs).cap, growth |-> 0], sizes).growth

\* The arena with a block for an allocation, and where the block is.
Place(a, block) ==
  LET parked == SelectInSeq(a.free, LAMBDA f : f.block = block)
      n == Len(a.segs)
  IN IF parked # 0
     THEN [a |-> [a EXCEPT !.free = RemoveAt(@, parked)],
           seg |-> a.free[parked].seg, off |-> a.free[parked].off]
     ELSE IF Dedicated(block) /\ a.holes # <<>>
     THEN [a |-> [a EXCEPT !.holes = Front(@),
                           !.segs[Last(a.holes)] =
                             [cap |-> SegmentSizeForBlock(block), used |-> block]],
           seg |-> Last(a.holes), off |-> 0]
     ELSE IF n > 0 /\ Last(a.segs).cap - Last(a.segs).used >= block
     THEN [a |-> [a EXCEPT !.segs[n].used = @ + block], seg |-> n, off |-> Last(a.segs).used]
     ELSE [a |-> [a EXCEPT !.segs = Append(@, [cap |-> SegmentSize(block, n), used |-> block]),
                           !.slots = IF n = @ THEN NextSlots(@) ELSE @],
           seg |-> n + 1, off |-> 0]

\* Stores the payload, and returns its reference with the arena.
Filled(p, data, size, gen) ==
  [a |-> [p.a EXCEPT !.gen = gen,
                     !.cells = {c \in @ : <<c.seg, c.off>> # <<p.seg, p.off>>}
                       \cup {[seg |-> p.seg, off |-> p.off, gen |-> gen, data |-> data]}],
   ref |-> [at |-> "block", seg |-> p.seg, off |-> p.off, gen |-> gen, data |-> <<>>, size |-> size]]

Alloc(a, data, size) ==
  IF size = 0 THEN [a |-> a, ref |-> NoRef]
  ELSE Filled(Place(a, Block(size)), data, size, NextGeneration(a))

\* A short scalar lives in the reference and consumes a generation.
AllocInline(a, data, size) ==
  LET gen == NextGeneration(a)
  IN [a |-> [a EXCEPT !.gen = gen],
      ref |-> [at |-> "inline", seg |-> 0, off |-> 0, gen |-> gen, data |-> data, size |-> size]]

Held(a, ref) == {c \in a.cells : c.seg = ref.seg /\ c.off = ref.off}

\* View refuses a reference whose block has another generation.
Viewable(a, ref) == ref.at = "block" => \E c \in Held(a, ref) : c.gen = ref.gen

View(a, ref) ==
  CASE ref.at = "inline" -> ref.data
    [] ref.at = "none" -> <<>>
    [] OTHER -> (CHOOSE c \in Held(a, ref) : TRUE).data

\* A dedicated block that fills its segment goes back to the heap; any other
\* is parked.  The bytes released are what the caller takes off its account.
FreeBlock(a, ref, block) ==
  IF Dedicated(block) /\ ref.off = 0 /\ a.segs[ref.seg] = [cap |-> block, used |-> block]
  THEN [a |-> [a EXCEPT !.segs[ref.seg] = [cap |-> 0, used |-> 0], !.holes = Append(@, ref.seg)],
        released |-> block]
  ELSE [a |-> [a EXCEPT !.free = <<[block |-> block, seg |-> ref.seg, off |-> ref.off]>> \o @],
        released |-> 0]

Free(a, ref) ==
  IF ref.at # "block" THEN [a |-> a, released |-> 0]
  ELSE FreeBlock([a EXCEPT !.table = TRUE, !.cells = @ \ Held(a, ref)], ref, Block(ref.size))

=============================================================================
