----------------------------- MODULE StreamBody -----------------------------
(***************************************************************************)
(* The entry log of a stream: chunks of entries, the oldest of which may   *)
(* lie in segment files on disk, and the journal that lets a command be    *)
(* described and undone (stream_body.go, stream_spill.go, the marks and    *)
(* snapshots of stream_store.go and stream_tx.go).                         *)
(*                                                                         *)
(* An entry is its ID, a number: milliseconds * SeqCount + sequence.  A    *)
(* chunk's data holds IDs, the first head of which are trimmed; an entry   *)
(* stands for one unit of size.  seg = 0 is a chunk in memory.  ID 0 and   *)
(* through = 0 stand for "none".                                           *)
(***************************************************************************)
EXTENDS Integers, Sequences, FiniteSets, SequencesExt, FiniteSetsExt

CONSTANTS
    None,
    ChunkSize,     \* streamChunkTarget, in entries
    SeqCount       \* sequence numbers of a millisecond

newStreamBody(limit) ==
    [chunks |-> <<>>, last |-> 0, maxDel |-> 0, added |-> 0,
     sp |-> limit, segs |-> {}, next |-> 1, dirty |-> FALSE, j |-> None]

bodyJournal == [appended |-> <<>>, through |-> 0, deleted |-> {}, mark |-> None, snap |-> None]

live(c) == SubSeq(c.data, c.head + 1, Len(c.data))
FirstID(c) == c.data[c.head + 1]
LastID(c) == c.data[Len(c.data)]

All(b) == FlattenSeq([i \in DOMAIN b.chunks |-> live(b.chunks[i])])
Length(b) == Len(All(b))

\* The first chunk that may hold an entry at or after id; one past the end if none.
firstChunkAtOrAfter(b, id) ==
    Min({i \in DOMAIN b.chunks : LastID(b.chunks[i]) >= id} \cup {Len(b.chunks) + 1})

\* The chunk whose range covers id, or 0.
Covers(b, id) ==
    LET ci == firstChunkAtOrAfter(b, id)
    IN  IF ci > Len(b.chunks) THEN 0 ELSE IF id < FirstID(b.chunks[ci]) THEN 0 ELSE ci

Has(b, id) == LET ci == Covers(b, id) IN ci # 0 /\ id \in ToSet(live(b.chunks[ci]))

\* The entries from start on, in order, and those up to end, in reverse order.
ForEachFrom(b, start) ==
    LET tail == SubSeq(b.chunks, firstChunkAtOrAfter(b, start), Len(b.chunks))
    IN  SelectSeq(FlattenSeq([i \in DOMAIN tail |-> live(tail[i])]), LAMBDA id : id >= start)

ForEachReverse(b, end) ==
    LET after == Min({i \in DOMAIN b.chunks : end < FirstID(b.chunks[i])} \cup {Len(b.chunks) + 1})
        front == SubSeq(b.chunks, 1, after - 1)
    IN  SelectSeq(Reverse(FlattenSeq([i \in DOMAIN front |-> live(front[i])])), LAMBDA id : id <= end)

CountThrough(b, id) == Len(SelectSeq(All(b), LAMBDA e : e <= id))

-----------------------------------------------------------------------------
(* Marks and snapshots.                                                    *)

mark(b) ==
    [chunks |-> Len(b.chunks), dataLen |-> IF b.chunks = <<>> THEN 0 ELSE Len(b.chunks[Len(b.chunks)].data),
     last |-> b.last, maxDel |-> b.maxDel, added |-> b.added]

rollback(b, m) ==
    [b EXCEPT !.chunks = [i \in 1 .. m.chunks |->
                             IF i = m.chunks THEN [@[i] EXCEPT !.data = SubSeq(@, 1, m.dataLen)] ELSE @[i]],
              !.last = m.last, !.maxDel = m.maxDel, !.added = m.added]

snapshot(b) == [chunks |-> b.chunks, last |-> b.last, maxDel |-> b.maxDel, added |-> b.added]

restoreSnapshot(b, sn) ==
    [b EXCEPT !.chunks = sn.chunks, !.last = sn.last, !.maxDel = sn.maxDel, !.added = sn.added]

noteAppend(b, id) ==
    IF b.j = None THEN b
    ELSE [b EXCEPT !.j.mark = IF @ = None /\ b.j.snap = None THEN mark(b) ELSE @,
                   !.j.appended = Append(@, id)]

beforeDestructive(b) ==
    IF b.j = None THEN b ELSE [b EXCEPT !.j.snap = IF @ = None THEN snapshot(b) ELSE @]

noteThrough(b, id) == IF b.j = None THEN b ELSE [b EXCEPT !.j.through = Max({@, id})]

touched(j) == j.appended # <<>> \/ j.through # 0 \/ j.deleted # {}

-----------------------------------------------------------------------------
(* Segments.                                                               *)

Resident(b) == FoldLeft(LAMBDA n, c : n + (IF c.seg = 0 THEN Len(c.data) ELSE 0), 0, b.chunks)

\* The oldest sealed chunks in memory, until half of the limit would be left.
Picks(b) ==
    FoldLeft(LAMBDA p, i : IF b.chunks[i].seg # 0 \/ p.resident <= b.sp \div 2 THEN p
                           ELSE [set |-> p.set \cup {i}, resident |-> p.resident - Len(b.chunks[i].data)],
             [set |-> {}, resident |-> Resident(b)],
             [i \in 1 .. Len(b.chunks) - 1 |-> i]).set

spillCold(b) ==
    IF b.sp = 0 \/ b.j # None \/ Len(b.chunks) < 2 \/ Resident(b) <= b.sp \/ Picks(b) = {}
    THEN b
    ELSE [b EXCEPT !.chunks = [i \in DOMAIN b.chunks |->
                                  IF i \in Picks(b) THEN [@[i] EXCEPT !.seg = b.next] ELSE @[i]],
                   !.segs = @ \cup {b.next}, !.next = @ + 1]

SegmentsUsed(chunks) == {chunks[i].seg : i \in DOMAIN chunks} \ {0}

gcSegments(b) ==
    IF ~b.dirty \/ b.j # None THEN b
    ELSE [b EXCEPT !.dirty = FALSE, !.segs = @ \cap SegmentsUsed(b.chunks)]

settle(b) == spillCold(gcSegments(b))

-----------------------------------------------------------------------------
(* Changes.                                                                *)

NewChunk(b) ==
    \/ b.chunks = <<>>
    \/ b.chunks[Len(b.chunks)].seg # 0
    \/ Len(b.chunks[Len(b.chunks)].data) >= ChunkSize

AppendEntry(b0, id) ==
    LET b == noteAppend(b0, id)
        n == Len(b.chunks)
        chunks == IF NewChunk(b) THEN Append(b.chunks, [data |-> <<id>>, head |-> 0, seg |-> 0])
                  ELSE [b.chunks EXCEPT ![n].data = Append(@, id)]
    IN  spillCold([b EXCEPT !.chunks = chunks])

\* A chunk without its first n entries; the buffer is rewritten once most of it is dead.
TrimChunk(c, n) ==
    LET head == c.head + n
    IN  IF head > Len(c.data) \div 2 THEN [data |-> SubSeq(c.data, head + 1, Len(c.data)), head |-> 0, seg |-> 0]
        ELSE [data |-> c.data, head |-> head, seg |-> 0]

TrimFront(b0, n) ==
    LET b == IF n > 0 /\ b0.chunks # <<>> THEN beforeDestructive(b0) ELSE b0
        r == FoldLeft(LAMBDA s, c :
                 LET k == Len(live(c))
                 IN  CASE s.n = 0 -> [s EXCEPT !.chunks = Append(@, c)]
                       [] s.n > 0 /\ k <= s.n ->
                            [s EXCEPT !.n = @ - k, !.gone = LastID(c), !.dirty = @ \/ c.seg # 0]
                       [] OTHER ->
                            [s EXCEPT !.n = 0, !.gone = live(c)[s.n], !.dirty = @ \/ c.seg # 0,
                                      !.chunks = Append(@, TrimChunk(c, s.n))],
                 [n |-> n, gone |-> 0, dirty |-> b.dirty, chunks |-> <<>>], b.chunks)
    IN  gcSegments(noteThrough([b EXCEPT !.chunks = r.chunks, !.dirty = r.dirty], r.gone))

rewriteChunk(c, drop) ==
    LET kept == SelectSeq(live(c), LAMBDA id : id \notin drop)
    IN  IF kept = live(c) THEN [c EXCEPT !.seg = 0] ELSE [data |-> kept, head |-> 0, seg |-> 0]

Delete(b0, ids) ==
    IF ids = {} \/ b0.chunks = <<>> THEN b0
    ELSE LET b == beforeDestructive(b0)
             drop(i) == {id \in ids : Covers(b, id) = i}
             found == UNION {drop(i) \cap ToSet(live(b.chunks[i])) : i \in DOMAIN b.chunks}
             new == [i \in DOMAIN b.chunks |->
                        IF drop(i) = {} THEN b.chunks[i] ELSE rewriteChunk(b.chunks[i], drop(i))]
             out == [b EXCEPT
                       !.chunks = SelectSeq(new, LAMBDA c : c.data # <<>>),
                       !.dirty = @ \/ \E i \in DOMAIN b.chunks : drop(i) # {} /\ b.chunks[i].seg # 0]
         IN  gcSegments(IF b.j = None THEN out ELSE [out EXCEPT !.j.deleted = @ \cup found])

streamBodyFromEntries(limit, entries, last, maxDel, added) ==
    LET b == FoldLeft(AppendEntry, newStreamBody(0), entries)
    IN  spillCold([b EXCEPT !.last = last, !.maxDel = maxDel, !.added = added, !.sp = limit])

-----------------------------------------------------------------------------
(* IDs.                                                                    *)

Millis(id) == id \div SeqCount
Sequence(id) == id % SeqCount

\* The next ID in millisecond ms, or 0 if there is none.
nextPartialStreamID(ms, last) ==
    CASE ms < Millis(last) -> 0
      [] ms = Millis(last) -> IF Sequence(last) = SeqCount - 1 THEN 0 ELSE last + 1
      [] ms > Millis(last) -> IF ms = 0 THEN 1 ELSE ms * SeqCount

\* Trusting the clock although it went back.
nextAutomaticStreamIDClock(now, last) ==
    IF now = Millis(last) THEN nextPartialStreamID(now, last) ELSE now * SeqCount

nextAutomaticStreamID(now, last) == nextPartialStreamID(Max({now, Millis(last)}), last)

resolveStreamAddID(spec, now, last) ==
    CASE spec[1] = "auto" -> nextAutomaticStreamID(now, last)
      [] spec[1] = "partial" -> nextPartialStreamID(spec[2], last)
      [] spec[1] = "id" -> IF spec[2] > last THEN spec[2] ELSE 0
=============================================================================
