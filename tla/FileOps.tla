------------------------------ MODULE FileOps -------------------------------
(* The arithmetic of an open file: how writes are kept, packed into sectors,   *)
(* and read back through the slices of a metafile.                             *)
(*                                                                             *)
(* A byte is a number.  The slices of a file's shards are the same on every    *)
(* host, except that each host's sector holds its own piece of the erasure     *)
(* code: one sequence of slices stands for all of them, and a sector holds,    *)
(* segment by segment, the chunks of MinChunkSize bytes whose pieces the hosts *)
(* hold.  Encryption undoes itself, segment by segment, and is left out.       *)
(*                                                                             *)
(* A file is [shards, size, lost, writes, modified]: the metafile's slices and *)
(* Filesize, the number of hosts whose shard an interrupted Free has already   *)
(* set to nil, the pending writes, and whether ModTime is after the file       *)
(* system's lastCommitTime.                                                    *)
EXTENDS Integers, Sequences, SequencesExt, Steps

CONSTANTS SegmentSize,          \* bytes per segment
          SegmentsPerSector,
          SegmentCounts,        \* how many values the count of a slice's segments
                                \* can have: 2^32 in the code
          MinShards             \* hosts needed to recover a chunk

ASSUME FileOpsAssumption ==
  /\ SegmentSize \in Nat \ {0} /\ MinShards \in Nat \ {0}
  /\ SegmentsPerSector \in Nat /\ SegmentsPerSector > 2 * MinShards
  /\ SegmentCounts \in Nat /\ SegmentCounts > SegmentsPerSector

MinChunkSize == SegmentSize * MinShards

SectorSize == SegmentsPerSector * SegmentSize

CeilDiv(a, b) == (a + b - 1) \div b

AtMost(a, b) == IF a < b THEN a ELSE b

(* s[a:b], counting from zero *)
Bytes(s, a, b) == SubSeq(s, a + 1, b)

Zeros(n) == [i \in 1 .. n |-> 0]

(* s with d copied over it from position a on, as far as s reaches *)
Copied(s, a, d) ==
  [i \in DOMAIN s |-> IF i > a /\ i - a <= Len(d) THEN d[i - a] ELSE s[i]]

End(w) == w.off + Len(w.data)

-----------------------------------------------------------------------------
(* Pending writes *)

(* Mutant: what w holds after the end of p is lost. *)
JoinedShort(w, p) ==
  [off  |-> AtMost(w.off, p.off),
   data |-> Bytes(w.data, 0, AtMost(Len(w.data), p.off - w.off)) \o p.data]

(* w and the newer write p, which touch, as one write *)
Joined(w, p) ==
  [off  |-> AtMost(w.off, p.off),
   data |-> Bytes(w.data, 0, AtMost(Len(w.data), p.off - w.off)) \o p.data
              \o Bytes(w.data, End(p) - w.off, Len(w.data))]

(* newPending is the same array: where no write is joined, pw is stored over   *)
(* the write after it, and then once more                                      *)
mergePendingWrites(ws, pw) ==
  LET RECURSIVE join(_, _)
      join(p, rest) ==
        IF rest # <<>> /\ Head(rest).off < End(p) THEN join(Joined(Head(rest), p), Tail(rest))
        ELSE <<p>> \o rest
      i    == SelectInSeq(ws, LAMBDA w: End(w) >= pw.off)    \* 0 if there is none
      rest == SubSeq(ws, i, Len(ws))
  IN  IF i = 0 THEN Append(ws, pw)
      ELSE SubSeq(ws, 1, i - 1)
             \o (IF Head(rest).off < End(pw) THEN join(pw, rest) ELSE <<pw, pw>> \o Tail(rest))

filesize(f) == FoldLeft(LAMBDA n, w: IF End(w) > n THEN End(w) ELSE n, f.size, f.writes)

(* Mutant: the partial segments at both ends are not counted. *)
calcShardSizeFloor(off, n) == SegmentSize * (n \div MinChunkSize)

calcShardSize(off, n) ==
  SegmentSize * (n \div MinChunkSize
                  + (IF off % MinChunkSize # 0 THEN 1 ELSE 0)
                  + (IF (off + n) % MinChunkSize # 0 THEN 1 ELSE 0))

(* taken: the bytes of each sector that the pending writes of all files will   *)
(* need                                                                        *)
maxWriteSize(taken, off, n) ==
  LET less(segs, misaligned) == IF segs > 0 /\ misaligned THEN segs - 1 ELSE segs
      of(maxRem) == less(less(maxRem \div MinChunkSize, off % MinChunkSize # 0),
                         (off + maxRem) % MinChunkSize # 0)
  IN  AtMost(n, of(IF taken < SectorSize THEN SectorSize - taken ELSE 0) * SegmentSize)

-----------------------------------------------------------------------------
(* Reading.  have is the set of sectors that enough hosts can supply.          *)

Result(err, data) == [err |-> err, data |-> data]

(* the chunks that the slices stand for, in the order of the file; past what   *)
(* was appended a sector is filled up with other bytes                         *)
Chunks(sectors, shards) ==
  LET segment(s, i) == IF i <= Len(sectors[s.root]) THEN sectors[s.root][i]
                       ELSE Zeros(MinChunkSize)
      of(s) == [j \in 1 .. s.num |-> segment(s, s.index + j)]
  IN  FlattenSeq([i \in DOMAIN shards |-> of(shards[i])])

(* the sector of each of those chunks; no host has what is past its end *)
RootsOf(shards) ==
  LET of(s) == [j \in 1 .. s.num |-> IF s.index + j <= SegmentsPerSector THEN s.root ELSE 0]
  IN  FlattenSeq([i \in DOMAIN shards |-> of(shards[i])])

(* CopySection on enough hosts, and Recover.  Of an empty list of slices       *)
(* calcSections makes no sections, and Recover refuses the empty shards; an    *)
(* offset past the last slice it takes from the first slice on.                *)
Downloaded(sectors, have, shards, off, n) ==
  LET first == off \div MinChunkSize
      skip  == off % MinChunkSize
      at(roots, start, end) ==
        IF start = end \/ end > Len(roots) \/ \E i \in start + 1 .. end: roots[i] \notin have
        THEN Result("hosts", <<>>)
        ELSE Result("nil", Bytes(FlattenSeq(SubSeq(Chunks(sectors, shards), start + 1, end)),
                                 skip, skip + n))
      from(roots, start) == at(roots, start, start + CeilDiv(off + n, MinChunkSize) - first)
  IN  Given(RootsOf(shards), LAMBDA roots:
        from(roots, IF first >= Len(roots) THEN first - Len(roots) ELSE first))

(* the loop that applies pending writes to what was downloaded *)
Overlaid(p, off, ws) ==
  FoldLeft(LAMBDA q, w:
             IF off <= w.off /\ w.off <= off + Len(q) THEN Copied(q, w.off - off, w.data)
             ELSE IF off <= End(w) /\ End(w) <= off + Len(q)
                  THEN Copied(q, 0, Bytes(w.data, off - w.off, Len(w.data)))
             ELSE q, p, ws)

(* what the hosts hold of n bytes, the pending writes applied to it *)
FromHosts(sectors, have, f, off, n) ==
  Given(Downloaded(sectors, have, f.shards, off, n), LAMBDA d:
    IF d.err # "nil" THEN d ELSE Result("nil", Overlaid(d.data, off, f.writes)))

(* n bytes that no pending write holds all of: the end of them from the write  *)
(* w that reaches past the size on the hosts, if one does, and the rest from   *)
(* the hosts                                                                   *)
ReadSplit(sectors, have, f, off, n, last) ==
  IF last = 0 THEN FromHosts(sectors, have, f, off, n)
  ELSE LET w == f.writes[last]
       IN  IF f.size < off \/ f.size < w.off THEN Result("panic", <<>>)
           ELSE Given(FromHosts(sectors, have, f, off, f.size - off), LAMBDA r:
                  Result(r.err, r.data \o Bytes(w.data, f.size - w.off, off + n - w.off)))

(* a read that the end of the file cuts short says so only if no pending write *)
(* holds all of it                                                             *)
ReadWithin(sectors, have, f, off, n, partial) ==
  Given(SelectInSeq(f.writes, LAMBDA w: w.off <= off /\ off + n <= End(w)), LAMBDA full:
    IF full # 0
    THEN LET w == f.writes[full]
         IN  Result("nil", Bytes(w.data, off - w.off, off + n - w.off))
    ELSE Given(IF off + n <= f.size THEN 0
               ELSE SelectInSeq(f.writes, LAMBDA w: w.off <= off + n /\ off + n <= End(w)),
               LAMBDA last: Given(ReadSplit(sectors, have, f, off, n, last), LAMBDA r:
                 IF r.err = "nil" /\ partial THEN Result("EOF", r.data) ELSE r)))

fileReadAt(sectors, have, f, off, len) ==
  Given(filesize(f), LAMBDA size:
    IF off >= size THEN Result("EOF", <<>>)
    ELSE ReadWithin(sectors, have, f, off, AtMost(len, size - off), off + len > size))

-----------------------------------------------------------------------------
(* Packing pending writes into a sector *)

(* the whole chunk around a position, for a write that begins or ends in it   *)
ChunkAt(sectors, have, f, off, needed) ==
  IF ~needed THEN Result("nil", Zeros(MinChunkSize))
  ELSE Given(fileReadAt(sectors, have, f, off, MinChunkSize), LAMBDA r:
         Result(IF r.err = "EOF" THEN "nil" ELSE r.err, Copied(Zeros(MinChunkSize), 0, r.data)))

(* w extended to whole chunks, where the file has the bytes around it *)
Aligned(sectors, have, f, w) ==
  LET lead == w.off % MinChunkSize
      over == End(w) % MinChunkSize
      with(front, back) ==
        IF front.err # "nil" THEN [err |-> front.err]
        ELSE IF back.err # "nil" THEN [err |-> back.err]
        ELSE [err |-> "nil",
              w |-> [off  |-> w.off - lead,
                     data |-> Bytes(front.data, 0, lead) \o w.data
                                \o (IF over # 0 /\ End(w) < f.size
                                    THEN Bytes(back.data, over, MinChunkSize) ELSE <<>>)]]
  IN  Given(ChunkAt(sectors, have, f, w.off - lead, lead # 0), LAMBDA front:
        Given(ChunkAt(sectors, have, f, End(w) - over, over # 0 /\ End(w) < f.size),
              LAMBDA back: with(front, back)))

(* w and the writes after it that its extension reaches; these are not         *)
(* extended themselves                                                         *)
Absorb(w, rest) ==
  LET RECURSIVE go(_, _)
      go(p, ws) ==
        IF ws = <<>> \/ End(p) < Head(ws).off THEN [w |-> p, rest |-> ws]
        ELSE LET next == Head(ws)
                 d    == IF End(p) >= End(next)
                         THEN Copied(p.data, next.off - p.off, next.data)
                         ELSE Bytes(p.data, 0, next.off - p.off) \o next.data
             IN  go([p EXCEPT !.data = d], Tail(ws))
  IN  go(w, rest)

(* Encode: the chunks of the data, the last one filled up *)
Encode(data) ==
  [i \in 1 .. CeilDiv(Len(data), MinChunkSize) |->
     Copied(Zeros(MinChunkSize), 0,
            Bytes(data, (i - 1) * MinChunkSize, AtMost(Len(data), i * MinChunkSize)))]

(* SectorBuilder.Append: content is what the sector holds so far *)
SectorAppend(content, chunks, root) ==
  IF Len(content) + Len(chunks) > SegmentsPerSector
  THEN [err |-> "panic", content |-> content]
  ELSE [err |-> "nil", content |-> content \o chunks,
        slice |-> [root |-> root, index |-> Len(content), num |-> Len(chunks)]]

(* fillSectors for one file: the sector's content and the pending chunks.  A   *)
(* pending chunk's offset counts segments, its length bytes of a shard.        *)
fillSectors(sectors, have, f, content, root) ==
  LET pc(off, enc, slice) == [offset |-> off \div MinChunkSize,
                              length |-> Len(enc) * SegmentSize, slice |-> slice]
      fails(err) == [err |-> err, content |-> content, chunks |-> <<>>]
      RECURSIVE go(_, _, _)
      add(ab, enc, c, pcs) ==
        Given(SectorAppend(c, enc, root), LAMBDA app:
          IF app.err # "nil" THEN fails(app.err)
          ELSE go(ab.rest, app.content, Append(pcs, pc(ab.w.off, enc, app.slice))))
      go(ws, c, pcs) ==
        IF ws = <<>> THEN [err |-> "nil", content |-> c, chunks |-> pcs]
        ELSE Given(Aligned(sectors, have, f, Head(ws)), LAMBDA al:
               IF al.err # "nil" THEN fails(al.err)
               ELSE Given(Absorb(al.w, Tail(ws)), LAMBDA ab: add(ab, Encode(ab.w.data), c, pcs)))
  IN  go(f.writes, content, <<>>)

-----------------------------------------------------------------------------
(* Committing slices.  newShards begins as oldShards[:0], so both are windows  *)
(* of one array: arr[1..w] is the new list, arr[r+1..n] what is left of the    *)
(* old one.  The array is taken to have room for every append.                 *)

Put(arr, i, x) == IF i <= Len(arr) THEN [arr EXCEPT ![i] = x] ELSE Append(arr, x)

(* "consume old slices that we overwrote", from old position r+1 *)
Overwrite(arr, r, n, overlap) ==
  LET RECURSIVE go(_, _)
      trim(q, delta) == [r |-> q, arr |-> [arr EXCEPT ![q + 1].index = @ + delta,
                                                      ![q + 1].num = @ - delta]]
      go(q, over) ==
        IF q >= n \/ over <= 0 THEN [r |-> q, arr |-> arr]
        ELSE IF arr[q + 1].num <= over THEN go(q + 1, over - arr[q + 1].num)
        ELSE trim(q, arr[q + 1].num - over)
  IN  go(r, overlap)

(* The slices once the pending chunks are merged in.  The offset counts        *)
(* segments, but a pending chunk moves it by bytes: it can be past the next    *)
(* pending chunk, and then what is kept of the old slice is negative and its   *)
(* count wraps.                                                                *)
MergeSlices(shards, chunks) ==
  LET n == Len(shards)
      RECURSIVE go(_, _, _, _, _)
      old(arr, r, w, pending, offset, keep) ==
        go(Put(arr, w + 1, [arr[r + 1] EXCEPT !.num = keep % SegmentCounts]), r + 1, w + 1, pending, offset + keep)
      go(arr, r, w, pending, offset) ==
        CASE r = n /\ pending = <<>> -> [err |-> "nil", shards |-> SubSeq(arr, 1, w)]
          [] pending # <<>> /\ Head(pending).offset = offset ->
               Given(Overwrite(Put(arr, w + 1, Head(pending).slice), r, n, Head(pending).length),
                     LAMBDA over: go(over.arr, over.r, w + 1, Tail(pending),
                                     offset + Head(pending).length))
          [] r < n /\ (pending = <<>> \/ Head(pending).offset # offset) ->
               old(arr, r, w, pending, offset,
                   IF pending # <<>> /\ offset + arr[r + 1].num > Head(pending).offset
                   THEN Head(pending).offset - offset ELSE arr[r + 1].num)
          [] OTHER -> [err |-> "panic", shards |-> shards]
  IN  go(shards, 0, 0, chunks, 0)

(* a host without slices comes first, and then no host's are looked at *)
commitPendingSlices(f, chunks) ==
  IF chunks = <<>> THEN [err |-> "nil", f |-> f]
  ELSE Given(MergeSlices(IF f.lost > 0 THEN <<>> ELSE f.shards, chunks), LAMBDA res:
         IF res.err # "nil" THEN [err |-> res.err, f |-> f]
         ELSE [err |-> "nil",
               f |-> [f EXCEPT !.shards = res.shards, !.lost = 0, !.size = filesize(f)]])

(* the slices of a file cut to size bytes *)
TruncateShards(shards, size) ==
  LET RECURSIVE go(_, _)
      go(ss, n) ==    \* n bytes are left for the slices ss
        IF ss = <<>> THEN <<>>
        ELSE LET bytes == Head(ss).num * MinChunkSize
                 num   == Head(ss).num - (bytes - n) \div MinChunkSize
             IN  IF bytes <= n THEN <<Head(ss)>> \o go(Tail(ss), n - bytes)
                 ELSE IF num = 0 THEN <<>> ELSE <<[Head(ss) EXCEPT !.num = num]>>
  IN  go(shards, size)

(* fileTruncate to at most the present size, up to the flush *)
Truncated(f, size) ==
  LET trim(w) == [w EXCEPT !.data = Bytes(@, 0, AtMost(Len(@), size - w.off))]
      left    == SelectSeq(f.writes, LAMBDA w: w.off < size)
  IN  [f EXCEPT !.writes = [i \in DOMAIN left |-> trim(left[i])],
                !.shards = IF size < f.size THEN TruncateShards(@, size) ELSE @,
                !.size   = AtMost(@, size),
                !.modified = TRUE]

(* ReadAtP: the same bytes by concurrent ReadAt calls, one per factor of the   *)
(* redundancy                                                                  *)
ReadAtP(sectors, have, f, off, len, hosts) ==
  LET split == len \div (hosts \div MinShards)
      part(i) == fileReadAt(sectors, have, f, off + (i - 1) * split,
                            AtMost(split, len - (i - 1) * split))
  IN  IF split = 0 THEN fileReadAt(sectors, have, f, off, len).data
      ELSE FlattenSeq([i \in 1 .. CeilDiv(len, split) |-> part(i).data])
=============================================================================
