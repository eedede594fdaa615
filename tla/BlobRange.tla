------------------------------ MODULE BlobRange ------------------------------
(***************************************************************************)
(* The part of a blob that a download asks for, and how the download       *)
(* strategies of renterutil cut it into one request per chunk.  Lengths    *)
(* and offsets count bytes; a byte of the value is the pair of its chunk   *)
(* and its place in that chunk.                                            *)
(***************************************************************************)
EXTENDS Integers, Sequences

CONSTANTS
  Capacity,   \* bytes a chunk can hold: MinShards sectors
  MaxChunks   \* bound on the chunks of a blob

ASSUME CapacityAssumption == Capacity \in Nat \ {0}
ASSUME MaxChunksAssumption == MaxChunks \in Nat \ {0}

(* The lengths of a blob's chunks.  Every chunk holds at least a byte; one *)
(* that is followed by others may be short, because Resume appends chunks  *)
(* after the short last chunk of an earlier upload.                        *)
ChunkLens == UNION {[1 .. k -> 1 .. Capacity] : k \in 1 .. MaxChunks}

(* A request sent to DownloadChunk; chunks are numbered from 0. *)
Requests == [index : Nat, off : Nat, len : Nat]

(* The loop skips a chunk that ends before the range begins. *)
Skips(len, off) == off >= len

\* Mutant: a request may be longer than its chunk.
ReqLenUncut(n, len) == IF n < 0 THEN len ELSE n

(* n < 0 asks for everything; a request is cut to the length of its chunk. *)
ReqLen(n, len) == IF n < 0 \/ n > len THEN len ELSE n

RequestFor(lens, i, off, n) ==
  [index |-> i, off |-> off, len |-> ReqLen(n, lens[i + 1])]

(* calcSections refuses to read past the end of the sectors. *)
Readable(r) == r.off + r.len <= Capacity

-----------------------------------------------------------------------------
(* What the caller of GetRange means, as a reference for the loop.         *)

(* The bytes Recover writes for a request; those past the end of the chunk *)
(* are padding, which no value holds.                                      *)
BytesOf(r) == [b \in 1 .. r.len |-> <<r.index, r.off + b - 1>>]

Written[out \in Seq(Requests)] ==
  IF out = << >> THEN << >> ELSE BytesOf(Head(out)) \o Written[Tail(out)]

Value(lens) ==
  Written[[i \in 1 .. Len(lens) |-> [index |-> i - 1, off |-> 0, len |-> lens[i]]]]

Asked(lens, off, n) ==
  SubSeq(Value(lens), off + 1, IF n < 0 THEN Len(Value(lens)) ELSE off + n)

(* Where the first i chunks end in the value. *)
Start(lens, i) == Len(Value(SubSeq(lens, 1, i)))

(* A range of bytes within the value. *)
WithinValue(lens, off, n) ==
  /\ off < Len(Value(lens))
  /\ n # 0
  /\ off + n <= Len(Value(lens))

(* A range that lies inside the chunk it starts in, or that starts where a *)
(* chunk starts.                                                           *)
StartsCleanly(lens, off, n) ==
  \E i \in 1 .. Len(lens) :
    \/ off = Start(lens, i - 1)
    \/ n > 0 /\ off >= Start(lens, i - 1) /\ off + n <= Start(lens, i - 1) + lens[i]
=============================================================================
