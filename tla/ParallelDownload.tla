--------------------------- MODULE ParallelDownload ---------------------------
(***************************************************************************)
(* ParallelBlobDownloader: P workers download chunks; the main goroutine   *)
(* sends the requests, and puts each response into a circular buffer of P  *)
(* slots from which it writes as many chunks as it can.  A worker is the   *)
(* request it serves: responses come back in any order, or as errors.      *)
(***************************************************************************)
EXTENDS BlobRange, FiniteSets

CONSTANTS
  P,     \* degree of parallelism
  Ask    \* the ranges asked for: "whole" values (Get), ranges that begin in
         \* the "first" chunk, or "any" range of the value (GetRange)

ASSUME PAssumption == P \in Nat \ {0}
ASSUME AskAssumption == Ask \in {"whole", "first", "any"}

VARIABLES
  lens,      \* the lengths of the blob's chunks
  asked,     \* the range the caller asked for
  next,      \* the chunk the request loop is at
  off, n,    \* the loop's offset and remaining length
  sent,      \* the requests sent, in order
  inflight,  \* the requests whose response has not been consumed
  chunks,    \* the circular buffer: {} is an empty slot, {r} a filled one
  pos,       \* the number of chunks flushed
  out,       \* what has been written, request by request
  loop,      \* where main is: "request", "wait", "drain", "done" or "panic"
  flushing,  \* whether main is in the flush loop of consumeResp
  result     \* "running", "ok" or "error"

input == <<lens, asked>>
cursor == <<next, off, n, sent>>
vars == <<lens, asked, next, off, n, sent, inflight, chunks, pos, out, loop,
          flushing, result>>

Slots == 0 .. P - 1

Init ==
  /\ lens \in ChunkLens
  /\ asked \in [off : 0 .. Capacity * MaxChunks, n : -1 .. Capacity * MaxChunks]
  /\ WithinValue(lens, asked.off, asked.n)
  /\ Ask = "whole" => asked = [off |-> 0, n |-> -1]
  /\ Ask = "first" => asked.off < lens[1]
  /\ next = 0
  /\ off = asked.off
  /\ n = asked.n
  /\ sent = << >>
  /\ inflight = {}
  /\ chunks = [s \in Slots |-> {}]
  /\ pos = 0
  /\ out = << >>
  /\ loop = "request"
  /\ flushing = FALSE
  /\ result = "running"

-----------------------------------------------------------------------------
(* The request loop.  It runs while a worker is idle.                      *)

Requesting ==
  /\ loop = "request"
  /\ ~flushing
  /\ Cardinality(inflight) < P

SkipChunk ==
  /\ Requesting
  /\ next < Len(lens)
  /\ Skips(lens[next + 1], off)
  /\ off' = off - lens[next + 1]
  /\ next' = next + 1
  /\ UNCHANGED <<input, n, sent, inflight, chunks, pos, out, loop, flushing, result>>

(* Requests that lie past the end of the sectors are sent too: DownloadChunk *)
(* answers them with an error.                                             *)
SendRequest ==
  LET r == RequestFor(lens, next, off, n)
  IN  /\ Requesting
      /\ next < Len(lens)
      /\ ~Skips(lens[next + 1], off)
      /\ sent' = Append(sent, r)
      /\ inflight' = inflight \cup {r}
      /\ off' = 0
      /\ n' = n - r.len
      /\ next' = next + 1
      /\ loop' = IF n' = 0 THEN "wait" ELSE "request"
      /\ UNCHANGED <<input, chunks, pos, out, flushing, result>>

EndRequests ==
  /\ Requesting
  /\ next = Len(lens)
  /\ loop' = "wait"
  /\ UNCHANGED <<input, cursor, inflight, chunks, pos, out, flushing, result>>

(* An error makes DownloadBlob return, and so start the deferred drain,    *)
(* which ignores further errors.                                           *)
Abort ==
  /\ loop' = "drain"
  /\ result' = "error"

(* The database has no answer for the chunk. *)
LookupError ==
  /\ Requesting
  /\ next < Len(lens)
  /\ Abort
  /\ UNCHANGED <<input, cursor, inflight, chunks, pos, out, flushing>>

-----------------------------------------------------------------------------
(* consumeResp, called when all workers are busy, after the last request,  *)
(* and by the deferred function that drains what is outstanding.           *)

Consuming ==
  /\ ~flushing
  /\ \/ loop \in {"wait", "drain"}
     \/ loop = "request" /\ Cardinality(inflight) = P

\* Mutant: an error of a worker is dropped.
ConsumeErrorIgnored ==
  /\ Consuming
  /\ \E r \in inflight : inflight' = inflight \ {r}
  /\ UNCHANGED <<input, cursor, chunks, pos, out, loop, flushing, result>>

ConsumeError ==
  /\ Consuming
  /\ \E r \in inflight : inflight' = inflight \ {r}
  /\ Abort
  /\ UNCHANGED <<input, cursor, chunks, pos, out, flushing>>

\* Mutant: chunks are buffered in the order they arrive in.
SlotOfArrival(r) == pos % P

SlotOf(r) == r.index % P

ConsumeChunk ==
  /\ Consuming
  /\ \E r \in inflight :
       /\ Readable(r)
       /\ inflight' = inflight \ {r}
       /\ IF chunks[SlotOf(r)] # {}
          THEN loop' = "panic" /\ UNCHANGED <<chunks, flushing>>
          ELSE /\ chunks' = [chunks EXCEPT ![SlotOf(r)] = {r}]
               /\ flushing' = TRUE
               /\ UNCHANGED loop
  /\ UNCHANGED <<input, cursor, pos, out, result>>

FlushChunk ==
  /\ flushing
  /\ \E r \in chunks[pos % P] : out' = Append(out, r)
  /\ chunks' = [chunks EXCEPT ![pos % P] = {}]
  /\ pos' = pos + 1
  /\ UNCHANGED <<input, cursor, inflight, loop, flushing, result>>

(* The writer fails and has written nothing; the chunk keeps its slot, and *)
(* the drain's next consumeResp offers it again.                           *)
WriteError ==
  /\ flushing
  /\ chunks[pos % P] # {}
  /\ flushing' = FALSE
  /\ Abort
  /\ UNCHANGED <<input, cursor, inflight, chunks, pos, out>>

EndFlush ==
  /\ flushing
  /\ chunks[pos % P] = {}
  /\ flushing' = FALSE
  /\ UNCHANGED <<input, cursor, inflight, chunks, pos, out, loop, result>>

\* Mutant: nothing drains the workers after an error.
ReturnUndrained ==
  /\ loop = "wait"
  /\ ~flushing
  /\ inflight = {}
  /\ loop' = "done"
  /\ result' = "ok"
  /\ UNCHANGED <<input, cursor, inflight, chunks, pos, out, flushing>>

Return ==
  /\ loop \in {"wait", "drain"}
  /\ ~flushing
  /\ inflight = {}
  /\ loop' = "done"
  /\ result' = IF loop = "wait" THEN "ok" ELSE result
  /\ UNCHANGED <<input, cursor, inflight, chunks, pos, out, flushing>>

Next ==
  \/ SkipChunk \/ SendRequest \/ EndRequests \/ LookupError
  \/ ConsumeError \/ ConsumeChunk
  \/ FlushChunk \/ WriteError \/ EndFlush
  \/ Return

(* Every worker answers: its RPCs run under deadlines. *)
Fairness == WF_vars(Next)

Spec == Init /\ [][Next]_vars
FairSpec == Spec /\ Fairness

-----------------------------------------------------------------------------
(* The loop, the buffer and the output of DownloadBlob hold requests, at    *)
(* places that exist.                                                      *)
TypeOK ==
  /\ lens \in ChunkLens
  /\ asked \in [off : Nat, n : Int]
  /\ next \in 0 .. Len(lens)
  /\ off \in Nat
  /\ n \in Int
  /\ sent \in Seq(Requests)
  /\ inflight \in SUBSET Requests
  /\ chunks \in [Slots -> SUBSET Requests]
  /\ pos \in Nat
  /\ out \in Seq(Requests)
  /\ loop \in {"request", "wait", "drain", "done", "panic"}
  /\ flushing \in BOOLEAN
  /\ result \in {"running", "ok", "error"}

(* The number of chunks that end before the range begins. *)
Skipped == Cardinality({i \in 1 .. Len(lens) : Start(lens, i) <= asked.off})

(* The flush loop begins at slot 0: it finds the first chunk requested     *)
(* there only when the number of chunks before the range is a multiple of  *)
(* P, which the code does not see to.                                      *)
BeginsInPlace == Skipped % P = 0

(* consumeResp: the chunks reach the writer in the order they were         *)
(* requested in, whichever order the workers answer in, as long as no more *)
(* chunks were requested than there are slots and the first one has slot 0.*)
(* Excluded are longer ranges, which may be written in another order       *)
(* (strategies.go:901), and ranges that begin elsewhere, of which nothing  *)
(* is written until another chunk takes slot 0 (README, section 5).        *)
OutputInOrder ==
  BeginsInPlace /\ Len(sent) <= P =>
    /\ Len(out) <= Len(sent)
    /\ \A i \in 1 .. Len(out) : out[i] = sent[i]

(* DownloadBlob: a download that succeeds has written every chunk it       *)
(* requested, and once, however many there were and however often the      *)
(* buffer was filled again, in whatever order.  The first chunk must have  *)
(* slot 0: other ranges leave chunks in the buffer and succeed all the     *)
(* same (strategies.go:901; README, section 5).                            *)
CompleteOnSuccess ==
  BeginsInPlace /\ result = "ok" =>
    /\ Len(out) = Len(sent)
    /\ \A i \in 1 .. Len(sent) : \E j \in 1 .. Len(out) : out[j] = sent[i]

(* GetRange: a download that succeeds has written the range asked for.     *)
(* Excluded are the ranges of more than P chunks, those whose first chunk  *)
(* has another slot than 0 (both strategies.go:901), and those from the    *)
(* middle of a chunk into the next, whose first request is cut to the      *)
(* length of the chunk and not to what is left of it (strategies.go:931).  *)
(* The code serves none of these (README, section 5).                      *)
ServesRange ==
  /\ BeginsInPlace
  /\ Len(sent) <= P
  /\ StartsCleanly(lens, asked.off, asked.n)
  /\ result = "ok"
  => Written[out] = Asked(lens, asked.off, asked.n)

(* DownloadBlob returns, after errors too, and leaves no worker behind; it *)
(* panics instead only when it has requested more chunks than there are    *)
(* slots (strategies.go:898).                                              *)
DownloadReturns ==
  <>(\/ loop = "done" /\ inflight = {}
     \/ loop = "panic" /\ Len(sent) > P)

-----------------------------------------------------------------------------
(* What the documentation and the tests say, which does not hold.  TLC     *)
(* refutes both on the instances that README, section 5, names; no run     *)
(* checks them.                                                            *)

(* GetRange, Get: a range of bytes within the value is what is written to w *)
(* when they return nil (kv.go:88).                                        *)
DeliversRange == result = "ok" => Written[out] = Asked(lens, asked.off, asked.n)

(* consumeResp refuses to overwrite a chunk that waits in its slot, as if  *)
(* that could not be (strategies.go:898).                                  *)
NeverOverwrites == loop # "panic"
=============================================================================
