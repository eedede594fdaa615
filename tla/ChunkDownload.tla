---------------------------- MODULE ChunkDownload ----------------------------
(***************************************************************************)
(* Calls of DownloadChunk, each fetching any MinShards of a chunk's shards *)
(* from hosts that the calls share through one HostSet.                    *)
(* ParallelChunkDownloader has that many workers; SerialChunkDownloader    *)
(* does the work of one itself, on the shards in their order and waiting   *)
(* for every host.  A worker is identified with the shard it is fetching;  *)
(* the rest of the program, which uses the same HostSet, is one more       *)
(* goroutine that may take any free host.                                  *)
(***************************************************************************)
EXTENDS Naturals, SequencesExt

CONSTANTS
  Downloads, \* calls of DownloadChunk
  Shards,    \* the indices of a chunk's shards
  MinShards, \* how many of them suffice
  Hosts,     \* the hosts of the HostSet
  Unset,     \* the place of a shard the database does not know
  Outsider,  \* another user of the HostSet
  Nobody     \* no goroutine

ASSUME DownloadAssumption ==
  /\ IsFiniteSet(Shards)
  /\ MinShards \in 1 .. Cardinality(Shards)
  /\ Unset \notin Hosts
  /\ Outsider \notin Downloads \X Shards
  /\ Nobody \notin (Downloads \X Shards) \cup {Outsider}

VARIABLES
  user,     \* HostLocks: the goroutine each host is lent to
  parallel, \* whether a call is of ParallelChunkDownloader
  place,    \* the host of every shard of every chunk
  phase,    \* "start", "collect" or "done"
  queue,    \* the requests not yet sent: <<shard, whether to wait>>
  job,      \* what each shard's request has come to
  waits,    \* the shards whose request says to wait for the host
  good,     \* the shards counted as downloaded
  errs,     \* the shards that will not be tried again
  buffer,   \* the shards whose bytes are in the caller's buffers
  broken,   \* history: the shards the database or their host failed to supply
  result    \* "running", "shards" or "error"

vars == <<user, parallel, place, phase, queue, job, waits, good, errs, buffer, broken, result>>
main == <<parallel, phase, queue, good, errs, result>>

Workers == (Downloads \X Shards) \cup {Outsider}
Locks == INSTANCE HostLocks WITH shut <- {}

Distinct(p) == \A i, j \in Shards : p[i] = p[j] /\ p[i] # Unset => i = j

Init ==
  /\ Locks!Init
  /\ parallel \in [Downloads -> BOOLEAN]
  /\ place \in [Downloads -> {p \in [Shards -> Hosts \cup {Unset}] : Distinct(p)}]
  /\ phase = [d \in Downloads |-> "start"]
  /\ queue = [d \in Downloads |-> << >>]
  /\ job = [d \in Downloads |-> [i \in Shards |-> "none"]]
  /\ waits = [d \in Downloads |-> {}]
  /\ good = [d \in Downloads |-> {}]
  /\ errs = [d \in Downloads |-> {}]
  /\ buffer = [d \in Downloads |-> {}]
  /\ broken = [d \in Downloads |-> {}]
  /\ result = [d \in Downloads |-> "running"]

Inflight(d) == {i \in Shards : job[d][i] # "none"}
Advance(d, i, st) == job' = [job EXCEPT ![d][i] = st]
Break(d, i) ==
  /\ Advance(d, i, "failed")
  /\ broken' = [broken EXCEPT ![d] = @ \cup {i}]

-----------------------------------------------------------------------------
(* The call: MinShards workers and requests, in random order, or one at a  *)
(* time in the order of the shards, *)
Order(d) ==
  {q \in SetToSeqs(Shards) : parallel[d] \/ \A k \in 1 .. Len(q) - 1 : q[k] < q[k + 1]}

Start(d) ==
  LET width == IF parallel[d] THEN MinShards ELSE 1
  IN  /\ phase[d] = "start"
      /\ \E q \in Order(d) :
           LET first == {q[k] : k \in 1 .. width}
           IN  /\ job' = [job EXCEPT
                            ![d] = [i \in Shards |-> IF i \in first THEN "sent" ELSE "none"]]
               /\ waits' = [waits EXCEPT ![d] = IF parallel[d] THEN {} ELSE first]
               /\ queue' = [queue EXCEPT
                              ![d] = [k \in 1 .. Len(q) - width |-> <<q[k + width], ~parallel[d]>>]]
      /\ phase' = [phase EXCEPT ![d] = "collect"]
      /\ UNCHANGED <<user, parallel, place, good, errs, buffer, broken, result>>

(* then responses, until enough shards have come or too few are left. *)
Unfinished(d) ==
  /\ phase[d] = "collect"
  /\ Cardinality(good[d]) < MinShards
  /\ Cardinality(good[d]) + Cardinality(errs[d]) < Cardinality(Shards)

(* The next request in the queue takes the place of one that failed, or,   *)
(* with one request at a time, of any that is answered.                    *)
SendNext(d, i, q) ==
  IF q = << >>
  THEN /\ queue' = [queue EXCEPT ![d] = q]
       /\ Advance(d, i, "none")
       /\ UNCHANGED waits
  ELSE LET next == Head(q)
       IN  /\ queue' = [queue EXCEPT ![d] = Tail(q)]
           /\ job' = [job EXCEPT ![d] = [@ EXCEPT ![i] = "none", ![next[1]] = "sent"]]
           /\ waits' = [waits EXCEPT ![d] = IF next[2] THEN @ \cup {next[1]} ELSE @ \ {next[1]}]

CollectGood(d, i) ==
  /\ Unfinished(d)
  /\ job[d][i] = "ok"
  /\ good' = [good EXCEPT ![d] = @ \cup {i}]
  /\ IF parallel[d] \/ Cardinality(good[d]) + 1 = MinShards
     THEN Advance(d, i, "none") /\ UNCHANGED <<queue, waits>>
     ELSE SendNext(d, i, queue[d])
  /\ UNCHANGED <<user, parallel, place, phase, errs, buffer, broken, result>>

\* Mutant: a host that was in use counts as failed.
CollectAcquiredFailing(d, i) ==
  /\ Unfinished(d)
  /\ job[d][i] = "acquired"
  /\ errs' = [errs EXCEPT ![d] = @ \cup {i}]
  /\ SendNext(d, i, queue[d])
  /\ UNCHANGED <<user, parallel, place, phase, good, buffer, broken, result>>

\* Mutant: a host that was in use is asked for again without waiting.
CollectAcquiredPolling(d, i) ==
  /\ Unfinished(d)
  /\ job[d][i] = "acquired"
  /\ SendNext(d, i, Append(queue[d], <<i, FALSE>>))
  /\ UNCHANGED <<user, parallel, place, phase, good, errs, buffer, broken, result>>

(* A host that was in use goes to the back of the queue, to be waited for. *)
CollectAcquired(d, i) ==
  /\ Unfinished(d)
  /\ job[d][i] = "acquired"
  /\ SendNext(d, i, Append(queue[d], <<i, TRUE>>))
  /\ UNCHANGED <<user, parallel, place, phase, good, errs, buffer, broken, result>>

CollectFailed(d, i) ==
  /\ Unfinished(d)
  /\ job[d][i] = "failed"
  /\ errs' = [errs EXCEPT ![d] = @ \cup {i}]
  /\ SendNext(d, i, queue[d])
  /\ UNCHANGED <<user, parallel, place, phase, good, buffer, broken, result>>

Return(d) ==
  /\ phase[d] = "collect"
  /\ ~Unfinished(d)
  /\ phase' = [phase EXCEPT ![d] = "done"]
  /\ result' = [result EXCEPT
                  ![d] = IF Cardinality(good[d]) < MinShards THEN "error" ELSE "shards"]
  /\ UNCHANGED <<user, parallel, place, queue, job, waits, good, errs, buffer, broken>>

-----------------------------------------------------------------------------
(* The workers.                                                            *)

Host(d, i) == place[d][i]
Free(h) == user[h] = Nobody

(* The database does not know the shard: the parallel downloader counts a *)
(* failure, *)
UnknownShard(d, i) ==
  /\ parallel[d]
  /\ job[d][i] = "sent"
  /\ Host(d, i) = Unset
  /\ Break(d, i)
  /\ UNCHANGED <<user, place, main, waits, buffer>>

(* the serial one gives the chunk up. *)
UnknownEnds(d, i) ==
  /\ ~parallel[d]
  /\ job[d][i] = "sent"
  /\ Host(d, i) = Unset
  /\ Advance(d, i, "none")
  /\ broken' = [broken EXCEPT ![d] = @ \cup {i}]
  /\ phase' = [phase EXCEPT ![d] = "done"]
  /\ result' = [result EXCEPT ![d] = "error"]
  /\ UNCHANGED <<user, parallel, place, queue, waits, good, errs, buffer>>

Acquire(d, i) ==
  /\ job[d][i] \in {"sent", "waiting"}
  /\ Host(d, i) # Unset
  /\ Locks!Borrow(<<d, i>>, Host(d, i))
  /\ Advance(d, i, "held")
  /\ UNCHANGED <<place, main, waits, buffer, broken>>

Unreachable(d, i) ==
  /\ job[d][i] \in {"sent", "waiting"}
  /\ Host(d, i) # Unset
  /\ Free(Host(d, i))
  /\ Break(d, i)
  /\ UNCHANGED <<user, place, main, waits, buffer>>

InUse(d, i) ==
  /\ job[d][i] = "sent"
  /\ Host(d, i) # Unset
  /\ ~Free(Host(d, i))
  /\ Advance(d, i, IF i \in waits[d] THEN "waiting" ELSE "acquired")
  /\ UNCHANGED <<user, place, main, waits, buffer, broken>>

(* CopySection and release; an error is the same with no bytes to keep. *)
CopySection(d, i) ==
  /\ job[d][i] = "held"
  /\ Locks!GiveBack(<<d, i>>, Host(d, i))
  /\ \/ /\ Advance(d, i, "ok")
        /\ buffer' = [buffer EXCEPT ![d] = @ \cup {i}]
        /\ UNCHANGED broken
     \/ Break(d, i) /\ UNCHANGED buffer
  /\ UNCHANGED <<place, main, waits>>

(* Another upload or download borrows a host, and gives it back. *)
OutsiderBorrows ==
  /\ \E h \in Hosts : Locks!Borrow(Outsider, h)
  /\ UNCHANGED <<place, main, job, waits, buffer, broken>>

OutsiderGivesBack ==
  /\ \E h \in Hosts : Locks!GiveBack(Outsider, h)
  /\ UNCHANGED <<place, main, job, waits, buffer, broken>>

Work(d, i) ==
  \/ UnknownShard(d, i) \/ UnknownEnds(d, i) \/ Acquire(d, i) \/ Unreachable(d, i)
  \/ InUse(d, i) \/ CopySection(d, i)

Main(d) ==
  \/ Start(d) \/ Return(d)
  \/ \E i \in Shards :
       CollectGood(d, i) \/ CollectAcquired(d, i) \/ CollectFailed(d, i)

Next ==
  \/ \E d \in Downloads : Main(d) \/ \E i \in Shards : Work(d, i)
  \/ OutsiderBorrows
  \/ OutsiderGivesBack

Spec == Init /\ [][Next]_vars

(* Goroutines run and RPCs end; a goroutine that waits for a host is       *)
(* served in turn (HostSet's locks are channels).                          *)
Fairness ==
  /\ WF_vars(OutsiderGivesBack)
  /\ \A d \in Downloads :
       /\ WF_vars(Main(d))
       /\ \A i \in Shards :
            /\ WF_vars(Work(d, i))
            /\ SF_vars(Acquire(d, i) \/ Unreachable(d, i))

FairSpec == Spec /\ Fairness

-----------------------------------------------------------------------------
(* DownloadChunk returns shards only if MinShards buffers are filled, so     *)
(* that the erasure code can rebuild the chunk, and fails only if the hosts  *)
(* that failed left too few shards: a host that was merely in use counts     *)
(* neither as served nor against the chunk.  The serial downloader also      *)
(* fails when it comes to a shard that was never stored.                     *)
ResultIsRight ==
  \A d \in Downloads :
    /\ result[d] = "shards" => Cardinality(buffer[d]) >= MinShards
    /\ result[d] = "error" =>
         \/ Cardinality(Shards \ broken[d]) < MinShards
         \/ ~parallel[d] /\ \E i \in broken[d] : place[d][i] = Unset

(* Every download returns, although each may wait for hosts the others use, *)
(* and when it does none of its workers is at work or has a host: closing   *)
(* the request channel is all it takes.                                     *)
DownloadReturns ==
  \A d \in Downloads :
    <>(/\ phase[d] = "done" /\ Inflight(d) = {}
       /\ \A h \in Hosts, i \in Shards : user[h] # <<d, i>>)
=============================================================================
