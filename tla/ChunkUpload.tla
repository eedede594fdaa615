----------------------------- MODULE ChunkUpload -----------------------------
(***************************************************************************)
(* Calls of UploadChunk, each storing the shards of its own chunk on the   *)
(* hosts of one HostSet.  A call of ParallelChunkUploader starts one       *)
(* worker per missing shard and sends each a request; since there are as   *)
(* many workers as requests, a worker is the shard it serves, and the pair *)
(* of call and shard is the goroutine that HostLocks lends hosts to.       *)
(* SerialChunkUploader and MinimumChunkUploader do a worker's steps        *)
(* themselves, for one shard at a time.  The rest of the program, which    *)
(* uses the same HostSet, is one more goroutine that may take any free     *)
(* host at any moment.                                                     *)
(***************************************************************************)
EXTENDS Naturals, FiniteSets

CONSTANTS
  Uploads,   \* calls of UploadChunk
  Shards,    \* the indices of a chunk's shards
  MinShards, \* how many shards rebuild a chunk
  Hosts,     \* the hosts of the HostSet
  OldHosts,  \* hosts that may hold shards but are no longer in the set
  Unset,     \* a shard that is stored nowhere (id 0)
  Outsider,  \* another user of the HostSet
  Nobody     \* no goroutine

ASSUME UploadHostsAssumption ==
  /\ MinShards \in 1 .. Cardinality(Shards)
  /\ Unset \notin Hosts \cup OldHosts
  /\ Hosts \cap OldHosts = {}
  /\ Outsider \notin Uploads \X Shards
  /\ Nobody \notin (Uploads \X Shards) \cup {Outsider}
  /\ IsFiniteSet(Hosts) /\ IsFiniteSet(Shards)

VARIABLES
  user,      \* HostLocks: the goroutine each host is lent to
  uploader,  \* which uploader a call is of
  chunk,     \* each chunk in the database: the host of every shard
  sectors,   \* the sectors hosts have stored: <<upload, shard, host>>
  phase,     \* "start", "send", "collect", "drain", "serial" or "done"
  unsent,    \* the shards the send loop has not reached
  newHosts,  \* the hosts a call may still choose
  rem,       \* the shards a call still has to store
  job,       \* each shard's request: its host, whether to wait for the
             \* host, and how far its worker is
  cancelled, \* the calls whose context has been cancelled
  result     \* "running", "nil" or "error"

call == <<uploader, phase, unsent, newHosts, rem, result>>
vars == <<user, uploader, chunk, sectors, phase, unsent, newHosts, rem, job, cancelled, result>>

Workers == (Uploads \X Shards) \cup {Outsider}
Locks == INSTANCE HostLocks WITH shut <- {}

Answered == {"ok", "acquired", "failed"}
NoJob == [host |-> Unset, block |-> FALSE, st |-> "none"]
Request(h) == [host |-> h, block |-> FALSE, st |-> "sent"]

(* A chunk that was never uploaded, or only in part, or to hosts that have *)
(* since been replaced: never two shards on one host.                      *)
Spread(c) ==
  \A i, j \in Shards : c[i] = c[j] /\ c[i] # Unset => i = j

Init ==
  /\ Locks!Init
  /\ uploader \in [Uploads -> {"parallel", "serial", "minimum"}]
  /\ chunk \in [Uploads -> {c \in [Shards -> Hosts \cup OldHosts \cup {Unset}] : Spread(c)}]
  /\ sectors = {x \in Uploads \X Shards \X (Hosts \cup OldHosts) : chunk[x[1]][x[2]] = x[3]}
  /\ phase = [u \in Uploads |-> "start"]
  /\ unsent = [u \in Uploads |-> {}]
  /\ newHosts = [u \in Uploads |-> {}]
  /\ rem = [u \in Uploads |-> 0]
  /\ job = [u \in Uploads |-> [i \in Shards |-> NoJob]]
  /\ cancelled = {}
  /\ result = [u \in Uploads |-> "running"]

Goto(u, p) == phase' = [phase EXCEPT ![u] = p]
Result(u, r) == result' = [result EXCEPT ![u] = r]
SetJob(u, i, j) == job' = [job EXCEPT ![u][i] = j]
Advance(u, i, st) == job' = [job EXCEPT ![u][i].st = st]
Inflight(u) == {i \in Shards : job[u][i].st # "none"}

-----------------------------------------------------------------------------
(* The call itself.                                                        *)

(* Shards that are already on a host of the set stay where they are. *)
Skip(u) == {i \in Shards : chunk[u][i] \in Hosts}

Smaller(a, b) == IF a < b THEN a ELSE b

(* The hosts that a call may choose. *)
Fresh(u) == Hosts \ {chunk[u][i] : i \in Skip(u)}

(* What MinimumChunkUploader lacks may be less than nothing. *)
Lacking(u) ==
  IF uploader[u] = "serial" THEN Cardinality(Shards \ Skip(u))
  ELSE IF Cardinality(Skip(u)) >= MinShards THEN 0
  ELSE MinShards - Cardinality(Skip(u))

EnoughHosts(u) ==
  IF uploader[u] = "parallel" THEN Cardinality(Shards) <= Cardinality(Hosts)
  ELSE Lacking(u) <= Cardinality(Fresh(u))

\* Mutant: hosts that keep a shard may be chosen for another one.
StartReusing(u) ==
  /\ phase[u] = "start" /\ uploader[u] = "parallel"
  /\ EnoughHosts(u)
  /\ newHosts' = [newHosts EXCEPT ![u] = Hosts]
  /\ rem' = [rem EXCEPT ![u] = Cardinality(Shards \ Skip(u))]
  /\ unsent' = [unsent EXCEPT ![u] = Shards]
  /\ Goto(u, "send")
  /\ UNCHANGED <<uploader, user, chunk, sectors, job, cancelled, result>>

Start(u) ==
  LET fresh == Fresh(u)
  IN  /\ phase[u] = "start" /\ uploader[u] = "parallel"
      /\ EnoughHosts(u)
      /\ newHosts' = [newHosts EXCEPT ![u] = fresh]
      /\ rem' = [rem EXCEPT
                   ![u] = Smaller(Cardinality(Shards \ Skip(u)), Cardinality(fresh))]
      /\ unsent' = [unsent EXCEPT ![u] = Shards]
      /\ Goto(u, "send")
      /\ UNCHANGED <<uploader, user, chunk, sectors, job, cancelled, result>>

(* Too few hosts, or the database does not find a shard the chunk has. *)
Refuse(u) ==
  /\ phase[u] = "start"
  /\ EnoughHosts(u) => \E i \in Shards : chunk[u][i] # Unset
  /\ Goto(u, "done")
  /\ Result(u, "error")
  /\ UNCHANGED <<uploader, user, chunk, sectors, unsent, newHosts, rem, job, cancelled>>

(* The send loop: a host for every missing shard, while there are hosts.   *)
Send(u) ==
  /\ phase[u] = "send"
  /\ u \notin cancelled
  /\ \E i \in unsent[u] :
       /\ \A k \in unsent[u] : i <= k
       /\ unsent' = [unsent EXCEPT ![u] = @ \ {i}]
       /\ IF i \in Skip(u) \/ newHosts[u] = {}
          THEN UNCHANGED <<newHosts, job>>
          ELSE \E h \in newHosts[u] :
                 /\ newHosts' = [newHosts EXCEPT ![u] = @ \ {h}]
                 /\ SetJob(u, i, Request(h))
  /\ UNCHANGED <<uploader, user, chunk, sectors, phase, rem, cancelled, result>>

EndSend(u) ==
  /\ phase[u] = "send"
  /\ unsent[u] = {}
  /\ Goto(u, "collect")
  /\ UNCHANGED <<uploader, user, chunk, sectors, unsent, newHosts, rem, job, cancelled, result>>

(* Both loops look at the context first, and return its error.             *)
Interrupted(u) ==
  /\ u \in cancelled
  /\ \/ phase[u] = "send" /\ unsent[u] # {}
     \/ phase[u] = "collect" /\ Inflight(u) # {}
  /\ Goto(u, "drain")
  /\ Result(u, "error")
  /\ UNCHANGED <<uploader, user, chunk, sectors, unsent, newHosts, rem, job, cancelled>>

Collecting(u, i, st) ==
  /\ phase[u] = "collect"
  /\ u \notin cancelled
  /\ job[u][i].st = st

(* A shard is stored: SetChunkShard records it, *)
CollectStored(u, i) ==
  /\ Collecting(u, i, "ok")
  /\ chunk' = [chunk EXCEPT ![u][i] = job[u][i].host]
  /\ rem' = [rem EXCEPT ![u] = @ - 1]
  /\ SetJob(u, i, NoJob)
  /\ UNCHANGED <<uploader, user, sectors, phase, unsent, newHosts, cancelled, result>>

(* or fails, and the call gives up. *)
CollectUnrecorded(u, i) ==
  /\ Collecting(u, i, "ok")
  /\ SetJob(u, i, NoJob)
  /\ Goto(u, "drain")
  /\ Result(u, "error")
  /\ UNCHANGED <<uploader, user, chunk, sectors, unsent, newHosts, rem, cancelled>>

\* Mutant: a host that was in use is asked for again without waiting.
CollectAcquiredPolling(u, i) ==
  /\ Collecting(u, i, "acquired")
  /\ SetJob(u, i, Request(job[u][i].host))
  /\ UNCHANGED <<user, chunk, sectors, call, cancelled>>

(* The host was in use: ask for it again, and wait this time.  The queue   *)
(* is empty between responses, so what is put in it is what is sent.       *)
CollectAcquired(u, i) ==
  /\ Collecting(u, i, "acquired")
  /\ SetJob(u, i, [Request(job[u][i].host) EXCEPT !.block = TRUE])
  /\ UNCHANGED <<user, chunk, sectors, call, cancelled>>

(* The host failed: try another one, *)
CollectFailed(u, i) ==
  /\ Collecting(u, i, "failed")
  /\ \E h \in newHosts[u] :
       /\ newHosts' = [newHosts EXCEPT ![u] = @ \ {h}]
       /\ SetJob(u, i, Request(h))
  /\ UNCHANGED <<uploader, user, chunk, sectors, phase, unsent, rem, cancelled, result>>

(* or give this shard up. *)
CollectGivenUp(u, i) ==
  /\ Collecting(u, i, "failed")
  /\ newHosts[u] = {}
  /\ SetJob(u, i, NoJob)
  /\ UNCHANGED <<user, chunk, sectors, call, cancelled>>

\* Mutant: shards that were given up are forgotten.
ReturnOptimistic(u) ==
  /\ phase[u] = "collect"
  /\ Inflight(u) = {}
  /\ Goto(u, "done")
  /\ Result(u, "nil")
  /\ UNCHANGED <<uploader, user, chunk, sectors, unsent, newHosts, rem, job, cancelled>>

Return(u) ==
  /\ phase[u] = "collect"
  /\ Inflight(u) = {}
  /\ Goto(u, "done")
  /\ Result(u, IF rem[u] > 0 THEN "error" ELSE "nil")
  /\ UNCHANGED <<uploader, user, chunk, sectors, unsent, newHosts, rem, job, cancelled>>

(* The deferred function: wait for every request that is in flight, and    *)
(* forget what it answers.                                                 *)
Drain(u, i) ==
  /\ phase[u] = "drain"
  /\ job[u][i].st \in Answered
  /\ SetJob(u, i, NoJob)
  /\ UNCHANGED <<user, chunk, sectors, call, cancelled>>

\* Mutant: the call returns without waiting for its workers.
EndDrainEarly(u) ==
  /\ phase[u] = "drain"
  /\ Goto(u, "done")
  /\ UNCHANGED <<uploader, user, chunk, sectors, unsent, newHosts, rem, job, cancelled, result>>

EndDrain(u) ==
  /\ phase[u] = "drain"
  /\ Inflight(u) = {}
  /\ Goto(u, "done")
  /\ UNCHANGED <<uploader, user, chunk, sectors, unsent, newHosts, rem, job, cancelled, result>>

-----------------------------------------------------------------------------
(* The uploaders that store one shard at a time.                           *)

StartSerial(u) ==
  /\ phase[u] = "start" /\ uploader[u] # "parallel"
  /\ EnoughHosts(u)
  /\ newHosts' = [newHosts EXCEPT ![u] = Fresh(u)]
  /\ rem' = [rem EXCEPT ![u] = Lacking(u)]
  /\ unsent' = [unsent EXCEPT ![u] = Shards \ Skip(u)]
  /\ Goto(u, "serial")
  /\ UNCHANGED <<user, uploader, chunk, sectors, job, cancelled, result>>

(* The next shard, for any host that is left: acquire waits for it. *)
NextShard(u) ==
  /\ phase[u] = "serial"
  /\ Inflight(u) = {} /\ rem[u] > 0
  /\ \E i \in unsent[u], h \in newHosts[u] :
       /\ \A k \in unsent[u] : i <= k
       /\ unsent' = [unsent EXCEPT ![u] = @ \ {i}]
       /\ newHosts' = [newHosts EXCEPT ![u] = @ \ {h}]
       /\ SetJob(u, i, [Request(h) EXCEPT !.block = TRUE])
  /\ UNCHANGED <<user, uploader, chunk, sectors, phase, rem, cancelled, result>>

(* SetChunkShard records the shard. *)
ShardDone(u, i) ==
  /\ phase[u] = "serial"
  /\ job[u][i].st = "ok"
  /\ chunk' = [chunk EXCEPT ![u][i] = job[u][i].host]
  /\ rem' = [rem EXCEPT ![u] = @ - 1]
  /\ SetJob(u, i, NoJob)
  /\ UNCHANGED <<user, uploader, sectors, phase, unsent, newHosts, cancelled, result>>

(* The first error, SetChunkShard's included, ends the call. *)
ShardFailed(u, i) ==
  /\ phase[u] = "serial"
  /\ job[u][i].st \in {"ok", "failed"}
  /\ SetJob(u, i, NoJob)
  /\ Goto(u, "done")
  /\ Result(u, "error")
  /\ UNCHANGED <<user, uploader, chunk, sectors, unsent, newHosts, rem, cancelled>>

ReturnSerial(u) ==
  /\ phase[u] = "serial"
  /\ Inflight(u) = {} /\ rem[u] = 0
  /\ Goto(u, "done")
  /\ Result(u, "nil")
  /\ UNCHANGED <<user, uploader, chunk, sectors, unsent, newHosts, rem, job, cancelled>>

-----------------------------------------------------------------------------
(* The workers.                                                            *)

Free(h) == user[h] = Nobody

(* tryAcquire, and acquire if the request says so, succeed, *)
Acquire(u, i) ==
  /\ job[u][i].st \in {"sent", "waiting"}
  /\ Locks!Borrow(<<u, i>>, job[u][i].host)
  /\ Advance(u, i, "held")
  /\ UNCHANGED <<chunk, sectors, call, cancelled>>

(* fail because the host cannot be reached, *)
Unreachable(u, i) ==
  /\ job[u][i].st \in {"sent", "waiting"}
  /\ Free(job[u][i].host)
  /\ Advance(u, i, "failed")
  /\ UNCHANGED <<user, chunk, sectors, call, cancelled>>

(* or find the host in use. *)
InUse(u, i) ==
  /\ job[u][i].st = "sent"
  /\ ~Free(job[u][i].host)
  /\ Advance(u, i, IF job[u][i].block THEN "waiting" ELSE "acquired")
  /\ UNCHANGED <<user, chunk, sectors, call, cancelled>>

(* The sector is appended and the host released; *)
AppendStored(u, i) ==
  /\ job[u][i].st = "held"
  /\ u \notin cancelled
  /\ sectors' = sectors \cup {<<u, i, job[u][i].host>>}
  /\ Locks!GiveBack(<<u, i>>, job[u][i].host)
  /\ Advance(u, i, "appended")
  /\ UNCHANGED <<chunk, call, cancelled>>

(* or Append fails, perhaps after the host has stored the sector, or the   *)
(* context was cancelled, and the host is released.                        *)
AppendFailed(u, i) ==
  /\ job[u][i].st = "held"
  /\ \/ UNCHANGED sectors
     \/ u \notin cancelled /\ sectors' = sectors \cup {<<u, i, job[u][i].host>>}
  /\ Locks!GiveBack(<<u, i>>, job[u][i].host)
  /\ Advance(u, i, "failed")
  /\ UNCHANGED <<chunk, call, cancelled>>

(* AddShard gives the shard an id, or fails. *)
AddShard(u, i) ==
  /\ job[u][i].st = "appended"
  /\ \E st \in {"ok", "failed"} : Advance(u, i, st)
  /\ UNCHANGED <<user, chunk, sectors, call, cancelled>>

(* Once the context is cancelled, one more goroutine answers requests.     *)
AnswerCancelled(u, i) ==
  /\ u \in cancelled
  /\ job[u][i].st = "sent"
  /\ Advance(u, i, "failed")
  /\ UNCHANGED <<user, chunk, sectors, call, cancelled>>

(* The others take no notice of a context. *)
Cancel(u) ==
  /\ u \notin cancelled
  /\ uploader[u] = "parallel" /\ phase[u] # "done"
  /\ cancelled' = cancelled \cup {u}
  /\ UNCHANGED <<user, chunk, sectors, call, job>>

(* Another upload or download borrows a host, and gives it back. *)
OutsiderBorrows ==
  /\ \E h \in Hosts : Locks!Borrow(Outsider, h)
  /\ UNCHANGED <<chunk, sectors, call, job, cancelled>>

OutsiderGivesBack ==
  /\ \E h \in Hosts : Locks!GiveBack(Outsider, h)
  /\ UNCHANGED <<chunk, sectors, call, job, cancelled>>

Work(u, i) ==
  \/ Acquire(u, i) \/ Unreachable(u, i) \/ InUse(u, i)
  \/ AppendStored(u, i) \/ AppendFailed(u, i)
  \/ AddShard(u, i) \/ AnswerCancelled(u, i)

Collect(u, i) ==
  \/ CollectStored(u, i) \/ CollectUnrecorded(u, i) \/ CollectAcquired(u, i)
  \/ CollectFailed(u, i) \/ CollectGivenUp(u, i) \/ Drain(u, i)

Main(u) ==
  \/ Start(u) \/ Refuse(u) \/ Send(u) \/ EndSend(u) \/ Interrupted(u)
  \/ Return(u) \/ EndDrain(u)
  \/ StartSerial(u) \/ NextShard(u) \/ ReturnSerial(u)
  \/ \E i \in Shards : Collect(u, i) \/ ShardDone(u, i) \/ ShardFailed(u, i)

Next ==
  \/ \E u \in Uploads :
       \/ Main(u)
       \/ Cancel(u)
       \/ \E i \in Shards : Work(u, i)
  \/ OutsiderBorrows
  \/ OutsiderGivesBack

Spec == Init /\ [][Next]_vars

(* Goroutines run and RPCs end; a goroutine that waits for a host is       *)
(* served in turn (HostSet's locks are channels).                          *)
Fairness ==
  /\ WF_vars(OutsiderGivesBack)
  /\ \A u \in Uploads :
       /\ WF_vars(Main(u))
       /\ \A i \in Shards :
            /\ WF_vars(Work(u, i))
            /\ SF_vars(Acquire(u, i) \/ Unreachable(u, i))

FairSpec == Spec /\ Fairness

-----------------------------------------------------------------------------
(* A chunk survives the loss of as many hosts as it has redundancy for:    *)
(* no retry, and no repair of a partial upload, puts two shards of a chunk *)
(* on one host.                                                            *)
OneShardPerHost == \A u \in Uploads : Spread(chunk[u])

(* UploadChunk returns nil only when every shard of the chunk is stored on *)
(* a host of the set, or MinShards of them if that is all that was wanted. *)
CompleteOnSuccess ==
  \A u \in Uploads :
    result[u] = "nil" =>
      IF uploader[u] = "minimum" THEN Cardinality(Skip(u)) >= MinShards
      ELSE Skip(u) = Shards

(* A call that has returned holds no host and leaves no worker behind. *)
NothingLeftBehind ==
  \A u \in Uploads : phase[u] = "done" =>
    /\ Inflight(u) = {}
    /\ \A h \in Hosts, i \in Shards : user[h] # <<u, i>>

(* Every call returns, although the workers of all of them wait for one    *)
(* another's hosts.                                                        *)
UploadReturns == \A u \in Uploads : <>(phase[u] = "done")
=============================================================================
