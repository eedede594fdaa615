------------------------------- MODULE KVStore -------------------------------
(***************************************************************************)
(* PseudoKV over a MetaDB: blobs are sequences of chunks, chunks have one  *)
(* shard per index, shards are sectors on hosts.  Put, Resume, Migrate,    *)
(* Update and GC are calls of several steps that may overlap; Delete is    *)
(* one step of the database.  UploadChunk is what ChunkUpload shows it to  *)
(* be: every shard it does not keep goes to a host of its own, and it may  *)
(* give up at any point.  A crash is an error in every call at once.       *)
(***************************************************************************)
EXTENDS Integers, Sequences, FiniteSets

CONSTANTS
  Calls,      \* goroutines that use the store
  Keys,
  AllHosts,
  Shards,     \* the indices of a chunk's shards, 1 .. N
  M,          \* how many shards a chunk can be rebuilt from
  P,          \* how many chunks are uploaded at once
  Size,       \* how many chunks every value has
  Exclusive,  \* TRUE: callers do not overlap operations on one key
  NoKey,
  MaxChunks, MaxShards \* bounds on the ids the database hands out

ASSUME KVAssumption ==
  /\ IsFiniteSet(Shards) /\ Shards = 1 .. Cardinality(Shards)
  /\ M \in Shards
  /\ P \in Nat \ {0}
  /\ Size \in Nat
  /\ Exclusive \in BOOLEAN
  /\ NoKey \notin Keys
  /\ MaxChunks \in Nat /\ MaxShards \in Nat

VARIABLES
  blobs,    \* DB: the chunk ids of every key, or NoBlob
  chunks,   \* DB: each chunk's part of the value and its shards' ids (0: unset)
  shards,   \* DB: the host of each shard id
  refs,     \* EphemeralMetaDB.refs, with its keys as domain; or NoRefs
  stored,   \* the shard ids whose sector the host still has
  set,      \* the hosts of the HostSet
  call,     \* what each call is doing
  up,       \* the calls of UploadChunk under way
  garbage,  \* the sectors a GC still has to delete
  whole     \* history: the keys whose value was uploaded with no error

db == <<blobs, chunks, shards, refs>>
vars == <<blobs, chunks, shards, refs, stored, set, call, up, garbage, whole>>

NoBlob == <<0>>

(* A BoltMetaDB counts no references. *)
NoRefs == [s \in {-1} |-> 0]
bolt == refs = NoRefs

Idle == [op |-> "idle", key |-> NoKey, chunks |-> << >>, at |-> 0, view |-> << >>, next |-> 0]
Running(c, op) == call[c].op = op
Uploads(c) == {u \in up : u.call = c}

Init ==
  /\ blobs = [k \in Keys |-> NoBlob]
  /\ chunks = << >> /\ shards = << >>
  /\ refs \in {NoRefs, [s \in {} |-> 0]}
  /\ stored = {}
  /\ set \in {s \in SUBSET AllHosts : Cardinality(s) = Cardinality(Shards)}
  /\ call = [c \in Calls |-> Idle]
  /\ up = {}
  /\ garbage = [c \in Calls |-> {}]
  /\ whole = {}

-----------------------------------------------------------------------------
(* The database.                                                           *)

Ref(r, s) == IF s \in DOMAIN r THEN r[s] ELSE 0
Count(r, s, n) ==
  [x \in DOMAIN r \cup {s} |-> IF x = s THEN Ref(r, s) + n ELSE r[x]]

\* Mutant: the count that is lowered is that of the new shard.
SetChunkShardSwapped(k, i, s) ==
  /\ chunks' = [chunks EXCEPT ![k].shards[i] = s]
  /\ refs' = IF bolt THEN refs ELSE Count(Count(refs, s, -1), s, 1)

(* The shard that was there loses a reference, the new one gains one. *)
SetChunkShard(k, i, s) ==
  /\ chunks' = [chunks EXCEPT ![k].shards[i] = s]
  /\ refs' = IF bolt THEN refs ELSE Count(Count(refs, chunks[k].shards[i], -1), s, 1)

Dropped(cs, s) ==
  Cardinality({x \in (1 .. Len(cs)) \X Shards : chunks[cs[x[1]]].shards[x[2]] = s})
DroppedIds(cs) == {chunks[cs[j]].shards[i] : j \in 1 .. Len(cs), i \in Shards}

(* Every shard of every chunk of the blob loses a reference. *)
DeleteBlob(key) ==
  LET gone == DroppedIds(blobs[key])
  IN  /\ blobs' = [blobs EXCEPT ![key] = NoBlob]
      /\ refs' = IF bolt THEN refs
                 ELSE [s \in DOMAIN refs \cup gone |-> Ref(refs, s) - Dropped(blobs[key], s)]

UnreferencedSectors == IF bolt THEN {} ELSE {s \in DOMAIN refs : refs[s] = 0}

NewChunk(part) == [part |-> part, shards |-> [i \in Shards |-> 0]]
AddChunk(part) == Len(chunks) < MaxChunks /\ chunks' = Append(chunks, NewChunk(part))
AddShard(h) == Len(shards) < MaxShards /\ shards' = Append(shards, h)
AddBlob(key, cs) == blobs' = [blobs EXCEPT ![key] = cs]

-----------------------------------------------------------------------------
(* UploadChunk.                                                            *)

(* The shards that are on hosts of the set, going by the caller's copy of  *)
(* the chunk, stay; the others go to hosts that keep none of them.         *)
Kept(view) == {i \in Shards : view[i] # 0 /\ shards[view[i]] \in set}

NewUpload(c, k, view) ==
  [call |-> c, chunk |-> k, todo |-> Shards \ Kept(view),
   hosts |-> set \ {shards[view[i]] : i \in Kept(view)}, got |-> {}, st |-> "running"]

Update(u, v) == up' = (up \ {u}) \cup {v}

(* A host stores the sector and AddShard gives it an id. *)
StoreShard(u) ==
  /\ u.st = "running"
  /\ \E i \in u.todo, h \in u.hosts :
       /\ AddShard(h)
       /\ stored' = stored \cup {Len(shards) + 1}
       /\ Update(u, [u EXCEPT !.todo = @ \ {i}, !.hosts = @ \ {h},
                              !.got = @ \cup {<<i, Len(shards) + 1>>}])
  /\ UNCHANGED <<blobs, chunks, refs, set, call, garbage, whole>>

RecordShard(u) ==
  /\ u.st = "running"
  /\ \E g \in u.got :
       /\ SetChunkShard(u.chunk, g[1], g[2])
       /\ Update(u, [u EXCEPT !.got = @ \ {g}])
  /\ UNCHANGED <<blobs, shards, stored, set, call, garbage, whole>>

UploadOK(u) ==
  /\ u.st = "running"
  /\ u.todo = {} /\ u.got = {}
  /\ Update(u, [u EXCEPT !.st = "ok"])
  /\ UNCHANGED <<db, stored, set, call, garbage, whole>>

(* Too few hosts, a database error, or cancellation: shards that were not  *)
(* recorded are forgotten.                                                 *)
UploadError(u) ==
  /\ u.st = "running"
  /\ Update(u, [u EXCEPT !.st = "error", !.todo = {}, !.got = {}])
  /\ UNCHANGED <<db, stored, set, call, garbage, whole>>

-----------------------------------------------------------------------------
(* Calls of PseudoKV.                                                      *)

Begin(c, op, key, cs) ==
  /\ Running(c, "idle")
  /\ Exclusive => \A d \in Calls : call[d].key # key
  /\ call' = [call EXCEPT ![c] = [op |-> op, key |-> key, chunks |-> cs,
                                  at |-> 1, view |-> << >>, next |-> 1]]

Becomes(c, op) == call' = [call EXCEPT ![c].op = op]
Finish(c) == call' = [call EXCEPT ![c] = Idle]

(* Put: an empty blob takes the place of whatever the key had. *)
Put(c) ==
  \E key \in Keys :
    /\ Begin(c, "upload", key, << >>)
    /\ AddBlob(key, << >>)
    /\ whole' = whole \ {key}
    /\ UNCHANGED <<chunks, shards, refs, stored, set, up, garbage>>

(* UploadBlob: one chunk after the other is added to the database and to   *)
(* the blob, and uploaded by one of P workers.                             *)
UploadNext(c) ==
  LET part == Len(call[c].chunks) + 1
      k == Len(chunks) + 1
      cs == Append(call[c].chunks, k)
  IN  /\ Running(c, "upload")
      /\ part <= Size
      /\ Cardinality(Uploads(c)) < P
      /\ AddChunk(part)
      /\ AddBlob(call[c].key, cs)
      /\ call' = [call EXCEPT ![c].chunks = cs]
      /\ up' = up \cup {NewUpload(c, k, NewChunk(part).shards)}
      /\ UNCHANGED <<shards, refs, stored, set, garbage, whole>>

(* consumeResp, when all workers are busy or everything has been sent. *)
Consume(c, u) ==
  /\ Running(c, "upload")
  /\ u.call = c /\ u.st # "running"
  /\ Cardinality(Uploads(c)) = P \/ Len(call[c].chunks) >= Size
  /\ up' = up \ {u}
  /\ IF u.st = "error" THEN Becomes(c, "fail") ELSE UNCHANGED call
  /\ UNCHANGED <<db, stored, set, garbage, whole>>

UploadReturn(c) ==
  /\ Running(c, "upload")
  /\ Len(call[c].chunks) >= Size
  /\ Uploads(c) = {}
  /\ whole' = whole \cup {call[c].key}
  /\ Finish(c)
  /\ UNCHANGED <<db, stored, set, up, garbage>>

(* An error of the reader or of the database, or cancellation; *)
Fail(c) ==
  /\ call[c].op \in {"upload", "resume", "migrate", "update"}
  /\ Becomes(c, "fail")
  /\ UNCHANGED <<db, stored, set, up, garbage, whole>>

(* the uploads under way are waited for, then the call returns. *)
Drain(c, u) ==
  /\ Running(c, "fail")
  /\ u.call = c /\ u.st # "running"
  /\ up' = up \ {u}
  /\ UNCHANGED <<db, stored, set, call, garbage, whole>>

FailReturn(c) ==
  /\ Running(c, "fail")
  /\ Uploads(c) = {}
  /\ Finish(c)
  /\ UNCHANGED <<db, stored, set, up, garbage, whole>>

(* Resume and the updaters work through the chunks the blob had when they  *)
(* looked it up.  A chunk from BoltMetaDB is a copy; one from              *)
(* EphemeralMetaDB shares its shards with the database.                    *)
Current(c) == call[c].chunks[call[c].at]
View(c) == IF bolt THEN call[c].view ELSE chunks[Current(c)].shards
MoreChunks(c) == call[c].at <= Len(call[c].chunks)
NextChunk(c) == call' = [call EXCEPT ![c].at = @ + 1, ![c].view = << >>, ![c].next = 1]

Open(c, op) ==
  \E key \in Keys :
    /\ blobs[key] # NoBlob
    /\ Begin(c, op, key, blobs[key])
    /\ UNCHANGED <<db, stored, set, up, garbage, whole>>

LookUp(c) ==
  /\ call[c].op \in {"resume", "migrate", "update"}
  /\ MoreChunks(c)
  /\ call[c].view = << >>
  /\ call' = [call EXCEPT ![c].view = chunks[Current(c)].shards]
  /\ UNCHANGED <<db, stored, set, up, garbage, whole>>

LookedUp(c, op) ==
  Running(c, op) /\ MoreChunks(c) /\ call[c].view # << >> /\ Uploads(c) = {}

(* Resume calls repairChunk at every unset shard it meets, *)
Unset(c) == {i \in Shards : i >= call[c].next /\ View(c)[i] = 0}
Repair(c) ==
  /\ LookedUp(c, "resume")
  /\ \E i \in Unset(c) :
       /\ \A j \in Unset(c) : i <= j
       /\ call' = [call EXCEPT ![c].next = i + 1]
  /\ up' = up \cup {NewUpload(c, Current(c), View(c))}
  /\ UNCHANGED <<db, stored, set, garbage, whole>>

Repaired(c, u) ==
  /\ Running(c, "resume")
  /\ u.call = c /\ u.st # "running"
  /\ up' = up \ {u}
  /\ IF u.st = "error" THEN Becomes(c, "fail") ELSE UNCHANGED call
  /\ UNCHANGED <<db, stored, set, garbage, whole>>

RepairedAll(c) ==
  /\ LookedUp(c, "resume")
  /\ Unset(c) = {}
  /\ NextChunk(c)
  /\ UNCHANGED <<db, stored, set, up, garbage, whole>>

(* and goes on where the blob ends. *)
ResumeUpload(c) ==
  /\ Running(c, "resume")
  /\ ~MoreChunks(c)
  /\ Becomes(c, "upload")
  /\ UNCHANGED <<db, stored, set, up, garbage, whole>>

(* Migrate: chunks with a shard outside the set are downloaded and         *)
(* uploaded again in place.  A chunk with unset shards is an error of      *)
(* Shard(0), which Fail stands for.                                        *)
Downloadable(k) ==
  LET s == chunks[k].shards
  IN  Cardinality({i \in Shards : s[i] \in stored /\ shards[s[i]] \in set}) >= M
AllSet(view) == \A i \in Shards : view[i] # 0
Migratable(view) == AllSet(view) /\ \E i \in Shards : shards[view[i]] \notin set

MigrateChunk(c) ==
  /\ LookedUp(c, "migrate")
  /\ call[c].next = 1
  /\ Migratable(View(c))
  /\ Downloadable(Current(c))
  /\ call' = [call EXCEPT ![c].next = 2]
  /\ up' = up \cup {NewUpload(c, Current(c), View(c))}
  /\ UNCHANGED <<db, stored, set, garbage, whole>>

MigrateSkip(c) ==
  /\ LookedUp(c, "migrate")
  /\ call[c].next = 1
  /\ AllSet(View(c)) /\ ~Migratable(View(c))
  /\ NextChunk(c)
  /\ UNCHANGED <<db, stored, set, up, garbage, whole>>

(* Update: every chunk is uploaded as a new chunk. *)
UpdateChunk(c) ==
  LET k == Len(chunks) + 1
      part == chunks[Current(c)].part
  IN  /\ LookedUp(c, "update")
      /\ call[c].next = 1
      /\ Downloadable(Current(c))
      /\ AddChunk(part)
      /\ call' = [call EXCEPT ![c].next = 2]
      /\ up' = up \cup {NewUpload(c, k, NewChunk(part).shards)}
      /\ UNCHANGED <<blobs, shards, refs, stored, set, garbage, whole>>

\* Mutant: the new chunk takes its place although its upload failed.
UpdatedEarly(c, u) ==
  LET cs == [call[c].chunks EXCEPT ![call[c].at] = u.chunk]
  IN  /\ call[c].op \in {"migrate", "update"}
      /\ u.call = c /\ u.st # "running"
      /\ up' = up \ {u}
      /\ call' = [call EXCEPT ![c].chunks = cs, ![c].at = @ + 1,
                              ![c].view = << >>, ![c].next = 1]
      /\ AddBlob(call[c].key, cs)
      /\ UNCHANGED <<chunks, shards, refs, stored, set, garbage, whole>>

(* The new chunk takes the place of the old one in the blob. *)
Updated(c, u) ==
  LET cs == [call[c].chunks EXCEPT ![call[c].at] = u.chunk]
  IN  /\ call[c].op \in {"migrate", "update"}
      /\ u.call = c /\ u.st # "running"
      /\ up' = up \ {u}
      /\ IF u.st = "error"
         THEN Becomes(c, "fail") /\ UNCHANGED blobs
         ELSE /\ call' = [call EXCEPT ![c].chunks = cs, ![c].at = @ + 1,
                                      ![c].view = << >>, ![c].next = 1]
              /\ IF cs = call[c].chunks THEN UNCHANGED blobs
                 ELSE AddBlob(call[c].key, cs)
      /\ UNCHANGED <<chunks, shards, refs, stored, set, garbage, whole>>

UpdateReturn(c) ==
  /\ call[c].op \in {"migrate", "update"}
  /\ ~MoreChunks(c)
  /\ Finish(c)
  /\ UNCHANGED <<db, stored, set, up, garbage, whole>>

Delete(key) ==
  /\ Exclusive => \A d \in Calls : call[d].key # key
  /\ blobs[key] # NoBlob
  /\ DeleteBlob(key)
  /\ whole' = whole \ {key}
  /\ UNCHANGED <<chunks, shards, stored, set, call, up, garbage>>

-----------------------------------------------------------------------------
(* GC: a snapshot, then one host after the other, perhaps not all.         *)

GC(c) ==
  /\ Running(c, "idle")
  /\ garbage' = [garbage EXCEPT ![c] = UnreferencedSectors]
  /\ Becomes(c, "gc")
  /\ UNCHANGED <<db, stored, set, up, whole>>

DeleteSectors(c, h) ==
  LET here == {s \in garbage[c] : shards[s] = h}
  IN  /\ Running(c, "gc")
      /\ here # {} /\ h \in set
      /\ stored' = stored \ here
      /\ garbage' = [garbage EXCEPT ![c] = @ \ here]
      /\ UNCHANGED <<db, set, call, up, whole>>

GCReturn(c) ==
  /\ Running(c, "gc")
  /\ garbage[c] = {}
  /\ Finish(c)
  /\ UNCHANGED <<db, stored, set, up, garbage, whole>>

GCError(c) ==
  /\ Running(c, "gc")
  /\ garbage[c] # {}
  /\ garbage' = [garbage EXCEPT ![c] = {}]
  /\ Finish(c)
  /\ UNCHANGED <<db, stored, set, up, whole>>

(* The user replaces a host while nothing is running.  Bound: the new host *)
(* is one that has no sectors yet.                                         *)
ReplaceHost ==
  /\ \A c \in Calls : Running(c, "idle")
  /\ \E old \in set, new \in AllHosts \ set :
       /\ \A s \in 1 .. Len(shards) : shards[s] # new
       /\ set' = (set \ {old}) \cup {new}
  /\ UNCHANGED <<db, stored, call, up, garbage, whole>>

Upload(u) == StoreShard(u) \/ RecordShard(u) \/ UploadOK(u) \/ UploadError(u)

Respond(c, u) == Consume(c, u) \/ Drain(c, u) \/ Repaired(c, u) \/ Updated(c, u)

Step(c) ==
  \/ Put(c) \/ UploadNext(c) \/ UploadReturn(c) \/ Fail(c) \/ FailReturn(c)
  \/ \E op \in {"resume", "migrate", "update"} : Open(c, op)
  \/ LookUp(c) \/ Repair(c) \/ RepairedAll(c) \/ ResumeUpload(c)
  \/ MigrateChunk(c) \/ MigrateSkip(c) \/ UpdateChunk(c) \/ UpdateReturn(c)
  \/ GC(c) \/ GCReturn(c) \/ GCError(c)
  \/ \E h \in AllHosts : DeleteSectors(c, h)

Next ==
  \/ \E c \in Calls : Step(c)
  \/ \E u \in up : Upload(u) \/ \E c \in Calls : Respond(c, u)
  \/ \E key \in Keys : Delete(key)
  \/ ReplaceHost

Spec == Init /\ [][Next]_vars

-----------------------------------------------------------------------------
ChunkIds == 1 .. Len(chunks)

(* The shards of the values in the database. *)
Associated == UNION {DroppedIds(blobs[key]) : key \in {l \in Keys : blobs[l] # NoBlob}}

(* A value that Put or Resume reported as uploaded can be read in full     *)
(* until it is overwritten or deleted: all its chunks are in their order,  *)
(* with every shard set and its sector on the host, whatever Migrate,      *)
(* Update and GC do meanwhile, and wherever they fail.                     *)
ValueSurvives ==
  \A key \in whole :
    /\ Len(blobs[key]) = Size
    /\ \A j \in 1 .. Size :
         LET k == chunks[blobs[key][j]]
         IN  k.part = j /\ \A i \in Shards : k.shards[i] \in stored

(* GC deletes no sector of a value, complete or not. *)
GCSparesValues == \A s \in Associated \ {0} : s \in stored

=============================================================================
