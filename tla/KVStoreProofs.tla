---------------------------- MODULE KVStoreProofs ----------------------------
(***************************************************************************)
(* For any number of calls, keys, hosts and shards, and values of any      *)
(* size: what Put or Resume has uploaded stays readable, and GC deletes no *)
(* sector that a value needs, as long as callers do not overlap operations *)
(* on one key (Exclusive).                                                 *)
(***************************************************************************)
EXTENDS KVStore, FiniteSetTheorems, TLAPS

Active == {"upload", "resume", "migrate", "update"}
Working == {"resume", "migrate", "update"}
Busy == Active \cup {"fail"}

Chunk == [part : Nat, shards : [Shards -> Nat]]
UploadCall ==
  [call : Calls, chunk : Nat, todo : SUBSET Shards, hosts : SUBSET AllHosts,
   got : SUBSET (Shards \X Nat), st : {"running", "ok", "error"}]
CallState ==
  [op : Busy \cup {"idle", "gc"}, key : Keys \cup {NoKey}, chunks : Seq(Nat),
   at : Nat, view : {<< >>} \cup [Shards -> Nat], next : Nat]

TypeOK ==
  /\ blobs \in [Keys -> Seq(Nat)]
  /\ chunks \in Seq(Chunk)
  /\ shards \in Seq(AllHosts)
  /\ stored \subseteq 1 .. Len(shards)
  /\ set \subseteq AllHosts
  /\ call \in [Calls -> CallState]
  /\ up \subseteq UploadCall
  /\ garbage \in [Calls -> SUBSET Nat]
  /\ whole \subseteq Keys

-----------------------------------------------------------------------------
(* A chunk that a blob has, or that is being uploaded. *)
InBlob(key, k) == \E j \in 1 .. Len(blobs[key]) : blobs[key][j] = k
Live(k) == (\E key \in Keys : InBlob(key, k)) \/ \E u \in up : u.chunk = k

(* The ids of shards are ids the database has handed out, and none is      *)
(* recorded twice.                                                         *)
Recorded ==
  /\ \A k \in ChunkIds, i \in Shards : chunks[k].shards[i] \in 0 .. Len(shards)
  /\ \A k, l \in ChunkIds, i, j \in Shards :
       chunks[k].shards[i] = chunks[l].shards[j] /\ chunks[k].shards[i] # 0 => k = l /\ i = j

(* The shards that are stored and not recorded yet are known to their      *)
(* upload alone.                                                           *)
Unrecorded ==
  /\ \A u \in up : \A g \in u.got :
       /\ g[2] \in stored
       /\ ~bolt => g[2] \notin DOMAIN refs
       /\ \A k \in ChunkIds, i \in Shards : chunks[k].shards[i] # g[2]
  /\ \A u, v \in up : \A g \in u.got, h \in v.got : g[2] = h[2] => u = v /\ g = h

(* The shards of live chunks are counted; GC has deleted, and is going to  *)
(* delete, only shards whose count is zero and will never be raised.       *)
Counted ==
  /\ bolt => stored = 1 .. Len(shards) /\ \A c \in Calls : garbage[c] = {}
  /\ ~bolt =>
       /\ refs \in [DOMAIN refs -> Int] /\ DOMAIN refs \subseteq 0 .. Len(shards)
       /\ 0 \in DOMAIN refs => refs[0] < 0
       /\ \A k \in ChunkIds, i \in Shards :
            Live(k) /\ chunks[k].shards[i] # 0 => Ref(refs, chunks[k].shards[i]) > 0
       /\ \A s \in 1 .. Len(shards) : s \notin stored => s \in DOMAIN refs /\ refs[s] <= 0
       /\ \A c \in Calls : \A s \in garbage[c] : s # 0 /\ s \in DOMAIN refs /\ refs[s] <= 0

(* Blobs have their chunks in order and to themselves. *)
BlobsApart ==
  /\ \A key \in Keys : blobs[key] # NoBlob =>
       /\ Len(blobs[key]) <= Size
       /\ \A j \in 1 .. Len(blobs[key]) :
            blobs[key][j] \in ChunkIds /\ chunks[blobs[key][j]].part = j
  /\ \A key, l \in Keys :
       \A i \in 1 .. Len(blobs[key]), j \in 1 .. Len(blobs[l]) :
         blobs[key][i] = blobs[l][j] /\ blobs[key][i] # 0 => key = l /\ i = j

(* A shard of a chunk that is being uploaded is to be stored, to be        *)
(* recorded, or recorded; and no other call has to do with the chunk.      *)
UploadInv(u) ==
  /\ u.chunk \in ChunkIds
  /\ call[u.call].op \in Busy
  /\ u.st # "error" =>
       \A i \in Shards :
         i \in u.todo \/ (\E g \in u.got : g[1] = i) \/ chunks[u.chunk].shards[i] # 0
  /\ u.st = "ok" => u.todo = {} /\ u.got = {}
  /\ \A key \in Keys : InBlob(key, u.chunk) => key = call[u.call].key
  /\ \A v \in up : v.chunk = u.chunk => v.call = u.call

Complete(k) == AllSet(chunks[k].shards)

(* A call has its key to itself and works on the chunks the blob has; what *)
(* it has dealt with is complete, or its upload is still to be waited for. *)
CallInv(c) ==
  LET me == call[c]
  IN  /\ me.key = NoKey <=> me.op \notin Busy
      /\ \A d \in Calls : call[d].key = me.key /\ me.key # NoKey => d = c
      /\ me.op \in Active => blobs[me.key] = me.chunks /\ me.chunks # NoBlob
      /\ me.op = "upload" =>
           \A j \in 1 .. Len(me.chunks) :
             Complete(me.chunks[j]) \/ \E u \in Uploads(c) : u.chunk = me.chunks[j]
      /\ me.op \in Working =>
           /\ me.at >= 1
           /\ me.view = << >> => me.next = 1 /\ Uploads(c) = {}
           /\ me.view # << >> =>
                /\ MoreChunks(c)
                /\ \A i \in Shards : me.view[i] # 0 => chunks[Current(c)].shards[i] # 0
           /\ \A u, v \in Uploads(c) : u = v
      /\ me.op = "resume" =>
           /\ \A j \in 1 .. Len(me.chunks) : j < me.at => Complete(me.chunks[j])
           /\ me.next > 1 /\ Uploads(c) = {} => Complete(Current(c))
      /\ me.op \in {"resume", "migrate"} => \A u \in Uploads(c) : u.chunk = Current(c)
      /\ me.op = "update" =>
           \A u \in Uploads(c) :
             /\ chunks[u.chunk].part = chunks[Current(c)].part
             /\ \A key \in Keys : ~InBlob(key, u.chunk)

(* The values that were uploaded with no error are complete. *)
WholeInv ==
  \A key \in whole :
    /\ blobs[key] # NoBlob
    /\ Len(blobs[key]) = Size
    /\ \A j \in 1 .. Size : Complete(blobs[key][j])

IInv ==
  /\ TypeOK /\ Recorded /\ Unrecorded /\ Counted /\ BlobsApart /\ WholeInv
  /\ \A u \in up : UploadInv(u)
  /\ \A c \in Calls : CallInv(c)

-----------------------------------------------------------------------------
(* What steps leave alone. *)

(* Chunks are never taken away, and a shard that is set stays set. *)
Grows ==
  /\ ChunkIds \subseteq 1 .. Len(chunks')
  /\ \A k \in ChunkIds :
       /\ chunks'[k].part = chunks[k].part
       /\ \A i \in Shards : chunks[k].shards[i] # 0 => chunks'[k].shards[i] # 0

LEMMA CompleteGrows ==
  ASSUME Grows, NEW k \in ChunkIds, Complete(k)
  PROVE  Complete(k)'
  BY DEF Grows, Complete, AllSet

LEMMA SameChunks ==
  ASSUME chunks' = chunks PROVE Grows
  BY DEF Grows, ChunkIds

LEMMA ShardsNonempty ==
  Shards # {} /\ IsFiniteSet(Shards) /\ \A i \in Shards : i \in Nat /\ i >= 1
  <1>1. Cardinality(Shards) \in Nat BY KVAssumption, FS_CardinalityType
  <1> QED BY <1>1, KVAssumption

(* A call that takes no step itself.  Its uploads may, but the chunks they *)
(* are of stay the same.                                                   *)
LEMMA CallKept ==
  ASSUME TypeOK, BlobsApart, NEW d \in Calls, CallInv(d), call'[d] = call[d], Grows,
         \A e \in Calls : call'[e].key = call[d].key /\ call[d].key # NoKey => e = d,
         call[d].op \in Active => blobs'[call[d].key] = blobs[call[d].key],
         \A u \in Uploads(d) : u.chunk \in ChunkIds /\ \E v \in Uploads(d)' : v.chunk = u.chunk,
         \A v \in Uploads(d)' : \E u \in Uploads(d) : v.chunk = u.chunk,
         call[d].op \in Working => \A u, v \in Uploads(d)' : u = v,
         call[d].op = "update" => \A u \in Uploads(d), key \in Keys : ~InBlob(key, u.chunk)'
  PROVE  CallInv(d)'
  <1> DEFINE me == call[d]
  <1>0. me \in CallState BY DEF TypeOK
  <1>1. me.op \in Active => \A j \in 1 .. Len(me.chunks) : me.chunks[j] \in ChunkIds
    <2> SUFFICES ASSUME me.op \in Active
                 PROVE  \A j \in 1 .. Len(me.chunks) : me.chunks[j] \in ChunkIds
      OBVIOUS
    <2>1. me.key \in Keys BY <1>0 DEF CallInv, Busy, CallState
    <2>2. blobs[me.key] = me.chunks /\ me.chunks # NoBlob BY DEF CallInv
    <2> QED BY <2>1, <2>2 DEF BlobsApart
  <1>2. Uploads(d) = {} <=> Uploads(d)' = {} OBVIOUS
  <1>3. me.op \in Working /\ MoreChunks(d) => Current(d) \in ChunkIds
    <2> SUFFICES ASSUME me.op \in Working, MoreChunks(d) PROVE Current(d) \in ChunkIds
      OBVIOUS
    <2>1. me.at \in 1 .. Len(me.chunks) BY <1>0 DEF CallInv, MoreChunks, CallState
    <2> QED BY <1>1, <2>1 DEF Current, Working, Active
  <1>4. /\ MoreChunks(d)' <=> MoreChunks(d)
        /\ Current(d)' = Current(d)
    BY DEF MoreChunks, Current
  <1>5. (/\ call[d].key = NoKey <=> call[d].op \notin Busy
         /\ \A e \in Calls : call[e].key = call[d].key /\ call[d].key # NoKey => e = d
         /\ call[d].op \in Active => blobs[call[d].key] = call[d].chunks /\ call[d].chunks # NoBlob)'
    BY DEF CallInv
  <1>6. me.op = "upload" =>
          (\A j \in 1 .. Len(call[d].chunks) :
             Complete(call[d].chunks[j]) \/ \E u \in Uploads(d) : u.chunk = call[d].chunks[j])'
    <2> SUFFICES ASSUME me.op = "upload", NEW j \in 1 .. Len(me.chunks)
                 PROVE  Complete(me.chunks[j])' \/ \E u \in Uploads(d)' : u.chunk = me.chunks[j]
      BY DEF Complete
    <2>1. CASE Complete(me.chunks[j]) BY <1>1, <2>1, CompleteGrows DEF Active
    <2>2. CASE \E u \in Uploads(d) : u.chunk = me.chunks[j] BY <2>2
    <2> QED BY <2>1, <2>2 DEF CallInv
  <1>7. me.op \in Working =>
          (/\ call[d].at >= 1
           /\ call[d].view = << >> => call[d].next = 1 /\ Uploads(d) = {}
           /\ call[d].view # << >> =>
                /\ MoreChunks(d)
                /\ \A i \in Shards : call[d].view[i] # 0 => chunks[Current(d)].shards[i] # 0
           /\ \A u, v \in Uploads(d) : u = v)'
    BY <1>2, <1>3, <1>4 DEF CallInv, Grows
  <1>8. me.op = "resume" =>
          (/\ \A j \in 1 .. Len(call[d].chunks) : j < call[d].at => Complete(call[d].chunks[j])
           /\ call[d].next > 1 /\ Uploads(d) = {} => Complete(Current(d)))'
    <2> SUFFICES ASSUME me.op = "resume"
                 PROVE  /\ \A j \in 1 .. Len(me.chunks) : j < me.at => Complete(me.chunks[j])'
                        /\ me.next > 1 /\ Uploads(d)' = {} => Complete(Current(d))'
      BY DEF Complete
    <2>1. ASSUME NEW j \in 1 .. Len(me.chunks), j < me.at PROVE Complete(me.chunks[j])'
      BY <1>1, <2>1, CompleteGrows DEF CallInv, Active
    <2>2. ASSUME me.next > 1, Uploads(d)' = {} PROVE Complete(Current(d))'
      <3>1. Complete(Current(d)) BY <1>2, <2>2 DEF CallInv
      <3>2. MoreChunks(d) BY <1>0, <2>2 DEF CallInv, Working, CallState
      <3>3. Current(d) \in ChunkIds BY <1>3, <3>2 DEF Working
      <3>4. Current(d)' = Current(d) BY <1>4
      <3> QED BY <3>1, <3>3, <3>4, CompleteGrows DEF Complete
    <2> QED BY <2>1, <2>2
  <1>9. me.op \in {"resume", "migrate"} => (\A u \in Uploads(d) : u.chunk = Current(d))'
    BY <1>4 DEF CallInv
  <1>10. me.op = "update" =>
           (\A u \in Uploads(d) :
              /\ chunks[u.chunk].part = chunks[Current(d)].part
              /\ \A key \in Keys : ~InBlob(key, u.chunk))'
    <2> SUFFICES ASSUME me.op = "update", NEW v \in Uploads(d)'
                 PROVE  /\ chunks'[v.chunk].part = chunks'[Current(d)'].part
                        /\ \A key \in Keys : ~InBlob(key, v.chunk)'
      BY DEF InBlob
    <2>1. PICK u \in Uploads(d) : v.chunk = u.chunk OBVIOUS
    <2>2. MoreChunks(d) BY <1>0, <2>1 DEF CallInv, Working
    <2>3. Current(d) \in ChunkIds BY <1>3, <2>2 DEF Working
    <2>4. chunks[u.chunk].part = chunks[Current(d)].part BY DEF CallInv
    <2>5. u.chunk \in ChunkIds OBVIOUS
    <2>6. chunks'[u.chunk].part = chunks'[Current(d)].part BY <2>3, <2>4, <2>5 DEF Grows
    <2>7. \A key \in Keys : ~InBlob(key, u.chunk)' OBVIOUS
    <2> QED BY <1>4, <2>1, <2>6, <2>7
  <1> QED BY <1>5, <1>6, <1>7, <1>8, <1>9, <1>10 DEF CallInv

(* An upload that takes no step itself. *)
LEMMA UploadKept ==
  ASSUME NEW u \in up, UploadInv(u), Grows,
         call'[u.call].op \in Busy, call'[u.call].key = call[u.call].key,
         \A key \in Keys : InBlob(key, u.chunk)' => key = call[u.call].key,
         \A v \in up' : v.chunk = u.chunk => v.call = u.call
  PROVE  UploadInv(u)'
  <1>1. u.chunk \in ChunkIds' BY DEF UploadInv, Grows, ChunkIds
  <1>2. u.st # "error" =>
          \A i \in Shards :
            i \in u.todo \/ (\E g \in u.got : g[1] = i) \/ chunks'[u.chunk].shards[i] # 0
    BY DEF UploadInv, Grows
  <1> QED BY <1>1, <1>2 DEF UploadInv

LEMMA LiveKept ==
  ASSUME UNCHANGED blobs, \A v \in up' : v \in up \/ Live(v.chunk), NEW k, Live(k)'
  PROVE  Live(k)
  <1>1. CASE (\E key \in Keys : InBlob(key, k))' BY <1>1 DEF Live, InBlob
  <1>2. CASE \E u \in up' : u.chunk = k BY <1>2 DEF Live
  <1> QED BY <1>1, <1>2 DEF Live

(* A step of one call that leaves blobs, chunks and shards alone. *)
LEMMA CallStep ==
  ASSUME IInv, NEW c \in Calls, UNCHANGED <<blobs, chunks, shards>>,
         TypeOK', Unrecorded', Counted', WholeInv', CallInv(c)',
         \A d \in Calls \ {c} : call'[d] = call[d],
         \A u \in up : u.call # c => u \in up',
         \A v \in up' : v \in up \/ (v.call = c /\ UploadInv(v)'),
         \A u \in up \cap up' : u.call = c => call'[c].op \in Busy /\ call'[c].key = call[c].key
  PROVE  IInv'
  <1>0. Grows BY SameChunks
  <1>1. Recorded' BY DEF IInv, Recorded, ChunkIds
  <1>2. BlobsApart' BY DEF IInv, BlobsApart, ChunkIds
  <1>3. \A key, k : InBlob(key, k)' <=> InBlob(key, k) BY DEF InBlob
  <1>4. ASSUME NEW v \in up' PROVE UploadInv(v)'
    <2>1. CASE v \notin up BY <2>1
    <2>2. CASE v \in up
      <3>1. UploadInv(v) BY <2>2 DEF IInv
      <3>2. v.call \in Calls BY <2>2 DEF IInv, TypeOK, UploadCall
      <3>3. call'[v.call].op \in Busy /\ call'[v.call].key = call[v.call].key
        BY <2>2, <3>1, <3>2 DEF UploadInv
      <3>4. ASSUME NEW w \in up', w.chunk = v.chunk PROVE w.call = v.call
        <4>1. CASE w \in up BY <3>1, <3>4, <4>1 DEF UploadInv
        <4>2. CASE UploadInv(w)' BY <3>4, <4>2 DEF UploadInv
        <4> QED BY <4>1, <4>2
      <3>5. \A key \in Keys : InBlob(key, v.chunk)' => key = call[v.call].key
        BY <1>3, <3>1 DEF UploadInv
      <3> QED BY <1>0, <2>2, <3>1, <3>3, <3>4, <3>5, UploadKept
    <2> QED BY <2>1, <2>2
  <1>5. ASSUME NEW d \in Calls PROVE CallInv(d)'
    <2>1. CASE d = c BY <2>1
    <2>2. CASE d # c
      <3>1. CallInv(d) /\ TypeOK /\ BlobsApart BY DEF IInv
      <3>2. call'[d] = call[d] BY <2>2
      <3>3. Uploads(d)' = Uploads(d) BY <2>2 DEF Uploads
      <3>4. \A e \in Calls : call'[e].key = call[d].key /\ call[d].key # NoKey => e = d
        <4>1. \A e \in Calls \ {c} : call'[e].key = call[d].key /\ call[d].key # NoKey => e = d
          BY <3>1 DEF CallInv
        <4>2. call'[c].key = call'[d].key /\ call'[c].key # NoKey => d = c
          BY DEF CallInv
        <4> QED BY <2>2, <3>2, <4>1, <4>2
      <3>5. \A u \in Uploads(d) : u.chunk \in ChunkIds BY DEF IInv, UploadInv, Uploads
      <3>6. call[d].op = "update" => \A u \in Uploads(d), key \in Keys : ~InBlob(key, u.chunk)'
        BY <1>3, <3>1 DEF CallInv
      <3>7. call[d].op \in Working => \A u, v \in Uploads(d)' : u = v
        BY <3>1, <3>3 DEF CallInv
      <3> QED BY <1>0, <3>1, <3>2, <3>3, <3>4, <3>5, <3>6, <3>7, CallKept
    <2> QED BY <2>1, <2>2
  <1> QED BY <1>1, <1>2, <1>4, <1>5 DEF IInv

(* One that leaves the reference counts and the sectors alone as well. *)
LEMMA QuietStep ==
  ASSUME IInv, NEW c \in Calls, UNCHANGED <<blobs, chunks, shards, refs, stored, garbage>>,
         TypeOK', WholeInv', CallInv(c)',
         \A d \in Calls \ {c} : call'[d] = call[d],
         \A u \in up : u.call # c => u \in up',
         \A v \in up' : v \in up \/ (v.call = c /\ v.got = {} /\ Live(v.chunk) /\ UploadInv(v)'),
         \A u \in up \cap up' : u.call = c => call'[c].op \in Busy /\ call'[c].key = call[c].key
  PROVE  IInv'
  <1>1. Unrecorded' BY DEF IInv, Unrecorded, ChunkIds, bolt
  <1>2. \A k : Live(k)' => Live(k) BY LiveKept
  <1>3. Counted' BY <1>2 DEF IInv, Counted, ChunkIds, bolt, Ref
  <1> QED BY <1>1, <1>3, CallStep

LEMMA SameWhole ==
  ASSUME WholeInv, UNCHANGED <<blobs, chunks, whole>> PROVE WholeInv'
  BY DEF WholeInv, Complete

-----------------------------------------------------------------------------
(* The steps of a call. *)

LEMMA ActiveFacts ==
  ASSUME IInv, NEW c \in Calls, call[c].op \in Active
  PROVE  /\ call[c].key \in Keys /\ call[c].key # NoKey
         /\ call[c].chunks = blobs[call[c].key]
         /\ Len(call[c].chunks) \in Nat /\ Len(call[c].chunks) <= Size
         /\ \A j \in 1 .. Len(call[c].chunks) :
              call[c].chunks[j] \in ChunkIds /\ chunks[call[c].chunks[j]].part = j
  <1>1. call[c] \in CallState /\ CallInv(c) /\ BlobsApart BY DEF IInv, TypeOK
  <1>2. call[c].key \in Keys /\ call[c].key # NoKey
    BY <1>1 DEF CallInv, Busy, CallState
  <1>3. call[c].chunks = blobs[call[c].key] /\ call[c].chunks # NoBlob BY <1>1 DEF CallInv
  <1>4. call[c].chunks \in Seq(Nat) BY <1>1 DEF CallState
  <1> QED BY <1>1, <1>2, <1>3, <1>4 DEF BlobsApart

LEMMA WorkingFacts ==
  ASSUME IInv, NEW c \in Calls, call[c].op \in Working, MoreChunks(c)
  PROVE  /\ call[c].at \in 1 .. Len(call[c].chunks)
         /\ Current(c) \in ChunkIds
         /\ chunks[Current(c)] \in Chunk
         /\ InBlob(call[c].key, Current(c))
  <1>0. call[c].op \in Active BY DEF Working, Active
  <1>1. call[c] \in CallState /\ CallInv(c) BY DEF IInv, TypeOK
  <1>2. call[c].at \in 1 .. Len(call[c].chunks)
    BY <1>0, <1>1, ActiveFacts DEF CallInv, CallState, MoreChunks
  <1>3. Current(c) \in ChunkIds BY <1>0, <1>2, ActiveFacts DEF Current
  <1>4. chunks[Current(c)] \in Chunk BY <1>3 DEF IInv, TypeOK, ChunkIds
  <1>5. InBlob(call[c].key, Current(c)) BY <1>0, <1>2, ActiveFacts DEF InBlob, Current
  <1> QED BY <1>2, <1>3, <1>4, <1>5

(* Looking a chunk up gives what the chunk has, or had. *)
LEMMA ViewFacts ==
  ASSUME IInv, NEW c \in Calls, call[c].op \in Working, MoreChunks(c), call[c].view # << >>
  PROVE  /\ View(c) \in [Shards -> Nat]
         /\ \A i \in Shards : View(c)[i] # 0 => chunks[Current(c)].shards[i] # 0
  <1>1. call[c] \in CallState /\ CallInv(c) BY DEF IInv, TypeOK
  <1>2. chunks[Current(c)].shards \in [Shards -> Nat] BY WorkingFacts DEF Chunk
  <1>3. CASE bolt BY <1>1, <1>3 DEF View, CallInv, CallState
  <1>4. CASE ~bolt BY <1>2, <1>4 DEF View
  <1> QED BY <1>3, <1>4

LEMMA OneUpload ==
  ASSUME IInv, NEW c \in Calls, call[c].op \in Working, NEW u \in Uploads(c)
  PROVE  /\ Uploads(c) = {u}
         /\ call[c].view # << >> /\ MoreChunks(c)
  BY DEF IInv, CallInv

LEMMA NotBusy ==
  ASSUME IInv, NEW c \in Calls, call[c].op \notin Busy PROVE Uploads(c) = {}
  BY DEF IInv, UploadInv, Uploads

(* The keys of calls stay apart. *)
LEMMA KeyKept ==
  ASSUME IInv, NEW c \in Calls, \A d \in Calls \ {c} : call'[d] = call[d],
         call'[c].key = call[c].key
  PROVE  \A d \in Calls : call'[d].key = call'[c].key /\ call'[c].key # NoKey => d = c
  BY DEF IInv, CallInv

LEMMA FinishStep ==
  ASSUME IInv, NEW c \in Calls, Finish(c), Uploads(c) = {}, whole' \subseteq Keys, WholeInv',
         UNCHANGED <<db, stored, set, up, garbage>>
  PROVE  IInv'
  <1>0. call \in [Calls -> CallState] BY DEF IInv, TypeOK
  <1>1. Idle \in CallState BY DEF Idle, CallState
  <1>2. call' \in [Calls -> CallState] /\ call'[c] = Idle /\ \A d \in Calls \ {c} : call'[d] = call[d]
    BY <1>0, <1>1 DEF Finish
  <1>3. TypeOK' BY <1>2 DEF IInv, TypeOK, db
  <1>4. CallInv(c)' BY <1>2 DEF CallInv, Idle, Busy, Active, Working
  <1> QED BY <1>2, <1>3, <1>4, QuietStep DEF db, Uploads

LEMMA FailStep ==
  ASSUME IInv, NEW c \in Calls, call[c].op \in Busy,
         call' \in [Calls -> CallState], \A d \in Calls \ {c} : call'[d] = call[d],
         call'[c].op = "fail", call'[c].key = call[c].key,
         up' \subseteq up, \A u \in up : u.call # c => u \in up',
         UNCHANGED <<db, stored, set, garbage, whole>>
  PROVE  IInv'
  <1>1. TypeOK' BY DEF IInv, TypeOK, db
  <1>2. CallInv(c)'
    <2>1. call[c].key # NoKey BY DEF IInv, CallInv
    <2> QED BY <2>1, KeyKept DEF CallInv, Busy, Active, Working
  <1>3. WholeInv' BY SameWhole DEF IInv, db
  <1> QED BY <1>1, <1>2, <1>3, QuietStep DEF db, Busy

LEMMA BecomesTyped ==
  ASSUME IInv, NEW c \in Calls, NEW op \in Busy, Becomes(c, op)
  PROVE  /\ call' \in [Calls -> CallState]
         /\ call'[c] = [call[c] EXCEPT !.op = op]
         /\ call'[c].op = op /\ call'[c].key = call[c].key
         /\ \A d \in Calls \ {c} : call'[d] = call[d]
  <1>0. call \in [Calls -> CallState] BY DEF IInv, TypeOK
  <1>1. call'[c] = [call[c] EXCEPT !.op = op] BY <1>0 DEF Becomes
  <1>2. call'[c] \in CallState BY <1>0, <1>1 DEF CallState
  <1>3. call'[c].op = op /\ call'[c].key = call[c].key BY <1>0, <1>1 DEF CallState
  <1> QED BY <1>0, <1>1, <1>2, <1>3 DEF Becomes

LEMMA UploadReturnStep ==
  ASSUME IInv, NEW c \in Calls, UploadReturn(c) PROVE IInv'
  <1>1. call[c].op = "upload" /\ call[c].op \in Active BY DEF UploadReturn, Running, Active
  <1>2. Uploads(c) = {} /\ Finish(c) /\ UNCHANGED <<db, stored, set, up, garbage>>
    BY DEF UploadReturn
  <1>3. call[c].key \in Keys /\ blobs[call[c].key] = call[c].chunks /\ call[c].chunks # NoBlob
    BY <1>1, ActiveFacts DEF IInv, CallInv
  <1>4. Len(call[c].chunks) = Size
    BY <1>1, ActiveFacts, KVAssumption DEF UploadReturn
  <1>5. \A j \in 1 .. Size : Complete(blobs[call[c].key][j])
    BY <1>1, <1>2, <1>3, <1>4 DEF IInv, CallInv
  <1>6. \A key \in whole' :
          /\ blobs[key] # NoBlob
          /\ Len(blobs[key]) = Size
          /\ \A j \in 1 .. Size : Complete(blobs[key][j])
    BY <1>3, <1>4, <1>5 DEF UploadReturn, IInv, WholeInv
  <1>7. WholeInv' BY <1>2, <1>6 DEF WholeInv, Complete, db
  <1>8. whole' \subseteq Keys BY <1>3 DEF UploadReturn, IInv, TypeOK
  <1> QED BY <1>2, <1>7, <1>8, FinishStep

LEMMA FailReturnStep ==
  ASSUME IInv, NEW c \in Calls, FailReturn(c) PROVE IInv'
  <1>1. WholeInv' /\ whole' \subseteq Keys BY SameWhole DEF FailReturn, IInv, TypeOK, db
  <1> QED BY <1>1, FinishStep DEF FailReturn

LEMMA UpdateReturnStep ==
  ASSUME IInv, NEW c \in Calls, UpdateReturn(c) PROVE IInv'
  <1>1. WholeInv' /\ whole' \subseteq Keys BY SameWhole DEF UpdateReturn, IInv, TypeOK, db
  <1>2. Uploads(c) = {} BY OneUpload DEF UpdateReturn, Working
  <1> QED BY <1>1, <1>2, FinishStep DEF UpdateReturn

LEMMA GCReturnStep ==
  ASSUME IInv, NEW c \in Calls, GCReturn(c) PROVE IInv'
  <1>1. WholeInv' /\ whole' \subseteq Keys BY SameWhole DEF GCReturn, IInv, TypeOK, db
  <1>2. Uploads(c) = {} BY NotBusy DEF GCReturn, Running, Busy, Active
  <1> QED BY <1>1, <1>2, FinishStep DEF GCReturn

LEMMA FailsStep ==
  ASSUME IInv, NEW c \in Calls, Fail(c) PROVE IInv'
  <1>1. call[c].op \in Busy /\ Becomes(c, "fail") BY DEF Fail, Busy, Active
  <1>3. /\ call' \in [Calls -> CallState] /\ \A d \in Calls \ {c} : call'[d] = call[d]
        /\ call'[c].op = "fail" /\ call'[c].key = call[c].key
    BY <1>1, BecomesTyped DEF Busy
  <1> QED BY <1>1, <1>3, FailStep DEF Fail

(* Waiting for an upload that went wrong, or after something else did. *)
LEMMA FailedUpload ==
  ASSUME IInv, NEW c \in Calls, NEW u \in up, u.call = c, up' = up \ {u},
         call[c].op \in Busy, Becomes(c, "fail") \/ (call[c].op = "fail" /\ UNCHANGED call),
         UNCHANGED <<db, stored, set, garbage, whole>>
  PROVE  IInv'
  <1>1. call[c] \in CallState /\ call \in [Calls -> CallState] BY DEF IInv, TypeOK
  <1>2. /\ call' \in [Calls -> CallState] /\ \A d \in Calls \ {c} : call'[d] = call[d]
        /\ call'[c].op = "fail" /\ call'[c].key = call[c].key
    <2>1. CASE Becomes(c, "fail") BY <2>1, BecomesTyped DEF Busy
    <2>2. CASE call[c].op = "fail" /\ UNCHANGED call BY <1>1, <2>2
    <2> QED BY <2>1, <2>2
  <1>3. up' \subseteq up /\ \A v \in up : v.call # c => v \in up' OBVIOUS
  <1> QED BY <1>2, <1>3, FailStep

LEMMA DrainStep ==
  ASSUME IInv, NEW c \in Calls, NEW u \in up, Drain(c, u) PROVE IInv'
  BY FailedUpload DEF Drain, Running, Busy

(* Waiting for one that went right: its chunk is complete. *)
LEMMA UploadedComplete ==
  ASSUME IInv, NEW u \in up, u.st = "ok" PROVE Complete(u.chunk)
  BY DEF IInv, UploadInv, Complete, AllSet

LEMMA StatusFacts ==
  ASSUME IInv, NEW u \in up, u.st # "running", u.st # "error" PROVE u.st = "ok"
  BY DEF IInv, TypeOK, UploadCall

LEMMA ConsumeStep ==
  ASSUME IInv, NEW c \in Calls, NEW u \in up, Consume(c, u) PROVE IInv'
  <1>0. /\ call[c].op = "upload" /\ u.call = c /\ u.st # "running" /\ up' = up \ {u}
        /\ UNCHANGED <<db, stored, set, garbage, whole>>
    BY DEF Consume, Running
  <1>1. CASE u.st = "error"
    <2>1. Becomes(c, "fail") BY <1>1 DEF Consume
    <2> QED BY <1>0, <2>1, FailedUpload DEF Busy, Active
  <1>2. CASE u.st # "error"
    <2>1. UNCHANGED call BY <1>2 DEF Consume
    <2>2. u.st = "ok" BY <1>0, <1>2, StatusFacts
    <2>3. \A j \in 1 .. Len(call[c].chunks) :
            Complete(call[c].chunks[j]) \/ \E v \in Uploads(c)' : v.chunk = call[c].chunks[j]
      <3> TAKE j \in 1 .. Len(call[c].chunks)
      <3>1. CASE Complete(call[c].chunks[j]) BY <3>1
      <3>2. CASE u.chunk = call[c].chunks[j] BY <2>2, <3>2, UploadedComplete
      <3>3. ASSUME NEW v \in Uploads(c), v.chunk = call[c].chunks[j], v # u
            PROVE  \E w \in Uploads(c)' : w.chunk = call[c].chunks[j]
        BY <1>0, <3>3 DEF Uploads
      <3> QED BY <1>0, <3>1, <3>2, <3>3 DEF IInv, CallInv
    <2>4. CallInv(c)'
      <3>1. CallInv(c) BY DEF IInv
      <3>2. \A j \in 1 .. Len(call[c].chunks) :
              Complete(call[c].chunks[j])' \/ \E v \in Uploads(c)' : v.chunk = call[c].chunks[j]
        BY <1>0, <2>1, <2>3 DEF Complete, db
      <3> QED BY <1>0, <2>1, <3>1, <3>2, KeyKept DEF CallInv, Working, db
    <2>5. TypeOK' BY <1>0, <2>1 DEF IInv, TypeOK, db
    <2>6. WholeInv' BY <1>0, SameWhole DEF IInv, db
    <2> QED BY <1>0, <2>1, <2>4, <2>5, <2>6, QuietStep DEF db, Busy, Active
  <1> QED BY <1>1, <1>2

LEMMA RepairedStep ==
  ASSUME IInv, NEW c \in Calls, NEW u \in up, Repaired(c, u) PROVE IInv'
  <1>0. /\ call[c].op = "resume" /\ u.call = c /\ u.st # "running" /\ up' = up \ {u}
        /\ UNCHANGED <<db, stored, set, garbage, whole>>
    BY DEF Repaired, Running
  <1>1. CASE u.st = "error"
    <2>1. Becomes(c, "fail") BY <1>1 DEF Repaired
    <2> QED BY <1>0, <2>1, FailedUpload DEF Busy, Active
  <1>2. CASE u.st # "error"
    <2>1. UNCHANGED call BY <1>2 DEF Repaired
    <2>2. u.st = "ok" BY <1>0, <1>2, StatusFacts
    <2>3. u \in Uploads(c) BY <1>0 DEF Uploads
    <2>4. Uploads(c) = {u} /\ call[c].view # << >> /\ MoreChunks(c)
      BY <1>0, <2>3, OneUpload DEF Working
    <2>5. Uploads(c)' = {} BY <1>0, <2>4 DEF Uploads
    <2>6. CallInv(c) BY DEF IInv
    <2>7. u.chunk = Current(c) BY <1>0, <2>3, <2>6 DEF CallInv
    <2>8. Complete(Current(c)) BY <2>2, <2>7, UploadedComplete
    <2>9. CallInv(c)'
      <3>1. /\ (\A j \in 1 .. Len(call[c].chunks) : j < call[c].at => Complete(call[c].chunks[j])')
            /\ Complete(Current(c))'
        BY <1>0, <2>1, <2>6, <2>8 DEF CallInv, Complete, Current, db
      <3> QED BY <1>0, <2>1, <2>4, <2>5, <2>6, <3>1, KeyKept DEF CallInv, Working, Current, MoreChunks, db
    <2>10. TypeOK' BY <1>0, <2>1 DEF IInv, TypeOK, db
    <2>11. WholeInv' BY <1>0, SameWhole DEF IInv, db
    <2> QED BY <1>0, <2>1, <2>9, <2>10, <2>11, QuietStep DEF db, Busy, Active
  <1> QED BY <1>1, <1>2

LEMMA OpenStep ==
  ASSUME IInv, Exclusive, NEW c \in Calls, NEW op \in Working, Open(c, op) PROVE IInv'
  <1>1. PICK key \in Keys : /\ blobs[key] # NoBlob
                            /\ Begin(c, op, key, blobs[key])
                            /\ UNCHANGED <<db, stored, set, up, garbage, whole>>
    BY DEF Open
  <1>2. Uploads(c) = {} BY <1>1, NotBusy DEF Begin, Running, Busy, Active
  <1>3. blobs[key] \in Seq(Nat) /\ call \in [Calls -> CallState] BY DEF IInv, TypeOK
  <1>4. /\ call'[c] = [op |-> op, key |-> key, chunks |-> blobs[key],
                       at |-> 1, view |-> << >>, next |-> 1]
        /\ \A d \in Calls \ {c} : call'[d] = call[d]
        /\ DOMAIN call' = Calls /\ call' = [d \in Calls |-> call'[d]]
    BY <1>1, <1>3 DEF Begin
  <1>5. call'[c] \in CallState BY <1>3, <1>4 DEF CallState, Working, Busy, Active
  <1>6. call' \in [Calls -> CallState] BY <1>3, <1>4, <1>5
  <1>7. TypeOK' BY <1>1, <1>6 DEF IInv, TypeOK, db
  <1>8. Uploads(c)' = {} BY <1>1, <1>2 DEF Uploads
  <1>9. CallInv(c)'
    <2>1. key # NoKey BY KVAssumption
    <2>2. \A d \in Calls \ {c} : call[d].key # key BY <1>1 DEF Begin
    <2>3. blobs'[key] = blobs[key] BY <1>1 DEF db
    <2> QED BY <1>1, <1>4, <1>8, <2>1, <2>2, <2>3 DEF CallInv, Working, Busy, Active
  <1>10. WholeInv' BY <1>1, SameWhole DEF IInv, db
  <1> QED BY <1>1, <1>2, <1>4, <1>7, <1>9, <1>10, QuietStep DEF db, Uploads

(* Steps of Resume, Migrate and Update in between. *)
LEMMA WorkStep ==
  ASSUME IInv, NEW c \in Calls, call[c].op \in Working,
         NEW new \in CallState, call' = [call EXCEPT ![c] = new],
         new.op \in Active, new.key = call[c].key, new.chunks = call[c].chunks,
         UNCHANGED <<db, stored, set, up, garbage, whole>>,
         new.op = "upload" => \A j \in 1 .. Len(new.chunks) : Complete(new.chunks[j]),
         new.op \in Working =>
           /\ new.op = call[c].op /\ new.at >= 1
           /\ new.view = << >> => new.next = 1 /\ Uploads(c) = {}
           /\ new.view # << >> =>
                /\ new.at = call[c].at /\ new.next = call[c].next /\ MoreChunks(c)
                /\ \A i \in Shards : new.view[i] # 0 => chunks[Current(c)].shards[i] # 0,
         new.op = "resume" =>
           \A j \in 1 .. Len(new.chunks) : j < new.at => Complete(new.chunks[j])
  PROVE  IInv'
  <1>0. call \in [Calls -> CallState] /\ CallInv(c) BY DEF IInv, TypeOK
  <1>1. /\ call'[c] = new /\ call' \in [Calls -> CallState]
        /\ \A d \in Calls \ {c} : call'[d] = call[d]
    BY <1>0
  <1>2. TypeOK' BY <1>1 DEF IInv, TypeOK, db
  <1>3. Uploads(c)' = Uploads(c) BY DEF Uploads
  <1>4. WholeInv' BY SameWhole DEF IInv, db
  <1>5. \A k : Complete(k) <=> AllSet(chunks'[k].shards) BY DEF Complete, db
  <1>6. (/\ call[c].key = NoKey <=> call[c].op \notin Busy
         /\ \A d \in Calls : call[d].key = call[c].key /\ call[c].key # NoKey => d = c
         /\ call[c].op \in Active => blobs[call[c].key] = call[c].chunks /\ call[c].chunks # NoBlob)'
    BY <1>0, <1>1, KeyKept DEF CallInv, Busy, Active, Working, db
  <1>7. (call[c].op = "upload" =>
           \A j \in 1 .. Len(call[c].chunks) :
             Complete(call[c].chunks[j]) \/ \E u \in Uploads(c) : u.chunk = call[c].chunks[j])'
    BY <1>1, <1>5 DEF Complete
  <1>8. (call[c].op \in Working =>
           /\ call[c].at >= 1
           /\ call[c].view = << >> => call[c].next = 1 /\ Uploads(c) = {}
           /\ call[c].view # << >> =>
                /\ MoreChunks(c)
                /\ \A i \in Shards : call[c].view[i] # 0 => chunks[Current(c)].shards[i] # 0
           /\ \A u, v \in Uploads(c) : u = v)'
    BY <1>0, <1>1, <1>3 DEF CallInv, MoreChunks, Current, db
  <1>9. (call[c].op = "resume" =>
           /\ \A j \in 1 .. Len(call[c].chunks) : j < call[c].at => Complete(call[c].chunks[j])
           /\ call[c].next > 1 /\ Uploads(c) = {} => Complete(Current(c)))'
    <2> SUFFICES ASSUME new.op = "resume"
                 PROVE  /\ \A j \in 1 .. Len(new.chunks) : j < new.at => AllSet(chunks'[new.chunks[j]].shards)
                        /\ new.next > 1 /\ Uploads(c) = {} => AllSet(chunks'[new.chunks[new.at]].shards)
      BY <1>1, <1>3 DEF Complete, Current
    <2>1. \A j \in 1 .. Len(new.chunks) : j < new.at => AllSet(chunks'[new.chunks[j]].shards)
      BY <1>5
    <2>2. ASSUME new.next > 1, Uploads(c) = {} PROVE AllSet(chunks'[new.chunks[new.at]].shards)
      <3>1. new.at = call[c].at /\ new.next = call[c].next BY <2>2 DEF Working
      <3>2. Complete(Current(c)) BY <1>0, <2>2, <3>1 DEF CallInv, Working
      <3> QED BY <1>5, <3>1, <3>2 DEF Current
    <2> QED BY <2>1, <2>2
  <1>10. (call[c].op \in {"resume", "migrate"} => \A u \in Uploads(c) : u.chunk = Current(c))'
    <2> SUFFICES ASSUME new.op \in {"resume", "migrate"}, NEW u \in Uploads(c)
                 PROVE  u.chunk = new.chunks[new.at]
      BY <1>1, <1>3 DEF Current
    <2> QED BY <1>0 DEF CallInv, Current, Working
  <1>11. (call[c].op = "update" =>
            \A u \in Uploads(c) :
              /\ chunks[u.chunk].part = chunks[Current(c)].part
              /\ \A key \in Keys : ~InBlob(key, u.chunk))'
    <2> SUFFICES ASSUME new.op = "update", NEW u \in Uploads(c)
                 PROVE  /\ chunks[u.chunk].part = chunks[new.chunks[new.at]].part
                        /\ \A key \in Keys : ~InBlob(key, u.chunk)
      BY <1>1, <1>3 DEF Current, InBlob, db
    <2> QED BY <1>0 DEF CallInv, Current, Working
  <1>12. CallInv(c)' BY <1>6, <1>7, <1>8, <1>9, <1>10, <1>11 DEF CallInv
  <1>13. \A u \in up \cap up' : u.call = c => call'[c].op \in Busy /\ call'[c].key = call[c].key
    BY <1>1 DEF Busy
  <1> QED BY <1>1, <1>2, <1>4, <1>12, <1>13, QuietStep DEF db

LEMMA LookUpStep ==
  ASSUME IInv, NEW c \in Calls, LookUp(c) PROVE IInv'
  <1> DEFINE new == [call[c] EXCEPT !.view = chunks[Current(c)].shards]
  <1>1. /\ call[c].op \in Working /\ MoreChunks(c) /\ call[c].view = << >>
        /\ UNCHANGED <<db, stored, set, up, garbage, whole>>
    BY DEF LookUp, Working
  <1>2. call[c] \in CallState /\ call \in [Calls -> CallState] /\ CallInv(c) BY DEF IInv, TypeOK
  <1>3. chunks[Current(c)].shards \in [Shards -> Nat] BY <1>1, WorkingFacts DEF Chunk
  <1>4. new \in CallState BY <1>2, <1>3 DEF CallState
  <1>5. call' = [call EXCEPT ![c] = new] BY <1>2 DEF LookUp
  <1>6. /\ new.op = call[c].op /\ new.key = call[c].key /\ new.chunks = call[c].chunks
        /\ new.at = call[c].at /\ new.next = call[c].next /\ new.view = chunks[Current(c)].shards
    BY <1>2 DEF CallState
  <1>7. call[c].next = 1 /\ Uploads(c) = {} /\ call[c].at >= 1 BY <1>1, <1>2 DEF CallInv
  <1>8. call[c].op = "resume" =>
          \A j \in 1 .. Len(call[c].chunks) : j < call[c].at => Complete(call[c].chunks[j])
    BY <1>2 DEF CallInv
  <1>9. call[c].op \in Active /\ call[c].op # "upload" BY <1>1 DEF Working, Active
  <1> HIDE DEF new
  <1> QED BY <1>1, <1>4, <1>5, <1>6, <1>7, <1>8, <1>9, WorkStep

(* On to the next chunk, when there is nothing to wait for. *)
LEMMA NextChunkStep ==
  ASSUME IInv, NEW c \in Calls, call[c].op \in Working, MoreChunks(c), Uploads(c) = {},
         NextChunk(c), call[c].op = "resume" => Complete(Current(c)),
         UNCHANGED <<db, stored, set, up, garbage, whole>>
  PROVE  IInv'
  <1> DEFINE new == [call[c] EXCEPT !.at = @ + 1, !.view = << >>, !.next = 1]
  <1>1. call[c] \in CallState /\ call \in [Calls -> CallState] /\ CallInv(c) BY DEF IInv, TypeOK
  <1>0. call[c].at + 1 \in Nat BY <1>1 DEF CallState
  <1>2. new \in CallState BY <1>0, <1>1 DEF CallState
  <1>3. call' = [call EXCEPT ![c] = new] BY <1>1 DEF NextChunk
  <1>4. /\ new.op = call[c].op /\ new.key = call[c].key /\ new.chunks = call[c].chunks
        /\ new.at = call[c].at + 1 /\ new.view = << >> /\ new.next = 1
    BY <1>1 DEF CallState
  <1>5. call[c].at \in 1 .. Len(call[c].chunks) BY WorkingFacts
  <1>6. call[c].op = "resume" =>
          \A j \in 1 .. Len(call[c].chunks) : j < call[c].at + 1 => Complete(call[c].chunks[j])
    BY <1>1, <1>5 DEF CallInv, Current
  <1>7. call[c].op \in Active /\ call[c].op # "upload" /\ call[c].at + 1 >= 1
    BY <1>5 DEF Working, Active
  <1> HIDE DEF new
  <1> QED BY <1>2, <1>3, <1>4, <1>6, <1>7, WorkStep

(* Resume goes on when no shard is unset: none was, or the repair of the   *)
(* first one has repaired the others too.                                  *)
LEMMA RepairedAllStep ==
  ASSUME IInv, NEW c \in Calls, RepairedAll(c) PROVE IInv'
  <1>1. /\ call[c].op = "resume" /\ MoreChunks(c) /\ call[c].view # << >> /\ Uploads(c) = {}
        /\ Unset(c) = {} /\ NextChunk(c) /\ UNCHANGED <<db, stored, set, up, garbage, whole>>
    BY DEF RepairedAll, LookedUp, Running
  <1>2. call[c].op \in Working BY <1>1 DEF Working
  <1>3. call[c].next \in Nat /\ CallInv(c) BY DEF IInv, TypeOK, CallState
  <1>4. Complete(Current(c))
    <2>1. CASE call[c].next > 1 BY <1>1, <1>3, <2>1 DEF CallInv
    <2>2. CASE ~(call[c].next > 1)
      <3>1. \A i \in Shards : i \in Nat /\ i >= 1 BY ShardsNonempty
      <3>3. \A i \in Shards : View(c)[i] # 0 BY <1>1, <1>3, <2>2, <3>1 DEF Unset
      <3> QED BY <1>1, <1>2, <3>3, ViewFacts DEF Complete, AllSet
    <2> QED BY <2>1, <2>2
  <1> QED BY <1>1, <1>2, <1>4, NextChunkStep

LEMMA MigrateSkipStep ==
  ASSUME IInv, NEW c \in Calls, MigrateSkip(c) PROVE IInv'
  BY NextChunkStep DEF MigrateSkip, LookedUp, Running, Working

LEMMA ResumeUploadStep ==
  ASSUME IInv, NEW c \in Calls, ResumeUpload(c) PROVE IInv'
  <1> DEFINE new == [call[c] EXCEPT !.op = "upload"]
  <1>1. /\ call[c].op = "resume" /\ ~MoreChunks(c) /\ call[c].op \in Working
        /\ UNCHANGED <<db, stored, set, up, garbage, whole>>
    BY DEF ResumeUpload, Running, Working
  <1>2. call[c] \in CallState /\ call \in [Calls -> CallState] /\ CallInv(c) BY DEF IInv, TypeOK
  <1>3. new \in CallState BY <1>2 DEF CallState, Busy, Active
  <1>4. call' = [call EXCEPT ![c] = new] BY <1>2 DEF ResumeUpload, Becomes
  <1>5. new.op = "upload" /\ new.key = call[c].key /\ new.chunks = call[c].chunks
    BY <1>2 DEF CallState
  <1>6. \A j \in 1 .. Len(call[c].chunks) : j < call[c].at
    BY <1>1, <1>2, ActiveFacts DEF MoreChunks, CallState, Active
  <1>7. \A j \in 1 .. Len(call[c].chunks) : Complete(call[c].chunks[j])
    BY <1>1, <1>2, <1>6 DEF CallInv
  <1> HIDE DEF new
  <1>8. new.op \in Active /\ new.op \notin Working /\ new.op # "resume" BY <1>5 DEF Active, Working
  <1> QED BY <1>1, <1>3, <1>4, <1>5, <1>7, <1>8, WorkStep

-----------------------------------------------------------------------------
(* Uploads of a chunk that the blob has. *)

LEMMA NewUploadTyped ==
  ASSUME IInv, NEW c \in Calls, NEW k \in Nat, NEW view
  PROVE  /\ NewUpload(c, k, view) \in UploadCall
         /\ NewUpload(c, k, view).call = c /\ NewUpload(c, k, view).chunk = k
         /\ NewUpload(c, k, view).got = {} /\ NewUpload(c, k, view).st = "running"
         /\ \A i \in Shards : i \in NewUpload(c, k, view).todo \/ view[i] # 0
  <1>1. set \subseteq AllHosts BY DEF IInv, TypeOK
  <1> QED BY <1>1 DEF NewUpload, UploadCall, Kept

LEMMA ReuploadStep ==
  ASSUME IInv, NEW c \in Calls, NEW op \in {"resume", "migrate"}, LookedUp(c, op),
         NEW next \in Nat, next > 1, call' = [call EXCEPT ![c].next = next],
         up' = up \cup {NewUpload(c, Current(c), View(c))},
         UNCHANGED <<db, stored, set, garbage, whole>>
  PROVE  IInv'
  <1>0. PICK u : u = NewUpload(c, Current(c), View(c)) OBVIOUS
  <1>1. /\ call[c].op = op /\ call[c].op \in Working /\ MoreChunks(c) /\ call[c].view # << >>
        /\ Uploads(c) = {}
    BY DEF LookedUp, Running, Working
  <1>2. call[c] \in CallState /\ call \in [Calls -> CallState] /\ CallInv(c) BY DEF IInv, TypeOK
  <1>3. Current(c) \in ChunkIds /\ Current(c) \in Nat /\ InBlob(call[c].key, Current(c))
    BY <1>1, WorkingFacts DEF ChunkIds
  <1>4. call[c].key \in Keys /\ call[c].key # NoKey BY <1>1, ActiveFacts DEF Working, Active
  <1>5. /\ u \in UploadCall /\ u.call = c /\ u.chunk = Current(c) /\ u.got = {} /\ u.st = "running"
        /\ \A i \in Shards : i \in u.todo \/ View(c)[i] # 0
    BY <1>0, <1>3, NewUploadTyped
  <1>6. /\ call' \in [Calls -> CallState] /\ call'[c] = [call[c] EXCEPT !.next = next]
        /\ \A d \in Calls \ {c} : call'[d] = call[d]
    BY <1>2 DEF CallState
  <1>7. /\ call'[c].op = call[c].op /\ call'[c].key = call[c].key /\ call'[c].chunks = call[c].chunks
        /\ call'[c].at = call[c].at /\ call'[c].view = call[c].view /\ call'[c].next = next
    BY <1>2, <1>6 DEF CallState
  <1>8. up' = up \cup {u} BY <1>0
  <1>9. Uploads(c)' = {u} BY <1>1, <1>5, <1>8 DEF Uploads
  <1>10. TypeOK' BY <1>5, <1>6, <1>8 DEF IInv, TypeOK, db
  <1>11. WholeInv' BY SameWhole DEF IInv, db
  <1>12. \A key \in Keys : InBlob(key, Current(c)) => key = call[c].key
    BY <1>3, <1>4 DEF IInv, BlobsApart, InBlob, ChunkIds
  <1>13. \A v \in up : v.chunk = Current(c) => v.call = c
    <2> SUFFICES ASSUME NEW v \in up, v.chunk = Current(c) PROVE v.call = c OBVIOUS
    <2>1. UploadInv(v) /\ v.call \in Calls BY DEF IInv, TypeOK, UploadCall
    <2>2. call[v.call].key = call[c].key BY <1>3, <1>4, <2>1 DEF UploadInv
    <2> QED BY <1>2, <1>4, <2>1, <2>2 DEF CallInv
  <1>14. UploadInv(u)'
    <2>1. u.chunk \in ChunkIds' BY <1>3, <1>5 DEF ChunkIds, db
    <2>2. call'[u.call].op \in Busy BY <1>1, <1>5, <1>7 DEF Working, Busy, Active
    <2>3. \A i \in Shards : i \in u.todo \/ chunks'[u.chunk].shards[i] # 0
      BY <1>1, <1>5, ViewFacts DEF db
    <2>4. \A key \in Keys : InBlob(key, u.chunk)' => key = call'[u.call].key
      BY <1>5, <1>7, <1>12 DEF InBlob, db
    <2>5. \A v \in up' : v.chunk = u.chunk => v.call = u.call
      BY <1>5, <1>8, <1>13
    <2> QED BY <1>5, <2>1, <2>2, <2>3, <2>4, <2>5 DEF UploadInv
  <1>15. CallInv(c)'
    <2>1. Current(c)' = Current(c) /\ (MoreChunks(c)' <=> MoreChunks(c))
      BY <1>7 DEF Current, MoreChunks
    <2>2. op = "resume" =>
            \A j \in 1 .. Len(call[c].chunks) : j < call[c].at => Complete(call[c].chunks[j])'
      BY <1>1, <1>2, <1>7 DEF CallInv, Complete, db
    <2> QED BY <1>1, <1>2, <1>4, <1>5, <1>6, <1>7, <1>9, <2>1, <2>2, KeyKept
         DEF CallInv, Working, Busy, Active, db
  <1>16. Live(u.chunk) BY <1>3, <1>4, <1>5 DEF Live
  <1>17. \A v \in up' : v \in up \/ (v.call = c /\ v.got = {} /\ Live(v.chunk) /\ UploadInv(v)')
    BY <1>5, <1>8, <1>14, <1>16
  <1>18. \A v \in up \cap up' : v.call = c => call'[c].op \in Busy /\ call'[c].key = call[c].key
    BY <1>1 DEF Uploads
  <1> QED BY <1>6, <1>8, <1>10, <1>11, <1>15, <1>17, <1>18, QuietStep DEF db

LEMMA RepairStep ==
  ASSUME IInv, NEW c \in Calls, Repair(c) PROVE IInv'
  <1>1. PICK i \in Unset(c) : call' = [call EXCEPT ![c].next = i + 1] BY DEF Repair
  <1>2. i \in Shards /\ i \in Nat /\ i >= 1 BY ShardsNonempty DEF Unset
  <1>3. i + 1 \in Nat /\ i + 1 > 1 BY <1>2
  <1> QED BY <1>1, <1>3, ReuploadStep DEF Repair

LEMMA MigrateChunkStep ==
  ASSUME IInv, NEW c \in Calls, MigrateChunk(c) PROVE IInv'
  <1>1. 2 \in Nat /\ 2 > 1 OBVIOUS
  <1> QED BY <1>1, ReuploadStep DEF MigrateChunk

-----------------------------------------------------------------------------
(* The steps of an upload. *)

LEMMA UploadStep ==
  ASSUME IInv, NEW u \in up, NEW v \in UploadCall, Update(u, v),
         v.call = u.call, v.chunk = u.chunk,
         UNCHANGED <<blobs, set, call, garbage, whole>>,
         Grows, chunks' \in Seq(Chunk), shards' \in Seq(AllHosts), stored' \subseteq 1 .. Len(shards'),
         Recorded', Unrecorded', Counted',
         v.st # "error" =>
           \A i \in Shards :
             i \in v.todo \/ (\E g \in v.got : g[1] = i) \/ chunks'[v.chunk].shards[i] # 0,
         v.st = "ok" => v.todo = {} /\ v.got = {}
  PROVE  IInv'
  <1>1. up' = (up \ {u}) \cup {v} BY DEF Update
  <1>2. TypeOK' BY <1>1 DEF IInv, TypeOK
  <1>3. \A key, k : InBlob(key, k)' <=> InBlob(key, k) BY DEF InBlob
  <1>4. BlobsApart'
    <2>1. BlobsApart BY DEF IInv
    <2>2. ASSUME NEW key \in Keys, blobs[key] # NoBlob
          PROVE  /\ Len(blobs[key]) <= Size
                 /\ \A j \in 1 .. Len(blobs[key]) :
                      blobs[key][j] \in ChunkIds' /\ chunks'[blobs[key][j]].part = j
      BY <2>1, <2>2 DEF BlobsApart, Grows, ChunkIds
    <2> QED BY <2>1, <2>2 DEF BlobsApart
  <1>5. WholeInv'
    <2> SUFFICES ASSUME NEW key \in whole
                 PROVE  /\ blobs[key] # NoBlob
                        /\ Len(blobs[key]) = Size
                        /\ \A j \in 1 .. Size : Complete(blobs[key][j])'
      BY DEF WholeInv, Complete
    <2>1. key \in Keys BY DEF IInv, TypeOK
    <2>2. blobs[key] # NoBlob /\ Len(blobs[key]) = Size
      BY DEF IInv, WholeInv
    <2>3. ASSUME NEW j \in 1 .. Size PROVE Complete(blobs[key][j])'
      <3>1. Complete(blobs[key][j]) BY DEF IInv, WholeInv
      <3>2. blobs[key][j] \in ChunkIds BY <2>1, <2>2 DEF IInv, BlobsApart
      <3>3. AllSet(chunks'[blobs[key][j]].shards) BY <3>1, <3>2 DEF Complete, AllSet, Grows
      <3> QED BY <3>3 DEF Complete
    <2> QED BY <2>2, <2>3
  <1>6. \A w \in up : UploadInv(w) /\ w.call \in Calls BY DEF IInv, TypeOK, UploadCall
  <1>7. \A w, x \in up' : w.chunk = x.chunk => w.call = x.call
    <2>1. \A w, x \in up : w.chunk = x.chunk => w.call = x.call BY <1>6 DEF UploadInv
    <2> QED BY <1>1, <2>1
  <1>8. ASSUME NEW w \in up' PROVE UploadInv(w)'
    <2>1. CASE w = v
      <3>1. v.chunk \in ChunkIds' BY <1>6 DEF UploadInv, Grows, ChunkIds
      <3>2. call[v.call].op \in Busy /\ \A key \in Keys : InBlob(key, v.chunk) => key = call[v.call].key
        BY <1>6 DEF UploadInv
      <3> QED BY <1>3, <1>7, <2>1, <3>1, <3>2 DEF UploadInv
    <2>2. CASE w \in up
      <3>1. call'[w.call].op \in Busy /\ call'[w.call].key = call[w.call].key
        BY <1>6, <2>2 DEF UploadInv
      <3>2. \A key \in Keys : InBlob(key, w.chunk)' => key = call[w.call].key
        BY <1>3, <1>6, <2>2 DEF UploadInv
      <3>3. \A x \in up' : x.chunk = w.chunk => x.call = w.call BY <1>7
      <3> QED BY <1>6, <2>2, <3>1, <3>2, <3>3, UploadKept
    <2> QED BY <1>1, <2>1, <2>2
  <1>9. ASSUME NEW d \in Calls PROVE CallInv(d)'
    <2>0. CallInv(d) /\ TypeOK /\ BlobsApart BY DEF IInv
    <2>1. call'[d] = call[d] /\ blobs' = blobs OBVIOUS
    <2>2. \A e \in Calls : call'[e].key = call[d].key /\ call[d].key # NoKey => e = d
      BY <2>0 DEF CallInv
    <2>3. \A w \in Uploads(d) : w.chunk \in ChunkIds /\ \E x \in Uploads(d)' : x.chunk = w.chunk
      <3> SUFFICES ASSUME NEW w \in Uploads(d)
                   PROVE  w.chunk \in ChunkIds /\ \E x \in Uploads(d)' : x.chunk = w.chunk
        OBVIOUS
      <3>1. w \in up /\ w.call = d BY DEF Uploads
      <3>2. CASE w = u BY <1>1, <1>6, <3>1, <3>2 DEF Uploads, UploadInv
      <3>3. CASE w # u BY <1>1, <1>6, <3>1, <3>3 DEF Uploads, UploadInv
      <3> QED BY <3>2, <3>3
    <2>4. \A x \in Uploads(d)' : \E w \in Uploads(d) : x.chunk = w.chunk
      BY <1>1 DEF Uploads
    <2>5. call[d].op \in Working => \A w, x \in Uploads(d)' : w = x
      <3>1. call[d].op \in Working => \A w, x \in Uploads(d) : w = x BY <2>0 DEF CallInv
      <3> QED BY <1>1, <3>1 DEF Uploads
    <2>6. call[d].op = "update" => \A w \in Uploads(d), key \in Keys : ~InBlob(key, w.chunk)'
      BY <1>3, <2>0 DEF CallInv
    <2> QED BY <2>0, <2>1, <2>2, <2>3, <2>4, <2>5, <2>6, CallKept
  <1> QED BY <1>2, <1>4, <1>5, <1>8, <1>9 DEF IInv

LEMMA UploadLive ==
  ASSUME NEW u \in up, NEW v, Update(u, v), v.chunk = u.chunk, UNCHANGED blobs, NEW k
  PROVE  Live(k)' <=> Live(k)
  <1>1. up' = (up \ {u}) \cup {v} BY DEF Update
  <1>2. \A key \in Keys : InBlob(key, k)' <=> InBlob(key, k) BY DEF InBlob
  <1>3. (\E w \in up' : w.chunk = k) <=> (\E w \in up : w.chunk = k) BY <1>1
  <1> QED BY <1>2, <1>3 DEF Live

(* The upload ends: it keeps nothing that is not recorded. *)
LEMMA UploadEnds ==
  ASSUME IInv, NEW u \in up, NEW v \in UploadCall, Update(u, v),
         v.call = u.call, v.chunk = u.chunk, v.got = {}, v.todo = {},
         v.st # "error" => u.st # "error" /\ u.todo = {} /\ u.got = {},
         UNCHANGED <<db, stored, set, call, garbage, whole>>
  PROVE  IInv'
  <1>1. up' = (up \ {u}) \cup {v} BY DEF Update
  <1>2. Grows BY SameChunks DEF db
  <1>3. Recorded' BY DEF IInv, Recorded, ChunkIds, db
  <1>4. Unrecorded' BY <1>1 DEF IInv, Unrecorded, ChunkIds, bolt, db
  <1>5. Counted' BY UploadLive DEF IInv, Counted, ChunkIds, bolt, Ref, db
  <1>6. v.st # "error" => \A i \in Shards : chunks'[v.chunk].shards[i] # 0
    BY DEF IInv, UploadInv, db
  <1>7. chunks' \in Seq(Chunk) /\ shards' \in Seq(AllHosts) /\ stored' \subseteq 1 .. Len(shards')
    BY DEF IInv, TypeOK, db
  <1>8. UNCHANGED <<blobs, set, call, garbage, whole>> BY DEF db
  <1> QED BY <1>2, <1>3, <1>4, <1>5, <1>6, <1>7, <1>8, UploadStep

LEMMA UploadOKStep ==
  ASSUME IInv, NEW u \in up, UploadOK(u) PROVE IInv'
  <1>1. u \in UploadCall BY DEF IInv, TypeOK
  <1>2. PICK v : v = [u EXCEPT !.st = "ok"] OBVIOUS
  <1>3. /\ v \in UploadCall /\ v.call = u.call /\ v.chunk = u.chunk /\ v.got = {} /\ v.todo = {}
        /\ u.st # "error" /\ u.todo = {} /\ u.got = {}
    BY <1>1, <1>2 DEF UploadOK, UploadCall
  <1> QED BY <1>2, <1>3, UploadEnds DEF UploadOK

LEMMA UploadErrorStep ==
  ASSUME IInv, NEW u \in up, UploadError(u) PROVE IInv'
  <1>1. u \in UploadCall BY DEF IInv, TypeOK
  <1>2. PICK v : v = [u EXCEPT !.st = "error", !.todo = {}, !.got = {}] OBVIOUS
  <1>3. /\ v \in UploadCall /\ v.call = u.call /\ v.chunk = u.chunk /\ v.got = {} /\ v.todo = {}
        /\ v.st = "error"
    BY <1>1, <1>2 DEF UploadCall
  <1> QED BY <1>2, <1>3, UploadEnds DEF UploadError

LEMMA GotFacts ==
  ASSUME IInv, NEW u \in up, NEW g \in u.got
  PROVE  /\ u \in UploadCall /\ g[1] \in Shards /\ g[2] \in Nat
         /\ g[2] \in stored /\ g[2] \in 1 .. Len(shards) /\ Len(shards) \in Nat
  <1>1. u \in UploadCall /\ stored \subseteq 1 .. Len(shards) /\ shards \in Seq(AllHosts)
    BY DEF IInv, TypeOK
  <1>2. g \in Shards \X Nat BY <1>1 DEF UploadCall
  <1>3. g[2] \in stored BY DEF IInv, Unrecorded
  <1> QED BY <1>1, <1>2, <1>3

(* The new shard has an id that nobody knows. *)
LEMMA StoreShardStep ==
  ASSUME IInv, NEW u \in up, StoreShard(u) PROVE IInv'
  <1> DEFINE n == Len(shards) + 1
  <1>1. PICK i \in u.todo, h \in u.hosts :
          /\ AddShard(h)
          /\ stored' = stored \cup {n}
          /\ Update(u, [u EXCEPT !.todo = @ \ {i}, !.hosts = @ \ {h}, !.got = @ \cup {<<i, n>>}])
    BY DEF StoreShard
  <1>2. u.st = "running" /\ UNCHANGED <<blobs, chunks, refs, set, call, garbage, whole>>
    BY DEF StoreShard
  <1>3. /\ u \in UploadCall /\ shards \in Seq(AllHosts) /\ stored \subseteq 1 .. Len(shards)
        /\ chunks \in Seq(Chunk)
    BY DEF IInv, TypeOK
  <1>4. i \in Shards /\ h \in AllHosts BY <1>3 DEF UploadCall
  <1>5. Len(shards) \in Nat /\ n \in Nat BY <1>3
  <1>6. shards' \in Seq(AllHosts) /\ Len(shards') = n BY <1>1, <1>3, <1>4 DEF AddShard
  <1>7. PICK v : v = [u EXCEPT !.todo = @ \ {i}, !.hosts = @ \ {h}, !.got = @ \cup {<<i, n>>}]
    OBVIOUS
  <1>8. /\ v.call = u.call /\ v.chunk = u.chunk /\ v.todo = u.todo \ {i}
        /\ v.got = u.got \cup {<<i, n>>} /\ v.st = u.st /\ v.hosts = u.hosts \ {h}
    BY <1>3, <1>7 DEF UploadCall
  <1>9. <<i, n>> \in Shards \X Nat BY <1>4, <1>5
  <1>10. v \in UploadCall
    <2>1. v.todo \subseteq Shards /\ v.hosts \subseteq AllHosts /\ v.got \subseteq Shards \X Nat
      BY <1>3, <1>8, <1>9 DEF UploadCall
    <2> QED BY <1>3, <1>7, <1>8, <2>1 DEF UploadCall
  <1>11. up' = (up \ {u}) \cup {v} /\ Update(u, v) BY <1>1, <1>7 DEF Update
  <1> HIDE DEF n
  <1>12. n \notin 0 .. Len(shards) /\ \A s \in 1 .. n : s # n => s \in 1 .. Len(shards)
    BY <1>5 DEF n
  <1>13. Grows BY <1>2, SameChunks
  <1>14. Recorded'
    <2>1. 0 .. Len(shards) \subseteq 0 .. Len(shards') BY <1>5, <1>6 DEF n
    <2> QED BY <1>2, <2>1 DEF IInv, Recorded, ChunkIds
  <1>15. Unrecorded'
    <2>1. \A w \in up : \A g \in w.got : g[2] # n BY <1>12, <1>5, GotFacts
    <2>2. ~bolt => n \notin DOMAIN refs BY <1>12 DEF IInv, Counted
    <2>3. \A k \in ChunkIds, j \in Shards : chunks[k].shards[j] # n
      BY <1>12 DEF IInv, Recorded
    <2>4. \A w \in up' : \A g \in w.got :
            \/ w # v /\ w \in up /\ g[2] # n
            \/ w = v /\ g \in u.got /\ g[2] # n
            \/ w = v /\ g = <<i, n>> /\ g[2] = n
      BY <1>8, <1>11, <2>1
    <2>5. ASSUME NEW w \in up', NEW g \in w.got
          PROVE  /\ g[2] \in stored'
                 /\ ~bolt => g[2] \notin DOMAIN refs
                 /\ \A k \in ChunkIds, j \in Shards : chunks[k].shards[j] # g[2]
      <3>1. CASE g[2] = n BY <1>1, <2>2, <2>3, <3>1
      <3>2. CASE g[2] # n BY <1>1, <2>4, <3>2 DEF IInv, Unrecorded
      <3> QED BY <3>1, <3>2
    <2>6. ASSUME NEW w \in up', NEW x \in up', NEW g \in w.got, NEW f \in x.got, g[2] = f[2]
          PROVE  w = x /\ g = f
      <3>1. CASE g[2] = n BY <2>4, <2>6, <3>1
      <3>2. CASE g[2] # n
        <4>1. \A y, z \in up : \A a \in y.got, b \in z.got : a[2] = b[2] => y = z /\ a = b
          BY DEF IInv, Unrecorded
        <4>2. CASE w = v /\ x = v BY <2>4, <2>6, <3>2, <4>1, <4>2
        <4>3. CASE w = v /\ x # v
          <5>1. g \in u.got /\ f \in x.got /\ x \in up /\ x # u BY <1>11, <2>4, <2>6, <3>2, <4>3
          <5> QED BY <2>6, <4>1, <5>1
        <4>4. CASE w # v /\ x = v
          <5>1. f \in u.got /\ g \in w.got /\ w \in up /\ w # u BY <1>11, <2>4, <2>6, <3>2, <4>4
          <5> QED BY <2>6, <4>1, <5>1
        <4>5. CASE w # v /\ x # v BY <1>11, <2>6, <4>1, <4>5
        <4> QED BY <4>2, <4>3, <4>4, <4>5
      <3> QED BY <3>1, <3>2
    <2> QED BY <1>2, <2>5, <2>6 DEF Unrecorded, ChunkIds, bolt
  <1>16. Counted'
    <2>1. \A k : Live(k)' => Live(k) BY <1>2, <1>8, <1>11, UploadLive
    <2>2. bolt => stored' = 1 .. Len(shards')
      BY <1>1, <1>5, <1>6 DEF IInv, Counted, n
    <2>3. ~bolt => DOMAIN refs \subseteq 0 .. Len(shards')
      BY <1>5, <1>6 DEF IInv, Counted, n
    <2>4. ~bolt => \A s \in 1 .. Len(shards') : s \notin stored' => s \in DOMAIN refs /\ refs[s] <= 0
      BY <1>1, <1>6, <1>12 DEF IInv, Counted
    <2> QED BY <1>2, <2>1, <2>2, <2>3, <2>4 DEF IInv, Counted, ChunkIds, bolt, Ref
  <1>17. stored' \subseteq 1 .. Len(shards') BY <1>1, <1>3, <1>5, <1>6 DEF n
  <1>18. \A j \in Shards :
           j \in v.todo \/ (\E g \in v.got : g[1] = j) \/ chunks'[v.chunk].shards[j] # 0
    <2> TAKE j \in Shards
    <2>1. j \in u.todo \/ (\E g \in u.got : g[1] = j) \/ chunks[u.chunk].shards[j] # 0
      BY <1>2 DEF IInv, UploadInv
    <2>2. CASE j = i
      <3>1. <<i, n>> \in v.got /\ <<i, n>>[1] = i BY <1>8
      <3> QED BY <2>2, <3>1
    <2>3. CASE j # i BY <1>2, <1>8, <2>1, <2>3
    <2> QED BY <2>2, <2>3
  <1>19. v.st # "ok" BY <1>2, <1>8
  <1> QED BY <1>2, <1>3, <1>6, <1>8, <1>10, <1>11, <1>13, <1>14, <1>15, <1>16, <1>17, <1>18, <1>19,
             UploadStep

LEMMA SetShardFacts ==
  ASSUME IInv, NEW k \in ChunkIds, NEW i \in Shards, NEW s \in Nat,
         chunks' = [chunks EXCEPT ![k].shards[i] = s]
  PROVE  /\ chunks' \in Seq(Chunk) /\ Len(chunks') = Len(chunks)
         /\ \A l \in ChunkIds : chunks'[l].part = chunks[l].part
         /\ \A l \in ChunkIds, j \in Shards :
              chunks'[l].shards[j] = IF l = k /\ j = i THEN s ELSE chunks[l].shards[j]
  <1>1. chunks \in Seq(Chunk) /\ k \in 1 .. Len(chunks) BY DEF IInv, TypeOK, ChunkIds
  <1>2. PICK new : new = [chunks[k] EXCEPT !.shards[i] = s] OBVIOUS
  <1>3. chunks[k] \in Chunk BY <1>1
  <1>4. /\ new \in Chunk /\ new.part = chunks[k].part
        /\ \A j \in Shards : new.shards[j] = IF j = i THEN s ELSE chunks[k].shards[j]
    BY <1>2, <1>3 DEF Chunk
  <1>5. chunks' = [chunks EXCEPT ![k] = new] BY <1>1, <1>2
  <1>6. chunks' \in Seq(Chunk) /\ Len(chunks') = Len(chunks) BY <1>1, <1>4, <1>5
  <1>7. \A l \in ChunkIds : chunks'[l] = IF l = k THEN new ELSE chunks[l]
    BY <1>1, <1>5 DEF ChunkIds
  <1>8. \A l \in ChunkIds : chunks'[l].part = chunks[l].part BY <1>4, <1>7
  <1>9. ASSUME NEW l \in ChunkIds, NEW j \in Shards
        PROVE  chunks'[l].shards[j] = IF l = k /\ j = i THEN s ELSE chunks[l].shards[j]
    <2>1. CASE l = k BY <1>4, <1>7, <2>1
    <2>2. CASE l # k BY <1>7, <2>2
    <2> QED BY <2>1, <2>2
  <1> QED BY <1>6, <1>8, <1>9

(* A shard is counted once it is recorded; the one it replaces is counted  *)
(* no more, and no other chunk has that one.                               *)
LEMMA RecordShardStep ==
  ASSUME IInv, NEW u \in up, RecordShard(u) PROVE IInv'
  <1>1. PICK g \in u.got : /\ SetChunkShard(u.chunk, g[1], g[2])
                           /\ Update(u, [u EXCEPT !.got = @ \ {g}])
    BY DEF RecordShard
  <1>2. u.st = "running" /\ UNCHANGED <<blobs, shards, stored, set, call, garbage, whole>>
    BY DEF RecordShard
  <1>3. PICK i, s, k : i = g[1] /\ s = g[2] /\ k = u.chunk OBVIOUS
  <1>4. PICK old : old = chunks[k].shards[i] OBVIOUS
  <1>5. /\ u \in UploadCall /\ i \in Shards /\ s \in Nat /\ s \in stored
        /\ s \in 1 .. Len(shards) /\ Len(shards) \in Nat /\ s # 0
    BY <1>3, GotFacts
  <1>6. k \in ChunkIds BY <1>3 DEF IInv, UploadInv
  <1>7. /\ ~bolt => s \notin DOMAIN refs
        /\ \A l \in ChunkIds, j \in Shards : chunks[l].shards[j] # s
    BY <1>3 DEF IInv, Unrecorded
  <1>8. /\ chunks' = [chunks EXCEPT ![k].shards[i] = s]
        /\ bolt => refs' = refs
        /\ ~bolt => refs' = Count(Count(refs, old, -1), s, 1)
    BY <1>1, <1>3, <1>4 DEF SetChunkShard
  <1>9. /\ chunks' \in Seq(Chunk) /\ Len(chunks') = Len(chunks)
        /\ \A l \in ChunkIds : chunks'[l].part = chunks[l].part
        /\ \A l \in ChunkIds, j \in Shards :
             chunks'[l].shards[j] = IF l = k /\ j = i THEN s ELSE chunks[l].shards[j]
    BY <1>5, <1>6, <1>8, SetShardFacts
  <1>10. ChunkIds' = ChunkIds BY <1>9 DEF ChunkIds
  <1>11. Grows BY <1>5, <1>9, <1>10 DEF Grows, ChunkIds
  <1>12. PICK v : v = [u EXCEPT !.got = @ \ {g}] OBVIOUS
  <1>13. /\ v \in UploadCall /\ v.call = u.call /\ v.chunk = u.chunk /\ v.todo = u.todo
         /\ v.got = u.got \ {g} /\ v.st = u.st
    BY <1>5, <1>12 DEF UploadCall
  <1>14. up' = (up \ {u}) \cup {v} /\ Update(u, v) BY <1>1, <1>12 DEF Update
  <1>15. old \in 0 .. Len(shards) /\ old # s BY <1>4, <1>5, <1>6, <1>7 DEF IInv, Recorded
  <1>16. \A l \in ChunkIds, j \in Shards :
           (l # k \/ j # i) /\ chunks[l].shards[j] # 0 => chunks[l].shards[j] # old
    BY <1>4, <1>5, <1>6 DEF IInv, Recorded
  <1>17. Recorded'
    <2>1. \A l \in ChunkIds, j \in Shards : chunks'[l].shards[j] \in 0 .. Len(shards)
      BY <1>5, <1>9 DEF IInv, Recorded
    <2>2. ASSUME NEW l \in ChunkIds, NEW m \in ChunkIds, NEW j \in Shards, NEW h \in Shards,
                 chunks'[l].shards[j] = chunks'[m].shards[h], chunks'[l].shards[j] # 0
          PROVE  l = m /\ j = h
      <3>1. CASE l = k /\ j = i BY <1>7, <1>9, <2>2, <3>1
      <3>2. CASE m = k /\ h = i BY <1>7, <1>9, <2>2, <3>2
      <3>3. CASE ~(l = k /\ j = i) /\ ~(m = k /\ h = i)
        <4>1. chunks[l].shards[j] = chunks[m].shards[h] /\ chunks[l].shards[j] # 0
          BY <1>9, <2>2, <3>3
        <4> QED BY <4>1 DEF IInv, Recorded
      <3> QED BY <3>1, <3>2, <3>3
    <2> QED BY <1>2, <1>10, <2>1, <2>2 DEF Recorded
  <1>18. ~bolt => /\ refs \in [DOMAIN refs -> Int] /\ DOMAIN refs \subseteq 0 .. Len(shards)
                  /\ 0 \in DOMAIN refs => refs[0] < 0
    BY DEF IInv, Counted
  <1>19. ~bolt =>
           /\ refs' \in [DOMAIN refs' -> Int]
           /\ DOMAIN refs' = DOMAIN refs \cup {old, s}
           /\ refs'[s] = 1 /\ refs'[old] = Ref(refs, old) - 1
           /\ \A t \in DOMAIN refs : t # s /\ t # old => refs'[t] = refs[t]
    <2> SUFFICES ASSUME ~bolt
                 PROVE  /\ refs' \in [DOMAIN refs' -> Int]
                        /\ DOMAIN refs' = DOMAIN refs \cup {old, s}
                        /\ refs'[s] = 1 /\ refs'[old] = Ref(refs, old) - 1
                        /\ \A t \in DOMAIN refs : t # s /\ t # old => refs'[t] = refs[t]
      OBVIOUS
    <2>1. PICK r : r = Count(refs, old, -1) OBVIOUS
    <2>2. /\ DOMAIN r = DOMAIN refs \cup {old} /\ r \in [DOMAIN r -> Int]
          /\ r[old] = Ref(refs, old) - 1
          /\ \A t \in DOMAIN refs : t # old => r[t] = refs[t]
      <3>2. Ref(refs, old) \in Int BY <1>18 DEF Ref
      <3>3. refs \in [DOMAIN refs -> Int] BY <1>18
      <3>4. /\ DOMAIN Count(refs, old, -1) = DOMAIN refs \cup {old}
            /\ Count(refs, old, -1) \in [DOMAIN refs \cup {old} -> Int]
            /\ Count(refs, old, -1)[old] = Ref(refs, old) + (-1)
            /\ \A t \in DOMAIN refs : t # old => Count(refs, old, -1)[t] = refs[t]
        BY <3>2, <3>3 DEF Count
      <3> QED BY <2>1, <3>2, <3>4
    <2>3. Ref(r, s) = 0 BY <1>7, <1>15, <2>2 DEF Ref
    <2>4. refs' = Count(r, s, 1) BY <1>8, <2>1
    <2>5. /\ DOMAIN refs' = DOMAIN r \cup {s} /\ refs' \in [DOMAIN r \cup {s} -> Int]
          /\ refs'[s] = 1 /\ \A t \in DOMAIN r : t # s => refs'[t] = r[t]
      <3>2. /\ DOMAIN Count(r, s, 1) = DOMAIN r \cup {s}
            /\ Count(r, s, 1) \in [DOMAIN r \cup {s} -> Int]
            /\ Count(r, s, 1)[s] = Ref(r, s) + 1
            /\ \A t \in DOMAIN r : t # s => Count(r, s, 1)[t] = r[t]
        BY <2>2, <2>3 DEF Count
      <3> QED BY <2>3, <2>4, <3>2
    <2> QED BY <1>15, <2>2, <2>5
  <1>20. bolt' <=> bolt
    <2>1. ~bolt => s \in DOMAIN refs' BY <1>19
    <2>2. s \notin DOMAIN NoRefs BY <1>5 DEF NoRefs
    <2> QED BY <1>8, <2>1, <2>2 DEF bolt
  <1>21. Unrecorded'
    <2>1. \A w \in up' : \A f \in w.got : \E x \in up : f \in x.got /\ f # g /\ (w = x \/ (w = v /\ x = u))
      <3> SUFFICES ASSUME NEW w \in up', NEW f \in w.got
                   PROVE  \E x \in up : f \in x.got /\ f # g /\ (w = x \/ (w = v /\ x = u))
        OBVIOUS
      <3>1. CASE w = v BY <1>13, <3>1
      <3>2. CASE w # v
        <4>1. w \in up /\ w # u BY <1>14, <3>2
        <4>2. f # g BY <4>1 DEF IInv, Unrecorded
        <4> QED BY <4>1, <4>2
      <3> QED BY <3>1, <3>2
    <2>2. \A x, y \in up : \A a \in x.got, b \in y.got : a[2] = b[2] => x = y /\ a = b
      BY DEF IInv, Unrecorded
    <2>3. ASSUME NEW w \in up', NEW f \in w.got
          PROVE  /\ f[2] \in stored
                 /\ ~bolt => f[2] \notin DOMAIN refs'
                 /\ \A l \in ChunkIds, j \in Shards : chunks'[l].shards[j] # f[2]
      <3>1. PICK x \in up : f \in x.got /\ f # g BY <2>1
      <3>2. /\ f[2] \in stored
            /\ ~bolt => f[2] \notin DOMAIN refs
            /\ \A l \in ChunkIds, j \in Shards : chunks[l].shards[j] # f[2]
        BY <3>1 DEF IInv, Unrecorded
      <3>3. f[2] # s BY <1>3, <2>2, <3>1
      <3>4. f[2] # old BY <1>4, <1>5, <1>6, <3>2
      <3>5. ~bolt => f[2] \notin DOMAIN refs' BY <1>19, <3>2, <3>3, <3>4
      <3>6. \A l \in ChunkIds, j \in Shards : chunks'[l].shards[j] # f[2] BY <1>9, <3>2, <3>3
      <3> QED BY <3>2, <3>5, <3>6
    <2>4. ASSUME NEW w \in up', NEW x \in up', NEW a \in w.got, NEW b \in x.got, a[2] = b[2]
          PROVE  w = x /\ a = b
      <3>1. PICK y \in up : a \in y.got /\ (w = y \/ (w = v /\ y = u)) BY <2>1
      <3>2. PICK z \in up : b \in z.got /\ (x = z \/ (x = v /\ z = u)) BY <2>1
      <3>3. y = z /\ a = b BY <2>2, <2>4, <3>1, <3>2
      <3>4. u \in up' => u = v BY <1>14
      <3> QED BY <3>1, <3>2, <3>3, <3>4
    <2> QED BY <1>2, <1>10, <1>20, <2>3, <2>4 DEF Unrecorded
  <1>22. Counted'
    <2>1. CASE bolt BY <1>2, <1>20, <2>1 DEF IInv, Counted
    <2>2. CASE ~bolt
      <3>1. DOMAIN refs' \subseteq 0 .. Len(shards) BY <1>5, <1>15, <1>18, <1>19, <2>2
      <3>2. 0 \in DOMAIN refs' => refs'[0] < 0
        <4>1. CASE old = 0 BY <1>5, <1>18, <1>19, <2>2, <4>1 DEF Ref
        <4>2. CASE old # 0 BY <1>5, <1>18, <1>19, <2>2, <4>2
        <4> QED BY <4>1, <4>2
      <3>3. ASSUME NEW l \in ChunkIds, NEW j \in Shards, Live(l)', chunks'[l].shards[j] # 0
            PROVE  Ref(refs', chunks'[l].shards[j]) > 0
        <4>1. CASE l = k /\ j = i BY <1>9, <1>19, <2>2, <4>1 DEF Ref
        <4>2. CASE ~(l = k /\ j = i)
          <5>1. chunks'[l].shards[j] = chunks[l].shards[j] BY <1>9, <4>2
          <5>2. Live(l) BY <1>2, <1>13, <1>14, <3>3, UploadLive
          <5>3. Ref(refs, chunks[l].shards[j]) > 0 BY <2>2, <3>3, <5>1, <5>2 DEF IInv, Counted
          <5>4. chunks[l].shards[j] \in DOMAIN refs BY <5>3 DEF Ref
          <5>5. chunks[l].shards[j] # old /\ chunks[l].shards[j] # s
            BY <1>7, <1>16, <3>3, <4>2, <5>1
          <5> QED BY <1>19, <2>2, <5>1, <5>3, <5>4, <5>5 DEF Ref
        <4> QED BY <4>1, <4>2
      <3>4. ASSUME NEW t \in DOMAIN refs, refs[t] <= 0
            PROVE  t \in DOMAIN refs' /\ refs'[t] <= 0
        <4>1. t # s BY <1>7, <2>2
        <4>2. refs[t] \in Int BY <1>18, <2>2
        <4>3. CASE t = old BY <1>19, <2>2, <3>4, <4>2, <4>3 DEF Ref
        <4>4. CASE t # old BY <1>19, <2>2, <3>4, <4>1, <4>4
        <4> QED BY <4>3, <4>4
      <3>5. \A t \in 1 .. Len(shards) : t \notin stored => t \in DOMAIN refs' /\ refs'[t] <= 0
        BY <2>2, <3>4 DEF IInv, Counted
      <3>6. \A c \in Calls : \A t \in garbage[c] : t # 0 /\ t \in DOMAIN refs' /\ refs'[t] <= 0
        BY <2>2, <3>4 DEF IInv, Counted
      <3> QED BY <1>2, <1>10, <1>19, <1>20, <2>2, <3>1, <3>2, <3>3, <3>5, <3>6 DEF Counted
    <2> QED BY <2>1, <2>2
  <1>23. \A j \in Shards :
           j \in v.todo \/ (\E f \in v.got : f[1] = j) \/ chunks'[v.chunk].shards[j] # 0
    <2> TAKE j \in Shards
    <2>1. j \in u.todo \/ (\E f \in u.got : f[1] = j) \/ chunks[k].shards[j] # 0
      BY <1>2, <1>3 DEF IInv, UploadInv
    <2>2. CASE j = i BY <1>3, <1>5, <1>6, <1>9, <1>13, <2>2
    <2>3. CASE j # i
      <3>1. chunks'[v.chunk].shards[j] = chunks[k].shards[j] BY <1>3, <1>6, <1>9, <1>13, <2>3
      <3> QED BY <1>3, <1>13, <2>1, <2>3, <3>1
    <2> QED BY <2>2, <2>3
  <1>24. v.st # "ok" BY <1>2, <1>13
  <1>25. shards' \in Seq(AllHosts) /\ stored' \subseteq 1 .. Len(shards')
    BY <1>2 DEF IInv, TypeOK
  <1> QED BY <1>2, <1>9, <1>11, <1>13, <1>14, <1>17, <1>21, <1>22, <1>23, <1>24, <1>25, UploadStep

-----------------------------------------------------------------------------
(* Garbage collection. *)

LEMMA GCStep ==
  ASSUME IInv, NEW c \in Calls, GC(c) PROVE IInv'
  <1>1. /\ call[c].op = "idle" /\ Becomes(c, "gc") /\ UNCHANGED <<db, stored, set, up, whole>>
        /\ garbage' = [garbage EXCEPT ![c] = UnreferencedSectors]
    BY DEF GC, Running
  <1>2. call \in [Calls -> CallState] /\ call[c] \in CallState /\ garbage \in [Calls -> SUBSET Nat]
    BY DEF IInv, TypeOK
  <1>3. call'[c] = [call[c] EXCEPT !.op = "gc"] /\ \A d \in Calls \ {c} : call'[d] = call[d]
    BY <1>1, <1>2 DEF Becomes
  <1>4. call'[c] \in CallState /\ call'[c].op = "gc" /\ call'[c].key = call[c].key
    BY <1>2, <1>3 DEF CallState
  <1>5. call' \in [Calls -> CallState] BY <1>1, <1>2, <1>4 DEF Becomes
  <1>6. call[c].key = NoKey BY <1>1 DEF IInv, CallInv, Busy, Active
  <1>7. CallInv(c)' BY <1>4, <1>6 DEF CallInv, Busy, Active, Working
  <1>8. bolt => UnreferencedSectors = {} BY DEF UnreferencedSectors
  <1>9. ~bolt => \A s \in UnreferencedSectors : s # 0 /\ s \in DOMAIN refs /\ refs[s] <= 0
    BY DEF UnreferencedSectors, IInv, Counted
  <1>10. UnreferencedSectors \subseteq Nat
    <2>1. Len(shards) \in Nat BY DEF IInv, TypeOK
    <2>2. ~bolt => DOMAIN refs \subseteq 0 .. Len(shards) BY DEF IInv, Counted
    <2> QED BY <1>8, <1>9, <2>1, <2>2
  <1>11. /\ garbage' \in [Calls -> SUBSET Nat] /\ garbage'[c] = UnreferencedSectors
         /\ \A d \in Calls \ {c} : garbage'[d] = garbage[d]
    BY <1>1, <1>2, <1>10
  <1>12. TypeOK' BY <1>1, <1>5, <1>11 DEF IInv, TypeOK, db
  <1>13. Unrecorded' BY <1>1 DEF IInv, Unrecorded, ChunkIds, bolt, db
  <1>14. \A k : Live(k)' <=> Live(k) BY <1>1 DEF Live, InBlob, db
  <1>15. Counted'
    <2>1. bolt => \A d \in Calls : garbage'[d] = {} BY <1>8, <1>11 DEF IInv, Counted
    <2>2. ~bolt => \A d \in Calls : \A s \in garbage'[d] : s # 0 /\ s \in DOMAIN refs /\ refs[s] <= 0
      BY <1>9, <1>11 DEF IInv, Counted
    <2> QED BY <1>1, <1>14, <2>1, <2>2 DEF IInv, Counted, ChunkIds, bolt, Ref, db
  <1>16. WholeInv' BY <1>1, SameWhole DEF IInv, db
  <1>17. Uploads(c) = {} BY <1>1, NotBusy DEF Busy, Active
  <1> QED BY <1>1, <1>3, <1>7, <1>12, <1>13, <1>15, <1>16, <1>17, CallStep DEF db, Uploads

LEMMA DeleteSectorsStep ==
  ASSUME IInv, NEW c \in Calls, NEW h, DeleteSectors(c, h) PROVE IInv'
  <1>1. PICK here : here = {s \in garbage[c] : shards[s] = h} OBVIOUS
  <1>2. /\ call[c].op = "gc" /\ here # {} /\ stored' = stored \ here
        /\ garbage' = [garbage EXCEPT ![c] = @ \ here] /\ UNCHANGED <<db, set, call, up, whole>>
    BY <1>1 DEF DeleteSectors, Running
  <1>3. garbage \in [Calls -> SUBSET Nat] BY DEF IInv, TypeOK
  <1>4. ~bolt /\ \A s \in here : s \in DOMAIN refs /\ refs[s] <= 0
    BY <1>1, <1>2 DEF IInv, Counted
  <1>5. garbage' \in [Calls -> SUBSET Nat] /\ \A d \in Calls : garbage'[d] \subseteq garbage[d]
    BY <1>2, <1>3
  <1>6. TypeOK' BY <1>2, <1>5 DEF IInv, TypeOK, db
  <1>7. Unrecorded'
    <2>1. \A u \in up : \A g \in u.got : g[2] \in stored /\ g[2] \notin DOMAIN refs
      BY <1>4 DEF IInv, Unrecorded
    <2>2. \A u \in up : \A g \in u.got : g[2] \in stored' BY <1>2, <1>4, <2>1
    <2> QED BY <1>2, <2>2 DEF IInv, Unrecorded, ChunkIds, bolt, db
  <1>8. Counted'
    <2>1. \A k : Live(k)' <=> Live(k) BY <1>2 DEF Live, InBlob, db
    <2>2. \A s \in 1 .. Len(shards) : s \notin stored' => s \in DOMAIN refs /\ refs[s] <= 0
      BY <1>2, <1>4 DEF IInv, Counted
    <2>3. \A d \in Calls : \A s \in garbage'[d] : s # 0 /\ s \in DOMAIN refs /\ refs[s] <= 0
      BY <1>4, <1>5 DEF IInv, Counted
    <2> QED BY <1>2, <1>4, <2>1, <2>2, <2>3 DEF IInv, Counted, ChunkIds, bolt, Ref, db
  <1>9. WholeInv' BY <1>2, SameWhole DEF IInv, db
  <1>10. CallInv(c)'
    <2>1. CallInv(c) BY DEF IInv
    <2> QED BY <1>2, <2>1, KeyKept DEF CallInv, Busy, Active, Working, db
  <1>11. Uploads(c) = {} BY <1>2, NotBusy DEF Busy, Active
  <1> QED BY <1>2, <1>6, <1>7, <1>8, <1>9, <1>10, <1>11, CallStep DEF db, Uploads

LEMMA GCErrorStep ==
  ASSUME IInv, NEW c \in Calls, GCError(c) PROVE IInv'
  <1>1. /\ call[c].op = "gc" /\ garbage' = [garbage EXCEPT ![c] = {}] /\ Finish(c)
        /\ UNCHANGED <<db, stored, set, up, whole>>
    BY DEF GCError, Running
  <1>2. garbage \in [Calls -> SUBSET Nat] /\ call \in [Calls -> CallState] BY DEF IInv, TypeOK
  <1>3. Idle \in CallState BY DEF Idle, CallState
  <1>4. call' \in [Calls -> CallState] /\ call'[c] = Idle /\ \A d \in Calls \ {c} : call'[d] = call[d]
    BY <1>1, <1>2, <1>3 DEF Finish
  <1>5. garbage' \in [Calls -> SUBSET Nat] /\ \A d \in Calls : garbage'[d] \subseteq garbage[d]
    BY <1>1, <1>2
  <1>6. TypeOK' BY <1>1, <1>4, <1>5 DEF IInv, TypeOK, db
  <1>7. Unrecorded' BY <1>1 DEF IInv, Unrecorded, ChunkIds, bolt, db
  <1>8. Counted'
    <2>1. \A k : Live(k)' <=> Live(k) BY <1>1 DEF Live, InBlob, db
    <2>2. bolt => \A d \in Calls : garbage'[d] = {} BY <1>5 DEF IInv, Counted
    <2>3. ~bolt => \A d \in Calls : \A s \in garbage'[d] : s # 0 /\ s \in DOMAIN refs /\ refs[s] <= 0
      BY <1>5 DEF IInv, Counted
    <2> QED BY <1>1, <2>1, <2>2, <2>3 DEF IInv, Counted, ChunkIds, bolt, Ref, db
  <1>9. WholeInv' BY <1>1, SameWhole DEF IInv, db
  <1>10. CallInv(c)' BY <1>4 DEF CallInv, Idle, Busy, Active, Working
  <1>11. Uploads(c) = {} BY <1>1, NotBusy DEF Busy, Active
  <1> QED BY <1>1, <1>4, <1>6, <1>7, <1>8, <1>9, <1>10, <1>11, CallStep DEF db, Uploads

(* Which hosts are in the set matters to no invariant. *)
LEMMA SetStep ==
  ASSUME IInv, set' \subseteq AllHosts, UNCHANGED <<db, stored, call, up, garbage, whole>>
  PROVE  IInv'
  <1>1. TypeOK' BY DEF IInv, TypeOK, db
  <1>2. Recorded' /\ Unrecorded' BY DEF IInv, Recorded, Unrecorded, ChunkIds, bolt, db
  <1>3. \A k : Live(k)' <=> Live(k) BY DEF Live, InBlob, db
  <1>4. Counted' BY <1>3 DEF IInv, Counted, ChunkIds, bolt, Ref, db
  <1>5. BlobsApart' /\ WholeInv' BY SameWhole DEF IInv, BlobsApart, ChunkIds, db
  <1>6. ASSUME NEW u \in up PROVE UploadInv(u)'
    <2>1. UploadInv(u) BY DEF IInv
    <2> QED BY <2>1 DEF UploadInv, ChunkIds, InBlob, db
  <1>7. ASSUME NEW c \in Calls PROVE CallInv(c)'
    <2>1. CallInv(c) /\ TypeOK /\ BlobsApart BY DEF IInv
    <2>2. Grows BY SameChunks DEF db
    <2>3. Uploads(c)' = Uploads(c) /\ \A u \in Uploads(c) : u.chunk \in ChunkIds
      BY DEF Uploads, IInv, UploadInv
    <2>4. \A d \in Calls : call'[d].key = call[c].key /\ call[c].key # NoKey => d = c
      BY <2>1 DEF CallInv
    <2>5. call[c].op = "update" => \A u \in Uploads(c), key \in Keys : ~InBlob(key, u.chunk)'
      BY <2>1 DEF CallInv, InBlob, db
    <2>6. call[c].op \in Working => \A u, v \in Uploads(c)' : u = v BY <2>1, <2>3 DEF CallInv
    <2>7. blobs' = blobs /\ call'[c] = call[c] BY DEF db
    <2> QED BY <2>1, <2>2, <2>3, <2>4, <2>5, <2>6, <2>7, CallKept
  <1> QED BY <1>1, <1>2, <1>4, <1>5, <1>6, <1>7 DEF IInv

-----------------------------------------------------------------------------
(* A blob that is emptied or deleted while no call has its key. *)

LEMMA BlobGone ==
  ASSUME IInv, NEW key \in Keys, \A d \in Calls : call[d].key # key,
         NEW b \in {<< >>, NoBlob}, blobs' = [blobs EXCEPT ![key] = b],
         whole' = whole \ {key}, UNCHANGED <<chunks, shards, up>>,
         \A d \in Calls : call'[d] = call[d] \/ (call[d].op \notin Busy /\ call'[d].key = key)
  PROVE  /\ blobs' \in [Keys -> Seq(Nat)]
         /\ Recorded' /\ BlobsApart' /\ WholeInv'
         /\ \A k : k # 0 /\ Live(k)' => Live(k)
         /\ \A u \in up' : UploadInv(u)'
         /\ \A d \in Calls : call'[d] = call[d] => CallInv(d)'
  <1>1. blobs \in [Keys -> Seq(Nat)] BY DEF IInv, TypeOK
  <1>2. b \in Seq(Nat)
    <2>1. << >> \in Seq(Nat) /\ <<0>> \in Seq(Nat) OBVIOUS
    <2> QED BY <2>1 DEF NoBlob
  <1>3. /\ blobs' \in [Keys -> Seq(Nat)] /\ blobs'[key] = b
        /\ \A l \in Keys : l # key => blobs'[l] = blobs[l]
    BY <1>1, <1>2
  <1>4. \A j \in 1 .. Len(b) : b[j] = 0
    <2>1. Len(<< >>) = 0 /\ Len(<<0>>) = 1 /\ <<0>>[1] = 0 OBVIOUS
    <2>2. CASE b = << >> BY <2>1, <2>2
    <2>3. CASE b = NoBlob BY <2>1, <2>3 DEF NoBlob
    <2> QED BY <2>2, <2>3
  <1>5. \A l \in Keys : \A k : k # 0 /\ InBlob(l, k)' => InBlob(l, k) /\ l # key
    BY <1>3, <1>4 DEF InBlob
  <1>6. ChunkIds' = ChunkIds /\ Grows BY SameChunks DEF ChunkIds
  <1>7. Recorded' BY <1>6 DEF IInv, Recorded
  <1>8. BlobsApart'
    <2>1. BlobsApart BY DEF IInv
    <2>2. ASSUME NEW l \in Keys, blobs'[l] # NoBlob
          PROVE  /\ Len(blobs'[l]) <= Size
                 /\ \A j \in 1 .. Len(blobs'[l]) : blobs'[l][j] \in ChunkIds /\ chunks[blobs'[l][j]].part = j
      <3>1. CASE l = key
        <4>1. Len(<< >>) = 0 OBVIOUS
        <4> QED BY <1>3, <2>2, <3>1, <4>1, KVAssumption
      <3>2. CASE l # key BY <1>3, <2>1, <2>2, <3>2 DEF BlobsApart
      <3> QED BY <3>1, <3>2
    <2>3. ASSUME NEW l \in Keys, NEW m \in Keys, NEW i \in 1 .. Len(blobs'[l]), NEW j \in 1 .. Len(blobs'[m]),
                 blobs'[l][i] = blobs'[m][j], blobs'[l][i] # 0
          PROVE  l = m /\ i = j
      <3>1. l # key /\ m # key BY <1>3, <1>4, <2>3
      <3> QED BY <1>3, <2>1, <2>3, <3>1 DEF BlobsApart
    <2> QED BY <1>6, <2>2, <2>3 DEF BlobsApart
  <1>9. WholeInv'
    <2> SUFFICES ASSUME NEW l \in whole, l # key
                 PROVE  /\ blobs'[l] # NoBlob /\ Len(blobs'[l]) = Size
                        /\ \A j \in 1 .. Size : Complete(blobs[l][j])'
      BY DEF WholeInv, Complete
    <2>1. l \in Keys BY DEF IInv, TypeOK
    <2>2. blobs'[l] = blobs[l] BY <1>3, <2>1
    <2>3. /\ blobs[l] # NoBlob /\ Len(blobs[l]) = Size
          /\ \A j \in 1 .. Size : Complete(blobs[l][j])
      BY DEF IInv, WholeInv
    <2>4. \A j \in 1 .. Size : AllSet(chunks'[blobs'[l][j]].shards) BY <2>2, <2>3 DEF Complete
    <2> QED BY <2>2, <2>3, <2>4 DEF Complete
  <1>10. \A k : k # 0 /\ Live(k)' => Live(k)
    <2> SUFFICES ASSUME NEW k, k # 0, Live(k)' PROVE Live(k) OBVIOUS
    <2>1. CASE (\E l \in Keys : InBlob(l, k))'
      <3>1. PICK l \in Keys : InBlob(l, k)' BY <2>1
      <3> QED BY <1>5, <3>1 DEF Live
    <2>2. CASE \E u \in up' : u.chunk = k BY <2>2 DEF Live
    <2> QED BY <2>1, <2>2 DEF Live
  <1>11. ASSUME NEW u \in up PROVE UploadInv(u)'
    <2>1. UploadInv(u) /\ u.call \in Calls BY DEF IInv, TypeOK, UploadCall
    <2>2. call'[u.call] = call[u.call] BY <2>1 DEF UploadInv
    <2>3. u.chunk # 0 BY <2>1 DEF UploadInv, ChunkIds
    <2>4. \A l \in Keys : InBlob(l, u.chunk)' => l = call[u.call].key BY <1>5, <2>1, <2>3 DEF UploadInv
    <2>5. \A v \in up' : v.chunk = u.chunk => v.call = u.call BY <2>1 DEF UploadInv
    <2>6. call'[u.call].op \in Busy BY <2>1, <2>2 DEF UploadInv
    <2> QED BY <1>6, <2>1, <2>2, <2>4, <2>5, <2>6, UploadKept
  <1>12. ASSUME NEW d \in Calls, call'[d] = call[d] PROVE CallInv(d)'
    <2>1. CallInv(d) /\ TypeOK /\ BlobsApart BY DEF IInv
    <2>2. \A e \in Calls : call'[e].key = call[d].key /\ call[d].key # NoKey => e = d
      BY <2>1 DEF CallInv
    <2>3. call[d].op \in Active => blobs'[call[d].key] = blobs[call[d].key]
      BY <1>3, ActiveFacts
    <2>4. Uploads(d)' = Uploads(d) /\ \A u \in Uploads(d) : u.chunk \in ChunkIds
      BY DEF Uploads, IInv, UploadInv
    <2>5. call[d].op = "update" => \A u \in Uploads(d), l \in Keys : ~InBlob(l, u.chunk)'
      <3> SUFFICES ASSUME call[d].op = "update", NEW u \in Uploads(d), NEW l \in Keys
                   PROVE  ~InBlob(l, u.chunk)'
        OBVIOUS
      <3>1. u.chunk # 0 BY <2>4 DEF ChunkIds
      <3>2. ~InBlob(l, u.chunk) BY <2>1 DEF CallInv
      <3> QED BY <1>5, <3>1, <3>2
    <2>6. call[d].op \in Working => \A u, v \in Uploads(d)' : u = v BY <2>1, <2>4 DEF CallInv
    <2> QED BY <1>6, <1>12, <2>1, <2>2, <2>3, <2>4, <2>5, <2>6, CallKept
  <1> QED BY <1>3, <1>7, <1>8, <1>9, <1>10, <1>11, <1>12

LEMMA PutStep ==
  ASSUME IInv, Exclusive, NEW c \in Calls, Put(c) PROVE IInv'
  <1>1. PICK key \in Keys : /\ Begin(c, "upload", key, << >>)
                            /\ AddBlob(key, << >>)
                            /\ whole' = whole \ {key}
                            /\ UNCHANGED <<chunks, shards, refs, stored, set, up, garbage>>
    BY DEF Put
  <1>2. call \in [Calls -> CallState] BY DEF IInv, TypeOK
  <1>3. /\ call[c].op = "idle" /\ call[c].op \notin Busy /\ \A d \in Calls : call[d].key # key
    BY <1>1 DEF Begin, Running, Busy, Active
  <1>4. /\ call'[c] = [op |-> "upload", key |-> key, chunks |-> << >>,
                       at |-> 1, view |-> << >>, next |-> 1]
        /\ \A d \in Calls \ {c} : call'[d] = call[d]
    BY <1>1, <1>2 DEF Begin
  <1>5. call'[c] \in CallState BY <1>4 DEF CallState, Busy, Active
  <1>6. call' \in [Calls -> CallState] BY <1>1, <1>2, <1>5 DEF Begin
  <1>7. \A d \in Calls : call'[d] = call[d] \/ (call[d].op \notin Busy /\ call'[d].key = key)
    BY <1>3, <1>4
  <1>8. blobs' = [blobs EXCEPT ![key] = << >>] BY <1>1 DEF AddBlob
  <1>9. /\ blobs' \in [Keys -> Seq(Nat)] /\ Recorded' /\ BlobsApart' /\ WholeInv'
        /\ \A k : k # 0 /\ Live(k)' => Live(k)
        /\ \A u \in up' : UploadInv(u)'
        /\ \A d \in Calls : call'[d] = call[d] => CallInv(d)'
    BY <1>1, <1>3, <1>7, <1>8, BlobGone
  <1>10. TypeOK' BY <1>1, <1>6, <1>9 DEF IInv, TypeOK
  <1>11. Unrecorded' BY <1>1 DEF IInv, Unrecorded, ChunkIds, bolt
  <1>12. Counted'
    <2>1. \A k \in ChunkIds : Live(k)' => Live(k) BY <1>9 DEF ChunkIds
    <2> QED BY <1>1, <2>1 DEF IInv, Counted, ChunkIds, bolt, Ref
  <1>13. CallInv(c)'
    <2>1. key # NoKey BY KVAssumption
    <2>2. << >> # NoBlob
      <3>1. Len(<< >>) = 0 /\ Len(<<0>>) = 1 OBVIOUS
      <3> QED BY <3>1 DEF NoBlob
    <2>3. blobs'[key] = << >> BY <1>8 DEF IInv, TypeOK
    <2>4. Len(<< >>) = 0 OBVIOUS
    <2> QED BY <1>3, <1>4, <2>1, <2>2, <2>3, <2>4 DEF CallInv, Busy, Active, Working
  <1>14. \A d \in Calls : CallInv(d)' BY <1>4, <1>9, <1>13
  <1> QED BY <1>9, <1>10, <1>11, <1>12, <1>14 DEF IInv

LEMMA DroppedFacts ==
  ASSUME NEW cs \in Seq(Nat), NEW s
  PROVE  /\ Dropped(cs, s) \in Nat
         /\ s \notin DroppedIds(cs) => Dropped(cs, s) = 0
         /\ s \in DroppedIds(cs) => Dropped(cs, s) >= 1
  <1> DEFINE All == (1 .. Len(cs)) \X Shards
             These == {x \in All : chunks[cs[x[1]]].shards[x[2]] = s}
  <1>1. IsFiniteSet(1 .. Len(cs)) BY FS_Interval
  <1>2. IsFiniteSet(All) BY <1>1, ShardsNonempty, FS_Product
  <1>3. IsFiniteSet(These) BY <1>2, FS_Subset
  <1>4. Cardinality(These) \in Nat BY <1>3, FS_CardinalityType
  <1>5. Dropped(cs, s) = Cardinality(These) BY DEF Dropped
  <1>6. Cardinality(These) = 0 <=> These = {} BY <1>3, FS_EmptySet
  <1>7. s \notin DroppedIds(cs) => These = {} BY DEF DroppedIds
  <1>8. s \in DroppedIds(cs) => These # {}
    <2> SUFFICES ASSUME s \in DroppedIds(cs) PROVE These # {} OBVIOUS
    <2>1. PICK j \in 1 .. Len(cs), i \in Shards : s = chunks[cs[j]].shards[i] BY DEF DroppedIds
    <2>2. <<j, i>> \in All /\ <<j, i>>[1] = j /\ <<j, i>>[2] = i OBVIOUS
    <2> QED BY <2>1, <2>2
  <1> HIDE DEF These
  <1> QED BY <1>4, <1>5, <1>6, <1>7, <1>8

(* The shards of a blob that goes lose a reference; what is still live has *)
(* none of them.                                                           *)
LEMMA DeleteStep ==
  ASSUME IInv, Exclusive, NEW key \in Keys, Delete(key) PROVE IInv'
  <1> DEFINE gone == DroppedIds(blobs[key])
  <1>1. /\ blobs[key] # NoBlob /\ whole' = whole \ {key} /\ \A d \in Calls : call[d].key # key
        /\ UNCHANGED <<chunks, shards, stored, set, call, up, garbage>>
        /\ blobs' = [blobs EXCEPT ![key] = NoBlob]
        /\ bolt => refs' = refs
        /\ ~bolt => refs' = [s \in DOMAIN refs \cup gone |-> Ref(refs, s) - Dropped(blobs[key], s)]
    BY DEF Delete, DeleteBlob
  <1>2. blobs[key] \in Seq(Nat) /\ Len(shards) \in Nat BY DEF IInv, TypeOK
  <1>3. \A s : /\ Dropped(blobs[key], s) \in Nat
               /\ s \notin gone => Dropped(blobs[key], s) = 0
               /\ s \in gone => Dropped(blobs[key], s) >= 1
    BY <1>2, DroppedFacts
  <1>4. ASSUME NEW s \in gone
        PROVE  \E k \in ChunkIds, i \in Shards : s = chunks[k].shards[i] /\ InBlob(key, k)
    <2>1. PICK j \in 1 .. Len(blobs[key]), i \in Shards : s = chunks[blobs[key][j]].shards[i]
      BY DEF DroppedIds
    <2>2. blobs[key][j] \in ChunkIds BY <1>1 DEF IInv, BlobsApart
    <2>3. InBlob(key, blobs[key][j]) BY DEF InBlob
    <2> QED BY <2>1, <2>2, <2>3
  <1> HIDE DEF gone
  <1>5. /\ blobs' \in [Keys -> Seq(Nat)] /\ Recorded' /\ BlobsApart' /\ WholeInv'
        /\ \A k : k # 0 /\ Live(k)' => Live(k)
        /\ \A u \in up' : UploadInv(u)'
        /\ \A d \in Calls : call'[d] = call[d] => CallInv(d)'
    BY <1>1, BlobGone
  <1>6. TypeOK' BY <1>1, <1>5 DEF IInv, TypeOK
  <1>7. gone \subseteq 0 .. Len(shards) BY <1>4 DEF IInv, Recorded
  <1>8. ~bolt => /\ refs \in [DOMAIN refs -> Int] /\ DOMAIN refs \subseteq 0 .. Len(shards)
                 /\ 0 \in DOMAIN refs => refs[0] < 0
    BY DEF IInv, Counted
  <1>9. ~bolt => /\ DOMAIN refs' = DOMAIN refs \cup gone /\ refs' \in [DOMAIN refs' -> Int]
                 /\ \A s \in DOMAIN refs' : refs'[s] = Ref(refs, s) - Dropped(blobs[key], s)
    <2>1. ~bolt => \A s : Ref(refs, s) \in Int BY <1>8 DEF Ref
    <2> QED BY <1>1, <1>3, <2>1
  <1>10. bolt' <=> bolt
    <2>1. -1 \in DOMAIN NoRefs BY DEF NoRefs
    <2>2. ~bolt => -1 \notin DOMAIN refs' BY <1>2, <1>7, <1>8, <1>9
    <2> QED BY <1>1, <2>1, <2>2 DEF bolt
  <1>11. Unrecorded'
    <2>1. \A u \in up : \A g \in u.got : g[2] \notin gone BY <1>4 DEF IInv, Unrecorded
    <2> QED BY <1>1, <1>9, <1>10, <2>1 DEF IInv, Unrecorded, ChunkIds
  <1>12. ASSUME NEW k \in ChunkIds, NEW i \in Shards, Live(k)', chunks[k].shards[i] # 0
         PROVE  chunks[k].shards[i] \notin gone
    <2> SUFFICES ASSUME chunks[k].shards[i] \in gone PROVE FALSE OBVIOUS
    <2>1. PICK l \in ChunkIds, j \in Shards : chunks[k].shards[i] = chunks[l].shards[j] /\ InBlob(key, l)
      BY <1>4
    <2>2. k = l BY <1>12, <2>1 DEF IInv, Recorded
    <2>3. InBlob(key, k) /\ k # 0 BY <2>1, <2>2 DEF ChunkIds
    <2>4. CASE (\E m \in Keys : InBlob(m, k))'
      <3>1. PICK m \in Keys : InBlob(m, k)' BY <2>4
      <3>2. m # key
        <4>1. blobs[key] \in Seq(Nat) /\ blobs \in [Keys -> Seq(Nat)] BY DEF IInv, TypeOK
        <4>2. blobs'[key] = NoBlob BY <1>1, <4>1
        <4>3. Len(<<0>>) = 1 /\ <<0>>[1] = 0 OBVIOUS
        <4>4. ~InBlob(key, k)' BY <2>3, <4>2, <4>3 DEF InBlob, NoBlob
        <4> QED BY <3>1, <4>4
      <3>3. InBlob(m, k) BY <1>1, <3>1, <3>2 DEF InBlob, IInv, TypeOK
      <3> QED BY <2>3, <3>2, <3>3 DEF IInv, BlobsApart, InBlob
    <2>5. CASE \E u \in up' : u.chunk = k
      <3>1. PICK u \in up : u.chunk = k BY <1>1, <2>5
      <3>2. UploadInv(u) /\ u.call \in Calls BY DEF IInv, TypeOK, UploadCall
      <3>3. key = call[u.call].key BY <2>3, <3>1, <3>2 DEF UploadInv
      <3> QED BY <1>1, <3>2, <3>3
    <2> QED BY <1>12, <2>4, <2>5 DEF Live
  <1>13. Counted'
    <2>1. CASE bolt BY <1>1, <1>10, <2>1 DEF IInv, Counted
    <2>2. CASE ~bolt
      <3>1. 0 \in DOMAIN refs' => refs'[0] < 0
        <4>1. CASE 0 \in DOMAIN refs
          <5>1. refs[0] \in Int /\ refs[0] < 0 BY <1>8, <2>2, <4>1
          <5> QED BY <1>3, <1>9, <2>2, <4>1, <5>1 DEF Ref
        <4>2. CASE 0 \notin DOMAIN refs /\ 0 \in gone BY <1>3, <1>9, <2>2, <4>2 DEF Ref
        <4> QED BY <1>9, <2>2, <4>1, <4>2
      <3>2. ASSUME NEW k \in ChunkIds, NEW i \in Shards, Live(k)', chunks[k].shards[i] # 0
            PROVE  Ref(refs', chunks[k].shards[i]) > 0
        <4>1. PICK t : t = chunks[k].shards[i] OBVIOUS
        <4>2. Live(k) BY <1>5, <3>2 DEF ChunkIds
        <4>3. Ref(refs, t) > 0 BY <2>2, <3>2, <4>1, <4>2 DEF IInv, Counted
        <4>4. t \in DOMAIN refs BY <4>3 DEF Ref
        <4>5. t \notin gone BY <1>12, <3>2, <4>1
        <4>6. refs[t] \in Int BY <1>8, <2>2, <4>4
        <4>7. refs'[t] = refs[t] BY <1>3, <1>9, <2>2, <4>4, <4>5, <4>6 DEF Ref
        <4> QED BY <1>9, <2>2, <4>1, <4>3, <4>4, <4>7 DEF Ref
      <3>3. ASSUME NEW t \in DOMAIN refs, refs[t] <= 0 PROVE t \in DOMAIN refs' /\ refs'[t] <= 0
        <4>1. refs[t] \in Int BY <1>8, <2>2
        <4>2. refs'[t] = refs[t] - Dropped(blobs[key], t) BY <1>9, <2>2 DEF Ref
        <4> QED BY <1>3, <1>9, <2>2, <3>3, <4>1, <4>2
      <3>4. DOMAIN refs' \subseteq 0 .. Len(shards) BY <1>7, <1>8, <1>9, <2>2
      <3>5. \A s \in 1 .. Len(shards) : s \notin stored => s \in DOMAIN refs' /\ refs'[s] <= 0
        BY <2>2, <3>3 DEF IInv, Counted
      <3>6. \A d \in Calls : \A s \in garbage[d] : s # 0 /\ s \in DOMAIN refs' /\ refs'[s] <= 0
        BY <2>2, <3>3 DEF IInv, Counted
      <3> QED BY <1>1, <1>9, <1>10, <2>2, <3>1, <3>2, <3>4, <3>5, <3>6 DEF Counted, ChunkIds
    <2> QED BY <2>1, <2>2
  <1> QED BY <1>1, <1>5, <1>6, <1>11, <1>13 DEF IInv

-----------------------------------------------------------------------------
(* A new chunk, and its upload. *)

LEMMA NewChunkFacts ==
  ASSUME IInv, NEW part \in Nat, AddChunk(part),
         NEW c \in Calls, call[c].op \in Active,
         NEW u, u = NewUpload(c, Len(chunks) + 1, NewChunk(part).shards), up' = up \cup {u},
         UNCHANGED <<shards, refs, stored, garbage>>,
         \A key \in Keys, k \in ChunkIds : InBlob(key, k)' => InBlob(key, k)
  PROVE  /\ chunks' \in Seq(Chunk) /\ Len(chunks') = Len(chunks) + 1 /\ Grows
         /\ chunks'[Len(chunks) + 1].part = part
         /\ Len(chunks) + 1 \notin ChunkIds /\ Len(chunks) + 1 \in ChunkIds'
         /\ u \in UploadCall /\ u \notin up /\ u.call = c /\ u.chunk = Len(chunks) + 1
         /\ u.got = {} /\ u.todo = Shards /\ u.st = "running"
         /\ Recorded' /\ Unrecorded' /\ Counted'
  <1>1. chunks \in Seq(Chunk) /\ Len(chunks) \in Nat BY DEF IInv, TypeOK
  <1>2. PICK n : n = Len(chunks) + 1 OBVIOUS
  <1>3. NewChunk(part) \in Chunk /\ NewChunk(part).part = part
        /\ \A i \in Shards : NewChunk(part).shards[i] = 0
    BY DEF NewChunk, Chunk
  <1>4. chunks' = Append(chunks, NewChunk(part)) BY DEF AddChunk
  <1>5. /\ chunks' \in Seq(Chunk) /\ Len(chunks') = n /\ chunks'[n] = NewChunk(part)
        /\ \A k \in ChunkIds : chunks'[k] = chunks[k]
    BY <1>1, <1>2, <1>3, <1>4 DEF ChunkIds
  <1>6. ChunkIds' = ChunkIds \cup {n} /\ n \notin ChunkIds /\ n \in Nat
    BY <1>1, <1>2, <1>5 DEF ChunkIds
  <1>7. Grows BY <1>5, <1>6 DEF Grows, ChunkIds
  <1>8. /\ u \in UploadCall /\ u.call = c /\ u.chunk = n /\ u.got = {} /\ u.st = "running"
        /\ \A i \in Shards : i \in u.todo \/ NewChunk(part).shards[i] # 0
    BY <1>2, <1>6, NewUploadTyped
  <1>9. u.todo = Shards BY <1>3, <1>8 DEF UploadCall
  <1>10. \A v \in up : v.chunk \in ChunkIds BY DEF IInv, UploadInv
  <1>11. u \notin up BY <1>6, <1>8, <1>10
  <1>12. \A k \in ChunkIds, i \in Shards : chunks'[k].shards[i] = chunks[k].shards[i] BY <1>5
  <1>13. \A i \in Shards : chunks'[n].shards[i] = 0 BY <1>3, <1>5
  <1>14. Recorded'
    <2>0. 0 \in 0 .. Len(shards) BY DEF IInv, TypeOK
    <2>1. \A k \in ChunkIds', i \in Shards : chunks'[k].shards[i] \in 0 .. Len(shards)
      BY <1>6, <1>12, <1>13, <2>0 DEF IInv, Recorded
    <2>2. ASSUME NEW k \in ChunkIds', NEW l \in ChunkIds', NEW i \in Shards, NEW j \in Shards,
                 chunks'[k].shards[i] = chunks'[l].shards[j], chunks'[k].shards[i] # 0
          PROVE  k = l /\ i = j
      <3>1. k \in ChunkIds /\ l \in ChunkIds BY <1>6, <1>13, <2>2
      <3> QED BY <1>12, <2>2, <3>1 DEF IInv, Recorded
    <2> QED BY <2>1, <2>2 DEF Recorded
  <1>15. Unrecorded'
    <2>1. \A v \in up : \A g \in v.got : \A k \in ChunkIds', i \in Shards : chunks'[k].shards[i] # g[2]
      <3> SUFFICES ASSUME NEW v \in up, NEW g \in v.got, NEW k \in ChunkIds', NEW i \in Shards
                   PROVE  chunks'[k].shards[i] # g[2]
        OBVIOUS
      <3>1. g[2] # 0 BY GotFacts
      <3>2. CASE k \in ChunkIds BY <1>12, <3>2 DEF IInv, Unrecorded
      <3>3. CASE k = n BY <1>13, <3>1, <3>3
      <3> QED BY <1>6, <3>2, <3>3
    <2>2. \A v \in up' : \A g \in v.got : v \in up BY <1>8
    <2> QED BY <2>1, <2>2 DEF IInv, Unrecorded, bolt
  <1>16. Counted'
    <2>1. ASSUME NEW k \in ChunkIds, Live(k)' PROVE Live(k)
      <3>1. CASE (\E key \in Keys : InBlob(key, k))'
        <4>1. PICK key \in Keys : InBlob(key, k)' BY <3>1
        <4> QED BY <4>1 DEF Live
      <3>2. CASE \E v \in up' : v.chunk = k BY <1>6, <1>8, <3>2 DEF Live
      <3> QED BY <2>1, <3>1, <3>2 DEF Live
    <2>2. ~bolt => \A k \in ChunkIds', i \in Shards :
                     Live(k)' /\ chunks'[k].shards[i] # 0 => Ref(refs, chunks'[k].shards[i]) > 0
      BY <1>6, <1>12, <1>13, <2>1 DEF IInv, Counted
    <2> QED BY <2>2 DEF IInv, Counted, bolt, Ref
  <1> QED BY <1>2, <1>5, <1>3, <1>6, <1>7, <1>8, <1>9, <1>11, <1>14, <1>15, <1>16

(* No blob has a chunk that the database does not have. *)
LEMMA BlobsHaveChunks ==
  ASSUME IInv, NEW key \in Keys, NEW k, InBlob(key, k) PROVE k \in ChunkIds \/ k = 0
  <1>1. CASE blobs[key] = NoBlob
    <2>1. Len(<<0>>) = 1 /\ <<0>>[1] = 0 OBVIOUS
    <2> QED BY <1>1, <2>1 DEF InBlob, NoBlob
  <1>2. CASE blobs[key] # NoBlob BY <1>2 DEF IInv, BlobsApart, InBlob
  <1> QED BY <1>1, <1>2

LEMMA UploadNextStep ==
  ASSUME IInv, NEW c \in Calls, UploadNext(c) PROVE IInv'
  <1>1. PICK part, n, cs, u : /\ part = Len(call[c].chunks) + 1
                              /\ n = Len(chunks) + 1
                              /\ cs = Append(call[c].chunks, n)
                              /\ u = NewUpload(c, n, NewChunk(part).shards)
    OBVIOUS
  <1>2. /\ call[c].op = "upload" /\ part <= Size /\ AddChunk(part)
        /\ blobs' = [blobs EXCEPT ![call[c].key] = cs]
        /\ call' = [call EXCEPT ![c].chunks = cs] /\ up' = up \cup {u}
        /\ UNCHANGED <<shards, refs, stored, set, garbage, whole>>
    BY <1>1 DEF UploadNext, Running, AddBlob
  <1>3. PICK key : key = call[c].key OBVIOUS
  <1>4. call[c] \in CallState /\ call \in [Calls -> CallState] /\ CallInv(c)
        /\ blobs \in [Keys -> Seq(Nat)] /\ Len(chunks) \in Nat /\ BlobsApart
    BY DEF IInv, TypeOK
  <1>5. call[c].op \in Active BY <1>2 DEF Active
  <1>6. /\ key \in Keys /\ key # NoKey /\ call[c].chunks = blobs[key] /\ blobs[key] # NoBlob
        /\ Len(blobs[key]) \in Nat
    BY <1>3, <1>4, <1>5, ActiveFacts DEF CallInv
  <1>7. part \in Nat /\ n \in Nat BY <1>1, <1>4, <1>6
  <1>8. /\ cs \in Seq(Nat) /\ Len(cs) = part /\ cs[part] = n
        /\ \A j \in 1 .. Len(blobs[key]) : cs[j] = blobs[key][j]
        /\ \A j \in 1 .. Len(cs) : j = part \/ j \in 1 .. Len(blobs[key])
    BY <1>1, <1>4, <1>6, <1>7
  <1>9. /\ blobs' \in [Keys -> Seq(Nat)] /\ blobs'[key] = cs
        /\ \A l \in Keys : l # key => blobs'[l] = blobs[l]
    BY <1>2, <1>3, <1>4, <1>6, <1>8
  <1>10. \A l \in Keys : \A k : InBlob(l, k)' => InBlob(l, k) \/ (k = n /\ l = key)
    BY <1>8, <1>9 DEF InBlob
  <1>11. n \notin ChunkIds BY <1>1, <1>4 DEF ChunkIds
  <1>12. /\ chunks' \in Seq(Chunk) /\ Len(chunks') = n /\ Grows /\ chunks'[n].part = part
         /\ n \in ChunkIds'
         /\ u \in UploadCall /\ u \notin up /\ u.call = c /\ u.chunk = n
         /\ u.got = {} /\ u.todo = Shards /\ u.st = "running"
         /\ Recorded' /\ Unrecorded' /\ Counted'
    BY <1>1, <1>2, <1>5, <1>7, <1>10, <1>11, NewChunkFacts
  <1>13. /\ call' \in [Calls -> CallState] /\ call'[c] = [call[c] EXCEPT !.chunks = cs]
         /\ \A d \in Calls \ {c} : call'[d] = call[d]
    BY <1>2, <1>4, <1>8 DEF CallState
  <1>14. call'[c].op = "upload" /\ call'[c].key = key /\ call'[c].chunks = cs
    BY <1>2, <1>3, <1>4, <1>13 DEF CallState
  <1>15. TypeOK' BY <1>2, <1>9, <1>12, <1>13 DEF IInv, TypeOK
  <1>16. key \notin whole BY <1>1, <1>2, <1>6, KVAssumption DEF IInv, WholeInv
  <1>17. BlobsApart'
    <2>1. ASSUME NEW l \in Keys, blobs'[l] # NoBlob
          PROVE  /\ Len(blobs'[l]) <= Size
                 /\ \A j \in 1 .. Len(blobs'[l]) :
                      blobs'[l][j] \in ChunkIds' /\ chunks'[blobs'[l][j]].part = j
      <3>1. \A k \in ChunkIds : k \in ChunkIds' /\ chunks'[k].part = chunks[k].part
        BY <1>12 DEF Grows, ChunkIds
      <3>2. CASE l = key
        <4>1. Len(blobs'[l]) <= Size BY <1>2, <1>8, <1>9, <3>2
        <4>2. ASSUME NEW j \in 1 .. Len(cs)
              PROVE  cs[j] \in ChunkIds' /\ chunks'[cs[j]].part = j
          <5>1. CASE j = part BY <1>8, <1>12, <5>1
          <5>2. CASE j \in 1 .. Len(blobs[key])
            <6>1. blobs[key][j] \in ChunkIds /\ chunks[blobs[key][j]].part = j
              BY <1>4, <1>6, <5>2 DEF BlobsApart
            <6>2. cs[j] = blobs[key][j] BY <1>8, <5>2
            <6> QED BY <3>1, <6>1, <6>2
          <5> QED BY <1>8, <5>1, <5>2
        <4> QED BY <1>9, <3>2, <4>1, <4>2
      <3>3. CASE l # key
        <4>1. blobs'[l] = blobs[l] BY <1>9, <3>3
        <4>2. Len(blobs[l]) <= Size /\ \A j \in 1 .. Len(blobs[l]) :
                 blobs[l][j] \in ChunkIds /\ chunks[blobs[l][j]].part = j
          BY <1>4, <2>1, <4>1 DEF BlobsApart
        <4> QED BY <3>1, <4>1, <4>2
      <3> QED BY <3>2, <3>3
    <2>2. ASSUME NEW l \in Keys, NEW m \in Keys, NEW i \in 1 .. Len(blobs'[l]), NEW j \in 1 .. Len(blobs'[m]),
                 blobs'[l][i] = blobs'[m][j], blobs'[l][i] # 0
          PROVE  l = m /\ i = j
      <3>1. \A k \in Keys : \A h \in 1 .. Len(blobs'[k]) :
              \/ h \in 1 .. Len(blobs[k]) /\ blobs'[k][h] = blobs[k][h] /\ blobs'[k][h] # n
              \/ k = key /\ h = part /\ blobs'[k][h] = n
        <4> SUFFICES ASSUME NEW k \in Keys, NEW h \in 1 .. Len(blobs'[k])
                     PROVE  \/ h \in 1 .. Len(blobs[k]) /\ blobs'[k][h] = blobs[k][h] /\ blobs'[k][h] # n
                            \/ k = key /\ h = part /\ blobs'[k][h] = n
          OBVIOUS
        <4>1. n # 0 BY <1>1, <1>4
        <4>2. \A g \in 1 .. Len(blobs[k]) : blobs[k][g] # n
          BY <1>11, <4>1, BlobsHaveChunks DEF InBlob
        <4> QED BY <1>8, <1>9, <4>2
      <3>2. CASE blobs'[l][i] = n BY <2>2, <3>1, <3>2
      <3>3. CASE blobs'[l][i] # n
        <4>1. /\ i \in 1 .. Len(blobs[l]) /\ j \in 1 .. Len(blobs[m])
              /\ blobs[l][i] = blobs[m][j] /\ blobs[l][i] # 0
          BY <2>2, <3>1, <3>3
        <4> QED BY <1>4, <4>1 DEF BlobsApart
      <3> QED BY <3>2, <3>3
    <2> QED BY <2>1, <2>2 DEF BlobsApart
  <1>18. WholeInv'
    <2> SUFFICES ASSUME NEW l \in whole
                 PROVE  /\ blobs'[l] # NoBlob /\ Len(blobs'[l]) = Size
                        /\ \A j \in 1 .. Size : AllSet(chunks'[blobs'[l][j]].shards)
      BY <1>2 DEF WholeInv, Complete
    <2>1. l \in Keys /\ l # key BY <1>16 DEF IInv, TypeOK
    <2>2. blobs'[l] = blobs[l] BY <1>9, <2>1
    <2>3. /\ blobs[l] # NoBlob /\ Len(blobs[l]) = Size
          /\ \A j \in 1 .. Size : Complete(blobs[l][j])
      BY DEF IInv, WholeInv
    <2>4. \A j \in 1 .. Size : blobs[l][j] \in ChunkIds BY <1>4, <2>1, <2>3 DEF BlobsApart
    <2>5. \A j \in 1 .. Size : AllSet(chunks'[blobs[l][j]].shards)
      BY <1>12, <2>3, <2>4 DEF Complete, AllSet, Grows
    <2> QED BY <2>2, <2>3, <2>5
  <1>19. ASSUME NEW v \in up' PROVE UploadInv(v)'
    <2>1. \A w \in up : UploadInv(w) /\ w.call \in Calls /\ w.chunk \in ChunkIds
      BY DEF IInv, TypeOK, UploadCall, UploadInv
    <2>2. CASE v = u
      <3>1. \A l \in Keys : InBlob(l, n)' => l = key
        <4>1. n # 0 BY <1>1, <1>4
        <4> QED BY <1>10, <1>11, <4>1, BlobsHaveChunks
      <3>2. \A w \in up' : w.chunk = n => w.call = c BY <1>2, <1>11, <1>12, <2>1
      <3> QED BY <1>12, <1>14, <2>2, <3>1, <3>2 DEF UploadInv, Busy, Active
    <2>3. CASE v \in up
      <3>1. call'[v.call].op \in Busy /\ call'[v.call].key = call[v.call].key
        BY <1>2, <1>3, <1>13, <1>14, <2>1, <2>3 DEF UploadInv
      <3>2. v.chunk # n BY <1>11, <2>1, <2>3
      <3>3. \A l \in Keys : InBlob(l, v.chunk)' => l = call[v.call].key
        BY <1>10, <2>1, <2>3, <3>2 DEF UploadInv
      <3>4. \A w \in up' : w.chunk = v.chunk => w.call = v.call
        BY <1>2, <1>12, <2>1, <2>3, <3>2 DEF UploadInv
      <3> QED BY <1>12, <2>1, <2>3, <3>1, <3>3, <3>4, UploadKept
    <2> QED BY <1>2, <2>2, <2>3
  <1>20. CallInv(c)'
    <2>1. \A j \in 1 .. Len(cs) : AllSet(chunks'[cs[j]].shards) \/ \E v \in Uploads(c)' : v.chunk = cs[j]
      <3> TAKE j \in 1 .. Len(cs)
      <3>1. CASE j = part
        <4>1. u \in Uploads(c)' BY <1>2, <1>12 DEF Uploads
        <4> QED BY <1>8, <1>12, <3>1, <4>1
      <3>2. CASE j \in 1 .. Len(blobs[key])
        <4>1. cs[j] = call[c].chunks[j] /\ cs[j] \in ChunkIds BY <1>4, <1>6, <1>8, <3>2 DEF BlobsApart
        <4>2. CASE Complete(cs[j]) BY <1>12, <4>1, <4>2 DEF Complete, AllSet, Grows
        <4>3. CASE \E v \in Uploads(c) : v.chunk = cs[j]
          <5>1. Uploads(c) \subseteq Uploads(c)' BY <1>2 DEF Uploads
          <5> QED BY <4>3, <5>1
        <4> QED BY <1>2, <1>4, <1>6, <3>2, <4>1, <4>2, <4>3 DEF CallInv
      <3> QED BY <1>8, <3>1, <3>2
    <2>2. cs # NoBlob
      <3>1. Len(<<0>>) = 1 /\ <<0>>[1] = 0 OBVIOUS
      <3>2. n # 0 BY <1>1, <1>4
      <3> QED BY <1>8, <3>1, <3>2 DEF NoBlob
    <2>3. (\A j \in 1 .. Len(call[c].chunks) :
             Complete(call[c].chunks[j]) \/ \E v \in Uploads(c) : v.chunk = call[c].chunks[j])'
      BY <1>14, <2>1 DEF Complete
    <2>4. \A d \in Calls : call'[d].key = call'[c].key /\ call'[c].key # NoKey => d = c
      BY <1>3, <1>13, <1>14, KeyKept
    <2> QED BY <1>6, <1>9, <1>14, <2>2, <2>3, <2>4 DEF CallInv, Busy, Active, Working
  <1>21. ASSUME NEW d \in Calls, d # c PROVE CallInv(d)'
    <2>1. CallInv(d) /\ TypeOK /\ BlobsApart /\ call'[d] = call[d] BY <1>13, <1>21 DEF IInv
    <2>2. \A e \in Calls : call'[e].key = call[d].key /\ call[d].key # NoKey => e = d
      <3>1. \A e \in Calls : call'[e].key = call[e].key BY <1>3, <1>13, <1>14
      <3>2. \A e \in Calls : call[e].key = call[d].key /\ call[d].key # NoKey => e = d
        BY <2>1 DEF CallInv
      <3> QED BY <3>1, <3>2
    <2>3. call[d].op \in Active => blobs'[call[d].key] = blobs[call[d].key]
      <3>1. call[d].key # key BY <1>3, <1>4, <1>6, <1>21 DEF CallInv
      <3> QED BY <1>9, <3>1, ActiveFacts
    <2>4. Uploads(d)' = Uploads(d) /\ \A v \in Uploads(d) : v.chunk \in ChunkIds
      BY <1>2, <1>12, <1>21 DEF Uploads, IInv, UploadInv
    <2>5. call[d].op = "update" => \A v \in Uploads(d), l \in Keys : ~InBlob(l, v.chunk)'
      BY <1>10, <1>11, <2>1, <2>4 DEF CallInv
    <2>6. call[d].op \in Working => \A v, w \in Uploads(d)' : v = w BY <2>1, <2>4 DEF CallInv
    <2> QED BY <1>12, <2>1, <2>2, <2>3, <2>4, <2>5, <2>6, CallKept
  <1> QED BY <1>12, <1>15, <1>17, <1>18, <1>19, <1>20, <1>21 DEF IInv

LEMMA UpdateChunkStep ==
  ASSUME IInv, NEW c \in Calls, UpdateChunk(c) PROVE IInv'
  <1>1. PICK part, n, u : /\ part = chunks[Current(c)].part
                          /\ n = Len(chunks) + 1
                          /\ u = NewUpload(c, n, NewChunk(part).shards)
    OBVIOUS
  <1>2. /\ call[c].op = "update" /\ MoreChunks(c) /\ call[c].view # << >> /\ Uploads(c) = {}
        /\ AddChunk(part) /\ call' = [call EXCEPT ![c].next = 2] /\ up' = up \cup {u}
        /\ UNCHANGED <<blobs, shards, refs, stored, set, garbage, whole>>
    BY <1>1 DEF UpdateChunk, LookedUp, Running
  <1>3. /\ call[c] \in CallState /\ call \in [Calls -> CallState] /\ CallInv(c)
        /\ Len(chunks) \in Nat /\ BlobsApart
    BY DEF IInv, TypeOK
  <1>4. call[c].op \in Active /\ call[c].op \in Working BY <1>2 DEF Active, Working
  <1>5. Current(c) \in ChunkIds /\ part \in Nat BY <1>1, <1>2, <1>4, WorkingFacts DEF Chunk
  <1>6. \A l, k : InBlob(l, k)' <=> InBlob(l, k) BY <1>2 DEF InBlob
  <1>7. /\ chunks' \in Seq(Chunk) /\ Len(chunks') = n /\ Grows /\ chunks'[n].part = part
        /\ n \notin ChunkIds /\ n \in ChunkIds'
        /\ u \in UploadCall /\ u \notin up /\ u.call = c /\ u.chunk = n
        /\ u.got = {} /\ u.todo = Shards /\ u.st = "running"
        /\ Recorded' /\ Unrecorded' /\ Counted'
    BY <1>1, <1>2, <1>4, <1>5, <1>6, NewChunkFacts
  <1>8. /\ call' \in [Calls -> CallState] /\ call'[c] = [call[c] EXCEPT !.next = 2]
        /\ \A d \in Calls \ {c} : call'[d] = call[d]
    BY <1>2, <1>3 DEF CallState
  <1>9. /\ call'[c].op = call[c].op /\ call'[c].key = call[c].key /\ call'[c].chunks = call[c].chunks
        /\ call'[c].at = call[c].at /\ call'[c].view = call[c].view
    BY <1>3, <1>8 DEF CallState
  <1>10. TypeOK' BY <1>2, <1>7, <1>8 DEF IInv, TypeOK
  <1>11. \A k \in ChunkIds : k \in ChunkIds' /\ chunks'[k].part = chunks[k].part
    BY <1>7 DEF Grows, ChunkIds
  <1>12. BlobsApart'
    <2>1. ASSUME NEW l \in Keys, blobs[l] # NoBlob
          PROVE  /\ Len(blobs[l]) <= Size
                 /\ \A j \in 1 .. Len(blobs[l]) : blobs[l][j] \in ChunkIds' /\ chunks'[blobs[l][j]].part = j
      BY <1>3, <1>11, <2>1 DEF BlobsApart
    <2> QED BY <1>2, <1>3, <2>1 DEF BlobsApart
  <1>13. WholeInv'
    <2> SUFFICES ASSUME NEW l \in whole
                 PROVE  /\ blobs[l] # NoBlob /\ Len(blobs[l]) = Size
                        /\ \A j \in 1 .. Size : AllSet(chunks'[blobs[l][j]].shards)
      BY <1>2 DEF WholeInv, Complete
    <2>1. l \in Keys BY DEF IInv, TypeOK
    <2>2. /\ blobs[l] # NoBlob /\ Len(blobs[l]) = Size
          /\ \A j \in 1 .. Size : Complete(blobs[l][j])
      BY DEF IInv, WholeInv
    <2>3. \A j \in 1 .. Size : blobs[l][j] \in ChunkIds BY <1>3, <2>1, <2>2 DEF BlobsApart
    <2>4. \A j \in 1 .. Size : AllSet(chunks'[blobs[l][j]].shards)
      BY <1>7, <2>2, <2>3 DEF Complete, AllSet, Grows
    <2> QED BY <2>2, <2>4
  <1>14. \A l \in Keys : ~InBlob(l, n)
    <2>1. n # 0 BY <1>1, <1>3
    <2> QED BY <1>7, <2>1, BlobsHaveChunks
  <1>15. ASSUME NEW v \in up' PROVE UploadInv(v)'
    <2>1. \A w \in up : UploadInv(w) /\ w.call \in Calls /\ w.chunk \in ChunkIds
      BY DEF IInv, TypeOK, UploadCall, UploadInv
    <2>2. CASE v = u
      <3>1. \A w \in up' : w.chunk = n => w.call = c BY <1>2, <1>7, <2>1
      <3>2. call'[c].op \in Busy BY <1>4, <1>9 DEF Busy
      <3> QED BY <1>6, <1>7, <1>14, <2>2, <3>1, <3>2 DEF UploadInv
    <2>3. CASE v \in up
      <3>1. call'[v.call].op \in Busy /\ call'[v.call].key = call[v.call].key
        BY <1>8, <1>9, <2>1, <2>3 DEF UploadInv
      <3>2. \A l \in Keys : InBlob(l, v.chunk)' => l = call[v.call].key
        BY <1>6, <2>1, <2>3 DEF UploadInv
      <3>3. \A w \in up' : w.chunk = v.chunk => w.call = v.call
        BY <1>2, <1>7, <2>1, <2>3 DEF UploadInv
      <3> QED BY <1>7, <2>1, <2>3, <3>1, <3>2, <3>3, UploadKept
    <2> QED BY <1>2, <2>2, <2>3
  <1>16. CallInv(c)'
    <2>1. Uploads(c)' = {u} BY <1>2, <1>7 DEF Uploads
    <2>2. Current(c)' = Current(c) /\ (MoreChunks(c)' <=> MoreChunks(c))
      BY <1>9 DEF Current, MoreChunks
    <2>3. \A d \in Calls : call'[d].key = call'[c].key /\ call'[c].key # NoKey => d = c
      BY <1>8, <1>9, KeyKept
    <2>4. chunks'[u.chunk].part = chunks'[Current(c)'].part BY <1>1, <1>5, <1>7, <1>11, <2>2
    <2>5. \A key \in Keys : ~InBlob(key, u.chunk)' BY <1>6, <1>7, <1>14
    <2>6. \A i \in Shards : call[c].view[i] # 0 => chunks'[Current(c)].shards[i] # 0
      BY <1>2, <1>3, <1>4, <1>5, <1>7 DEF CallInv, Grows
    <2>7. call[c].key # NoKey /\ blobs[call[c].key] = call[c].chunks /\ call[c].chunks # NoBlob
          /\ call[c].at >= 1
      BY <1>3, <1>4 DEF CallInv, Busy
    <2> QED BY <1>2, <1>9, <2>1, <2>2, <2>3, <2>4, <2>5, <2>6, <2>7
         DEF CallInv, Busy, Active, Working
  <1>17. ASSUME NEW d \in Calls, d # c PROVE CallInv(d)'
    <2>1. CallInv(d) /\ TypeOK /\ BlobsApart /\ call'[d] = call[d] BY <1>8, <1>17 DEF IInv
    <2>2. \A e \in Calls : call'[e].key = call[d].key /\ call[d].key # NoKey => e = d
      <3>1. \A e \in Calls : call'[e].key = call[e].key BY <1>8, <1>9
      <3>2. \A e \in Calls : call[e].key = call[d].key /\ call[d].key # NoKey => e = d
        BY <2>1 DEF CallInv
      <3> QED BY <3>1, <3>2
    <2>3. Uploads(d)' = Uploads(d) /\ \A v \in Uploads(d) : v.chunk \in ChunkIds
      BY <1>2, <1>7, <1>17 DEF Uploads, IInv, UploadInv
    <2>4. call[d].op = "update" => \A v \in Uploads(d), l \in Keys : ~InBlob(l, v.chunk)'
      BY <1>6, <2>1 DEF CallInv
    <2>5. call[d].op \in Working => \A v, w \in Uploads(d)' : v = w BY <2>1, <2>3 DEF CallInv
    <2> QED BY <1>2, <1>7, <2>1, <2>2, <2>3, <2>4, <2>5, CallKept
  <1> QED BY <1>7, <1>10, <1>12, <1>13, <1>15, <1>16, <1>17 DEF IInv

-----------------------------------------------------------------------------
(* The end of the upload that Migrate or Update waits for. *)

LEMMA UpdatedFacts ==
  ASSUME IInv, NEW c \in Calls, NEW u \in up, Updated(c, u), u.st # "error"
  PROVE  /\ call[c].op \in {"migrate", "update"} /\ u.call = c /\ up' = up \ {u}
         /\ Uploads(c) = {u} /\ Uploads(c)' = {}
         /\ u.chunk \in ChunkIds /\ Complete(u.chunk)
         /\ call[c].at \in 1 .. Len(call[c].chunks) /\ call[c].chunks \in Seq(Nat)
         /\ chunks[u.chunk].part = call[c].at
         /\ call[c].op = "migrate" => u.chunk = call[c].chunks[call[c].at]
         /\ call[c].op = "update" => \A key \in Keys : ~InBlob(key, u.chunk)
  <1>1. /\ call[c].op \in {"migrate", "update"} /\ u.call = c /\ u.st # "running" /\ up' = up \ {u}
    BY DEF Updated
  <1>2. call[c].op \in Working /\ call[c].op \in Active BY <1>1 DEF Working, Active
  <1>3. u \in Uploads(c) BY <1>1 DEF Uploads
  <1>4. Uploads(c) = {u} /\ MoreChunks(c) BY <1>2, <1>3, OneUpload
  <1>5. Uploads(c)' = {} BY <1>1, <1>4 DEF Uploads
  <1>6. u.st = "ok" BY <1>1, StatusFacts
  <1>7. Complete(u.chunk) BY <1>6, UploadedComplete
  <1>8. u.chunk \in ChunkIds BY DEF IInv, UploadInv
  <1>9. call[c].at \in 1 .. Len(call[c].chunks) /\ call[c].chunks \in Seq(Nat)
    BY <1>2, <1>4, WorkingFacts DEF IInv, TypeOK, CallState
  <1>10. chunks[Current(c)].part = call[c].at BY <1>2, <1>9, ActiveFacts DEF Current
  <1>11. CallInv(c) BY DEF IInv
  <1>12. call[c].op = "migrate" => u.chunk = Current(c) BY <1>3, <1>11 DEF CallInv
  <1>13. call[c].op = "update" => /\ chunks[u.chunk].part = chunks[Current(c)].part
                                  /\ \A key \in Keys : ~InBlob(key, u.chunk)
    BY <1>3, <1>11 DEF CallInv
  <1> QED BY <1>1, <1>4, <1>5, <1>7, <1>8, <1>9, <1>10, <1>12, <1>13 DEF Current

LEMMA CallReplaced ==
  ASSUME NEW f \in [Calls -> CallState], NEW c \in Calls, NEW new \in CallState,
         NEW g, g = [f EXCEPT ![c] = new]
  PROVE  g \in [Calls -> CallState] /\ g[c] = new /\ \A d \in Calls \ {c} : g[d] = f[d]
  OBVIOUS

(* A call that goes on to its next chunk. *)
LEMMA UpdatedCall ==
  ASSUME IInv, NEW c \in Calls, call[c].op \in {"migrate", "update"}, Uploads(c)' = {},
         NEW cs \in Seq(Nat), cs # NoBlob, blobs'[call[c].key] = cs,
         call' = [call EXCEPT ![c].chunks = cs, ![c].at = @ + 1, ![c].view = << >>, ![c].next = 1]
  PROVE  /\ call' \in [Calls -> CallState] /\ \A d \in Calls \ {c} : call'[d] = call[d]
         /\ call'[c].op = call[c].op /\ call'[c].key = call[c].key
         /\ CallInv(c)'
  <1>1. call[c] \in CallState /\ call \in [Calls -> CallState] /\ CallInv(c) BY DEF IInv, TypeOK
  <1>2. call[c].at + 1 \in Nat /\ call[c].at + 1 >= 1 BY <1>1 DEF CallState
  <1>3. PICK new : new = [call[c] EXCEPT !.chunks = cs, !.at = @ + 1, !.view = << >>, !.next = 1]
    OBVIOUS
  <1>4. /\ new \in CallState /\ new.op = call[c].op /\ new.key = call[c].key /\ new.chunks = cs
        /\ new.at = call[c].at + 1 /\ new.view = << >> /\ new.next = 1
    BY <1>1, <1>2, <1>3 DEF CallState
  <1>5. call' = [call EXCEPT ![c] = new] BY <1>1, <1>3
  <1>6. call' \in [Calls -> CallState] /\ call'[c] = new /\ \A d \in Calls \ {c} : call'[d] = call[d]
    <2>1. c \in Calls OBVIOUS
    <2> QED BY ONLY <1>1, <1>4, <1>5, <2>1, CallReplaced
  <1>7. \A d \in Calls : call'[d].key = call'[c].key /\ call'[c].key # NoKey => d = c
    BY <1>4, <1>6, KeyKept
  <1>8. call[c].key # NoKey BY <1>1 DEF CallInv, Busy, Active
  <1>9. CallInv(c)' BY <1>2, <1>4, <1>6, <1>7, <1>8 DEF CallInv, Busy, Active, Working
  <1> QED BY <1>4, <1>6, <1>9

LEMMA UpdatedStep ==
  ASSUME IInv, NEW c \in Calls, NEW u \in up, Updated(c, u) PROVE IInv'
  <1>0. call[c].op \in {"migrate", "update"} /\ u.call = c /\ up' = up \ {u}
        /\ UNCHANGED <<chunks, shards, refs, stored, set, garbage, whole>>
    BY DEF Updated
  <1>1. CASE u.st = "error"
    <2>1. Becomes(c, "fail") /\ UNCHANGED blobs BY <1>1 DEF Updated
    <2>2. UNCHANGED db BY <1>0, <2>1 DEF db
    <2> QED BY <1>0, <2>1, <2>2, FailedUpload DEF Busy, Active
  <1>2. CASE u.st # "error"
    <2>0. PICK cs, at, key :
            cs = [call[c].chunks EXCEPT ![at] = u.chunk] /\ at = call[c].at /\ key = call[c].key
      OBVIOUS
    <2>1. /\ Uploads(c) = {u} /\ Uploads(c)' = {} /\ u.chunk \in ChunkIds /\ Complete(u.chunk)
          /\ at \in 1 .. Len(call[c].chunks) /\ call[c].chunks \in Seq(Nat)
          /\ chunks[u.chunk].part = at
          /\ call[c].op = "migrate" => u.chunk = call[c].chunks[at]
          /\ call[c].op = "update" => \A l \in Keys : ~InBlob(l, u.chunk)
      BY <1>2, <2>0, UpdatedFacts
    <2>2. /\ call' = [call EXCEPT ![c].chunks = cs, ![c].at = @ + 1, ![c].view = << >>, ![c].next = 1]
          /\ IF cs = call[c].chunks THEN UNCHANGED blobs ELSE AddBlob(key, cs)
      BY <1>2, <2>0 DEF Updated
    <2>3. call[c].op \in Active BY <1>0 DEF Active
    <2>4. /\ key \in Keys /\ key # NoKey /\ call[c].chunks = blobs[key] /\ Len(blobs[key]) <= Size
          /\ blobs[key] # NoBlob
      BY <2>0, <2>3, ActiveFacts DEF IInv, CallInv
    <2>5. blobs \in [Keys -> Seq(Nat)] /\ BlobsApart /\ u.chunk \in Nat BY <2>1 DEF IInv, TypeOK, ChunkIds
    <2>6. /\ cs \in Seq(Nat) /\ Len(cs) = Len(blobs[key]) /\ cs[at] = u.chunk
          /\ \A j \in 1 .. Len(cs) : j # at => cs[j] = blobs[key][j]
      BY <2>0, <2>1, <2>4, <2>5
    <2>7. /\ blobs' \in [Keys -> Seq(Nat)] /\ blobs'[key] = cs
          /\ \A l \in Keys : l # key => blobs'[l] = blobs[l]
      <3>1. CASE cs = call[c].chunks BY <2>2, <2>4, <2>5, <3>1
      <3>2. CASE cs # call[c].chunks
        <4>1. blobs' = [blobs EXCEPT ![key] = cs] BY <2>2, <3>2 DEF AddBlob
        <4> QED BY <2>4, <2>5, <2>6, <4>1
      <3> QED BY <3>1, <3>2
    <2>8. u.chunk # 0 BY <2>1 DEF ChunkIds
    <2>9. cs # NoBlob
      <3>1. Len(<<0>>) = 1 /\ <<0>>[1] = 0 OBVIOUS
      <3>2. at \in 1 .. Len(cs) BY <2>1, <2>4, <2>6
      <3>3. cs = <<0>> => at = 1 BY <3>1, <3>2
      <3> QED BY <2>6, <2>8, <3>1, <3>3 DEF NoBlob
    <2>10. /\ call' \in [Calls -> CallState] /\ \A d \in Calls \ {c} : call'[d] = call[d]
           /\ call'[c].op = call[c].op /\ call'[c].key = call[c].key
           /\ CallInv(c)'
      BY <1>0, <2>0, <2>1, <2>2, <2>6, <2>7, <2>9, UpdatedCall
    <2>11. TypeOK' BY <1>0, <2>7, <2>10 DEF IInv, TypeOK
    <2>12. Recorded' /\ Unrecorded'
      BY <1>0 DEF IInv, Recorded, Unrecorded, ChunkIds, bolt
    <2>13. \A l \in Keys : \A k : InBlob(l, k)' => InBlob(l, k) \/ (k = u.chunk /\ l = key)
      BY <2>6, <2>7 DEF InBlob
    <2>14. Counted'
      <3>1. ASSUME NEW k, Live(k)' PROVE Live(k)
        <4>1. CASE (\E l \in Keys : InBlob(l, k))'
          <5>1. PICK l \in Keys : InBlob(l, k)' BY <4>1
          <5> QED BY <2>13, <5>1 DEF Live
        <4>2. CASE \E v \in up' : v.chunk = k BY <1>0, <4>2 DEF Live
        <4> QED BY <3>1, <4>1, <4>2 DEF Live
      <3> QED BY <1>0, <3>1 DEF IInv, Counted, ChunkIds, bolt, Ref
    <2>15. ChunkIds' = ChunkIds /\ Grows BY <1>0, SameChunks DEF ChunkIds
    <2>16. \A l \in Keys : \A j : j \in 1 .. Len(blobs'[l]) =>
             \/ j \in 1 .. Len(blobs[l]) /\ blobs'[l][j] = blobs[l][j]
             \/ l = key /\ j = at /\ blobs'[l][j] = u.chunk
      BY <2>6, <2>7
    <2>17. BlobsApart'
      <3>1. ASSUME NEW l \in Keys, blobs'[l] # NoBlob
            PROVE  /\ Len(blobs'[l]) <= Size
                   /\ \A j \in 1 .. Len(blobs'[l]) : blobs'[l][j] \in ChunkIds /\ chunks[blobs'[l][j]].part = j
        <4>1. blobs[l] # NoBlob /\ Len(blobs'[l]) = Len(blobs[l]) BY <2>4, <2>6, <2>7, <3>1
        <4>2. Len(blobs[l]) <= Size /\ \A j \in 1 .. Len(blobs[l]) :
                blobs[l][j] \in ChunkIds /\ chunks[blobs[l][j]].part = j
          BY <2>5, <4>1 DEF BlobsApart
        <4> QED BY <2>1, <2>16, <4>1, <4>2
      <3>2. ASSUME NEW l \in Keys, NEW m \in Keys,
                   NEW i \in 1 .. Len(blobs'[l]), NEW j \in 1 .. Len(blobs'[m]),
                   blobs'[l][i] = blobs'[m][j], blobs'[l][i] # 0
            PROVE  l = m /\ i = j
        <4>1. CASE call[c].op = "migrate"
          <5>1. \A k \in Keys : \A h : h \in 1 .. Len(blobs'[k]) =>
                  h \in 1 .. Len(blobs[k]) /\ blobs'[k][h] = blobs[k][h]
            BY <2>1, <2>4, <2>16, <4>1
          <5>2. /\ i \in 1 .. Len(blobs[l]) /\ blobs'[l][i] = blobs[l][i]
                /\ j \in 1 .. Len(blobs[m]) /\ blobs'[m][j] = blobs[m][j]
            BY <5>1
          <5>3. blobs[l][i] = blobs[m][j] /\ blobs[l][i] # 0 BY <3>2, <5>2
          <5> QED BY <2>5, <5>2, <5>3 DEF BlobsApart
        <4>2. CASE call[c].op = "update"
          <5>1. \A k \in Keys : \A h \in 1 .. Len(blobs[k]) : blobs[k][h] # u.chunk
            BY <2>1, <4>2 DEF InBlob
          <5>2. CASE blobs'[l][i] = u.chunk
            <6>1. l = key /\ i = at BY <2>16, <5>1, <5>2
            <6>2. blobs'[m][j] = u.chunk BY <3>2, <5>2
            <6>3. m = key /\ j = at BY <2>16, <5>1, <6>2
            <6> QED BY <6>1, <6>3
          <5>3. CASE blobs'[l][i] # u.chunk
            <6>1. /\ i \in 1 .. Len(blobs[l]) /\ j \in 1 .. Len(blobs[m])
                  /\ blobs[l][i] = blobs[m][j] /\ blobs[l][i] # 0
              BY <2>16, <3>2, <5>3
            <6> QED BY <2>5, <6>1 DEF BlobsApart
          <5> QED BY <5>2, <5>3
        <4> QED BY <1>0, <4>1, <4>2
      <3> QED BY <1>0, <2>15, <3>1, <3>2 DEF BlobsApart
    <2>18. WholeInv'
      <3> SUFFICES ASSUME NEW l \in whole
                   PROVE  /\ blobs'[l] # NoBlob /\ Len(blobs'[l]) = Size
                          /\ \A j \in 1 .. Size : AllSet(chunks[blobs'[l][j]].shards)
        BY <1>0 DEF WholeInv, Complete
      <3>1. l \in Keys BY DEF IInv, TypeOK
      <3>2. /\ blobs[l] # NoBlob /\ Len(blobs[l]) = Size
            /\ \A j \in 1 .. Size : Complete(blobs[l][j])
        BY DEF IInv, WholeInv
      <3>3. blobs'[l] # NoBlob /\ Len(blobs'[l]) = Size BY <2>6, <2>7, <2>9, <3>1, <3>2
      <3>4. \A j \in 1 .. Size : Complete(blobs'[l][j])
        <4> TAKE j \in 1 .. Size
        <4>1. CASE blobs'[l][j] = blobs[l][j] BY <3>2, <4>1 DEF Complete
        <4>2. CASE blobs'[l][j] = u.chunk BY <2>1, <4>2 DEF Complete
        <4> QED BY <2>16, <3>1, <3>3, <4>1, <4>2
      <3>5. \A j \in 1 .. Size : AllSet(chunks[blobs'[l][j]].shards) BY <3>4 DEF Complete
      <3> QED BY <3>3, <3>5
    <2>19. \A v \in up' : v.chunk # u.chunk
      <3> SUFFICES ASSUME NEW v \in up, v # u, v.chunk = u.chunk PROVE FALSE BY <1>0
      <3>1. UploadInv(u) BY DEF IInv
      <3>2. v.call = c BY <1>0, <3>1 DEF UploadInv
      <3> QED BY <2>1, <3>2 DEF Uploads
    <2>20. ASSUME NEW v \in up' PROVE UploadInv(v)'
      <3>1. v \in up /\ UploadInv(v) /\ v.call \in Calls BY <1>0 DEF IInv, TypeOK, UploadCall
      <3>2. call'[v.call].op \in Busy /\ call'[v.call].key = call[v.call].key
        BY <2>10, <3>1 DEF UploadInv
      <3>3. \A l \in Keys : InBlob(l, v.chunk)' => l = call[v.call].key
        BY <2>13, <2>19, <3>1 DEF UploadInv
      <3>4. \A w \in up' : w.chunk = v.chunk => w.call = v.call BY <1>0, <3>1 DEF UploadInv
      <3> QED BY <2>15, <3>1, <3>2, <3>3, <3>4, UploadKept
    <2>21. ASSUME NEW d \in Calls, d # c PROVE CallInv(d)'
      <3>1. CallInv(d) /\ TypeOK /\ BlobsApart /\ call'[d] = call[d] BY <2>10, <2>21 DEF IInv
      <3>2. \A e \in Calls : call[e].key = call[d].key /\ call[d].key # NoKey => e = d
        BY <3>1 DEF CallInv
      <3>3. \A e \in Calls : call'[e].key = call[e].key BY <2>10
      <3>4. \A e \in Calls : call'[e].key = call[d].key /\ call[d].key # NoKey => e = d BY <3>2, <3>3
      <3>5. call[d].op \in Active => blobs'[call[d].key] = blobs[call[d].key]
        <4>1. call[d].key # key BY <2>0, <2>4, <2>21, <3>2
        <4> QED BY <2>7, <4>1, ActiveFacts
      <3>6. Uploads(d)' = Uploads(d) /\ \A v \in Uploads(d) : v.chunk \in ChunkIds
        BY <1>0, <2>21 DEF Uploads, IInv, UploadInv
      <3>7. call[d].op = "update" => \A v \in Uploads(d), l \in Keys : ~InBlob(l, v.chunk)'
        <4>1. \A v \in Uploads(d) : v.chunk # u.chunk BY <2>19, <3>6 DEF Uploads
        <4>2. call[d].op = "update" => \A v \in Uploads(d), l \in Keys : ~InBlob(l, v.chunk)
          BY <3>1 DEF CallInv
        <4> QED BY <2>13, <4>1, <4>2
      <3>8. call[d].op \in Working => \A v, w \in Uploads(d)' : v = w BY <3>1, <3>6 DEF CallInv
      <3> QED BY <2>15, <3>1, <3>4, <3>5, <3>6, <3>7, <3>8, CallKept
    <2> QED BY <2>10, <2>11, <2>12, <2>14, <2>17, <2>18, <2>20, <2>21 DEF IInv
  <1> QED BY <1>1, <1>2

-----------------------------------------------------------------------------
LEMMA InitIInv == Init => IInv
  <1> SUFFICES ASSUME Init PROVE IInv OBVIOUS
  <1>1. Len(<< >>) = 0 /\ Len(<<0>>) = 1 /\ <<0>>[1] = 0 /\ << >> \in Seq(Nat) /\ <<0>> \in Seq(Nat)
    OBVIOUS
  <1>2. Idle \in CallState BY DEF Idle, CallState
  <1>3. TypeOK
    <2>1. blobs \in [Keys -> Seq(Nat)] BY <1>1 DEF Init, NoBlob
    <2>2. chunks \in Seq(Chunk) /\ shards \in Seq(AllHosts) BY DEF Init
    <2>3. call \in [Calls -> CallState] BY <1>2 DEF Init
    <2>4. stored = {} /\ up = {} /\ whole = {} /\ set \subseteq AllHosts BY DEF Init
    <2>5. garbage \in [Calls -> SUBSET Nat] BY DEF Init
    <2> QED BY <2>1, <2>2, <2>3, <2>4, <2>5 DEF TypeOK
  <1>4. ChunkIds = {} BY <1>1 DEF Init, ChunkIds
  <1>5. up = {} /\ whole = {} BY DEF Init
  <1>6. Recorded /\ Unrecorded BY <1>4, <1>5 DEF Recorded, Unrecorded
  <1>7. Counted
    <2>1. CASE bolt
      <3>1. stored = 1 .. Len(shards) BY <1>1 DEF Init
      <3>2. \A c \in Calls : garbage[c] = {} BY DEF Init
      <3> QED BY <2>1, <3>1, <3>2 DEF Counted
    <2>2. CASE ~bolt
      <3>1. refs = [s \in {} |-> 0] BY <2>2 DEF Init, bolt
      <3>2. DOMAIN refs = {} /\ refs \in [DOMAIN refs -> Int] BY <3>1
      <3>3. 1 .. Len(shards) = {} BY <1>1 DEF Init
      <3>4. \A c \in Calls : garbage[c] = {} BY DEF Init
      <3> QED BY <1>4, <2>2, <3>2, <3>3, <3>4 DEF Counted
    <2> QED BY <2>1, <2>2
  <1>8. BlobsApart
    <2>1. \A key \in Keys : blobs[key] = NoBlob BY DEF Init
    <2>2. \A key \in Keys : \A j \in 1 .. Len(blobs[key]) : blobs[key][j] = 0
      BY <1>1, <2>1 DEF NoBlob
    <2> QED BY <2>1, <2>2 DEF BlobsApart
  <1>9. \A c \in Calls : CallInv(c)
    <2>1. \A c \in Calls : call[c] = Idle BY DEF Init
    <2> QED BY <2>1 DEF CallInv, Idle, Busy, Active, Working
  <1> QED BY <1>3, <1>5, <1>6, <1>7, <1>8, <1>9 DEF IInv, WholeInv

LEMMA StepIInv ==
  ASSUME IInv, Exclusive, NEW c \in Calls, Step(c) PROVE IInv'
  <1>1. CASE Put(c) BY <1>1, PutStep
  <1>2. CASE UploadNext(c) BY <1>2, UploadNextStep
  <1>3. CASE UploadReturn(c) BY <1>3, UploadReturnStep
  <1>4. CASE Fail(c) BY <1>4, FailsStep
  <1>5. CASE FailReturn(c) BY <1>5, FailReturnStep
  <1>6. CASE \E op \in {"resume", "migrate", "update"} : Open(c, op)
    BY <1>6, OpenStep DEF Working
  <1>7. CASE LookUp(c) BY <1>7, LookUpStep
  <1>8. CASE Repair(c) BY <1>8, RepairStep
  <1>9. CASE RepairedAll(c) BY <1>9, RepairedAllStep
  <1>10. CASE ResumeUpload(c) BY <1>10, ResumeUploadStep
  <1>11. CASE MigrateChunk(c) BY <1>11, MigrateChunkStep
  <1>12. CASE MigrateSkip(c) BY <1>12, MigrateSkipStep
  <1>13. CASE UpdateChunk(c) BY <1>13, UpdateChunkStep
  <1>14. CASE UpdateReturn(c) BY <1>14, UpdateReturnStep
  <1>15. CASE GC(c) BY <1>15, GCStep
  <1>16. CASE GCReturn(c) BY <1>16, GCReturnStep
  <1>17. CASE GCError(c) BY <1>17, GCErrorStep
  <1>18. CASE \E h \in AllHosts : DeleteSectors(c, h) BY <1>18, DeleteSectorsStep
  <1> QED BY <1>1, <1>2, <1>3, <1>4, <1>5, <1>6, <1>7, <1>8, <1>9, <1>10, <1>11, <1>12, <1>13,
             <1>14, <1>15, <1>16, <1>17, <1>18 DEF Step

LEMMA NextIInv == IInv /\ Exclusive /\ [Next]_vars => IInv'
  <1> SUFFICES ASSUME IInv, Exclusive, [Next]_vars PROVE IInv' OBVIOUS
  <1>1. CASE \E c \in Calls : Step(c) BY <1>1, StepIInv
  <1>2. CASE \E u \in up : Upload(u) \/ \E c \in Calls : Respond(c, u)
    <2>1. PICK u \in up : Upload(u) \/ \E c \in Calls : Respond(c, u) BY <1>2
    <2>2. CASE Upload(u)
      BY <2>2, StoreShardStep, RecordShardStep, UploadOKStep, UploadErrorStep DEF Upload
    <2>3. CASE \E c \in Calls : Respond(c, u)
      BY <2>3, ConsumeStep, DrainStep, RepairedStep, UpdatedStep DEF Respond
    <2> QED BY <2>1, <2>2, <2>3
  <1>3. CASE \E key \in Keys : Delete(key) BY <1>3, DeleteStep
  <1>4. CASE ReplaceHost
    <2>1. set' \subseteq AllHosts BY <1>4 DEF ReplaceHost, IInv, TypeOK
    <2>2. UNCHANGED <<db, stored, call, up, garbage, whole>> BY <1>4 DEF ReplaceHost
    <2> QED BY <2>1, <2>2, SetStep
  <1>5. CASE UNCHANGED vars
    <2>1. set' \subseteq AllHosts BY <1>5 DEF vars, IInv, TypeOK
    <2>2. UNCHANGED <<db, stored, call, up, garbage, whole>> BY <1>5 DEF vars, db
    <2> QED BY <2>1, <2>2, SetStep
  <1> QED BY <1>1, <1>2, <1>3, <1>4, <1>5 DEF Next

(* The inductive invariant. *)
LEMMA SpecIInv ==
  ASSUME Exclusive PROVE Spec => []IInv
  <1>1. IInv /\ [Next]_vars => IInv' BY NextIInv
  <1> QED BY <1>1, InitIInv, PTL DEF Spec

(* A shard of a live chunk is on its host. *)
LEMMA LiveStored ==
  ASSUME IInv, NEW key \in Keys, blobs[key] # NoBlob, NEW j \in 1 .. Len(blobs[key]), NEW i \in Shards,
         chunks[blobs[key][j]].shards[i] # 0
  PROVE  chunks[blobs[key][j]].shards[i] \in stored
  <1>1. PICK k, s : k = blobs[key][j] /\ s = chunks[k].shards[i] OBVIOUS
  <1>2. k \in ChunkIds BY <1>1 DEF IInv, BlobsApart
  <1>3. Live(k) BY <1>1 DEF Live, InBlob
  <1>4. s \in 1 .. Len(shards)
    <2>1. s \in 0 .. Len(shards) /\ Len(shards) \in Nat BY <1>1, <1>2 DEF IInv, Recorded, TypeOK
    <2> QED BY <1>1, <2>1
  <1>5. CASE bolt BY <1>1, <1>4, <1>5 DEF IInv, Counted
  <1>6. CASE ~bolt
    <2>1. Ref(refs, s) > 0 BY <1>1, <1>2, <1>3, <1>6 DEF IInv, Counted
    <2>2. s \in DOMAIN refs /\ refs[s] > 0 BY <2>1 DEF Ref
    <2>3. refs[s] \in Int BY <1>6, <2>2 DEF IInv, Counted
    <2>4. ~(refs[s] <= 0) BY <2>2, <2>3
    <2>5. s \in stored BY <1>4, <1>6, <2>4 DEF IInv, Counted
    <2> QED BY <1>1, <2>5
  <1> QED BY <1>5, <1>6

(* What Put or Resume reported as uploaded is there in full, in order and  *)
(* on the hosts, until it is overwritten or deleted: for any number of     *)
(* concurrent calls, any of which may fail or be cut off at any step, as   *)
(* long as callers do not overlap operations on one key.                   *)
THEOREM UploadedSurvives ==
  ASSUME Exclusive PROVE Spec => []ValueSurvives
  <1>1. IInv => ValueSurvives
    <2> SUFFICES ASSUME IInv, NEW key \in whole
                 PROVE  /\ Len(blobs[key]) = Size
                        /\ \A j \in 1 .. Size :
                             /\ chunks[blobs[key][j]].part = j
                             /\ \A i \in Shards : chunks[blobs[key][j]].shards[i] \in stored
      BY DEF ValueSurvives
    <2>1. key \in Keys BY DEF IInv, TypeOK
    <2>2. /\ blobs[key] # NoBlob /\ Len(blobs[key]) = Size
          /\ \A j \in 1 .. Size : Complete(blobs[key][j])
      BY DEF IInv, WholeInv
    <2>3. \A j \in 1 .. Size : chunks[blobs[key][j]].part = j BY <2>1, <2>2 DEF IInv, BlobsApart
    <2>4. \A j \in 1 .. Size : \A i \in Shards : chunks[blobs[key][j]].shards[i] \in stored
      BY <2>1, <2>2, LiveStored DEF Complete, AllSet
    <2> QED BY <2>2, <2>3, <2>4
  <1> QED BY <1>1, SpecIInv, PTL

(* GC never deletes a sector of a value in the database, complete or not,  *)
(* whatever uploads, updates and deletions run beside it.                  *)
THEOREM GCIsSafe ==
  ASSUME Exclusive PROVE Spec => []GCSparesValues
  <1>1. IInv => GCSparesValues
    <2> SUFFICES ASSUME IInv, NEW s \in Associated \ {0} PROVE s \in stored
      BY DEF GCSparesValues
    <2>1. PICK key \in {l \in Keys : blobs[l] # NoBlob} : s \in DroppedIds(blobs[key])
      BY DEF Associated
    <2>2. PICK j \in 1 .. Len(blobs[key]), i \in Shards : s = chunks[blobs[key][j]].shards[i]
      BY <2>1 DEF DroppedIds
    <2> QED BY <2>2, LiveStored
  <1> QED BY <1>1, SpecIInv, PTL

(* The database's books keep their types: ids of chunks and shards are ids *)
(* it has handed out, and what calls and uploads hold are such ids.        *)
THEOREM StoreTypes ==
  ASSUME Exclusive PROVE Spec => [](TypeOK /\ Recorded)
  <1>1. IInv => TypeOK /\ Recorded BY DEF IInv
  <1> QED BY <1>1, SpecIInv, PTL
=============================================================================
