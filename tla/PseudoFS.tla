------------------------------ MODULE PseudoFS ------------------------------
(* PseudoFS: files whose bytes live on hosts and whose metafiles live on the   *)
(* local disk.                                                                 *)
(*                                                                             *)
(* A name has at most one open file (OpenFile returns the one it finds), so    *)
(* open files are kept by name.  The mutex makes a call one critical section;  *)
(* within it a call takes the steps at which it can fail or the process can    *)
(* die: one per piece of a write, one for the upload of the sectors, one per   *)
(* metafile committed.  Rename moves the metafile after it has given the mutex *)
(* back.  Refused calls change nothing.  The closed flag of an open file is    *)
(* never set by the code, and is left out with what it guards.                 *)
EXTENDS FileOps, FiniteSets, TLC

CONSTANTS Names, Hosts, None, Unknown,
          WriteLens,            \* how many bytes a call may write
          TruncateLens,         \* the sizes a call may truncate to
          Anywhere,             \* whether calls overwrite bytes already on hosts
          MaxCalls, MaxSectors, MaxSize, MaxFaults

ASSUME PseudoFSAssumption ==
  /\ IsFiniteSet(Hosts) /\ MinShards <= Cardinality(Hosts)
  /\ Anywhere \in BOOLEAN /\ {MaxCalls, MaxSectors, MaxSize, MaxFaults} \subseteq Nat

VARIABLES files,    \* name -> the open file, or None
          disk,     \* name -> the metafile on disk, or None
          sectors,  \* what each sector uploaded so far holds, by its root
          stored,   \* host -> the roots in its contract
          call,     \* the call inside the mutex
          moving,   \* the renames that have left the mutex: pairs of names
          calls,    \* the calls so far, but for Sync and closing; the bytes that
                    \* a call writes are its number
          faults,   \* the hosts, disks and processes that have failed so far
          ref,      \* name -> the bytes the caller has written to the open file
          saved,    \* name -> the bytes the caller may count on after a crash
          loose,    \* the open files whose name on disk is no longer theirs
          failed,   \* the open files with a write that failed part-way
          freed,    \* the roots that Free deleted
          swept,    \* the roots that GC deleted
          died      \* whether the last step was a panic

hosts == <<sectors, stored>>
bounds == <<calls, faults>>
deleted == <<freed, swept>>
state == <<files, disk, sectors, stored, call, moving>>
history == <<calls, faults, ref, saved, loose, failed, freed, swept, died>>
vars == <<state, history>>

Idle == [op |-> "none"]

Call(op, n) == [op |-> op, name |-> n, to |-> n, off |-> 0, data |-> <<>>,
                phase |-> "flush", chunks |-> <<>>, todo |-> {}]

Open == {n \in Names: files[n] # None}

MetaFile(f) == [shards |-> f.shards, size |-> f.size, lost |-> f.lost,
                modified |-> f.modified]

Opened(m) == [shards |-> m.shards, size |-> m.size, lost |-> m.lost, writes |-> <<>>,
              modified |-> m.modified]

NewMetaFile == [shards |-> <<>>, size |-> 0, lost |-> 0, modified |-> TRUE]

Roots(m) == {m.shards[i].root: i \in DOMAIN m.shards}

HostSeq == CHOOSE s \in [1 .. Cardinality(Hosts) -> Hosts]: Range(s) = Hosts

(* the sectors that MinShards of the hosts up can supply to a file *)
Supplied(up, f) ==
  {r \in DOMAIN sectors:
     MinShards <= Cardinality({i \in DOMAIN HostSeq:
                                 i > f.lost /\ HostSeq[i] \in up /\ r \in stored[HostSeq[i]]})}

Init ==
  /\ files = [n \in Names |-> None] /\ disk = [n \in Names |-> None]
  /\ sectors = <<>> /\ stored = [h \in Hosts |-> {}]
  /\ call = Idle /\ moving = {}
  /\ calls = 0 /\ faults = 0
  /\ ref = [n \in Names |-> <<>>] /\ saved = [n \in Names |-> Unknown]
  /\ loose = {} /\ failed = {} /\ freed = {} /\ swept = {} /\ died = FALSE

Counted == calls < MaxCalls /\ calls' = calls + 1

-----------------------------------------------------------------------------
(* Opening and closing *)

OpenNew(n) ==
  /\ call = Idle /\ files[n] = None
  /\ files' = [files EXCEPT ![n] = Opened(NewMetaFile)]
  /\ ref' = [ref EXCEPT ![n] = <<>>]
  /\ loose' = loose \ {n} /\ failed' = failed \ {n} /\ Counted /\ died' = FALSE
  /\ UNCHANGED <<moving, disk, hosts, call, faults, saved, deleted>>

OpenExisting(n) ==
  /\ call = Idle /\ files[n] = None /\ disk[n] # None
  /\ files' = [files EXCEPT ![n] = Opened(disk[n])]
  /\ ref' = [ref EXCEPT ![n] = IF saved[n] = Unknown THEN <<>> ELSE saved[n]]
  /\ loose' = IF saved[n] = Unknown THEN loose \cup {n} ELSE loose \ {n}
  /\ failed' = failed \ {n} /\ Counted /\ died' = FALSE
  /\ UNCHANGED <<moving, disk, hosts, call, faults, saved, deleted>>

(* a file with pending writes stays, and nothing marks it as closed *)
CloseFile(n) ==
  /\ call = Idle /\ files[n] # None /\ files[n].writes = <<>>
  /\ files' = [files EXCEPT ![n] = None] /\ ref' = [ref EXCEPT ![n] = <<>>]
  /\ loose' = loose \ {n} /\ failed' = failed \ {n} /\ died' = FALSE
  /\ UNCHANGED <<moving, disk, hosts, call, bounds, saved, deleted>>

(* Chmod, between other calls (it takes no lock); of a file not open it        *)
(* rewrites the metafile                                                       *)
Chmod(n) ==
  /\ call = Idle
  /\ IF files[n] # None
     THEN /\ files' = [files EXCEPT ![n].modified = TRUE]
          /\ UNCHANGED disk
     ELSE /\ disk[n] # None
          /\ disk' = [disk EXCEPT ![n].modified = TRUE]
          /\ UNCHANGED files
  /\ Counted /\ died' = FALSE
  /\ UNCHANGED <<moving, hosts, call, faults, ref, saved, loose, failed, deleted>>

-----------------------------------------------------------------------------
(* Writing *)

Taken ==
  LET of(n) == FoldLeft(LAMBDA t, w: t + calcShardSize(w.off, Len(w.data)),
                        0, files[n].writes)
  IN  FoldLeft(LAMBDA t, n: t + of(n), 0, SetToSeq(Open))

BeginWrite(n, off, data) ==
  call' = [Call("write", n) EXCEPT !.off = off, !.data = data, !.phase = "loop"]

(* the write overwrites nothing that is on hosts, or will be once it flushes *)
Spares(n, off, len) ==
  \/ off = filesize(files[n])
  \/ off >= files[n].size /\ maxWriteSize(Taken, off, len) = len

Write(n) ==
  /\ call = Idle /\ files[n] # None 
  /\ \E off \in 0 .. filesize(files[n]), len \in WriteLens:
       /\ off + len <= MaxSize
       /\ Anywhere \/ Spares(n, off, len)
       /\ BeginWrite(n, off, [i \in 1 .. len |-> calls + 1])
  /\ Counted /\ died' = FALSE
  /\ UNCHANGED <<moving, files, disk, hosts, faults, ref, saved, loose, failed, deleted>>

(* the bytes the caller counts on, as long as the file has its name *)
Expect(n, bytes) == ref' = IF n \in loose THEN ref ELSE [ref EXCEPT ![n] = bytes]

(* what the caller expects of its bytes once d is written at off *)
Written(bytes, off, d) == Copied(bytes, off, d) \o Bytes(d, Len(bytes) - off, Len(d))

WriteLoop ==
  /\ call.op = "write" /\ call.phase = "loop"
  /\ \E n \in {call.name}, k \in {maxWriteSize(Taken, call.off, Len(call.data))}:
     LET p == Bytes(call.data, 0, k)
     IN  \/ /\ call.data = <<>>
            /\ call' = Idle
            /\ files' = [files EXCEPT ![n].modified = TRUE]
            /\ failed' = failed \ {n}
            /\ UNCHANGED ref
         \/ /\ call.data # <<>> /\ k > 0
            /\ files' = [files EXCEPT ![n].writes =
                           mergePendingWrites(@, [off |-> call.off, data |-> p])]
            /\ call' = [call EXCEPT !.data = Bytes(@, k, Len(@)), !.off = @ + k]
            /\ Expect(n, Written(ref[n], call.off, p))
            /\ UNCHANGED failed
         \/ /\ call.data # <<>> /\ k <= 0
            /\ call' = [call EXCEPT !.phase = "flush"]
            /\ UNCHANGED <<files, ref, failed>>
  /\ UNCHANGED <<moving, disk, hosts, bounds, saved, loose, deleted, died>>

Truncate(n) ==
  /\ call = Idle /\ files[n] # None
  /\ \E size \in TruncateLens:
       IF size > filesize(files[n])
       THEN /\ BeginWrite(n, filesize(files[n]), Zeros(size - filesize(files[n])))
            /\ UNCHANGED <<files, ref>>
       ELSE /\ files' = [files EXCEPT ![n] = Truncated(@, size)]
            /\ Expect(n, Bytes(ref[n], 0, size))
            /\ call' = Call("truncate", n)
  /\ Counted /\ died' = FALSE
  /\ UNCHANGED <<moving, disk, hosts, faults, saved, loose, failed, deleted>>

(* a file without pending writes is not flushed: Sync returns at once *)
Sync(n) ==
  /\ call = Idle /\ files[n] # None
  /\ call' = IF files[n].writes # <<>> THEN Call("sync", n)
             ELSE [Call("sync", n) EXCEPT !.phase = "nothing"]
  /\ died' = FALSE
  /\ UNCHANGED <<moving, files, disk, hosts, bounds, ref, saved, loose, failed, deleted>>

CloseFS ==
  /\ call = Idle /\ Open # {}
  /\ call' = Call("close", None)
  /\ died' = FALSE
  /\ UNCHANGED <<moving, files, disk, hosts, bounds, ref, saved, loose, failed, deleted>>

-----------------------------------------------------------------------------
(* flushSectors *)

(* the process is gone: what is left is the disk and the hosts *)
Fault == faults < MaxFaults /\ faults' = faults + 1

Halt ==
  /\ files' = [n \in Names |-> None]
  /\ disk' = [n \in Names |-> IF disk[n] = None THEN None
                              ELSE [disk[n] EXCEPT !.modified = FALSE]]
  /\ call' = Idle /\ moving' = {}
  /\ ref' = [n \in Names |-> <<>>] /\ loose' = {} /\ failed' = {}

Panic == Halt /\ died' = (\A n \in Open: files[n].lost = 0)

(* every open file packed into the sector, in the order of the map's iteration *)
Filled(order, up) ==
  FoldLeft(LAMBDA acc, n:
             IF acc.err # "nil" THEN acc
             ELSE Given(fillSectors(sectors, Supplied(up, files[n]), files[n],
                                    acc.content, Len(sectors) + 1),
                        LAMBDA r: [err |-> r.err, content |-> r.content,
                                   chunks |-> [acc.chunks EXCEPT ![n] = r.chunks]]),
           [err |-> "nil", content |-> <<>>, chunks |-> [n \in Names |-> <<>>]], order)

(* the error goes back to the caller; Rename returns it with the mutex locked *)
FlushFails ==
  /\ call' = IF call.op = "rename" THEN [op |-> "locked"] ELSE Idle
  /\ failed' = IF call.op = "write" THEN failed \cup {call.name} ELSE failed

Upload ==
  /\ call.op \notin {"none", "locked"} /\ call.phase = "flush"
  /\ \E order \in SetToSeqs(Open), down \in SUBSET Hosts:
       /\ IF down = {} THEN UNCHANGED faults ELSE Fault
       /\ \E fill \in {Filled(order, Hosts \ down)}:
           \/ /\ fill.err = "panic" /\ Panic
              /\ UNCHANGED <<hosts>>
           \/ /\ fill.err \notin {"nil", "panic"} /\ FlushFails
              /\ UNCHANGED <<moving, files, disk, hosts, ref, loose, died>>
           \/ /\ fill.err = "nil" /\ fill.content = <<>>
              /\ call' = [call EXCEPT !.phase = "commit", !.chunks = fill.chunks, !.todo = Open]
              /\ UNCHANGED <<moving, files, disk, hosts, ref, loose, failed, died>>
           \/ /\ fill.err = "nil" /\ fill.content # <<>>
              /\ Len(sectors) < MaxSectors
              /\ sectors' = Append(sectors, fill.content)
              /\ stored' = [h \in Hosts |-> IF h \in down THEN stored[h]
                                            ELSE stored[h] \cup {Len(sectors) + 1}]
              /\ IF down = {}
                 THEN /\ call' = [call EXCEPT !.phase = "commit", !.chunks = fill.chunks,
                                              !.todo = Open]
                      /\ UNCHANGED failed
                 ELSE FlushFails
              /\ UNCHANGED <<moving, files, disk, ref, loose, died>>
  /\ UNCHANGED <<calls, saved, deleted>>

(* The caller can count on what is saved of a file that kept its name and its  *)
(* shards.  GC looks at the metafiles on disk only: a sector that a long Write *)
(* has flushed is in none of them before the next flush, and GC may take it.   *)
Sound(n, f) == n \notin loose /\ f.lost = 0 /\ Roots(f) \cap swept = {}

(* fileSync has found nothing to flush.  The caller counts on the bytes if     *)
(* nothing has changed the file since the last flush.                          *)
SyncNothing ==
  /\ call.op = "sync" /\ call.phase = "nothing"
  /\ LET n == call.name
     IN  saved' = IF ~files[n].modified /\ n \notin failed /\ Sound(n, files[n])
                  THEN [saved EXCEPT ![n] = ref[n]] ELSE saved
  /\ call' = Idle
  /\ UNCHANGED <<moving, files, disk, hosts, bounds, ref, loose, failed, deleted, died>>

(* commitPendingSlices and commitChanges of one file; the write of the         *)
(* metafile may fail                                                           *)
Commit ==
  /\ call.op \notin {"none", "locked"} /\ call.phase = "commit"
  /\ \E n \in call.todo: \E c \in {commitPendingSlices(files[n], call.chunks[n])}:
           \/ /\ c.err # "nil" /\ Panic
              /\ UNCHANGED <<saved, faults>>
           \/ /\ c.err = "nil"
              /\ files' = [files EXCEPT ![n] = [c.f EXCEPT !.writes = <<>>]]
              /\ call' = [call EXCEPT !.todo = @ \ {n}]
              /\ IF c.f.modified
                 THEN /\ disk' = [disk EXCEPT ![n] = MetaFile(c.f)]
                      /\ saved' = [saved EXCEPT ![n] = IF Sound(n, c.f) THEN ref[n] ELSE Unknown]
                 ELSE UNCHANGED <<disk, saved>>
              /\ UNCHANGED <<moving, faults, ref, loose, failed, died>>
           \/ /\ c.err = "nil" /\ c.f.modified
              /\ files' = [files EXCEPT ![n] = c.f]
              /\ FlushFails /\ Fault
              /\ UNCHANGED <<moving, disk, saved, ref, loose, died>>
  /\ UNCHANGED <<hosts, calls, deleted>>

(* lastCommitTime is set, and the call goes on *)
FlushDone ==
  /\ call.op \notin {"none", "locked"} /\ call.phase = "commit" /\ call.todo = {}
  /\ LET fresh == [n \in Names |-> IF files[n] = None THEN None
                                   ELSE [files[n] EXCEPT !.modified = FALSE]]
         calm  == [n \in Names |-> IF disk[n] = None THEN None
                                   ELSE [disk[n] EXCEPT !.modified = FALSE]]
     IN  \/ /\ call.op = "write"
            /\ call' = [call EXCEPT !.phase = "loop", !.chunks = <<>>]
            /\ files' = fresh /\ disk' = calm
            /\ UNCHANGED <<moving, ref, saved, loose, failed>>
         \/ /\ call.op \in {"truncate", "sync"}
            /\ call' = Idle /\ files' = fresh /\ disk' = calm
            /\ saved' = IF call.op = "sync" /\ call.name \notin failed
                             /\ Sound(call.name, files[call.name])
                        THEN [saved EXCEPT ![call.name] = ref[call.name]] ELSE saved
            /\ UNCHANGED <<moving, ref, loose, failed>>
         \/ /\ call.op = "rename"
            /\ call' = Idle /\ files' = fresh /\ disk' = calm
            /\ moving' = moving \cup {<<call.name, call.to>>}
            /\ UNCHANGED <<ref, saved, loose, failed>>
         \/ /\ call.op = "close"
            /\ call' = Idle
            /\ files' = [n \in Names |-> None] /\ disk' = calm
            /\ ref' = [n \in Names |-> <<>>] /\ loose' = {} /\ failed' = {}
            /\ UNCHANGED <<moving, saved>>
  /\ UNCHANGED <<hosts, bounds, deleted, died>>

-----------------------------------------------------------------------------
(* Names and garbage *)

(* a file with pending writes is flushed first, and then the mutex given back *)
Rename(n, to) ==
  /\ call = Idle /\ n # to /\ n \in Open \cup {m \in Names: disk[m] # None}
  /\ IF files[n] # None /\ files[n].writes # <<>>
     THEN /\ call' = [Call("rename", n) EXCEPT !.to = to]
          /\ UNCHANGED moving
     ELSE /\ moving' = moving \cup {<<n, to>>}
          /\ UNCHANGED call
  /\ Counted /\ died' = FALSE
  /\ UNCHANGED <<files, disk, hosts, faults, ref, saved, loose, failed, deleted>>

(* os.Rename of the metafile, whoever holds the mutex by now: open files keep  *)
(* their names                                                                 *)
Move ==
  \E pair \in moving: LET from == pair[1]  to == pair[2] IN
  /\ moving' = moving \ {pair}
  /\ IF disk[from] = None THEN UNCHANGED <<disk, saved, loose>>
     ELSE /\ disk' = [disk EXCEPT ![to] = disk[from], ![from] = None]
          /\ saved' = [saved EXCEPT ![to] = saved[from], ![from] = Unknown]
          /\ loose' = loose \cup ({from, to} \cap Open)
  /\ UNCHANGED <<files, hosts, call, bounds, ref, failed, deleted, died>>

RemoveFile(n) ==
  /\ call = Idle /\ disk[n] # None
  /\ disk' = [disk EXCEPT ![n] = None]
  /\ saved' = [saved EXCEPT ![n] = Unknown]
  /\ loose' = loose \cup ({n} \cap Open) /\ Counted /\ died' = FALSE
  /\ UNCHANGED <<moving, files, hosts, call, faults, ref, failed, deleted>>

(* Free deletes the sectors that a slice fills, host by host; at the first     *)
(* host that fails it returns, with the shards of the hosts before it dropped  *)
Free(n) ==
  /\ call = Idle /\ files[n] # None
  /\ LET f    == files[n]
         full == {f.shards[i].root: i \in {j \in DOMAIN f.shards:
                                             f.shards[j].num = SegmentsPerSector}}
     IN  \E k \in 0 .. Len(HostSeq):        \* the hosts done
           LET done == {HostSeq[i]: i \in {j \in 1 .. k: j > f.lost}}
           IN  /\ stored' = [h \in Hosts |-> IF h \in done THEN stored[h] \ full ELSE stored[h]]
               /\ freed' = IF done = {} THEN freed ELSE freed \cup full
               /\ IF k = Len(HostSeq)
                  THEN /\ UNCHANGED faults
                       /\ files' = [files EXCEPT ![n] = [Opened(NewMetaFile) EXCEPT !.lost = 0]]
                       /\ ref' = [ref EXCEPT ![n] = <<>>]
                  ELSE /\ Fault
                       /\ files' = [files EXCEPT ![n].writes = <<>>,
                                                 ![n].lost = IF k > @ THEN k ELSE @]
                       /\ Expect(n, Bytes(ref[n], 0, AtMost(Len(ref[n]), f.size)))
  /\ Counted /\ died' = FALSE
  /\ UNCHANGED <<moving, disk, sectors, call, saved, loose, failed, swept>>

(* Mutant: GC looks at the files in memory. *)
ReferencedInMemory(i) ==
  UNION {Roots(files[n]): n \in {m \in Names: files[m] # None /\ files[m].lost < i}}

(* the roots of host i that the metafiles on disk refer to *)
Referenced(i) ==
  UNION {Roots(disk[n]): n \in {m \in Names: disk[m] # None /\ disk[m].lost < i}}

(* GC asks every host for its roots and then deletes, host by host, those that *)
(* no metafile on disk refers to; it stops at the first host that fails        *)
GC ==
  /\ call = Idle
  /\ \E done \in SUBSET DOMAIN HostSeq:
       LET dead(i) == stored[HostSeq[i]] \ Referenced(i)
       IN  /\ \E i \in done: dead(i) # {}
           /\ IF done = DOMAIN HostSeq THEN UNCHANGED faults ELSE Fault
           /\ stored' = [h \in Hosts |->
                           stored[h] \ UNION {dead(i): i \in {j \in done: HostSeq[j] = h}}]
           /\ swept' = swept \cup UNION {dead(i): i \in done}
  /\ Counted /\ died' = FALSE
  /\ UNCHANGED <<moving, files, disk, sectors, call, ref, saved, loose, failed, freed>>

Crash ==
  /\ Halt /\ Fault /\ died' = FALSE
  /\ UNCHANGED <<hosts, calls, saved, deleted>>

Next ==
  \/ \E n \in Names: \/ OpenNew(n) \/ OpenExisting(n) \/ CloseFile(n) \/ Chmod(n)
                     \/ Write(n) \/ Truncate(n) \/ Sync(n) \/ RemoveFile(n) \/ Free(n)
  \/ \E n, to \in Names: Rename(n, to)
  \/ Move
  \/ WriteLoop \/ SyncNothing \/ Upload \/ Commit \/ FlushDone
  \/ CloseFS \/ GC \/ Crash

Spec == Init /\ [][Next]_vars

-----------------------------------------------------------------------------
(* Properties *)

(* Reading an open file gives back what was written to it, wherever the bytes  *)
(* are by now: pending, packed into sectors with other files' bytes, moved by  *)
(* a truncation or a failed flush.  ReadAtP gives the same bytes.  Sectors     *)
(* that Free or GC deleted, and files that lost their name, are the caller's.  *)
(* Where Anywhere is FALSE calls only append to what is on hosts.              *)
ReadsBack ==
  \A n \in Open \ loose:
    LET f == files[n]
        size == Len(ref[n])
        have == Supplied(Hosts, f)
    IN  (Roots(f) \cap (freed \cup swept) = {} /\ f.lost = 0 /\ (call = Idle \/ call.op = "locked")) =>
          /\ filesize(f) = size
          /\ \A off \in 0 .. size - 1:
               \A len \in {1, MinChunkSize, size - off}:
                 fileReadAt(sectors, have, f, off, len).data
                   = Bytes(ref[n], off, AtMost(size, off + len))
          /\ ReadAtP(sectors, have, f, 0, size, Cardinality(Hosts)) = ref[n]

(* What a flush has saved is there after any crash, failed flush, rename or    *)
(* GC: the metafile on disk has that size, its slices decode to those bytes,   *)
(* and every host still holds the sectors, unless Free deleted them.  What     *)
(* counts as saved leaves out four things the code does not do (README,        *)
(* section 5).  With Anywhere FALSE no call overwrites bytes that are on       *)
(* hosts: the slices a flush then saves are wrong, as commitPendingSlices      *)
(* counts the bytes of a pending chunk as segments (fileops.go:240).  A Sync   *)
(* of a file that has no pending writes saves nothing, though Free or a        *)
(* truncation whose flush failed has changed the file (fileops.go:639,         *)
(* SyncCommits).  A file with a sector that GC took while it was in no         *)
(* metafile is lost (filesystem.go:341, GCSparesOpenFiles), and so is one that *)
(* Rename or Remove left without its name.                                     *)
Durable ==
  \A n \in Names:
    saved[n] # Unknown =>
      /\ disk[n] # None
      /\ disk[n].size = Len(saved[n])
      /\ (Roots(disk[n]) \cap freed = {}) =>
           /\ \A h \in Hosts: Roots(disk[n]) \subseteq stored[h]
           /\ saved[n] # <<>> =>
                Downloaded(sectors, DOMAIN sectors, disk[n].shards, 0, disk[n].size).data
                  = saved[n]

(* Packing never runs over the end of a sector and committing always gets to   *)
(* the end of the lists: the panics of SectorBuilder.Append and                *)
(* commitPendingSlices are unreachable, short of a Free that failed half-way,  *)
(* as long as calls overwrite nothing that is on hosts (Anywhere FALSE).  Two  *)
(* pending overwrites of stored chunks reach the second one (fileops.go:156;   *)
(* README, section 5).                                                         *)
NoPanic == ~died

-----------------------------------------------------------------------------
(* What the documentation says and the code does not do: TLC refutes both on   *)
(* the instance of the run fs (README, section 5); no run checks them.         *)

(* Sync's contract (filesystem.go:797): when it returns, the metafile of a     *)
(* file that has one matches the current state of the file.  Its early return  *)
(* breaks it.                                                                  *)
SyncCommits ==
  (call.op = "sync" /\ call.phase = "nothing") =>
    LET n == call.name
    IN  (n \notin loose \cup failed /\ disk[n] # None) => disk[n].size = filesize(files[n])

(* GC's contract (filesystem.go:341): it need not look at the files in memory, *)
(* as it takes no sector of theirs.  A Write that flushes on its way breaks    *)
(* it: the flush does not write the metafile of a file whose ModTime is still  *)
(* that of the last commit.                                                    *)
GCSparesOpenFiles == \A n \in Open \ loose: Roots(files[n]) \cap swept = {}
=============================================================================
