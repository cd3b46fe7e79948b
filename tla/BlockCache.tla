----------------------------- MODULE BlockCache -----------------------------
(***************************************************************************)
(* The direct-mapped cache over a block store (storage/block_cache.rs),    *)
(* here over the NVMe store, and the tasks that call it.  A chunk is a     *)
(* page of blocks.  Offsets and lengths count items, PerBlock to a block,  *)
(* where the code counts bytes; an item is an integer.                     *)
(*                                                                         *)
(* The executor polls one task at a time, up to an await that has to wait: *)
(* `running' is the task it is polling.  The store's mutex is held while   *)
(* a command is under way; a task that waits for it may take it whenever   *)
(* it is free, and fairness of the tasks stands for the wake-up of a       *)
(* waiter (tasks/locks.rs, of which Semaphore checks the safety only).     *)
(*                                                                         *)
(* `truth' and `audit' are history: the code keeps neither.  They say what *)
(* the blocks should hold and where the cache has given up its promise.    *)
(***************************************************************************)
EXTENDS Nvme

CONSTANTS NumChunks,   \* a power of two (256)
          CacheBase,   \* first page of the cache's buffer
          PerBlock     \* items in a block

ASSUME CacheAssumption ==
  /\ NumChunks \in {2 ^ k : k \in 0 .. 10}
  /\ CacheBase .. CacheBase + NumChunks - 1 \subseteq Pages

VARIABLES
  metadata,  \* of each chunk: tag, occupied, dirty
  store,     \* the task that holds the store's mutex
  running,   \* the task the executor is polling
  call,      \* of each task: the call to the cache or the store it is in
  pc,        \* of each task: where it is
  truth,     \* what the blocks should hold, after the writes that returned
  audit      \* spoiled: blocks the cache answers for no longer; misled: <<task,
             \* why>> where a copy may differ; users: tasks that used the cache

cacheVars == <<metadata, store, running, call, pc, truth, audit>>

NoCall == [addr |-> 0, off |-> 0, len |-> 0, src |-> <<>>, todo |-> <<>>,
           stage |-> "", id |-> 0, ok |-> TRUE, data |-> <<>>, then |-> "",
           page |-> 0]

CacheInit ==
  /\ metadata = [c \in 0 .. NumChunks - 1 |->
                   [tag |-> 0, occupied |-> FALSE, dirty |-> FALSE]]
  /\ store = NoTask /\ running = NoTask
  /\ call = [t \in Tasks |-> NoCall]
  /\ truth = disk
  /\ audit = [spoiled |-> {}, misled |-> {}, users |-> {}]

ChunkItems == BlocksPerPage * PerBlock

\* decompose_address
Tag(address)    == address \div (NumChunks * BlocksPerPage)
ChunkId(address) == (address \div BlocksPerPage) % NumChunks
BlockOffset(address) == address % BlocksPerPage

compose_address(tag, chunk) == (tag * NumChunks + chunk) * BlocksPerPage

\* The blocks of a chunk that has this metadata.
BlocksOf(md, chunk) ==
  LET first == compose_address(md.tag, chunk) IN first .. first + BlocksPerPage - 1

\* The cache says that it has block b.
Resident(b) ==
  LET md == metadata[ChunkId(b)] IN md.occupied /\ md.tag = Tag(b)

\* No load is replacing the chunk.
Settled(c) ==
  \A t \in Tasks : store = t /\ call[t].todo # <<>> => Head(call[t].todo).chunk # c

\* A task can go on: it is being polled, or the executor is free and what it
\* awaits has happened.
CanRun(t) ==
  /\ panicked = ""
  /\ \/ running = t
     \/ /\ running = NoTask
        /\ pc[t] = "poll" => t \in woken
        /\ pc[t] = "lock" => store = NoTask

Goto(t, label) == pc' = [pc EXCEPT ![t] = label]

-----------------------------------------------------------------------------

\* The call of copy_bytes (src empty) or write_bytes; the task goes on at
\* `then' with the result.  Blocks that byte_offset skips are added to the
\* address first.
CallCache(t, address, offset, len, src, then) ==
  /\ call' = [call EXCEPT ![t] =
       [NoCall EXCEPT !.addr = address + (offset \div PerBlock),
                      !.off = offset % PerBlock, !.len = len,
                      !.src = src, !.then = then]]
  /\ Goto(t, "load_chunks")
  /\ running' = t
  /\ audit' = [audit EXCEPT !.users = @ \cup {t}]

\* An index out of range, an expect or a todo! stops the kernel.
PanicHere(why) ==
  /\ panicked' = why
  /\ UNCHANGED <<admin, io, ctl, vector, gic, handler, pending_completions,
                 next_cmd_id, boot, disk, mem, woken, faults, cacheVars>>

\* load_chunks: the chunk after the last has the number num_chunks and is
\* looked for there.
LoadNumber(c, i) ==
  LET chunk_id == ChunkId(c.addr) + i
  IN  IF chunk_id > NumChunks
      THEN [tag |-> Tag(c.addr) + (chunk_id \div NumChunks), chunk |-> chunk_id % NumChunks]
      ELSE [tag |-> Tag(c.addr), chunk |-> chunk_id]

Loads(c) == [i \in 1 .. CeilDiv(c.len, ChunkItems) |-> LoadNumber(c, i - 1)]

\* load_chunk looks at the metadata once, before it waits for the store.
IsLoaded(l) == metadata[l.chunk].occupied /\ metadata[l.chunk].tag = l.tag

\* metadata[num_chunks] is out of range; more chunks than there are is a todo!.
NoSuchChunk(c) ==
  Len(Loads(c)) > NumChunks \/ \E i \in DOMAIN Loads(c) : Loads(c)[i].chunk >= NumChunks

LoadPanics(t) ==
  /\ pc[t] = "load_chunks" /\ CanRun(t)
  /\ NoSuchChunk(call[t])
  /\ PanicHere("chunk")

\* try_join_all polls every load_chunk: each looks at its metadata.
LoadChunks(t) ==
  /\ pc[t] = "load_chunks" /\ CanRun(t)
  /\ ~NoSuchChunk(call[t])
  /\ LET loads  == Loads(call[t])
         misses == SelectSeq(loads, LAMBDA l : ~IsLoaded(l))
     IN  call' = [call EXCEPT ![t].todo =
           [i \in DOMAIN misses |-> [tag |-> misses[i].tag, chunk |-> misses[i].chunk,
                                     md |-> metadata[misses[i].chunk]]]]
  /\ Goto(t, IF call'[t].todo = <<>> THEN "copy" ELSE "lock")
  /\ running' = t
  /\ UNCHANGED <<nvmeVars, metadata, store, truth, audit>>

\* The store's mutex: taken if it is free, otherwise the poll ends.
LockStore(t) ==
  /\ pc[t] = "lock" /\ CanRun(t)
  /\ \/ /\ store = NoTask
        /\ store' = t /\ running' = t
        /\ call' = [call EXCEPT ![t].stage =
             IF call[t].todo = <<>> THEN "direct"
             ELSE IF Head(call[t].todo).md.dirty THEN "write" ELSE "read"]
        /\ Goto(t, "submit")
     \/ /\ store # NoTask
        /\ running' = NoTask
        /\ UNCHANGED <<store, call, pc>>
  /\ UNCHANGED <<nvmeVars, metadata, truth, audit>>

chunk_phy_addr(chunk) == CacheBase + chunk

\* What the command of load l spoils.  The controller counts blocks from zero,
\* so a write takes the block behind the chunk with it; if the metadata is no
\* longer what the load has looked at, a write puts the chunk's bytes where
\* they do not belong and a read covers bytes that were not written back.
Spoils(stage, l) ==
  LET now   == metadata[l.chunk]
      moved == now # l.md
  IN  IF stage = "write"
      THEN {compose_address(l.md.tag, l.chunk) + BlocksPerPage}
             \cup (IF moved THEN BlocksOf(l.md, l.chunk) ELSE {})
      ELSE IF stage = "read" /\ moved /\ now.dirty THEN BlocksOf(now, l.chunk)
      ELSE {}

\* The command for the current load: write the old chunk back, read the new
\* one; or, of a task that bypasses the cache, read to its own pages.
SubmitCommand(t) ==
  /\ pc[t] = "submit" /\ CanRun(t)
  /\ LET c == call[t]
         l == Head(c.todo)
     IN  \/ /\ c.stage = "write"
            /\ IssueCommand("write", compose_address(l.md.tag, l.chunk),
                            << <<chunk_phy_addr(l.chunk), BlocksPerPage>> >>)
         \/ /\ c.stage = "read"
            /\ IssueCommand("read", compose_address(l.tag, l.chunk),
                            << <<chunk_phy_addr(l.chunk), BlocksPerPage>> >>)
         \/ /\ c.stage = "direct"
            /\ IssueCommand("read", c.addr, << <<c.page, c.len>> >>)
  /\ audit' = [audit EXCEPT !.spoiled = @ \cup
       (IF call[t].todo = <<>> THEN {} ELSE Spoils(call[t].stage, Head(call[t].todo)))]
  /\ call' = [call EXCEPT ![t].id = next_cmd_id]
  /\ Goto(t, "poll")
  /\ UNCHANGED <<metadata, store, running, truth>>

\* Mutant: the tag of the chunk that was replaced is kept.
LoadedKeepsTag(l, mark_dirty) ==
  [metadata EXCEPT ![l.chunk].occupied = TRUE, ![l.chunk].dirty = mark_dirty]

\* set_tag, set_occupied, set_dirty after a read.
Loaded(l, mark_dirty) ==
  [metadata EXCEPT ![l.chunk] = [tag |-> l.tag, occupied |-> TRUE, dirty |-> mark_dirty]]

\* The await of a command: the poll ends, or the command has been answered.
\* An error ends the load and with it try_join_all; the store is unlocked.
PollCommand(t) ==
  /\ pc[t] = "poll" /\ CanRun(t)
  /\ LET c  == call[t]
         ok == pending_completions[c.id].ok
     IN  \/ /\ WaitFor(t, c.id)
            /\ running' = NoTask
            /\ UNCHANGED <<metadata, store, call, pc, truth, audit>>
         \/ /\ TakeReady(t, c.id)
            /\ running' = t
            /\ \/ /\ ok /\ c.stage = "write"
                  /\ call' = [call EXCEPT ![t].stage = "read"]
                  /\ Goto(t, "submit")
                  /\ UNCHANGED <<metadata, store>>
               \/ /\ ok /\ c.stage = "read"
                  /\ metadata' = Loaded(Head(c.todo), c.src # <<>>)
                  /\ store' = NoTask
                  /\ call' = [call EXCEPT ![t].todo = Tail(@)]
                  /\ Goto(t, IF Tail(c.todo) = <<>> THEN "copy" ELSE "lock")
               \/ /\ ~ok \/ c.stage = "direct"
                  /\ store' = NoTask
                  /\ call' = [call EXCEPT ![t].ok = ok, ![t].todo = <<>>]
                  /\ Goto(t, c.then)
                  /\ UNCHANGED metadata
            /\ UNCHANGED <<admin, io, ctl, vector, gic, handler, next_cmd_id,
                           boot, disk, mem, panicked, faults, truth, audit>>

\* The i-th item, from 0, of the cache's buffer and of the namespace.
BufferPlace(i) ==
  [page |-> CacheBase + (i \div ChunkItems),
   block |-> 1 + ((i % ChunkItems) \div PerBlock),
   item |-> 1 + (i % PerBlock)]

Buffer(i) == LET p == BufferPlace(i) IN mem[p.page][p.block][p.item]

Stored(blocks, i) == blocks[i \div PerBlock][1 + (i % PerBlock)]

Start(c) == ChunkId(c.addr) * ChunkItems + BlockOffset(c.addr) * PerBlock + c.off

First(c) == c.addr * PerBlock + c.off

\* The block that the k-th item of a copy is in.
BlockOf(c, k) == (First(c) + k - 1) \div PerBlock

\* What the cache answers for: blocks it has, none of them being replaced.
Trusted(b) == b \notin audit.spoiled /\ Resident(b) /\ Settled(ChunkId(b))

\* Why block b of a copy may not be what was last written: it is spoiled, it is
\* behind the chunks that the length alone made load_chunks load, or another
\* task has taken its chunk or is about to.
Why(c, b) ==
  IF b \in audit.spoiled THEN "spoiled"
  ELSE IF b \div BlocksPerPage >= c.addr \div BlocksPerPage + Len(Loads(c)) THEN "beyond"
  ELSE "shared"

\* The slice of the buffer ends behind the buffer.
PastBuffer(c) == Start(c) + c.len > NumChunks * ChunkItems

CopyPanics(t) ==
  /\ pc[t] = "copy" /\ CanRun(t)
  /\ PastBuffer(call[t])
  /\ PanicHere("slice")

\* The end of copy_bytes: the bytes are in consecutive chunks of the buffer.
CopyOut(t) ==
  /\ pc[t] = "copy" /\ CanRun(t)
  /\ ~PastBuffer(call[t])
  /\ call[t].src = <<>>
  /\ call' = [call EXCEPT ![t].data =
       [k \in 1 .. call[t].len |-> Buffer(Start(call[t]) + k - 1)]]
  /\ LET blocks == {BlockOf(call[t], k) : k \in 1 .. call[t].len}
     IN  audit' = [audit EXCEPT !.misled = @ \cup
           {<<t, Why(call[t], b)>> : b \in {x \in blocks : ~Trusted(x)}}]
  /\ Goto(t, call[t].then)
  /\ UNCHANGED <<nvmeVars, metadata, store, running, truth>>

\* The end of write_bytes.  A chunk that was in the cache already has not been
\* marked dirty: what is written to it, or to a chunk that is not the one
\* meant, is spoiled, and so is what was there or is on its way there.
CopyIn(t) ==
  /\ pc[t] = "copy" /\ CanRun(t)
  /\ ~PastBuffer(call[t])
  /\ call[t].src # <<>>
  /\ LET c == call[t]
         places == [k \in 1 .. c.len |-> BufferPlace(Start(c) + k - 1)]
         inBuffer(p, i, j) == \E k \in 1 .. c.len :
           places[k] = [page |-> p, block |-> i, item |-> j]
         source(p, i, j) == c.src[CHOOSE k \in 1 .. c.len :
           places[k] = [page |-> p, block |-> i, item |-> j]]
         chunk(k)  == places[k].page - CacheBase
         marked(k) == Trusted(BlockOf(c, k)) /\ metadata[chunk(k)].dirty
         tags(k)   == {metadata[chunk(k)].tag} \cup
           {Head(call[u].todo).tag : u \in {v \in Tasks : store = v /\ ~Settled(chunk(k))}}
         there(k)  == {compose_address(tag, chunk(k)) + places[k].block - 1 : tag \in tags(k)}
     IN  /\ mem' = [p \in Pages |-> [i \in 1 .. BlocksPerPage |-> [j \in 1 .. PerBlock |->
                     IF inBuffer(p, i, j) THEN source(p, i, j) ELSE mem[p][i][j]]]]
         /\ truth' = [b \in Blocks |-> [j \in 1 .. PerBlock |->
                       LET k == b * PerBlock + j - First(c)
                       IN  IF k \in 1 .. c.len THEN c.src[k] ELSE truth[b][j]]]
         /\ audit' = [audit EXCEPT !.spoiled = @ \cup
              UNION {{BlockOf(c, k)} \cup there(k) : k \in {n \in 1 .. c.len : ~marked(n)}}]
  /\ Goto(t, call[t].then)
  /\ UNCHANGED <<admin, io, ctl, vector, gic, handler, pending_completions,
                 next_cmd_id, boot, disk, woken, panicked, faults,
                 metadata, store, running, call>>

CacheStep(t) ==
  \/ LoadPanics(t) \/ LoadChunks(t) \/ LockStore(t) \/ SubmitCommand(t)
  \/ PollCommand(t) \/ CopyPanics(t) \/ CopyOut(t) \/ CopyIn(t)

-----------------------------------------------------------------------------

(* The cache is coherent but for the spoiled blocks: whatever loads,       *)
(* evictions and writes have been done, a block that the cache has, and is *)
(* not replacing, is there as the callers left it, and one that it has not *)
(* or has unmarked is so on the device (load_chunk, compose_address).      *)
(* Spoiled are the block behind a chunk that is written back               *)
(* (command.rs:101), what is written to a chunk that was in the cache and  *)
(* not dirty (block_cache.rs:162) or to chunks that were not loaded (225), *)
(* and what a load meets that has waited for the store with the metadata   *)
(* of another time (161).                                                  *)
CacheIsCoherent ==
  \A b \in Blocks \ audit.spoiled :
    LET c == ChunkId(b)
    IN  Settled(c) =>
          /\ Resident(b) => mem[chunk_phy_addr(c)][1 + BlockOffset(b)] = truth[b]
          /\ (Resident(b) /\ metadata[c].dirty) \/ disk[b] = truth[b]

(* What the cache promises of a block that was written, "The cache will    *)
(* write the blocks back to the underlying storage when they are ejected   *)
(* from the cache" (block_cache.rs:246): a block that is not in the cache  *)
(* is on the device as it was last written.                                *)
EjectedIsWritten ==
  \A b \in Blocks : Settled(ChunkId(b)) /\ ~Resident(b) => disk[b] = truth[b]

=============================================================================
