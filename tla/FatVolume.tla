------------------------------ MODULE FatVolume ------------------------------
(***************************************************************************)
(* The FAT16 file system (fs/fat) on the block cache: mounting a volume,   *)
(* finding a file by its path in the registry, and loading its pages, as   *)
(* spawn_process does (process/spawn.rs).  Each `await' of the code is a   *)
(* call of the cache that returns at a label of its own.                   *)
(*                                                                         *)
(* What the code takes apart byte by byte is an item here: the partition   *)
(* table, a boot sector and a directory entry are records looked up by the *)
(* item, and a FAT entry is the item itself.                               *)
(***************************************************************************)
EXTENDS BlockCache, Registry

CONSTANTS
  Volumes,      \* the disks the kernel may find, each with its blocks
  Mbrs,         \* item -> partition table
  BootSectors,  \* item -> boot sector
  DirItems,     \* item -> directory entry, or part of a long name
  Workloads,    \* what the tasks will ask for: task -> sequence of jobs
  BootTask,     \* the task of finish_boot
  RootPath,     \* where the volume is mounted
  GuardPages    \* pages of memory that belong to nobody here, page 0 among them

VARIABLES registry, params, work, jobs

fatVars == <<registry, params, work, jobs>>

vars == <<nvmeVars, cacheVars, fatVars>>

NoWork == [goal |-> "", comps |-> <<>>, src |-> [kind |-> "Direct", at |-> 0],
           off |-> 0, name |-> "", item |-> 0, entries |-> <<>>,
           size |-> 0, cluster |-> 0, cur |-> 0]

NoParams == [fat_start |-> 0, root_directory_start |-> 0, sectors_per_cluster |-> 1]

Init ==
  /\ \E v \in Volumes : NvmeInit(v)
  /\ CacheInit
  /\ pc = [t \in Tasks |-> "idle"]
  /\ registry = Register({}, <<"/", "dev", "/", "nvme", "/", "pci">>, "nvme")
  /\ params = NoParams
  /\ work = [t \in Tasks |-> NoWork]
  /\ jobs = [t \in Tasks |-> <<>>]

-----------------------------------------------------------------------------
(* VolumeParams *)

\* compute_from_bootsector: the root directory is where the clusters start.
ParamsOf(start, b) ==
  [fat_start |-> start + b.reserved_sectors_count,
   root_directory_start |-> start + b.reserved_sectors_count + b.number_of_fats * b.fat_size_16,
   sectors_per_cluster |-> b.sectors_per_cluster]

\* Mutant: cluster 2 is where the root directory starts, not behind it.
ClusterAfterRoot(n) == params.root_directory_start + (n - 2) * params.sectors_per_cluster

sector_for_cluster(n) == params.root_directory_start + n * params.sectors_per_cluster

ItemsPerCluster == params.sectors_per_cluster * PerBlock

\* (cluster * 2) as usize, in 16 bits, counted in entries of two bytes.
FatIndex(cluster) == ((2 * cluster) % 65536) \div 2

\* The registry, the volume's parameters and the jobs are left alone.
KeepVolume == UNCHANGED <<registry, params, jobs>>

\* A call of the cache that changes the task's work to w.
Ask(t, address, offset, then, w) ==
  /\ CallCache(t, address, offset, 1, <<>>, then)
  /\ work' = [work EXCEPT ![t] = w]
  /\ UNCHANGED <<nvmeVars, metadata, store, truth>>

\* A step that asks for nothing and goes on at `label'.
Continue(t, label, w) ==
  /\ Goto(t, label) /\ running' = t
  /\ work' = [work EXCEPT ![t] = w]
  /\ UNCHANGED <<nvmeVars, metadata, store, call, truth, audit>>

Answer(t) == call[t].data[1]

-----------------------------------------------------------------------------
(* Handler::new and mount *)

ReadMbr ==
  /\ boot = "open" /\ running = NoTask
  /\ CallCache(BootTask, 0, 0, 1, <<>>, "mbr")
  /\ boot' = "mounting"
  /\ UNCHANGED <<admin, io, ctl, vector, gic, handler, pending_completions,
                 next_cmd_id, disk, mem, woken, panicked, faults,
                 metadata, store, truth, fatVars>>

\* mount's error is unwrapped by finish_boot.
MountFails ==
  /\ boot' = "failed" /\ panicked' = "mount"
  /\ running' = NoTask
  /\ UNCHANGED <<admin, io, ctl, vector, gic, handler, pending_completions,
                 next_cmd_id, disk, mem, woken, faults,
                 metadata, store, call, pc, truth, audit, fatVars>>

\* The table is refused only if both bytes of its signature are wrong.
GoodMbr == LET m == Mbrs[Answer(BootTask)]
           IN  ~(m.magic[1] # 85 /\ m.magic[2] # 170) /\ m.start_sector > 0

CheckMbr ==
  /\ pc[BootTask] = "mbr" /\ CanRun(BootTask)
  /\ IF call[BootTask].ok /\ GoodMbr
     THEN /\ Ask(BootTask, Mbrs[Answer(BootTask)].start_sector, 0, "boot_sector",
                 [work[BootTask] EXCEPT !.cur = Mbrs[Answer(BootTask)].start_sector])
          /\ KeepVolume
     ELSE MountFails

\* The signature, and validate.
GoodBootSector == LET b == BootSectors[Answer(BootTask)]
                  IN  b.magic = <<85, 170>> /\ b.bytes_per_sector = 512 /\ b.number_of_fats = 2

ListDirectory(goal, comps, src) ==
  [NoWork EXCEPT !.goal = goal, !.comps = comps, !.src = src]

Root(p) == [kind |-> "Direct", at |-> p.root_directory_start]

CheckBootSector ==
  /\ pc[BootTask] = "boot_sector" /\ CanRun(BootTask)
  /\ IF call[BootTask].ok /\ GoodBootSector
     THEN /\ params' = ParamsOf(work[BootTask].cur, BootSectors[Answer(BootTask)])
          /\ Continue(BootTask, "dir", ListDirectory("mount", <<>>, Root(params')))
          /\ UNCHANGED <<registry, jobs>>
     ELSE MountFails

\* The root directory has been listed: the volume is registered, and from now
\* on tasks will ask for what one of the workloads says.
RegisterVolume ==
  /\ pc[BootTask] = "register" /\ CanRun(BootTask)
  /\ registry' = Register(registry, RootPath, "fat")
  /\ boot' = "mounted"
  /\ jobs' \in Workloads
  /\ Goto(BootTask, "idle") /\ running' = NoTask
  /\ work' = [work EXCEPT ![BootTask] = NoWork]
  /\ UNCHANGED <<admin, io, ctl, vector, gic, handler, pending_completions,
                 next_cmd_id, disk, mem, woken, panicked, faults,
                 metadata, store, call, truth, audit, params>>

-----------------------------------------------------------------------------
(* dir_entry_stream *)

compute_block_addr(src) ==
  IF src.kind = "Direct" THEN src.at ELSE sector_for_cluster(src.at)

size_of_segment(src) == IF src.kind = "Direct" THEN PerBlock ELSE ItemsPerCluster

ReadDirEntry(t) ==
  /\ pc[t] = "dir" /\ CanRun(t)
  /\ Ask(t, compute_block_addr(work[t].src), work[t].off, "dir_entry", work[t])
  /\ KeepVolume

ErrEntry == [name |-> "", item |-> 0]

\* An error is an item of the stream, which goes on from where it stood; the
\* part of a long name read so far is forgotten.
StreamError(t, w) ==
  Continue(t, "dir", [w EXCEPT !.entries = Append(@, ErrEntry), !.name = ""])

DirItem(item) ==
  IF item \in DOMAIN DirItems THEN DirItems[item] ELSE [kind |-> "end"]

\* The entry that has been read: the end of the directory, a part of a long
\* name, or an entry.
Process(t, w) ==
  LET d == DirItem(w.item)
  IN  \/ d.kind = "end"
         /\ Continue(t, IF w.goal = "mount" THEN "register" ELSE "match", w)
      \/ d.kind = "long" /\ Continue(t, "dir", [w EXCEPT !.name = d.name])
      \/ /\ d.kind = "entry"
         /\ Continue(t, "dir",
              [w EXCEPT !.name = "", !.entries =
                 IF w.goal = "mount" THEN <<>>  \* logged
                 ELSE Append(@, [name |-> w.name, item |-> w.item])])

GotDirEntry(t) ==
  /\ pc[t] = "dir_entry" /\ CanRun(t)
  /\ LET w  == [work[t] EXCEPT !.item = Answer(t), !.off = @ + 1]
         over == w.off >= size_of_segment(w.src)
     IN  \/ ~call[t].ok /\ StreamError(t, work[t])
         \/ call[t].ok /\ ~over /\ Process(t, w)
         \/ /\ call[t].ok /\ over /\ w.src.kind = "Direct"
            /\ Process(t, [w EXCEPT !.off = 0, !.src.at = @ + 1])
         \/ /\ call[t].ok /\ over /\ w.src.kind = "Clusters"
            /\ Ask(t, params.fat_start, FatIndex(w.src.at), "dir_cluster",
                   [w EXCEPT !.off = 0])
  /\ KeepVolume

\* The next cluster of the directory; on an error the entry just read is
\* lost and the cluster is read again from its start.
GotDirCluster(t) ==
  /\ pc[t] = "dir_cluster" /\ CanRun(t)
  /\ IF call[t].ok THEN Process(t, [work[t] EXCEPT !.src.at = Answer(t)])
                   ELSE StreamError(t, work[t])
  /\ KeepVolume

-----------------------------------------------------------------------------
(* open_file and load_pages, for the tasks that spawn processes.  A job    *)
(* names a path, the page of the file to start from and how many to load,  *)
(* and the page of memory to load them to; or it is a call of the cache.   *)

Job(t) == Head(jobs[t])

\* The job is over; the outcome is in call[t].ok until the task goes on.
Finish(t, ok) ==
  /\ call' = [call EXCEPT ![t].ok = ok]
  /\ Goto(t, "returned") /\ running' = t
  /\ UNCHANGED <<nvmeVars, metadata, store, truth, audit, work>>

Panic(why) == PanicHere(why) /\ UNCHANGED work

\* find_entry_for_path: the next component, to be looked for in src.  None is
\* unwrapped, and the root is a todo!.
FindEntry(t, comps, src) ==
  IF comps = <<>> \/ (comps # <<>> /\ Head(comps) = Sep) THEN Panic("path")
  ELSE Continue(t, "dir", ListDirectory("open", comps, src))

StartJob(t) ==
  /\ boot = "mounted" /\ pc[t] = "idle" /\ jobs[t] # <<>> /\ CanRun(t)
  /\ LET j == Job(t)
         h == find_handler(registry, j.path)
     IN  \/ /\ j.op = "load" /\ h.found = "fat"
            /\ FindEntry(t, Components(h.rest), Root(params))
         \/ /\ j.op = "load" /\ h.found # "fat"
            /\ IF h.found = "panic" THEN Panic("path") ELSE Finish(t, FALSE)
         \/ /\ j.op = "copy"
            /\ CallCache(t, j.addr, j.off, j.len, j.src, "returned")
            /\ UNCHANGED <<nvmeVars, metadata, store, truth, work>>
  /\ KeepVolume

\* LongDirEntry::is_named: the long name, if there is one; a short name can
\* match only if its extension fills the three bytes it has.
is_named(e, name) ==
  IF e.name # "" THEN e.name = name
  ELSE DirItem(e.item).short_name = name /\ DirItem(e.item).full_extension

\* The directory has been collected: the first entry that is named so, or an
\* error before it, decides.
Match(t) ==
  /\ pc[t] = "match" /\ CanRun(t)
  /\ LET w == work[t]
         i == SelectInSeq(w.entries, LAMBDA e : e = ErrEntry \/ is_named(e, Head(w.comps)))
         d == DirItem(w.entries[i].item)
     IN  \/ i = 0 /\ Finish(t, FALSE)
         \/ i # 0 /\ w.entries[i] = ErrEntry /\ Finish(t, FALSE)
         \/ /\ i # 0 /\ w.entries[i] # ErrEntry /\ d.directory
            /\ FindEntry(t, Tail(w.comps), [kind |-> "Clusters", at |-> d.cluster])
         \/ /\ i # 0 /\ w.entries[i] # ErrEntry /\ ~d.directory
            /\ Continue(t, "load_pages", [NoWork EXCEPT !.cluster = d.cluster, !.size = d.size])
  /\ KeepVolume

PageItems == BlocksPerPage * PerBlock

src_offset(t) == Job(t).first * PageItems

\* spawn_process loads as many pages as the file has; a job may ask for less.
end_offset(t) ==
  LET asked == src_offset(t) + Job(t).pages * PageItems
  IN  IF asked < work[t].size THEN asked ELSE work[t].size

LoadPages(t) ==
  /\ pc[t] = "load_pages" /\ CanRun(t)
  /\ IF src_offset(t) > work[t].size THEN Finish(t, FALSE)
     ELSE Continue(t, "seek", work[t])
  /\ KeepVolume

\* Follow the FAT to the cluster the range starts in.
Seek(t) ==
  /\ pc[t] = "seek" /\ CanRun(t)
  /\ IF work[t].cur < src_offset(t)
     THEN Ask(t, params.fat_start, FatIndex(work[t].cluster), "sought", work[t])
     ELSE Continue(t, "read_cluster", work[t])
  /\ KeepVolume

\* The entry of the FAT that was asked for is the next cluster.
NextCluster(w, answer) == [w EXCEPT !.cluster = answer, !.cur = @ + ItemsPerCluster]

Sought(t) ==
  /\ pc[t] = "sought" /\ CanRun(t)
  /\ IF call[t].ok THEN Continue(t, "seek", NextCluster(work[t], Answer(t)))
                   ELSE Finish(t, FALSE)
  /\ KeepVolume

\* The cluster goes straight from the store to the destination.
ReadCluster(t) ==
  /\ pc[t] = "read_cluster" /\ CanRun(t)
  /\ IF work[t].cur < end_offset(t)
     THEN /\ call' = [call EXCEPT ![t] =
               [NoCall EXCEPT !.addr = sector_for_cluster(work[t].cluster),
                              !.len = params.sectors_per_cluster,
                              !.page = Job(t).dest + ((work[t].cur - src_offset(t)) \div PageItems),
                              !.then = "cluster_read"]]
          /\ Goto(t, "lock") /\ running' = t
          /\ UNCHANGED <<nvmeVars, metadata, store, truth, audit, work>>
     ELSE Finish(t, TRUE)
  /\ KeepVolume

ClusterRead(t) ==
  /\ pc[t] = "cluster_read" /\ CanRun(t)
  /\ IF call[t].ok
     THEN Ask(t, params.fat_start, FatIndex(work[t].cluster), "cluster_next", work[t])
     ELSE Finish(t, FALSE)
  /\ KeepVolume

ClusterNext(t) ==
  /\ pc[t] = "cluster_next" /\ CanRun(t)
  /\ IF call[t].ok THEN Continue(t, "read_cluster", NextCluster(work[t], Answer(t)))
                   ELSE Finish(t, FALSE)
  /\ KeepVolume

\* The caller has its answer and the task awaits its next job.
Return(t) ==
  /\ pc[t] = "returned" /\ CanRun(t)
  /\ jobs' = [jobs EXCEPT ![t] = Tail(@)]
  /\ work' = [work EXCEPT ![t] = NoWork]
  /\ call' = [call EXCEPT ![t] = NoCall]
  /\ audit' = [audit EXCEPT !.misled = {m \in @ : m[1] # t}]
  /\ Goto(t, "idle") /\ running' = NoTask
  /\ UNCHANGED <<nvmeVars, metadata, store, truth, registry, params>>

FatStep(t) ==
  \/ ReadDirEntry(t) \/ GotDirEntry(t) \/ GotDirCluster(t)
  \/ StartJob(t) \/ Match(t) \/ LoadPages(t) \/ Seek(t) \/ Sought(t)
  \/ ReadCluster(t) \/ ClusterRead(t) \/ ClusterNext(t) \/ Return(t)

MountStep == ReadMbr \/ CheckMbr \/ CheckBootSector \/ RegisterVolume

TaskStep(t) == FatStep(t) \/ (CacheStep(t) /\ UNCHANGED fatVars)

Driver  == (panicked = "" /\ BootStep) /\ UNCHANGED <<cacheVars, fatVars>>
Handler == (panicked = "" /\ HandleInterrupt) /\ UNCHANGED <<cacheVars, fatVars>>
Device  == (ControllerFollows \/ DeviceStep) /\ UNCHANGED <<cacheVars, fatVars>>
Waker   == (panicked = "" /\ SpuriousWake) /\ UNCHANGED <<cacheVars, fatVars>>

Next ==
  \/ Driver \/ Handler \/ Device \/ Waker \/ MountStep
  \/ \E t \in Tasks : TaskStep(t)

\* The controller answers, interrupts are taken and the executor runs; no
\* task is promised a spurious wake-up.
Spec ==
  /\ Init /\ [][Next]_vars
  /\ WF_vars(Driver) /\ WF_vars(Handler) /\ WF_vars(Device) /\ WF_vars(MountStep)
  /\ \A t \in Tasks : WF_vars(TaskStep(t))

-----------------------------------------------------------------------------

Labels == {"idle", "load_chunks", "lock", "submit", "poll", "copy", "mbr",
           "boot_sector", "register", "dir", "dir_entry", "dir_cluster", "match",
           "load_pages", "seek", "sought", "read_cluster", "cluster_read",
           "cluster_next", "returned"}

(* The variables keep their types: cursors stay within their rings, and    *)
(* the executor, the store and the ready queue name tasks.                 *)
TypeOK ==
  /\ \A q \in {admin, io} \ {NoQueue} :
       /\ {q.tail, q.head, q.doorbell} \subseteq 0 .. q.entries - 1
       /\ {q.cqHead, q.cqDoorbell} \subseteq 0 .. q.cqEntries - 1
  /\ DOMAIN pending_completions \subseteq 0 .. IdSpan - 1
  /\ next_cmd_id \in 0 .. IdSpan - 1
  /\ woken \subseteq Tasks
  /\ {store, running} \subseteq Tasks \cup {NoTask}
  /\ pc \in [Tasks -> Labels]
  /\ \A c \in DOMAIN metadata : metadata[c].tag \in Nat
  /\ \A p \in Pages : Len(mem[p]) = BlocksPerPage

\* The boot sector of the volume as it was formatted.
Format == BootSectors[truth[Mbrs[truth[0][1]].start_sector][1]]

\* Block i, from 0, of a file with these clusters, as FAT16 lays them out:
\* cluster 2 is behind the root directory.
FileBlock(clusters, i) ==
  LET n == Format.sectors_per_cluster
  IN  params.root_directory_start + Format.root_sectors
        + (clusters[1 + (i \div n)] - 2) * n + (i % n)

FileBlocks(j) ==
  {FileBlock(j.file, i) : i \in 0 .. Len(j.file) * Format.sectors_per_cluster - 1}

\* The pages asked for hold the file.
HoldsFile(j) ==
  \A k \in 0 .. j.pages * BlocksPerPage - 1 :
    LET i == j.first * BlocksPerPage + k
    IN  i < Len(j.file) * Format.sectors_per_cluster =>
          mem[j.dest + (k \div BlocksPerPage)][1 + (k % BlocksPerPage)] = disk[FileBlock(j.file, i)]

\* sector_for_cluster is right only where the root directory fills two clusters.
TwoClusterRoot == Format.root_sectors = 2 * Format.sectors_per_cluster

\* A command for the last block of the namespace asks for one more.
AtEnd(j) ==
  \/ j.op = "load" /\ Capacity - 1 \in FileBlocks(j)
  \/ /\ j.op = "copy"
     /\ (j.addr + (j.off \div PerBlock)) \div BlocksPerPage + CeilDiv(j.len, ChunkItems)
          >= Capacity \div BlocksPerPage

Misled(t) == \E m \in audit.misled : m[1] = t

(* What a task gets is what is on the disk: after a load that succeeds the *)
(* destination holds the clusters of the file the path names, after a copy *)
(* the slice holds the items as the last write left them; a load fails     *)
(* only if there is no such file, the device failed, or the last block of  *)
(* the namespace is asked for; no page outside the destinations is         *)
(* written, but the first block of page 0, where an unset pointer sends    *)
(* the block too many (open_file, load_pages, copy_bytes, set_data_ptrs).  *)
(* Excepted are volumes whose root directory does not fill two clusters,   *)
(* and tasks that were given the bytes of a spoiled block, of one behind   *)
(* the chunks loaded (block_cache.rs:225), or of a chunk another task was  *)
(* replacing (161): the last does not happen to a task alone at the cache. *)
AnswersAreExact ==
  /\ \A t \in Tasks : pc[t] = "returned" =>
       LET j == Job(t)
           c == call[t]
       IN  /\ <<t, "shared">> \in audit.misled => audit.users # {t}
           /\ ~Misled(t) /\ c.ok /\ j.op = "copy" /\ j.src = <<>> =>
                c.data = [k \in 1 .. c.len |-> Stored(truth, First(c) + k - 1)]
           /\ ~Misled(t) /\ TwoClusterRoot =>
                /\ ~c.ok => (j.op = "load" /\ j.file = <<>>) \/ faults > 0 \/ AtEnd(j)
                /\ c.ok /\ j.op = "load" => j.file # <<>> /\ HoldsFile(j)
  /\ \A p \in GuardPages, i \in 1 .. BlocksPerPage :
       mem[p][i] = Junk \/ (p = 0 /\ i = 1)

(* Every job is answered, unless the device or the volume made the boot    *)
(* fail, or the job is one that the code panics on: no completion is lost  *)
(* between the controller, the handler and the future (interrupt.rs), and  *)
(* no lock is kept (load_chunk, load_pages).                               *)
JobsAreAnswered ==
  <>(\/ panicked \in {"device", "mount"}
     \/ boot = "mounted" /\ \A t \in Tasks : jobs[t] = <<>>
     \/ \E t \in Tasks : jobs[t] # <<>> /\ panicked = Job(t).panic /\ panicked # "")
=============================================================================
