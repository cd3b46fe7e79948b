----------------------------- MODULE MCFatVolume -----------------------------
(***************************************************************************)
(* A small disk: two blocks to a page, two items to a block, eight chunks  *)
(* of cache.  The partition starts at block 1; its FAT is in blocks 4 to   *)
(* 7, the root directory (two clusters of four blocks) at block 12, and    *)
(* cluster n at block 12 + 4n.  The directory "sub" is in clusters 5 and   *)
(* 6, which share chunks with the boot sector and the FAT.  On one of the  *)
(* volumes the root directory is one cluster and all the others lie that   *)
(* much lower.                                                             *)
(***************************************************************************)
EXTENDS FatVolume

CONSTANTS t1, t2, none

MCTasks == {t1, t2}
MCPages == 0 .. 15
MCGuardPages == {0, 15}
MCJunk == <<-1, -1>>
MCRootPath == <<"/", "volumes", "/", "root", "/">>

EndOfChain == 65535

MCMbrs == (11 :> [magic |-> <<85, 170>>, start_sector |-> 1])
       @@ (12 :> [magic |-> <<0, 0>>, start_sector |-> 1])

GoodSector == [magic |-> <<85, 170>>, bytes_per_sector |-> 512, number_of_fats |-> 2,
               reserved_sectors_count |-> 3, fat_size_16 |-> 4, sectors_per_cluster |-> 4,
               root_sectors |-> 8]

MCBootSectors == (21 :> GoodSector) @@ (22 :> [GoodSector EXCEPT !.number_of_fats = 1])
              @@ (23 :> [GoodSector EXCEPT !.root_sectors = 4])

Entry(short, full, dir, cluster, size) ==
  [kind |-> "entry", short_name |-> short, full_extension |-> full,
   directory |-> dir, cluster |-> cluster, size |-> size]

MCDirItems ==
     (31 :> [kind |-> "long", name |-> "sub"])
  @@ (32 :> Entry("SUB~1", FALSE, TRUE, 5, 0))
  @@ (33 :> Entry("a.bin", TRUE, FALSE, 2, 16))
  @@ (34 :> [kind |-> "long", name |-> "bb"])
  @@ (35 :> Entry("BB~1", FALSE, FALSE, 3, 7))
  @@ (36 :> Entry("x", FALSE, FALSE, 0, 0))
  @@ (37 :> [kind |-> "long", name |-> "init"])
  @@ (38 :> Entry("INIT~1", FALSE, FALSE, 7, 8))

Fat == <<0, 0, 4, EndOfChain, EndOfChain, 6, EndOfChain, EndOfChain>>

Directory(items, b) == [i \in 1 .. 2 |-> IF 2 * b + i <= Len(items) THEN items[2 * b + i] ELSE 0]

Sub == <<36, 36, 36, 36, 36, 36, 36, 36, 37, 38>>

Disk(mbr, sector) ==
  LET root == MCBootSectors[sector].root_sectors
      sub  == 24 + root
  IN  [b \in 0 .. 45 |->
        CASE b = 0 -> <<mbr, 0>>
          [] b = 1 -> <<sector, 0>>
          [] b \in 4 .. 7 -> <<Fat[2 * (b - 4) + 1], Fat[2 * (b - 4) + 2]>>
          [] b \in 12 .. 11 + root -> Directory(<<31, 32, 33, 34, 35>>, b - 12)
          [] b \in sub .. sub + 7 -> Directory(Sub, b - sub)
          [] OTHER -> <<100 + b, 200 + b>>]

MCVolumes == {Disk(11, 21), Disk(12, 21), Disk(11, 22), Disk(11, 23)}

\* file: its clusters, none if the load must fail; panic: why the code stops.
Load(names, file, first, pages, dest) ==
  [op |-> "load", path |-> MCRootPath \o names, file |-> file,
   first |-> first, pages |-> pages, dest |-> dest, panic |-> ""]

Copy(addr, off, len, src) ==
  [op |-> "copy", path |-> <<>>, addr |-> addr, off |-> off, len |-> len, src |-> src, panic |-> ""]

Panics(job, why) == [job EXCEPT !.panic = why]

Idle == <<>>

\* Two tasks load files of the root directory.
TwoLoads ==
  (t1 :> <<Load(<<"a.bin">>, <<2, 4>>, 0, 4, 9)>>) @@ (t2 :> <<Load(<<"bb">>, <<3>>, 0, 2, 13)>>)

\* One loads from the directory that shares chunks with the FAT, and asks for
\* what is not there.
Paths ==
  (t1 :> <<Load(<<"sub", "/", "init">>, <<7>>, 0, 2, 9),
           Load(<<"a.bin">>, <<2, 4>>, 2, 2, 11),
           Load(<<"a.bin">>, <<>>, 5, 1, 9), Load(<<"c">>, <<>>, 0, 1, 9),
           [Load(<<>>, <<>>, 0, 1, 9) EXCEPT !.path = <<"/", "dev", "/", "usb">>],
           Panics(Load(<<"/", "a.bin">>, <<>>, 0, 1, 9), "path")>>)
    @@ (t2 :> Idle)

\* One writes to chunks that are not in the cache, and reads over the end of
\* the chunks it has loaded.
Misses ==
  (t1 :> <<Copy(28, 0, 3, <<901, 902, 903>>), Copy(12, 1, 2, <<>>), Copy(28, 1, 3, <<>>),
           Copy(24, 0, 6, <<>>), Copy(29, 0, 3, <<>>), Copy(25, 1, 2, <<904, 905>>),
           Copy(24, 3, 1, <<>>), Panics(Copy(14, 0, 5, <<>>), "chunk")>>)
    @@ (t2 :> Idle)

\* One writes to a chunk that is in the cache and not dirty, and lets go of it.
CleanWrite ==
  (t1 :> <<Copy(24, 0, 1, <<>>), Copy(24, 1, 1, <<901>>), Copy(24, 0, 3, <<>>),
           Copy(40, 0, 2, <<>>), Copy(24, 0, 4, <<>>), Copy(44, 0, 1, <<>>),
           Panics(Copy(15, 1, 2, <<>>), "slice")>>)
    @@ (t2 :> Idle)

\* Two write and read blocks that have one chunk between them.
OneChunk ==
  (t1 :> <<Copy(24, 1, 3, <<901, 902, 903>>), Copy(24, 1, 3, <<>>)>>)
    @@ (t2 :> <<Copy(8, 0, 2, <<>>), Copy(40, 0, 2, <<911, 912>>)>>)

\* One loads a file while the other writes, and reads what takes the FAT's chunk.
LoadAndWrite ==
  (t1 :> <<Copy(24, 1, 3, <<901, 902, 903>>), Copy(4, 0, 1, <<>>), Copy(20, 0, 4, <<>>)>>)
    @@ (t2 :> <<Load(<<"a.bin">>, <<2, 4>>, 2, 2, 9)>>)

MCWorkloads == {TwoLoads, Paths, Misses, CleanWrite, OneChunk, LoadAndWrite}

\* For the comment about write_bytes: one sound volume, one task.
OneVolume == {Disk(11, 21)}
OneWriter == {CleanWrite}
=============================================================================
