-------------------------------- MODULE Ext2 --------------------------------
(***************************************************************************)
(* The inode cache (kernel/fs/fs.c) over the ext2 file system              *)
(* (kernel/fs/ext2.c): what is on the disk, what is in memory, and the     *)
(* state changes the routines of ext2_inode_ops make to the two.           *)
(*                                                                         *)
(* bwrite() waits for the drive, so whatever a step writes is on the disk  *)
(* when the step ends and outlives a crash.  An inode has at most one      *)
(* block here, and a directory stays within its block: its entries live on *)
(* the disk only, for an entry counts once iupdate() has written the size  *)
(* that covers it.  The ext2fs_addrs entry of an inode is taken and given  *)
(* back with its icache slot, so the block number is a field of the slot.  *)
(***************************************************************************)
EXTENDS Integers, FiniteSets

CONSTANTS Procs,
          Inums,     \* inode numbers of the disk
          EXT2INO,   \* the root directory
          NINODE,    \* slots of the inode cache
          Blocks,    \* data blocks, beyond the root directory's
          Names,     \* file names, "." and ".." aside
          Images,    \* the file systems that the machine may boot with
          nullptr

Slots == 1..NINODE
DirNames == Names \cup {".", ".."}
Types == {"none", "dir", "file", "dev"}

(* A disk: the inodes and blocks that its bitmaps mark, its inode table    *)
(* and its directories.                                                    *)
Disks == [ibitmap : SUBSET Inums,
          bbitmap : SUBSET Blocks,
          dinode : [Inums -> [mode : Types, nlink : Nat, blk : Blocks \cup {0}]],
          dents : [Inums -> [DirNames -> Inums \cup {0}]]]

(* The directories of disk k, and the names they give to inode i. *)
DirsOf(k) == {d \in k.ibitmap : k.dinode[d].mode = "dir"}
NamesOf(k, i) == {e \in DirsOf(k) \X Names : k.dents[e[1]][e[2]] = i}

(* A directory that the root or another directory names. *)
LinkedDirsOf(k) == {d \in DirsOf(k) : d = EXT2INO \/ NamesOf(k, d) # {}}

(* The entries, other than a directory's own ".", that name inode i. *)
LinksOf(k, i) == NamesOf(k, i) \cup {e \in LinkedDirsOf(k) \X {".."} : k.dents[e[1]][".."] = i}

(* A disk that the routines below can work on: the root is a directory, a  *)
(* name is that of an inode in use, whose link count covers its names, a   *)
(* directory has one name at most and knows itself and its parent, and no  *)
(* block is used twice.  Inodes and blocks that are marked and that nobody *)
(* refers to are allowed: a crash may leave them behind.                   *)
Consistent(k) ==
    /\ EXT2INO \in DirsOf(k) /\ NamesOf(k, EXT2INO) = {} /\ k.dents[EXT2INO][".."] = EXT2INO
    /\ \A d \in LinkedDirsOf(k) : k.dents[d]["."] = d
    /\ \A i \in Inums : NamesOf(k, i) # {} => i \in k.ibitmap /\ k.dinode[i].mode # "none"
    /\ \A i \in DirsOf(k) : \A e, f \in NamesOf(k, i) : e = f /\ k.dents[i][".."] = e[1]
    /\ \A i \in Inums : k.dinode[i].nlink >= Cardinality(LinksOf(k, i))
    /\ \A i \in k.ibitmap : k.dinode[i].blk # 0 =>
          /\ k.dinode[i].blk \in k.bbitmap
          /\ \A j \in k.ibitmap \ {i} : k.dinode[j].blk # k.dinode[i].blk

(* With a slot for every inode iget() always finds one.  No block has the  *)
(* number 0, which stands for "no block", and no inode has the number 0.   *)
ASSUME Ext2Assumption ==
    /\ NINODE \in Nat
    /\ Inums \subseteq Nat \ {0}
    /\ IsFiniteSet(Inums)
    /\ Cardinality(Inums) <= NINODE
    /\ EXT2INO \in Inums
    /\ Blocks \subseteq Nat \ {0}
    /\ nullptr \notin Procs
    /\ IsFiniteSet(Procs) /\ IsFiniteSet(Names)
    /\ {".", "..", "/"} \cap Names = {}

(* mke2fs, and the calls of earlier boots, leave a consistent disk. *)
ASSUME ImagesAssumption == \A k \in Images : k \in Disks /\ Consistent(k)

VARIABLES
    ibitmap, bbitmap,  \* the inodes and blocks the bitmaps mark as used
    dinode,            \* the inode table
    dents,             \* the inode each entry of a directory names, or 0
    icache

diskVars == <<ibitmap, bbitmap, dinode, dents>>

NoDents == [n \in DirNames |-> 0]
FreeSlot == [inum |-> 0, ref |-> 0, valid |-> FALSE, type |-> "none",
             nlink |-> 0, blk |-> 0, lock |-> nullptr]

Ext2TypeOK ==
    /\ ibitmap \in SUBSET Inums
    /\ bbitmap \in SUBSET Blocks
    /\ dinode \in [Inums -> [mode : Types, nlink : Int, blk : Blocks \cup {0}]]
    /\ dents \in [Inums -> [DirNames -> Inums \cup {0}]]
    /\ icache \in [Slots -> [inum : Inums \cup {0}, ref : Nat, valid : BOOLEAN,
                             type : Types, nlink : Int, blk : Blocks \cup {0},
                             lock : Procs \cup {nullptr}]]

(* A file system as mkfs and the calls of earlier boots leave it. *)
DiskInit ==
    \E im \in Images :
        /\ ibitmap = im.ibitmap
        /\ bbitmap = im.bbitmap
        /\ dinode = im.dinode
        /\ dents = im.dents

-----------------------------------------------------------------------------
Least(S) == CHOOSE i \in S : \A j \in S : i <= j

Cached(inum) == {s \in Slots : icache[s].ref > 0 /\ icache[s].inum = inum}
Empty == {s \in Slots : icache[s].ref = 0}

(* iget(): the slot it returns, and what it leaves in the slot. *)
IgetSlot(inum) == IF Cached(inum) # {} THEN Least(Cached(inum)) ELSE Least(Empty)

(* Mutant of IgetEntry: a recycled slot keeps the valid bit of its last    *)
(* inode.                                                                  *)
IgetEntryStale(inum) ==
    LET i == icache[IgetSlot(inum)] IN
    IF Cached(inum) # {} THEN [i EXCEPT !.ref = @ + 1]
    ELSE [i EXCEPT !.inum = inum, !.ref = 1]

IgetEntry(inum) ==
    LET i == icache[IgetSlot(inum)] IN
    IF Cached(inum) # {} THEN [i EXCEPT !.ref = @ + 1]
    ELSE [i EXCEPT !.inum = inum, !.ref = 1, !.valid = FALSE]

Idup(s) == [icache[s] EXCEPT !.ref = @ + 1]

(* The cache when slot s becomes i and iget(inum) follows. *)
SetAndIget(s, i, inum) ==
    IF IgetSlot(inum) = s THEN [icache EXCEPT ![s] = [i EXCEPT !.ref = @ + 1]]
    ELSE [icache EXCEPT ![s] = i, ![IgetSlot(inum)] = IgetEntry(inum)]

(* ext2fs_ilock(): a slot that is not valid is filled from the disk.  A    *)
(* mode that is none of the three leaves the type of the slot as it was.   *)
Loaded(s) ==
    LET i == icache[s]
        d == dinode[i.inum]
    IN IF i.valid THEN i
       ELSE [i EXCEPT !.valid = TRUE, !.nlink = d.nlink, !.blk = d.blk,
                      !.type = IF d.mode = "none" THEN @ ELSE d.mode]

Locked(s, p) == [Loaded(s) EXCEPT !.lock = p]
Unlocked(i) == [i EXCEPT !.lock = nullptr]
IlockPanics(s) == icache[s].ref < 1 \/ Loaded(s).type = "none"

(* ext2fs_iupdate(): the inode table entry that a slot's contents make.    *)
(* A type of 0 leaves i_mode alone.                                        *)
IupdateEntry(i) ==
    [mode |-> IF i.type = "none" THEN dinode[i.inum].mode ELSE i.type,
     nlink |-> i.nlink, blk |-> i.blk]

(* Mutant of Iupdate: the link count is left out. *)
IupdateNoLinks(i) ==
    dinode' = [dinode EXCEPT ![i.inum] = [IupdateEntry(i) EXCEPT !.nlink = dinode[i.inum].nlink]]

Iupdate(i) == dinode' = [dinode EXCEPT ![i.inum] = IupdateEntry(i)]

(* ext2fs_dirlookup(): the inode an entry names, 0 if there is none. *)
Dirlookup(s, name) == dents[icache[s].inum][name]

(* isdirempty() *)
IsDirEmpty(s) == \A n \in Names : Dirlookup(s, n) = 0

FreeInums == Inums \ ibitmap
FreeBlocks == Blocks \ bbitmap

(* Mutant of Balloc: the bitmap is not written back. *)
BallocUnwritten(b) == b = Least(FreeBlocks) /\ bbitmap' = bbitmap

(* ext2fs_balloc(): the first free block b.  With none left the machine    *)
(* panics and the step does not happen.                                    *)
Balloc(b) ==
    /\ FreeBlocks # {}
    /\ b = Least(FreeBlocks)
    /\ bbitmap' = bbitmap \cup {b}
=============================================================================
