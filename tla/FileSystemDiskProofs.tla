------------------------ MODULE FileSystemDiskProofs ------------------------
(***************************************************************************)
(* What the file system calls do with the disk, for any number of          *)
(* processes, inodes, blocks, names, calls and crashes.                    *)
(*                                                                         *)
(* DInv relates what is on the disk, what the inode cache has and what the *)
(* call of each process has found out or still has to write.  Its parts    *)
(* are proved together: an inode is not freed under a process because a    *)
(* free inode has no entries, its entries are right because a process that *)
(* writes one has the inode, and so on.  One lemma per action, with the    *)
(* name of the action and a D, shows that the action keeps DInv.  Most     *)
(* actions are Normal steps: p touches only the slots and inodes that it   *)
(* has, so that whatever the others rely on stays.  Quiet steps write      *)
(* nothing at all.  The freeing of an inode (Frees) and its allocation     *)
(* (Allocs) are steps of their own kind.  The disk is fit for a boot at    *)
(* every moment (DiskFit), which is all that a crash asks for.             *)
(***************************************************************************)
EXTENDS FileSystemProofs

(* No path goes through "..": the ".." of a removed directory keeps naming *)
(* a parent that may be gone.                                              *)
NoDotDot ==
    \A c \in Calls : c.op \in PathOps =>
        /\ \A j \in 1..Len(c.path) : c.path[j] # ".."
        /\ c.op = "link" => \A j \in 1..Len(c.new) : c.new[j] # ".."

(* The inode that a slot caches, and whether the slot is in use. *)
Inum(s) == icache[s].inum
Live(s) == icache[s].ref > 0

(* A place that keeps its inode from being freed: any but the argument of  *)
(* an iput() that is past its test.                                        *)
PastPcs == {"bfree", "ifree_update", "iput_drop"}
Firm(x) == Holds(x) # 0 /\ ~(x[1] = "put1" /\ proc[x[2]].pc \in PastPcs)

(* The firm places of inode i. *)
Firms(i) == {x \in Places : Firm(x) /\ Inum(Holds(x)) = i}

(* Whatever a firm place holds is marked as used and has a type. *)
KeptOK == \A x \in Places : Firm(x) => /\ Inum(Holds(x)) \in ibitmap
                                       /\ dinode[Inum(Holds(x))].mode # "none"

(* A process in file_write() has the lock of an inode that it has open. *)
WritesOK ==
    \A p \in Procs, s \in Slots : proc[p].pc = "write" /\ icache[s].lock = p =>
        \E fd \in Fds : ofile[p][fd] # 0 /\ ftable[ofile[p][fd]].ip = s

(* An inode that ialloc() has picked, until create() writes it. *)
Blank(i) == dinode[i].nlink = 0 /\ dinode[i].blk = 0 /\ dents[i] = NoDents

(* It is blank, of the type that the call creates. *)
Fresh(r, i) == Blank(i) /\ dinode[i].mode = TypeOf(r.call.op)

(* The points of ialloc() between its two writes and its iget(). *)
Allocating == {"ialloc_bitmap", "ialloc_iget"}

(* What p allocates is its own: no place names it but the ip of p. *)
FreshAt(p) ==
    LET r == proc[p] IN
    /\ r.pc \in Allocating => /\ Fresh(r, r.ino)
                              /\ r.ino \in ibitmap <=> r.pc = "ialloc_iget"
                              /\ Firms(r.ino) = {}
    /\ r.pc = "create_inode" => Fresh(r, Inum(r.ip))
    /\ r.pc \in CreateIp \cup {"create_inode"} => Firms(Inum(r.ip)) \subseteq {<<"ip", p>>}

(* No two processes allocate one inode, nor hold the bitmap's buffer. *)
FreshOK ==
    /\ \A p \in Procs : FreshAt(p)
    /\ \A p, q \in Procs : /\ proc[p].pc \in Allocating
                           /\ proc[q].pc \in Allocating
                           /\ \/ proc[p].ino = proc[q].ino
                              \/ proc[p].pc = "ialloc_bitmap" /\ proc[q].pc = "ialloc_bitmap"
                           => p = q

(* An inode that iput() is freeing: nobody else uses it, and once it is    *)
(* marked as free whoever gets it leaves it blank as long as it is locked. *)
FreeAt(p) ==
    LET r == proc[p]
        s == Put(r, 1)
    IN /\ r.pc \in FreePcs => icache[s].nlink = 0
       /\ r.pc = "ifree" => Firms(Inum(s)) \subseteq {<<"put1", p>>}
       /\ r.pc = "bfree" => icache[s].blk # 0
       /\ r.pc = "ifree_update" => icache[s].blk = 0
       /\ r.pc \in {"bfree", "ifree_update"} /\ Inum(s) \in ibitmap => Blank(Inum(s))

(* The same of every process. *)
FreeOK == \A p \in Procs : FreeAt(p)

(* Inode i is a directory. *)
IsDir(i) == dinode[i].mode = "dir"

(* The points that use the last element of the path. *)
Naming == {"ialloc", "ialloc_bitmap", "ialloc_iget", "create_inode", "unlink_ip"} \cup CreateIp

(* The points at which link() has counted its link and not yet entered it. *)
LinkSide(r) == Point(r) \in LinkIp \/ (Point(r) = "namex" /\ r.ip # 0)

(* What the call of p relies on: the types of its inodes, the entries that *)
(* it has found or written, the contents of a new inode.                   *)
CallAt(p) ==
    LET r == proc[p] IN
    /\ Point(r) = "namex" => \A j \in 1..Len(r.rest) : r.rest[j] # ".."
    /\ r.pc \in Naming => LastOf(r) \in Names
    /\ r.dp # 0 => IsDir(Inum(r.dp))
    /\ LinkSide(r) => ~IsDir(Inum(r.ip))
    /\ r.pc \in CreateIp => icache[r.ip].nlink = 1 /\ icache[r.ip].type = TypeOf(r.call.op)
    /\ r.pc \in {"create_parent", "create_block"} => icache[r.ip].blk = 0
    /\ r.pc = "create_link" /\ r.call.op = "mkdir" =>
          dents[Inum(r.ip)]["."] = Inum(r.ip) /\ dents[Inum(r.ip)][".."] = Inum(r.dp)
    /\ r.pc = "create_dotdot" => dents[Inum(r.ip)]["."] = Inum(r.ip)
    /\ r.pc = "unlink_ip" => dents[Inum(r.dp)][LastOf(r)] = Inum(r.ip)

(* The same of every process. *)
CallsOK == \A p \in Procs : CallAt(p)

(* The inode of slot s is marked as free and not yet cleared. *)
Dying(s) == \E p \in Procs : Put(proc[p], 1) = s /\ proc[p].pc \in {"bfree", "ifree_update"}

(* Its new block is in the cache and not yet on the disk. *)
LateBlock(s) ==
    \E p \in Procs : /\ icache[s].lock = p
                     /\ proc[p].pc = "write" \/ (proc[p].pc = "create_dot" /\ proc[p].ip = s)

(* The disk's inode is the cached one, but for a late block. *)
Matches(s) ==
    /\ dinode[Inum(s)].mode = icache[s].type
    /\ dinode[Inum(s)].nlink = icache[s].nlink
    /\ dinode[Inum(s)].blk = IF LateBlock(s) THEN 0 ELSE icache[s].blk

(* A locked slot is filled; a filled one has a type and, unless its inode  *)
(* is being freed, matches the disk.                                       *)
ValidAt(s) ==
    Live(s) => /\ icache[s].lock # nullptr => icache[s].valid
               /\ icache[s].valid => icache[s].type # "none"
               /\ icache[s].valid /\ ~Dying(s) => Inum(s) \in ibitmap /\ Matches(s)

(* The same of every slot. *)
ValidOK == \A s \in Slots : ValidAt(s)

(* The link counts that a process in the middle of a call has written and  *)
(* for which there is no entry: yet, or any more.                          *)
OwesIp(r) == Point(r) \in CreateIp \cup {"unlink_parent", "unlink_dec"} \/ LinkSide(r)

(* The same of the parent directory of a mkdir() or an rmdir. *)
OwesDp(r) == \/ Point(r) \in {"create_block", "create_dot", "create_dotdot", "unlink_parent"}
             \/ Point(r) = "create_link" /\ r.call.op = "mkdir"

(* The places that owe a link, and those that owe one to inode i. *)
Owes(x) == (x[1] = "ip" /\ OwesIp(proc[x[2]])) \/ (x[1] = "dp" /\ OwesDp(proc[x[2]]))
Owed(i) == {x \in {"ip", "dp"} \X Procs : Owes(x) /\ Inum(Holds(x)) = i}

(* The link count covers the entries and what is owed. *)
CountOK ==
    \A i \in ibitmap : dinode[i].nlink >= Cardinality(LinksOf(Disk, i)) + Cardinality(Owed(i))

(* Block b belongs to inode i, on the disk or in the cache. *)
Owner(i, b) == \/ i \in ibitmap /\ dinode[i].blk = b
               \/ \E s \in Slots : Live(s) /\ icache[s].valid /\ Inum(s) = i /\ icache[s].blk = b

(* A block of an inode, on the disk or in the cache, is marked as used and *)
(* belongs to no other.                                                    *)
BlocksOK ==
    \A i \in Inums, b \in Blocks : Owner(i, b) => b \in bbitmap /\ \A j \in Inums : Owner(j, b) => i = j

(* A new directory that create() has not given its entries yet. *)
Building(i) ==
    \E p \in Procs : /\ proc[p].pc \in {"create_inode", "create_parent", "create_block", "create_dot"}
                     /\ Inum(proc[p].ip) = i

(* The root is a directory without a name; whatever a name leads to is in  *)
(* use; a directory has at most one name, which is in its parent.          *)
DirsOK ==
    /\ EXT2INO \in ibitmap /\ IsDir(EXT2INO)
    /\ NamesOf(Disk, EXT2INO) = {} /\ dents[EXT2INO][".."] = EXT2INO
    /\ \A i \in Inums : NamesOf(Disk, i) # {} => i \in ibitmap /\ dinode[i].mode # "none"
    /\ \A i \in DirsOf(Disk) : \A e, f \in NamesOf(Disk, i) : e = f /\ dents[i][".."] = e[1]

(* A directory that is used or named has its own entry, unless create() is *)
(* still building it.                                                      *)
SelfOK ==
    \A i \in ibitmap : IsDir(i) /\ (Firms(i) # {} \/ i \in LinkedDirsOf(Disk)) =>
        dents[i]["."] = i \/ Building(i)

(* The invariant. *)
DInv == KeptOK /\ WritesOK /\ FreshOK /\ FreeOK /\ CallsOK /\ ValidOK /\ CountOK /\ BlocksOK /\ DirsOK /\ SelfOK /\ ~panic

(* Which places are firm, place by place. *)
FirmWell ==
    /\ \A p \in Procs :
           /\ Firm(<<"n", p>>) <=> proc[p].n # 0
           /\ Firm(<<"ip", p>>) <=> proc[p].ip # 0
           /\ Firm(<<"dp", p>>) <=> proc[p].dp # 0
           /\ Firm(<<"put1", p>>) <=> Put(proc[p], 1) # 0 /\ proc[p].pc \notin PastPcs
           /\ Firm(<<"put2", p>>) <=> Put(proc[p], 2) # 0
           /\ Firm(<<"cwd", p>>) <=> cwd[p] # 0
    /\ \A f \in Files : Firm(<<"file", f>>) <=> ftable[f].ip # 0

(* A place is firm if it holds an inode, but for the argument of an iput() *)
(* past its test.                                                          *)
LEMMA FirmAlways == FirmWell
<1>1. ASSUME NEW p \in Procs
      PROVE  /\ Firm(<<"n", p>>) <=> proc[p].n # 0
             /\ Firm(<<"ip", p>>) <=> proc[p].ip # 0
             /\ Firm(<<"dp", p>>) <=> proc[p].dp # 0
             /\ Firm(<<"put1", p>>) <=> Put(proc[p], 1) # 0 /\ proc[p].pc \notin PastPcs
             /\ Firm(<<"put2", p>>) <=> Put(proc[p], 2) # 0
             /\ Firm(<<"cwd", p>>) <=> cwd[p] # 0
  <2>1. \A c : <<c, p>>[1] = c /\ <<c, p>>[2] = p
    OBVIOUS
  <2>q. QED BY <2>1, HoldsProc DEF Firm
<1>2. ASSUME NEW f \in Files PROVE Firm(<<"file", f>>) <=> ftable[f].ip # 0
  BY HoldsFile DEF Firm
<1>q. QED BY <1>1, <1>2 DEF FirmWell

(* The same of the next state. *)
LEMMA FirmNext == FirmWell'
BY FirmAlways, PTL

(* What a place holds is a cached inode. *)
LEMMA HoldsUsable ==
    ASSUME MInv, NEW x \in Places, Holds(x) # 0
    PROVE  Usable(Holds(x))
<1>1. CASE \E f \in Files : x = <<"file", f>>
  <2>1. PICK f \in Files : x = <<"file", f>>
    BY <1>1
  <2>2. Holds(x) = ftable[f].ip
    BY <2>1, HoldsFile
  <2>3. ftable[f].ip \in Slots
    BY <2>2 DEF MInv, MemTypes, FileRecords
  <2>q. QED BY <2>2, <2>3, HeldFile DEF Usable
<1>2. CASE \E p \in Procs : x \in {<<"n", p>>, <<"ip", p>>, <<"dp", p>>, <<"put1", p>>, <<"put2", p>>, <<"cwd", p>>}
  <2>1. PICK p \in Procs : x \in {<<"n", p>>, <<"ip", p>>, <<"dp", p>>, <<"put1", p>>, <<"put2", p>>, <<"cwd", p>>}
    BY <1>2
  <2>2. Holds(x) \in {proc[p].n, proc[p].ip, proc[p].dp, Put(proc[p], 1), Put(proc[p], 2), cwd[p]}
    BY <2>1, HoldsProc
  <2>3. /\ proc[p].n \in Slots \cup {0} /\ proc[p].ip \in Slots \cup {0} /\ proc[p].dp \in Slots \cup {0}
        /\ cwd[p] \in Slots \cup {0} /\ proc[p].puts \in Seq(Slots)
    BY DEF MInv, Shapes, Records, MemTypes
  <2>4. Put(proc[p], 1) \in Slots \cup {0} /\ Put(proc[p], 2) \in Slots \cup {0}
    BY <2>3 DEF Put
  <2>5. Holds(x) \in Slots
    BY <2>2, <2>3, <2>4
  <2>q. QED BY <2>2, <2>5, HeldUsable
<1>q. QED BY <1>1, <1>2, PlaceKinds

(* Two cached slots of one inode are one. *)
LEMMA SameSlot ==
    ASSUME MInv, NEW s \in Slots, NEW t \in Slots, Live(s), Live(t), Inum(s) = Inum(t)
    PROVE  s = t
BY DEF MInv, SlotsOK, Live, Inum

(* The lock of a slot is that of a process that has the inode: through one *)
(* of its own places or an open file, unless it is freeing it.             *)
FreedPcs == {"bfree", "ifree_update"}

(* p has the inode of slot s in a firm place, or in a shared one. *)
Owned(p, s) == \E x \in Places : Firm(x) /\ Holds(x) = s /\ (x[1] \in {"file", "cwd"} \/ x[2] = p)

(* What p has in a place of its own, in an open file or as a working       *)
(* directory it owns.                                                      *)
LEMMA OwnPlaces ==
    ASSUME NEW p \in Procs, NEW s, s # 0,
           \/ s \in {proc[p].n, proc[p].ip, proc[p].dp, Put(proc[p], 2), cwd[p]}
           \/ s = Put(proc[p], 1) /\ proc[p].pc \notin PastPcs
           \/ \E f \in Files : s = ftable[f].ip
           \/ \E q \in Procs : s = cwd[q]
    PROVE  Owned(p, s)
<1>0. \A c : \A q \in Procs : <<c, q>>[1] = c /\ <<c, q>>[2] = q
  OBVIOUS
<1>1. CASE s \in {proc[p].n, proc[p].ip, proc[p].dp, Put(proc[p], 2), cwd[p]}
  <2>1. PICK x \in {<<"n", p>>, <<"ip", p>>, <<"dp", p>>, <<"put2", p>>, <<"cwd", p>>} : Holds(x) = s
    BY <1>1, HoldsProc
  <2>2. x \in Places
    BY HoldsProc
  <2>2a. x[2] = p
    OBVIOUS
  <2>3. Firm(x)
    BY <2>1, HoldsProc, FirmAlways DEF FirmWell
  <2>q. QED BY <2>1, <2>2, <2>2a, <2>3 DEF Owned
<1>2. CASE s = Put(proc[p], 1) /\ proc[p].pc \notin PastPcs
  <2>1. /\ <<"put1", p>> \in Places /\ Holds(<<"put1", p>>) = s
        /\ Firm(<<"put1", p>>) /\ <<"put1", p>>[2] = p
    BY <1>0, <1>2, HoldsProc, FirmAlways DEF FirmWell
  <2>q. QED BY <2>1 DEF Owned
<1>3. CASE \E f \in Files : s = ftable[f].ip
  <2>1. PICK f \in Files : s = ftable[f].ip
    BY <1>3
  <2>2. <<"file", f>> \in Places /\ Holds(<<"file", f>>) = s /\ Firm(<<"file", f>>) /\ <<"file", f>>[1] = "file"
    BY <2>1, HoldsFile, FirmAlways DEF FirmWell
  <2>q. QED BY <2>2 DEF Owned
<1>4. CASE \E q \in Procs : s = cwd[q]
  <2>1. PICK q \in Procs : s = cwd[q]
    BY <1>4
  <2>2. <<"cwd", q>> \in Places /\ Holds(<<"cwd", q>>) = s /\ Firm(<<"cwd", q>>) /\ <<"cwd", q>>[1] = "cwd"
    BY <1>0, <2>1, HoldsProc, FirmAlways DEF FirmWell
  <2>q. QED BY <2>2 DEF Owned
<1>q. QED BY <1>1, <1>2, <1>3, <1>4

(* A lock is held by a process that owns the inode or is freeing it. *)
LEMMA LockedUsable ==
    ASSUME MInv, WritesOK, NEW p \in Procs, NEW s \in Slots, icache[s].lock = p
    PROVE  /\ Usable(s)
           /\ Owned(p, s) \/ (proc[p].pc \in FreedPcs /\ Put(proc[p], 1) = s)
<1>1. CASE proc[p].pc = "write"
  <2>1. PICK fd \in Fds : ofile[p][fd] # 0 /\ ftable[ofile[p][fd]].ip = s
    BY <1>1 DEF WritesOK
  <2>2. ofile[p][fd] \in Files /\ Usable(s)
    BY <2>1, OpenFile
  <2>3. s # 0
    BY <2>2 DEF Slots, Usable
  <2>q. QED BY <2>1, <2>2, <2>3, OwnPlaces
<1>2. CASE proc[p].pc # "write"
  <2>1. Locks(proc[p], s)
    BY <1>2 DEF MInv, LocksOK
  <2>2. s \in {proc[p].ip, proc[p].dp} \/ (proc[p].pc \in FreePcs /\ Put(proc[p], 1) = s)
    BY <2>1 DEF Locks, LocksAt
  <2>3. Usable(s)
    BY <2>2, HeldUsable
  <2>4. s # 0
    BY DEF Slots
  <2>5. "ifree" \notin PastPcs /\ (proc[p].pc \in FreePcs => proc[p].pc = "ifree" \/ proc[p].pc \in FreedPcs)
    BY DEF PastPcs, FreePcs, FreedPcs
  <2>6. proc[p].pc \in FreePcs /\ Put(proc[p], 1) = s => Owned(p, s) \/ (proc[p].pc \in FreedPcs /\ Put(proc[p], 1) = s)
    BY <2>4, <2>5, OwnPlaces
  <2>q. QED BY <2>2, <2>3, <2>4, <2>6, OwnPlaces
<1>q. QED BY <1>1, <1>2

(* An inode that is being freed is locked for that. *)
LEMMA DyingLocked ==
    ASSUME MInv, NEW s \in Slots, NEW p \in Procs, Put(proc[p], 1) = s, proc[p].pc \in FreePcs
    PROVE  icache[s].lock = p
BY Freeing

(* Whoever owns a slot keeps its inode. *)
LEMMA OwnedKept ==
    ASSUME MInv, KeptOK, NEW p, NEW s, Owned(p, s)
    PROVE  /\ Usable(s) /\ Inum(s) \in ibitmap /\ dinode[Inum(s)].mode # "none"
           /\ \E x \in Firms(Inum(s)) : x[1] \in {"file", "cwd"} \/ x[2] = p
<1>1. PICK x \in Places : Firm(x) /\ Holds(x) = s /\ (x[1] \in {"file", "cwd"} \/ x[2] = p)
  BY DEF Owned
<1>2. Usable(s)
  BY <1>1, HoldsUsable DEF Firm
<1>3. x \in Firms(Inum(s))
  BY <1>1 DEF Firms
<1>q. QED BY <1>1, <1>2, <1>3 DEF KeptOK

(* The entries that name an inode, of the disk as it is. *)
LN(i) == NamesOf(Disk, i)
LD == LinkedDirsOf(Disk)
LL(i) == LinksOf(Disk, i)

(* What these sets contain. *)
LinksWell ==
    /\ \A i, d, n : <<d, n>> \in LN(i) <=> d \in ibitmap /\ IsDir(d) /\ n \in Names /\ dents[d][n] = i
    /\ \A i : \A e \in LN(i) : e = <<e[1], e[2]>>
    /\ \A d : d \in LD <=> d \in ibitmap /\ IsDir(d) /\ (d = EXT2INO \/ LN(d) # {})
    /\ \A i, e : e \in LL(i) <=> e \in LN(i) \/ \E d \in LD : e = <<d, "..">> /\ dents[d][".."] = i
    /\ DirsOf(Disk) = {d \in ibitmap : IsDir(d)}

(* The entries that name an inode are those of the directories in use, and *)
(* the ".." of the linked ones.                                            *)
LEMMA LinksAlways == LinksWell
<1>1. Disk.ibitmap = ibitmap /\ Disk.dinode = dinode /\ Disk.dents = dents
  BY DEF Disk
<1>2. DirsOf(Disk) = {d \in ibitmap : IsDir(d)}
  BY <1>1 DEF DirsOf, IsDir
<1>3. \A i : LN(i) = {e \in {d \in ibitmap : IsDir(d)} \X Names : dents[e[1]][e[2]] = i}
  BY <1>1, <1>2 DEF LN, NamesOf
<1>4. \A i, d, n : <<d, n>> \in LN(i) <=> d \in ibitmap /\ IsDir(d) /\ n \in Names /\ dents[d][n] = i
  BY <1>3
<1>5. \A i : \A e \in LN(i) : e = <<e[1], e[2]>>
  BY <1>3
<1>6. \A d : d \in LD <=> d \in ibitmap /\ IsDir(d) /\ (d = EXT2INO \/ LN(d) # {})
  BY <1>2 DEF LD, LinkedDirsOf, LN
<1>7. \A i : LL(i) = LN(i) \cup {e \in LD \X {".."} : dents[e[1]][".."] = i}
  BY <1>1 DEF LL, LinksOf, LN, LD
<1>8. ASSUME NEW i, NEW e
      PROVE  e \in LL(i) <=> e \in LN(i) \/ \E d \in LD : e = <<d, "..">> /\ dents[d][".."] = i
  <2>1. e \in {x \in LD \X {".."} : dents[x[1]][".."] = i} <=> \E d \in LD : e = <<d, "..">> /\ dents[d][".."] = i
    OBVIOUS
  <2>q. QED BY <1>7, <2>1
<1>q. QED BY <1>2, <1>4, <1>5, <1>6, <1>8 DEF LinksWell

(* The same of the next state. *)
LEMMA LinksNext == LinksWell'
BY LinksAlways, PTL

(* They are finitely many. *)
LinksFew == \A i : IsFiniteSet(LL(i)) /\ Cardinality(LL(i)) \in Nat

(* An inode has finitely many entries, so their number is a natural        *)
(* number.                                                                 *)
LEMMA LinksFinite ==
    ASSUME DiskTypes
    PROVE  LinksFew
<1>1. IsFiniteSet(DirNames)
  <2>1. IsFiniteSet({"."}) /\ IsFiniteSet({".."})
    BY FS_Singleton
  <2>2. IsFiniteSet({"."} \cup {".."})
    BY <2>1, FS_Union
  <2>3. {".", ".."} = {"."} \cup {".."}
    OBVIOUS
  <2>q. QED BY <2>2, <2>3, Ext2Assumption, FS_Union DEF DirNames
<1>2. IsFiniteSet(Inums \X DirNames)
  BY <1>1, Ext2Assumption, FS_Product
<1>3. ASSUME NEW i, NEW e \in LL(i) PROVE e \in Inums \X DirNames
  <2>1. CASE e \in LN(i)
    <3>1. e = <<e[1], e[2]>>
      BY <2>1, LinksAlways DEF LinksWell
    <3>2. e[1] \in ibitmap /\ e[2] \in Names
      BY <2>1, <3>1, LinksAlways DEF LinksWell
    <3>q. QED BY <3>1, <3>2 DEF DiskTypes, DirNames
  <2>2. CASE \E d \in LD : e = <<d, "..">> /\ dents[d][".."] = i
    <3>1. PICK d \in LD : e = <<d, "..">>
      BY <2>2
    <3>2. d \in ibitmap
      BY LinksAlways DEF LinksWell
    <3>q. QED BY <3>1, <3>2 DEF DiskTypes, DirNames
  <2>q. QED BY <2>1, <2>2, LinksAlways DEF LinksWell
<1>4. \A i : LL(i) \subseteq Inums \X DirNames
  BY <1>3
<1>q. QED BY <1>2, <1>4, FS_Subset, FS_CardinalityType DEF LinksFew

(* The same, as a fact about any state. *)
LinksFewAlways == DiskTypes => LinksFew

(* The number of entries is a natural number whenever the disk has its     *)
(* type.                                                                   *)
LEMMA LinksFewWell == LinksFewAlways
BY LinksFinite DEF LinksFewAlways

(* The same of the next state. *)
LEMMA LinksFewLater == LinksFewAlways'
BY LinksFewWell, PTL

(* The number of entries after a step. *)
LEMMA LinksFewNext ==
    ASSUME DiskTypes'
    PROVE  LinksFew'
BY LinksFewLater DEF LinksFewAlways

(* An inode that an entry names is in use and has a type. *)
LEMMA LinkedLives ==
    ASSUME DiskTypes, DirsOK, NEW i \in Inums, LL(i) # {}
    PROVE  i \in ibitmap /\ dinode[i].mode # "none"
<1>0. \A j \in Inums : LN(j) # {} => j \in ibitmap /\ dinode[j].mode # "none"
  BY DEF DirsOK, LN
<1>1. PICK e : e \in LL(i)
  OBVIOUS
<1>2. CASE e \in LN(i)
  BY <1>0, <1>2
<1>3. CASE \E d \in LD : e = <<d, "..">> /\ dents[d][".."] = i
  <2>1. PICK d \in LD : dents[d][".."] = i
    BY <1>3
  <2>2. d \in ibitmap /\ IsDir(d) /\ (d = EXT2INO \/ LN(d) # {})
    BY LinksAlways DEF LinksWell
  <2>3. CASE d = EXT2INO
    BY <2>1, <2>3 DEF DirsOK, IsDir
  <2>4. CASE LN(d) # {}
    <3>1. PICK f : f \in LN(d)
      BY <2>4
    <3>2. i = f[1]
      BY <2>1, <2>2, <3>1, LinksAlways DEF DirsOK, LinksWell, LN
    <3>3. f[1] \in ibitmap /\ IsDir(f[1])
      BY <3>1, LinksAlways DEF LinksWell
    <3>q. QED BY <3>2, <3>3 DEF IsDir
  <2>q. QED BY <2>2, <2>3, <2>4
<1>q. QED BY <1>1, <1>2, <1>3, LinksAlways DEF LinksWell

(* Link counts that are owed: by the others, and by process p. *)
Rest(i, p) == {x \in Owed(i) : x[2] # p}

(* Nothing or one. *)
OneIf(b) == IF b THEN 1 ELSE 0

(* The link counts that p owes to inode i. *)
Debt(p, i) == OneIf(OwesIp(proc[p]) /\ Inum(proc[p].ip) = i) + OneIf(OwesDp(proc[p]) /\ Inum(proc[p].dp) = i)

(* Membership, place by place. *)
OwedWell ==
    \A p \in Procs : \A i :
        /\ <<"ip", p>> \in Owed(i) <=> OwesIp(proc[p]) /\ Inum(proc[p].ip) = i
        /\ <<"dp", p>> \in Owed(i) <=> OwesDp(proc[p]) /\ Inum(proc[p].dp) = i

(* A process owes a link through the ip or the dp of its call. *)
LEMMA OwedAlways == OwedWell
<1>1. ASSUME NEW p \in Procs, NEW i
      PROVE  /\ <<"ip", p>> \in Owed(i) <=> OwesIp(proc[p]) /\ Inum(proc[p].ip) = i
             /\ <<"dp", p>> \in Owed(i) <=> OwesDp(proc[p]) /\ Inum(proc[p].dp) = i
  <2>1. \A c : <<c, p>>[1] = c /\ <<c, p>>[2] = p
    OBVIOUS
  <2>2. <<"ip", p>> \in {"ip", "dp"} \X Procs /\ <<"dp", p>> \in {"ip", "dp"} \X Procs
    OBVIOUS
  <2>q. QED BY <2>1, <2>2, HoldsProc DEF Owed, Owes
<1>q. QED BY <1>1 DEF OwedWell

(* The same of the next state. *)
LEMMA OwedNext == OwedWell'
BY OwedAlways, PTL

(* These sets are finite. *)
OwedCounts ==
    \A i, p : /\ IsFiniteSet(Owed(i)) /\ Cardinality(Owed(i)) \in Nat
              /\ IsFiniteSet(Rest(i, p)) /\ Cardinality(Rest(i, p)) \in Nat

(* What is owed is what the others owe and what p owes. *)
OwedSplits == \A p \in Procs : \A i : Cardinality(Owed(i)) = Cardinality(Rest(i, p)) + Debt(p, i)

(* The links that are owed are those of p and those of the others. *)
LEMMA OwedSplit == OwedCounts /\ OwedSplits
<1>1. OwedCounts
  <2>0. IsFiniteSet({"ip", "dp"})
    <3>1. IsFiniteSet({"ip"}) /\ IsFiniteSet({"dp"})
      BY FS_Singleton
    <3>2. IsFiniteSet({"ip"} \cup {"dp"})
      BY <3>1, FS_Union
    <3>3. {"ip", "dp"} = {"ip"} \cup {"dp"}
      OBVIOUS
    <3>q. QED BY <3>2, <3>3
  <2>1. IsFiniteSet({"ip", "dp"} \X Procs)
    BY <2>0, Ext2Assumption, FS_Product
  <2>2. \A i, p : Owed(i) \subseteq {"ip", "dp"} \X Procs /\ Rest(i, p) \subseteq {"ip", "dp"} \X Procs
    BY DEF Owed, Rest
  <2>q. QED BY <2>1, <2>2, FS_Subset, FS_CardinalityType DEF OwedCounts
<1>2. ASSUME NEW p \in Procs, NEW i
      PROVE  Cardinality(Owed(i)) = Cardinality(Rest(i, p)) + Debt(p, i)
  <2> DEFINE a == OwesIp(proc[p]) /\ Inum(proc[p].ip) = i
             b == OwesDp(proc[p]) /\ Inum(proc[p].dp) = i
             S0 == Rest(i, p)
             S1 == IF a THEN S0 \cup {<<"ip", p>>} ELSE S0
             S2 == IF b THEN S1 \cup {<<"dp", p>>} ELSE S1
  <2>1. /\ <<"ip", p>> \in Owed(i) <=> a
        /\ <<"dp", p>> \in Owed(i) <=> b
    BY OwedAlways DEF OwedWell
  <2>2. <<"ip", p>> \notin S0 /\ <<"dp", p>> \notin S1
    <3>1. \A x \in S0 : x[2] # p
      BY DEF Rest
    <3>q. QED BY <3>1
  <2>3. Owed(i) = S2
    <3>1. ASSUME NEW x \in Owed(i) PROVE x \in S2
      <4>1. x \in {"ip", "dp"} \X Procs
        BY DEF Owed
      <4>2. CASE x[2] # p
        BY <4>2 DEF Rest
      <4>3. CASE x[2] = p
        <5>1. x = <<"ip", p>> \/ x = <<"dp", p>>
          BY <4>1, <4>3
        <5>q. QED BY <5>1, <2>1, <3>1
      <4>q. QED BY <4>2, <4>3
    <3>2. ASSUME NEW x \in S2 PROVE x \in Owed(i)
      <4>1. S0 \subseteq Owed(i)
        BY DEF Rest
      <4>q. QED BY <3>2, <4>1, <2>1
    <3>q. QED BY <3>1, <3>2
  <2>4. IsFiniteSet(S0) /\ Cardinality(S0) \in Nat
    BY <1>1 DEF OwedCounts
  <2> HIDE DEF S0, a, b
  <2>5. IsFiniteSet(S1) /\ Cardinality(S1) = Cardinality(S0) + OneIf(a) /\ Cardinality(S1) \in Nat
    BY <2>2, <2>4, FS_AddElement DEF OneIf
  <2> HIDE DEF S1
  <2>6. Cardinality(S2) = Cardinality(S1) + OneIf(b)
    <3>1. CASE b
      <4>1. S2 = S1 \cup {<<"dp", p>>} /\ OneIf(b) = 1
        BY <3>1 DEF OneIf
      <4>q. QED BY <2>2, <2>5, <4>1, FS_AddElement
    <3>2. CASE ~b
      <4>1. S2 = S1 /\ OneIf(b) = 0
        BY <3>2 DEF OneIf
      <4>2. PICK k : k = Cardinality(S1)
        OBVIOUS
      <4>3. k \in Nat /\ k + 0 = k
        BY <2>5, <4>2
      <4> HIDE DEF S2
      <4>q. QED BY <4>1, <4>2, <4>3
    <3>q. QED BY <3>1, <3>2
  <2> HIDE DEF S2
  <2>7. OneIf(a) \in Nat /\ OneIf(b) \in Nat
    BY DEF OneIf
  <2>8. Debt(p, i) = OneIf(a) + OneIf(b)
    BY DEF Debt, a, b
  <2>9. S0 = Rest(i, p)
    BY DEF S0
  <2>q. QED BY <2>3, <2>4, <2>5, <2>6, <2>7, <2>8, <2>9
<1>q. QED BY <1>1, <1>2 DEF OwedSplits

(* The same of the next state. *)
LEMMA OwedSplitNext == OwedCounts' /\ OwedSplits'
BY OwedSplit, PTL

(* An inode without links has no entries, and nobody owes it one. *)
LEMMA NoLinks ==
    ASSUME DiskTypes, DirsOK, CountOK, NEW i \in Inums, i \in ibitmap => dinode[i].nlink = 0
    PROVE  /\ LL(i) = {}
           /\ i \in ibitmap => Owed(i) = {}
<1>1. CASE i \notin ibitmap
  BY <1>1, LinkedLives
<1>2. CASE i \in ibitmap
  <2>1. PICK a, b : a = Cardinality(LL(i)) /\ b = Cardinality(Owed(i))
    OBVIOUS
  <2>2. a \in Nat /\ b \in Nat /\ IsFiniteSet(LL(i)) /\ IsFiniteSet(Owed(i))
    BY <2>1, LinksFinite, OwedSplit DEF LinksFew, OwedCounts
  <2>3. 0 >= a + b
    BY <1>2, <2>1 DEF CountOK, LL
  <2>4. a = 0 /\ b = 0
    BY <2>2, <2>3
  <2>q. QED BY <2>1, <2>2, <2>4, FS_EmptySet
<1>q. QED BY <1>1, <1>2

(***************************************************************************)
(* A step of process p that frees and allocates no inode                   *)
(***************************************************************************)
Same(t) == /\ icache'[t].inum = icache[t].inum
           /\ icache'[t].valid = icache[t].valid
           /\ icache'[t].type = icache[t].type
           /\ icache'[t].nlink = icache[t].nlink
           /\ icache'[t].blk = icache[t].blk

(* Its lock is p's to take and to release. *)
Handed(p, t) == \/ icache'[t].lock = icache[t].lock
                \/ icache[t].lock \in {p, nullptr} /\ icache'[t].lock \in {p, nullptr}

(* p is between the allocation of a block and the write of its inode. *)
Late(p, t) == icache[t].lock = p /\ (proc[p].pc = "write" \/ (proc[p].pc = "create_dot" /\ proc[p].ip = t))

(* What may become of a slot: it was free and is taken over, it keeps its  *)
(* contents, it is filled from the disk, or it is written.                 *)
FreeCell(t) == icache[t].ref = 0 /\ (icache'[t] = icache[t] \/ (~icache'[t].valid /\ icache'[t].lock = nullptr))
KeptCell(p, t) ==
    /\ Same(t) /\ Handed(p, t)
    /\ ~Late(p, t) /\ ~Late(p, t)'
    /\ icache'[t].lock = p /\ icache[t].lock # p => icache[t].valid
FilledCell(p, t) ==
    /\ Owned(p, t) /\ icache[t].lock = nullptr /\ icache'[t].lock \in {p, nullptr}
    /\ ~Late(p, t)'
    /\ icache'[t].inum = Inum(t) /\ icache'[t].valid
    /\ icache'[t].type = dinode[Inum(t)].mode
    /\ icache'[t].nlink = dinode[Inum(t)].nlink
    /\ icache'[t].blk = dinode[Inum(t)].blk
WroteCell(p, t) ==
    /\ Owned(p, t) /\ icache[t].lock \in {p, nullptr} /\ icache'[t].lock \in {p, nullptr}
    /\ icache'[t].inum = Inum(t)
    /\ ValidAt(t)'
Cell(p, t) == FreeCell(t) \/ (Live(t) /\ (KeptCell(p, t) \/ FilledCell(p, t) \/ WroteCell(p, t)))

(* Only inodes are written whose slots p has, and has locked. *)
Disked(p) ==
    /\ ibitmap' = ibitmap
    /\ \A i \in Inums : /\ dinode'[i].mode = dinode[i].mode
                        /\ dinode'[i] # dinode[i] => \E s \in Slots : WroteCell(p, s) /\ Inum(s) = i
                        /\ dents'[i] # dents[i] => \E s \in Slots : /\ Owned(p, s) /\ Inum(s) = i
                                                                    /\ icache[s].lock \in {p, nullptr}

(* The root, and whatever a name leads to. *)
Linked(i) == i = EXT2INO \/ LN(i) # {}

(* What is linked has an entry: the root has its own "..". *)
LEMMA LinkedLinks ==
    ASSUME DiskTypes, DirsOK, NEW i, Linked(i)
    PROVE  LL(i) # {}
<1>1. CASE i = EXT2INO
  <2>1. EXT2INO \in LD
    BY LinksAlways DEF LinksWell, DirsOK
  <2>2. <<EXT2INO, "..">> \in LL(i)
    BY <1>1, <2>1, LinksAlways DEF LinksWell, DirsOK
  <2>q. QED BY <2>2
<1>2. CASE LN(i) # {}
  BY <1>2, LinksAlways DEF LinksWell
<1>q. QED BY <1>1, <1>2 DEF Linked

(* A place that becomes firm has an inode that p already had, one that an  *)
(* entry names, or the one that p has just allocated.                      *)
Growth(p) ==
    \A x \in Places : Firm(x)' =>
        \/ Firm(x) /\ Holds(x)' = Holds(x)
        \/ Owned(p, Holds(x)')
        \/ Linked(icache'[Holds(x)'].inum)
        \/ proc[p].pc = "ialloc_iget" /\ x = <<"ip", p>> /\ icache'[Holds(x)'].inum = proc[p].ino

(* A step of p that touches only what p has. *)
Normal(p) ==
    /\ \A q \in Procs \ {p} : proc'[q] = proc[q]
    /\ proc[p].pc \notin FreedPcs /\ proc'[p].pc \notin FreedPcs \cup Allocating
    /\ \A t \in Slots : Cell(p, t)
    /\ Disked(p)
    /\ Growth(p)

(* The invariants before a step; what RInvariant gives after it. *)
Before == RInv /\ DInv

(* The parts of the invariants. *)
LEMMA BeforeParts ==
    ASSUME Before
    PROVE  /\ MInv /\ DiskTypes /\ KeptOK /\ WritesOK /\ FreshOK /\ FreeOK /\ CallsOK /\ ValidOK /\ CountOK
           /\ BlocksOK /\ DirsOK /\ SelfOK
BY DEF Before, RInv, DInv

(* A cached inode stays in its slot. *)
LEMMA InumStays ==
    ASSUME NEW p \in Procs, NEW t, Cell(p, t), Live(t)
    PROVE  icache'[t].inum = icache[t].inum /\ Handed(p, t)
<1>1. ~FreeCell(t)
  BY DEF FreeCell, Live
<1>q. QED BY <1>1 DEF Cell, KeptCell, FilledCell, WroteCell, Same, Handed, Inum

(* What another process has locked does not change. *)
LEMMA OthersLocked ==
    ASSUME Before, NEW p \in Procs, Normal(p), NEW q \in Procs, q # p, NEW t \in Slots, icache[t].lock = q
    PROVE  /\ Same(t) /\ icache'[t].lock = q
           /\ Inum(t) \in Inums
           /\ dinode'[Inum(t)] = dinode[Inum(t)] /\ dents'[Inum(t)] = dents[Inum(t)]
<1>1. MInv /\ Usable(t) /\ q # nullptr
  BY BeforeParts, LockedUsable, Ext2Assumption
<1>2. Cell(p, t) /\ Live(t) /\ Inum(t) \in Inums
  BY <1>1 DEF Normal, Live, Usable, Inum
<1>3. Same(t) /\ icache'[t].lock = q
  BY <1>1, <1>2 DEF Cell, FreeCell, KeptCell, FilledCell, WroteCell, Handed, Live
<1>4. ASSUME NEW s \in Slots, Owned(p, s), Inum(s) = Inum(t), icache[s].lock \in {p, nullptr} PROVE FALSE
  <2>1. Live(s)
    BY <1>1, <1>4, BeforeParts, OwnedKept DEF Usable, Live
  <2>2. s = t
    BY <1>1, <1>2, <1>4, <2>1, SameSlot
  <2>q. QED BY <1>1, <1>4, <2>2
<1>5. dinode'[Inum(t)] = dinode[Inum(t)] /\ dents'[Inum(t)] = dents[Inum(t)]
  BY <1>2, <1>4 DEF Normal, Disked, WroteCell
<1>q. QED BY <1>2, <1>3, <1>5

(* The cache keeps matching the disk. *)
LEMMA NormalValid ==
    ASSUME Before, NEW p \in Procs, Normal(p)
    PROVE  ValidOK'
<1> SUFFICES ASSUME NEW t \in Slots, Live(t)' PROVE ValidAt(t)'
  BY DEF ValidOK, ValidAt
<1>0. MInv /\ KeptOK /\ DiskTypes /\ nullptr \notin Procs
  BY BeforeParts, Ext2Assumption
<1>1. Cell(p, t)
  BY DEF Normal
<1>2. CASE FreeCell(t)
  <2>1. ~icache'[t].valid /\ icache'[t].lock = nullptr
    BY <1>2 DEF FreeCell, Live
  <2>q. QED BY <2>1 DEF ValidAt
<1>3. CASE WroteCell(p, t)
  BY <1>3 DEF WroteCell
<1>4. Dying(t)' <=> Dying(t)
  BY DEF Dying, Normal, FreedPcs
<1>5. LateBlock(t) <=> \E q \in Procs : Late(q, t)
  BY DEF LateBlock, Late
<1>6. LateBlock(t)' <=> \E q \in Procs : Late(q, t)'
  BY DEF LateBlock, Late
<1>7. ASSUME Live(t), ~WroteCell(p, t) PROVE dinode'[Inum(t)] = dinode[Inum(t)] /\ Inum(t) \in Inums
  <2>1. Inum(t) \in Inums
    BY <1>0, <1>7 DEF MInv, SlotsOK, MemTypes, SlotRecords, Live, Inum
  <2>2. ASSUME NEW s \in Slots, WroteCell(p, s), Inum(s) = Inum(t) PROVE FALSE
    <3>1. Live(s)
      BY <1>0, <2>2, OwnedKept DEF WroteCell, Usable, Live
    <3>q. QED BY <1>0, <1>7, <2>2, <3>1, SameSlot
  <2>q. QED BY <2>1, <2>2 DEF Normal, Disked
<1>8. CASE Live(t) /\ KeptCell(p, t) /\ ~WroteCell(p, t)
  <2>1. ValidAt(t) /\ Inum(t)' = Inum(t) /\ ibitmap' = ibitmap
    BY <1>0, <1>8, BeforeParts DEF ValidOK, KeptCell, Same, Inum, Normal, Disked
  <2>2. icache'[t].lock # nullptr => icache'[t].valid
    BY <1>8, <2>1 DEF KeptCell, Same, Handed, ValidAt
  <2>3. ASSUME NEW q \in Procs PROVE Late(q, t)' <=> Late(q, t)
    <3>1. CASE q = p
      BY <3>1, <1>8 DEF KeptCell
    <3>2. CASE q # p
      <4>1. icache'[t].lock = q <=> icache[t].lock = q
        BY <1>0, <1>8, <3>2 DEF KeptCell, Handed
      <4>2. proc'[q] = proc[q]
        BY <3>2 DEF Normal
      <4>q. QED BY <4>1, <4>2 DEF Late
    <3>q. QED BY <3>1, <3>2
  <2>4. LateBlock(t)' <=> LateBlock(t)
    BY <1>5, <1>6, <2>3
  <2>5. /\ icache'[t].valid => icache'[t].type # "none"
        /\ icache'[t].valid /\ ~Dying(t) => Inum(t) \in ibitmap /\ Matches(t)
    BY <1>8, <2>1 DEF KeptCell, Same, ValidAt
  <2>6. Matches(t) => Matches(t)'
    BY <1>7, <1>8, <2>1, <2>4 DEF KeptCell, Same, Matches
  <2>q. QED BY <1>4, <2>1, <2>2, <2>5, <2>6 DEF ValidAt
<1>9. CASE Live(t) /\ FilledCell(p, t) /\ ~WroteCell(p, t)
  <2>1. Inum(t) \in ibitmap /\ dinode[Inum(t)].mode # "none"
    BY <1>0, <1>9, OwnedKept DEF FilledCell
  <2>2. ~LateBlock(t)'
    <3>1. \A q \in Procs : ~Late(q, t)'
      BY <1>0, <1>9 DEF FilledCell, Late
    <3>q. QED BY <1>6, <3>1
  <2>3. Inum(t)' = Inum(t) /\ ibitmap' = ibitmap /\ icache'[t].valid /\ icache'[t].type # "none"
    BY <1>9, <2>1 DEF FilledCell, Inum, Normal, Disked
  <2>4. Matches(t)'
    BY <1>7, <1>9, <2>2, <2>3 DEF FilledCell, Matches
  <2>q. QED BY <2>1, <2>3, <2>4 DEF ValidAt
<1>q. QED BY <1>1, <1>2, <1>3, <1>8, <1>9 DEF Cell

(* What is known after a step from RInvariant. *)
After == RInv' /\ MInv' /\ DiskTypes'

(* The firm places of an inode after a step of p. *)
LEMMA FirmsGrow ==
    ASSUME Before, NEW p \in Procs, Normal(p), NEW x \in Places, Firm(x)', NEW i, i = Inum(Holds(x))'
    PROVE  \/ x \in Firms(i)
           \/ \E y \in Firms(i) : y[1] \in {"file", "cwd"} \/ y[2] = p
           \/ Linked(i)
           \/ proc[p].pc = "ialloc_iget" /\ i = proc[p].ino /\ x = <<"ip", p>>
<1>0. MInv /\ KeptOK /\ \A t \in Slots : Live(t) => icache'[t].inum = Inum(t)
  <2>1. \A t \in Slots : Cell(p, t)
    BY DEF Normal
  <2>q. QED BY <2>1, InumStays, BeforeParts DEF Inum
<1>1. i = icache'[Holds(x)'].inum
  BY DEF Inum
<1>2. CASE Firm(x) /\ Holds(x)' = Holds(x)
  <2>1. Holds(x) \in Slots /\ Live(Holds(x))
    BY <1>0, <1>2, HoldsUsable DEF Firm, Usable, Live
  <2>2. i = Inum(Holds(x))
    BY <1>0, <1>1, <1>2, <2>1
  <2>q. QED BY <1>2, <2>2 DEF Firms
<1>3. CASE Owned(p, Holds(x)')
  <2>1. PICK s : s = Holds(x)'
    OBVIOUS
  <2>2. Owned(p, s)
    BY <1>3, <2>1
  <2>3. s \in Slots /\ Live(s) /\ \E y \in Firms(Inum(s)) : y[1] \in {"file", "cwd"} \/ y[2] = p
    BY <1>0, <2>2, OwnedKept DEF Usable, Live
  <2>4. i = Inum(s)
    BY <1>0, <1>1, <2>1, <2>3
  <2>q. QED BY <2>3, <2>4
<1>q. QED BY <1>1, <1>2, <1>3 DEF Normal, Growth

(* A place holds a cached inode, as a fact about any state. *)
UsableWell == MInv => \A x \in Places : Holds(x) # 0 => Usable(Holds(x))

(* A place holds a cached inode. *)
LEMMA UsableAlways == UsableWell
BY HoldsUsable DEF UsableWell

(* The same of the next state. *)
LEMMA UsableNext == UsableWell'
BY UsableAlways, PTL

(* Whatever is firm is kept. *)
LEMMA NormalKept ==
    ASSUME Before, After, NEW p \in Procs, Normal(p)
    PROVE  KeptOK'
<1> SUFFICES ASSUME NEW x \in Places, Firm(x)'
             PROVE  (Inum(Holds(x)) \in ibitmap /\ dinode[Inum(Holds(x))].mode # "none")'
  BY DEF KeptOK
<1>0. MInv /\ MInv' /\ KeptOK /\ DiskTypes /\ DirsOK /\ FreshOK
  BY BeforeParts DEF After
<1>1. PICK i : i = Inum(Holds(x))'
  OBVIOUS
<1>2. i \in Inums
  <2>1. Holds(x)' # 0
    BY DEF Firm
  <2>2. Usable(Holds(x))'
    BY <1>0, <2>1, UsableNext DEF UsableWell
  <2>q. QED BY <1>1, <2>2 DEF Usable, Inum
<1>3. i \in ibitmap /\ dinode[i].mode # "none"
  <2>1. CASE \E y \in Firms(i) : TRUE
    BY <1>0, <2>1 DEF KeptOK, Firms
  <2>2. CASE Linked(i)
    BY <1>0, <1>2, <2>2, LinkedLinks, LinkedLives
  <2>3. CASE proc[p].pc = "ialloc_iget" /\ i = proc[p].ino
    <3>1. Fresh(proc[p], i) /\ i \in ibitmap
      BY <1>0, <2>3 DEF FreshOK, FreshAt, Allocating
    <3>2. \A op : TypeOf(op) # "none"
      BY DEF TypeOf
    <3>q. QED BY <3>1, <3>2 DEF Fresh
  <2>q. QED BY <1>1, <2>1, <2>2, <2>3, FirmsGrow
<1>4. ibitmap' = ibitmap /\ dinode'[i].mode = dinode[i].mode
  BY <1>2 DEF Normal, Disked
<1>q. QED BY <1>1, <1>3, <1>4

(* The inodes of another process stay where they are. *)
LEMMA SlotsStay ==
    ASSUME Before, NEW p \in Procs, Normal(p), NEW q \in Procs, NEW s, s # 0,
           s \in {proc[q].n, proc[q].ip, proc[q].dp, Put(proc[q], 1)}
    PROVE  /\ Usable(s) /\ s \in Slots /\ Live(s) /\ Inum(s) \in Inums
           /\ icache'[s].inum = Inum(s) /\ Inum(s)' = Inum(s)
           /\ dinode'[Inum(s)].mode = dinode[Inum(s)].mode
<1>1. MInv
  BY BeforeParts
<1>2. /\ proc[q].n \in Slots \cup {0} /\ proc[q].ip \in Slots \cup {0} /\ proc[q].dp \in Slots \cup {0}
      /\ Put(proc[q], 1) \in Slots \cup {0}
  <2>1. /\ proc[q].n \in Slots \cup {0} /\ proc[q].ip \in Slots \cup {0} /\ proc[q].dp \in Slots \cup {0}
        /\ proc[q].puts \in Seq(Slots)
    BY <1>1 DEF MInv, Shapes, Records
  <2>q. QED BY <2>1 DEF Put
<1>3. s \in Slots
  BY <1>2
<1>4. Usable(s)
  BY <1>1, <1>3, HeldUsable
<1>5. Cell(p, s) /\ Live(s) /\ Inum(s) \in Inums
  BY <1>3, <1>4 DEF Normal, Usable, Live, Inum
<1>6. icache'[s].inum = Inum(s)
  BY <1>5, InumStays DEF Inum
<1>7. dinode'[Inum(s)].mode = dinode[Inum(s)].mode
  BY <1>5 DEF Normal, Disked
<1>q. QED BY <1>3, <1>4, <1>5, <1>6, <1>7 DEF Inum

(* An inode that only q has is not touched by p. *)
LEMMA Untouched ==
    ASSUME Before, NEW p \in Procs, Normal(p), NEW q \in Procs, q # p, NEW i \in Inums,
           Firms(i) \subseteq {<<"ip", q>>, <<"put1", q>>}
    PROVE  /\ dinode'[i] = dinode[i] /\ dents'[i] = dents[i]
           /\ LL(i) = {} /\ ~(proc[p].pc = "ialloc_iget" /\ proc[p].ino = i) => Firms(i)' \subseteq Firms(i)
<1>0. MInv /\ KeptOK /\ DiskTypes /\ DirsOK
  BY BeforeParts
<1>1. \A y \in Firms(i) : ~(y[1] \in {"file", "cwd"} \/ y[2] = p)
  OBVIOUS
<1>2. \A s : Owned(p, s) => Inum(s) # i
  BY <1>0, <1>1, OwnedKept
<1>3. dinode'[i] = dinode[i] /\ dents'[i] = dents[i]
  BY <1>2 DEF Normal, Disked, WroteCell
<1>4. ASSUME LL(i) = {}, ~(proc[p].pc = "ialloc_iget" /\ proc[p].ino = i), NEW x \in Firms(i)'
      PROVE  x \in Firms(i)
  <2>1. x \in Places /\ Firm(x)' /\ i = Inum(Holds(x))'
    BY <1>4 DEF Firms
  <2>2. ~Linked(i)
    BY <1>0, <1>4, LinkedLinks
  <2>q. QED BY <1>1, <1>4, <2>1, <2>2, FirmsGrow
<1>q. QED BY <1>3, <1>4

(* A new inode that is not yet entered has no name. *)
LEMMA NewUnlinked ==
    ASSUME Before, NEW q \in Procs, proc[q].pc \in CreateIp
    PROVE  /\ LL(Inum(proc[q].ip)) = {} /\ Inum(proc[q].ip) \in Inums /\ Inum(proc[q].ip) \in ibitmap
           /\ dinode[Inum(proc[q].ip)].nlink = 1
           /\ Rest(Inum(proc[q].ip), q) = {}
           /\ ~(OwesDp(proc[q]) /\ Inum(proc[q].dp) = Inum(proc[q].ip))
<1>0. MInv /\ DiskTypes /\ DirsOK /\ CountOK /\ CallsOK /\ ValidOK /\ nullptr \notin Procs
  BY BeforeParts, Ext2Assumption
<1>1. proc[q].pc \notin IputPcs /\ proc[q].pc # "write" /\ proc[q].pc \in IpPoints /\ proc[q].pc \in IpLocked
  BY DEF CreateIp, CreateDir, IputPcs, IpPoints, IpLocked
<1>2. proc[q].ip \in Slots /\ Point(proc[q]) = proc[q].pc /\ proc[q] \in Records
  BY <1>0, <1>1, NothingToPut DEF Fits, Records
<1>3. PICK s : s = proc[q].ip
  OBVIOUS
<1>4. Usable(s) /\ s \in Slots
  BY <1>0, <1>2, <1>3, HeldUsable
<1>5. icache[s].lock = q
  BY <1>0, <1>1, <1>2, <1>3 DEF MInv, LocksOK, Locks, LocksAt
<1>6. ~Dying(s)
  BY <1>0, <1>1, <1>4, <1>5, DyingLocked DEF Dying, FreePcs, IputPcs
<1>7. Inum(s) \in ibitmap /\ dinode[Inum(s)].nlink = icache[s].nlink
  BY <1>0, <1>4, <1>5, <1>6 DEF ValidOK, ValidAt, Matches, Usable, Live
<1>8. icache[s].nlink = 1
  BY <1>0, <1>3 DEF CallsOK, CallAt
<1>9. Inum(s) \in Inums
  BY <1>4 DEF Usable, Inum
<1>10. OwesIp(proc[q])
  BY <1>2 DEF OwesIp
<1>11. PICK a, b, c : a = Cardinality(LL(Inum(s))) /\ b = Cardinality(Owed(Inum(s))) /\ c = Cardinality(Rest(Inum(s), q))
  OBVIOUS
<1>12. 1 >= a + b
  BY <1>0, <1>7, <1>8, <1>11 DEF CountOK, LL
<1>13. a \in Nat /\ b \in Nat /\ c \in Nat /\ IsFiniteSet(LL(Inum(s))) /\ IsFiniteSet(Rest(Inum(s), q))
  BY <1>0, <1>11, LinksFinite, OwedSplit DEF LinksFew, OwedCounts
<1>14. PICK d \in {0, 1} : d = OneIf(OwesDp(proc[q]) /\ Inum(proc[q].dp) = Inum(s))
  BY DEF OneIf
<1>15. b = c + (1 + d)
  BY <1>3, <1>10, <1>11, <1>14, OwedSplit DEF OwedSplits, Debt, OneIf
<1>16. a = 0 /\ c = 0 /\ d = 0
  BY <1>12, <1>13, <1>14, <1>15
<1>17. LL(Inum(s)) = {} /\ Rest(Inum(s), q) = {}
  BY <1>11, <1>13, <1>16, FS_EmptySet
<1>18. ~(OwesDp(proc[q]) /\ Inum(proc[q].dp) = Inum(s))
  BY <1>14, <1>16 DEF OneIf
<1>q. QED BY <1>3, <1>7, <1>8, <1>9, <1>17, <1>18

(* What another process is allocating stays fresh. *)
LEMMA OthersFresh ==
    ASSUME Before, NEW p \in Procs, Normal(p), NEW q \in Procs, q # p
    PROVE  FreshAt(q)'
<1>0. MInv /\ DiskTypes /\ DirsOK /\ CountOK /\ FreshOK /\ FreshAt(q) /\ proc'[q] = proc[q] /\ ibitmap' = ibitmap
  BY BeforeParts DEF FreshOK, Normal, Disked
<1>1. PICK r : r = proc[q]
  OBVIOUS
<1>2. r \in Records /\ Shape(r)
  BY <1>0, <1>1 DEF MInv, Shapes
<1>3. ASSUME r.pc \in Allocating
      PROVE  Fresh(r, r.ino)' /\ ((r.ino \in ibitmap)' <=> r.pc = "ialloc_iget") /\ Firms(r.ino)' = {}
  <2>1. PICK i : i = r.ino
    OBVIOUS
  <2>2. i \in Inums
    BY <1>2, <1>3, <2>1 DEF Records, Shape, Fits, Point, Allocating, IputPcs
  <2>3. Fresh(r, i) /\ Firms(i) = {} /\ (i \in ibitmap <=> r.pc = "ialloc_iget")
    BY <1>0, <1>1, <1>3, <2>1 DEF FreshAt
  <2>4. dinode'[i] = dinode[i] /\ dents'[i] = dents[i]
    BY <2>2, <2>3, Untouched
  <2>5. LL(i) = {}
    BY <1>0, <2>2, <2>3, NoLinks DEF Fresh, Blank
  <2>6. ~(proc[p].pc = "ialloc_iget" /\ proc[p].ino = i)
    BY <1>0, <1>1, <1>3, <2>1 DEF FreshOK, Allocating
  <2>7. Firms(i)' = {}
    BY <2>2, <2>3, <2>5, <2>6, Untouched
  <2>q. QED BY <1>0, <2>1, <2>3, <2>4, <2>7 DEF Fresh, Blank
<1>4. ASSUME r.pc \in CreateIp \cup {"create_inode"}
      PROVE  /\ (Firms(Inum(r.ip)) \subseteq {<<"ip", q>>})'
             /\ r.pc = "create_inode" => Fresh(r, Inum(r.ip))'
  <2>1. r.ip # 0 /\ r.ip = proc[q].ip
    BY <1>1, <1>2, <1>4 DEF Records, Shape, Fits, Point, CreateIp, CreateDir, IputPcs, IpPoints
  <2>2. PICK i : i = Inum(r.ip)
    OBVIOUS
  <2>3. i \in Inums /\ Inum(r.ip)' = i
    BY <2>1, <2>2, SlotsStay
  <2>4. Firms(i) \subseteq {<<"ip", q>>}
    BY <1>0, <1>1, <1>4, <2>2 DEF FreshAt
  <2>5. dinode'[i] = dinode[i] /\ dents'[i] = dents[i]
    BY <2>3, <2>4, Untouched
  <2>6. LL(i) = {}
    <3>1. CASE r.pc = "create_inode"
      BY <1>0, <1>1, <2>2, <2>3, <3>1, NoLinks DEF FreshAt, Fresh, Blank
    <3>2. CASE r.pc \in CreateIp
      BY <1>1, <2>2, <3>2, NewUnlinked
    <3>q. QED BY <1>4, <3>1, <3>2
  <2>7. <<"ip", q>> \in Firms(i)
    BY <1>1, <2>1, <2>2, FirmAlways, HoldsProc DEF FirmWell, Firms
  <2>8. ~(proc[p].pc = "ialloc_iget" /\ proc[p].ino = i)
    BY <1>0, <2>7 DEF FreshOK, FreshAt, Allocating
  <2>9. Firms(i)' \subseteq Firms(i)
    BY <2>3, <2>4, <2>6, <2>8, Untouched
  <2>10. r.pc = "create_inode" => Fresh(r, i)'
    BY <1>0, <1>1, <2>2, <2>5 DEF FreshAt, Fresh, Blank
  <2>11. (Firms(Inum(r.ip)) \subseteq {<<"ip", q>>})'
    BY <2>3, <2>4, <2>9 DEF Firms
  <2>12. r.pc = "create_inode" => Fresh(r, Inum(r.ip))'
    BY <2>3, <2>10 DEF Fresh, Blank
  <2>q. QED BY <2>11, <2>12
<1>q. QED BY <1>0, <1>1, <1>3, <1>4 DEF FreshAt

(* What another process is freeing stays without links. *)
LEMMA OthersFree ==
    ASSUME Before, NEW p \in Procs, Normal(p), NEW q \in Procs, q # p
    PROVE  FreeAt(q)'
<1>0. /\ MInv /\ DiskTypes /\ DirsOK /\ CountOK /\ FreshOK /\ FreeAt(q) /\ ValidOK
      /\ proc'[q] = proc[q] /\ ibitmap' = ibitmap /\ nullptr \notin Procs
  BY BeforeParts, Ext2Assumption DEF FreeOK, Normal, Disked
<1>1. CASE proc[q].pc \notin FreePcs
  BY <1>0, <1>1 DEF FreeAt, FreePcs
<1>2. CASE proc[q].pc \in FreePcs
  <2>1. PICK r : r = proc[q]
    OBVIOUS
  <2>2. PICK s : s = Put(r, 1)
    OBVIOUS
  <2>3. s # 0
    BY <1>0, <1>2, <2>1, <2>2 DEF MInv, Shapes, Shape, FreePcs, IputPcs
  <2>4. Usable(s) /\ s \in Slots /\ Live(s) /\ Inum(s) \in Inums /\ Inum(s)' = Inum(s)
    BY <2>1, <2>2, <2>3, SlotsStay
  <2>5. icache[s].lock = q
    BY <1>0, <1>2, <2>1, <2>2, <2>4, DyingLocked
  <2>6. Same(s) /\ dinode'[Inum(s)] = dinode[Inum(s)] /\ dents'[Inum(s)] = dents[Inum(s)]
    BY <2>4, <2>5, OthersLocked
  <2>7. icache[s].nlink = 0
    BY <1>0, <1>2, <2>1, <2>2 DEF FreeAt
  <2>8. ASSUME r.pc = "ifree" PROVE (Firms(Inum(s)) \subseteq {<<"put1", q>>})'
    <3>1. PICK i : i = Inum(s)
      OBVIOUS
    <3>2. Firms(i) \subseteq {<<"put1", q>>}
      BY <1>0, <2>1, <2>2, <2>8, <3>1 DEF FreeAt
    <3>3. <<"put1", q>> \in Firms(i)
      BY <2>1, <2>2, <2>3, <2>8, <3>1, FirmAlways, HoldsProc DEF FirmWell, Firms, PastPcs
    <3>4. ~(proc[p].pc = "ialloc_iget" /\ proc[p].ino = i)
      BY <1>0, <3>3 DEF FreshOK, FreshAt, Allocating
    <3>5. ~Dying(s)
      BY <1>0, <2>1, <2>4, <2>5, <2>8, DyingLocked DEF Dying, FreePcs
    <3>6. dinode[i].nlink = 0 /\ i \in Inums
      BY <1>0, <2>4, <2>5, <2>7, <3>1, <3>5 DEF ValidOK, ValidAt, Matches
    <3>7. LL(i) = {}
      BY <1>0, <3>6, NoLinks
    <3>8. Firms(i)' \subseteq Firms(i)
      BY <3>2, <3>4, <3>6, <3>7, Untouched
    <3>q. QED BY <2>4, <3>1, <3>2, <3>8 DEF Firms
  <2>9. Blank(Inum(s)) => Blank(Inum(s))'
    BY <2>4, <2>6 DEF Blank
  <2>q. QED BY <1>0, <2>1, <2>2, <2>4, <2>6, <2>8, <2>9 DEF FreeAt, Same
<1>q. QED BY <1>1, <1>2

(* What another process has found out stays true. *)
LEMMA OthersCall ==
    ASSUME Before, NEW p \in Procs, Normal(p), NEW q \in Procs, q # p
    PROVE  CallAt(q)'
<1>0. MInv /\ CallAt(q) /\ proc'[q] = proc[q]
  BY BeforeParts DEF CallsOK, Normal
<1>1. PICK r : r = proc[q]
  OBVIOUS
<1>2. r \in Records /\ Shape(r)
  BY <1>0, <1>1 DEF MInv, Shapes
<1>3. ASSUME r.ip # 0 PROVE Inum(r.ip)' = Inum(r.ip) /\ (IsDir(Inum(r.ip))' <=> IsDir(Inum(r.ip))) /\ r.ip \in Slots
  BY <1>1, <1>3, SlotsStay DEF IsDir
<1>4. ASSUME r.dp # 0 PROVE Inum(r.dp)' = Inum(r.dp) /\ (IsDir(Inum(r.dp))' <=> IsDir(Inum(r.dp))) /\ r.dp \in Slots
  BY <1>1, <1>4, SlotsStay DEF IsDir
<1>5. ASSUME LinkSide(r) PROVE r.ip # 0
  BY <1>2, <1>5 DEF LinkSide, Shape, Fits, LinkIp, IpPoints
<1>6. ASSUME r.pc \in CreateIp \cup {"unlink_ip"}
      PROVE  r.ip # 0 /\ r.dp # 0 /\ dents'[Inum(r.dp)] = dents[Inum(r.dp)]
  <2>1. r.pc \notin IputPcs /\ r.pc # "write" /\ r.pc \in IpPoints /\ r.pc \in DpPoints /\ r.pc \in DpLocked
    BY <1>6 DEF CreateIp, CreateDir, IputPcs, IpPoints, DpPoints, DpLocked
  <2>2. r.ip # 0 /\ r.dp # 0 /\ Point(r) = r.pc
    BY <1>2, <2>1 DEF Shape, Fits, Point
  <2>3. icache[r.dp].lock = q
    BY <1>0, <1>1, <1>4, <2>1, <2>2 DEF MInv, LocksOK, Locks, LocksAt
  <2>q. QED BY <1>4, <2>2, <2>3, OthersLocked
<1>7. ASSUME r.pc \in CreateIp PROVE Same(r.ip) /\ dents'[Inum(r.ip)] = dents[Inum(r.ip)]
  <2>1. r.pc \notin IputPcs /\ r.pc # "write" /\ r.pc \in IpLocked
    BY <1>7 DEF CreateIp, CreateDir, IputPcs, IpLocked
  <2>2. Point(r) = r.pc
    BY <2>1 DEF Point
  <2>3. icache[r.ip].lock = q
    BY <1>0, <1>1, <1>3, <1>6, <1>7, <2>1, <2>2 DEF MInv, LocksOK, Locks, LocksAt
  <2>q. QED BY <1>3, <1>6, <1>7, <2>3, OthersLocked
<1>8. /\ Point(r) = "namex" => \A j \in 1..Len(r.rest) : r.rest[j] # ".."
      /\ r.pc \in Naming => LastOf(r) \in Names
  BY <1>0, <1>1 DEF CallAt
<1>9. /\ r.dp # 0 => IsDir(Inum(r.dp))
      /\ LinkSide(r) => ~IsDir(Inum(r.ip))
  BY <1>0, <1>1 DEF CallAt
<1>10. /\ r.pc \in CreateIp => icache'[r.ip].nlink = 1 /\ icache'[r.ip].type = TypeOf(r.call.op)
       /\ r.pc \in {"create_parent", "create_block"} => icache'[r.ip].blk = 0
  <2>1. /\ r.pc \in CreateIp => icache[r.ip].nlink = 1 /\ icache[r.ip].type = TypeOf(r.call.op)
        /\ r.pc \in {"create_parent", "create_block"} => icache[r.ip].blk = 0
    BY <1>0, <1>1 DEF CallAt
  <2>2. {"create_parent", "create_block"} \subseteq CreateIp
    BY DEF CreateIp, CreateDir
  <2>q. QED BY <1>7, <2>1, <2>2 DEF Same
<1>11. /\ r.pc = "create_link" /\ r.call.op = "mkdir" =>
              (dents[Inum(r.ip)]["."] = Inum(r.ip) /\ dents[Inum(r.ip)][".."] = Inum(r.dp))'
       /\ r.pc = "create_dotdot" => (dents[Inum(r.ip)]["."] = Inum(r.ip))'
       /\ r.pc = "unlink_ip" => (dents[Inum(r.dp)][LastOf(r)] = Inum(r.ip))'
  <2>1. /\ r.pc = "create_link" /\ r.call.op = "mkdir" =>
              (dents[Inum(r.ip)]["."] = Inum(r.ip) /\ dents[Inum(r.ip)][".."] = Inum(r.dp))
        /\ r.pc = "create_dotdot" => (dents[Inum(r.ip)]["."] = Inum(r.ip))
        /\ r.pc = "unlink_ip" => (dents[Inum(r.dp)][LastOf(r)] = Inum(r.ip))
    BY <1>0, <1>1 DEF CallAt
  <2>2. "create_link" \in CreateIp /\ "create_dotdot" \in CreateIp
    BY DEF CreateIp, CreateDir
  <2>q. QED BY <1>3, <1>4, <1>6, <1>7, <2>1, <2>2
<1>q. QED BY <1>0, <1>1, <1>3, <1>4, <1>5, <1>8, <1>9, <1>10, <1>11 DEF CallAt

(* What the others owe stays. *)
LEMMA OwesHas ==
    ASSUME MInv, NEW q \in Procs
    PROVE  /\ OwesIp(proc[q]) => proc[q].ip # 0
           /\ OwesDp(proc[q]) => proc[q].dp # 0
<1>1. Shape(proc[q])
  BY DEF MInv, Shapes
<1>q. QED BY <1>1 DEF Shape, Fits, OwesIp, OwesDp, LinkSide, LinkIp, IpPoints, DpPoints, CreateIp, CreateDir

(* A step of p changes nothing of what the others owe. *)
LEMMA RestKept ==
    ASSUME Before, NEW p \in Procs, Normal(p), NEW i
    PROVE  Rest(i, p)' = Rest(i, p)
<1>0. MInv
  BY BeforeParts
<1>1. ASSUME NEW x \in {"ip", "dp"} \X Procs, x[2] # p PROVE x \in Owed(i)' <=> x \in Owed(i)
  <2>1. PICK q \in Procs : q # p /\ (x = <<"ip", q>> \/ x = <<"dp", q>>)
    BY <1>1
  <2>2. proc'[q] = proc[q]
    BY <2>1 DEF Normal
  <2>3. proc[q].ip # 0 => Inum(proc[q].ip)' = Inum(proc[q].ip)
    BY <2>2, SlotsStay DEF Inum
  <2>4. proc[q].dp # 0 => Inum(proc[q].dp)' = Inum(proc[q].dp)
    BY <2>2, SlotsStay DEF Inum
  <2>5. OwesIp(proc[q])' <=> OwesIp(proc[q])
    BY <2>2
  <2>6. OwesDp(proc[q])' <=> OwesDp(proc[q])
    BY <2>2
  <2>7. x = <<"ip", q>> => (x \in Owed(i)' <=> OwesIp(proc[q])' /\ Inum(proc[q].ip)' = i)
                           /\ (x \in Owed(i) <=> OwesIp(proc[q]) /\ Inum(proc[q].ip) = i)
    BY OwedAlways, OwedNext DEF OwedWell
  <2>8. x = <<"dp", q>> => (x \in Owed(i)' <=> OwesDp(proc[q])' /\ Inum(proc[q].dp)' = i)
                           /\ (x \in Owed(i) <=> OwesDp(proc[q]) /\ Inum(proc[q].dp) = i)
    BY OwedAlways, OwedNext DEF OwedWell
  <2>q. QED BY <1>0, <2>1, <2>3, <2>4, <2>5, <2>6, <2>7, <2>8, OwesHas
<1>2. \A x \in Owed(i) : x \in {"ip", "dp"} \X Procs
  BY DEF Owed
<1>3. \A x \in Owed(i)' : x \in {"ip", "dp"} \X Procs
  BY DEF Owed
<1>q. QED BY <1>1, <1>2, <1>3 DEF Rest

(* Link counts, when process p's own debts are accounted for. *)
LEMMA CountStep ==
    ASSUME Before, After, NEW p \in Procs, Normal(p),
           \A i \in ibitmap : dinode'[i].nlink - Cardinality(LL(i)') - Debt(p, i)'
                              >= dinode[i].nlink - Cardinality(LL(i)) - Debt(p, i)
    PROVE  CountOK'
<1> SUFFICES ASSUME NEW i \in ibitmap'
             PROVE  dinode'[i].nlink >= Cardinality(LL(i)') + Cardinality(Owed(i)')
  BY DEF CountOK, LL
<1>0. /\ DiskTypes /\ DiskTypes' /\ CountOK /\ i \in ibitmap /\ i \in Inums
      /\ dinode[i].nlink \in Int /\ dinode'[i].nlink \in Int
  BY BeforeParts DEF After, Normal, Disked, DiskTypes, Entries
<1>1. /\ dinode[i].nlink >= Cardinality(LL(i)) + Cardinality(Owed(i))
      /\ dinode'[i].nlink - Cardinality(LL(i)') - Debt(p, i)' >= dinode[i].nlink - Cardinality(LL(i)) - Debt(p, i)
  BY <1>0 DEF CountOK, LL
<1>2. Cardinality(Owed(i)) = Cardinality(Rest(i, p)) + Debt(p, i)
  BY OwedSplit DEF OwedSplits
<1>3. Cardinality(Owed(i)') = Cardinality(Rest(i, p)) + Debt(p, i)'
  <2>1. Cardinality(Owed(i)') = Cardinality(Rest(i, p)') + Debt(p, i)'
    BY OwedSplitNext DEF OwedSplits
  <2>q. QED BY <2>1, RestKept
<1>4. LinksFew /\ LinksFew'
  <2>1. DiskTypes => LinksFew
    BY LinksFinite
  <2>2. DiskTypes' => LinksFew'
    BY LinksFewNext
  <2>q. QED BY <1>0, <2>1, <2>2
<1>5. PICK a, b, c, d, e, f, g : /\ a = Cardinality(LL(i)) /\ b = Cardinality(LL(i)') /\ c = Cardinality(Rest(i, p))
                              /\ d = Debt(p, i) /\ e = Debt(p, i)' /\ f = dinode[i].nlink /\ g = dinode'[i].nlink
  OBVIOUS
<1>6. a \in Nat /\ b \in Nat /\ c \in Nat /\ f \in Int /\ g \in Int
  BY <1>0, <1>4, <1>5, OwedSplit DEF LinksFew, OwedCounts
<1>7. d \in Nat /\ e \in Nat
  BY <1>5 DEF Debt, OneIf
<1>8. f >= a + (c + d) /\ g - b - e >= f - a - d
  BY <1>1, <1>2, <1>5
<1>9. g >= b + (c + e)
  BY <1>6, <1>7, <1>8
<1>q. QED BY <1>3, <1>5, <1>9

(* The inodes that p has after a step: those that it had, and those that a *)
(* name leads to.                                                          *)
Reach(p, s) == s = 0 \/ Owned(p, s) \/ Linked(icache'[s].inum)

(* The places of p and the open files, one by one, give the growth of what *)
(* is firm.                                                                *)
LEMMA GrowthBy ==
    ASSUME NEW p \in Procs,
           \A q \in Procs \ {p} : proc'[q] = proc[q] /\ cwd'[q] = cwd[q],
           \A f \in Files : ftable'[f].ip = ftable[f].ip \/ Reach(p, ftable'[f].ip),
           Reach(p, proc'[p].n), Reach(p, proc'[p].dp), Reach(p, cwd'[p]),
           Reach(p, proc'[p].ip) \/ (proc[p].pc = "ialloc_iget" /\ icache'[proc'[p].ip].inum = proc[p].ino),
           proc'[p].pc \in PastPcs \/ Reach(p, Put(proc'[p], 1)), Reach(p, Put(proc'[p], 2))
    PROVE  Growth(p)
<1> SUFFICES ASSUME NEW x \in Places, Firm(x)'
             PROVE  \/ Firm(x) /\ Holds(x)' = Holds(x)
                    \/ Reach(p, Holds(x)')
                    \/ proc[p].pc = "ialloc_iget" /\ x = <<"ip", p>> /\ icache'[Holds(x)'].inum = proc[p].ino
  BY DEF Growth, Reach, Firm
<1>1. CASE \E f \in Files : x = <<"file", f>>
  <2>1. PICK f \in Files : x = <<"file", f>>
    BY <1>1
  <2>2. Holds(x) = ftable[f].ip /\ Holds(x)' = ftable'[f].ip
    BY <2>1, HoldsAlways, HoldsNext DEF HoldsWell
  <2>3. Firm(x) <=> ftable[f].ip # 0
    BY <2>1, FirmAlways DEF FirmWell
  <2>4. Holds(x)' # 0
    BY DEF Firm
  <2>q. QED BY <2>2, <2>3, <2>4
<1>2. CASE \E q \in Procs : x \in {<<"n", q>>, <<"ip", q>>, <<"dp", q>>, <<"put1", q>>, <<"put2", q>>, <<"cwd", q>>}
  <2>1. PICK q \in Procs : x \in {<<"n", q>>, <<"ip", q>>, <<"dp", q>>, <<"put1", q>>, <<"put2", q>>, <<"cwd", q>>}
    BY <1>2
  <2>2. CASE q = p
    <3>1. \/ Holds(x)' \in {proc'[p].n, proc'[p].dp, Put(proc'[p], 2), cwd'[p]}
          \/ x = <<"ip", p>> /\ Holds(x)' = proc'[p].ip
          \/ x = <<"put1", p>> /\ Holds(x)' = Put(proc'[p], 1)
      BY <2>1, <2>2, HoldsNext DEF HoldsWell
    <3>2. x = <<"put1", p>> => proc'[p].pc \notin PastPcs
      BY FirmNext DEF FirmWell
    <3>q. QED BY <3>1, <3>2
  <2>3. CASE q # p
    <3>1. proc'[q] = proc[q] /\ cwd'[q] = cwd[q]
      BY <2>3
    <3>2. Holds(x)' = Holds(x)
      <4>1. /\ Holds(<<"n", q>>) = proc[q].n /\ Holds(<<"ip", q>>) = proc[q].ip /\ Holds(<<"dp", q>>) = proc[q].dp
            /\ Holds(<<"put1", q>>) = Put(proc[q], 1) /\ Holds(<<"put2", q>>) = Put(proc[q], 2)
            /\ Holds(<<"cwd", q>>) = cwd[q]
        BY HoldsAlways DEF HoldsWell
      <4>2. /\ Holds(<<"n", q>>)' = proc[q].n /\ Holds(<<"ip", q>>)' = proc[q].ip /\ Holds(<<"dp", q>>)' = proc[q].dp
            /\ Holds(<<"put1", q>>)' = Put(proc[q], 1) /\ Holds(<<"put2", q>>)' = Put(proc[q], 2)
            /\ Holds(<<"cwd", q>>)' = cwd[q]
        BY <3>1, HoldsNext DEF HoldsWell
      <4>q. QED BY <2>1, <4>1, <4>2
    <3>3. Firm(x)
      BY <2>1, <3>1, FirmAlways, FirmNext DEF FirmWell
    <3>q. QED BY <3>2, <3>3
  <2>q. QED BY <2>2, <2>3
<1>q. QED BY <1>1, <1>2, PlaceKinds

(* A process that writes keeps its file. *)
LEMMA WritesKept ==
    ASSUME Before, NEW p \in Procs, Normal(p), proc'[p].pc # "write",
           \A q \in Procs \ {p}, fd \in Fds :
               ofile[q][fd] # 0 => ofile'[q][fd] = ofile[q][fd] /\ ftable'[ofile[q][fd]].ip = ftable[ofile[q][fd]].ip
    PROVE  WritesOK'
<1> SUFFICES ASSUME NEW q \in Procs, NEW s \in Slots, proc'[q].pc = "write", icache'[s].lock = q
             PROVE  \E fd \in Fds : ofile'[q][fd] # 0 /\ ftable'[ofile'[q][fd]].ip = s
  BY DEF WritesOK
<1>0. WritesOK /\ nullptr \notin Procs
  BY BeforeParts, Ext2Assumption
<1>1. q # p
  OBVIOUS
<1>2. proc'[q] = proc[q] /\ Cell(p, s)
  BY <1>1 DEF Normal
<1>3. icache[s].lock = q
  <2>1. CASE FreeCell(s)
    BY <1>0, <2>1 DEF FreeCell
  <2>2. CASE ~FreeCell(s)
    <3>1. Handed(p, s)
      BY <1>2, <2>2, InumStays DEF Cell
    <3>q. QED BY <1>0, <1>1, <3>1 DEF Handed
  <2>q. QED BY <2>1, <2>2
<1>4. PICK fd \in Fds : ofile[q][fd] # 0 /\ ftable[ofile[q][fd]].ip = s
  BY <1>0, <1>2, <1>3 DEF WritesOK
<1>q. QED BY <1>1, <1>4

(* The invariant after a step of p, from what p itself must see to. *)
LEMMA NormalStep ==
    ASSUME Before, After, NEW p \in Procs, Normal(p),
           WritesOK', FreshAt(p)', FreeAt(p)', CallAt(p)', CountOK', BlocksOK', DirsOK', SelfOK', ~panic'
    PROVE  DInv'
<1>1. KeptOK' /\ ValidOK'
  BY NormalKept, NormalValid
<1>2. FreeOK' /\ CallsOK'
  BY OthersFree, OthersCall DEF FreeOK, CallsOK
<1>3. FreshOK'
  <2>1. \A q \in Procs : FreshAt(q)'
    BY OthersFresh
  <2>2. /\ \A q \in Procs \ {p} : proc'[q] = proc[q]
        /\ proc'[p].pc \notin Allocating
    BY DEF Normal
  <2>3. "ialloc_bitmap" \in Allocating
    BY DEF Allocating
  <2>4. FreshOK
    BY BeforeParts
  <2>q. QED BY <2>1, <2>2, <2>3, <2>4 DEF FreshOK
<1>q. QED BY <1>1, <1>2, <1>3 DEF DInv

(***************************************************************************)
(* A step that writes nothing                                              *)
(***************************************************************************)
Quiet(p) ==
    /\ \A q \in Procs \ {p} : proc'[q] = proc[q]
    /\ proc[p].pc \notin FreedPcs \cup {"create_inode", "create_parent", "create_block", "create_dot"}
    /\ proc'[p].pc \notin FreedPcs \cup Allocating
    /\ \A t \in Slots : FreeCell(t) \/ (Live(t) /\ (KeptCell(p, t) \/ FilledCell(p, t)))
    /\ UNCHANGED diskVars
    /\ Growth(p)
    /\ OwesIp(proc'[p]) => OwesIp(proc[p]) /\ proc'[p].ip = proc[p].ip
    /\ OwesDp(proc'[p]) => OwesDp(proc[p]) /\ proc'[p].dp = proc[p].dp
    /\ proc[p].pc = "ialloc_iget" => proc'[p].pc = "create_inode" /\ icache'[proc'[p].ip].inum = proc[p].ino

(* A step that writes nothing touches only what p has. *)
LEMMA QuietNormal ==
    ASSUME NEW p \in Procs, Quiet(p)
    PROVE  Normal(p)
BY DEF Quiet, Normal, Cell, Disked, diskVars

(* A step that writes nothing and owes nothing new keeps the link counts   *)
(* right.                                                                  *)
LEMMA QuietCount ==
    ASSUME Before, After, NEW p \in Procs, Quiet(p)
    PROVE  CountOK'
<1>1. Normal(p) /\ MInv /\ DiskTypes
  BY QuietNormal, BeforeParts
<1>2. ASSUME NEW i \in ibitmap
      PROVE  dinode'[i].nlink - Cardinality(LL(i)') - Debt(p, i)' >= dinode[i].nlink - Cardinality(LL(i)) - Debt(p, i)
  <2>1. dinode'[i] = dinode[i] /\ Disk' = Disk
    BY DEF Quiet, diskVars, Disk
  <2>2. LL(i)' = LL(i)
    BY <2>1 DEF LL
  <2>3. OwesIp(proc'[p]) /\ Inum(proc[p].ip)' = i => OwesIp(proc[p]) /\ Inum(proc[p].ip) = i
    <3> SUFFICES ASSUME OwesIp(proc'[p]), Inum(proc[p].ip)' = i PROVE OwesIp(proc[p]) /\ Inum(proc[p].ip) = i
      OBVIOUS
    <3>1. OwesIp(proc[p]) /\ proc'[p].ip = proc[p].ip
      BY DEF Quiet
    <3>2. proc[p].ip # 0
      BY <1>1, <3>1, OwesHas
    <3>q. QED BY <1>1, <3>1, <3>2, SlotsStay DEF Inum
  <2>4. OwesDp(proc'[p]) /\ Inum(proc[p].dp)' = i => OwesDp(proc[p]) /\ Inum(proc[p].dp) = i
    <3> SUFFICES ASSUME OwesDp(proc'[p]), Inum(proc[p].dp)' = i PROVE OwesDp(proc[p]) /\ Inum(proc[p].dp) = i
      OBVIOUS
    <3>1. OwesDp(proc[p]) /\ proc'[p].dp = proc[p].dp
      BY DEF Quiet
    <3>2. proc[p].dp # 0
      BY <1>1, <3>1, OwesHas
    <3>q. QED BY <1>1, <3>1, <3>2, SlotsStay DEF Inum
  <2>5. Debt(p, i)' <= Debt(p, i) /\ Debt(p, i)' \in Nat /\ Debt(p, i) \in Nat
    BY <2>3, <2>4 DEF Debt, OneIf
  <2>6. PICK n, c : n = dinode[i].nlink /\ c = Cardinality(LL(i))
    OBVIOUS
  <2>7. n \in Int /\ c \in Nat
    BY <1>1, <2>6, LinksFinite DEF LinksFew, DiskTypes, Entries
  <2>8. PICK d, e \in Nat : d = Debt(p, i) /\ e = Debt(p, i)'
    BY <2>5
  <2>9. n - c - e >= n - c - d
    BY <2>5, <2>7, <2>8
  <2>q. QED BY <2>1, <2>2, <2>6, <2>8, <2>9
<1>q. QED BY <1>1, <1>2, CountStep

(* A step that writes nothing gives no block another owner: what ilock()   *)
(* fills in is on the disk.                                                *)
LEMMA QuietBlocks ==
    ASSUME Before, NEW p \in Procs, Quiet(p)
    PROVE  BlocksOK'
<1>0. BlocksOK /\ KeptOK /\ MInv /\ ibitmap' = ibitmap /\ bbitmap' = bbitmap /\ dinode' = dinode
  BY BeforeParts DEF Quiet, diskVars
<1>1. ASSUME NEW i \in Inums, NEW b \in Blocks, Owner(i, b)' PROVE Owner(i, b)
  <2>1. CASE i \in ibitmap' /\ dinode'[i].blk = b
    BY <1>0, <2>1 DEF Owner
  <2>2. CASE \E s \in Slots : Live(s)' /\ icache'[s].valid /\ Inum(s)' = i /\ icache'[s].blk = b
    <3>1. PICK s \in Slots : Live(s)' /\ icache'[s].valid /\ Inum(s)' = i /\ icache'[s].blk = b
      BY <2>2
    <3>2. ~FreeCell(s)
      BY <3>1 DEF FreeCell, Live
    <3>3. Live(s) /\ (KeptCell(p, s) \/ FilledCell(p, s))
      BY <3>2 DEF Quiet
    <3>4. CASE KeptCell(p, s)
      BY <3>1, <3>3, <3>4 DEF KeptCell, Same, Owner, Inum
    <3>5. CASE FilledCell(p, s)
      <4>1. Inum(s) \in ibitmap
        BY <1>0, <3>5, OwnedKept DEF FilledCell
      <4>q. QED BY <3>1, <3>5, <4>1 DEF FilledCell, Owner, Inum
    <3>q. QED BY <3>3, <3>4, <3>5
  <2>q. QED BY <1>1, <2>1, <2>2 DEF Owner
<1>q. QED BY <1>0, <1>1 DEF BlocksOK

(* A step that writes no inode and no entry keeps the directories' own     *)
(* entries.                                                                *)
LEMMA SelfKept ==
    ASSUME Before, NEW p \in Procs, Normal(p), UNCHANGED <<ibitmap, dinode, dents>>,
           proc[p].pc \notin {"create_inode", "create_parent", "create_block", "create_dot"},
           proc[p].pc = "ialloc_iget" => proc'[p].pc = "create_inode" /\ icache'[proc'[p].ip].inum = proc[p].ino
    PROVE  SelfOK'
<1>1. SelfOK /\ MInv
  BY BeforeParts
<1> SUFFICES ASSUME NEW i \in ibitmap', IsDir(i)', Firms(i)' # {} \/ i \in LD'
             PROVE  dents'[i]["."] = i \/ Building(i)'
  BY DEF SelfOK, LD
<1>2. i \in ibitmap /\ IsDir(i)
  BY DEF IsDir
<1>3. \A d : d \in LD' <=> d \in LD
  <2>1. \A d, j : LN(d)' = LN(d)
    BY DEF LN, NamesOf, DirsOf, Disk
  <2>2. \A d : IsDir(d)' <=> IsDir(d)
    BY DEF IsDir
  <2>q. QED BY <2>1, <2>2, LinksAlways, LinksNext DEF LinksWell
<1>4. CASE Firms(i) # {} \/ i \in LD
  <2>1. dents[i]["."] = i \/ Building(i)
    BY <1>1, <1>2, <1>4 DEF SelfOK, LD
  <2>2. ASSUME Building(i) PROVE Building(i)'
    <3>1. PICK q \in Procs : proc[q].pc \in {"create_inode", "create_parent", "create_block", "create_dot"} /\ Inum(proc[q].ip) = i
      BY <2>2 DEF Building
    <3>2. q # p /\ proc'[q] = proc[q]
      BY <3>1 DEF Normal
    <3>3. proc[q].ip # 0
      BY <1>1, <3>1, NothingToPut DEF Fits, IpPoints, CreateIp, CreateDir, IputPcs
    <3>4. Inum(proc[q].ip)' = i
      BY <3>1, <3>2, <3>3, SlotsStay DEF Inum
    <3>q. QED BY <3>1, <3>2, <3>4 DEF Building
  <2>q. QED BY <2>1, <2>2
<1>5. CASE ~(Firms(i) # {} \/ i \in LD)
  <2>1. PICK x : x \in Firms(i)'
    BY <1>3, <1>5
  <2>2. x \in Places /\ Firm(x)' /\ i = Inum(Holds(x))'
    BY <2>1 DEF Firms
  <2>3. ~Linked(i)
    BY <1>2, <1>5, LinksAlways DEF LinksWell, Linked
  <2>4. proc[p].pc = "ialloc_iget" /\ i = proc[p].ino
    BY <1>5, <2>2, <2>3, FirmsGrow
  <2>5. proc'[p].pc = "create_inode" /\ Inum(proc[p].ip)' = i
    BY <2>4 DEF Inum
  <2>q. QED BY <2>5 DEF Building
<1>q. QED BY <1>4, <1>5

(* The invariant after a step that writes nothing. *)
LEMMA QuietStep ==
    ASSUME Before, After, NEW p \in Procs, Quiet(p),
           WritesOK', FreshAt(p)', FreeAt(p)', CallAt(p)', ~panic'
    PROVE  DInv'
<1>1. Normal(p) /\ CountOK' /\ BlocksOK'
  BY QuietNormal, QuietCount, QuietBlocks
<1>2. SelfOK'
  BY <1>1, SelfKept DEF Quiet, diskVars
<1>3. DirsOK'
  <2>1. Disk' = Disk /\ UNCHANGED <<ibitmap, dinode, dents>>
    BY DEF Quiet, diskVars, Disk
  <2>2. DirsOK
    BY BeforeParts
  <2>q. QED BY <2>1, <2>2 DEF DirsOK, IsDir
<1>q. QED BY <1>1, <1>2, <1>3, NormalStep

(***************************************************************************)
(* The slots that a step sets                                              *)
(***************************************************************************)
(* What ilock() finds of an inode that p has: the disk's contents. *)
LEMMA LoadedIs ==
    ASSUME Before, NEW p, NEW s, Owned(p, s), icache[s].lock = nullptr
    PROVE  /\ Usable(s) /\ s \in Slots /\ Live(s) /\ Inum(s) \in Inums /\ Inum(s) \in ibitmap
           /\ Loaded(s) \in SlotRecords
           /\ Loaded(s).inum = icache[s].inum /\ Loaded(s).ref = icache[s].ref /\ Loaded(s).lock = nullptr
           /\ Loaded(s).valid
           /\ Loaded(s).type = dinode[Inum(s)].mode
           /\ Loaded(s).nlink = dinode[Inum(s)].nlink
           /\ Loaded(s).blk = dinode[Inum(s)].blk
           /\ dinode[Inum(s)].mode # "none"
           /\ IlockPanics(s) = FALSE
<1>0. MInv /\ KeptOK /\ ValidOK /\ DiskTypes /\ nullptr \notin Procs
  BY BeforeParts, Ext2Assumption
<1>1. Usable(s) /\ Inum(s) \in ibitmap /\ dinode[Inum(s)].mode # "none"
  BY <1>0, OwnedKept
<1>2. s \in Slots /\ Live(s) /\ Inum(s) \in Inums /\ icache[s] \in SlotRecords
  BY <1>1 DEF Usable, Live, Inum
<1>3. /\ Loaded(s) \in SlotRecords /\ Loaded(s).valid
      /\ Loaded(s).inum = icache[s].inum /\ Loaded(s).ref = icache[s].ref /\ Loaded(s).lock = nullptr
  BY <1>0, <1>2, LoadedFields DEF Inum
<1>4. ~Dying(s) /\ ~LateBlock(s)
  <2>1. ~Dying(s)
    BY <1>0, <1>2, DyingLocked DEF Dying, FreePcs
  <2>q. QED BY <1>0, <2>1 DEF LateBlock
<1>5. /\ Loaded(s).type = dinode[Inum(s)].mode
      /\ Loaded(s).nlink = dinode[Inum(s)].nlink
      /\ Loaded(s).blk = dinode[Inum(s)].blk
  <2>1. CASE icache[s].valid
    <3>1. Matches(s)
      BY <1>0, <1>2, <1>4, <2>1 DEF ValidOK, ValidAt
    <3>2. Loaded(s) = icache[s]
      BY <2>1 DEF Loaded
    <3>q. QED BY <1>4, <3>1, <3>2 DEF Matches
  <2>2. CASE ~icache[s].valid
    <3>1. PICK d : d = dinode[Inum(s)]
      OBVIOUS
    <3>2. Loaded(s) = [icache[s] EXCEPT !.valid = TRUE, !.nlink = d.nlink, !.blk = d.blk, !.type = d.mode]
      BY <1>1, <2>2, <3>1 DEF Loaded, Inum
    <3>q. QED BY <1>2, <3>1, <3>2 DEF SlotRecords
  <2>q. QED BY <2>1, <2>2
<1>6. IlockPanics(s) = FALSE
  <2>1. ~(icache[s].ref < 1)
    BY <1>2 DEF Live, SlotRecords
  <2>2. Loaded(s).type # "none"
    BY <1>1, <1>5
  <2>q. QED BY <2>1, <2>2 DEF IlockPanics
<1>q. QED BY <1>1, <1>2, <1>3, <1>5, <1>6

(* Cache c: p has changed the locks of slots that it has, or filled them. *)
KeptIn(p, c, t) ==
    /\ c[t].valid = icache[t].valid /\ c[t].type = icache[t].type
    /\ c[t].nlink = icache[t].nlink /\ c[t].blk = icache[t].blk
    /\ \/ c[t].lock = icache[t].lock
       \/ /\ icache[t].lock \in {p, nullptr} /\ c[t].lock \in {p, nullptr}
          /\ c[t].lock = p => icache[t].valid
FilledIn(p, c, t) ==
    /\ Owned(p, t) /\ icache[t].lock = nullptr /\ c[t].lock \in {p, nullptr}
    /\ c[t].valid
    /\ c[t].type = dinode[Inum(t)].mode
    /\ c[t].nlink = dinode[Inum(t)].nlink
    /\ c[t].blk = dinode[Inum(t)].blk
SetIn(p, c) ==
    /\ c \in [Slots -> SlotRecords]
    /\ \A t \in Slots : /\ c[t].ref = icache[t].ref /\ c[t].inum = icache[t].inum
                        /\ c[t] = icache[t] \/ (Live(t) /\ (KeptIn(p, c, t) \/ FilledIn(p, c, t)))

(* Nothing changes in the cache. *)
LEMMA SetInNone ==
    ASSUME MInv, NEW p
    PROVE  SetIn(p, icache)
BY DEF SetIn, MInv, MemTypes

(* ilock() of an inode that p has fills its slot and may leave it locked. *)
LEMMA SetInLoad ==
    ASSUME Before, NEW p \in Procs, NEW s, Owned(p, s), icache[s].lock = nullptr,
           NEW v, v = Loaded(s) \/ v = Locked(s, p)
    PROVE  SetIn(p, [icache EXCEPT ![s] = v])
<1>1. MInv /\ icache \in [Slots -> SlotRecords]
  BY BeforeParts DEF MInv, MemTypes
<1>2. PICK i : i = Loaded(s)
  OBVIOUS
<1>3. /\ s \in Slots /\ Live(s) /\ i \in SlotRecords /\ i.inum = icache[s].inum /\ i.ref = icache[s].ref
      /\ i.lock = nullptr /\ i.valid /\ i.type = dinode[Inum(s)].mode
      /\ i.nlink = dinode[Inum(s)].nlink /\ i.blk = dinode[Inum(s)].blk
  BY <1>2, LoadedIs
<1>4. /\ v \in SlotRecords /\ v.inum = icache[s].inum /\ v.ref = icache[s].ref
      /\ v.lock \in {p, nullptr} /\ v.valid /\ v.type = dinode[Inum(s)].mode
      /\ v.nlink = dinode[Inum(s)].nlink /\ v.blk = dinode[Inum(s)].blk
  <2>1. CASE v = i
    BY <1>3, <2>1
  <2>2. CASE v = [i EXCEPT !.lock = p]
    BY <1>3, <2>2, LockFields
  <2>q. QED BY <1>2, <2>1, <2>2 DEF Locked
<1>q. QED BY <1>1, <1>3, <1>4 DEF SetIn, FilledIn

(* iunlock() of what p has locked. *)
LEMMA SetInUnlock ==
    ASSUME MInv, NEW p \in Procs, NEW s, Usable(s), icache[s].lock = p
    PROVE  SetIn(p, [icache EXCEPT ![s] = Unlocked(icache[s])])
<1>1. icache \in [Slots -> SlotRecords] /\ s \in Slots /\ Live(s) /\ icache[s] \in SlotRecords
  BY DEF MInv, MemTypes, Usable, Live
<1>2. PICK v : v = Unlocked(icache[s])
  OBVIOUS
<1>3. /\ v \in SlotRecords /\ v.inum = icache[s].inum /\ v.ref = icache[s].ref /\ v.lock = nullptr
      /\ v.valid = icache[s].valid /\ v.type = icache[s].type /\ v.nlink = icache[s].nlink /\ v.blk = icache[s].blk
  BY <1>1, <1>2, LockFields DEF Unlocked
<1>4. p # nullptr
  BY Ext2Assumption
<1>q. QED BY <1>1, <1>2, <1>3, <1>4 DEF SetIn, KeptIn

(* The slots after such a change, which an iget() may follow. *)
Gets(c) == icache' = c \/ \E u \in Slots, inum \in Inums : Slot4(u, inum) /\ icache' = Got(c, u, inum)

(* What such a change, and an iget() after it, make of each slot. *)
LEMMA CellsOf ==
    ASSUME Before, NEW p \in Procs, NEW c, SetIn(p, c), Gets(c),
           proc[p].pc \notin {"write", "create_dot"}, proc'[p].pc \notin {"write", "create_dot"}
    PROVE  \A t \in Slots : FreeCell(t) \/ (Live(t) /\ (KeptCell(p, t) \/ FilledCell(p, t)))
<1> SUFFICES ASSUME NEW t \in Slots PROVE FreeCell(t) \/ (Live(t) /\ (KeptCell(p, t) \/ FilledCell(p, t)))
  OBVIOUS
<1>0. MInv /\ WritesOK /\ icache[t] \in SlotRecords /\ nullptr \notin Procs
  BY BeforeParts, Ext2Assumption DEF MInv, MemTypes
<1>1. ~Late(p, t) /\ ~Late(p, t)'
  BY DEF Late
<1>2. c \in [Slots -> SlotRecords] /\ c[t].ref = icache[t].ref /\ c[t].inum = icache[t].inum
  BY DEF SetIn
<1>3. CASE ~Live(t)
  <2>1. icache[t].ref = 0 /\ c[t] = icache[t]
    BY <1>0, <1>3 DEF SetIn, Live, SlotRecords
  <2>2. icache[t].lock = nullptr
    <3>1. icache[t].lock \in Procs => icache[t].ref > 0
      BY <1>0, LockedUsable DEF Usable
    <3>q. QED BY <1>0, <2>1, <3>1 DEF SlotRecords
  <2>3. icache'[t] = c[t] \/ (~icache'[t].valid /\ icache'[t].lock = c[t].lock)
    <3>1. CASE icache' = c
      BY <3>1
    <3>2. CASE \E u \in Slots, inum \in Inums : Slot4(u, inum) /\ icache' = Got(c, u, inum)
      <4>1. PICK u \in Slots, inum \in Inums : icache' = Got(c, u, inum)
        BY <3>2
      <4>2. CASE u = t
        BY <1>2, <2>1, <4>1, <4>2, GotFields
      <4>3. CASE u # t
        BY <1>2, <4>1, <4>3, GotFields
      <4>q. QED BY <4>2, <4>3
    <3>q. QED BY <3>1, <3>2 DEF Gets
  <2>q. QED BY <2>1, <2>2, <2>3 DEF FreeCell
<1>4. CASE Live(t)
  <2>1. /\ icache'[t].inum = icache[t].inum /\ icache'[t].valid = c[t].valid /\ icache'[t].type = c[t].type
        /\ icache'[t].nlink = c[t].nlink /\ icache'[t].blk = c[t].blk /\ icache'[t].lock = c[t].lock
    <3>1. CASE icache' = c
      BY <1>2, <3>1
    <3>2. CASE \E u \in Slots, inum \in Inums : Slot4(u, inum) /\ icache' = Got(c, u, inum)
      <4>1. PICK u \in Slots, inum \in Inums : Slot4(u, inum) /\ icache' = Got(c, u, inum)
        BY <3>2
      <4>2. CASE u = t
        <5>1. inum = icache[t].inum
          BY <1>4, <4>1, <4>2 DEF Slot4, Live
        <5>2. c[t].ref > 0
          BY <1>2, <1>4 DEF Live
        <5>q. QED BY <1>2, <4>1, <4>2, <5>1, <5>2, GotFields
      <4>3. CASE u # t
        BY <1>2, <4>1, <4>3, GotFields
      <4>q. QED BY <4>2, <4>3
    <3>q. QED BY <3>1, <3>2 DEF Gets
  <2>2. CASE c[t] = icache[t]
    BY <1>1, <1>4, <2>1, <2>2 DEF KeptCell, Same, Handed
  <2>3. CASE KeptIn(p, c, t)
    BY <1>1, <1>4, <2>1, <2>3 DEF KeptIn, KeptCell, Same, Handed
  <2>4. CASE FilledIn(p, c, t)
    BY <1>1, <1>4, <2>1, <2>4 DEF FilledIn, FilledCell, Inum
  <2>q. QED BY <2>2, <2>3, <2>4 DEF SetIn
<1>q. QED BY <1>3, <1>4

(***************************************************************************)
(* Quiet steps                                                             *)
(***************************************************************************)
Builds == {"create_inode", "create_parent", "create_block", "create_dot"}

(* What a quiet step does to the slots. *)
Cells(p) == \A t \in Slots : FreeCell(t) \/ (Live(t) /\ (KeptCell(p, t) \/ FilledCell(p, t)))

(* A step that turns the record of p into r2 and writes nothing. *)
QuietBy(p, r2) ==
    /\ proc' = [proc EXCEPT ![p] = r2]
    /\ UNCHANGED diskVars
    /\ proc[p].pc \notin FreedPcs \cup Builds \cup {"write"}
    /\ r2.pc \notin FreedPcs \cup Allocating \cup {"write", "create_dot"}
    /\ Cells(p) \/ \E c : SetIn(p, c) /\ Gets(c)
    /\ \A q \in Procs \ {p} : cwd'[q] = cwd[q]
    /\ \A f \in Files : ftable'[f].ip = ftable[f].ip \/ Reach(p, ftable'[f].ip)
    /\ \A q \in Procs \ {p}, fd \in Fds :
          ofile[q][fd] # 0 => ofile'[q][fd] = ofile[q][fd] /\ ftable'[ofile[q][fd]].ip = ftable[ofile[q][fd]].ip
    /\ Reach(p, r2.n) /\ Reach(p, r2.dp) /\ Reach(p, cwd'[p]) /\ Reach(p, Put(r2, 2))
    /\ Reach(p, r2.ip)
    /\ r2.pc \in PastPcs \/ Reach(p, Put(r2, 1))
    /\ OwesIp(r2) => OwesIp(proc[p]) /\ r2.ip = proc[p].ip
    /\ OwesDp(r2) => OwesDp(proc[p]) /\ r2.dp = proc[p].dp

(* The description of a step in terms of r2 is a quiet step. *)
LEMMA QuietByQuiet ==
    ASSUME Before, NEW p \in Procs, NEW r2, QuietBy(p, r2), proc[p].pc # "ialloc_iget"
    PROVE  proc'[p] = r2 /\ Quiet(p) /\ WritesOK'
<1>0. MInv
  BY BeforeParts
<1>1. proc'[p] = r2 /\ \A q \in Procs \ {p} : proc'[q] = proc[q]
  <2>1. DOMAIN proc = Procs
    BY <1>0 DEF MInv, Shapes
  <2>q. QED BY <2>1 DEF QuietBy
<1>2. Growth(p)
  BY <1>1, GrowthBy DEF QuietBy
<1>3. \A t \in Slots : FreeCell(t) \/ (Live(t) /\ (KeptCell(p, t) \/ FilledCell(p, t)))
  <2>1. proc[p].pc \notin {"write", "create_dot"} /\ proc'[p].pc \notin {"write", "create_dot"}
    BY <1>1 DEF QuietBy, Builds
  <2>2. CASE Cells(p)
    BY <2>2 DEF Cells
  <2>3. CASE \E c : SetIn(p, c) /\ Gets(c)
    BY <2>1, <2>3, CellsOf
  <2>q. QED BY <2>2, <2>3 DEF QuietBy
<1>4. Quiet(p)
  BY <1>1, <1>2, <1>3 DEF Quiet, QuietBy, Builds
<1>5. WritesOK'
  BY <1>1, <1>4, QuietNormal, WritesKept DEF QuietBy
<1>q. QED BY <1>1, <1>4, <1>5

(* Such a step that neither starts to free an inode nor ends at a point    *)
(* that names an entry.                                                    *)
Plain(p, r2) ==
    /\ QuietBy(p, r2)
    /\ proc[p].pc # "ialloc_iget" /\ ~panic'
    /\ r2.pc \notin Naming \cup FreePcs
    /\ Point(r2) = "namex" => \A j \in 1..Len(r2.rest) : r2.rest[j] # ".."
    /\ r2.dp # 0 => Owned(p, r2.dp) /\ IsDir(Inum(r2.dp))
    /\ LinkSide(r2) => LinkSide(proc[p])

(* What p has found out after a step. *)
CallEnd(r) ==
    /\ r.pc \in CreateIp => icache[r.ip].nlink = 1 /\ icache[r.ip].type = TypeOf(r.call.op)
    /\ r.pc \in {"create_parent", "create_block"} => icache[r.ip].blk = 0
    /\ r.pc = "create_link" /\ r.call.op = "mkdir" =>
          dents[Inum(r.ip)]["."] = Inum(r.ip) /\ dents[Inum(r.ip)][".."] = Inum(r.dp)
    /\ r.pc = "create_dotdot" => dents[Inum(r.ip)]["."] = Inum(r.ip)
    /\ r.pc = "unlink_ip" => dents[Inum(r.dp)][LastOf(r)] = Inum(r.ip)

(* What the call of p relies on holds at its next point, part by part. *)
LEMMA CallFrom ==
    ASSUME Before, NEW p \in Procs, Normal(p), NEW r2, proc'[p] = r2,
           Point(r2) = "namex" => \A j \in 1..Len(r2.rest) : r2.rest[j] # "..",
           r2.pc \in Naming => LastOf(r2) \in Names,
           r2.dp # 0 => Owned(p, r2.dp) /\ IsDir(Inum(r2.dp)),
           LinkSide(r2) => r2.ip # 0 /\ Owned(p, r2.ip) /\ ~IsDir(Inum(r2.ip)),
           CallEnd(r2)'
    PROVE  CallAt(p)'
<1>0. MInv /\ KeptOK
  BY BeforeParts
<1>1. ASSUME NEW s, Owned(p, s) PROVE IsDir(Inum(s))' <=> IsDir(Inum(s))
  <2>1. Usable(s)
    BY <1>0, <1>1, OwnedKept
  <2>2. icache'[s].inum = Inum(s) /\ Inum(s) \in Inums
    BY <2>1, InumStays DEF Usable, Normal, Live, Inum
  <2>q. QED BY <2>2 DEF Normal, Disked, IsDir, Inum
<1>2. r2.dp # 0 => IsDir(Inum(r2.dp))'
  BY <1>1
<1>3. LinkSide(r2) => ~IsDir(Inum(r2.ip))'
  BY <1>1
<1>q. QED BY <1>2, <1>3 DEF CallAt, CallEnd

(* The same away from the points that name an entry. *)
LEMMA PlainCall ==
    ASSUME Before, NEW p \in Procs, Normal(p), NEW r2, proc'[p] = r2, r2.pc \notin Naming,
           Point(r2) = "namex" => \A j \in 1..Len(r2.rest) : r2.rest[j] # "..",
           r2.dp # 0 => Owned(p, r2.dp) /\ IsDir(Inum(r2.dp)),
           LinkSide(r2) => r2.ip # 0 /\ Owned(p, r2.ip) /\ ~IsDir(Inum(r2.ip))
    PROVE  CallAt(p)'
<1>1. CallEnd(r2)'
  BY DEF CallEnd, Naming, CreateIp, CreateDir
<1>q. QED BY <1>1, CallFrom

(* A plain step keeps the invariant. *)
LEMMA PlainStep ==
    ASSUME Before, After, NEW p \in Procs, NEW r2, Plain(p, r2)
    PROVE  DInv'
<1>0. proc'[p] = r2 /\ Quiet(p) /\ WritesOK' /\ ~panic' /\ MInv /\ KeptOK /\ CallsOK
  BY QuietByQuiet, BeforeParts DEF Plain
<1>1. Normal(p)
  BY <1>0, QuietNormal
<1>2. FreshAt(p)' /\ FreeAt(p)'
  BY <1>0 DEF Plain, FreshAt, FreeAt, Naming, Allocating, CreateIp, CreateDir, FreePcs
<1>3. CallAt(p)'
  <2>1. ASSUME LinkSide(r2) PROVE r2.ip # 0 /\ Owned(p, r2.ip) /\ ~IsDir(Inum(r2.ip))
    <3>1. LinkSide(proc[p]) /\ r2.ip = proc[p].ip
      BY <2>1 DEF Plain, QuietBy, OwesIp
    <3>2. ~IsDir(Inum(r2.ip))
      BY <1>0, <3>1 DEF CallsOK, CallAt
    <3>3. r2.ip # 0
      BY <1>0, <3>1, OwesHas DEF OwesIp
    <3>q. QED BY <3>1, <3>2, <3>3, OwnPlaces
  <2>q. QED BY <1>0, <1>1, <2>1, PlainCall DEF Plain
<1>q. QED BY <1>0, <1>2, <1>3, QuietStep

(* The directory whose "." is looked up has one. *)
LEMMA SelfNamed ==
    ASSUME Before, NEW p \in Procs, NEW s, Owned(p, s), IsDir(Inum(s)), proc[p].pc \notin Builds
    PROVE  dents[Inum(s)]["."] = Inum(s)
<1>0. MInv /\ KeptOK /\ SelfOK /\ FreshOK
  BY BeforeParts
<1>1. Inum(s) \in ibitmap
  BY <1>0, OwnedKept
<1>2. PICK x \in Firms(Inum(s)) : x[1] \in {"file", "cwd"} \/ x[2] = p
  BY <1>0, OwnedKept
<1>3. ~Building(Inum(s))
  <2> SUFFICES ASSUME NEW q \in Procs, proc[q].pc \in Builds, Inum(proc[q].ip) = Inum(s) PROVE FALSE
    BY DEF Building, Builds
  <2>1. proc[q].pc \in CreateIp \cup {"create_inode"}
    BY DEF Builds, CreateIp, CreateDir
  <2>2. Firms(Inum(s)) \subseteq {<<"ip", q>>}
    BY <1>0, <2>1 DEF FreshOK, FreshAt
  <2>3. x = <<"ip", q>>
    BY <1>2, <2>2
  <2>4. q = p
    BY <1>2, <2>3
  <2>q. QED BY <2>4
<1>q. QED BY <1>0, <1>1, <1>2, <1>3 DEF SelfOK

(* What an entry leads to. *)
LEMMA LookupReach ==
    ASSUME Before, NEW p \in Procs, NEW s, Owned(p, s), IsDir(Inum(s)), proc[p].pc \notin Builds,
           NEW name \in DirNames, name # "..", NEW found, found = dents[Inum(s)][name], found # 0
    PROVE  found \in Inums /\ (Linked(found) \/ found = Inum(s))
<1>0. MInv /\ KeptOK /\ DiskTypes
  BY BeforeParts
<1>1. Inum(s) \in ibitmap /\ Inum(s) \in Inums
  BY <1>0, OwnedKept DEF DiskTypes
<1>2. found \in Inums
  BY <1>0, <1>1 DEF DiskTypes
<1>3. CASE name = "."
  BY <1>2, <1>3, SelfNamed
<1>4. CASE name \in Names
  <2>1. <<Inum(s), name>> \in LN(found)
    BY <1>1, <1>4, LinksAlways DEF LinksWell
  <2>q. QED BY <1>2, <2>1 DEF Linked
<1>q. QED BY <1>3, <1>4 DEF DirNames

(* The slot that iget() returns for it. *)
LEMMA GotReach ==
    ASSUME Before, NEW p \in Procs, NEW s, Owned(p, s), NEW c \in [Slots -> SlotRecords],
           NEW u, NEW inum \in Inums, Slot4(u, inum), icache' = Got(c, u, inum), Linked(inum) \/ inum = Inum(s)
    PROVE  Reach(p, u)
<1>0. MInv /\ KeptOK
  BY BeforeParts
<1>1. u \in Slots /\ icache'[u].inum = inum
  BY GotFields DEF Slot4
<1>2. CASE Linked(inum)
  BY <1>1, <1>2 DEF Reach
<1>3. CASE inum = Inum(s)
  <2>1. Usable(s)
    BY <1>0, OwnedKept
  <2>2. icache[u] \in SlotRecords
    BY <1>0, <1>1 DEF MInv, MemTypes
  <2>3. Live(u) /\ Inum(u) = inum
    BY <1>3, <2>1, <2>2 DEF Slot4, Usable, Live, Inum, SlotRecords
  <2>4. u = s
    BY <1>0, <1>1, <1>3, <2>1, <2>3, SameSlot DEF Usable, Live
  <2>q. QED BY <2>4 DEF Reach
<1>q. QED BY <1>2, <1>3

(* What p has at a point of a call. *)
LEMMA OwnAt ==
    ASSUME Before, NEW p \in Procs, proc[p].pc \notin IputPcs
    PROVE  /\ MInv /\ DiskTypes /\ CallAt(p) /\ nullptr \notin Procs
           /\ proc[p] \in Records /\ proc[p].puts = <<>> /\ Put(proc[p], 1) = 0 /\ Put(proc[p], 2) = 0
           /\ Point(proc[p]) = proc[p].pc
           /\ Fits(proc[p].n, proc[p].ip, proc[p].dp, proc[p].call.op, proc[p].ino, proc[p].pc)
           /\ \A s \in {proc[p].n, proc[p].ip, proc[p].dp, cwd[p]} : s # 0 => Owned(p, s) /\ s \in Slots
           /\ \A q \in Procs : Reach(p, cwd[q])
           /\ \A f \in Files : Reach(p, ftable[f].ip)
<1>1. MInv /\ DiskTypes /\ CallAt(p) /\ nullptr \notin Procs
  BY BeforeParts, Ext2Assumption DEF CallsOK
<1>2. \A s \in {proc[p].n, proc[p].ip, proc[p].dp, cwd[p]} : s # 0 => Owned(p, s)
  BY OwnPlaces
<1>3. /\ proc[p].n \in Slots \cup {0} /\ proc[p].ip \in Slots \cup {0} /\ proc[p].dp \in Slots \cup {0}
      /\ cwd[p] \in Slots \cup {0}
  BY <1>1 DEF MInv, Shapes, Records, MemTypes
<1>4. \A q \in Procs : Reach(p, cwd[q])
  BY OwnPlaces DEF Reach
<1>5. \A f \in Files : Reach(p, ftable[f].ip)
  BY OwnPlaces DEF Reach
<1>q. QED BY <1>1, <1>2, <1>3, <1>4, <1>5, NothingToPut

(* The record of a process that puts one inode. *)
LEMMA PutsOne ==
    ASSUME NEW r1 \in Records, NEW s \in Slots, NEW ret \in Rets, NEW r2, r2 = IputThen(r1, <<s>>, ret)
    PROVE  /\ r2 \in Records
           /\ r2.pc = "iput" /\ Point(r2) = ret /\ r2.call = r1.call /\ r2.rest = r1.rest
           /\ r2.n = r1.n /\ r2.ip = r1.ip /\ r2.dp = r1.dp /\ r2.ino = r1.ino
           /\ Put(r2, 1) = s /\ Put(r2, 2) = 0
           /\ r2.pc \notin Naming \cup FreePcs /\ r2.pc \notin FreedPcs \cup Allocating \cup {"write", "create_dot"}
<1>1. /\ r2 \in Records
      /\ r2.pc = "iput" /\ r2.ret = ret /\ r2.call = r1.call /\ r2.rest = r1.rest
      /\ r2.n = r1.n /\ r2.ip = r1.ip /\ r2.dp = r1.dp /\ r2.ino = r1.ino
      /\ Put(r2, 1) = s /\ Put(r2, 2) = 0
  BY IputFields
<1>2. Point(r2) = ret
  BY <1>1 DEF Point, IputPcs
<1>3. "iput" \notin Naming \cup FreePcs /\ "iput" \notin FreedPcs \cup Allocating \cup {"write", "create_dot"}
  BY DEF Naming, FreePcs, FreedPcs, Allocating, CreateIp, CreateDir
<1>q. QED BY <1>1, <1>2, <1>3

(* A step that changes neither files nor working directories. *)
Calm(p) ==
    /\ UNCHANGED <<diskVars, ftable, ofile, cwd>>
    /\ ~panic'

(* A calm step that leaves p with inodes that it had or that a name leads  *)
(* to is quiet.                                                            *)
LEMMA CalmBy ==
    ASSUME NEW p \in Procs, NEW r2, Become(p, r2), Calm(p),
           proc[p].pc \notin FreedPcs \cup Builds \cup {"write"},
           r2.pc \notin FreedPcs \cup Allocating \cup {"write", "create_dot"},
           NEW c, SetIn(p, c), Gets(c),
           Reach(p, r2.n), Reach(p, r2.ip), Reach(p, r2.dp), Reach(p, Put(r2, 2)),
           r2.pc \in PastPcs \/ Reach(p, Put(r2, 1)),
           OwesIp(r2) => OwesIp(proc[p]) /\ r2.ip = proc[p].ip,
           OwesDp(r2) => OwesDp(proc[p]) /\ r2.dp = proc[p].dp
    PROVE  QuietBy(p, r2)
<1>1. Reach(p, cwd'[p])
  BY OwnPlaces DEF Calm, Reach
<1>q. QED BY <1>1 DEF QuietBy, Calm, Become

(* The points at which nothing is owed. *)
Idle == {"user", "unused", "exit", "create", "create_exists", "ialloc", "create_inode", "open", "openw", "open_fd",
         "create_done", "unlink_dp", "unlink_ip", "unlink_bad", "link", "chdir"}

(* At an idle point no link is owed and none has been counted. *)
LEMMA IdleOwes ==
    ASSUME NEW r, Point(r) \in Idle
    PROVE  ~OwesIp(r) /\ ~OwesDp(r) /\ ~LinkSide(r) /\ Point(r) # "namex"
BY DEF Idle, OwesIp, OwesDp, LinkSide, LinkIp, CreateIp, CreateDir

(* The points of a link() that has counted its link. *)
LEMMA LinkOwes ==
    ASSUME NEW r, Point(r) \in LinkIp \/ Point(r) = "namex"
    PROVE  /\ ~OwesDp(r)
           /\ OwesIp(r) <=> LinkSide(r)
           /\ Point(r) \in LinkIp => LinkSide(r)
           /\ Point(r) = "namex" => (LinkSide(r) <=> r.ip # 0)
BY DEF OwesIp, OwesDp, LinkSide, LinkIp, CreateIp, CreateDir

(* One element of namex(): the inode that dirlookup() finds is named, so   *)
(* it is in use.                                                           *)
LEMMA NamexElementD ==
    ASSUME Before, After, NEW p \in Procs, NamexElement(p)
    PROVE  DInv'
<1> DEFINE r == proc[p]
<1>0. r.pc = "namex" /\ r.rest # <<>> /\ icache[r.n].lock = nullptr /\ r.pc \notin IputPcs
  BY DEF NamexElement, At, CanLock, IputPcs
<1>1. /\ MInv /\ DiskTypes /\ CallAt(p) /\ r \in Records /\ Point(r) = "namex"
      /\ Fits(r.n, r.ip, r.dp, r.call.op, r.ino, "namex")
      /\ \A s \in {r.n, r.ip, r.dp, cwd[p]} : s # 0 => Owned(p, s) /\ s \in Slots
  BY <1>0, OwnAt
<1>2. r.n \in Slots /\ r.n # 0 /\ r.dp = 0 /\ Owned(p, r.n) /\ Reach(p, r.n) /\ Reach(p, r.ip) /\ Reach(p, 0)
  BY <1>1 DEF Fits, DpPoints, CreateIp, CreateDir, Reach, Records
<1>3. /\ IlockPanics(r.n) = FALSE /\ Loaded(r.n).type = dinode[Inum(r.n)].mode /\ Loaded(r.n).inum = Inum(r.n)
      /\ Usable(r.n) /\ Loaded(r.n) \in SlotRecords /\ Like(Loaded(r.n), r.n, nullptr)
  BY <1>0, <1>2, LoadedIs, LikeLoaded, BeforeParts DEF Inum
<1>4. Calm(p)
  BY <1>3 DEF NamexElement, Calm
<1>5. PICK c : c = [icache EXCEPT ![r.n] = Loaded(r.n)]
  OBVIOUS
<1>6. SetIn(p, c)
  BY <1>0, <1>2, <1>5, SetInLoad
<1>7. "namex" \notin FreedPcs \cup Builds \cup {"write"} /\ "namex" # "ialloc_iget"
  BY DEF FreedPcs, Builds
<1>8. /\ r.rest \in Seq(DirNames) /\ Head(r.rest) \in DirNames /\ Head(r.rest) # ".."
      /\ \A j \in 1..Len(Tail(r.rest)) : Tail(r.rest)[j] # ".."
  <2>1. \A j \in 1..Len(r.rest) : r.rest[j] # ".."
    BY <1>1 DEF CallAt
  <2>2. r.rest \in Seq(DirNames) /\ Len(r.rest) \in Nat /\ Len(r.rest) # 0
    BY <1>0, <1>1 DEF Records
  <2>3. Head(r.rest) = r.rest[1] /\ 1 \in 1..Len(r.rest) /\ Head(r.rest) \in DirNames
    BY <1>0, <2>2
  <2>4. Len(Tail(r.rest)) = Len(r.rest) - 1 /\ \A j \in 1..Len(Tail(r.rest)) : Tail(r.rest)[j] = r.rest[j + 1]
    BY <1>0, <2>2
  <2>5. \A j \in 1..Len(Tail(r.rest)) : j + 1 \in 1..Len(r.rest)
    BY <2>2, <2>4
  <2>q. QED BY <2>1, <2>2, <2>3, <2>4, <2>5
<1>9. r.call.op \in PathOps /\ (r.ip # 0 => r.ip \in Slots /\ r.call.op = "link") /\ r.ino = 0
  BY <1>1 DEF Records, Fits, OpAt, IpPoints, CreateIp, CreateDir, LinkIp
<1>10. PICK nx : nx = dents[Loaded(r.n).inum][Head(r.rest)]
  OBVIOUS
<1>12. CASE /\ SetSlot(r.n, Loaded(r.n))
            /\ Become(p, IputThen([r EXCEPT !.n = 0], <<r.n>>, NotFound(r)))
  <2>1. NotFound(r) \in Rets /\ NotFound(r) \in {"user", "link_bad"} /\ (NotFound(r) = "link_bad" => r.ip # 0)
    BY <1>1, <1>2, <1>9, NotFoundFits DEF NotFound
  <2>2. PICK r1 : r1 = [r EXCEPT !.n = 0]
    OBVIOUS
  <2>3. PICK r2 : r2 = IputThen(r1, <<r.n>>, NotFound(r))
    OBVIOUS
  <2>4. r1 \in Records /\ r1.n = 0 /\ r1.ip = r.ip /\ r1.dp = r.dp
    BY <1>1, <2>2, DropFields
  <2>5. /\ Point(r2) = NotFound(r) /\ r2.n = 0 /\ r2.ip = r.ip /\ r2.dp = 0
        /\ Put(r2, 1) = r.n /\ Put(r2, 2) = 0
        /\ r2.pc \notin Naming \cup FreePcs /\ r2.pc \notin FreedPcs \cup Allocating \cup {"write", "create_dot"}
    BY <1>2, <2>1, <2>3, <2>4, PutsOne
  <2>6. /\ ~OwesDp(r2) /\ (LinkSide(r2) => LinkSide(r)) /\ (OwesIp(r2) => OwesIp(r))
        /\ Point(r2) # "namex"
    <3>1. CASE NotFound(r) = "user"
      BY <2>5, <3>1, IdleOwes DEF Idle
    <3>2. CASE NotFound(r) = "link_bad"
      BY <1>1, <2>1, <2>5, <3>2, LinkOwes DEF LinkIp
    <3>q. QED BY <2>1, <3>1, <3>2
  <2>7. Become(p, r2) /\ Gets(c)
    BY <1>5, <1>12, <2>2, <2>3 DEF Gets, SetSlot
  <2>8. QuietBy(p, r2)
    BY <1>0, <1>2, <1>4, <1>6, <1>7, <2>5, <2>6, <2>7, CalmBy
  <2>9. Plain(p, r2)
    BY <1>0, <1>4, <2>5, <2>6, <2>8 DEF Plain, Calm
  <2>q. QED BY <2>9, PlainStep
<1>13. CASE /\ WantsParent(r) /\ Len(r.rest) = 1 /\ Loaded(r.n).type = "dir"
            /\ SetSlot(r.n, Loaded(r.n)) /\ Become(p, Found(r))
  <2>1. PICK r2 : r2 = Found(r)
    OBVIOUS
  <2>2. /\ r2.n = 0 /\ r2.puts = r.puts /\ r2.dp = r.n /\ r2.ip = r.ip /\ r2.pc \in {"create", "unlink_dp", "link_dp"}
        /\ r2.pc = "link_dp" => r.ip # 0
    <3>1. Named(r) /\ r.rest # <<>>
      BY <1>0, <1>1, NothingToPut DEF NamexElement
    <3>2. /\ r2.n = 0 /\ r2.puts = r.puts /\ r2.dp = r.n /\ r2.ip = r.ip /\ r2.pc \in {"create", "unlink_dp", "link_dp"}
          /\ Fits(r2.n, r2.ip, r2.dp, r2.call.op, r2.ino, r2.pc)
      BY <1>1, <1>2, <1>8, <1>9, <1>13, <2>1, <3>1, FoundFields
    <3>q. QED BY <3>2 DEF Fits, IpPoints, LinkIp
  <2>3. Put(r2, 1) = 0 /\ Put(r2, 2) = 0 /\ Point(r2) = r2.pc
    BY <1>0, <2>2, OwnAt DEF Put, Point, IputPcs
  <2>4. r2.pc \notin Naming \cup FreePcs /\ r2.pc \notin FreedPcs \cup Allocating \cup {"write", "create_dot"}
    BY <2>2 DEF Naming, FreePcs, FreedPcs, Allocating, CreateIp, CreateDir
  <2>5. /\ ~OwesDp(r2) /\ (LinkSide(r2) => LinkSide(r)) /\ (OwesIp(r2) => OwesIp(r))
        /\ Point(r2) # "namex"
    <3>1. CASE r2.pc \in {"create", "unlink_dp"}
      BY <2>3, <3>1, IdleOwes DEF Idle
    <3>2. CASE r2.pc = "link_dp"
      BY <1>1, <2>2, <2>3, <3>2, LinkOwes DEF LinkIp
    <3>q. QED BY <2>2, <3>1, <3>2
  <2>6. Become(p, r2) /\ Gets(c)
    BY <1>5, <1>13, <2>1 DEF Gets, SetSlot
  <2>7. QuietBy(p, r2)
    BY <1>0, <1>2, <1>4, <1>6, <1>7, <2>2, <2>3, <2>4, <2>5, <2>6, CalmBy
  <2>8. IsDir(Inum(r2.dp)) /\ Owned(p, r2.dp)
    BY <1>2, <1>3, <1>13, <2>2 DEF IsDir
  <2>9. Plain(p, r2)
    BY <1>0, <1>4, <2>4, <2>5, <2>7, <2>8 DEF Plain, Calm
  <2>q. QED BY <2>9, PlainStep
<1>14. CASE /\ nx # 0 /\ Loaded(r.n).type = "dir"
            /\ icache' = SetAndIget(r.n, Loaded(r.n), nx)
            /\ Become(p, IputThen([r EXCEPT !.n = IgetSlot(nx), !.rest = Tail(@)], <<r.n>>, "namex"))
  <2>0. nx \in Inums /\ (Linked(nx) \/ nx = Inum(r.n))
    <3>1. nx = dents[Inum(r.n)][Head(r.rest)] /\ IsDir(Inum(r.n))
      BY <1>3, <1>10, <1>14 DEF IsDir
    <3>q. QED BY <1>0, <1>2, <1>7, <1>8, <1>14, <3>1, LookupReach
  <2>1. PICK u : u = IgetSlot(nx)
    OBVIOUS
  <2>3. Slot4(u, nx) /\ u \in Slots /\ icache' = Got(c, u, nx)
    BY <1>1, <1>3, <1>5, <1>14, <2>0, <2>1, SetAndGot
  <2>3a. Reach(p, u) /\ Gets(c)
    BY <1>2, <1>6, <2>0, <2>3, GotReach DEF SetIn, Gets
  <2>4. PICK r1 : r1 = [r EXCEPT !.n = u, !.rest = Tail(@)]
    OBVIOUS
  <2>5. /\ r1 \in Records /\ r1.n = u /\ r1.rest = Tail(r.rest) /\ r1.ip = r.ip /\ r1.dp = r.dp
    <3>1. Tail(r.rest) \in Seq(DirNames)
      BY <1>0, <1>8
    <3>q. QED BY <1>1, <2>3, <2>4, <3>1 DEF Records
  <2>6. PICK r2 : r2 = IputThen(r1, <<r.n>>, "namex")
    OBVIOUS
  <2>6a. "namex" \in Rets
    BY DEF Rets
  <2>7. /\ Point(r2) = "namex" /\ r2.n = u /\ r2.ip = r.ip /\ r2.dp = 0 /\ r2.rest = Tail(r.rest)
        /\ Put(r2, 1) = r.n /\ Put(r2, 2) = 0
        /\ r2.pc \notin Naming \cup FreePcs /\ r2.pc \notin FreedPcs \cup Allocating \cup {"write", "create_dot"}
    BY <1>2, <2>5, <2>6, <2>6a, PutsOne
  <2>8. ~OwesDp(r2) /\ (LinkSide(r2) => LinkSide(r)) /\ (OwesIp(r2) => OwesIp(r))
    BY <1>1, <2>7, LinkOwes
  <2>9. Become(p, r2)
    BY <1>14, <2>1, <2>4, <2>6
  <2>10. QuietBy(p, r2)
    BY <1>0, <1>2, <1>4, <1>6, <1>7, <2>3a, <2>7, <2>8, <2>9, CalmBy
  <2>11. Plain(p, r2)
    BY <1>0, <1>4, <1>8, <2>7, <2>8, <2>10 DEF Plain, Calm
  <2>q. QED BY <2>11, PlainStep
<1>q. QED BY <1>10, <1>12, <1>13, <1>14 DEF NamexElement

(* The end of namex(): the call goes on with the inode that was found. *)
LEMMA NamexEndD ==
    ASSUME Before, After, NEW p \in Procs, NamexEnd(p)
    PROVE  DInv'
<1> DEFINE r == proc[p]
<1>0. r.pc = "namex" /\ r.rest = <<>> /\ r.pc \notin IputPcs /\ ~panic /\ panic' = panic /\ icache' = icache
  BY DEF NamexEnd, At, IputPcs
<1>1. /\ MInv /\ DiskTypes /\ CallAt(p) /\ r \in Records /\ Point(r) = "namex"
      /\ Fits(r.n, r.ip, r.dp, r.call.op, r.ino, "namex")
      /\ \A s \in {r.n, r.ip, r.dp, cwd[p]} : s # 0 => Owned(p, s) /\ s \in Slots
  BY <1>0, OwnAt
<1>2. r.n \in Slots /\ r.n # 0 /\ r.dp = 0 /\ Owned(p, r.n) /\ Reach(p, r.n) /\ Reach(p, r.ip) /\ Reach(p, 0)
  BY <1>1 DEF Fits, DpPoints, CreateIp, CreateDir, Reach, Records
<1>4. Calm(p)
  BY <1>0 DEF NamexEnd, Calm
<1>6. SetIn(p, icache) /\ Gets(icache)
  BY <1>0, <1>1, SetInNone DEF Gets
<1>7. "namex" \notin FreedPcs \cup Builds \cup {"write"} /\ "namex" # "ialloc_iget"
  BY DEF FreedPcs, Builds
<1>9. r.call.op \in PathOps /\ (r.ip # 0 => r.ip \in Slots /\ r.call.op = "link") /\ r.ino = 0
  BY <1>1 DEF Records, Fits, OpAt, IpPoints, CreateIp, CreateDir, LinkIp
<1>12. CASE WantsParent(r)
  <2>1. NotFound(r) \in Rets /\ NotFound(r) \in {"user", "link_bad"} /\ (NotFound(r) = "link_bad" => r.ip # 0)
    BY <1>1, <1>2, <1>9, NotFoundFits DEF NotFound
  <2>2. PICK r1 : r1 = [r EXCEPT !.n = 0]
    OBVIOUS
  <2>3. PICK r2 : r2 = IputThen(r1, <<r.n>>, NotFound(r))
    OBVIOUS
  <2>4. r1 \in Records /\ r1.n = 0 /\ r1.ip = r.ip /\ r1.dp = r.dp
    BY <1>1, <2>2, DropFields
  <2>5. /\ Point(r2) = NotFound(r) /\ r2.n = 0 /\ r2.ip = r.ip /\ r2.dp = 0
        /\ Put(r2, 1) = r.n /\ Put(r2, 2) = 0
        /\ r2.pc \notin Naming \cup FreePcs /\ r2.pc \notin FreedPcs \cup Allocating \cup {"write", "create_dot"}
    BY <1>2, <2>1, <2>3, <2>4, PutsOne
  <2>6. /\ ~OwesDp(r2) /\ (LinkSide(r2) => LinkSide(r)) /\ (OwesIp(r2) => OwesIp(r))
        /\ Point(r2) # "namex"
    <3>1. CASE NotFound(r) = "user"
      BY <2>5, <3>1, IdleOwes DEF Idle
    <3>2. CASE NotFound(r) = "link_bad"
      BY <1>1, <2>1, <2>5, <3>2, LinkOwes DEF LinkIp
    <3>q. QED BY <2>1, <3>1, <3>2
  <2>7. Become(p, r2)
    BY <1>12, <2>2, <2>3 DEF NamexEnd
  <2>8. QuietBy(p, r2)
    BY <1>0, <1>2, <1>4, <1>6, <1>7, <2>5, <2>6, <2>7, CalmBy
  <2>9. Plain(p, r2)
    BY <1>0, <1>4, <2>5, <2>6, <2>8 DEF Plain, Calm
  <2>q. QED BY <2>9, PlainStep
<1>13. CASE ~WantsParent(r)
  <2>1. PICK r2 : r2 = Found(r)
    OBVIOUS
  <2>2. /\ r2.n = 0 /\ r2.puts = r.puts /\ r2.dp = 0 /\ r2.ip = r.n /\ r2.pc \in {"open", "openw", "link", "chdir"}
    BY <1>0, <1>1, <1>2, <1>9, <1>13, <2>1, FoundFields, NothingToPut
  <2>3. Put(r2, 1) = 0 /\ Put(r2, 2) = 0 /\ Point(r2) = r2.pc
    BY <1>0, <2>2, OwnAt DEF Put, Point, IputPcs
  <2>4. r2.pc \notin Naming \cup FreePcs /\ r2.pc \notin FreedPcs \cup Allocating \cup {"write", "create_dot"}
    BY <2>2 DEF Naming, FreePcs, FreedPcs, Allocating, CreateIp, CreateDir
  <2>5. ~OwesDp(r2) /\ ~LinkSide(r2) /\ ~OwesIp(r2) /\ Point(r2) # "namex"
    BY <2>2, <2>3, IdleOwes DEF Idle
  <2>6. Become(p, r2)
    BY <1>13, <2>1 DEF NamexEnd
  <2>7. QuietBy(p, r2)
    BY <1>0, <1>2, <1>4, <1>6, <1>7, <2>2, <2>3, <2>4, <2>5, <2>6, CalmBy
  <2>9. Plain(p, r2)
    BY <1>0, <1>4, <2>2, <2>4, <2>5, <2>7 DEF Plain, Calm
  <2>q. QED BY <2>9, PlainStep
<1>q. QED BY <1>12, <1>13

(* No element of what namex() is given is "..". *)
LEMMA RestNoDots ==
    ASSUME NEW path, IsPath(path), \A j \in 1..Len(path) : path[j] # "..",
           NEW rest, rest = IF path[1] = "/" THEN Tail(path) ELSE path
    PROVE  \A j \in 1..Len(rest) : rest[j] # ".."
<1>1. path \in Seq(DirNames \cup {"/"}) /\ path # <<>> /\ Len(path) \in Nat
  BY DEF IsPath
<1>2. CASE path[1] = "/"
  <2>1. Len(Tail(path)) = Len(path) - 1 /\ \A j \in 1..Len(Tail(path)) : Tail(path)[j] = path[j + 1]
    BY <1>1
  <2>2. \A j \in 1..Len(Tail(path)) : j + 1 \in 1..Len(path)
    BY <1>1, <2>1
  <2>q. QED BY <1>2, <2>1, <2>2
<1>3. CASE path[1] # "/"
  BY <1>3
<1>q. QED BY <1>2, <1>3

(* The start of namex(). *)
LEMMA NamexStartD ==
    ASSUME Before, After, NEW p \in Procs, proc[p].pc \in {"user", "link_new"}, Calm(p),
           NEW r \in Records, NEW path, IsPath(path), \A j \in 1..Len(path) : path[j] # "..",
           NamexStart(p, r, path), r.ip = proc[p].ip, r.dp = 0, r.puts = <<>>,
           r.ip # 0 => proc[p].pc = "link_new"
    PROVE  DInv'
<1>0. proc[p].pc \notin IputPcs /\ proc[p].pc \notin FreedPcs \cup Builds \cup {"write"} /\ proc[p].pc # "ialloc_iget"
  BY DEF IputPcs, FreedPcs, Builds
<1>1. /\ MInv /\ Point(proc[p]) = proc[p].pc /\ EXT2INO \in Inums
      /\ \A s \in {proc[p].n, proc[p].ip, proc[p].dp, cwd[p]} : s # 0 => Owned(p, s) /\ s \in Slots
  BY <1>0, OwnAt, Ext2Assumption
<1>2. cwd[p] \in Slots /\ cwd[p] # 0 /\ Owned(p, cwd[p])
  <2>1. ~Gone(proc[p])
    BY <1>1 DEF Gone
  <2>q. QED BY <1>1, <2>1 DEF MInv, MemTypes, OwnsOK
<1>3. PICK s, inum, rest : /\ s \in Slots /\ Slot4(s, inum) /\ inum \in Inums /\ icache' = Got(icache, s, inum)
                           /\ Become(p, [r EXCEPT !.pc = "namex", !.n = s, !.rest = rest])
                           /\ rest = IF path[1] = "/" THEN Tail(path) ELSE path
                           /\ inum = EXT2INO \/ inum = Inum(cwd[p])
  <2>1. CASE path[1] = "/"
    <3>1. /\ SetSlot(IgetSlot(EXT2INO), IgetEntry(EXT2INO))
          /\ Become(p, [r EXCEPT !.pc = "namex", !.n = IgetSlot(EXT2INO), !.rest = Tail(path)])
      BY <2>1 DEF NamexStart
    <3>2. /\ Slot4(IgetSlot(EXT2INO), EXT2INO) /\ IgetSlot(EXT2INO) \in Slots
          /\ icache' = Got(icache, IgetSlot(EXT2INO), EXT2INO)
      BY <1>1, <3>1, IgetGot DEF SetSlot
    <3>q. QED BY <1>1, <2>1, <3>1, <3>2
  <2>2. CASE path[1] # "/"
    <3>1. /\ SetSlot(cwd[p], Idup(cwd[p]))
          /\ Become(p, [r EXCEPT !.pc = "namex", !.n = cwd[p], !.rest = path])
      BY <2>2 DEF NamexStart
    <3>3. Usable(cwd[p])
      BY <1>1, <1>2, HeldUsable
    <3>4. /\ Slot4(cwd[p], icache[cwd[p]].inum) /\ icache[cwd[p]].inum \in Inums
          /\ icache' = Got(icache, cwd[p], icache[cwd[p]].inum)
      BY <1>1, <3>1, <3>3, IdupGot DEF SetSlot
    <3>q. QED BY <1>2, <2>2, <3>1, <3>4 DEF Inum
  <2>q. QED BY <2>1, <2>2
<1>4. SetIn(p, icache) /\ Gets(icache)
  BY <1>1, <1>3, SetInNone DEF Gets
<1>5. Reach(p, s)
  <2>1. Linked(inum) \/ inum = Inum(cwd[p])
    BY <1>3 DEF Linked
  <2>q. QED BY <1>2, <1>3, <1>4, <2>1, GotReach DEF SetIn
<1>6. PICK r2 : r2 = [r EXCEPT !.pc = "namex", !.n = s, !.rest = rest]
  OBVIOUS
<1>7. r2.pc = "namex" /\ r2.n = s /\ r2.ip = r.ip /\ r2.dp = 0 /\ r2.rest = rest /\ r2.puts = <<>>
  BY <1>6 DEF Records
<1>8. Put(r2, 1) = 0 /\ Put(r2, 2) = 0 /\ Point(r2) = "namex"
  BY <1>7 DEF Put, Point, IputPcs
<1>9. /\ r2.pc \notin Naming \cup FreePcs /\ r2.pc \notin FreedPcs \cup Allocating \cup {"write", "create_dot"}
  BY <1>7 DEF Naming, FreePcs, FreedPcs, Allocating, CreateIp, CreateDir
<1>10. ~OwesDp(r2) /\ (LinkSide(r2) => LinkSide(proc[p])) /\ (OwesIp(r2) => OwesIp(proc[p]))
  <2>1. CASE r.ip = 0
    BY <1>7, <1>8, <2>1, LinkOwes
  <2>2. CASE r.ip # 0
    BY <1>1, <1>8, <2>2, LinkOwes DEF LinkIp
  <2>q. QED BY <2>1, <2>2
<1>11. Reach(p, r2.ip) /\ Reach(p, 0)
  BY <1>1, <1>7 DEF Reach
<1>12. QuietBy(p, r2)
  BY <1>0, <1>3, <1>4, <1>5, <1>6, <1>7, <1>8, <1>9, <1>10, <1>11, CalmBy
<1>13. Plain(p, r2)
  BY <1>0, <1>3, <1>7, <1>9, <1>10, <1>12, RestNoDots DEF Plain, Calm
<1>q. QED BY <1>13, PlainStep

(* The start of a call with a path keeps the invariant. *)
LEMMA BeginPathCallD ==
    ASSUME Before, After, NoDotDot, NEW p \in Procs, BeginPathCall(p)
    PROVE  DInv'
<1> DEFINE r == proc[p]
<1>0. r.pc = "user" /\ r.pc \notin IputPcs /\ Calm(p)
  BY DEF BeginPathCall, Call, At, IputPcs, Calm
<1>1. Fits(r.n, r.ip, r.dp, r.call.op, r.ino, "user") /\ r \in Records /\ r.puts = <<>>
  BY <1>0, OwnAt
<1>2. r.ip = 0 /\ r.dp = 0
  BY <1>1 DEF Fits, IpPoints, DpPoints, CreateIp, CreateDir, LinkIp
<1>3. PICK c \in Calls : c.op \in PathOps /\ NamexStart(p, [proc[p] EXCEPT !.call = c], c.path)
  BY DEF BeginPathCall
<1>4. c \notin FdCalls
  BY <1>3 DEF FdCalls, PathOps
<1>5. IsPath(c.path) /\ \A j \in 1..Len(c.path) : c.path[j] # ".."
  BY <1>3, <1>4, FileSystemAssumption DEF NoDotDot
<1>6. PICK r1 : r1 = [proc[p] EXCEPT !.call = c]
  OBVIOUS
<1>7. r1 \in Records /\ r1.puts = <<>> /\ r1.ip = r.ip /\ r1.dp = 0
  BY <1>1, <1>2, <1>6 DEF Records
<1>q. QED BY <1>0, <1>2, <1>3, <1>5, <1>6, <1>7, NamexStartD

(* The second namex() of link(), for the new name, keeps the invariant;    *)
(* link() still owes the entry.                                            *)
LEMMA LinkNewD ==
    ASSUME Before, After, NoDotDot, NEW p \in Procs, LinkNew(p)
    PROVE  DInv'
<1> DEFINE r == proc[p]
<1>0. r.pc = "link_new" /\ r.pc \notin IputPcs /\ Calm(p)
  BY DEF LinkNew, At, IputPcs, Calm
<1>1. Fits(r.n, r.ip, r.dp, r.call.op, r.ino, "link_new") /\ r \in Records /\ r.puts = <<>>
  BY <1>0, OwnAt
<1>2. r.ip # 0 /\ r.dp = 0 /\ r.call.op = "link"
  BY <1>1 DEF Fits, OpAt, IpPoints, DpPoints, CreateIp, CreateDir, LinkIp
<1>3. NamexStart(p, r, r.call.new)
  BY DEF LinkNew
<1>4. r.call \in Calls
  BY <1>1, <1>2 DEF Records, NoCall
<1>5. IsPath(r.call.new) /\ \A j \in 1..Len(r.call.new) : r.call.new[j] # ".."
  BY <1>2, <1>4, FileSystemAssumption DEF PathOps, NoDotDot
<1>q. QED BY <1>0, <1>1, <1>2, <1>3, <1>5, NamexStartD

(* A call that lets go of its ip, of its dp, or that goes on, and writes   *)
(* nothing.                                                                *)
QuietPcs == FreedPcs \cup Builds \cup IputPcs \cup {"write", "ialloc_iget"}

(* A call that iput()s its inode and ends, or goes on at an idle point. *)
LEMMA PutIpD ==
    ASSUME Before, After, NEW p \in Procs, Calm(p), proc[p].pc \notin QuietPcs, proc[p].ip # 0,
           NEW ret \in Rets, ret \in Idle,
           Become(p, IputThen([proc[p] EXCEPT !.ip = 0], <<proc[p].ip>>, ret)),
           NEW c, SetIn(p, c), Gets(c)
    PROVE  DInv'
<1> DEFINE r == proc[p]
<1>0. r.pc \notin IputPcs /\ r.pc \notin FreedPcs \cup Builds \cup {"write"} /\ r.pc # "ialloc_iget"
  BY DEF QuietPcs
<1>1. /\ CallAt(p) /\ r \in Records
      /\ \A s \in {r.n, r.ip, r.dp, cwd[p]} : s # 0 => Owned(p, s) /\ s \in Slots
  BY <1>0, OwnAt
<1>2. PICK r1 : r1 = [r EXCEPT !.ip = 0]
  OBVIOUS
<1>3. PICK r2 : r2 = IputThen(r1, <<r.ip>>, ret)
  OBVIOUS
<1>4. r1 \in Records /\ r1.n = r.n /\ r1.ip = 0 /\ r1.dp = r.dp
  BY <1>1, <1>2, DropFields
<1>5. /\ Point(r2) = ret /\ r2.n = r.n /\ r2.ip = 0 /\ r2.dp = r.dp
      /\ Put(r2, 1) = r.ip /\ Put(r2, 2) = 0
      /\ r2.pc \notin Naming \cup FreePcs /\ r2.pc \notin FreedPcs \cup Allocating \cup {"write", "create_dot"}
  BY <1>1, <1>3, <1>4, PutsOne
<1>6. ~OwesDp(r2) /\ ~OwesIp(r2) /\ ~LinkSide(r2) /\ Point(r2) # "namex"
  BY <1>5, IdleOwes
<1>7. Reach(p, r2.n) /\ Reach(p, r2.ip) /\ Reach(p, r2.dp) /\ Reach(p, Put(r2, 1)) /\ Reach(p, Put(r2, 2))
  BY <1>1, <1>5 DEF Reach
<1>8. QuietBy(p, r2)
  BY <1>0, <1>2, <1>3, <1>5, <1>6, <1>7, CalmBy
<1>9. r2.dp # 0 => Owned(p, r2.dp) /\ IsDir(Inum(r2.dp))
  BY <1>1, <1>5 DEF CallAt
<1>10. Plain(p, r2)
  BY <1>0, <1>5, <1>6, <1>8, <1>9 DEF Plain, Calm
<1>q. QED BY <1>10, PlainStep

(* A call that iput()s its directory and goes on. *)
LEMMA PutDpD ==
    ASSUME Before, After, NEW p \in Procs, Calm(p), proc[p].pc \notin QuietPcs, proc[p].dp # 0,
           NEW ret \in Rets, ret \in Idle \/ (ret \in LinkIp /\ proc[p].pc \in LinkIp),
           Become(p, IputThen([proc[p] EXCEPT !.dp = 0], <<proc[p].dp>>, ret)),
           NEW c, SetIn(p, c), Gets(c)
    PROVE  DInv'
<1> DEFINE r == proc[p]
<1>0. r.pc \notin IputPcs /\ r.pc \notin FreedPcs \cup Builds \cup {"write"} /\ r.pc # "ialloc_iget"
  BY DEF QuietPcs
<1>1. /\ r \in Records /\ Point(r) = r.pc
      /\ \A s \in {r.n, r.ip, r.dp, cwd[p]} : s # 0 => Owned(p, s) /\ s \in Slots
  BY <1>0, OwnAt
<1>2. PICK r1 : r1 = [r EXCEPT !.dp = 0]
  OBVIOUS
<1>3. PICK r2 : r2 = IputThen(r1, <<r.dp>>, ret)
  OBVIOUS
<1>4. r1 \in Records /\ r1.n = r.n /\ r1.ip = r.ip /\ r1.dp = 0
  BY <1>1, <1>2, DropFields
<1>5. /\ Point(r2) = ret /\ r2.n = r.n /\ r2.ip = r.ip /\ r2.dp = 0
      /\ Put(r2, 1) = r.dp /\ Put(r2, 2) = 0
      /\ r2.pc \notin Naming \cup FreePcs /\ r2.pc \notin FreedPcs \cup Allocating \cup {"write", "create_dot"}
  BY <1>1, <1>3, <1>4, PutsOne
<1>6. ~OwesDp(r2) /\ (OwesIp(r2) => OwesIp(r)) /\ (LinkSide(r2) => LinkSide(r)) /\ Point(r2) # "namex"
  <2>1. CASE ret \in Idle
    BY <1>5, <2>1, IdleOwes
  <2>2. CASE ret \in LinkIp /\ proc[p].pc \in LinkIp
    BY <1>1, <1>5, <2>2, LinkOwes DEF LinkIp
  <2>q. QED BY <2>1, <2>2
<1>7. Reach(p, r2.n) /\ Reach(p, r2.ip) /\ Reach(p, r2.dp) /\ Reach(p, Put(r2, 1)) /\ Reach(p, Put(r2, 2))
  BY <1>1, <1>5 DEF Reach
<1>8. QuietBy(p, r2)
  BY <1>0, <1>2, <1>3, <1>5, <1>6, <1>7, CalmBy
<1>10. Plain(p, r2)
  BY <1>0, <1>5, <1>6, <1>8 DEF Plain, Calm
<1>q. QED BY <1>10, PlainStep

(* A call that goes on at an idle point. *)
LEMMA GotoD ==
    ASSUME Before, After, NEW p \in Procs, Calm(p), proc[p].pc \notin QuietPcs,
           NEW pc \in Points \ Naming, pc \in Idle, Become(p, Goto(p, pc)),
           NEW c, SetIn(p, c), Gets(c)
    PROVE  DInv'
<1> DEFINE r == proc[p]
<1>0. r.pc \notin IputPcs /\ r.pc \notin FreedPcs \cup Builds \cup {"write"} /\ r.pc # "ialloc_iget"
  BY DEF QuietPcs
<1>1. /\ CallAt(p) /\ r \in Records /\ Put(r, 1) = 0 /\ Put(r, 2) = 0
      /\ \A s \in {r.n, r.ip, r.dp, cwd[p]} : s # 0 => Owned(p, s) /\ s \in Slots
  BY <1>0, OwnAt
<1>2. PICK r2 : r2 = [r EXCEPT !.pc = pc]
  OBVIOUS
<1>3. /\ r2.pc = pc /\ r2.n = r.n /\ r2.ip = r.ip /\ r2.dp = r.dp /\ Put(r2, 1) = 0 /\ Put(r2, 2) = 0
  BY <1>1, <1>2, GotoFields
<1>4. /\ pc \notin IputPcs /\ r2.pc \notin Naming \cup FreePcs
      /\ r2.pc \notin FreedPcs \cup Allocating \cup {"write", "create_dot"}
  BY <1>3 DEF Idle, IputPcs, FreePcs, FreedPcs, Allocating
<1>5. Point(r2) = pc
  BY <1>3, <1>4 DEF Point
<1>6. ~OwesDp(r2) /\ ~OwesIp(r2) /\ ~LinkSide(r2) /\ Point(r2) # "namex"
  BY <1>5, IdleOwes
<1>7. Reach(p, r2.n) /\ Reach(p, r2.ip) /\ Reach(p, r2.dp) /\ Reach(p, Put(r2, 1)) /\ Reach(p, Put(r2, 2))
  BY <1>1, <1>3 DEF Reach
<1>8. QuietBy(p, r2)
  BY <1>0, <1>2, <1>3, <1>4, <1>6, <1>7, CalmBy DEF Goto
<1>9. r2.dp # 0 => Owned(p, r2.dp) /\ IsDir(Inum(r2.dp))
  BY <1>1, <1>3 DEF CallAt
<1>10. Plain(p, r2)
  BY <1>0, <1>4, <1>6, <1>8, <1>9 DEF Plain, Calm
<1>q. QED BY <1>10, PlainStep

(* The slot that p locks and the slots that it has locked. *)
LEMMA Loading ==
    ASSUME Before, NEW p \in Procs, NEW s, Owned(p, s), CanLock(s), NEW v, v = Loaded(s) \/ v = Locked(s, p),
           SetSlot(s, v)
    PROVE  IlockPanics(s) = FALSE /\ \E c : SetIn(p, c) /\ Gets(c)
<1>1. icache[s].lock = nullptr
  BY DEF CanLock
<1>2. SetIn(p, [icache EXCEPT ![s] = v])
  BY <1>1, SetInLoad
<1>q. QED BY <1>1, <1>2, LoadedIs DEF SetSlot, Gets

(* iunlock() of the ip or the dp that p has locked is a change of its own  *)
(* slot.                                                                   *)
LEMMA Unlocking ==
    ASSUME Before, NEW p \in Procs, proc[p].pc \notin IputPcs \cup {"write"},
           NEW s, s # 0, (s = proc[p].ip /\ proc[p].pc \in IpLocked) \/ (s = proc[p].dp /\ proc[p].pc \in DpLocked),
           SetSlot(s, Unlocked(icache[s]))
    PROVE  icache[s].lock = p /\ \E c : SetIn(p, c) /\ Gets(c)
<1>1. MInv /\ s \in Slots /\ Point(proc[p]) = proc[p].pc
  BY OwnAt
<1>2. icache[s].lock = p
  BY <1>1 DEF MInv, LocksOK, Locks, LocksAt
<1>3. Usable(s)
  BY <1>1, HeldUsable
<1>4. SetIn(p, [icache EXCEPT ![s] = Unlocked(icache[s])])
  BY <1>1, <1>2, <1>3, SetInUnlock
<1>q. QED BY <1>2, <1>4 DEF SetSlot, Gets

(* create() that finds the name taken: open it or give up. *)
LEMMA CreateExistsD ==
    ASSUME Before, After, NEW p \in Procs, CreateExists(p)
    PROVE  DInv'
<1> DEFINE r == proc[p]
<1>0. r.pc = "create_exists" /\ r.pc \notin IputPcs /\ r.pc \notin QuietPcs /\ CanLock(r.ip)
  BY DEF CreateExists, At, QuietPcs, IputPcs, FreedPcs, Builds
<1>1. r.ip # 0 /\ Owned(p, r.ip)
  BY <1>0, OwnAt DEF Fits, IpPoints
<1>2. \E v : (v = Loaded(r.ip) \/ v = Locked(r.ip, p)) /\ SetSlot(r.ip, v)
  BY DEF CreateExists
<1>3. PICK c : IlockPanics(r.ip) = FALSE /\ SetIn(p, c) /\ Gets(c)
  BY <1>0, <1>1, <1>2, Loading
<1>4. Calm(p)
  BY <1>3 DEF CreateExists, Calm
<1>5. "open_fd" \in Points \ Naming /\ "open_fd" \in Idle /\ "user" \in Rets /\ "user" \in Idle
  BY DEF Points, IpPoints, Naming, CreateIp, CreateDir, Idle, Rets
<1>6. Become(p, Goto(p, "open_fd")) \/ Become(p, IputThen([r EXCEPT !.ip = 0], <<r.ip>>, "user"))
  BY DEF CreateExists
<1>q. QED BY <1>0, <1>1, <1>3, <1>4, <1>5, <1>6, GotoD, PutIpD

(* The ilock() of open() does not panic: the inode is in use and has a     *)
(* type.                                                                   *)
LEMMA OpenLockD ==
    ASSUME Before, After, NEW p \in Procs, NEW op \in {"open", "openw"}, OpenLock(p, op)
    PROVE  DInv'
<1> DEFINE r == proc[p]
<1>0. r.pc = op /\ r.pc \notin IputPcs /\ r.pc \notin QuietPcs /\ CanLock(r.ip)
  BY DEF OpenLock, At, QuietPcs, IputPcs, FreedPcs, Builds
<1>1. r.ip # 0 /\ Owned(p, r.ip)
  BY <1>0, OwnAt DEF Fits, IpPoints
<1>2. \E v : (v = Loaded(r.ip) \/ v = Locked(r.ip, p)) /\ SetSlot(r.ip, v)
  BY DEF OpenLock
<1>3. PICK c : IlockPanics(r.ip) = FALSE /\ SetIn(p, c) /\ Gets(c)
  BY <1>0, <1>1, <1>2, Loading
<1>4. Calm(p)
  BY <1>3 DEF OpenLock, Calm
<1>5. "open_fd" \in Points \ Naming /\ "open_fd" \in Idle /\ "user" \in Rets /\ "user" \in Idle
  BY DEF Points, IpPoints, Naming, CreateIp, CreateDir, Idle, Rets
<1>6. Become(p, Goto(p, "open_fd")) \/ Become(p, IputThen([r EXCEPT !.ip = 0], <<r.ip>>, "user"))
  BY DEF OpenLock
<1>q. QED BY <1>0, <1>1, <1>3, <1>4, <1>5, <1>6, GotoD, PutIpD

(* The end of create() lets go of the new inode, or opens it. *)
LEMMA CreateDoneD ==
    ASSUME Before, After, NEW p \in Procs, CreateDone(p)
    PROVE  DInv'
<1> DEFINE r == proc[p]
<1>0. r.pc = "create_done" /\ r.pc \notin IputPcs \cup {"write"} /\ r.pc \notin QuietPcs /\ Calm(p)
  BY DEF CreateDone, At, QuietPcs, IputPcs, FreedPcs, Builds, Calm
<1>1. r.ip # 0 /\ r.pc \in IpLocked
  BY <1>0, OwnAt DEF Fits, IpPoints, IpLocked
<1>2. SetSlot(r.ip, Unlocked(icache[r.ip])) /\ Become(p, IputThen([r EXCEPT !.ip = 0], <<r.ip>>, "user"))
  BY DEF CreateDone
<1>3. PICK c : SetIn(p, c) /\ Gets(c)
  BY <1>0, <1>1, <1>2, Unlocking
<1>5. "user" \in Rets /\ "user" \in Idle
  BY DEF Idle, Rets
<1>q. QED BY <1>0, <1>1, <1>2, <1>3, <1>5, PutIpD

(* unlink() that refuses to remove a directory that is not empty. *)
LEMMA UnlinkBadD ==
    ASSUME Before, After, NEW p \in Procs, UnlinkBad(p)
    PROVE  DInv'
<1> DEFINE r == proc[p]
<1>0. r.pc = "unlink_bad" /\ r.pc \notin IputPcs \cup {"write"} /\ r.pc \notin QuietPcs /\ Calm(p)
  BY DEF UnlinkBad, At, QuietPcs, IputPcs, FreedPcs, Builds, Calm
<1>1. r.dp # 0 /\ r.pc \in DpLocked
  BY <1>0, OwnAt DEF Fits, DpPoints, DpLocked
<1>2. SetSlot(r.dp, Unlocked(icache[r.dp])) /\ Become(p, IputThen([r EXCEPT !.dp = 0], <<r.dp>>, "user"))
  BY DEF UnlinkBad
<1>3. PICK c : SetIn(p, c) /\ Gets(c)
  BY <1>0, <1>1, <1>2, Unlocking
<1>5. "user" \in Rets /\ "user" \in Idle
  BY DEF Idle, Rets
<1>q. QED BY <1>0, <1>1, <1>2, <1>3, <1>5, PutDpD

(* link() that finds the new name taken lets go of the directory. *)
LEMMA LinkTakenD ==
    ASSUME Before, After, NEW p \in Procs, LinkTaken(p)
    PROVE  DInv'
<1> DEFINE r == proc[p]
<1>0. r.pc = "link_taken" /\ r.pc \notin IputPcs \cup {"write"} /\ r.pc \notin QuietPcs /\ Calm(p)
  BY DEF LinkTaken, At, QuietPcs, IputPcs, FreedPcs, Builds, Calm
<1>1. r.dp # 0 /\ r.pc \in DpLocked
  BY <1>0, OwnAt DEF Fits, DpPoints, DpLocked
<1>2. SetSlot(r.dp, Unlocked(icache[r.dp])) /\ Become(p, IputThen([r EXCEPT !.dp = 0], <<r.dp>>, "link_bad"))
  BY DEF LinkTaken
<1>3. PICK c : SetIn(p, c) /\ Gets(c)
  BY <1>0, <1>1, <1>2, Unlocking
<1>5. "link_bad" \in Rets /\ "link_bad" \in LinkIp /\ r.pc \in LinkIp
  BY <1>0 DEF LinkIp, Rets
<1>q. QED BY <1>0, <1>1, <1>2, <1>3, <1>5, PutDpD

(* exit() begins. *)
LEMMA ExitD ==
    ASSUME Before, After, NEW p \in Procs, Exit(p)
    PROVE  DInv'
<1>0. proc[p].pc = "user" /\ proc[p].pc \notin QuietPcs /\ Calm(p) /\ icache' = icache /\ Become(p, Goto(p, "exit"))
  BY DEF Exit, At, QuietPcs, IputPcs, FreedPcs, Builds, Calm
<1>1. "exit" \in Points \ Naming /\ "exit" \in Idle
  BY DEF Points, Naming, CreateIp, CreateDir, Idle
<1>2. SetIn(p, icache) /\ Gets(icache)
  BY <1>0, SetInNone, BeforeParts DEF Gets
<1>q. QED BY <1>0, <1>1, <1>2, GotoD

(* What a process keeps it reaches. *)
LEMMA ReachOwn ==
    ASSUME NEW p \in Procs
    PROVE  /\ Reach(p, proc[p].n) /\ Reach(p, proc[p].ip) /\ Reach(p, proc[p].dp)
           /\ Reach(p, Put(proc[p], 2)) /\ Reach(p, cwd[p]) /\ Reach(p, 0)
           /\ \A q \in Procs : Reach(p, cwd[q])
           /\ \A f \in Files : Reach(p, ftable[f].ip)
           /\ proc[p].pc \notin PastPcs => Reach(p, Put(proc[p], 1))
BY OwnPlaces DEF Reach

(* A step of iput() that leaves the call where it is. *)
LEMMA StaysD ==
    ASSUME Before, After, NEW p \in Procs, Calm(p), proc[p].pc \in {"iput", "iput_drop"},
           Cells(p) \/ \E c : SetIn(p, c) /\ Gets(c),
           NEW r2, Become(p, r2), r2.n = proc[p].n, r2.ip = proc[p].ip, r2.dp = proc[p].dp,
           Point(r2) = Point(proc[p]),
           (r2.call = proc[p].call /\ r2.rest = proc[p].rest) \/ Point(r2) \in Idle,
           r2.pc \in Rets \cup {"iput", "iput_drop"},
           r2.pc = "iput_drop" \/ Reach(p, Put(r2, 1)), Reach(p, Put(r2, 2))
    PROVE  DInv'
<1> DEFINE r == proc[p]
<1>1. r.pc \notin FreedPcs \cup Builds \cup {"write"} /\ r.pc # "ialloc_iget"
  BY DEF FreedPcs, Builds
<1>2. /\ r2.pc \notin Naming \cup FreePcs
      /\ r2.pc \notin FreedPcs \cup Allocating \cup {"write", "create_dot"}
      /\ r2.pc = "iput_drop" => r2.pc \in PastPcs
  BY DEF Rets, Naming, FreePcs, FreedPcs, Allocating, CreateIp, CreateDir, PastPcs
<1>3. CallAt(p)
  BY BeforeParts DEF CallsOK
<1>4. /\ OwesIp(r2) => OwesIp(r)
      /\ OwesDp(r2) => OwesDp(r)
      /\ LinkSide(r2) => LinkSide(r)
      /\ Point(r2) = "namex" => Point(r) = "namex" /\ r2.rest = r.rest
  <2>1. CASE Point(r2) \in Idle
    BY <2>1, IdleOwes
  <2>2. CASE r2.call = r.call /\ r2.rest = r.rest
    BY <2>2 DEF OwesIp, OwesDp, LinkSide
  <2>q. QED BY <2>1, <2>2
<1>5. Reach(p, cwd'[p]) /\ Reach(p, r2.n) /\ Reach(p, r2.ip) /\ Reach(p, r2.dp)
  BY ReachOwn DEF Calm
<1>6. QuietBy(p, r2)
  BY <1>1, <1>2, <1>4, <1>5 DEF QuietBy, Calm, Become
<1>7. r2.dp # 0 => Owned(p, r2.dp) /\ IsDir(Inum(r2.dp))
  BY <1>3, OwnPlaces DEF CallAt
<1>8. Point(r2) = "namex" => \A j \in 1..Len(r2.rest) : r2.rest[j] # ".."
  BY <1>3, <1>4 DEF CallAt
<1>9. Plain(p, r2)
  BY <1>1, <1>2, <1>4, <1>6, <1>7, <1>8 DEF Plain, Calm
<1>q. QED BY <1>9, PlainStep

(* The last part of iput(), ref--: a slot that nobody uses may then be     *)
(* taken over.                                                             *)
LEMMA IputDropD ==
    ASSUME Before, After, NEW p \in Procs, IputDrop(p)
    PROVE  DInv'
<1> DEFINE r == proc[p]
<1>0. MInv /\ r.pc = "iput_drop" /\ r.pc \in IputPcs /\ Calm(p)
  BY BeforeParts DEF IputDrop, At, IputPcs, Calm
<1>1. PICK s : s = Put(r, 1)
  OBVIOUS
<1>2. /\ r \in Records /\ Shape(r) /\ r.puts # <<>> /\ Len(r.puts) \in 1..2
      /\ s \in Slots /\ Usable(s) /\ Head(r.puts) = s /\ Point(r) = r.ret /\ r.ret \in Rets
      /\ icache \in [Slots -> SlotRecords]
  BY <1>0, <1>1, Putting DEF Records
<1>3. PICK tl : tl = Tail(r.puts)
  OBVIOUS
<1>4. PICK r2 : /\ Left(r, r2) /\ Become(p, r2) /\ Point(r2) = r.ret /\ r2.pc \in Rets \cup {"iput"}
                /\ (r2.call = r.call /\ r2.rest = r.rest) \/ r.ret \in {"user", "unused"}
  <2>1. r.puts \in Seq(Slots) /\ Len(r.puts) <= 2
    BY <1>2 DEF Records, Shape
  <2>2. /\ tl \in Seq(Slots)
        /\ tl = <<>> => Len(r.puts) = 1
        /\ tl # <<>> => Len(r.puts) = 2 /\ Len(tl) = 1 /\ tl[1] = r.puts[2] /\ r.puts[2] \in Slots
    BY <1>2, <1>3, <2>1, TailOf
  <2>3. CASE tl # <<>>
    <3>1. PICK r2 : r2 = [r EXCEPT !.puts = tl, !.pc = "iput"]
      OBVIOUS
    <3>2. Become(p, r2)
      BY <1>2, <1>3, <2>3, <3>1 DEF IputDrop, Records
    <3>3. r2.pc = "iput" /\ r2.ret = r.ret /\ r2.call = r.call /\ r2.rest = r.rest
      BY <1>2, <3>1 DEF Records
    <3>4. Point(r2) = r.ret
      BY <3>3 DEF Point, IputPcs
    <3>q. QED BY <1>0, <1>2, <2>2, <2>3, <3>1, <3>2, <3>3, <3>4, LeftMore
  <2>4. CASE tl = <<>>
    <3>1. PICK r2 : r2 = IF r.ret = "user" THEN User ELSE IF r.ret = "unused" THEN NoProc
                         ELSE [r EXCEPT !.puts = <<>>, !.pc = r.ret, !.ret = "user"]
      OBVIOUS
    <3>2. Become(p, r2)
      BY <1>2, <1>3, <2>4, <3>1 DEF IputDrop, Records
    <3>3. \/ r.ret = "user" /\ r2 = User
          \/ r.ret = "unused" /\ r2 = NoProc
          \/ r.ret \notin {"user", "unused"} /\ r2 = [r EXCEPT !.puts = <<>>, !.pc = r.ret, !.ret = "user"]
      BY <3>1
    <3>4. /\ r2.pc = r.ret
          /\ (r2.call = r.call /\ r2.rest = r.rest) \/ r.ret \in {"user", "unused"}
      <4>1. CASE r.ret \in {"user", "unused"}
        BY <3>3, <4>1, UserFields
      <4>2. CASE r.ret \notin {"user", "unused"}
        BY <1>2, <3>3, <4>2 DEF Records
      <4>q. QED BY <4>1, <4>2
    <3>5. Point(r2) = r.ret
      <4>1. Rets \cap IputPcs = {}
        BY DEF Rets, IputPcs
      <4>q. QED BY <1>2, <3>4, <4>1 DEF Point
    <3>q. QED BY <1>0, <1>2, <2>2, <2>4, <3>2, <3>3, <3>4, <3>5, LeftNone
  <2>q. QED BY <2>3, <2>4
<1>5. r2.n = r.n /\ r2.ip = r.ip /\ r2.dp = r.dp /\ Put(r2, 1) = Put(r, 2) /\ Put(r2, 2) = 0
  BY <1>4 DEF Left
<1>6. Reach(p, Put(r2, 1)) /\ Reach(p, Put(r2, 2))
  BY <1>5, ReachOwn
<1>7. {"user", "unused"} \subseteq Idle
  BY DEF Idle
<1>8. Cells(p)
  <2> SUFFICES ASSUME NEW t \in Slots PROVE FreeCell(t) \/ (Live(t) /\ KeptCell(p, t))
    BY DEF Cells
  <2>1. icache' = [icache EXCEPT ![s] = [icache[s] EXCEPT !.ref = icache[s].ref - 1]]
    BY <1>2 DEF IputDrop
  <2>2. Same(t) /\ icache'[t].lock = icache[t].lock
    BY <1>2, <2>1 DEF Same, SlotRecords
  <2>3. t # s => icache'[t] = icache[t]
    BY <1>2, <2>1
  <2>4. r2.pc \notin {"write", "create_dot"}
    BY <1>4 DEF Rets
  <2>5. proc'[p] = r2
    BY <1>0, <1>4 DEF Become, MInv, Shapes
  <2>6. ~Late(p, t) /\ ~Late(p, t)'
    BY <1>0, <2>4, <2>5 DEF Late
  <2>7. Live(t) => KeptCell(p, t)
    BY <2>2, <2>6 DEF KeptCell, Handed
  <2>8. ~Live(t) => icache[t].ref = 0 /\ t # s
    BY <1>2 DEF Live, Usable, SlotRecords
  <2>q. QED BY <2>3, <2>7, <2>8 DEF FreeCell
<1>q. QED BY <1>0, <1>2, <1>4, <1>5, <1>6, <1>7, <1>8, StaysD

(* iput() of an inode that has links or other users frees nothing. *)
LEMMA IputLockLiveD ==
    ASSUME Before, After, NEW p \in Procs, IputLock(p), NEW s, s = Put(proc[p], 1),
           ~(icache[s].valid /\ icache[s].nlink = 0 /\ icache[s].ref = 1)
    PROVE  DInv'
<1> DEFINE r == proc[p]
<1>0. MInv /\ r.pc = "iput" /\ r.pc \in IputPcs /\ Calm(p)
  BY BeforeParts DEF IputLock, At, IputPcs, Calm
<1>1. r \in Records /\ Shape(r) /\ Head(r.puts) = s /\ s \in Slots /\ Usable(s)
  BY <1>0, Putting
<1>2. /\ icache[s].lock = nullptr /\ SetSlot(s, [icache[s] EXCEPT !.lock = nullptr])
      /\ Become(p, Goto(p, "iput_drop"))
  BY <1>1 DEF IputLock, CanLock
<1>3. icache' = icache
  <2>1. [icache[s] EXCEPT !.lock = nullptr] = icache[s]
    BY <1>1, <1>2 DEF Usable, SlotRecords
  <2>q. QED BY <1>0, <1>2, <2>1 DEF SetSlot, MInv, MemTypes
<1>4. SetIn(p, icache) /\ Gets(icache)
  BY <1>0, <1>3, SetInNone DEF Gets
<1>5. PICK r2 : r2 = [r EXCEPT !.pc = "iput_drop"]
  OBVIOUS
<1>6. /\ r2.pc = "iput_drop" /\ r2.ret = r.ret /\ r2.call = r.call /\ r2.rest = r.rest
      /\ r2.n = r.n /\ r2.ip = r.ip /\ r2.dp = r.dp /\ Put(r2, 2) = Put(r, 2)
  <2>1. "iput_drop" \in Points \cup IputPcs
    BY DEF IputPcs
  <2>q. QED BY <1>1, <1>5, <2>1, GotoFields
<1>7. Point(r2) = Point(r)
  BY <1>0, <1>6 DEF Point, IputPcs
<1>8. Reach(p, Put(r2, 2))
  BY <1>6, ReachOwn
<1>9. Become(p, r2)
  BY <1>2, <1>5 DEF Goto
<1>q. QED BY <1>0, <1>4, <1>6, <1>7, <1>8, <1>9, StaysD

(* The last reference is the only one. *)
OnlyUserWell ==
    MInv => \A p \in Procs, s \in Slots :
        Put(proc[p], 1) = s /\ icache[s].ref = 1 => Firms(Inum(s)) \subseteq {<<"put1", p>>}

(* If ref is 1 the argument of the iput() is the only place that has the   *)
(* inode.                                                                  *)
LEMMA OnlyUser == OnlyUserWell
<1> SUFFICES ASSUME MInv, NEW p \in Procs, NEW s \in Slots, Put(proc[p], 1) = s, icache[s].ref = 1,
                    NEW x \in Firms(Inum(s))
             PROVE  x = <<"put1", p>>
  BY DEF OnlyUserWell
<1>1. x \in Places /\ Holds(x) # 0 /\ Inum(Holds(x)) = Inum(s)
  BY DEF Firms, Firm
<1>2. Live(s) /\ Live(Holds(x)) /\ Holds(x) \in Slots
  BY <1>1, HoldsUsable DEF Usable, Live
<1>3. x \in Users(s)
  BY <1>1, <1>2, SameSlot DEF Users
<1>4. <<"put1", p>> \in Users(s)
  BY HoldsProc DEF Users
<1>5. Cardinality(Users(s)) = 1
  BY DEF MInv, RefsOK
<1>6. PICK y : Users(s) = {y}
  BY <1>5, UsersFinite, FS_Singleton
<1>q. QED BY <1>3, <1>4, <1>6

(* The same of the next state. *)
LEMMA OnlyUserNext == OnlyUserWell'
BY OnlyUser, PTL

(* iput() of the last reference to an inode without links: nobody else has *)
(* it, and no entry names it, when the freeing begins.                     *)
LEMMA IputLockDeadD ==
    ASSUME Before, After, NEW p \in Procs, IputLock(p), NEW s, s = Put(proc[p], 1),
           icache[s].valid /\ icache[s].nlink = 0 /\ icache[s].ref = 1
    PROVE  DInv'
<1> DEFINE r == proc[p]
<1>0. MInv /\ MInv' /\ r.pc = "iput" /\ r.pc \in IputPcs /\ Calm(p) /\ CallAt(p)
  BY BeforeParts DEF IputLock, At, IputPcs, Calm, After, CallsOK
<1>1. r \in Records /\ Shape(r) /\ Head(r.puts) = s /\ s \in Slots /\ Usable(s)
  BY <1>0, Putting
<1>2. /\ icache[s].lock = nullptr /\ SetSlot(s, [icache[s] EXCEPT !.lock = p])
      /\ Become(p, Goto(p, "ifree"))
  BY <1>1 DEF IputLock, CanLock
<1>3. PICK v : v = [icache[s] EXCEPT !.lock = p]
  OBVIOUS
<1>4. /\ v \in SlotRecords /\ v.inum = icache[s].inum /\ v.ref = icache[s].ref /\ v.lock = p
      /\ v.valid = icache[s].valid /\ v.type = icache[s].type /\ v.nlink = icache[s].nlink /\ v.blk = icache[s].blk
  BY <1>1, <1>3, LockFields DEF Usable
<1>5. PICK c : c = [icache EXCEPT ![s] = v]
  OBVIOUS
<1>6. icache \in [Slots -> SlotRecords] /\ icache' = c /\ icache'[s] = v
  BY <1>0, <1>1, <1>2, <1>3, <1>5 DEF MInv, MemTypes, SetSlot
<1>7. SetIn(p, c) /\ Gets(c)
  <2>1. KeptIn(p, c, s) /\ Live(s)
    BY <1>1, <1>2, <1>4, <1>5, <1>6 DEF KeptIn, Live, Usable
  <2>q. QED BY <1>1, <1>4, <1>5, <1>6, <2>1 DEF SetIn, Gets
<1>8. PICK r2 : r2 = [r EXCEPT !.pc = "ifree"]
  OBVIOUS
<1>9. /\ r2.pc = "ifree" /\ r2.ret = r.ret /\ r2.call = r.call /\ r2.rest = r.rest
      /\ r2.n = r.n /\ r2.ip = r.ip /\ r2.dp = r.dp /\ Put(r2, 1) = s /\ Put(r2, 2) = Put(r, 2)
  <2>1. "ifree" \in Points \cup IputPcs
    BY DEF IputPcs
  <2>q. QED BY <1>1, <1>8, <2>1, GotoFields
<1>10. Point(r2) = Point(r)
  BY <1>0, <1>9 DEF Point, IputPcs
<1>11. /\ OwesIp(r2) => OwesIp(r)
       /\ OwesDp(r2) => OwesDp(r)
       /\ LinkSide(r2) => LinkSide(r)
  BY <1>9, <1>10 DEF OwesIp, OwesDp, LinkSide
<1>12. /\ Reach(p, r2.n) /\ Reach(p, r2.ip) /\ Reach(p, r2.dp) /\ Reach(p, Put(r2, 1)) /\ Reach(p, Put(r2, 2))
  BY <1>0, <1>9, ReachOwn DEF PastPcs
<1>13. /\ r.pc \notin FreedPcs \cup Builds \cup {"write"} /\ r.pc # "ialloc_iget"
       /\ r2.pc \notin FreedPcs \cup Allocating \cup {"write", "create_dot"} /\ r2.pc \notin Naming
  BY <1>0, <1>9 DEF FreedPcs, Builds, Allocating, Naming, CreateIp, CreateDir
<1>14. QuietBy(p, r2)
  BY <1>0, <1>2, <1>7, <1>8, <1>9, <1>11, <1>12, <1>13, CalmBy DEF Goto
<1>15. proc'[p] = r2 /\ Quiet(p) /\ WritesOK' /\ Normal(p)
  BY <1>13, <1>14, QuietByQuiet, QuietNormal
<1>16. FreshAt(p)'
  BY <1>13, <1>15 DEF FreshAt, Naming, Allocating, CreateIp, CreateDir
<1>17. (Firms(Inum(s)) \subseteq {<<"put1", p>>})'
  BY <1>0, <1>1, <1>4, <1>6, <1>9, <1>15, OnlyUserNext DEF OnlyUserWell
<1>18. FreeAt(p)'
  BY <1>4, <1>6, <1>9, <1>15, <1>17 DEF FreeAt
<1>19. CallAt(p)'
  <2>1. r2.dp # 0 => Owned(p, r2.dp) /\ IsDir(Inum(r2.dp))
    BY <1>0, <1>9, OwnPlaces DEF CallAt
  <2>2. LinkSide(r2) => r2.ip # 0 /\ Owned(p, r2.ip) /\ ~IsDir(Inum(r2.ip))
    <3>1. LinkSide(r) => r.ip # 0
      BY <1>0, OwesHas DEF OwesIp
    <3>q. QED BY <1>0, <1>9, <1>11, <3>1, OwnPlaces DEF CallAt
  <2>3. Point(r2) = "namex" => \A j \in 1..Len(r2.rest) : r2.rest[j] # ".."
    BY <1>0, <1>9, <1>10 DEF CallAt
  <2>q. QED BY <1>13, <1>15, <2>1, <2>2, <2>3, PlainCall
<1>q. QED BY <1>0, <1>15, <1>16, <1>18, <1>19, QuietStep DEF Calm

(* The test of iput() keeps the invariant. *)
LEMMA IputLockD ==
    ASSUME Before, After, NEW p \in Procs, IputLock(p)
    PROVE  DInv'
BY IputLockDeadD, IputLockLiveD

(* file_read() locks an inode that is in use. *)
LEMMA ReadFileD ==
    ASSUME Before, After, NEW p \in Procs, ReadFile(p)
    PROVE  DInv'
<1> DEFINE r == proc[p]
<1>0. MInv /\ r.pc = "user" /\ UNCHANGED <<diskVars, ftable, ofile, cwd, proc>>
  BY BeforeParts DEF ReadFile, Call, At
<1>1. PICK fd \in Fds : /\ ofile[p][fd] # 0
                        /\ CanLock(ftable[ofile[p][fd]].ip)
                        /\ panic' = IlockPanics(ftable[ofile[p][fd]].ip)
                        /\ SetSlot(ftable[ofile[p][fd]].ip, Loaded(ftable[ofile[p][fd]].ip))
  BY DEF ReadFile, FreeFds
<1>2. PICK s : s = ftable[ofile[p][fd]].ip
  OBVIOUS
<1>3. Usable(s) /\ ofile[p][fd] \in Files
  BY <1>0, <1>1, <1>2, OpenFile
<1>4. Owned(p, s)
  BY <1>2, <1>3, OwnPlaces DEF Usable, Slots
<1>5. PICK c : IlockPanics(s) = FALSE /\ SetIn(p, c) /\ Gets(c)
  BY <1>1, <1>2, <1>4, Loading
<1>6. Calm(p)
  BY <1>0, <1>1, <1>2, <1>5 DEF Calm
<1>7. r \in Records /\ "user" \in Points \ Naming /\ "user" \in Idle /\ r.pc \notin QuietPcs
  BY <1>0, AtRest DEF Points, Naming, CreateIp, CreateDir, Idle, QuietPcs, IputPcs, FreedPcs, Builds
<1>8. Become(p, Goto(p, "user"))
  <2>1. [r EXCEPT !.pc = "user"] = r
    BY <1>0, <1>7 DEF Records
  <2>q. QED BY <1>0, <2>1 DEF Become, Goto, MInv, Shapes
<1>q. QED BY <1>5, <1>6, <1>7, <1>8, GotoD

(* link() whose new name exists already. *)
LEMMA LinkEntryTakenD ==
    ASSUME Before, After, NEW p \in Procs, LinkEntry(p), NEW found,
           found = Dirlookup(proc[p].dp, LastName(p)), found # 0, LastName(p) # ".."
    PROVE  DInv'
<1> DEFINE r == proc[p]
<1>0. r.pc = "link_dp" /\ r.pc \notin IputPcs /\ icache[r.dp].lock = nullptr
  BY DEF LinkEntry, At, CanLock, IputPcs
<1>1. /\ MInv /\ DiskTypes /\ RInv /\ CallAt(p) /\ r \in Records /\ Point(r) = r.pc
      /\ Fits(r.n, r.ip, r.dp, r.call.op, r.ino, "link_dp")
      /\ \A s \in {r.n, r.ip, r.dp, cwd[p]} : s # 0 => Owned(p, s) /\ s \in Slots
  BY <1>0, OwnAt DEF Before
<1>2. r.dp \in Slots /\ r.dp # 0 /\ Owned(p, r.dp) /\ r.ip # 0 /\ Owned(p, r.ip) /\ IsDir(Inum(r.dp))
  BY <1>1 DEF Fits, DpPoints, IpPoints, LinkIp, CallAt
<1>3. IlockPanics(r.dp) = FALSE /\ Usable(r.dp) /\ Like(Locked(r.dp, p), r.dp, p)
  BY <1>0, <1>1, <1>2, LoadedIs, LikeLocked
<1>4. /\ icache' = SetAndIget(r.dp, Locked(r.dp, p), found)
      /\ Become(p, IputThen(r, <<IgetSlot(found)>>, "link_taken"))
      /\ Calm(p)
  BY <1>3 DEF LinkEntry, Calm, diskVars
<1>5. LastName(p) \in DirNames /\ found = dents[Inum(r.dp)][LastName(p)]
  BY <1>0, <1>1, <1>2, LookupTyped DEF Dirlookup, Inum
<1>6. r.pc \notin Builds /\ r.pc \notin FreedPcs \cup Builds \cup {"write"} /\ r.pc # "ialloc_iget"
  BY <1>0 DEF Builds, FreedPcs
<1>7. found \in Inums /\ (Linked(found) \/ found = Inum(r.dp))
  BY <1>2, <1>5, <1>6, LookupReach
<1>8. PICK c : c = [icache EXCEPT ![r.dp] = Locked(r.dp, p)]
  OBVIOUS
<1>9. SetIn(p, c)
  BY <1>0, <1>2, <1>8, SetInLoad
<1>10. PICK u : u = IgetSlot(found)
  OBVIOUS
<1>11. Slot4(u, found) /\ u \in Slots /\ icache' = Got(c, u, found)
  BY <1>1, <1>3, <1>4, <1>7, <1>8, <1>10, SetAndGot
<1>12. Reach(p, u) /\ Gets(c)
  BY <1>2, <1>7, <1>9, <1>11, GotReach DEF SetIn, Gets
<1>13. PICK r2 : r2 = IputThen(r, <<u>>, "link_taken")
  OBVIOUS
<1>14. "link_taken" \in Rets /\ "link_taken" \in LinkIp /\ "link_dp" \in LinkIp /\ "link_taken" # "namex"
  BY DEF Rets, LinkIp
<1>15. /\ Point(r2) = "link_taken" /\ r2.n = r.n /\ r2.ip = r.ip /\ r2.dp = r.dp
       /\ Put(r2, 1) = u /\ Put(r2, 2) = 0
       /\ r2.pc \notin Naming \cup FreePcs /\ r2.pc \notin FreedPcs \cup Allocating \cup {"write", "create_dot"}
  BY <1>1, <1>11, <1>13, <1>14, PutsOne
<1>16. ~OwesDp(r2) /\ (OwesIp(r2) => OwesIp(r)) /\ LinkSide(r)
  BY <1>0, <1>1, <1>14, <1>15, LinkOwes
<1>17. Become(p, r2)
  BY <1>4, <1>10, <1>13
<1>18. Reach(p, r2.n) /\ Reach(p, r2.ip) /\ Reach(p, r2.dp) /\ Reach(p, 0)
  BY <1>15, ReachOwn
<1>19. QuietBy(p, r2)
  BY <1>4, <1>6, <1>9, <1>12, <1>15, <1>16, <1>17, <1>18, CalmBy
<1>20. Plain(p, r2)
  BY <1>2, <1>4, <1>6, <1>14, <1>15, <1>16, <1>19 DEF Plain, Calm
<1>q. QED BY <1>20, PlainStep

(* The name that a call is made for is not "..". *)
LEMMA LastNoDots ==
    ASSUME NoDotDot, MInv, NEW p \in Procs, proc[p].pc \notin IputPcs, proc[p].pc \in DpPoints
    PROVE  LastName(p) = LastOf(proc[p]) /\ LastOf(proc[p]) # ".."
<1> DEFINE r == proc[p]
<1>1. r \in Records /\ Fits(r.n, r.ip, r.dp, r.call.op, r.ino, r.pc)
  BY NothingToPut
<1>2. r.call.op \in PathOps
  BY <1>1 DEF Fits, OpAt, DpPoints, CreateIp, CreateDir, Creating, LinkIp, PathOps
<1>3. r.call \in Calls /\ r.call \notin FdCalls
  <2>1. r.call \in Calls \cup {NoCall}
    BY <1>1 DEF Records
  <2>2. r.call # NoCall /\ r.call \notin FdCalls
    BY <1>2 DEF NoCall, PathOps, FdCalls
  <2>q. QED BY <2>1, <2>2
<1>4. /\ IsPath(r.call.path) /\ \A j \in 1..Len(r.call.path) : r.call.path[j] # ".."
      /\ r.call.op = "link" => IsPath(r.call.new) /\ \A j \in 1..Len(r.call.new) : r.call.new[j] # ".."
  BY <1>2, <1>3, FileSystemAssumption DEF NoDotDot
<1>5. \A path : IsPath(path) => Len(path) \in 1..Len(path)
  BY DEF IsPath
<1>q. QED BY <1>4, <1>5 DEF LastName, LastOf

(* chdir() takes an inode that it has locked and found to be a directory. *)
LEMMA ChdirD ==
    ASSUME Before, After, NEW p \in Procs, Chdir(p)
    PROVE  DInv'
<1> DEFINE r == proc[p]
<1>0. r.pc = "chdir" /\ r.pc \notin IputPcs /\ r.pc \notin QuietPcs /\ CanLock(r.ip)
  BY DEF Chdir, At, QuietPcs, IputPcs, FreedPcs, Builds
<1>1. /\ MInv /\ CallAt(p) /\ r \in Records /\ Point(r) = r.pc
      /\ Fits(r.n, r.ip, r.dp, r.call.op, r.ino, "chdir")
      /\ \A s \in {r.n, r.ip, r.dp, cwd[p]} : s # 0 => Owned(p, s) /\ s \in Slots
  BY <1>0, OwnAt
<1>2. r.ip # 0 /\ Owned(p, r.ip) /\ r.dp = 0 /\ r.n = 0
  BY <1>1 DEF Fits, IpPoints, DpPoints, CreateIp, CreateDir
<1>3. PICK c : IlockPanics(r.ip) = FALSE /\ SetIn(p, c) /\ Gets(c)
  BY <1>0, <1>2, Loading DEF Chdir
<1>4. UNCHANGED <<diskVars, ftable, ofile>> /\ ~panic'
  BY <1>3 DEF Chdir
<1>5. "user" \in Rets /\ "user" \in Idle
  BY DEF Idle, Rets
<1>6. CASE Become(p, IputThen([r EXCEPT !.ip = 0], <<r.ip>>, "user")) /\ UNCHANGED cwd
  <2>1. Calm(p)
    BY <1>4, <1>6 DEF Calm
  <2>q. QED BY <1>0, <1>2, <1>3, <1>5, <1>6, <2>1, PutIpD
<1>7. CASE /\ Become(p, IputThen([r EXCEPT !.ip = 0], <<cwd[p]>>, "user"))
           /\ cwd' = [cwd EXCEPT ![p] = r.ip]
  <2>1. cwd[p] \in Slots
    <3>1. ~Gone(r)
      BY <1>0, <1>1 DEF Gone
    <3>q. QED BY <1>1, <3>1 DEF MInv, MemTypes, OwnsOK
  <2>2. PICK r1 : r1 = [r EXCEPT !.ip = 0]
    OBVIOUS
  <2>3. PICK r2 : r2 = IputThen(r1, <<cwd[p]>>, "user")
    OBVIOUS
  <2>4. r1 \in Records /\ r1.n = 0 /\ r1.ip = 0 /\ r1.dp = 0
    BY <1>1, <1>2, <2>2, DropFields
  <2>5. /\ Point(r2) = "user" /\ r2.n = 0 /\ r2.ip = 0 /\ r2.dp = 0
        /\ Put(r2, 1) = cwd[p] /\ Put(r2, 2) = 0
        /\ r2.pc \notin Naming \cup FreePcs /\ r2.pc \notin FreedPcs \cup Allocating \cup {"write", "create_dot"}
    BY <1>5, <2>1, <2>3, <2>4, PutsOne
  <2>6. ~OwesDp(r2) /\ ~OwesIp(r2) /\ ~LinkSide(r2) /\ Point(r2) # "namex"
    BY <1>5, <2>5, IdleOwes
  <2>7. cwd'[p] = r.ip /\ \A q \in Procs \ {p} : cwd'[q] = cwd[q]
    BY <1>1, <1>7 DEF MInv, MemTypes
  <2>8. Reach(p, 0) /\ Reach(p, r.ip) /\ Reach(p, cwd[p])
    BY ReachOwn
  <2>9. proc' = [proc EXCEPT ![p] = r2]
    BY <1>7, <2>2, <2>3 DEF Become
  <2>10. /\ r.pc \notin FreedPcs \cup Builds \cup {"write"} /\ r.pc # "ialloc_iget"
         /\ ftable' = ftable /\ ofile' = ofile
    BY <1>0, <1>4 DEF QuietPcs
  <2>11. QuietBy(p, r2)
    BY <1>3, <1>4, <2>5, <2>6, <2>7, <2>8, <2>9, <2>10 DEF QuietBy
  <2>12. Plain(p, r2)
    BY <1>4, <2>5, <2>6, <2>10, <2>11 DEF Plain
  <2>q. QED BY <2>12, PlainStep
<1>q. QED BY <1>6, <1>7 DEF Chdir

(* link() of a directory gives up. *)
LEMMA LinkIncDirD ==
    ASSUME Before, After, NEW p \in Procs, LinkInc(p), Loaded(proc[p].ip).type = "dir"
    PROVE  DInv'
<1> DEFINE r == proc[p]
<1>0. r.pc = "link" /\ r.pc \notin IputPcs /\ r.pc \notin QuietPcs /\ CanLock(r.ip)
  BY DEF LinkInc, At, QuietPcs, IputPcs, FreedPcs, Builds
<1>1. r.ip # 0 /\ Owned(p, r.ip)
  BY <1>0, OwnAt DEF Fits, IpPoints
<1>2. /\ SetSlot(r.ip, Loaded(r.ip))
      /\ Become(p, IputThen([r EXCEPT !.ip = 0], <<r.ip>>, "user"))
      /\ UNCHANGED <<diskVars, ftable, ofile, cwd>>
      /\ panic' = IlockPanics(r.ip)
  BY DEF LinkInc, diskVars
<1>3. PICK c : IlockPanics(r.ip) = FALSE /\ SetIn(p, c) /\ Gets(c)
  BY <1>0, <1>1, <1>2, Loading
<1>4. Calm(p)
  BY <1>2, <1>3 DEF Calm
<1>5. "user" \in Rets /\ "user" \in Idle
  BY DEF Idle, Rets
<1>q. QED BY <1>0, <1>1, <1>2, <1>3, <1>4, <1>5, PutIpD

(* The inode that unlink() has found has a link, its entry. *)
LEMMA UnlinkNamed ==
    ASSUME Before, NEW p \in Procs, proc[p].pc = "unlink_ip"
    PROVE  /\ proc[p].ip # 0 /\ Owned(p, proc[p].ip) /\ proc[p].ip \in Slots /\ Inum(proc[p].ip) \in Inums
           /\ proc[p].dp # 0 /\ Owned(p, proc[p].dp) /\ proc[p].dp \in Slots /\ Inum(proc[p].dp) \in Inums
           /\ IsDir(Inum(proc[p].dp)) /\ Inum(proc[p].dp) \in ibitmap /\ Inum(proc[p].ip) \in ibitmap
           /\ LastOf(proc[p]) \in Names /\ LastName(p) = LastOf(proc[p])
           /\ <<Inum(proc[p].dp), LastOf(proc[p])>> \in LN(Inum(proc[p].ip))
           /\ dinode[Inum(proc[p].ip)].nlink >= 1 /\ dinode[Inum(proc[p].ip)].nlink \in Int
           /\ icache[proc[p].dp].lock = p
<1> DEFINE r == proc[p]
<1>0. r.pc \notin IputPcs /\ r.pc \in IpPoints /\ r.pc \in DpPoints /\ r.pc \in Naming /\ r.pc # "write" /\ r.pc \in DpLocked
  BY DEF IputPcs, IpPoints, DpPoints, Naming, DpLocked
<1>1. /\ MInv /\ DiskTypes /\ CallAt(p) /\ Fits(r.n, r.ip, r.dp, r.call.op, r.ino, r.pc) /\ Point(r) = r.pc
      /\ \A s \in {r.n, r.ip, r.dp, cwd[p]} : s # 0 => Owned(p, s) /\ s \in Slots
      /\ KeptOK /\ CountOK
  BY <1>0, OwnAt, BeforeParts
<1>2. r.ip # 0 /\ r.dp # 0 /\ Owned(p, r.ip) /\ Owned(p, r.dp) /\ r.ip \in Slots /\ r.dp \in Slots
  BY <1>0, <1>1 DEF Fits
<1>3. Inum(r.ip) \in ibitmap /\ Inum(r.dp) \in ibitmap /\ Inum(r.ip) \in Inums /\ Inum(r.dp) \in Inums
  BY <1>1, <1>2, OwnedKept DEF DiskTypes
<1>4. IsDir(Inum(r.dp)) /\ LastOf(r) \in Names /\ dents[Inum(r.dp)][LastOf(r)] = Inum(r.ip)
  BY <1>0, <1>1, <1>2 DEF CallAt
<1>5. <<Inum(r.dp), LastOf(r)>> \in LN(Inum(r.ip))
  BY <1>3, <1>4, LinksAlways DEF LinksWell
<1>6. LL(Inum(r.ip)) # {}
  BY <1>5, LinksAlways DEF LinksWell
<1>7. PICK a, b, n : a = Cardinality(LL(Inum(r.ip))) /\ b = Cardinality(Owed(Inum(r.ip))) /\ n = dinode[Inum(r.ip)].nlink
  OBVIOUS
<1>8. a \in Nat /\ b \in Nat /\ n \in Int /\ a # 0
  <2>1. a \in Nat /\ IsFiniteSet(LL(Inum(r.ip))) /\ b \in Nat
    BY <1>1, <1>7, LinksFinite, OwedSplit DEF LinksFew, OwedCounts
  <2>2. a # 0
    BY <1>6, <1>7, <2>1, FS_EmptySet
  <2>3. n \in Int
    BY <1>1, <1>3, <1>7 DEF DiskTypes, Entries
  <2>q. QED BY <2>1, <2>2, <2>3
<1>9. n >= a + b
  BY <1>1, <1>3, <1>7 DEF CountOK, LL
<1>10. n >= 1
  BY <1>8, <1>9
<1>11. icache[r.dp].lock = p
  BY <1>0, <1>1, <1>2 DEF MInv, LocksOK, Locks, LocksAt
<1>12. LastName(p) = LastOf(r)
  BY DEF LastName, LastOf
<1>q. QED BY <1>2, <1>3, <1>4, <1>5, <1>7, <1>8, <1>10, <1>11, <1>12

(* unlink() of a directory that is not empty writes nothing; the check for *)
(* nlink < 1 does not panic.                                               *)
LEMMA UnlinkEntryKeptD ==
    ASSUME Before, After, NEW p \in Procs, UnlinkEntry(p),
           Locked(proc[p].ip, p).type = "dir" /\ ~IsDirEmpty(proc[p].ip)
    PROVE  DInv'
<1> DEFINE r == proc[p]
<1>0. r.pc = "unlink_ip" /\ r.pc \notin IputPcs /\ r.pc \notin QuietPcs /\ CanLock(r.ip) /\ icache[r.ip].lock = nullptr
  BY DEF UnlinkEntry, At, QuietPcs, IputPcs, FreedPcs, Builds, CanLock
<1>1. r.ip # 0 /\ Owned(p, r.ip) /\ dinode[Inum(r.ip)].nlink >= 1 /\ dinode[Inum(r.ip)].nlink \in Int
  BY <1>0, UnlinkNamed
<1>2. /\ SetSlot(r.ip, Unlocked(Locked(r.ip, p)))
      /\ Become(p, IputThen([r EXCEPT !.ip = 0], <<r.ip>>, "unlink_bad"))
      /\ UNCHANGED <<diskVars, ftable, ofile, cwd>>
      /\ panic' = (IlockPanics(r.ip) \/ Locked(r.ip, p).nlink < 1)
  BY DEF UnlinkEntry, diskVars
<1>3. PICK v : v = Loaded(r.ip)
  OBVIOUS
<1>4. v \in SlotRecords /\ v.lock = nullptr /\ v.nlink = dinode[Inum(r.ip)].nlink
  BY <1>0, <1>1, <1>3, LoadedIs
<1>5. Unlocked(Locked(r.ip, p)) = v /\ Locked(r.ip, p).nlink = v.nlink
  <2>1. [[v EXCEPT !.lock = p] EXCEPT !.lock = nullptr] = v
    BY <1>4 DEF SlotRecords
  <2>2. [v EXCEPT !.lock = p].nlink = v.nlink
    BY <1>4 DEF SlotRecords
  <2>q. QED BY <1>3, <2>1, <2>2 DEF Locked, Unlocked
<1>6. PICK c : IlockPanics(r.ip) = FALSE /\ SetIn(p, c) /\ Gets(c)
  BY <1>0, <1>1, <1>2, <1>3, <1>5, Loading
<1>7. ~(Locked(r.ip, p).nlink < 1)
  BY <1>1, <1>4, <1>5
<1>8. Calm(p)
  BY <1>2, <1>6, <1>7 DEF Calm
<1>9. "unlink_bad" \in Rets /\ "unlink_bad" \in Idle
  BY DEF Idle, Rets
<1>q. QED BY <1>0, <1>1, <1>2, <1>6, <1>8, <1>9, PutIpD

(* The invariant after a quiet step to a point that names an entry. *)
LEMMA NamingStep ==
    ASSUME Before, After, NEW p \in Procs, NEW r2, QuietBy(p, r2), proc[p].pc # "ialloc_iget", ~panic',
           r2.pc \in {"ialloc", "unlink_ip"}, LastOf(r2) \in Names,
           r2.dp # 0 => Owned(p, r2.dp) /\ IsDir(Inum(r2.dp)),
           r2.pc = "unlink_ip" => (dents[Inum(r2.dp)][LastOf(r2)] = Inum(r2.ip))'
    PROVE  DInv'
<1>1. proc'[p] = r2 /\ Quiet(p) /\ WritesOK' /\ Normal(p)
  BY QuietByQuiet, QuietNormal
<1>2. FreshAt(p)' /\ FreeAt(p)'
  BY <1>1 DEF FreshAt, FreeAt, Allocating, CreateIp, CreateDir, FreePcs
<1>3. Point(r2) \in Idle
  BY DEF Point, IputPcs, Idle
<1>4. ~LinkSide(r2) /\ Point(r2) # "namex"
  BY <1>3, IdleOwes
<1>5. CallEnd(r2)'
  BY DEF CallEnd, CreateIp, CreateDir
<1>6. CallAt(p)'
  BY <1>1, <1>4, <1>5, CallFrom
<1>q. QED BY <1>1, <1>2, <1>6, QuietStep

(* create() looks its name up: what it finds is in use, and otherwise the  *)
(* name is free.                                                           *)
LEMMA CreateLookupD ==
    ASSUME Before, After, NoDotDot, NEW p \in Procs, CreateLookup(p)
    PROVE  DInv'
<1> DEFINE r == proc[p]
<1>0. r.pc = "create" /\ r.pc \notin IputPcs /\ icache[r.dp].lock = nullptr /\ r.pc \in DpPoints
  BY DEF CreateLookup, At, CanLock, IputPcs, DpPoints
<1>1. /\ MInv /\ DiskTypes /\ RInv /\ CallAt(p) /\ r \in Records /\ Point(r) = r.pc
      /\ Fits(r.n, r.ip, r.dp, r.call.op, r.ino, "create") /\ Put(r, 1) = 0 /\ Put(r, 2) = 0
      /\ \A s \in {r.n, r.ip, r.dp, cwd[p]} : s # 0 => Owned(p, s) /\ s \in Slots
  BY <1>0, OwnAt DEF Before
<1>2. r.dp \in Slots /\ r.dp # 0 /\ Owned(p, r.dp) /\ IsDir(Inum(r.dp)) /\ r.n = 0 /\ r.ip = 0
  BY <1>1 DEF Fits, DpPoints, IpPoints, LinkIp, CreateIp, CreateDir, CallAt
<1>3. IlockPanics(r.dp) = FALSE /\ Usable(r.dp) /\ Like(Loaded(r.dp), r.dp, nullptr) /\ Inum(r.dp) \in Inums
  BY <1>0, <1>1, <1>2, LoadedIs, LikeLoaded
<1>4. Calm(p)
  BY <1>3 DEF CreateLookup, Calm
<1>5. PICK name, found : name = LastName(p) /\ found = Dirlookup(r.dp, LastName(p))
  OBVIOUS
<1>6. name \in DirNames /\ name # ".." /\ name = LastOf(r) /\ found = dents[Inum(r.dp)][name]
  BY <1>0, <1>1, <1>2, <1>5, LookupTyped, LastNoDots DEF Dirlookup, Inum
<1>7. r.pc \notin Builds /\ r.pc \notin FreedPcs \cup Builds \cup {"write"} /\ r.pc # "ialloc_iget"
  BY <1>0 DEF Builds, FreedPcs
<1>8. CASE found = 0
  <2>1. SetSlot(r.dp, Locked(r.dp, p)) /\ Become(p, Goto(p, "ialloc"))
    BY <1>5, <1>8 DEF CreateLookup
  <2>2. PICK c : SetIn(p, c) /\ Gets(c)
    BY <1>0, <1>2, <2>1, Loading DEF CanLock
  <2>3. name \in Names
    <3>1. dents[Inum(r.dp)]["."] = Inum(r.dp) /\ Inum(r.dp) # 0
      BY <1>2, <1>3, <1>7, SelfNamed, Ext2Assumption
    <3>q. QED BY <1>6, <1>8, <3>1 DEF DirNames
  <2>4. PICK r2 : r2 = [r EXCEPT !.pc = "ialloc"]
    OBVIOUS
  <2>5. /\ r2.pc = "ialloc" /\ r2.n = r.n /\ r2.ip = r.ip /\ r2.dp = r.dp /\ r2.call = r.call
        /\ Put(r2, 1) = 0 /\ Put(r2, 2) = 0
    <3>1. "ialloc" \in Points \cup IputPcs
      BY DEF Points, DpPoints
    <3>q. QED BY <1>1, <2>4, <3>1, GotoFields
  <2>6. Point(r2) \in Idle /\ r2.pc \notin FreedPcs \cup Allocating \cup {"write", "create_dot"}
    BY <2>5 DEF Point, IputPcs, Idle, FreedPcs, Allocating
  <2>7. ~OwesIp(r2) /\ ~OwesDp(r2)
    BY <2>6, IdleOwes
  <2>8. Reach(p, r2.n) /\ Reach(p, r2.ip) /\ Reach(p, r2.dp) /\ Reach(p, 0)
    BY <2>5, ReachOwn
  <2>9. QuietBy(p, r2)
    BY <1>4, <1>7, <2>1, <2>2, <2>4, <2>5, <2>6, <2>7, <2>8, CalmBy DEF Goto
  <2>10. LastOf(r2) \in Names
    BY <1>6, <2>3, <2>5 DEF LastOf
  <2>q. QED BY <1>2, <1>4, <1>7, <2>5, <2>9, <2>10, NamingStep DEF Calm
<1>9. CASE found # 0
  <2>1. /\ icache' = SetAndIget(r.dp, Loaded(r.dp), found)
        /\ Become(p, IputThen([r EXCEPT !.ip = IgetSlot(found), !.dp = 0], <<r.dp>>, "create_exists"))
    BY <1>5, <1>9 DEF CreateLookup
  <2>2. found \in Inums /\ (Linked(found) \/ found = Inum(r.dp))
    BY <1>2, <1>6, <1>7, <1>9, LookupReach
  <2>3. PICK c : c = [icache EXCEPT ![r.dp] = Loaded(r.dp)]
    OBVIOUS
  <2>4. SetIn(p, c)
    BY <1>0, <1>2, <2>3, SetInLoad
  <2>5. PICK u : u = IgetSlot(found)
    OBVIOUS
  <2>6. Slot4(u, found) /\ u \in Slots /\ icache' = Got(c, u, found)
    BY <1>1, <1>3, <2>1, <2>2, <2>3, <2>5, SetAndGot
  <2>7. Reach(p, u) /\ Gets(c)
    BY <1>2, <2>2, <2>4, <2>6, GotReach DEF SetIn, Gets
  <2>8. PICK r1 : r1 = [r EXCEPT !.ip = u, !.dp = 0]
    OBVIOUS
  <2>9. r1 \in Records /\ r1.ip = u /\ r1.dp = 0 /\ r1.n = 0
    BY <1>1, <1>2, <2>6, <2>8 DEF Records
  <2>10. PICK r2 : r2 = IputThen(r1, <<r.dp>>, "create_exists")
    OBVIOUS
  <2>11. "create_exists" \in Rets /\ "create_exists" \in Idle
    BY DEF Rets, Idle
  <2>12. /\ Point(r2) = "create_exists" /\ r2.n = 0 /\ r2.ip = u /\ r2.dp = 0
         /\ Put(r2, 1) = r.dp /\ Put(r2, 2) = 0
         /\ r2.pc \notin Naming \cup FreePcs /\ r2.pc \notin FreedPcs \cup Allocating \cup {"write", "create_dot"}
    BY <1>2, <2>9, <2>10, <2>11, PutsOne
  <2>13. ~OwesIp(r2) /\ ~OwesDp(r2) /\ ~LinkSide(r2) /\ Point(r2) # "namex"
    BY <2>11, <2>12, IdleOwes
  <2>14. Become(p, r2)
    BY <2>1, <2>5, <2>8, <2>10
  <2>15. Reach(p, 0) /\ Reach(p, r.dp)
    BY ReachOwn
  <2>16. QuietBy(p, r2)
    BY <1>4, <1>7, <2>4, <2>7, <2>12, <2>13, <2>14, <2>15, CalmBy
  <2>17. Plain(p, r2)
    BY <1>4, <1>7, <2>12, <2>13, <2>16 DEF Plain, Calm
  <2>q. QED BY <2>17, PlainStep
<1>q. QED BY <1>8, <1>9

(* unlink() looks its name up, and never finds . or .. as one to remove. *)
LEMMA UnlinkLookupD ==
    ASSUME Before, After, NoDotDot, NEW p \in Procs, UnlinkLookup(p)
    PROVE  DInv'
<1> DEFINE r == proc[p]
<1>0. r.pc = "unlink_dp" /\ r.pc \notin IputPcs /\ icache[r.dp].lock = nullptr /\ r.pc \in DpPoints /\ r.pc \notin QuietPcs
  BY DEF UnlinkLookup, At, CanLock, IputPcs, DpPoints, QuietPcs, FreedPcs, Builds
<1>1. /\ MInv /\ DiskTypes /\ RInv /\ CallAt(p) /\ r \in Records /\ Point(r) = r.pc
      /\ Fits(r.n, r.ip, r.dp, r.call.op, r.ino, "unlink_dp") /\ r.puts = <<>>
      /\ \A s \in {r.n, r.ip, r.dp, cwd[p]} : s # 0 => Owned(p, s) /\ s \in Slots
  BY <1>0, OwnAt DEF Before
<1>2. r.dp \in Slots /\ r.dp # 0 /\ Owned(p, r.dp) /\ IsDir(Inum(r.dp)) /\ r.n = 0 /\ r.ip = 0
  BY <1>1 DEF Fits, DpPoints, IpPoints, LinkIp, CreateIp, CreateDir, CallAt
<1>3. IlockPanics(r.dp) = FALSE /\ Usable(r.dp) /\ Like(Locked(r.dp, p), r.dp, p) /\ Inum(r.dp) \in Inums
  BY <1>0, <1>1, <1>2, LoadedIs, LikeLocked
<1>4. Calm(p)
  BY <1>3 DEF UnlinkLookup, Calm
<1>5. PICK name, found : name = LastName(p) /\ found = Dirlookup(r.dp, LastName(p))
  OBVIOUS
<1>6. name \in DirNames /\ name # ".." /\ name = LastOf(r) /\ found = dents[Inum(r.dp)][name]
  BY <1>0, <1>1, <1>2, <1>5, LookupTyped, LastNoDots DEF Dirlookup, Inum
<1>7. r.pc \notin Builds /\ r.pc \notin FreedPcs \cup Builds \cup {"write"} /\ r.pc # "ialloc_iget"
  BY <1>0 DEF Builds, FreedPcs
<1>8. CASE name \in {".", ".."} \/ found = 0
  <2>1. SetSlot(r.dp, Loaded(r.dp)) /\ Become(p, IputThen([r EXCEPT !.dp = 0], <<r.dp>>, "user"))
    BY <1>5, <1>8 DEF UnlinkLookup
  <2>2. PICK c : SetIn(p, c) /\ Gets(c)
    BY <1>0, <1>2, <2>1, Loading DEF CanLock
  <2>3. "user" \in Rets /\ "user" \in Idle
    BY DEF Idle, Rets
  <2>q. QED BY <1>0, <1>2, <1>4, <2>1, <2>2, <2>3, PutDpD
<1>9. CASE name \notin {".", ".."} /\ found # 0
  <2>1. /\ icache' = SetAndIget(r.dp, Locked(r.dp, p), found)
        /\ Become(p, [Goto(p, "unlink_ip") EXCEPT !.ip = IgetSlot(found)])
    BY <1>5, <1>9 DEF UnlinkLookup
  <2>2. found \in Inums /\ (Linked(found) \/ found = Inum(r.dp)) /\ name \in Names
    BY <1>2, <1>6, <1>7, <1>9, LookupReach DEF DirNames
  <2>3. PICK c : c = [icache EXCEPT ![r.dp] = Locked(r.dp, p)]
    OBVIOUS
  <2>4. SetIn(p, c)
    BY <1>0, <1>2, <2>3, SetInLoad
  <2>5. PICK u : u = IgetSlot(found)
    OBVIOUS
  <2>6. Slot4(u, found) /\ u \in Slots /\ icache' = Got(c, u, found)
    BY <1>1, <1>3, <2>1, <2>2, <2>3, <2>5, SetAndGot
  <2>7. Reach(p, u) /\ Gets(c) /\ icache'[u].inum = found
    BY <1>2, <2>2, <2>4, <2>6, GotReach, GotFields DEF SetIn, Gets
  <2>8. PICK r2 : r2 = [[r EXCEPT !.pc = "unlink_ip"] EXCEPT !.ip = u]
    OBVIOUS
  <2>9. r2.pc = "unlink_ip" /\ r2.ip = u /\ r2.dp = r.dp /\ r2.n = 0 /\ r2.call = r.call /\ r2.puts = <<>>
    BY <1>1, <1>2, <2>8 DEF Records
  <2>10. /\ Point(r2) \in Idle /\ r2.pc \notin FreedPcs \cup Allocating \cup {"write", "create_dot"}
         /\ Put(r2, 1) = 0 /\ Put(r2, 2) = 0
    BY <2>9 DEF Point, IputPcs, Idle, FreedPcs, Allocating, Put
  <2>11. ~OwesIp(r2) /\ ~OwesDp(r2)
    BY <2>10, IdleOwes
  <2>12. Reach(p, 0) /\ Reach(p, r.dp)
    BY ReachOwn
  <2>13. Become(p, r2)
    BY <2>1, <2>5, <2>8 DEF Goto
  <2>14. QuietBy(p, r2)
    BY <1>4, <1>7, <2>4, <2>7, <2>9, <2>10, <2>11, <2>12, <2>13, CalmBy
  <2>15. LastOf(r2) = name
    BY <1>6, <2>9 DEF LastOf
  <2>16. icache'[r.dp].inum = Inum(r.dp)
    <3>1. Normal(p)
      BY <1>7, <2>14, QuietByQuiet, QuietNormal
    <3>q. QED BY <1>2, <3>1, SlotsStay
  <2>17. (dents[Inum(r2.dp)][LastOf(r2)] = Inum(r2.ip))'
    BY <1>4, <1>6, <2>7, <2>9, <2>15, <2>16 DEF Calm, diskVars, Inum
  <2>q. QED BY <1>2, <1>4, <1>7, <2>2, <2>9, <2>14, <2>15, <2>17, NamingStep DEF Calm
<1>q. QED BY <1>8, <1>9

(* A step between points at which nothing is owed, that may change the     *)
(* files and the working directory of p.                                   *)
LEMMA FilesD ==
    ASSUME Before, After, NEW p \in Procs, proc[p].pc \notin QuietPcs, NEW r2, Become(p, r2),
           UNCHANGED diskVars, ~panic', NEW c, SetIn(p, c), Gets(c),
           r2.pc \notin Naming \cup FreePcs, r2.pc \notin FreedPcs \cup Allocating \cup {"write", "create_dot"},
           Point(r2) \in Idle, r2.n = 0, r2.ip = 0, r2.dp = 0, Reach(p, Put(r2, 1)), Put(r2, 2) = 0,
           \A q \in Procs \ {p} : cwd'[q] = cwd[q], Reach(p, cwd'[p]),
           \A f \in Files : ftable'[f].ip = ftable[f].ip \/ Reach(p, ftable'[f].ip),
           \A q \in Procs \ {p}, fd \in Fds :
               ofile[q][fd] # 0 => ofile'[q][fd] = ofile[q][fd] /\ ftable'[ofile[q][fd]].ip = ftable[ofile[q][fd]].ip
    PROVE  DInv'
<1>1. ~OwesIp(r2) /\ ~OwesDp(r2) /\ ~LinkSide(r2) /\ Point(r2) # "namex"
  BY IdleOwes
<1>2. proc[p].pc \notin FreedPcs \cup Builds \cup {"write"} /\ proc[p].pc # "ialloc_iget"
  BY DEF QuietPcs
<1>3. Reach(p, 0)
  BY DEF Reach
<1>4. QuietBy(p, r2)
  BY <1>1, <1>2, <1>3 DEF QuietBy, Become
<1>5. Plain(p, r2)
  BY <1>1, <1>2, <1>4 DEF Plain
<1>q. QED BY <1>5, PlainStep

(* A process that is back in user mode, or gone, has no inode at hand. *)
LEMMA UserPlain ==
    /\ Point(User) \in Idle /\ Point(NoProc) \in Idle
    /\ User.pc \notin Naming \cup FreePcs /\ User.pc \notin FreedPcs \cup Allocating \cup {"write", "create_dot"}
    /\ User.n = 0 /\ User.ip = 0 /\ User.dp = 0 /\ Put(User, 1) = 0 /\ Put(User, 2) = 0
<1>1. User.pc = "user" /\ Point(User) = "user" /\ Point(NoProc) = "unused"
  BY UserFields
<1>2. "user" \notin Naming \cup FreePcs /\ "user" \notin FreedPcs \cup Allocating \cup {"write", "create_dot"}
  BY DEF Naming, CreateIp, CreateDir, FreePcs, FreedPcs, Allocating
<1>3. {"user", "unused"} \subseteq Idle
  BY DEF Idle
<1>q. QED BY <1>1, <1>2, <1>3, UserFields

(* open() stores the inode in the open file table, which keeps it. *)
LEMMA OpenFdD ==
    ASSUME Before, After, NEW p \in Procs, OpenFd(p)
    PROVE  DInv'
<1> DEFINE r == proc[p]
<1>0. /\ r.pc = "open_fd" /\ r.pc \notin IputPcs \cup {"write"} /\ r.pc \notin QuietPcs /\ ~panic'
      /\ UNCHANGED <<diskVars, cwd>>
  BY DEF OpenFd, At, QuietPcs, IputPcs, FreedPcs, Builds
<1>1. r.ip # 0 /\ r.pc \in IpLocked /\ MInv
  BY <1>0, OwnAt DEF Fits, IpPoints, IpLocked
<1>2. SetSlot(r.ip, Unlocked(icache[r.ip]))
  BY DEF OpenFd
<1>3. PICK c : SetIn(p, c) /\ Gets(c)
  BY <1>0, <1>1, <1>2, Unlocking
<1>4. CASE FreeFiles = {} \/ FreeFds(p) = {}
  <2>1. Become(p, IputThen([r EXCEPT !.ip = 0], <<r.ip>>, "user")) /\ Calm(p)
    BY <1>0, <1>4 DEF OpenFd, Calm
  <2>2. "user" \in Rets /\ "user" \in Idle
    BY DEF Idle, Rets
  <2>q. QED BY <1>0, <1>1, <1>3, <2>1, <2>2, PutIpD
<1>5. CASE FreeFiles # {} /\ FreeFds(p) # {}
  <2>1. PICK g, fd : g = Least(FreeFiles) /\ fd = Least(FreeFds(p))
    OBVIOUS
  <2>2. g \in Files /\ ftable[g].ref = 0 /\ fd \in Fds
    BY <1>1, <1>5, <2>1, FreeOnes
  <2>3. PICK h : h = [ref |-> 1, ip |-> r.ip, writable |-> r.call.op # "open"]
    OBVIOUS
  <2>4. h.ip = r.ip
    BY <2>3
  <2>5. /\ ftable' = [ftable EXCEPT ![g] = h] /\ ofile' = [ofile EXCEPT ![p][fd] = g] /\ Become(p, User)
    BY <1>5, <2>1, <2>3 DEF OpenFd
  <2>6. ftable \in [Files -> FileRecords] /\ ofile \in [Procs -> [Fds -> Files \cup {0}]]
    BY <1>1 DEF MInv, MemTypes
  <2>7. Reach(p, r.ip) /\ Reach(p, cwd'[p]) /\ Reach(p, 0)
    BY <1>0, ReachOwn
  <2>8. \A f \in Files : ftable'[f].ip = ftable[f].ip \/ Reach(p, ftable'[f].ip)
    BY <2>2, <2>4, <2>5, <2>6, <2>7
  <2>9. ASSUME NEW q \in Procs \ {p}, NEW d \in Fds, ofile[q][d] # 0
        PROVE  ofile'[q][d] = ofile[q][d] /\ ftable'[ofile[q][d]].ip = ftable[ofile[q][d]].ip
    <3>1. ofile[q][d] \in Files /\ ftable[ofile[q][d]].ref > 0
      BY <1>1, <2>9, OpenFile
    <3>2. ofile[q][d] # g
      BY <2>2, <3>1
    <3>q. QED BY <2>2, <2>5, <2>6, <3>1, <3>2
  <2>q. QED BY <1>0, <1>3, <2>5, <2>7, <2>8, <2>9, UserPlain, FilesD
<1>q. QED BY <1>4, <1>5

(* file_close() hands the inode of the last descriptor to iput(). *)
LEMMA FileCloseD ==
    ASSUME Before, After, NEW p \in Procs, NEW fd \in Fds, ofile[p][fd] # 0, proc[p].pc \in {"user", "exit"},
           NEW ret, ret = proc[p].pc, FileClose(p, fd, ret), UNCHANGED <<diskVars, icache, cwd>>
    PROVE  DInv'
<1> DEFINE r == proc[p]
<1>0. MInv /\ r.pc \notin QuietPcs /\ ret \in Rets /\ ret \in Idle /\ ret \notin IputPcs
  BY BeforeParts DEF QuietPcs, IputPcs, FreedPcs, Builds, Rets, Idle
<1>1. /\ r \in Records /\ r.puts = <<>> /\ Put(r, 1) = 0 /\ Put(r, 2) = 0
      /\ r.n = 0 /\ r.ip = 0 /\ r.dp = 0
  BY <1>0, AtRest
<1>2. PICK g : g = ofile[p][fd]
  OBVIOUS
<1>3. /\ g \in Files /\ ftable[g].ref > 0 /\ ftable[g] \in FileRecords
      /\ ftable[g].ip \in Slots
      /\ ofile \in [Procs -> [Fds -> Files \cup {0}]] /\ ftable \in [Files -> FileRecords]
  BY <1>0, <1>2, OpenFile
<1>4. ofile' = [ofile EXCEPT ![p][fd] = 0] /\ panic' = (ftable[g].ref < 1)
  BY <1>2 DEF FileClose
<1>5. ~panic'
  <2>1. ~(ftable[g].ref < 1)
    BY <1>3 DEF FileRecords
  <2>q. QED BY <1>4, <2>1
<1>6. SetIn(p, icache) /\ Gets(icache)
  BY <1>0, SetInNone DEF Gets
<1>7. Reach(p, cwd'[p]) /\ Reach(p, 0) /\ Reach(p, ftable[g].ip) /\ \A q \in Procs \ {p} : cwd'[q] = cwd[q]
  BY <1>3, ReachOwn
<1>8. CASE ftable[g].ref > 1
  <2>1. PICK h : h = [ftable[g] EXCEPT !.ref = ftable[g].ref - 1]
    OBVIOUS
  <2>2. ftable' = [ftable EXCEPT ![g] = h] /\ Become(p, Goto(p, ret))
    BY <1>2, <1>3, <1>8, <2>1 DEF FileClose
  <2>3. h.ip = ftable[g].ip
    BY <1>3, <2>1 DEF FileRecords
  <2>4. \A f \in Files : ftable'[f].ip = ftable[f].ip
    BY <1>3, <2>2, <2>3
  <2>5. [proc[p] EXCEPT !.pc = ret] = proc[p]
    BY <1>1 DEF Records
  <2>6. PICK r2 : r2 = r
    OBVIOUS
  <2>7. Become(p, r2)
    BY <2>2, <2>5, <2>6 DEF Goto
  <2>8. /\ r2.pc \notin Naming \cup FreePcs /\ r2.pc \notin FreedPcs \cup Allocating \cup {"write", "create_dot"}
        /\ Point(r2) \in Idle
    BY <1>0, <2>6 DEF Naming, CreateIp, CreateDir, FreePcs, FreedPcs, Allocating, Point
  <2>9. \A q \in Procs \ {p}, d \in Fds :
            ofile[q][d] # 0 => ofile'[q][d] = ofile[q][d] /\ ftable'[ofile[q][d]].ip = ftable[ofile[q][d]].ip
    BY <1>3, <1>4, <2>4
  <2>q. QED BY <1>0, <1>1, <1>5, <1>6, <1>7, <2>4, <2>6, <2>7, <2>8, <2>9, FilesD
<1>9. CASE ~(ftable[g].ref > 1)
  <2>1. ftable' = [ftable EXCEPT ![g] = NoFile] /\ Become(p, IputThen(proc[p], <<ftable[g].ip>>, ret))
    BY <1>2, <1>3, <1>9 DEF FileClose
  <2>2. PICK r2 : r2 = IputThen(r, <<ftable[g].ip>>, ret)
    OBVIOUS
  <2>3. /\ Point(r2) = ret /\ r2.n = 0 /\ r2.ip = 0 /\ r2.dp = 0
        /\ Put(r2, 1) = ftable[g].ip /\ Put(r2, 2) = 0
        /\ r2.pc \notin Naming \cup FreePcs /\ r2.pc \notin FreedPcs \cup Allocating \cup {"write", "create_dot"}
    BY <1>0, <1>1, <1>3, <2>2, PutsOne
  <2>4. NoFile.ip = 0
    BY DEF NoFile
  <2>5. \A f \in Files : ftable'[f].ip = ftable[f].ip \/ Reach(p, ftable'[f].ip)
    BY <1>3, <1>7, <2>1, <2>4
  <2>6. ASSUME NEW q \in Procs \ {p}, NEW d \in Fds, ofile[q][d] # 0
        PROVE  ofile'[q][d] = ofile[q][d] /\ ftable'[ofile[q][d]].ip = ftable[ofile[q][d]].ip
    <3>1. ofile[q][d] \in Files
      BY <1>0, <2>6, OpenFile
    <3>2. ofile[q][d] # g
      <4> SUFFICES ASSUME ofile[q][d] = g PROVE FALSE
        OBVIOUS
      <4>1. <<p, fd>> \in FdsOf(g) /\ <<q, d>> \in FdsOf(g)
        BY <1>2 DEF FdsOf
      <4>2. Cardinality(FdsOf(g)) = 1
        <5>1. ftable[g].ref = Cardinality(FdsOf(g))
          BY <1>0, <1>3 DEF MInv, FilesOK
        <5>2. ftable[g].ref = 1
          BY <1>3, <1>9 DEF FileRecords
        <5>q. QED BY <5>1, <5>2
      <4>3. IsFiniteSet(FdsOf(g))
        BY FdsFinite
      <4>4. PICK y : FdsOf(g) = {y}
        BY <4>2, <4>3, FS_Singleton
      <4>5. <<p, fd>> = <<q, d>>
        BY <4>1, <4>4
      <4>q. QED BY <4>5
    <3>q. QED BY <1>3, <1>4, <2>1, <3>1, <3>2
  <2>7. Become(p, r2)
    BY <2>1, <2>2
  <2>q. QED BY <1>0, <1>5, <1>6, <1>7, <2>3, <2>5, <2>6, <2>7, FilesD
<1>q. QED BY <1>8, <1>9

(* close() keeps the invariant. *)
LEMMA CloseD ==
    ASSUME Before, After, NEW p \in Procs, Close(p)
    PROVE  DInv'
<1>1. PICK fd \in Fds : ofile[p][fd] # 0 /\ FileClose(p, fd, "user")
  BY DEF Close, FreeFds
<1>2. proc[p].pc = "user" /\ UNCHANGED <<diskVars, icache, cwd>>
  BY DEF Close, Call, At
<1>q. QED BY <1>1, <1>2, FileCloseD

(* exit() closes a descriptor. *)
LEMMA ExitCloseD ==
    ASSUME Before, After, NEW p \in Procs, ExitClose(p)
    PROVE  DInv'
<1>1. PICK fd \in Fds : ofile[p][fd] # 0 /\ FileClose(p, fd, "exit")
  <2>1. Fds \ FreeFds(p) \in SUBSET Nat /\ Fds \ FreeFds(p) # {}
    BY DEF ExitClose, Fds
  <2>2. Least(Fds \ FreeFds(p)) \in Fds \ FreeFds(p)
    BY <2>1, LeastIn
  <2>q. QED BY <2>2 DEF ExitClose, FreeFds
<1>2. proc[p].pc = "exit" /\ UNCHANGED <<diskVars, icache, cwd>>
  BY DEF ExitClose, At
<1>q. QED BY <1>1, <1>2, FileCloseD

(* dup() shares an open file; its count is at least one. *)
LEMMA DupD ==
    ASSUME Before, After, NEW p \in Procs, Dup(p)
    PROVE  DInv'
<1> DEFINE r == proc[p]
<1>0. MInv /\ r.pc = "user" /\ r.pc \notin QuietPcs /\ UNCHANGED <<diskVars, icache, cwd, proc>>
  BY BeforeParts DEF Dup, Call, At, QuietPcs, IputPcs, FreedPcs, Builds
<1>1. /\ r \in Records /\ Put(r, 1) = 0 /\ Put(r, 2) = 0 /\ r.n = 0 /\ r.ip = 0 /\ r.dp = 0
  BY <1>0, AtRest
<1>2. PICK fd \in Fds : /\ ofile[p][fd] # 0
                        /\ panic' = (ftable[ofile[p][fd]].ref < 1)
                        /\ ofile' = [ofile EXCEPT ![p][Least(FreeFds(p))] = ofile[p][fd]]
                        /\ ftable' = [ftable EXCEPT ![ofile[p][fd]].ref = @ + 1]
  BY DEF Dup, FreeFds
<1>3. PICK g : g = ofile[p][fd]
  OBVIOUS
<1>4. /\ g \in Files /\ ftable[g].ref > 0 /\ ftable[g] \in FileRecords
      /\ ofile \in [Procs -> [Fds -> Files \cup {0}]] /\ ftable \in [Files -> FileRecords]
  BY <1>0, <1>2, <1>3, OpenFile
<1>5. ~panic'
  <2>1. ~(ftable[g].ref < 1)
    BY <1>4 DEF FileRecords
  <2>q. QED BY <1>2, <1>3, <2>1
<1>6. SetIn(p, icache) /\ Gets(icache)
  BY <1>0, SetInNone DEF Gets
<1>7. \A f \in Files : ftable'[f].ip = ftable[f].ip
  BY <1>2, <1>3, <1>4 DEF FileRecords
<1>8. \A q \in Procs \ {p}, d \in Fds :
          ofile[q][d] # 0 => ofile'[q][d] = ofile[q][d] /\ ftable'[ofile[q][d]].ip = ftable[ofile[q][d]].ip
  <2>1. \A q \in Procs \ {p} : ofile'[q] = ofile[q]
    BY <1>2, <1>4
  <2>2. \A q \in Procs, d \in Fds : ofile[q][d] # 0 => ofile[q][d] \in Files
    BY <1>4
  <2>q. QED BY <1>7, <2>1, <2>2
<1>9. PICK r2 : r2 = r
  OBVIOUS
<1>10. /\ r2.pc \notin Naming \cup FreePcs /\ r2.pc \notin FreedPcs \cup Allocating \cup {"write", "create_dot"}
       /\ Point(r2) \in Idle
  BY <1>0, <1>9 DEF Naming, CreateIp, CreateDir, FreePcs, FreedPcs, Allocating, Point, IputPcs, Idle
<1>11. Become(p, r2) /\ Reach(p, cwd'[p]) /\ Reach(p, 0) /\ \A q \in Procs \ {p} : cwd'[q] = cwd[q]
  BY <1>0, <1>9, ReachOwn DEF Become, MInv, Shapes
<1>q. QED BY <1>0, <1>1, <1>5, <1>6, <1>7, <1>8, <1>9, <1>10, <1>11, FilesD

(* exit() hands the working directory to iput(). *)
LEMMA ExitCwdD ==
    ASSUME Before, After, NEW p \in Procs, ExitCwd(p)
    PROVE  DInv'
<1> DEFINE r == proc[p]
<1>0. /\ MInv /\ r.pc = "exit" /\ r.pc \notin QuietPcs /\ UNCHANGED <<diskVars, icache, ofile, ftable>> /\ ~panic'
      /\ "unused" \in Rets /\ "unused" \in Idle
  BY BeforeParts DEF ExitCwd, At, QuietPcs, IputPcs, FreedPcs, Builds, Rets, Idle
<1>1. /\ r \in Records /\ r.n = 0 /\ r.ip = 0 /\ r.dp = 0 /\ cwd[p] \in Slots
  BY <1>0, AtRest
<1>2. cwd' = [cwd EXCEPT ![p] = 0] /\ Become(p, IputThen(r, <<cwd[p]>>, "unused"))
  BY DEF ExitCwd
<1>3. cwd'[p] = 0 /\ \A q \in Procs \ {p} : cwd'[q] = cwd[q]
  BY <1>0, <1>2 DEF MInv, MemTypes
<1>4. PICK r2 : r2 = IputThen(r, <<cwd[p]>>, "unused")
  OBVIOUS
<1>5. /\ Point(r2) = "unused" /\ r2.n = 0 /\ r2.ip = 0 /\ r2.dp = 0
      /\ Put(r2, 1) = cwd[p] /\ Put(r2, 2) = 0
      /\ r2.pc \notin Naming \cup FreePcs /\ r2.pc \notin FreedPcs \cup Allocating \cup {"write", "create_dot"}
  BY <1>0, <1>1, <1>4, PutsOne
<1>6. SetIn(p, icache) /\ Gets(icache) /\ Reach(p, cwd[p]) /\ Reach(p, 0)
  BY <1>0, SetInNone, ReachOwn DEF Gets
<1>q. QED BY <1>0, <1>2, <1>3, <1>4, <1>5, <1>6, FilesD

(* fork() shares the open files and the working directory with the child. *)
LEMMA ForkD ==
    ASSUME Before, After, NEW p \in Procs, NEW q \in Procs, Fork(p, q)
    PROVE  DInv'
<1>0. /\ MInv /\ proc[p].pc = "user" /\ proc[q].pc = "unused" /\ proc[q].pc \notin QuietPcs
      /\ UNCHANGED diskVars /\ ~panic'
  BY BeforeParts DEF Fork, At, QuietPcs, IputPcs, FreedPcs, Builds
<1>1. cwd[p] \in Slots
  BY <1>0, AtRest
<1>2. Usable(cwd[p])
  BY <1>0, <1>1, HeldUsable
<1>3. /\ ftable' = [f \in Files |-> [ftable[f] EXCEPT !.ref = @ + Descriptors(p, f)]]
      /\ ofile' = [ofile EXCEPT ![q] = ofile[p]]
      /\ cwd' = [cwd EXCEPT ![q] = cwd[p]]
      /\ SetSlot(cwd[p], Idup(cwd[p]))
      /\ Become(q, User)
  BY DEF Fork
<1>4. SetIn(q, icache) /\ Gets(icache)
  <2>1. /\ Slot4(cwd[p], icache[cwd[p]].inum) /\ icache[cwd[p]].inum \in Inums
        /\ icache' = Got(icache, cwd[p], icache[cwd[p]].inum)
    BY <1>0, <1>2, <1>3, IdupGot DEF SetSlot
  <2>q. QED BY <1>0, <1>1, <2>1, SetInNone DEF Gets
<1>5. /\ ftable \in [Files -> FileRecords] /\ ofile \in [Procs -> [Fds -> Files \cup {0}]]
      /\ cwd \in [Procs -> Slots \cup {0}]
  BY <1>0 DEF MInv, MemTypes
<1>6. \A f \in Files : ftable'[f].ip = ftable[f].ip
  BY <1>3, <1>5 DEF FileRecords
<1>7. cwd'[q] = cwd[p] /\ \A x \in Procs \ {q} : cwd'[x] = cwd[x] /\ ofile'[x] = ofile[x]
  BY <1>3, <1>5
<1>8. Reach(q, cwd'[q]) /\ Reach(q, 0)
  BY <1>7, ReachOwn
<1>9. \A x \in Procs \ {q}, d \in Fds :
          ofile[x][d] # 0 => ofile'[x][d] = ofile[x][d] /\ ftable'[ofile[x][d]].ip = ftable[ofile[x][d]].ip
  BY <1>5, <1>6, <1>7
<1>q. QED BY <1>0, <1>3, <1>4, <1>6, <1>7, <1>8, <1>9, UserPlain, FilesD

(* The iget() of ialloc(): the new inode belongs to create() alone. *)
LEMMA IallocIgetD ==
    ASSUME Before, After, NEW p \in Procs, IallocIget(p)
    PROVE  DInv'
<1> DEFINE r == proc[p]
<1>0. /\ r.pc = "ialloc_iget" /\ r.pc \notin IputPcs /\ r.pc \in Naming /\ r.pc \in Allocating
      /\ UNCHANGED <<diskVars, ftable, ofile, cwd>> /\ ~panic'
  BY DEF IallocIget, At, IputPcs, Naming, Allocating
<1>1. /\ MInv /\ DiskTypes /\ CallAt(p) /\ r \in Records /\ Point(r) = r.pc /\ r.puts = <<>>
      /\ Fits(r.n, r.ip, r.dp, r.call.op, r.ino, "ialloc_iget")
      /\ \A s \in {r.n, r.ip, r.dp, cwd[p]} : s # 0 => Owned(p, s) /\ s \in Slots
      /\ DirsOK /\ CountOK /\ FreshAt(p)
  BY <1>0, OwnAt, BeforeParts DEF FreshOK
<1>2. r.n = 0 /\ r.dp # 0 /\ r.ino \in Inums /\ Owned(p, r.dp) /\ IsDir(Inum(r.dp)) /\ LastOf(r) \in Names
  BY <1>0, <1>1 DEF Fits, DpPoints, CallAt, Records
<1>3. Fresh(r, r.ino) /\ r.ino \in ibitmap /\ Firms(r.ino) = {}
  BY <1>0, <1>1 DEF FreshAt
<1>4. LL(r.ino) = {} /\ ~Linked(r.ino)
  <2>1. LL(r.ino) = {}
    BY <1>1, <1>2, <1>3, NoLinks DEF Fresh, Blank
  <2>q. QED BY <1>1, <2>1, LinkedLinks
<1>5. PICK u : u = IgetSlot(r.ino)
  OBVIOUS
<1>6. /\ Slot4(u, r.ino) /\ u \in Slots /\ icache' = Got(icache, u, r.ino)
      /\ Become(p, [Goto(p, "create_inode") EXCEPT !.ip = u, !.ino = 0])
  BY <1>1, <1>2, <1>5, IgetGot DEF IallocIget, SetSlot
<1>7. icache'[u].inum = r.ino
  BY <1>1, <1>2, <1>6, GotFields DEF MInv, MemTypes
<1>8. PICK r2 : r2 = [[r EXCEPT !.pc = "create_inode"] EXCEPT !.ip = u, !.ino = 0]
  OBVIOUS
<1>9. r2.pc = "create_inode" /\ r2.n = 0 /\ r2.ip = u /\ r2.dp = r.dp /\ r2.call = r.call /\ r2.puts = <<>>
  BY <1>1, <1>2, <1>6, <1>8 DEF Records
<1>10. /\ Point(r2) \in Idle /\ r2.pc \notin FreedPcs \cup Allocating \cup {"write", "create_dot"}
       /\ Put(r2, 1) = 0 /\ Put(r2, 2) = 0
  BY <1>9 DEF Point, IputPcs, Idle, FreedPcs, Allocating, Put
<1>11. ~OwesIp(r2) /\ ~OwesDp(r2) /\ ~LinkSide(r2) /\ Point(r2) # "namex"
  BY <1>10, IdleOwes
<1>12. proc'[p] = r2 /\ \A q \in Procs \ {p} : proc'[q] = proc[q]
  <2>1. DOMAIN proc = Procs
    BY <1>1 DEF MInv, Shapes
  <2>q. QED BY <1>6, <1>8, <2>1 DEF Become, Goto
<1>13. Growth(p)
  <2>1. Reach(p, 0) /\ Reach(p, r.dp) /\ Reach(p, cwd'[p])
    BY <1>0, ReachOwn
  <2>2. \A f \in Files : ftable'[f].ip = ftable[f].ip
    BY <1>0
  <2>3. \A q \in Procs \ {p} : cwd'[q] = cwd[q]
    BY <1>0
  <2>q. QED BY <1>0, <1>7, <1>9, <1>10, <1>12, <2>1, <2>2, <2>3, GrowthBy
<1>14. Cells(p)
  <2>1. SetIn(p, icache) /\ Gets(icache)
    BY <1>1, <1>2, <1>6, SetInNone DEF Gets
  <2>2. r.pc \notin {"write", "create_dot"} /\ proc'[p].pc \notin {"write", "create_dot"}
    BY <1>0, <1>10, <1>12
  <2>q. QED BY <2>1, <2>2, CellsOf DEF Cells
<1>15. Quiet(p)
  <2>1. r.pc \notin FreedPcs \cup {"create_inode", "create_parent", "create_block", "create_dot"}
    BY <1>0 DEF FreedPcs
  <2>q. QED BY <1>0, <1>7, <1>9, <1>10, <1>11, <1>12, <1>13, <1>14, <2>1 DEF Quiet, Cells
<1>16. Normal(p)
  BY <1>15, QuietNormal
<1>17. WritesOK'
  BY <1>0, <1>10, <1>12, <1>16, WritesKept
<1>18. FreshAt(p)'
  <2>0. PICK i, op : i = r.ino /\ op = r.call.op
    OBVIOUS
  <2>1. ASSUME NEW x \in Firms(i)' PROVE x = <<"ip", p>>
    <3>1. x \in Places /\ Firm(x)' /\ i = Inum(Holds(x))'
      BY <2>1 DEF Firms
    <3>2. ~(x \in Firms(i)) /\ ~(\E y \in Firms(i) : TRUE) /\ ~Linked(i)
      BY <1>3, <1>4, <2>0
    <3>q. QED BY <1>16, <3>1, <3>2, FirmsGrow
  <2>2. Inum(r2.ip)' = i
    BY <1>7, <1>9, <2>0 DEF Inum
  <2>3. Blank(i)' /\ dinode'[i].mode = TypeOf(op)
    BY <1>0, <1>3, <2>0 DEF Fresh, Blank, diskVars
  <2>4. r2.pc \notin Allocating /\ r2.call.op = op
    BY <1>9, <1>10, <2>0
  <2>q. QED BY <1>12, <2>1, <2>2, <2>3, <2>4 DEF FreshAt, Fresh
<1>19. FreeAt(p)'
  BY <1>9, <1>12 DEF FreeAt, FreePcs
<1>20. CallAt(p)'
  <2>1. CallEnd(r2)'
    BY <1>9 DEF CallEnd, CreateIp, CreateDir
  <2>2. LastOf(r2) \in Names
    BY <1>2, <1>9 DEF LastOf
  <2>q. QED BY <1>2, <1>9, <1>11, <1>12, <1>16, <2>1, <2>2, CallFrom
<1>q. QED BY <1>0, <1>15, <1>17, <1>18, <1>19, <1>20, QuietStep

(***************************************************************************)
(* Steps that write                                                        *)
(***************************************************************************)
(* A slot that p has and whose contents are on the disk. *)
LEMMA WroteBy ==
    ASSUME NEW p \in Procs, NEW t \in Slots, Owned(p, t), nullptr \notin Procs,
           icache[t].lock \in {p, nullptr}, icache'[t].lock \in {p, nullptr},
           icache'[t].inum = Inum(t), Inum(t) \in ibitmap',
           icache'[t].valid, icache'[t].type # "none",
           dinode'[Inum(t)].mode = icache'[t].type, dinode'[Inum(t)].nlink = icache'[t].nlink,
           dinode'[Inum(t)].blk = IF Late(p, t)' THEN 0 ELSE icache'[t].blk
    PROVE  WroteCell(p, t)
<1>1. LateBlock(t)' <=> Late(p, t)'
  BY DEF LateBlock, Late
<1>2. Inum(t)' = Inum(t)
  BY DEF Inum
<1>3. Matches(t)'
  BY <1>1, <1>2 DEF Matches
<1>4. ValidAt(t)'
  BY <1>2, <1>3 DEF ValidAt
<1>q. QED BY <1>4 DEF WroteCell

(* The slots of which the step changes nothing. *)
LEMMA CellsLeft ==
    ASSUME Before, NEW p \in Procs, NEW t \in Slots, icache'[t] = icache[t], ~Late(p, t), ~Late(p, t)'
    PROVE  Cell(p, t)
<1>1. icache[t] \in SlotRecords
  BY BeforeParts DEF MInv, MemTypes
<1>2. CASE Live(t)
  BY <1>2 DEF Cell, KeptCell, Same, Handed
<1>3. CASE ~Live(t)
  <2>1. icache[t].ref = 0
    BY <1>1, <1>3 DEF Live, SlotRecords
  <2>q. QED BY <2>1 DEF Cell, FreeCell
<1>q. QED BY <1>2, <1>3

(* A step of p that stays within the inodes that p has. *)
LEMMA WriterNormal ==
    ASSUME Before, NEW p \in Procs, NEW r2, Become(p, r2), UNCHANGED <<ftable, ofile, cwd>>,
           proc[p].pc \notin FreedPcs, r2.pc \notin FreedPcs \cup Allocating,
           {r2.n, r2.ip, r2.dp, Put(r2, 1), Put(r2, 2)} \subseteq {0, proc[p].ip, proc[p].dp},
           \A t \in Slots : Cell(p, t), Disked(p)
    PROVE  /\ proc'[p] = r2 /\ Normal(p)
           /\ r2.pc # "write" => WritesOK'
           /\ r2.pc \notin FreePcs => FreeAt(p)'
<1>0. MInv
  BY BeforeParts
<1>1. proc'[p] = r2 /\ \A q \in Procs \ {p} : proc'[q] = proc[q]
  <2>1. DOMAIN proc = Procs
    BY <1>0 DEF MInv, Shapes
  <2>q. QED BY <2>1 DEF Become
<1>2. Growth(p)
  <2>1. Reach(p, 0) /\ Reach(p, proc[p].ip) /\ Reach(p, proc[p].dp) /\ Reach(p, cwd'[p])
    BY ReachOwn
  <2>2. Reach(p, r2.n) /\ Reach(p, r2.ip) /\ Reach(p, r2.dp) /\ Reach(p, Put(r2, 1)) /\ Reach(p, Put(r2, 2))
    BY <2>1
  <2>3. \A f \in Files : ftable'[f].ip = ftable[f].ip
    OBVIOUS
  <2>4. \A q \in Procs \ {p} : cwd'[q] = cwd[q]
    OBVIOUS
  <2>q. QED BY <1>1, <2>1, <2>2, <2>3, <2>4, GrowthBy
<1>3. Normal(p)
  BY <1>1, <1>2 DEF Normal
<1>4. r2.pc # "write" => WritesOK'
  BY <1>1, <1>3, WritesKept
<1>5. r2.pc \notin FreePcs => FreeAt(p)'
  BY <1>1 DEF FreeAt, FreePcs
<1>q. QED BY <1>1, <1>3, <1>4, <1>5

(* Every directory in use knows itself. *)
LEMMA SelfStep ==
    ASSUME Before, NEW p \in Procs, Normal(p), proc[p].pc # "ialloc_iget",
           \A i \in ibitmap : i \in LD' => i \in LD \/ Firms(i) # {},
           \A i \in ibitmap : dents[i]["."] = i => dents'[i]["."] = i,
           \A i \in ibitmap : proc[p].pc \in Builds /\ Inum(proc[p].ip) = i /\ IsDir(i)
                              => dents'[i]["."] = i \/ Building(i)'
    PROVE  SelfOK'
<1>1. SelfOK /\ MInv /\ DiskTypes
  BY BeforeParts
<1> SUFFICES ASSUME NEW i \in ibitmap', IsDir(i)', Firms(i)' # {} \/ i \in LD'
             PROVE  dents'[i]["."] = i \/ Building(i)'
  BY DEF SelfOK, LD
<1>2. i \in ibitmap /\ IsDir(i)
  <2>1. i \in ibitmap /\ i \in Inums
    BY <1>1 DEF Normal, Disked, DiskTypes
  <2>q. QED BY <2>1 DEF IsDir, Normal, Disked
<1>3. Firms(i) # {} \/ i \in LD
  <2>1. CASE i \in LD'
    BY <1>2, <2>1
  <2>2. CASE Firms(i)' # {}
    <3>1. PICK x : x \in Firms(i)'
      BY <2>2
    <3>2. x \in Places /\ Firm(x)' /\ i = Inum(Holds(x))'
      BY <3>1 DEF Firms
    <3>3. Firms(i) # {} \/ Linked(i)
      BY <3>2, FirmsGrow
    <3>q. QED BY <1>2, <3>3, LinksAlways DEF LinksWell, Linked
  <2>q. QED BY <2>1, <2>2
<1>4. dents[i]["."] = i \/ Building(i)
  BY <1>1, <1>2, <1>3 DEF SelfOK, LD
<1>5. ASSUME Building(i) PROVE dents'[i]["."] = i \/ Building(i)'
  <2>1. PICK q \in Procs : proc[q].pc \in Builds /\ Inum(proc[q].ip) = i
    BY <1>5 DEF Building, Builds
  <2>2. CASE q = p
    BY <1>2, <2>1, <2>2
  <2>3. CASE q # p
    <3>1. proc'[q] = proc[q]
      BY <2>3 DEF Normal
    <3>2. proc[q].ip # 0
      BY <1>1, <2>1, NothingToPut DEF Fits, IpPoints, CreateIp, CreateDir, IputPcs, Builds
    <3>3. Inum(proc[q].ip)' = i
      BY <2>1, <3>1, <3>2, SlotsStay DEF Inum
    <3>q. QED BY <2>1, <3>1, <3>3 DEF Building, Builds
  <2>q. QED BY <2>2, <2>3
<1>q. QED BY <1>2, <1>4, <1>5

(* No block gets another owner. *)
LEMMA BlocksKept ==
    ASSUME Before, NEW p \in Procs, Normal(p), bbitmap' = bbitmap,
           \A i \in ibitmap : Owner(i, dinode'[i].blk) \/ dinode'[i].blk \notin Blocks,
           \A t \in Slots : icache'[t] = icache[t] \/ ~WroteCell(p, t)
                            \/ Owner(Inum(t), icache'[t].blk) \/ icache'[t].blk \notin Blocks
    PROVE  BlocksOK'
<1>0. BlocksOK /\ KeptOK /\ MInv /\ ibitmap' = ibitmap
  BY BeforeParts DEF Normal, Disked
<1>1. ASSUME NEW i \in Inums, NEW b \in Blocks, Owner(i, b)' PROVE Owner(i, b)
  <2>1. CASE i \in ibitmap' /\ dinode'[i].blk = b
    BY <1>0, <2>1
  <2>2. CASE \E s \in Slots : Live(s)' /\ icache'[s].valid /\ Inum(s)' = i /\ icache'[s].blk = b
    <3>1. PICK s \in Slots : Live(s)' /\ icache'[s].valid /\ Inum(s)' = i /\ icache'[s].blk = b
      BY <2>2
    <3>2. ~FreeCell(s)
      BY <3>1 DEF FreeCell, Live
    <3>3. Live(s) /\ (KeptCell(p, s) \/ FilledCell(p, s) \/ WroteCell(p, s))
      BY <3>2 DEF Normal, Cell
    <3>4. CASE KeptCell(p, s)
      BY <3>1, <3>3, <3>4 DEF KeptCell, Same, Owner, Inum
    <3>5. CASE FilledCell(p, s)
      <4>1. Inum(s) \in ibitmap
        BY <1>0, <3>5, OwnedKept DEF FilledCell
      <4>q. QED BY <3>1, <3>5, <4>1 DEF FilledCell, Owner, Inum
    <3>6. CASE WroteCell(p, s)
      <4>1. CASE icache'[s] = icache[s]
        BY <3>1, <3>3, <4>1 DEF Owner, Inum
      <4>2. CASE icache'[s] # icache[s]
        BY <3>1, <3>6, <4>2 DEF WroteCell, Inum
      <4>q. QED BY <4>1, <4>2
    <3>q. QED BY <3>3, <3>4, <3>5, <3>6
  <2>q. QED BY <1>1, <2>1, <2>2 DEF Owner
<1>q. QED BY <1>0, <1>1 DEF BlocksOK

(* A block that is allocated gets its first owner. *)
LEMMA BlocksNew ==
    ASSUME Before, NEW p \in Procs, Normal(p), NEW b, b \in FreeBlocks, bbitmap' = bbitmap \cup {b},
           dinode' = dinode,
           NEW s \in Slots, icache'[s].blk = b,
           \A t \in Slots \ {s} : icache'[t] = icache[t]
    PROVE  BlocksOK'
<1>0. BlocksOK /\ KeptOK /\ MInv /\ ibitmap' = ibitmap /\ b \notin bbitmap
  BY BeforeParts DEF Normal, Disked, FreeBlocks
<1>1. ASSUME NEW i \in Inums, NEW c \in Blocks, Owner(i, c)'
      PROVE  Owner(i, c) \/ (i = Inum(s)' /\ c = b)
  <2>1. CASE i \in ibitmap' /\ dinode'[i].blk = c
    BY <1>0, <2>1 DEF Owner
  <2>2. CASE \E t \in Slots : Live(t)' /\ icache'[t].valid /\ Inum(t)' = i /\ icache'[t].blk = c
    <3>1. PICK t \in Slots : Live(t)' /\ icache'[t].valid /\ Inum(t)' = i /\ icache'[t].blk = c
      BY <2>2
    <3>2. ~FreeCell(t)
      BY <3>1 DEF FreeCell, Live
    <3>3. Live(t)
      BY <3>2 DEF Normal, Cell
    <3>6. CASE t = s
      BY <3>1, <3>6 DEF Inum
    <3>7. CASE t # s
      BY <3>1, <3>3, <3>7 DEF Owner, Inum
    <3>q. QED BY <3>6, <3>7
  <2>q. QED BY <1>1, <2>1, <2>2 DEF Owner
<1>2. \A i \in Inums : b \in Blocks => ~Owner(i, b)
  BY <1>0 DEF BlocksOK
<1>q. QED BY <1>0, <1>1, <1>2 DEF BlocksOK

(* The link count of one inode, when its own entries and debts are known. *)
LEMMA CountHere ==
    ASSUME DiskTypes, DiskTypes', NEW p \in Procs, NEW i \in Inums, NEW x \in Int, NEW y \in Int,
           Cardinality(LL(i)') <= Cardinality(LL(i)) + x,
           Debt(p, i)' <= Debt(p, i) + y,
           dinode'[i].nlink >= dinode[i].nlink + (x + y)
    PROVE  dinode'[i].nlink - Cardinality(LL(i)') - Debt(p, i)' >= dinode[i].nlink - Cardinality(LL(i)) - Debt(p, i)
<1>1. LinksFew /\ LinksFew'
  <2>1. DiskTypes => LinksFew
    BY LinksFinite
  <2>2. DiskTypes' => LinksFew'
    BY LinksFewNext
  <2>q. QED BY <2>1, <2>2
<1>2. PICK a, b, d, e, f, g : /\ a = Cardinality(LL(i)) /\ b = Cardinality(LL(i)')
                              /\ d = Debt(p, i) /\ e = Debt(p, i)' /\ f = dinode[i].nlink /\ g = dinode'[i].nlink
  OBVIOUS
<1>3. a \in Nat /\ b \in Nat /\ f \in Int /\ g \in Int
  BY <1>1, <1>2 DEF LinksFew, DiskTypes, Entries
<1>4. d \in Nat /\ e \in Nat
  BY <1>2 DEF Debt, OneIf
<1>5. b <= a + x /\ e <= d + y /\ g >= f + (x + y)
  BY <1>2
<1>6. g - b - e >= f - a - d
  BY <1>3, <1>4, <1>5
<1>q. QED BY <1>2, <1>6

(* Entries that come and go. *)
LEMMA LinksCount ==
    ASSUME DiskTypes, NEW i, NEW T, NEW e
    PROVE  /\ T \subseteq LL(i) => Cardinality(T) <= Cardinality(LL(i)) + 0
           /\ T \subseteq LL(i) \cup {e} => Cardinality(T) <= Cardinality(LL(i)) + 1
           /\ e \in LL(i) /\ T \subseteq LL(i) \ {e} => Cardinality(T) <= Cardinality(LL(i)) + (-1)
<1>1. PICK S : S = LL(i)
  OBVIOUS
<1>2. IsFiniteSet(S) /\ Cardinality(S) \in Nat
  BY <1>1, LinksFinite DEF LinksFew
<1>3. ASSUME NEW U, IsFiniteSet(U), T \subseteq U PROVE Cardinality(T) <= Cardinality(U) /\ Cardinality(T) \in Nat
  BY <1>3, FS_Subset, FS_CardinalityType
<1>4. ASSUME T \subseteq S PROVE Cardinality(T) <= Cardinality(S) + 0
  <2>1. Cardinality(T) <= Cardinality(S)
    BY <1>2, <1>3, <1>4
  <2>2. PICK m : m = Cardinality(S)
    OBVIOUS
  <2>3. m \in Nat /\ m + 0 = m
    BY <1>2, <2>2
  <2>q. QED BY <2>1, <2>2, <2>3
<1>5. ASSUME T \subseteq S \cup {e} PROVE Cardinality(T) <= Cardinality(S) + 1
  <2>1. IsFiniteSet(S \cup {e}) /\ (Cardinality(S \cup {e}) = Cardinality(S) \/ Cardinality(S \cup {e}) = Cardinality(S) + 1)
    BY <1>2, FS_AddElement
  <2>2. Cardinality(T) <= Cardinality(S \cup {e}) /\ Cardinality(T) \in Nat
    BY <1>3, <1>5, <2>1
  <2>3. PICK k, m, n : k = Cardinality(T) /\ m = Cardinality(S) /\ n = Cardinality(S \cup {e})
    OBVIOUS
  <2>4. k \in Nat /\ m \in Nat /\ k <= n /\ (n = m \/ n = m + 1)
    BY <1>2, <2>1, <2>2, <2>3
  <2>5. k <= m + 1
    BY <2>4
  <2>q. QED BY <2>3, <2>5
<1>6. ASSUME e \in S, T \subseteq S \ {e} PROVE Cardinality(T) <= Cardinality(S) + (-1)
  <2>1. IsFiniteSet(S \ {e}) /\ Cardinality(S \ {e}) = Cardinality(S) - 1
    BY <1>2, <1>6, FS_RemoveElement
  <2>2. Cardinality(T) <= Cardinality(S \ {e})
    BY <1>3, <1>6, <2>1
  <2>3. PICK m, n : m = Cardinality(S) /\ n = Cardinality(S \ {e})
    OBVIOUS
  <2>4. m \in Nat /\ n = m - 1 /\ m - 1 = m + (-1)
    BY <1>2, <2>1, <2>3
  <2>q. QED BY <2>2, <2>3, <2>4
<1>q. QED BY <1>1, <1>4, <1>5, <1>6

(* What p has locked says what the disk says, but for a block on its way. *)
LEMMA LockedIs ==
    ASSUME Before, NEW p \in Procs, NEW s, Owned(p, s), icache[s].lock = p, proc[p].pc \notin FreedPcs
    PROVE  /\ Usable(s) /\ s \in Slots /\ Live(s) /\ Inum(s) \in Inums /\ Inum(s) \in ibitmap
           /\ icache[s] \in SlotRecords /\ icache[s].inum = Inum(s)
           /\ icache[s].valid /\ icache[s].type # "none"
           /\ icache[s].type = dinode[Inum(s)].mode
           /\ icache[s].nlink = dinode[Inum(s)].nlink
           /\ dinode[Inum(s)].blk = IF Late(p, s) THEN 0 ELSE icache[s].blk
<1>0. MInv /\ KeptOK /\ ValidOK /\ nullptr \notin Procs
  BY BeforeParts, Ext2Assumption
<1>1. Usable(s) /\ s \in Slots /\ Live(s) /\ Inum(s) \in Inums /\ Inum(s) \in ibitmap /\ icache[s] \in SlotRecords
  BY <1>0, OwnedKept DEF Usable, Live, Inum
<1>2. ~Dying(s)
  <2> SUFFICES ASSUME NEW q \in Procs, Put(proc[q], 1) = s, proc[q].pc \in FreedPcs PROVE FALSE
    BY DEF Dying, FreedPcs
  <2>1. proc[q].pc \in FreePcs
    BY DEF FreePcs, FreedPcs
  <2>2. icache[s].lock = q
    BY <1>0, <1>1, <2>1, DyingLocked
  <2>q. QED BY <2>2
<1>3. LateBlock(s) <=> Late(p, s)
  BY DEF LateBlock, Late
<1>4. ValidAt(s)
  BY <1>0, <1>1 DEF ValidOK
<1>5. icache[s].valid /\ icache[s].type # "none" /\ Matches(s)
  BY <1>0, <1>1, <1>2, <1>4 DEF ValidAt
<1>q. QED BY <1>1, <1>3, <1>5 DEF Matches, Inum

(* iupdate() writes one inode. *)
LEMMA IupdateIs ==
    ASSUME DiskTypes, NEW i, i.inum \in Inums, i.type # "none", Iupdate(i)
    PROVE  /\ dinode'[i.inum].mode = i.type /\ dinode'[i.inum].nlink = i.nlink /\ dinode'[i.inum].blk = i.blk
           /\ \A j \in Inums \ {i.inum} : dinode'[j] = dinode[j]
<1>1. DOMAIN dinode = Inums
  BY DEF DiskTypes
<1>2. PICK e : e = IupdateEntry(i)
  OBVIOUS
<1>3. e.mode = i.type /\ e.nlink = i.nlink /\ e.blk = i.blk
  BY <1>2 DEF IupdateEntry
<1>4. dinode' = [dinode EXCEPT ![i.inum] = e]
  BY <1>2 DEF Iupdate
<1>q. QED BY <1>1, <1>3, <1>4

(* The entries after a step that writes none. *)
LEMMA LinksSame ==
    ASSUME Before, After, NEW p \in Procs, Normal(p), dents' = dents
    PROVE  /\ \A i : LN(i)' = LN(i) /\ LL(i)' = LL(i)
           /\ \A i : i \in LD' <=> i \in LD
           /\ DirsOK'
<1>0. DiskTypes /\ DirsOK /\ ibitmap' = ibitmap /\ \A i \in Inums : dinode'[i].mode = dinode[i].mode
  BY BeforeParts DEF Normal, Disked
<1>1. \A d \in ibitmap : IsDir(d)' <=> IsDir(d)
  BY <1>0 DEF IsDir, DiskTypes
<1>2. DirsOf(Disk)' = DirsOf(Disk)
  <2>1. DirsOf(Disk) = {d \in ibitmap : IsDir(d)} /\ DirsOf(Disk)' = {d \in ibitmap' : IsDir(d)'}
    BY LinksAlways, LinksNext DEF LinksWell
  <2>q. QED BY <1>0, <1>1, <2>1
<1>3. Disk.dents = dents /\ Disk'.dents = dents
  BY DEF Disk
<1>4. \A i : NamesOf(Disk, i)' = NamesOf(Disk, i)
  BY <1>2, <1>3 DEF NamesOf
<1>5. LinkedDirsOf(Disk)' = LinkedDirsOf(Disk)
  BY <1>2, <1>4 DEF LinkedDirsOf
<1>6. \A i : LinksOf(Disk, i)' = LinksOf(Disk, i)
  BY <1>3, <1>4, <1>5 DEF LinksOf
<1>7. DirsOK'
  BY <1>0, <1>1, <1>2, <1>4, Ext2Assumption DEF DirsOK
<1>q. QED BY <1>4, <1>5, <1>6, <1>7 DEF LN, LL, LD

(* A step of p that writes the link count of an inode that it has. *)
NlinkBy(p, s, i, r2) ==
    /\ Owned(p, s) /\ icache[s].lock \in {p, nullptr}
    /\ i \in SlotRecords /\ i.inum = Inum(s) /\ i.ref = icache[s].ref /\ i.valid /\ i.lock \in {p, nullptr}
    /\ i.type = dinode[Inum(s)].mode /\ i.blk = dinode[Inum(s)].blk
    /\ icache' = [icache EXCEPT ![s] = i] \/ icache' = [icache EXCEPT ![s] = Unlocked(i)]
    /\ Iupdate(i)
    /\ UNCHANGED <<ibitmap, bbitmap, dents, ftable, ofile, cwd>>
    /\ Become(p, r2)
    /\ proc[p].pc \notin FreedPcs \cup {"write", "create_dot", "ialloc_iget"}
    /\ r2.pc \notin FreePcs \cup Allocating \cup {"write", "create_dot"}
    /\ {r2.n, r2.ip, r2.dp, Put(r2, 1), Put(r2, 2)} \subseteq {0, proc[p].ip, proc[p].dp}

(* Such a step changes one slot and one inode, and no entry. *)
LEMMA NlinkNormal ==
    ASSUME Before, After, NEW p \in Procs, NEW s, NEW i, NEW r2, NlinkBy(p, s, i, r2)
    PROVE  /\ proc'[p] = r2 /\ Normal(p) /\ WritesOK' /\ FreeAt(p)' /\ BlocksOK' /\ DirsOK'
           /\ \A j : LN(j)' = LN(j) /\ LL(j)' = LL(j)
           /\ \A j : j \in LD' <=> j \in LD
           /\ dinode'[Inum(s)].nlink = i.nlink
           /\ \A j \in Inums \ {Inum(s)} : dinode'[j] = dinode[j]
           /\ Inum(s) \in Inums /\ s \in Slots
           /\ icache'[s].type = i.type /\ icache'[s].nlink = i.nlink /\ icache'[s].blk = i.blk
           /\ \A t \in Slots \ {s} : icache'[t] = icache[t]
<1>0. MInv /\ KeptOK /\ DiskTypes /\ nullptr \notin Procs /\ icache \in [Slots -> SlotRecords]
  BY BeforeParts, Ext2Assumption DEF MInv, MemTypes
<1>1. /\ Usable(s) /\ s \in Slots /\ Live(s) /\ Inum(s) \in Inums /\ Inum(s) \in ibitmap
      /\ dinode[Inum(s)].mode # "none"
  BY <1>0, OwnedKept DEF NlinkBy, Usable, Live, Inum
<1>2. /\ i.inum = Inum(s) /\ i.type # "none" /\ i \in SlotRecords /\ i.valid /\ i.lock \in {p, nullptr}
      /\ i.type = dinode[Inum(s)].mode /\ i.blk = dinode[Inum(s)].blk
  BY <1>1 DEF NlinkBy
<1>3. /\ dinode'[Inum(s)].mode = i.type /\ dinode'[Inum(s)].nlink = i.nlink /\ dinode'[Inum(s)].blk = i.blk
      /\ \A j \in Inums \ {Inum(s)} : dinode'[j] = dinode[j]
  BY <1>0, <1>1, <1>2, IupdateIs DEF NlinkBy
<1>4. PICK v : (v = i \/ v = Unlocked(i)) /\ icache' = [icache EXCEPT ![s] = v]
  BY DEF NlinkBy
<1>5. /\ v.inum = Inum(s) /\ v.valid /\ v.type = i.type /\ v.nlink = i.nlink /\ v.blk = i.blk /\ v.lock \in {p, nullptr}
  <2>1. CASE v = i
    BY <1>2, <2>1
  <2>2. CASE v = [i EXCEPT !.lock = nullptr]
    BY <1>2, <2>2, LockFields
  <2>q. QED BY <1>4, <2>1, <2>2 DEF Unlocked
<1>6. icache'[s] = v /\ \A t \in Slots \ {s} : icache'[t] = icache[t]
  BY <1>0, <1>1, <1>4
<1>7. proc'[p] = r2 /\ proc[p].pc \notin {"write", "create_dot"} /\ r2.pc \notin {"write", "create_dot"}
  <2>1. DOMAIN proc = Procs
    BY <1>0 DEF MInv, Shapes
  <2>q. QED BY <2>1 DEF NlinkBy, Become
<1>8. \A t : ~Late(p, t) /\ ~Late(p, t)'
  BY <1>7 DEF Late
<1>9. WroteCell(p, s)
  BY <1>0, <1>1, <1>2, <1>3, <1>5, <1>6, <1>8, WroteBy DEF NlinkBy
<1>10. \A t \in Slots : Cell(p, t)
  <2>1. Cell(p, s)
    BY <1>1, <1>9 DEF Cell
  <2>q. QED BY <1>6, <1>8, <2>1, CellsLeft
<1>11. Disked(p)
  BY <1>1, <1>2, <1>3, <1>9 DEF Disked, NlinkBy
<1>12. FreedPcs \subseteq FreePcs
  BY DEF FreedPcs, FreePcs
<1>13. Normal(p) /\ WritesOK' /\ FreeAt(p)'
  BY <1>7, <1>10, <1>11, <1>12, WriterNormal DEF NlinkBy
<1>14. DirsOK' /\ \A j : LN(j)' = LN(j) /\ LL(j)' = LL(j) /\ (j \in LD' <=> j \in LD)
  BY <1>13, LinksSame DEF NlinkBy
<1>15. BlocksOK'
  <2>1. \A j \in ibitmap : dinode'[j].blk = dinode[j].blk
    BY <1>0, <1>2, <1>3 DEF DiskTypes
  <2>2. \A j \in ibitmap : Owner(j, dinode'[j].blk)
    BY <2>1 DEF Owner
  <2>3. \A t \in Slots : icache'[t] = icache[t] \/ Owner(Inum(t), icache'[t].blk)
    BY <1>1, <1>2, <1>5, <1>6 DEF Owner
  <2>4. bbitmap' = bbitmap
    BY DEF NlinkBy
  <2>q. QED BY <1>13, <2>2, <2>3, <2>4, BlocksKept
<1>q. QED BY <1>1, <1>3, <1>5, <1>6, <1>7, <1>13, <1>14, <1>15

(* The link counts that p owes after a step. *)
LEMMA DebtNext ==
    ASSUME NEW p, NEW r2, proc'[p] = r2, NEW j
    PROVE  Debt(p, j)' = OneIf(OwesIp(r2) /\ icache'[r2.ip].inum = j) + OneIf(OwesDp(r2) /\ icache'[r2.dp].inum = j)
BY DEF Debt, Inum

(* A step that writes a link count and owes as much more. *)
LEMMA NlinkStep ==
    ASSUME Before, After, NEW p \in Procs, NEW s, NEW i, NEW r2, NlinkBy(p, s, i, r2),
           NEW d \in Int, i.nlink = dinode[Inum(s)].nlink + d,
           \A j \in Inums : Debt(p, j)' <= Debt(p, j) + IF j = Inum(s) THEN d ELSE 0,
           proc[p].pc \in Builds => (r2.pc \in Builds /\ r2.ip = proc[p].ip) \/ ~IsDir(Inum(proc[p].ip)),
           FreshAt(p)', CallAt(p)', ~panic'
    PROVE  DInv'
<1>0. /\ proc'[p] = r2 /\ Normal(p) /\ WritesOK' /\ FreeAt(p)' /\ BlocksOK' /\ DirsOK'
      /\ \A j : LN(j)' = LN(j) /\ LL(j)' = LL(j)
      /\ \A j : j \in LD' <=> j \in LD
      /\ dinode'[Inum(s)].nlink = i.nlink
      /\ \A j \in Inums \ {Inum(s)} : dinode'[j] = dinode[j]
      /\ Inum(s) \in Inums
  BY NlinkNormal
<1>1. DiskTypes /\ DiskTypes' /\ MInv
  BY BeforeParts DEF After
<1>2. CountOK'
  <2>1. ASSUME NEW j \in Inums
        PROVE  dinode'[j].nlink - Cardinality(LL(j)') - Debt(p, j)' >= dinode[j].nlink - Cardinality(LL(j)) - Debt(p, j)
    <3>1. PICK y \in Int : y = IF j = Inum(s) THEN d ELSE 0
      OBVIOUS
    <3>2. LL(j)' \subseteq LL(j)
      BY <1>0
    <3>3. Cardinality(LL(j)') <= Cardinality(LL(j)) + 0
      BY <1>1, <3>2, LinksCount
    <3>4. Debt(p, j)' <= Debt(p, j) + y
      BY <3>1
    <3>5. dinode'[j].nlink = dinode[j].nlink + (0 + y)
      <4>1. dinode[j].nlink \in Int
        BY <1>1 DEF DiskTypes, Entries
      <4>2. CASE j = Inum(s)
        BY <1>0, <3>1, <4>1, <4>2
      <4>3. CASE j # Inum(s)
        BY <1>0, <3>1, <4>1, <4>3
      <4>q. QED BY <4>2, <4>3
    <3>6. dinode'[j].nlink >= dinode[j].nlink + (0 + y)
      <4>1. dinode'[j].nlink \in Int
        BY <1>1 DEF DiskTypes, Entries
      <4>q. QED BY <3>5, <4>1
    <3>q. QED BY <1>1, <3>3, <3>4, <3>6, CountHere
  <2>2. ibitmap \subseteq Inums
    BY <1>1 DEF DiskTypes
  <2>q. QED BY <1>0, <2>1, <2>2, CountStep
<1>3. SelfOK'
  <2>1. dents' = dents /\ proc[p].pc # "ialloc_iget"
    BY DEF NlinkBy
  <2>2. ASSUME NEW j \in ibitmap, proc[p].pc \in Builds, Inum(proc[p].ip) = j, IsDir(j) PROVE Building(j)'
    <3>1. r2.pc \in Builds /\ r2.ip = proc[p].ip
      BY <2>2
    <3>2. proc[p].ip # 0
      BY <1>1, <2>2, NothingToPut DEF Fits, IpPoints, CreateIp, CreateDir, IputPcs, Builds
    <3>3. icache'[r2.ip].inum = j
      BY <1>0, <2>2, <3>1, <3>2, SlotsStay
    <3>q. QED BY <1>0, <3>1, <3>3 DEF Building, Builds, Inum
  <2>q. QED BY <1>0, <2>1, <2>2, SelfStep
<1>q. QED BY <1>0, <1>2, <1>3, NormalStep

(* A call that is past create() allocates nothing. *)
LEMMA NothingFresh ==
    ASSUME NEW p, NEW r2, proc'[p] = r2, r2.pc \notin Naming
    PROVE  FreshAt(p)'
BY DEF FreshAt, Naming, Allocating, CreateIp, CreateDir

(* unlink() writes the link count of the inode that lost its entry: the    *)
(* debt is paid.                                                           *)
LEMMA UnlinkDecD ==
    ASSUME Before, After, NEW p \in Procs, UnlinkDec(p)
    PROVE  DInv'
<1> DEFINE r == proc[p]
<1>0. /\ r.pc = "unlink_dec" /\ r.pc \notin IputPcs /\ r.pc \notin FreedPcs \cup {"write", "create_dot", "ialloc_iget"}
      /\ r.pc \notin Builds /\ ~panic'
  BY DEF UnlinkDec, At, IputPcs, FreedPcs, Builds
<1>1. /\ MInv /\ r \in Records /\ Point(r) = r.pc
      /\ Fits(r.n, r.ip, r.dp, r.call.op, r.ino, "unlink_dec")
      /\ \A s \in {r.n, r.ip, r.dp, cwd[p]} : s # 0 => Owned(p, s) /\ s \in Slots
  BY <1>0, OwnAt
<1>2. r.n = 0 /\ r.ip # 0 /\ r.dp = 0 /\ r.ip \in Slots /\ Owned(p, r.ip) /\ r.pc \in IpLocked
  BY <1>0, <1>1 DEF Fits, IpPoints, DpPoints, CreateIp, CreateDir, IpLocked
<1>3. icache[r.ip].lock = p
  BY <1>0, <1>1, <1>2 DEF MInv, LocksOK, Locks, LocksAt
<1>4. PICK s : s = r.ip
  OBVIOUS
<1>5. ~Late(p, s)
  BY <1>0 DEF Late
<1>6. /\ icache[s] \in SlotRecords /\ icache[s].inum = Inum(s) /\ icache[s].valid /\ s \in Slots /\ Inum(s) \in Inums
      /\ icache[s].type = dinode[Inum(s)].mode /\ icache[s].nlink = dinode[Inum(s)].nlink
      /\ icache[s].blk = dinode[Inum(s)].blk
  BY <1>0, <1>2, <1>3, <1>4, <1>5, LockedIs
<1>7. PICK n \in Int : n = icache[s].nlink /\ n - 1 \in Int /\ n - 1 = n + (-1)
  BY <1>6 DEF SlotRecords
<1>8. PICK i : i = [icache[s] EXCEPT !.nlink = n - 1]
  OBVIOUS
<1>9. /\ i \in SlotRecords /\ i.inum = Inum(s) /\ i.ref = icache[s].ref /\ i.valid /\ i.lock = p /\ i.nlink = n - 1
      /\ i.type = dinode[Inum(s)].mode /\ i.blk = dinode[Inum(s)].blk
  BY <1>3, <1>4, <1>6, <1>7, <1>8, NlinkFields
<1>10. PICK r1 : r1 = [r EXCEPT !.ip = 0]
  OBVIOUS
<1>11. PICK r2 : r2 = IputThen(r1, <<s>>, "user")
  OBVIOUS
<1>12. r1 \in Records /\ r1.n = 0 /\ r1.ip = 0 /\ r1.dp = 0
  BY <1>1, <1>2, <1>10, DropFields
<1>13. "user" \in Rets /\ "user" \in Idle
  BY DEF Rets, Idle
<1>14. /\ Point(r2) = "user" /\ r2.n = 0 /\ r2.ip = 0 /\ r2.dp = 0 /\ Put(r2, 1) = s /\ Put(r2, 2) = 0
       /\ r2.pc \notin Naming \cup FreePcs /\ r2.pc \notin FreedPcs \cup Allocating \cup {"write", "create_dot"}
  BY <1>6, <1>11, <1>12, <1>13, PutsOne
<1>15. ~OwesIp(r2) /\ ~OwesDp(r2) /\ ~LinkSide(r2) /\ Point(r2) # "namex"
  BY <1>13, <1>14, IdleOwes
<1>16. /\ Iupdate(i) /\ icache' = [icache EXCEPT ![s] = Unlocked(i)] /\ Become(p, r2)
       /\ UNCHANGED <<ibitmap, bbitmap, dents, ftable, ofile, cwd>>
  BY <1>4, <1>7, <1>8, <1>10, <1>11 DEF UnlinkDec, SetSlot
<1>17. NlinkBy(p, s, i, r2)
  BY <1>0, <1>2, <1>3, <1>4, <1>9, <1>14, <1>16 DEF NlinkBy
<1>18. proc'[p] = r2 /\ Normal(p)
  BY <1>17, NlinkNormal
<1>19. \A j \in Inums : Debt(p, j)' <= Debt(p, j) + IF j = Inum(s) THEN -1 ELSE 0
  <2>1. OwesIp(r) /\ ~OwesDp(r)
    BY <1>0, <1>1 DEF OwesIp, OwesDp
  <2>2. \A j : Debt(p, j)' = 0
    BY <1>15, <1>18, DebtNext DEF OneIf
  <2>3. \A j : Debt(p, j) = IF j = Inum(s) THEN 1 ELSE 0
    BY <1>4, <2>1 DEF Debt, OneIf
  <2>q. QED BY <2>2, <2>3
<1>20. FreshAt(p)' /\ CallAt(p)'
  BY <1>14, <1>15, <1>18, NothingFresh, PlainCall
<1>21. -1 \in Int /\ i.nlink = dinode[Inum(s)].nlink + (-1)
  BY <1>6, <1>7, <1>9
<1>q. QED BY <1>0, <1>17, <1>19, <1>20, <1>21, NlinkStep

(* unlink() of a directory writes the link count of the parent, which      *)
(* loses the "..".                                                         *)
LEMMA UnlinkParentD ==
    ASSUME Before, After, NEW p \in Procs, UnlinkParent(p)
    PROVE  DInv'
<1> DEFINE r == proc[p]
<1>0. /\ r.pc = "unlink_parent" /\ r.pc \notin IputPcs /\ r.pc \notin FreedPcs \cup {"write", "create_dot", "ialloc_iget"}
      /\ r.pc \notin Builds /\ ~panic'
  BY DEF UnlinkParent, At, IputPcs, FreedPcs, Builds
<1>1. /\ MInv /\ r \in Records /\ Point(r) = r.pc
      /\ Fits(r.n, r.ip, r.dp, r.call.op, r.ino, "unlink_parent")
      /\ \A s \in {r.n, r.ip, r.dp, cwd[p]} : s # 0 => Owned(p, s) /\ s \in Slots
  BY <1>0, OwnAt
<1>2. r.n = 0 /\ r.ip # 0 /\ r.dp # 0 /\ r.dp \in Slots /\ Owned(p, r.dp) /\ r.pc \in DpLocked
  BY <1>0, <1>1 DEF Fits, IpPoints, DpPoints, CreateIp, CreateDir, DpLocked
<1>3. icache[r.dp].lock = p
  BY <1>0, <1>1, <1>2 DEF MInv, LocksOK, Locks, LocksAt
<1>4. PICK s : s = r.dp
  OBVIOUS
<1>5. ~Late(p, s)
  BY <1>0 DEF Late
<1>6. /\ icache[s] \in SlotRecords /\ icache[s].inum = Inum(s) /\ icache[s].valid /\ s \in Slots /\ Inum(s) \in Inums
      /\ icache[s].type = dinode[Inum(s)].mode /\ icache[s].nlink = dinode[Inum(s)].nlink
      /\ icache[s].blk = dinode[Inum(s)].blk
  BY <1>0, <1>2, <1>3, <1>4, <1>5, LockedIs
<1>7. PICK n \in Int : n = icache[s].nlink /\ n - 1 \in Int /\ n - 1 = n + (-1)
  BY <1>6 DEF SlotRecords
<1>8. PICK i : i = [icache[s] EXCEPT !.nlink = n - 1]
  OBVIOUS
<1>9. /\ i \in SlotRecords /\ i.inum = Inum(s) /\ i.ref = icache[s].ref /\ i.valid /\ i.lock = p /\ i.nlink = n - 1
      /\ i.type = dinode[Inum(s)].mode /\ i.blk = dinode[Inum(s)].blk
  BY <1>3, <1>4, <1>6, <1>7, <1>8, NlinkFields
<1>10. PICK r1 : r1 = [r EXCEPT !.dp = 0]
  OBVIOUS
<1>11. PICK r2 : r2 = IputThen(r1, <<s>>, "unlink_dec")
  OBVIOUS
<1>12. r1 \in Records /\ r1.n = 0 /\ r1.ip = r.ip /\ r1.dp = 0
  BY <1>1, <1>2, <1>10, DropFields
<1>13. "unlink_dec" \in Rets
  BY DEF Rets
<1>14. /\ Point(r2) = "unlink_dec" /\ r2.n = 0 /\ r2.ip = r.ip /\ r2.dp = 0 /\ Put(r2, 1) = s /\ Put(r2, 2) = 0
       /\ r2.pc \notin Naming \cup FreePcs /\ r2.pc \notin FreedPcs \cup Allocating \cup {"write", "create_dot"}
  BY <1>6, <1>11, <1>12, <1>13, PutsOne
<1>15. OwesIp(r2) /\ ~OwesDp(r2) /\ ~LinkSide(r2) /\ Point(r2) # "namex"
  BY <1>14 DEF OwesIp, OwesDp, LinkSide, LinkIp
<1>16. /\ Iupdate(i) /\ icache' = [icache EXCEPT ![s] = Unlocked(i)] /\ Become(p, r2)
       /\ UNCHANGED <<ibitmap, bbitmap, dents, ftable, ofile, cwd>>
  BY <1>4, <1>7, <1>8, <1>10, <1>11 DEF UnlinkParent, SetSlot
<1>17. NlinkBy(p, s, i, r2)
  BY <1>0, <1>2, <1>3, <1>4, <1>9, <1>14, <1>16 DEF NlinkBy
<1>18. proc'[p] = r2 /\ Normal(p)
  BY <1>17, NlinkNormal
<1>19. \A j \in Inums : Debt(p, j)' <= Debt(p, j) + IF j = Inum(s) THEN -1 ELSE 0
  <2>1. OwesIp(r) /\ OwesDp(r)
    BY <1>0, <1>1 DEF OwesIp, OwesDp
  <2>2. icache'[r.ip].inum = Inum(r.ip)
    BY <1>2, <1>18, SlotsStay
  <2>3. \A j : Debt(p, j)' = IF j = Inum(r.ip) THEN 1 ELSE 0
    BY <1>14, <1>15, <1>18, <2>2, DebtNext DEF OneIf
  <2>4. \A j : Debt(p, j) = (IF j = Inum(r.ip) THEN 1 ELSE 0) + (IF j = Inum(s) THEN 1 ELSE 0)
    BY <1>4, <2>1 DEF Debt, OneIf
  <2>q. QED BY <2>3, <2>4
<1>20. FreshAt(p)' /\ CallAt(p)'
  BY <1>14, <1>15, <1>18, NothingFresh, PlainCall
<1>21. -1 \in Int /\ i.nlink = dinode[Inum(s)].nlink + (-1)
  BY <1>6, <1>7, <1>9
<1>q. QED BY <1>0, <1>17, <1>19, <1>20, <1>21, NlinkStep

(* link() that fails takes back the link that it had counted. *)
LEMMA LinkBadD ==
    ASSUME Before, After, NEW p \in Procs, LinkBad(p)
    PROVE  DInv'
<1> DEFINE r == proc[p]
<1>0. /\ r.pc = "link_bad" /\ r.pc \notin IputPcs /\ r.pc \notin FreedPcs \cup {"write", "create_dot", "ialloc_iget"}
      /\ r.pc \notin Builds
  BY DEF LinkBad, At, IputPcs, FreedPcs, Builds
<1>1. /\ MInv /\ r \in Records /\ Point(r) = r.pc
      /\ Fits(r.n, r.ip, r.dp, r.call.op, r.ino, "link_bad")
      /\ \A s \in {r.n, r.ip, r.dp, cwd[p]} : s # 0 => Owned(p, s) /\ s \in Slots
  BY <1>0, OwnAt
<1>2. r.n = 0 /\ r.ip # 0 /\ r.dp = 0 /\ r.ip \in Slots /\ Owned(p, r.ip)
  BY <1>0, <1>1 DEF Fits, IpPoints, DpPoints, CreateIp, CreateDir, LinkIp
<1>3. icache[r.ip].lock = nullptr /\ panic' = IlockPanics(r.ip)
  BY DEF LinkBad, CanLock
<1>4. PICK s, l : s = r.ip /\ l = Loaded(s)
  OBVIOUS
<1>6. /\ l \in SlotRecords /\ l.inum = Inum(s) /\ l.ref = icache[s].ref /\ l.lock = nullptr /\ l.valid
      /\ s \in Slots /\ Inum(s) \in Inums
      /\ l.type = dinode[Inum(s)].mode /\ l.nlink = dinode[Inum(s)].nlink /\ l.blk = dinode[Inum(s)].blk
      /\ ~panic'
  BY <1>2, <1>3, <1>4, LoadedIs DEF Inum
<1>7. PICK n \in Int : n = l.nlink /\ n - 1 \in Int /\ n - 1 = n + (-1)
  BY <1>6 DEF SlotRecords
<1>8. PICK i : i = [l EXCEPT !.nlink = n - 1]
  OBVIOUS
<1>9. /\ i \in SlotRecords /\ i.inum = Inum(s) /\ i.ref = icache[s].ref /\ i.valid /\ i.lock = nullptr /\ i.nlink = n - 1
      /\ i.type = dinode[Inum(s)].mode /\ i.blk = dinode[Inum(s)].blk
  BY <1>6, <1>7, <1>8, NlinkFields
<1>10. PICK r1 : r1 = [r EXCEPT !.ip = 0]
  OBVIOUS
<1>11. PICK r2 : r2 = IputThen(r1, <<s>>, "user")
  OBVIOUS
<1>12. r1 \in Records /\ r1.n = 0 /\ r1.ip = 0 /\ r1.dp = 0
  BY <1>1, <1>2, <1>10, DropFields
<1>13. "user" \in Rets /\ "user" \in Idle
  BY DEF Rets, Idle
<1>14. /\ Point(r2) = "user" /\ r2.n = 0 /\ r2.ip = 0 /\ r2.dp = 0 /\ Put(r2, 1) = s /\ Put(r2, 2) = 0
       /\ r2.pc \notin Naming \cup FreePcs /\ r2.pc \notin FreedPcs \cup Allocating \cup {"write", "create_dot"}
  BY <1>6, <1>11, <1>12, <1>13, PutsOne
<1>15. ~OwesIp(r2) /\ ~OwesDp(r2) /\ ~LinkSide(r2) /\ Point(r2) # "namex"
  BY <1>13, <1>14, IdleOwes
<1>16. /\ Iupdate(i) /\ icache' = [icache EXCEPT ![s] = i] /\ Become(p, r2)
       /\ UNCHANGED <<ibitmap, bbitmap, dents, ftable, ofile, cwd>>
  BY <1>4, <1>7, <1>8, <1>10, <1>11 DEF LinkBad, SetSlot
<1>17. NlinkBy(p, s, i, r2)
  BY <1>0, <1>2, <1>3, <1>4, <1>9, <1>14, <1>16 DEF NlinkBy
<1>18. proc'[p] = r2 /\ Normal(p)
  BY <1>17, NlinkNormal
<1>19. \A j \in Inums : Debt(p, j)' <= Debt(p, j) + IF j = Inum(s) THEN -1 ELSE 0
  <2>1. OwesIp(r) /\ ~OwesDp(r)
    BY <1>0, <1>1 DEF OwesIp, OwesDp, LinkSide, LinkIp
  <2>2. \A j : Debt(p, j)' = 0
    BY <1>15, <1>18, DebtNext DEF OneIf
  <2>3. \A j : Debt(p, j) = IF j = Inum(s) THEN 1 ELSE 0
    BY <1>4, <2>1 DEF Debt, OneIf
  <2>q. QED BY <2>2, <2>3
<1>20. FreshAt(p)' /\ CallAt(p)'
  BY <1>14, <1>15, <1>18, NothingFresh, PlainCall
<1>21. -1 \in Int /\ i.nlink = dinode[Inum(s)].nlink + (-1)
  BY <1>6, <1>7, <1>9
<1>q. QED BY <1>0, <1>6, <1>17, <1>19, <1>20, <1>21, NlinkStep

(* link() counts the link before there is an entry for it. *)
LEMMA LinkIncFileD ==
    ASSUME Before, After, NEW p \in Procs, LinkInc(p), Loaded(proc[p].ip).type # "dir"
    PROVE  DInv'
<1> DEFINE r == proc[p]
<1>0. /\ r.pc = "link" /\ r.pc \notin IputPcs /\ r.pc \notin FreedPcs \cup {"write", "create_dot", "ialloc_iget"}
      /\ r.pc \notin Builds
  BY DEF LinkInc, At, IputPcs, FreedPcs, Builds
<1>1. /\ MInv /\ r \in Records /\ Point(r) = r.pc /\ Put(r, 1) = 0 /\ Put(r, 2) = 0
      /\ Fits(r.n, r.ip, r.dp, r.call.op, r.ino, "link")
      /\ \A s \in {r.n, r.ip, r.dp, cwd[p]} : s # 0 => Owned(p, s) /\ s \in Slots
  BY <1>0, OwnAt
<1>2. r.n = 0 /\ r.ip # 0 /\ r.dp = 0 /\ r.ip \in Slots /\ Owned(p, r.ip)
  BY <1>0, <1>1 DEF Fits, IpPoints, DpPoints, CreateIp, CreateDir, LinkIp
<1>3. icache[r.ip].lock = nullptr /\ panic' = IlockPanics(r.ip)
  BY DEF LinkInc, CanLock
<1>4. PICK s, l : s = r.ip /\ l = Loaded(s)
  OBVIOUS
<1>6. /\ l \in SlotRecords /\ l.inum = Inum(s) /\ l.ref = icache[s].ref /\ l.lock = nullptr /\ l.valid
      /\ s \in Slots /\ Inum(s) \in Inums
      /\ l.type = dinode[Inum(s)].mode /\ l.nlink = dinode[Inum(s)].nlink /\ l.blk = dinode[Inum(s)].blk
      /\ ~panic'
  BY <1>2, <1>3, <1>4, LoadedIs DEF Inum
<1>7. PICK n \in Int : n = l.nlink /\ n + 1 \in Int
  BY <1>6 DEF SlotRecords
<1>8. PICK i : i = [l EXCEPT !.nlink = n + 1]
  OBVIOUS
<1>9. /\ i \in SlotRecords /\ i.inum = Inum(s) /\ i.ref = icache[s].ref /\ i.valid /\ i.lock = nullptr /\ i.nlink = n + 1
      /\ i.type = dinode[Inum(s)].mode /\ i.blk = dinode[Inum(s)].blk
  BY <1>6, <1>7, <1>8, NlinkFields
<1>11. PICK r2 : r2 = [r EXCEPT !.pc = "link_new"]
  OBVIOUS
<1>12. "link_new" \in Points \cup IputPcs /\ "link_new" \notin IputPcs
  BY DEF Points, IpPoints, LinkIp, IputPcs
<1>13. /\ r2.pc = "link_new" /\ r2.n = 0 /\ r2.ip = s /\ r2.dp = 0 /\ Put(r2, 1) = 0 /\ Put(r2, 2) = 0
  BY <1>1, <1>2, <1>4, <1>11, <1>12, GotoFields
<1>14. /\ Point(r2) = "link_new"
       /\ r2.pc \notin Naming \cup FreePcs /\ r2.pc \notin FreedPcs \cup Allocating \cup {"write", "create_dot"}
  BY <1>12, <1>13 DEF Point, Naming, FreePcs, FreedPcs, Allocating, CreateIp, CreateDir
<1>15. OwesIp(r2) /\ ~OwesDp(r2) /\ LinkSide(r2) /\ Point(r2) # "namex"
  BY <1>14 DEF OwesIp, OwesDp, LinkSide, LinkIp
<1>16. /\ Iupdate(i) /\ icache' = [icache EXCEPT ![s] = i] /\ Become(p, r2)
       /\ UNCHANGED <<ibitmap, bbitmap, dents, ftable, ofile, cwd>>
  BY <1>4, <1>7, <1>8, <1>11 DEF LinkInc, SetSlot, Goto
<1>17. NlinkBy(p, s, i, r2)
  BY <1>0, <1>2, <1>3, <1>4, <1>9, <1>13, <1>14, <1>16 DEF NlinkBy
<1>18. proc'[p] = r2 /\ Normal(p)
  BY <1>17, NlinkNormal
<1>19. \A j \in Inums : Debt(p, j)' <= Debt(p, j) + IF j = Inum(s) THEN 1 ELSE 0
  <2>1. Point(r) \in Idle
    BY <1>0, <1>1 DEF Idle
  <2>2. ~OwesIp(r) /\ ~OwesDp(r)
    BY <2>1, IdleOwes
  <2>3. icache'[s].inum = Inum(s)
    BY <1>2, <1>4, <1>18, SlotsStay
  <2>4. \A j : Debt(p, j)' = IF j = Inum(s) THEN 1 ELSE 0
    BY <1>13, <1>15, <1>18, <2>3, DebtNext DEF OneIf
  <2>5. \A j : Debt(p, j) = 0
    BY <2>2 DEF Debt, OneIf
  <2>q. QED BY <2>4, <2>5
<1>20. FreshAt(p)' /\ CallAt(p)'
  <2>1. ~IsDir(Inum(s))
    BY <1>4, <1>6 DEF IsDir
  <2>2. s # 0 /\ Owned(p, s)
    BY <1>2, <1>4
  <2>q. QED BY <1>13, <1>14, <1>15, <1>18, <2>1, <2>2, NothingFresh, PlainCall
<1>21. 1 \in Int /\ i.nlink = dinode[Inum(s)].nlink + 1
  BY <1>6, <1>7, <1>9
<1>q. QED BY <1>0, <1>6, <1>17, <1>19, <1>20, <1>21, NlinkStep

(* The first half of link() keeps the invariant. *)
LEMMA LinkIncD ==
    ASSUME Before, After, NEW p \in Procs, LinkInc(p)
    PROVE  DInv'
BY LinkIncDirD, LinkIncFileD

(* Outside iput() a process has nothing to put and fits its point. *)
NothingWell == MInv => \A p \in Procs : proc[p].pc \notin IputPcs =>
                  /\ Put(proc[p], 1) = 0 /\ Put(proc[p], 2) = 0
                  /\ Fits(proc[p].n, proc[p].ip, proc[p].dp, proc[p].call.op, proc[p].ino, proc[p].pc)

(* Outside iput() a process has nothing to put and fits its point. *)
LEMMA NothingAlways == NothingWell
BY NothingToPut DEF NothingWell

(* The same of the next state. *)
LEMMA NothingNext == NothingWell'
BY NothingAlways, PTL

(* Two slots in use do not cache one inode, as a fact about any state. *)
SlotsWell == MInv => \A s, t \in Slots : Live(s) /\ Live(t) /\ Inum(s) = Inum(t) => s = t

(* Two slots in use do not cache one inode. *)
LEMMA SlotsAlways == SlotsWell
BY SameSlot DEF SlotsWell

(* The same of the next state. *)
LEMMA SlotsNext == SlotsWell'
BY SlotsAlways, PTL

(* A new inode without a name is still its creator's alone. *)
LEMMA StillNew ==
    ASSUME Before, After, NEW p \in Procs, Normal(p), UNCHANGED <<ftable, cwd>>,
           proc[p].pc \in CreateIp \cup {"create_inode"},
           NEW r2, proc'[p] = r2, r2.pc \in CreateIp, r2.ip = proc[p].ip
    PROVE  FreshAt(p)'
<1>0. MInv /\ MInv' /\ FreshOK /\ KeptOK
  BY BeforeParts DEF After
<1>1. r2.pc \notin IputPcs /\ r2.pc # "namex" /\ r2.pc \in IpLocked /\ r2.pc \in IpPoints /\ r2.pc \notin Allocating /\ r2.pc # "create_inode"
  BY DEF CreateIp, CreateDir, IputPcs, IpLocked, IpPoints, Allocating
<1>2. /\ Put(r2, 1) = 0 /\ Put(r2, 2) = 0 /\ r2.n = 0 /\ r2.dp # r2.ip /\ r2.ip # 0
  BY <1>0, <1>1, NothingNext DEF NothingWell, Fits
<1>3. PICK s, i : s = r2.ip /\ i = Inum(s)
  OBVIOUS
<1>4. s \in Slots /\ icache'[s].inum = i /\ s = proc[p].ip /\ s # 0
  BY <1>2, <1>3, SlotsStay
<1>5. Firms(i) \subseteq {<<"ip", p>>}
  BY <1>0, <1>3, <1>4 DEF FreshOK, FreshAt
<1>6. <<"ip", p>> \in Places /\ Holds(<<"ip", p>>)' = s
  BY <1>3, HoldsProc, HoldsNext DEF HoldsWell
<1>7. Live(s)'
  <2>1. Usable(Holds(<<"ip", p>>))'
    BY <1>0, <1>4, <1>6, UsableNext DEF UsableWell
  <2>q. QED BY <1>6, <2>1 DEF Usable, Live
<1>8. ASSUME NEW x \in Firms(i)' PROVE x = <<"ip", p>>
  <2>1. x \in Places /\ Firm(x)' /\ i = Inum(Holds(x))' /\ Holds(x)' # 0
    BY <1>8 DEF Firms, Firm
  <2>2. PICK t : t = Holds(x)'
    OBVIOUS
  <2>3. Usable(Holds(x))'
    BY <1>0, <2>1, UsableNext DEF UsableWell
  <2>4. t \in Slots /\ Live(t)' /\ Inum(t)' = i
    BY <2>1, <2>2, <2>3 DEF Usable, Live, Inum
  <2>5. t = s
    BY <1>0, <1>4, <1>7, <2>4, SlotsNext DEF SlotsWell, Inum
  <2>6. ASSUME Firm(x), Holds(x) = s PROVE x = <<"ip", p>>
    BY <1>3, <1>5, <2>1, <2>6 DEF Firms
  <2>7. CASE \E f \in Files : x = <<"file", f>>
    <3>1. PICK f \in Files : x = <<"file", f>>
      BY <2>7
    <3>2. Holds(x) = ftable[f].ip /\ Holds(x)' = ftable[f].ip /\ (Firm(x) <=> ftable[f].ip # 0)
      BY <3>1, HoldsAlways, HoldsNext, FirmAlways DEF HoldsWell, FirmWell
    <3>q. QED BY <1>4, <2>2, <2>5, <2>6, <3>2
  <2>8. CASE \E q \in Procs : x \in {<<"n", q>>, <<"ip", q>>, <<"dp", q>>, <<"put1", q>>, <<"put2", q>>, <<"cwd", q>>}
    <3>1. PICK q \in Procs : x \in {<<"n", q>>, <<"ip", q>>, <<"dp", q>>, <<"put1", q>>, <<"put2", q>>, <<"cwd", q>>}
      BY <2>8
    <3>2. CASE x = <<"cwd", q>>
      BY <1>4, <2>2, <2>5, <2>6, <3>2, HoldsAlways, HoldsNext, FirmAlways DEF HoldsWell, FirmWell
    <3>3. CASE q = p /\ x # <<"cwd", q>>
      BY <1>2, <1>3, <1>4, <2>2, <2>5, <3>1, <3>3, HoldsNext DEF HoldsWell
    <3>4. CASE q # p /\ x # <<"cwd", q>>
      <4>1. proc'[q] = proc[q]
        BY <3>4 DEF Normal
      <4>2. Holds(x)' = Holds(x)
        <5>1. /\ Holds(<<"n", q>>) = proc[q].n /\ Holds(<<"ip", q>>) = proc[q].ip /\ Holds(<<"dp", q>>) = proc[q].dp
              /\ Holds(<<"put1", q>>) = Put(proc[q], 1) /\ Holds(<<"put2", q>>) = Put(proc[q], 2)
          BY HoldsAlways DEF HoldsWell
        <5>2. /\ Holds(<<"n", q>>)' = proc[q].n /\ Holds(<<"ip", q>>)' = proc[q].ip /\ Holds(<<"dp", q>>)' = proc[q].dp
              /\ Holds(<<"put1", q>>)' = Put(proc[q], 1) /\ Holds(<<"put2", q>>)' = Put(proc[q], 2)
          BY <4>1, HoldsNext DEF HoldsWell
        <5>q. QED BY <3>1, <3>4, <5>1, <5>2
      <4>3. Firm(x)
        BY <2>1, <3>1, <3>4, <4>1, FirmAlways, FirmNext DEF FirmWell
      <4>q. QED BY <2>2, <2>5, <2>6, <4>2, <4>3
    <3>q. QED BY <3>2, <3>3, <3>4
  <2>q. QED BY <2>1, <2>7, <2>8, PlaceKinds
<1>9. (Firms(Inum(r2.ip)) \subseteq {<<"ip", p>>})'
  <2>1. Inum(r2.ip)' = i
    BY <1>3, <1>4 DEF Inum
  <2>q. QED BY <1>8, <2>1
<1>q. QED BY <1>1, <1>9 DEF FreshAt

(* create() of a directory counts the link of the ".." before it writes    *)
(* it.                                                                     *)
LEMMA CreateParentD ==
    ASSUME Before, After, NEW p \in Procs, CreateParent(p)
    PROVE  DInv'
<1> DEFINE r == proc[p]
<1>0. /\ r.pc = "create_parent" /\ r.pc \notin IputPcs /\ r.pc \notin FreedPcs \cup {"write", "create_dot", "ialloc_iget"}
      /\ ~panic' /\ UNCHANGED <<ftable, cwd>> /\ r.pc \in CreateIp /\ r.pc \in Naming
  BY DEF CreateParent, At, IputPcs, FreedPcs, CreateIp, CreateDir, Naming
<1>1. /\ MInv /\ r \in Records /\ Point(r) = r.pc /\ Put(r, 1) = 0 /\ Put(r, 2) = 0 /\ CallAt(p)
      /\ Fits(r.n, r.ip, r.dp, r.call.op, r.ino, "create_parent")
      /\ \A s \in {r.n, r.ip, r.dp, cwd[p]} : s # 0 => Owned(p, s) /\ s \in Slots
  BY <1>0, OwnAt
<1>2. /\ r.n = 0 /\ r.ip # 0 /\ r.ip \in Slots /\ r.dp # 0 /\ r.dp # r.ip /\ r.dp \in Slots /\ Owned(p, r.dp) /\ r.pc \in DpLocked
      /\ r.call.op = "mkdir"
  BY <1>0, <1>1 DEF Fits, IpPoints, DpPoints, CreateIp, CreateDir, DpLocked, IpLocked, OpAt
<1>3. icache[r.dp].lock = p
  BY <1>0, <1>1, <1>2 DEF MInv, LocksOK, Locks, LocksAt
<1>4. PICK s : s = r.dp
  OBVIOUS
<1>5. ~Late(p, s)
  BY <1>0 DEF Late
<1>6. /\ icache[s] \in SlotRecords /\ icache[s].inum = Inum(s) /\ icache[s].valid /\ s \in Slots /\ Inum(s) \in Inums
      /\ icache[s].type = dinode[Inum(s)].mode /\ icache[s].nlink = dinode[Inum(s)].nlink
      /\ icache[s].blk = dinode[Inum(s)].blk
  BY <1>0, <1>2, <1>3, <1>4, <1>5, LockedIs
<1>7. PICK n \in Int : n = icache[s].nlink /\ n + 1 \in Int
  BY <1>6 DEF SlotRecords
<1>8. PICK i : i = [icache[s] EXCEPT !.nlink = n + 1]
  OBVIOUS
<1>9. /\ i \in SlotRecords /\ i.inum = Inum(s) /\ i.ref = icache[s].ref /\ i.valid /\ i.lock = p /\ i.nlink = n + 1
      /\ i.type = dinode[Inum(s)].mode /\ i.blk = dinode[Inum(s)].blk
  BY <1>3, <1>4, <1>6, <1>7, <1>8, NlinkFields
<1>11. PICK r2 : r2 = [r EXCEPT !.pc = "create_block"]
  OBVIOUS
<1>12. "create_block" \in Points \cup IputPcs /\ "create_block" \notin IputPcs /\ "create_block" \in Builds
  BY DEF Points, IpPoints, CreateIp, CreateDir, IputPcs, Builds
<1>13. /\ r2.pc = "create_block" /\ r2.n = 0 /\ r2.ip = r.ip /\ r2.dp = s /\ Put(r2, 1) = 0 /\ Put(r2, 2) = 0 /\ r2.call = r.call
  BY <1>1, <1>2, <1>4, <1>11, <1>12, GotoFields
<1>14. /\ Point(r2) = "create_block" /\ r2.pc \in CreateIp
       /\ r2.pc \notin FreePcs /\ r2.pc \notin FreedPcs \cup Allocating \cup {"write", "create_dot"}
  BY <1>12, <1>13 DEF Point, FreePcs, FreedPcs, Allocating, CreateIp, CreateDir
<1>15. OwesIp(r2) /\ OwesDp(r2) /\ ~LinkSide(r2) /\ Point(r2) # "namex"
  BY <1>14 DEF OwesIp, OwesDp, LinkSide, LinkIp, CreateIp, CreateDir
<1>16. /\ Iupdate(i) /\ icache' = [icache EXCEPT ![s] = i] /\ Become(p, r2)
       /\ UNCHANGED <<ibitmap, bbitmap, dents, ftable, ofile, cwd>>
  BY <1>4, <1>7, <1>8, <1>11 DEF CreateParent, SetSlot, Goto
<1>17. NlinkBy(p, s, i, r2)
  BY <1>0, <1>2, <1>3, <1>4, <1>9, <1>13, <1>14, <1>16 DEF NlinkBy
<1>18. proc'[p] = r2 /\ Normal(p)
  BY <1>17, NlinkNormal
<1>19. \A j \in Inums : Debt(p, j)' <= Debt(p, j) + IF j = Inum(s) THEN 1 ELSE 0
  <2>1. OwesIp(r) /\ ~OwesDp(r)
    BY <1>0, <1>1 DEF OwesIp, OwesDp
  <2>2. icache'[r.ip].inum = Inum(r.ip) /\ icache'[s].inum = Inum(s)
    BY <1>2, <1>4, <1>18, SlotsStay
  <2>3. \A j : Debt(p, j)' = (IF j = Inum(r.ip) THEN 1 ELSE 0) + (IF j = Inum(s) THEN 1 ELSE 0)
    BY <1>13, <1>15, <1>18, <2>2, DebtNext DEF OneIf
  <2>4. \A j : Debt(p, j) = IF j = Inum(r.ip) THEN 1 ELSE 0
    BY <1>4, <2>1 DEF Debt, OneIf
  <2>q. QED BY <2>3, <2>4
<1>20. FreshAt(p)'
  BY <1>0, <1>13, <1>14, <1>18, StillNew
<1>21. CallAt(p)'
  <2>1. icache'[r.ip] = icache[r.ip]
    BY <1>1, <1>2, <1>4, <1>16 DEF MInv, MemTypes
  <2>2. icache[r.ip].nlink = 1 /\ icache[r.ip].type = TypeOf(r.call.op) /\ icache[r.ip].blk = 0
    BY <1>0, <1>1 DEF CallAt
  <2>3. CallEnd(r2)'
    BY <1>13, <2>1, <2>2 DEF CallEnd
  <2>4. LastOf(r2) \in Names /\ IsDir(Inum(r2.dp)) /\ Owned(p, r2.dp)
    BY <1>0, <1>1, <1>2, <1>4, <1>13 DEF CallAt, LastOf
  <2>q. QED BY <1>15, <1>18, <2>3, <2>4, CallFrom
<1>22. 1 \in Int /\ i.nlink = dinode[Inum(s)].nlink + 1
  BY <1>6, <1>7, <1>9
<1>23. r2.pc \in Builds /\ r2.ip = r.ip
  BY <1>12, <1>13
<1>q. QED BY <1>0, <1>17, <1>19, <1>20, <1>21, <1>22, <1>23, NlinkStep

(* create() locks the new inode and writes its type and its first link,    *)
(* which is owed until the entry is written.                               *)
LEMMA CreateInodeD ==
    ASSUME Before, After, NEW p \in Procs, CreateInode(p)
    PROVE  DInv'
<1> DEFINE r == proc[p]
<1>0. /\ r.pc = "create_inode" /\ r.pc \notin IputPcs /\ r.pc \notin FreedPcs \cup {"write", "create_dot", "ialloc_iget"}
      /\ UNCHANGED <<ftable, cwd>> /\ r.pc \in Naming
  BY DEF CreateInode, At, IputPcs, FreedPcs, CreateIp, CreateDir, Naming
<1>1. /\ MInv /\ r \in Records /\ Point(r) = r.pc /\ Put(r, 1) = 0 /\ Put(r, 2) = 0 /\ CallAt(p)
      /\ Fits(r.n, r.ip, r.dp, r.call.op, r.ino, "create_inode")
      /\ \A s \in {r.n, r.ip, r.dp, cwd[p]} : s # 0 => Owned(p, s) /\ s \in Slots
      /\ FreshAt(p)
  BY <1>0, OwnAt, BeforeParts DEF FreshOK
<1>2. /\ r.n = 0 /\ r.ip # 0 /\ r.ip \in Slots /\ Owned(p, r.ip) /\ r.dp # 0 /\ r.dp \in Slots /\ Owned(p, r.dp)
  BY <1>0, <1>1 DEF Fits, IpPoints, DpPoints
<1>3. icache[r.ip].lock = nullptr /\ panic' = IlockPanics(r.ip)
  BY DEF CreateInode, CanLock
<1>4. PICK s, l : s = r.ip /\ l = Loaded(s)
  OBVIOUS
<1>6. /\ l \in SlotRecords /\ l.inum = Inum(s) /\ l.ref = icache[s].ref /\ l.valid
      /\ s \in Slots /\ Inum(s) \in Inums
      /\ l.type = dinode[Inum(s)].mode /\ l.nlink = dinode[Inum(s)].nlink /\ l.blk = dinode[Inum(s)].blk
      /\ ~panic'
  BY <1>2, <1>3, <1>4, LoadedIs DEF Inum
<1>7. PICK ty \in Types : ty = TypeOf(r.call.op)
  BY DEF TypeOf, Types
<1>8. dinode[Inum(s)].nlink = 0 /\ dinode[Inum(s)].blk = 0 /\ dinode[Inum(s)].mode = ty
  BY <1>0, <1>1, <1>4, <1>7 DEF FreshAt, Fresh, Blank
<1>9. PICK i1, i2, i : i1 = [l EXCEPT !.lock = p] /\ i2 = [i1 EXCEPT !.type = ty] /\ i = [i2 EXCEPT !.nlink = 1]
  OBVIOUS
<1>10. /\ i1 \in SlotRecords /\ i1.inum = Inum(s) /\ i1.ref = icache[s].ref /\ i1.valid /\ i1.lock = p /\ i1.blk = 0
  BY <1>6, <1>8, <1>9, LockFields
<1>11. /\ i2 \in SlotRecords /\ i2.inum = Inum(s) /\ i2.ref = icache[s].ref /\ i2.valid /\ i2.lock = p /\ i2.blk = 0
       /\ i2.type = ty
  BY <1>9, <1>10, TypeFields
<1>12. /\ i \in SlotRecords /\ i.inum = Inum(s) /\ i.ref = icache[s].ref /\ i.valid /\ i.lock = p /\ i.blk = 0
       /\ i.type = ty /\ i.nlink = 1
  <2>1. PICK n \in Int : n = 1
    OBVIOUS
  <2>2. i = [i2 EXCEPT !.nlink = n]
    BY <1>9, <2>1
  <2>q. QED BY <1>11, <2>1, <2>2, NlinkFields
<1>13. i = [Locked(s, p) EXCEPT !.type = TypeOf(r.call.op), !.nlink = 1]
  BY <1>4, <1>7, <1>9 DEF Locked
<1>14. PICK pc : pc = IF ty = "dir" THEN "create_parent" ELSE "create_link"
  OBVIOUS
<1>15. pc \in Points \cup IputPcs /\ pc \notin IputPcs /\ pc \in CreateIp
       /\ pc \notin FreePcs /\ pc \notin FreedPcs \cup Allocating \cup {"write", "create_dot"}
  BY <1>14 DEF Points, IpPoints, CreateIp, CreateDir, IputPcs, FreePcs, FreedPcs, Allocating
<1>16. PICK r2 : r2 = [r EXCEPT !.pc = pc]
  OBVIOUS
<1>17. /\ r2.pc = pc /\ r2.n = 0 /\ r2.ip = s /\ r2.dp = r.dp /\ Put(r2, 1) = 0 /\ Put(r2, 2) = 0 /\ r2.call = r.call
  BY <1>1, <1>2, <1>4, <1>15, <1>16, GotoFields
<1>18. Point(r2) = pc
  BY <1>15, <1>17 DEF Point
<1>19. /\ Iupdate(i) /\ icache' = [icache EXCEPT ![s] = i] /\ Become(p, r2)
       /\ UNCHANGED <<ibitmap, bbitmap, dents, ftable, ofile, cwd>>
  BY <1>4, <1>7, <1>12, <1>13, <1>14, <1>16 DEF CreateInode, SetSlot, Goto
<1>20. NlinkBy(p, s, i, r2)
  BY <1>0, <1>2, <1>3, <1>4, <1>8, <1>12, <1>15, <1>17, <1>19 DEF NlinkBy
<1>21. proc'[p] = r2 /\ Normal(p)
  BY <1>20, NlinkNormal
<1>22. OwesIp(r2) /\ ~OwesDp(r2) /\ ~LinkSide(r2) /\ Point(r2) # "namex"
  <2>1. ty # "dir" => r2.call.op # "mkdir"
    BY <1>7, <1>17 DEF TypeOf
  <2>2. pc = "create_parent" \/ (pc = "create_link" /\ ty # "dir")
    BY <1>14
  <2>q. QED BY <1>15, <1>18, <2>1, <2>2 DEF OwesIp, OwesDp, LinkSide, LinkIp
<1>23. \A j \in Inums : Debt(p, j)' <= Debt(p, j) + IF j = Inum(s) THEN 1 ELSE 0
  <2>1. ~OwesIp(r) /\ ~OwesDp(r)
    BY <1>0, <1>1, IdleOwes DEF Idle
  <2>2. icache'[s].inum = Inum(s)
    BY <1>2, <1>4, <1>21, SlotsStay
  <2>3. \A j : Debt(p, j)' = IF j = Inum(s) THEN 1 ELSE 0
    BY <1>17, <1>22, <1>21, <2>2, DebtNext DEF OneIf
  <2>4. \A j : Debt(p, j) = 0
    BY <2>1 DEF Debt, OneIf
  <2>q. QED BY <2>3, <2>4
<1>24. FreshAt(p)'
  BY <1>0, <1>4, <1>15, <1>17, <1>21, StillNew
<1>25. CallAt(p)'
  <2>1. icache'[s] = i
    BY <1>1, <1>6, <1>19 DEF MInv, MemTypes
  <2>3. CallEnd(r2)'
    <3>1. ~(r2.pc = "create_link" /\ r2.call.op = "mkdir") /\ r2.pc # "create_dotdot" /\ r2.pc # "unlink_ip"
      BY <1>7, <1>14, <1>17 DEF TypeOf
    <3>q. QED BY <1>7, <1>12, <1>17, <2>1, <3>1 DEF CallEnd
  <2>4. LastOf(r2) \in Names /\ IsDir(Inum(r2.dp)) /\ Owned(p, r2.dp)
    BY <1>0, <1>1, <1>2, <1>17 DEF CallAt, LastOf
  <2>q. QED BY <1>22, <1>21, <2>3, <2>4, CallFrom
<1>26. 1 \in Int /\ i.nlink = dinode[Inum(s)].nlink + 1
  BY <1>8, <1>12
<1>27. (r2.pc \in Builds /\ r2.ip = r.ip) \/ ~IsDir(Inum(r.ip))
  BY <1>4, <1>8, <1>14, <1>17 DEF Builds, IsDir
<1>q. QED BY <1>6, <1>20, <1>23, <1>24, <1>25, <1>26, <1>27, NlinkStep

(* The entries after a step that writes at most a directory's own ".". *)
LEMMA LinksSameButDot ==
    ASSUME Before, After, NEW p \in Procs, Normal(p),
           \A d \in Inums : \A n \in DirNames \ {"."} : dents'[d][n] = dents[d][n]
    PROVE  /\ \A i : LN(i)' = LN(i) /\ LL(i)' = LL(i)
           /\ \A i : i \in LD' <=> i \in LD
           /\ DirsOK'
<1>0. DiskTypes /\ DirsOK /\ ibitmap' = ibitmap /\ \A i \in Inums : dinode'[i].mode = dinode[i].mode
  BY BeforeParts DEF Normal, Disked
<1>1. \A d \in ibitmap : (IsDir(d)' <=> IsDir(d)) /\ d \in Inums
  BY <1>0 DEF IsDir, DiskTypes
<1>2. DirsOf(Disk)' = DirsOf(Disk) /\ DirsOf(Disk) \subseteq Inums
  <2>1. DirsOf(Disk) = {d \in ibitmap : IsDir(d)} /\ DirsOf(Disk)' = {d \in ibitmap' : IsDir(d)'}
    BY LinksAlways, LinksNext DEF LinksWell
  <2>q. QED BY <1>0, <1>1, <2>1
<1>3. Disk.dents = dents /\ Disk'.dents = dents'
  BY DEF Disk
<1>3a. Names \subseteq DirNames \ {"."} /\ ".." \in DirNames \ {"."}
  BY Ext2Assumption DEF DirNames
<1>4. ASSUME NEW i PROVE NamesOf(Disk, i)' = NamesOf(Disk, i)
  <2>1. \A e \in DirsOf(Disk) \X Names : dents'[e[1]][e[2]] = dents[e[1]][e[2]]
    BY <1>2, <1>3a
  <2>q. QED BY <1>2, <1>3, <2>1 DEF NamesOf
<1>5. LinkedDirsOf(Disk)' = LinkedDirsOf(Disk) /\ LinkedDirsOf(Disk) \subseteq Inums
  BY <1>2, <1>4 DEF LinkedDirsOf
<1>6. ASSUME NEW i PROVE LinksOf(Disk, i)' = LinksOf(Disk, i)
  <2>1. \A e \in LinkedDirsOf(Disk) \X {".."} : dents'[e[1]][".."] = dents[e[1]][".."]
    BY <1>3a, <1>5
  <2>q. QED BY <1>3, <1>4, <1>5, <2>1 DEF LinksOf
<1>7. DirsOK'
  <2>1. \A d \in DirsOf(Disk) \cup {EXT2INO} : dents'[d][".."] = dents[d][".."]
    BY <1>2, <1>3a, Ext2Assumption
  <2>q. QED BY <1>0, <1>1, <1>2, <1>4, <2>1, Ext2Assumption DEF DirsOK
<1>q. QED BY <1>4, <1>5, <1>6, <1>7 DEF LN, LL, LD

(* A step that changes no link count and no name. *)
LEMMA NoLinkStep ==
    ASSUME Before, After, NEW p \in Procs, NEW r2, proc'[p] = r2, Normal(p),
           \A d \in Inums : \A n \in DirNames \ {"."} : dents'[d][n] = dents[d][n],
           \A j \in Inums : dinode'[j].nlink = dinode[j].nlink,
           \A j \in Inums : Debt(p, j)' <= Debt(p, j) + 0,
           proc[p].pc # "ialloc_iget",
           \A i \in ibitmap : dents[i]["."] = i => dents'[i]["."] = i,
           \A i \in ibitmap : proc[p].pc \in Builds /\ Inum(proc[p].ip) = i /\ IsDir(i)
                              => dents'[i]["."] = i \/ Building(i)',
           WritesOK', FreeAt(p)', FreshAt(p)', CallAt(p)', BlocksOK', ~panic'
    PROVE  DInv'
<1>1. DiskTypes /\ DiskTypes' /\ MInv
  BY BeforeParts DEF After
<1>2. DirsOK' /\ \A j : LN(j)' = LN(j) /\ LL(j)' = LL(j) /\ (j \in LD' <=> j \in LD)
  BY LinksSameButDot
<1>3. CountOK'
  <2>1. ASSUME NEW j \in Inums
        PROVE  dinode'[j].nlink - Cardinality(LL(j)') - Debt(p, j)' >= dinode[j].nlink - Cardinality(LL(j)) - Debt(p, j)
    <3>1. LL(j)' \subseteq LL(j)
      BY <1>2
    <3>2. Cardinality(LL(j)') <= Cardinality(LL(j)) + 0
      BY <1>1, <3>1, LinksCount
    <3>3. dinode'[j].nlink >= dinode[j].nlink + (0 + 0)
      <4>1. dinode[j].nlink \in Int /\ dinode'[j].nlink = dinode[j].nlink
        BY <1>1 DEF DiskTypes, Entries
      <4>q. QED BY <4>1
    <3>q. QED BY <1>1, <3>2, <3>3, CountHere
  <2>2. ibitmap \subseteq Inums
    BY <1>1 DEF DiskTypes
  <2>q. QED BY <2>1, <2>2, CountStep
<1>4. SelfOK'
  BY <1>2, SelfStep
<1>q. QED BY <1>2, <1>3, <1>4, NormalStep

(* balloc() of a new directory's block: marked first, written to the inode *)
(* later.                                                                  *)
LEMMA CreateBlockD ==
    ASSUME Before, After, NEW p \in Procs, CreateBlock(p)
    PROVE  DInv'
<1> DEFINE r == proc[p]
<1>0. /\ r.pc = "create_block" /\ r.pc \notin IputPcs /\ r.pc \notin FreedPcs \cup {"write", "create_dot", "ialloc_iget"}
      /\ ~panic' /\ UNCHANGED <<ibitmap, dinode, dents, ftable, ofile, cwd>> /\ r.pc \in CreateIp /\ r.pc \in Naming
  BY DEF CreateBlock, At, IputPcs, FreedPcs, CreateIp, CreateDir, Naming
<1>1. /\ MInv /\ DiskTypes /\ r \in Records /\ Point(r) = r.pc /\ Put(r, 1) = 0 /\ Put(r, 2) = 0 /\ CallAt(p)
      /\ Fits(r.n, r.ip, r.dp, r.call.op, r.ino, "create_block")
      /\ \A s \in {r.n, r.ip, r.dp, cwd[p]} : s # 0 => Owned(p, s) /\ s \in Slots
      /\ nullptr \notin Procs
  BY <1>0, OwnAt
<1>2. /\ r.n = 0 /\ r.ip # 0 /\ r.ip \in Slots /\ Owned(p, r.ip) /\ r.dp # 0 /\ Owned(p, r.dp) /\ r.pc \in IpLocked
  BY <1>0, <1>1 DEF Fits, IpPoints, DpPoints, CreateIp, CreateDir, IpLocked
<1>3. icache[r.ip].lock = p
  BY <1>0, <1>1, <1>2 DEF MInv, LocksOK, Locks, LocksAt
<1>4. PICK s : s = r.ip
  OBVIOUS
<1>5. ~Late(p, s)
  BY <1>0 DEF Late
<1>6. /\ icache[s] \in SlotRecords /\ icache[s].inum = Inum(s) /\ icache[s].valid /\ s \in Slots /\ Inum(s) \in Inums
      /\ Inum(s) \in ibitmap /\ Live(s) /\ icache[s].type # "none"
      /\ icache[s].type = dinode[Inum(s)].mode /\ icache[s].nlink = dinode[Inum(s)].nlink
      /\ icache[s].blk = dinode[Inum(s)].blk
  BY <1>0, <1>2, <1>3, <1>4, <1>5, LockedIs
<1>7. icache[s].nlink = 1 /\ icache[s].type = TypeOf(r.call.op) /\ icache[s].blk = 0
  BY <1>0, <1>1, <1>4 DEF CallAt
<1>8. PICK b : b \in FreeBlocks /\ bbitmap' = bbitmap \cup {b} /\ icache' = [icache EXCEPT ![s].blk = b]
  BY <1>4 DEF CreateBlock, Balloc
<1>9. PICK i : i = [icache[s] EXCEPT !.blk = b]
  OBVIOUS
<1>10. /\ i.inum = Inum(s) /\ i.valid /\ i.lock = p /\ i.nlink = 1 /\ i.type = icache[s].type /\ i.blk = b
  <2>1. b \in Blocks \cup {0}
    BY <1>8 DEF FreeBlocks
  <2>q. QED BY <1>3, <1>4, <1>6, <1>7, <1>9, <2>1, BlkFields
<1>11. icache'[s] = i /\ \A t \in Slots \ {s} : icache'[t] = icache[t]
  BY <1>1, <1>6, <1>8, <1>9 DEF MInv, MemTypes
<1>12. PICK r2 : r2 = [r EXCEPT !.pc = "create_dot"]
  OBVIOUS
<1>13. "create_dot" \in Points \cup IputPcs /\ "create_dot" \notin IputPcs /\ "create_dot" \in Builds
  BY DEF Points, IpPoints, CreateIp, CreateDir, IputPcs, Builds
<1>14. /\ r2.pc = "create_dot" /\ r2.n = 0 /\ r2.ip = s /\ r2.dp = r.dp /\ Put(r2, 1) = 0 /\ Put(r2, 2) = 0 /\ r2.call = r.call
  BY <1>1, <1>2, <1>4, <1>12, <1>13, GotoFields
<1>15. /\ Point(r2) = "create_dot" /\ r2.pc \in CreateIp
       /\ r2.pc \notin FreePcs /\ r2.pc \notin FreedPcs \cup Allocating
  BY <1>13, <1>14 DEF Point, FreePcs, FreedPcs, Allocating, CreateIp, CreateDir
<1>16. Become(p, r2)
  BY <1>12 DEF CreateBlock, Goto
<1>17. proc'[p] = r2
  BY <1>1, <1>16 DEF Become, MInv, Shapes
<1>18. Late(p, s)' /\ \A t \in Slots \ {s} : ~Late(p, t) /\ ~Late(p, t)'
  BY <1>0, <1>10, <1>11, <1>14, <1>17 DEF Late
<1>19. WroteCell(p, s)
  <2>1. dinode'[Inum(s)] = dinode[Inum(s)] /\ ibitmap' = ibitmap
    BY <1>0
  <2>2. /\ Owned(p, s) /\ icache[s].lock \in {p, nullptr} /\ icache'[s].lock \in {p, nullptr}
        /\ icache'[s].inum = Inum(s) /\ Inum(s) \in ibitmap' /\ icache'[s].valid /\ icache'[s].type # "none"
    BY <1>2, <1>3, <1>4, <1>6, <1>10, <1>11, <2>1
  <2>3. /\ dinode'[Inum(s)].mode = icache'[s].type /\ dinode'[Inum(s)].nlink = icache'[s].nlink
        /\ dinode'[Inum(s)].blk = IF Late(p, s)' THEN 0 ELSE icache'[s].blk
    BY <1>6, <1>7, <1>10, <1>11, <1>18, <2>1
  <2>q. QED BY <1>1, <1>6, <2>2, <2>3, WroteBy
<1>20. \A t \in Slots : Cell(p, t)
  <2>1. Cell(p, s)
    BY <1>6, <1>19 DEF Cell
  <2>q. QED BY <1>11, <1>18, <2>1, CellsLeft
<1>21. Disked(p)
  BY <1>0 DEF Disked
<1>22. Normal(p) /\ WritesOK' /\ FreeAt(p)'
  BY <1>0, <1>4, <1>14, <1>15, <1>16, <1>20, <1>21, WriterNormal
<1>23. BlocksOK'
  BY <1>0, <1>6, <1>8, <1>10, <1>11, <1>22, BlocksNew
<1>24. OwesIp(r2) /\ OwesDp(r2) /\ ~LinkSide(r2) /\ Point(r2) # "namex" /\ OwesIp(r) /\ OwesDp(r)
  BY <1>0, <1>1, <1>15 DEF OwesIp, OwesDp, LinkSide, LinkIp, CreateIp, CreateDir
<1>25. \A j \in Inums : Debt(p, j)' <= Debt(p, j) + 0
  <2>2. icache'[s].inum = Inum(s) /\ icache'[r.dp].inum = Inum(r.dp)
    BY <1>2, <1>4, <1>22, SlotsStay
  <2>3. \A j : Debt(p, j)' = (IF j = Inum(s) THEN 1 ELSE 0) + (IF j = Inum(r.dp) THEN 1 ELSE 0)
    BY <1>14, <1>24, <1>17, <2>2, DebtNext DEF OneIf
  <2>4. \A j : Debt(p, j) = (IF j = Inum(s) THEN 1 ELSE 0) + (IF j = Inum(r.dp) THEN 1 ELSE 0)
    BY <1>4, <1>24 DEF Debt, OneIf
  <2>q. QED BY <2>3, <2>4
<1>26. FreshAt(p)'
  BY <1>0, <1>4, <1>14, <1>15, <1>17, <1>22, StillNew
<1>27. CallAt(p)'
  <2>3. CallEnd(r2)'
    BY <1>7, <1>10, <1>11, <1>14 DEF CallEnd
  <2>4. LastOf(r2) \in Names /\ IsDir(Inum(r2.dp)) /\ Owned(p, r2.dp)
    BY <1>0, <1>1, <1>2, <1>4, <1>14 DEF CallAt, LastOf
  <2>q. QED BY <1>17, <1>22, <1>24, <2>3, <2>4, CallFrom
<1>28. \A j \in ibitmap : Inum(r.ip) = j => Building(j)'
  BY <1>4, <1>10, <1>11, <1>14, <1>17 DEF Building, Inum
<1>q. QED BY <1>0, <1>17, <1>22, <1>23, <1>25, <1>26, <1>27, <1>28, NoLinkStep

(* create() writes "." and then the inode with its new block. *)
LEMMA CreateDotD ==
    ASSUME Before, After, NEW p \in Procs, CreateDot(p)
    PROVE  DInv'
<1> DEFINE r == proc[p]
<1>0. /\ r.pc = "create_dot" /\ r.pc \notin IputPcs /\ r.pc \notin FreedPcs \cup {"write", "ialloc_iget"}
      /\ ~panic' /\ UNCHANGED <<ibitmap, bbitmap, icache, ftable, ofile, cwd>> /\ r.pc \in CreateIp /\ r.pc \in Naming
  BY DEF CreateDot, At, IputPcs, FreedPcs, CreateIp, CreateDir, Naming
<1>1. /\ MInv /\ DiskTypes /\ r \in Records /\ Point(r) = r.pc /\ Put(r, 1) = 0 /\ Put(r, 2) = 0 /\ CallAt(p)
      /\ Fits(r.n, r.ip, r.dp, r.call.op, r.ino, "create_dot")
      /\ \A s \in {r.n, r.ip, r.dp, cwd[p]} : s # 0 => Owned(p, s) /\ s \in Slots
      /\ nullptr \notin Procs
  BY <1>0, OwnAt
<1>2. /\ r.n = 0 /\ r.ip # 0 /\ r.ip \in Slots /\ Owned(p, r.ip) /\ r.dp # 0 /\ Owned(p, r.dp) /\ r.pc \in IpLocked
  BY <1>0, <1>1 DEF Fits, IpPoints, DpPoints, CreateIp, CreateDir, IpLocked
<1>3. icache[r.ip].lock = p
  BY <1>0, <1>1, <1>2 DEF MInv, LocksOK, Locks, LocksAt
<1>4. PICK s, k : s = r.ip /\ k = Inum(s)
  OBVIOUS
<1>6. /\ icache[s] \in SlotRecords /\ icache[s].inum = k /\ icache[s].valid /\ s \in Slots /\ k \in Inums
      /\ k \in ibitmap /\ Live(s) /\ icache[s].type # "none"
      /\ icache[s].type = dinode[k].mode /\ icache[s].nlink = dinode[k].nlink
  BY <1>0, <1>2, <1>3, <1>4, LockedIs
<1>7. icache[s].nlink = 1 /\ icache[s].type = TypeOf(r.call.op)
  BY <1>0, <1>1, <1>4 DEF CallAt
<1>8. dents' = [dents EXCEPT ![k]["."] = k] /\ Iupdate(icache[s])
  BY <1>4 DEF CreateDot, Inum
<1>9. /\ dinode'[k].mode = icache[s].type /\ dinode'[k].nlink = icache[s].nlink /\ dinode'[k].blk = icache[s].blk
      /\ \A j \in Inums \ {k} : dinode'[j] = dinode[j]
  BY <1>1, <1>6, <1>8, IupdateIs
<1>10. /\ \A d \in Inums : \A n \in DirNames \ {"."} : dents'[d][n] = dents[d][n]
       /\ \A d \in Inums \ {k} : dents'[d] = dents[d]
       /\ dents'[k]["."] = k
  <2>1. dents \in [Inums -> [DirNames -> Inums \cup {0}]] /\ "." \in DirNames
    BY <1>1 DEF DiskTypes, DirNames
  <2>q. QED BY <1>6, <1>8, <2>1
<1>12. PICK r2 : r2 = [r EXCEPT !.pc = "create_dotdot"]
  OBVIOUS
<1>13. "create_dotdot" \in Points \cup IputPcs /\ "create_dotdot" \notin IputPcs
  BY DEF Points, IpPoints, CreateIp, CreateDir, IputPcs
<1>14. /\ r2.pc = "create_dotdot" /\ r2.n = 0 /\ r2.ip = s /\ r2.dp = r.dp /\ Put(r2, 1) = 0 /\ Put(r2, 2) = 0 /\ r2.call = r.call
  BY <1>1, <1>2, <1>4, <1>12, <1>13, GotoFields
<1>15. /\ Point(r2) = "create_dotdot" /\ r2.pc \in CreateIp
       /\ r2.pc \notin FreePcs /\ r2.pc \notin FreedPcs \cup Allocating
  BY <1>13, <1>14 DEF Point, FreePcs, FreedPcs, Allocating, CreateIp, CreateDir
<1>16. Become(p, r2)
  BY <1>12 DEF CreateDot, Goto
<1>17. proc'[p] = r2
  BY <1>1, <1>16 DEF Become, MInv, Shapes
<1>18. ~Late(p, s)' /\ \A t \in Slots \ {s} : ~Late(p, t) /\ ~Late(p, t)'
  BY <1>0, <1>4, <1>14, <1>17 DEF Late
<1>19. WroteCell(p, s)
  <2>2. /\ Owned(p, s) /\ icache[s].lock \in {p, nullptr} /\ icache'[s].lock \in {p, nullptr}
        /\ icache'[s].inum = Inum(s) /\ Inum(s) \in ibitmap' /\ icache'[s].valid /\ icache'[s].type # "none"
    BY <1>0, <1>2, <1>3, <1>4, <1>6
  <2>3. /\ dinode'[Inum(s)].mode = icache'[s].type /\ dinode'[Inum(s)].nlink = icache'[s].nlink
        /\ dinode'[Inum(s)].blk = IF Late(p, s)' THEN 0 ELSE icache'[s].blk
    BY <1>0, <1>4, <1>9, <1>18
  <2>q. QED BY <1>1, <1>6, <2>2, <2>3, WroteBy
<1>20. \A t \in Slots : Cell(p, t)
  <2>1. Cell(p, s)
    BY <1>6, <1>19 DEF Cell
  <2>q. QED BY <1>0, <1>18, <2>1, CellsLeft
<1>21. Disked(p)
  <2>1. \A i \in Inums : dinode'[i].mode = dinode[i].mode
    BY <1>6, <1>9
  <2>2. \A i \in Inums : dinode'[i] # dinode[i] \/ dents'[i] # dents[i] => i = Inum(s)
    BY <1>4, <1>9, <1>10
  <2>3. Owned(p, s) /\ icache[s].lock \in {p, nullptr}
    BY <1>2, <1>3, <1>4
  <2>q. QED BY <1>0, <1>6, <1>19, <2>1, <2>2, <2>3 DEF Disked
<1>22. Normal(p) /\ WritesOK' /\ FreeAt(p)'
  BY <1>0, <1>4, <1>14, <1>15, <1>16, <1>20, <1>21, WriterNormal
<1>23. BlocksOK'
  <2>1. \A j \in ibitmap : Owner(j, dinode'[j].blk)
    <3>1. ibitmap \subseteq Inums
      BY <1>1 DEF DiskTypes
    <3>2. Owner(k, dinode'[k].blk)
      BY <1>4, <1>6, <1>9 DEF Owner
    <3>q. QED BY <1>9, <3>1, <3>2 DEF Owner
  <2>q. QED BY <1>0, <1>22, <2>1, BlocksKept
<1>24. OwesIp(r2) /\ OwesDp(r2) /\ ~LinkSide(r2) /\ Point(r2) # "namex" /\ OwesIp(r) /\ OwesDp(r)
  BY <1>0, <1>1, <1>15 DEF OwesIp, OwesDp, LinkSide, LinkIp, CreateIp, CreateDir
<1>25. \A j \in Inums : Debt(p, j)' <= Debt(p, j) + 0
  <2>2. icache'[s].inum = Inum(s) /\ icache'[r.dp].inum = Inum(r.dp)
    BY <1>2, <1>4, <1>22, SlotsStay
  <2>3. \A j : Debt(p, j)' = (IF j = Inum(s) THEN 1 ELSE 0) + (IF j = Inum(r.dp) THEN 1 ELSE 0)
    BY <1>14, <1>24, <1>17, <2>2, DebtNext DEF OneIf
  <2>4. \A j : Debt(p, j) = (IF j = Inum(s) THEN 1 ELSE 0) + (IF j = Inum(r.dp) THEN 1 ELSE 0)
    BY <1>4, <1>24 DEF Debt, OneIf
  <2>q. QED BY <2>3, <2>4
<1>26. FreshAt(p)'
  BY <1>0, <1>4, <1>14, <1>15, <1>17, <1>22, StillNew
<1>27. CallAt(p)'
  <2>3. CallEnd(r2)'
    <3>1. Inum(r2.ip)' = k
      BY <1>0, <1>4, <1>14 DEF Inum
    <3>q. QED BY <1>0, <1>7, <1>10, <1>14, <3>1 DEF CallEnd
  <2>4. LastOf(r2) \in Names /\ IsDir(Inum(r2.dp)) /\ Owned(p, r2.dp)
    BY <1>0, <1>1, <1>2, <1>4, <1>14 DEF CallAt, LastOf
  <2>q. QED BY <1>17, <1>22, <1>24, <2>3, <2>4, CallFrom
<1>28. /\ \A i \in ibitmap : dents[i]["."] = i => dents'[i]["."] = i
       /\ \A i \in ibitmap : Inum(r.ip) = i => dents'[i]["."] = i
  BY <1>1, <1>4, <1>10 DEF DiskTypes
<1>29. \A j \in Inums : dinode'[j].nlink = dinode[j].nlink
  BY <1>6, <1>9
<1>q. QED BY <1>0, <1>10, <1>17, <1>22, <1>23, <1>25, <1>26, <1>27, <1>28, <1>29, NoLinkStep

(* file_write() writes the inode with the block that it has allocated. *)
LEMMA WriteUpdateD ==
    ASSUME Before, After, NEW p \in Procs, WriteUpdate(p)
    PROVE  DInv'
<1> DEFINE r == proc[p]
<1>0. /\ r.pc = "write" /\ r.pc \notin IputPcs /\ r.pc \notin FreedPcs \cup {"create_dot", "ialloc_iget"}
      /\ ~panic' /\ UNCHANGED <<ibitmap, bbitmap, dents, ftable, ofile, cwd>> /\ r.pc \notin Builds
  BY DEF WriteUpdate, At, IputPcs, FreedPcs, Builds
<1>1. /\ MInv /\ DiskTypes /\ r \in Records /\ Point(r) = r.pc /\ WritesOK
      /\ nullptr \notin Procs
  BY <1>0, OwnAt, BeforeParts
<1>2. PICK s \in Slots : icache[s].lock = p /\ Iupdate(icache[s]) /\ SetSlot(s, Unlocked(icache[s]))
  BY DEF WriteUpdate
<1>3. Owned(p, s)
  BY <1>0, <1>1, <1>2, LockedUsable
<1>4. PICK k : k = Inum(s)
  OBVIOUS
<1>6. /\ icache[s] \in SlotRecords /\ icache[s].inum = k /\ icache[s].valid /\ s \in Slots /\ k \in Inums
      /\ k \in ibitmap /\ Live(s) /\ icache[s].type # "none"
      /\ icache[s].type = dinode[k].mode /\ icache[s].nlink = dinode[k].nlink
  BY <1>0, <1>2, <1>3, <1>4, LockedIs
<1>9. /\ dinode'[k].mode = icache[s].type /\ dinode'[k].nlink = icache[s].nlink /\ dinode'[k].blk = icache[s].blk
      /\ \A j \in Inums \ {k} : dinode'[j] = dinode[j]
  BY <1>1, <1>2, <1>6, IupdateIs
<1>10. PICK v : v = Unlocked(icache[s])
  OBVIOUS
<1>11. /\ v.inum = k /\ v.valid /\ v.type = icache[s].type /\ v.nlink = icache[s].nlink /\ v.blk = icache[s].blk /\ v.lock = nullptr
  BY <1>6, <1>10, LockFields DEF Unlocked
<1>12. icache'[s] = v /\ \A t \in Slots \ {s} : icache'[t] = icache[t]
  BY <1>1, <1>2, <1>10 DEF MInv, MemTypes, SetSlot
<1>13. \A t \in Slots \ {s} : icache[t].lock # p
  BY <1>0, <1>1, <1>2 DEF MInv, LocksOK
<1>16. Become(p, User)
  BY DEF WriteUpdate
<1>17. proc'[p] = User
  BY <1>1, <1>16 DEF Become, MInv, Shapes
<1>18. ~Late(p, s)' /\ \A t \in Slots \ {s} : ~Late(p, t) /\ ~Late(p, t)'
  BY <1>1, <1>11, <1>12, <1>13 DEF Late
<1>19. WroteCell(p, s)
  <2>2. /\ Owned(p, s) /\ icache[s].lock \in {p, nullptr} /\ icache'[s].lock \in {p, nullptr}
        /\ icache'[s].inum = Inum(s) /\ Inum(s) \in ibitmap' /\ icache'[s].valid /\ icache'[s].type # "none"
    BY <1>0, <1>2, <1>3, <1>4, <1>6, <1>11, <1>12
  <2>3. /\ dinode'[Inum(s)].mode = icache'[s].type /\ dinode'[Inum(s)].nlink = icache'[s].nlink
        /\ dinode'[Inum(s)].blk = IF Late(p, s)' THEN 0 ELSE icache'[s].blk
    BY <1>4, <1>9, <1>11, <1>12, <1>18
  <2>q. QED BY <1>1, <1>6, <2>2, <2>3, WroteBy
<1>20. \A t \in Slots : Cell(p, t)
  <2>1. Cell(p, s)
    BY <1>6, <1>19 DEF Cell
  <2>q. QED BY <1>12, <1>18, <2>1, CellsLeft
<1>21. Disked(p)
  <2>1. \A i \in Inums : dinode'[i].mode = dinode[i].mode
    BY <1>6, <1>9
  <2>2. \A i \in Inums : dinode'[i] # dinode[i] => i = Inum(s)
    BY <1>4, <1>9
  <2>q. QED BY <1>0, <1>6, <1>19, <2>1, <2>2 DEF Disked
<1>21a. /\ User.pc \notin FreedPcs \cup Allocating /\ User.pc # "write" /\ User.pc \notin FreePcs /\ User.pc \notin Naming
        /\ {User.n, User.ip, User.dp, Put(User, 1), Put(User, 2)} = {0} /\ Point(User) \in Idle
  <2>1. "user" \notin FreedPcs \cup Allocating /\ "user" \notin FreePcs /\ "user" \notin Naming /\ "user" \in Idle
    BY DEF FreedPcs, Allocating, FreePcs, Naming, CreateIp, CreateDir, Idle
  <2>q. QED BY <2>1, UserFields
<1>22. Normal(p) /\ WritesOK' /\ FreeAt(p)'
  BY <1>0, <1>16, <1>20, <1>21, <1>21a, WriterNormal
<1>23. BlocksOK'
  <2>1. Owner(k, icache[s].blk)
    BY <1>4, <1>6 DEF Owner
  <2>2. \A j \in ibitmap : Owner(j, dinode'[j].blk)
    <3>1. ibitmap \subseteq Inums
      BY <1>1 DEF DiskTypes
    <3>q. QED BY <1>9, <2>1, <3>1 DEF Owner
  <2>3. \A t \in Slots : icache'[t] = icache[t] \/ Owner(Inum(t), icache'[t].blk)
    BY <1>4, <1>11, <1>12, <2>1
  <2>q. QED BY <1>0, <1>22, <2>2, <2>3, BlocksKept
<1>24. ~OwesIp(User) /\ ~OwesDp(User) /\ ~LinkSide(User) /\ Point(User) # "namex"
  BY <1>21a, IdleOwes
<1>25. \A j \in Inums : Debt(p, j)' <= Debt(p, j) + 0
  <2>3. \A j : Debt(p, j)' = 0
    BY <1>24, <1>17, DebtNext DEF OneIf
  <2>4. \A j : Debt(p, j) >= 0 /\ Debt(p, j) \in Int
    BY DEF Debt, OneIf
  <2>q. QED BY <2>3, <2>4
<1>26. FreshAt(p)'
  BY <1>17, <1>21a, NothingFresh
<1>27. CallAt(p)'
  BY <1>17, <1>21a, <1>22, <1>24, PlainCall, UserFields
<1>29. \A j \in Inums : dinode'[j].nlink = dinode[j].nlink
  BY <1>6, <1>9
<1>q. QED BY <1>0, <1>17, <1>22, <1>23, <1>25, <1>26, <1>27, <1>29, NoLinkStep

(* file_write() allocates a block for a file that it has locked. *)
LEMMA WriteBlockD ==
    ASSUME Before, After, NEW p \in Procs, WriteBlock(p)
    PROVE  DInv'
<1> DEFINE r == proc[p]
<1>0. /\ r.pc = "user" /\ r.pc \in {"user", "exit"} /\ r.pc \notin IputPcs /\ r.pc \notin FreedPcs \cup {"write", "create_dot", "ialloc_iget"}
      /\ UNCHANGED <<ibitmap, dinode, dents, ftable, ofile, cwd>> /\ r.pc \notin Builds
  BY DEF WriteBlock, Call, At, IputPcs, FreedPcs, Builds
<1>1. /\ MInv /\ DiskTypes /\ r \in Records /\ WritesOK /\ nullptr \notin Procs
      /\ r.n = 0 /\ r.ip = 0 /\ r.dp = 0 /\ Put(r, 1) = 0 /\ Put(r, 2) = 0
      /\ \A t \in Slots : icache[t].lock # p
  <2>1. MInv /\ DiskTypes /\ WritesOK /\ nullptr \notin Procs
    BY BeforeParts, Ext2Assumption
  <2>q. QED BY <1>0, <2>1, AtRest
<1>2. PICK fd \in Fds, b \in FreeBlocks : /\ ofile[p][fd] # 0 /\ b \in FreeBlocks /\ bbitmap' = bbitmap \cup {b}
                           /\ CanLock(ftable[ofile[p][fd]].ip)
                           /\ panic' = IlockPanics(ftable[ofile[p][fd]].ip)
                           /\ Loaded(ftable[ofile[p][fd]].ip).blk = 0
                           /\ SetSlot(ftable[ofile[p][fd]].ip, [Locked(ftable[ofile[p][fd]].ip, p) EXCEPT !.blk = b])
                           /\ Become(p, Goto(p, "write"))
  BY DEF WriteBlock, FreeFds, Balloc
<1>3. PICK s : s = ftable[ofile[p][fd]].ip
  OBVIOUS
<1>4. Usable(s) /\ ofile[p][fd] \in Files
  BY <1>1, <1>2, <1>3, OpenFile
<1>5. Owned(p, s) /\ icache[s].lock = nullptr
  BY <1>2, <1>3, <1>4, OwnPlaces DEF Usable, Slots, CanLock
<1>6. PICK l, k : l = Loaded(s) /\ k = Inum(s)
  OBVIOUS
<1>7. /\ s \in Slots /\ Live(s) /\ k \in Inums /\ k \in ibitmap
      /\ l \in SlotRecords /\ l.inum = k /\ l.valid /\ l.type = dinode[k].mode
      /\ l.nlink = dinode[k].nlink /\ l.blk = dinode[k].blk /\ dinode[k].mode # "none"
      /\ IlockPanics(s) = FALSE
  BY <1>5, <1>6, LoadedIs DEF Inum
<1>8. dinode[k].blk = 0 /\ ~panic'
  BY <1>2, <1>3, <1>6, <1>7
<1>9. PICK i : i = [Locked(s, p) EXCEPT !.blk = b]
  OBVIOUS
<1>10. /\ i.inum = k /\ i.valid /\ i.lock = p /\ i.nlink = l.nlink /\ i.type = l.type /\ i.blk = b
  <2>1. b \in Blocks \cup {0}
    BY <1>2 DEF FreeBlocks
  <2>2. PICK m : m = [l EXCEPT !.lock = p]
    OBVIOUS
  <2>3. m \in SlotRecords /\ m.inum = k /\ m.valid /\ m.lock = p /\ m.nlink = l.nlink /\ m.type = l.type
    BY <1>7, <2>2, LockFields
  <2>4. i = [m EXCEPT !.blk = b]
    BY <1>6, <1>9, <2>2 DEF Locked
  <2>q. QED BY <2>1, <2>3, <2>4, BlkFields
<1>11. icache'[s] = i /\ \A t \in Slots \ {s} : icache'[t] = icache[t]
  BY <1>1, <1>2, <1>3, <1>7, <1>9 DEF MInv, MemTypes, SetSlot
<1>12. PICK r2 : r2 = [r EXCEPT !.pc = "write"]
  OBVIOUS
<1>13. "write" \in Points \cup IputPcs /\ "write" \notin IputPcs
  BY DEF Points, IputPcs
<1>14. /\ r2.pc = "write" /\ r2.n = 0 /\ r2.ip = 0 /\ r2.dp = 0 /\ Put(r2, 1) = 0 /\ Put(r2, 2) = 0
  BY <1>1, <1>12, <1>13, GotoFields
<1>15. /\ Point(r2) = "write" /\ r2.pc \notin Naming
       /\ r2.pc \notin FreePcs /\ r2.pc \notin FreedPcs \cup Allocating
  BY <1>13, <1>14 DEF Point, FreePcs, FreedPcs, Allocating, Naming, CreateIp, CreateDir
<1>16. Become(p, r2)
  BY <1>2, <1>12 DEF Goto
<1>17. proc'[p] = r2
  BY <1>1, <1>16 DEF Become, MInv, Shapes
<1>18. Late(p, s)' /\ \A t \in Slots \ {s} : ~Late(p, t) /\ ~Late(p, t)'
  BY <1>0, <1>1, <1>10, <1>11, <1>14, <1>17 DEF Late
<1>19. WroteCell(p, s)
  <2>1. ibitmap' = ibitmap /\ dinode' = dinode
    BY <1>0
  <2>2. /\ Owned(p, s) /\ icache[s].lock \in {p, nullptr} /\ icache'[s].lock \in {p, nullptr}
        /\ icache'[s].inum = Inum(s) /\ Inum(s) \in ibitmap' /\ icache'[s].valid /\ icache'[s].type # "none"
    BY <1>5, <1>6, <1>7, <1>10, <1>11, <2>1
  <2>3. /\ dinode'[Inum(s)].mode = icache'[s].type /\ dinode'[Inum(s)].nlink = icache'[s].nlink
        /\ dinode'[Inum(s)].blk = IF Late(p, s)' THEN 0 ELSE icache'[s].blk
    BY <1>6, <1>7, <1>8, <1>10, <1>11, <1>18, <2>1
  <2>q. QED BY <1>1, <1>7, <2>2, <2>3, WroteBy
<1>20. \A t \in Slots : Cell(p, t)
  <2>1. Cell(p, s)
    BY <1>7, <1>19 DEF Cell
  <2>q. QED BY <1>11, <1>18, <2>1, CellsLeft
<1>21. Disked(p)
  BY <1>0 DEF Disked
<1>22. Normal(p) /\ FreeAt(p)'
  BY <1>0, <1>14, <1>15, <1>16, <1>20, <1>21, WriterNormal
<1>22a. WritesOK'
  <2> SUFFICES ASSUME NEW q \in Procs, NEW t \in Slots, proc'[q].pc = "write", icache'[t].lock = q
               PROVE  \E f \in Fds : ofile'[q][f] # 0 /\ ftable'[ofile'[q][f]].ip = t
    BY DEF WritesOK
  <2>1. CASE t = s
    <3>1. q = p
      BY <1>10, <1>11, <2>1
    <3>q. QED BY <1>0, <1>2, <1>3, <2>1, <3>1
  <2>2. CASE t # s
    <3>1. icache[t].lock = q /\ q # p
      BY <1>1, <1>11, <2>2
    <3>2. proc[q].pc = "write"
      BY <3>1, <1>22 DEF Normal
    <3>q. QED BY <1>0, <1>1, <3>1, <3>2 DEF WritesOK
  <2>q. QED BY <2>1, <2>2
<1>23. BlocksOK'
  BY <1>0, <1>2, <1>7, <1>10, <1>11, <1>22, BlocksNew
<1>24. ~OwesIp(r2) /\ ~OwesDp(r2) /\ ~LinkSide(r2) /\ Point(r2) # "namex"
  BY <1>15 DEF OwesIp, OwesDp, LinkSide, LinkIp, CreateIp, CreateDir
<1>25. \A j \in Inums : Debt(p, j)' <= Debt(p, j) + 0
  <2>3. \A j : Debt(p, j)' = 0
    BY <1>24, <1>17, DebtNext DEF OneIf
  <2>4. \A j : Debt(p, j) >= 0 /\ Debt(p, j) \in Int
    BY DEF Debt, OneIf
  <2>q. QED BY <2>3, <2>4
<1>26. FreshAt(p)'
  BY <1>15, <1>17, NothingFresh
<1>27. CallAt(p)'
  BY <1>14, <1>15, <1>17, <1>22, <1>24, PlainCall
<1>q. QED BY <1>0, <1>8, <1>17, <1>22, <1>22a, <1>23, <1>25, <1>26, <1>27, NoLinkStep

(***************************************************************************)
(* Steps that write an entry                                               *)
(***************************************************************************)
(* A step that fills and locks slots gives no block another owner. *)
LEMMA CellBlocks ==
    ASSUME Before, NEW p \in Procs, Cells(p), UNCHANGED <<ibitmap, bbitmap, dinode>>
    PROVE  BlocksOK'
<1>0. BlocksOK /\ KeptOK /\ MInv /\ ibitmap' = ibitmap /\ bbitmap' = bbitmap /\ dinode' = dinode
  BY BeforeParts
<1>1. ASSUME NEW i \in Inums, NEW b \in Blocks, Owner(i, b)' PROVE Owner(i, b)
  <2>1. CASE i \in ibitmap' /\ dinode'[i].blk = b
    BY <1>0, <2>1 DEF Owner
  <2>2. CASE \E s \in Slots : Live(s)' /\ icache'[s].valid /\ Inum(s)' = i /\ icache'[s].blk = b
    <3>1. PICK s \in Slots : Live(s)' /\ icache'[s].valid /\ Inum(s)' = i /\ icache'[s].blk = b
      BY <2>2
    <3>2. ~FreeCell(s)
      BY <3>1 DEF FreeCell, Live
    <3>3. Live(s) /\ (KeptCell(p, s) \/ FilledCell(p, s))
      BY <3>2 DEF Cells
    <3>4. CASE KeptCell(p, s)
      BY <3>1, <3>3, <3>4 DEF KeptCell, Same, Owner, Inum
    <3>5. CASE FilledCell(p, s)
      <4>1. Inum(s) \in ibitmap
        BY <1>0, <3>5, OwnedKept DEF FilledCell
      <4>q. QED BY <3>1, <3>5, <4>1 DEF FilledCell, Owner, Inum
    <3>q. QED BY <3>3, <3>4, <3>5
  <2>q. QED BY <1>1, <2>1, <2>2 DEF Owner
<1>q. QED BY <1>0, <1>1 DEF BlocksOK

(* p makes entry n of the directory of slot s name v. *)
EntryBy(p, s, n, v, r2) ==
    /\ Owned(p, s) /\ icache[s].lock \in {p, nullptr} /\ n \in DirNames
    /\ dents' = [dents EXCEPT ![Inum(s)][n] = v]
    /\ \E c : SetIn(p, c) /\ icache' = c
    /\ UNCHANGED <<ibitmap, bbitmap, dinode, ftable, ofile, cwd>>
    /\ Become(p, r2)
    /\ proc[p].pc \notin FreedPcs \cup {"write", "create_dot", "ialloc_iget"}
    /\ r2.pc \notin FreePcs \cup Allocating \cup {"write", "create_dot"}
    /\ {r2.n, r2.ip, r2.dp, Put(r2, 1), Put(r2, 2)} \subseteq {0, proc[p].ip, proc[p].dp}

(* Such a step changes one entry, and no inode. *)
LEMMA EntryNormal ==
    ASSUME Before, After, NEW p \in Procs, NEW s, NEW n, NEW v, NEW r2, EntryBy(p, s, n, v, r2)
    PROVE  /\ proc'[p] = r2 /\ Normal(p) /\ WritesOK' /\ FreeAt(p)' /\ BlocksOK'
           /\ s \in Slots /\ Inum(s) \in Inums /\ Inum(s) \in ibitmap
           /\ \A d \in Inums : \A m \in DirNames :
                 dents'[d][m] = IF d = Inum(s) /\ m = n THEN v ELSE dents[d][m]
<1>0. MInv /\ KeptOK /\ DiskTypes /\ nullptr \notin Procs
  BY BeforeParts, Ext2Assumption
<1>1. s \in Slots /\ Inum(s) \in Inums /\ Inum(s) \in ibitmap
  BY <1>0, OwnedKept DEF EntryBy, Usable, Inum
<1>2. \A d \in Inums : \A m \in DirNames : dents'[d][m] = IF d = Inum(s) /\ m = n THEN v ELSE dents[d][m]
  <2>1. PICK k : k = Inum(s)
    OBVIOUS
  <2>2. dents' = [dents EXCEPT ![k][n] = v] /\ n \in DirNames /\ k \in Inums
    BY <1>1, <2>1 DEF EntryBy
  <2>3. dents \in [Inums -> [DirNames -> Inums \cup {0}]]
    BY <1>0 DEF DiskTypes
  <2>4. \A d \in Inums : \A m \in DirNames : dents'[d][m] = IF d = k /\ m = n THEN v ELSE dents[d][m]
    BY <2>2, <2>3
  <2>q. QED BY <2>1, <2>4
<1>3. proc'[p] = r2
  BY <1>0 DEF EntryBy, Become, MInv, Shapes
<1>4. Cells(p)
  <2>1. PICK c : SetIn(p, c) /\ icache' = c
    BY DEF EntryBy
  <2>2. Gets(c)
    BY <2>1 DEF Gets
  <2>3. proc[p].pc \notin {"write", "create_dot"} /\ proc'[p].pc \notin {"write", "create_dot"}
    BY <1>3 DEF EntryBy
  <2>q. QED BY <2>1, <2>2, <2>3, CellsOf DEF Cells
<1>5. \A t \in Slots : Cell(p, t)
  BY <1>4 DEF Cells, Cell
<1>6. Disked(p)
  <2>1. \A d \in Inums : dents'[d] # dents[d] => d = Inum(s)
    BY <1>0 DEF EntryBy, DiskTypes
  <2>2. ibitmap' = ibitmap /\ dinode' = dinode /\ Owned(p, s) /\ icache[s].lock \in {p, nullptr}
    BY DEF EntryBy
  <2>q. QED BY <1>1, <2>1, <2>2 DEF Disked
<1>7. FreedPcs \subseteq FreePcs
  BY DEF FreedPcs, FreePcs
<1>8. /\ Become(p, r2) /\ UNCHANGED <<ftable, ofile, cwd>> /\ proc[p].pc \notin FreedPcs /\ r2.pc \notin FreedPcs \cup Allocating
      /\ {r2.n, r2.ip, r2.dp, Put(r2, 1), Put(r2, 2)} \subseteq {0, proc[p].ip, proc[p].dp}
      /\ r2.pc # "write" /\ r2.pc \notin FreePcs
  BY <1>7 DEF EntryBy
<1>9. Normal(p) /\ WritesOK' /\ FreeAt(p)'
  BY <1>5, <1>6, <1>8, WriterNormal
<1>10. BlocksOK'
  BY <1>4, CellBlocks DEF EntryBy
<1>q. QED BY <1>1, <1>2, <1>3, <1>9, <1>10

(* The names that inodes have then. *)
LEMMA EntryNames ==
    ASSUME Before, After, NEW p \in Procs, NEW s, NEW n, NEW v, NEW r2, EntryBy(p, s, n, v, r2)
    PROVE  /\ \A i : \A d, m : <<d, m>> \in LN(i)' <=>
                 /\ d \in ibitmap /\ IsDir(d) /\ m \in Names
                 /\ i = IF d = Inum(s) /\ m = n THEN v ELSE dents[d][m]
           /\ \A i : \A e \in LN(i)' : e = <<e[1], e[2]>>
           /\ \A d : d \in LD' <=> d \in ibitmap /\ IsDir(d) /\ (d = EXT2INO \/ LN(d)' # {})
           /\ \A i, e : e \in LL(i)' <=> \/ e \in LN(i)'
                                         \/ \E d \in LD' : e = <<d, "..">> /\ dents'[d][".."] = i
           /\ DirsOf(Disk)' = {d \in ibitmap : IsDir(d)}
           /\ \A d \in ibitmap : d \in Inums
<1>1. \A d \in Inums : \A m \in DirNames : dents'[d][m] = IF d = Inum(s) /\ m = n THEN v ELSE dents[d][m]
  BY EntryNormal
<1>2. /\ ibitmap' = ibitmap /\ \A d : IsDir(d)' <=> IsDir(d)
      /\ \A d \in ibitmap : d \in Inums
      /\ Names \subseteq DirNames
  BY BeforeParts DEF EntryBy, IsDir, DiskTypes, DirNames
<1>3. \A i, d, m : <<d, m>> \in LN(i)' <=> d \in ibitmap /\ IsDir(d) /\ m \in Names /\ dents'[d][m] = i
  BY <1>2, LinksNext DEF LinksWell
<1>4. \A i : \A d, m : <<d, m>> \in LN(i)' <=>
                 /\ d \in ibitmap /\ IsDir(d) /\ m \in Names
                 /\ i = IF d = Inum(s) /\ m = n THEN v ELSE dents[d][m]
  <2> TAKE i
  <2> TAKE d, m
  <2>1. d \in ibitmap /\ m \in Names => dents'[d][m] = IF d = Inum(s) /\ m = n THEN v ELSE dents[d][m]
    BY <1>1, <1>2
  <2>2. <<d, m>> \in LN(i)' <=> d \in ibitmap /\ IsDir(d) /\ m \in Names /\ dents'[d][m] = i
    BY <1>3
  <2>q. QED BY <2>1, <2>2
<1>5. DirsOf(Disk)' = {d \in ibitmap : IsDir(d)}
  BY <1>2, LinksNext DEF LinksWell
<1>q. QED BY <1>2, <1>4, <1>5, LinksNext DEF LinksWell

(* The invariant after such a step: what inodes gain in entries they are   *)
(* no longer owed.                                                         *)
LEMMA EntryStep ==
    ASSUME Before, After, NEW p \in Procs, NEW s, NEW n, NEW v, NEW r2, EntryBy(p, s, n, v, r2),
           n # "." \/ v = Inum(s),
           \A j \in Inums : \E x, y \in Int : /\ Cardinality(LL(j)') <= Cardinality(LL(j)) + x
                                              /\ Debt(p, j)' <= Debt(p, j) + y
                                              /\ x + y = 0,
           \A i \in ibitmap : i \in LD' => i \in LD \/ Firms(i) # {},
           proc[p].pc \notin Builds,
           DirsOK', FreshAt(p)', CallAt(p)', ~panic'
    PROVE  DInv'
<1>0. /\ proc'[p] = r2 /\ Normal(p) /\ WritesOK' /\ FreeAt(p)' /\ BlocksOK'
      /\ \A d \in Inums : \A m \in DirNames : dents'[d][m] = IF d = Inum(s) /\ m = n THEN v ELSE dents[d][m]
      /\ dinode' = dinode /\ proc[p].pc # "ialloc_iget"
  <2>1. dinode' = dinode /\ proc[p].pc # "ialloc_iget"
    BY DEF EntryBy
  <2>q. QED BY <2>1, EntryNormal
<1>1. DiskTypes /\ DiskTypes' /\ MInv
  BY BeforeParts DEF After
<1>2. CountOK'
  <2>1. ASSUME NEW j \in Inums
        PROVE  dinode'[j].nlink - Cardinality(LL(j)') - Debt(p, j)' >= dinode[j].nlink - Cardinality(LL(j)) - Debt(p, j)
    <3>1. PICK x, y \in Int : /\ Cardinality(LL(j)') <= Cardinality(LL(j)) + x
                              /\ Debt(p, j)' <= Debt(p, j) + y
                              /\ x + y = 0
      OBVIOUS
    <3>3. dinode'[j].nlink >= dinode[j].nlink + (x + y)
      <4>1. dinode[j].nlink \in Int
        BY <1>1 DEF DiskTypes, Entries
      <4>q. QED BY <1>0, <3>1, <4>1
    <3>q. QED BY <1>1, <3>1, <3>3, CountHere
  <2>2. ibitmap \subseteq Inums
    BY <1>1 DEF DiskTypes
  <2>q. QED BY <1>0, <2>1, <2>2, CountStep
<1>3. SelfOK'
  <2>1. \A i \in ibitmap : dents[i]["."] = i => dents'[i]["."] = i
    <3>1. ibitmap \subseteq Inums /\ "." \in DirNames
      BY <1>1 DEF DiskTypes, DirNames
    <3>q. QED BY <1>0, <3>1
  <2>q. QED BY <1>0, <2>1, SelfStep
<1>q. QED BY <1>0, <1>2, <1>3, NormalStep

(* The ".." of a directory that nobody can reach counts for nothing. *)
LEMMA EntryUp ==
    ASSUME Before, After, NEW p \in Procs, NEW s, NEW v, NEW r2, EntryBy(p, s, "..", v, r2), Inum(s) \notin LD
    PROVE  /\ DirsOK'
           /\ \A i : LL(i)' = LL(i)
           /\ \A i : i \in LD' => i \in LD
<1>0. DiskTypes /\ DirsOK /\ ibitmap' = ibitmap /\ dinode' = dinode /\ ".." \notin Names /\ ".." \in DirNames /\ EXT2INO \in Inums
  BY BeforeParts, Ext2Assumption DEF EntryBy, DirNames
<1>1. \A d \in Inums : \A m \in DirNames : dents'[d][m] = IF d = Inum(s) /\ m = ".." THEN v ELSE dents[d][m]
  BY EntryNormal
<1>2. ASSUME NEW i PROVE LN(i)' = LN(i)
  <2>1. ASSUME NEW d, NEW m PROVE <<d, m>> \in LN(i)' <=> <<d, m>> \in LN(i)
    <3>1. <<d, m>> \in LN(i)' <=> /\ d \in ibitmap /\ IsDir(d) /\ m \in Names
                                  /\ i = IF d = Inum(s) /\ m = ".." THEN v ELSE dents[d][m]
      BY EntryNames
    <3>2. <<d, m>> \in LN(i) <=> d \in ibitmap /\ IsDir(d) /\ m \in Names /\ dents[d][m] = i
      BY LinksAlways DEF LinksWell
    <3>q. QED BY <1>0, <3>1, <3>2
  <2>2. \A e \in LN(i)' : e = <<e[1], e[2]>>
    BY EntryNames
  <2>3. \A e \in LN(i) : e = <<e[1], e[2]>>
    BY LinksAlways DEF LinksWell
  <2>q. QED BY <2>1, <2>2, <2>3
<1>3. \A d : d \in LD' <=> d \in LD
  BY <1>2, EntryNames, LinksAlways DEF LinksWell
<1>4. \A d \in LD : d \in Inums /\ dents'[d][".."] = dents[d][".."]
  <2>1. \A d \in LD : d \in Inums
    BY EntryNames, LinksAlways DEF LinksWell
  <2>q. QED BY <1>0, <1>1, <2>1
<1>5. ASSUME NEW i PROVE LL(i)' = LL(i)
  <2>1. \A e : e \in LL(i)' <=> \/ e \in LN(i)'
                                \/ \E d \in LD' : e = <<d, "..">> /\ dents'[d][".."] = i
    BY EntryNames
  <2>2. \A e : e \in LL(i) <=> e \in LN(i) \/ \E d \in LD : e = <<d, "..">> /\ dents[d][".."] = i
    BY LinksAlways DEF LinksWell
  <2>q. QED BY <1>2, <1>3, <1>4, <2>1, <2>2
<1>6. DirsOK'
  <2>1. EXT2INO \in ibitmap' /\ IsDir(EXT2INO)' /\ LN(EXT2INO)' = {}
    BY <1>0, <1>2 DEF DirsOK, IsDir, LN
  <2>2. EXT2INO \in LD
    BY <1>0, LinksAlways DEF LinksWell, DirsOK
  <2>3. dents'[EXT2INO][".."] = EXT2INO
    BY <1>0, <1>4, <2>2 DEF DirsOK
  <2>4. \A i \in Inums : LN(i)' # {} => i \in ibitmap' /\ dinode'[i].mode # "none"
    BY <1>0, <1>2 DEF DirsOK, LN
  <2>5. ASSUME NEW i \in DirsOf(Disk)', NEW e \in LN(i)', NEW f \in LN(i)' PROVE e = f /\ dents'[i][".."] = e[1]
    <3>1. i \in DirsOf(Disk) /\ e \in LN(i) /\ f \in LN(i)
      BY <1>2, EntryNames, LinksAlways DEF LinksWell
    <3>2. e = f /\ dents[i][".."] = e[1]
      BY <1>0, <3>1 DEF DirsOK, LN
    <3>3. i \in LD
      BY <3>1, LinksAlways DEF LinksWell
    <3>q. QED BY <1>4, <3>2, <3>3
  <2>q. QED BY <2>1, <2>3, <2>4, <2>5 DEF DirsOK, LN
<1>q. QED BY <1>3, <1>5, <1>6

(* A new name of an inode: of a file, or the first one of a directory that *)
(* knows its parent.                                                       *)
LEMMA EntryNew ==
    ASSUME Before, After, NEW p \in Procs, NEW s, NEW n, NEW v, NEW r2, EntryBy(p, s, n, v, r2),
           n \in Names, v \in ibitmap, dinode[v].mode # "none", v # EXT2INO,
           IsDir(v) => LN(v) = {} /\ dents[v][".."] = Inum(s)
    PROVE  /\ DirsOK'
           /\ \A i : i \in LD' => i \in LD \/ i = v
           /\ \A i : \A e \in LL(i)' : \/ e \in LL(i)
                                       \/ i = v /\ e = <<Inum(s), n>>
                                       \/ i = Inum(s) /\ IsDir(v) /\ e = <<v, "..">>
<1>0. /\ DiskTypes /\ DirsOK /\ ibitmap' = ibitmap /\ dinode' = dinode /\ ".." \notin Names /\ ".." \in DirNames
      /\ EXT2INO \in Inums /\ n # ".."
  BY BeforeParts, Ext2Assumption DEF EntryBy, DirNames
<1>1. \A d \in Inums : dents'[d][".."] = dents[d][".."]
  <2>1. \A d \in Inums : \A m \in DirNames : dents'[d][m] = IF d = Inum(s) /\ m = n THEN v ELSE dents[d][m]
    BY EntryNormal
  <2>q. QED BY <1>0, <2>1
<1>2. ASSUME NEW i, NEW e \in LN(i)' PROVE e \in LN(i) \/ (i = v /\ e = <<Inum(s), n>>)
  <2>1. PICK d, m : e = <<d, m>>
    BY EntryNames
  <2>q. QED BY <2>1, EntryNames, LinksAlways DEF LinksWell
<1>3. \A i : i \in LD' => i \in LD \/ i = v
  BY <1>2, EntryNames, LinksAlways DEF LinksWell
<1>3a. \A d \in LD' : d \in Inums /\ IsDir(d)
  BY EntryNames
<1>4. ASSUME NEW i, NEW e \in LL(i)'
      PROVE  \/ e \in LL(i)
             \/ i = v /\ e = <<Inum(s), n>>
             \/ i = Inum(s) /\ IsDir(v) /\ e = <<v, "..">>
  <2>1. \/ e \in LN(i)'
        \/ \E d \in LD' : e = <<d, "..">> /\ dents'[d][".."] = i
    BY EntryNames
  <2>2. CASE e \in LN(i)'
    BY <1>2, <2>2, LinksAlways DEF LinksWell
  <2>3. CASE \E d \in LD' : e = <<d, "..">> /\ dents'[d][".."] = i
    <3>1. PICK d \in LD' : e = <<d, "..">> /\ dents'[d][".."] = i
      BY <2>3
    <3>2. dents[d][".."] = i /\ IsDir(d)
      BY <1>1, <1>3a, <3>1
    <3>3. CASE d \in LD
      BY <3>1, <3>2, <3>3, LinksAlways DEF LinksWell
    <3>4. CASE d = v
      BY <3>1, <3>2, <3>4
    <3>q. QED BY <1>3, <3>3, <3>4
  <2>q. QED BY <2>1, <2>2, <2>3
<1>5. DirsOK'
  <2>1. EXT2INO \in ibitmap' /\ IsDir(EXT2INO)' /\ dents'[EXT2INO][".."] = EXT2INO
    BY <1>0, <1>1 DEF DirsOK, IsDir
  <2>2. LN(EXT2INO)' = {}
    BY <1>0, <1>2 DEF DirsOK, LN
  <2>4. \A i \in Inums : LN(i)' # {} => i \in ibitmap' /\ dinode'[i].mode # "none"
    BY <1>0, <1>2 DEF DirsOK, LN
  <2>5. ASSUME NEW i \in DirsOf(Disk)', NEW e \in LN(i)', NEW f \in LN(i)' PROVE e = f /\ dents'[i][".."] = e[1]
    <3>1. i \in DirsOf(Disk) /\ i \in Inums /\ IsDir(i)
      BY EntryNames, LinksAlways DEF LinksWell
    <3>2. dents'[i][".."] = dents[i][".."]
      BY <1>1, <3>1
    <3>3. CASE i = v
      <4>1. e = <<Inum(s), n>> /\ f = <<Inum(s), n>>
        BY <1>2, <3>1, <3>3
      <4>2. e[1] = Inum(s)
        BY <4>1
      <4>q. QED BY <3>1, <3>2, <3>3, <4>1, <4>2
    <3>4. CASE i # v
      <4>1. e \in LN(i) /\ f \in LN(i)
        BY <1>2, <3>4
      <4>q. QED BY <1>0, <3>1, <3>2, <4>1 DEF DirsOK, LN
    <3>q. QED BY <3>3, <3>4
  <2>q. QED BY <2>1, <2>2, <2>4, <2>5 DEF DirsOK, LN
<1>q. QED BY <1>3, <1>4, <1>5

(* A name that is taken from an inode: it was the only one of a directory, *)
(* whose ".." no longer counts.                                            *)
LEMMA EntryGone ==
    ASSUME Before, After, NEW p \in Procs, NEW s, NEW n, NEW r2, EntryBy(p, s, n, 0, r2),
           n \in Names, NEW w \in Inums, <<Inum(s), n>> \in LN(w)
    PROVE  /\ DirsOK'
           /\ \A i : i \in LD' => i \in LD
           /\ \A i \in Inums : \A e \in LL(i)' : e \in LL(i)
           /\ <<Inum(s), n>> \in LL(w) /\ <<Inum(s), n>> \notin LL(w)'
           /\ \A k : k = Inum(s) /\ IsDir(w) /\ w \in ibitmap => <<w, "..">> \in LL(k) /\ <<w, "..">> \notin LL(k)'
<1>0. /\ DiskTypes /\ DirsOK /\ ibitmap' = ibitmap /\ dinode' = dinode /\ ".." \notin Names /\ ".." \in DirNames
      /\ EXT2INO \in Inums /\ n # ".." /\ 0 \notin Inums
  BY BeforeParts, Ext2Assumption DEF EntryBy, DirNames
<1>1. \A d \in Inums : dents'[d][".."] = dents[d][".."]
  <2>1. \A d \in Inums : \A m \in DirNames : dents'[d][m] = IF d = Inum(s) /\ m = n THEN 0 ELSE dents[d][m]
    BY EntryNormal
  <2>q. QED BY <1>0, <2>1
<1>2. ASSUME NEW i \in Inums, NEW e \in LN(i)' PROVE e \in LN(i) /\ e # <<Inum(s), n>>
  <2>1. PICK d, m : e = <<d, m>>
    BY EntryNames
  <2>2. i # 0
    BY <1>0
  <2>3. ~(d = Inum(s) /\ m = n)
    BY <2>1, <2>2, EntryNames
  <2>q. QED BY <2>1, <2>3, EntryNames, LinksAlways DEF LinksWell
<1>3. \A i : i \in LD' => i \in LD
  <2> SUFFICES ASSUME NEW i \in LD' PROVE i \in LD
    OBVIOUS
  <2>1. i \in ibitmap /\ i \in Inums /\ IsDir(i) /\ (i = EXT2INO \/ LN(i)' # {})
    BY EntryNames
  <2>2. LN(i)' # {} => LN(i) # {}
    BY <1>2, <2>1
  <2>q. QED BY <2>1, <2>2, LinksAlways DEF LinksWell
<1>3a. \A d \in LD' : d \in Inums /\ IsDir(d)
  BY EntryNames
<1>4. ASSUME NEW i \in Inums, NEW e \in LL(i)' PROVE e \in LL(i)
  <2>1. \/ e \in LN(i)'
        \/ \E d \in LD' : e = <<d, "..">> /\ dents'[d][".."] = i
    BY EntryNames
  <2>2. CASE e \in LN(i)'
    BY <1>2, <2>2, LinksAlways DEF LinksWell
  <2>3. CASE \E d \in LD' : e = <<d, "..">> /\ dents'[d][".."] = i
    <3>1. PICK d \in LD' : e = <<d, "..">> /\ dents'[d][".."] = i
      BY <2>3
    <3>2. dents[d][".."] = i /\ d \in LD
      BY <1>1, <1>3, <1>3a, <3>1
    <3>q. QED BY <3>1, <3>2, LinksAlways DEF LinksWell
  <2>q. QED BY <2>1, <2>2, <2>3
<1>5. DirsOK'
  <2>1. EXT2INO \in ibitmap' /\ IsDir(EXT2INO)' /\ dents'[EXT2INO][".."] = EXT2INO
    BY <1>0, <1>1 DEF DirsOK, IsDir
  <2>2. LN(EXT2INO)' = {}
    BY <1>0, <1>2 DEF DirsOK, LN
  <2>4. \A i \in Inums : LN(i)' # {} => i \in ibitmap' /\ dinode'[i].mode # "none"
    BY <1>0, <1>2 DEF DirsOK, LN
  <2>5. ASSUME NEW i \in DirsOf(Disk)', NEW e \in LN(i)', NEW f \in LN(i)' PROVE e = f /\ dents'[i][".."] = e[1]
    <3>1. i \in DirsOf(Disk) /\ i \in Inums /\ IsDir(i)
      BY EntryNames, LinksAlways DEF LinksWell
    <3>2. dents'[i][".."] = dents[i][".."]
      BY <1>1, <3>1
    <3>3. e \in LN(i) /\ f \in LN(i)
      BY <1>2, <3>1
    <3>q. QED BY <1>0, <3>1, <3>2, <3>3 DEF DirsOK, LN
  <2>q. QED BY <2>1, <2>2, <2>4, <2>5 DEF DirsOK, LN
<1>6. <<Inum(s), n>> \in LL(w)
  BY LinksAlways DEF LinksWell
<1>7. <<Inum(s), n>> \notin LL(w)'
  <2>1. <<Inum(s), n>> \notin LN(w)'
    BY <1>2
  <2>2. \A d : <<Inum(s), n>> # <<d, "..">>
    BY <1>0
  <2>q. QED BY <2>1, <2>2, EntryNames
<1>8. ASSUME NEW k, k = Inum(s), IsDir(w), w \in ibitmap PROVE <<w, "..">> \in LL(k) /\ <<w, "..">> \notin LL(k)'
  <2>1. w \in DirsOf(Disk) /\ w \in LD
    BY <1>8, LinksAlways DEF LinksWell
  <2>2. dents[w][".."] = <<Inum(s), n>>[1] /\ \A e \in LN(w) : e = <<Inum(s), n>>
    BY <1>0, <2>1 DEF DirsOK, LN
  <2>3. dents[w][".."] = Inum(s)
    BY <2>2
  <2>4. <<w, "..">> \in LL(k)
    BY <1>8, <2>1, <2>3, LinksAlways DEF LinksWell
  <2>5. LN(w)' = {} /\ w # EXT2INO
    BY <1>0, <1>2, <2>2 DEF DirsOK, LN
  <2>6. w \notin LD'
    BY <2>5, EntryNames
  <2>7. <<w, "..">> \notin LN(k)'
    BY <1>0, EntryNames
  <2>8. \A d : <<w, "..">> = <<d, "..">> => d = w
    OBVIOUS
  <2>9. <<w, "..">> \notin LL(k)'
    BY <2>6, <2>7, <2>8, EntryNames
  <2>q. QED BY <2>4, <2>9
<1>q. QED BY <1>3, <1>4, <1>5, <1>6, <1>7, <1>8

(* create() writes the ".." of a directory that has no name yet. *)
LEMMA CreateDotDotD ==
    ASSUME Before, After, NEW p \in Procs, CreateDotDot(p)
    PROVE  DInv'
<1> DEFINE r == proc[p]
<1>0. /\ r.pc = "create_dotdot" /\ r.pc \notin IputPcs /\ r.pc \notin FreedPcs \cup {"write", "create_dot", "ialloc_iget"}
      /\ ~panic' /\ UNCHANGED <<ibitmap, bbitmap, dinode, icache, ftable, ofile, cwd>> /\ r.pc \in CreateIp /\ r.pc \in Naming
      /\ r.pc \notin Builds
  BY DEF CreateDotDot, At, IputPcs, FreedPcs, CreateIp, CreateDir, Naming, Builds
<1>1. /\ MInv /\ DiskTypes /\ DirsOK /\ r \in Records /\ Point(r) = r.pc /\ Put(r, 1) = 0 /\ Put(r, 2) = 0 /\ CallAt(p)
      /\ Fits(r.n, r.ip, r.dp, r.call.op, r.ino, "create_dotdot")
      /\ \A s \in {r.n, r.ip, r.dp, cwd[p]} : s # 0 => Owned(p, s) /\ s \in Slots
      /\ nullptr \notin Procs
  BY <1>0, OwnAt, BeforeParts
<1>2. /\ r.n = 0 /\ r.ip # 0 /\ r.ip \in Slots /\ Owned(p, r.ip) /\ r.dp # 0 /\ Owned(p, r.dp) /\ r.pc \in IpLocked
      /\ r.call.op = "mkdir"
  BY <1>0, <1>1 DEF Fits, OpAt, IpPoints, DpPoints, CreateIp, CreateDir, IpLocked
<1>3. icache[r.ip].lock = p
  BY <1>0, <1>1, <1>2 DEF MInv, LocksOK, Locks, LocksAt
<1>4. PICK s, v : s = r.ip /\ v = Inum(r.dp)
  OBVIOUS
<1>5. LL(Inum(s)) = {} /\ Inum(s) \in Inums
  BY <1>0, <1>4, NewUnlinked
<1>6. Inum(s) \notin LD
  <2>1. ~Linked(Inum(s))
    BY <1>1, <1>5, LinkedLinks
  <2>q. QED BY <2>1, LinksAlways DEF LinksWell, Linked
<1>7. icache[s].nlink = 1 /\ icache[s].type = TypeOf(r.call.op) /\ dents[Inum(s)]["."] = Inum(s)
  BY <1>0, <1>1, <1>4 DEF CallAt
<1>12. PICK r2 : r2 = [r EXCEPT !.pc = "create_link"]
  OBVIOUS
<1>13. "create_link" \in Points \cup IputPcs /\ "create_link" \notin IputPcs
  BY DEF Points, IpPoints, CreateIp, CreateDir, IputPcs
<1>14. /\ r2.pc = "create_link" /\ r2.n = 0 /\ r2.ip = s /\ r2.dp = r.dp /\ Put(r2, 1) = 0 /\ Put(r2, 2) = 0 /\ r2.call = r.call
  BY <1>1, <1>2, <1>4, <1>12, <1>13, GotoFields
<1>15. /\ Point(r2) = "create_link" /\ r2.pc \in CreateIp
       /\ r2.pc \notin FreePcs \cup Allocating \cup {"write", "create_dot"}
  BY <1>13, <1>14 DEF Point, FreePcs, FreedPcs, Allocating, CreateIp, CreateDir
<1>16. EntryBy(p, s, "..", v, r2)
  <2>1. Become(p, r2) /\ dents' = [dents EXCEPT ![Inum(s)][".."] = v]
    BY <1>4, <1>12 DEF CreateDotDot, Goto, Inum
  <2>2. SetIn(p, icache) /\ icache' = icache
    BY <1>0, <1>1, SetInNone
  <2>3. ".." \in DirNames
    BY DEF DirNames
  <2>4. {r2.n, r2.ip, r2.dp, Put(r2, 1), Put(r2, 2)} \subseteq {0, proc[p].ip, proc[p].dp}
    BY <1>4, <1>14
  <2>5. Owned(p, s) /\ icache[s].lock \in {p, nullptr}
    BY <1>2, <1>3, <1>4
  <2>q. QED BY <1>0, <1>15, <2>1, <2>2, <2>3, <2>4, <2>5 DEF EntryBy
<1>17. /\ proc'[p] = r2 /\ Normal(p)
       /\ \A d \in Inums : \A m \in DirNames : dents'[d][m] = IF d = Inum(s) /\ m = ".." THEN v ELSE dents[d][m]
  BY <1>16, EntryNormal
<1>18. /\ DirsOK' /\ \A i : LL(i)' = LL(i)
       /\ \A i : i \in LD' => i \in LD
  BY <1>6, <1>16, EntryUp
<1>24. OwesIp(r2) /\ OwesDp(r2) /\ ~LinkSide(r2) /\ Point(r2) # "namex" /\ OwesIp(r) /\ OwesDp(r)
  BY <1>0, <1>1, <1>2, <1>14, <1>15 DEF OwesIp, OwesDp, LinkSide, LinkIp, CreateIp, CreateDir
<1>25. \A j \in Inums : Debt(p, j)' <= Debt(p, j) + 0
  <2>2. icache'[s].inum = Inum(s) /\ icache'[r.dp].inum = Inum(r.dp)
    BY <1>0 DEF Inum
  <2>3. \A j : Debt(p, j)' = (IF j = Inum(s) THEN 1 ELSE 0) + (IF j = Inum(r.dp) THEN 1 ELSE 0)
    BY <1>14, <1>24, <1>17, <2>2, DebtNext DEF OneIf
  <2>4. \A j : Debt(p, j) = (IF j = Inum(s) THEN 1 ELSE 0) + (IF j = Inum(r.dp) THEN 1 ELSE 0)
    BY <1>4, <1>24 DEF Debt, OneIf
  <2>q. QED BY <2>3, <2>4
<1>26. FreshAt(p)'
  BY <1>0, <1>4, <1>14, <1>15, <1>17, StillNew
<1>27. CallAt(p)'
  <2>1. "." \in DirNames /\ ".." \in DirNames
    BY DEF DirNames
  <2>2. dents'[Inum(s)]["."] = Inum(s) /\ dents'[Inum(s)][".."] = v
    BY <1>5, <1>7, <1>17, <2>1
  <2>3. CallEnd(r2)'
    <3>1. Inum(r2.ip)' = Inum(s) /\ Inum(r2.dp)' = v
      BY <1>0, <1>4, <1>14 DEF Inum
    <3>q. QED BY <1>0, <1>7, <1>14, <2>2, <3>1 DEF CallEnd
  <2>4. LastOf(r2) \in Names /\ IsDir(Inum(r2.dp)) /\ Owned(p, r2.dp)
    BY <1>0, <1>1, <1>2, <1>4, <1>14 DEF CallAt, LastOf
  <2>q. QED BY <1>17, <1>24, <2>3, <2>4, CallFrom
<1>28. \A j \in Inums : \E x, y \in Int : /\ Cardinality(LL(j)') <= Cardinality(LL(j)) + x
                                          /\ Debt(p, j)' <= Debt(p, j) + y
                                          /\ x + y = 0
  <2> TAKE j \in Inums
  <2>1. Cardinality(LL(j)') <= Cardinality(LL(j)) + 0
    BY <1>1, <1>18, LinksCount
  <2>2. 0 \in Int /\ 0 + 0 = 0
    OBVIOUS
  <2>q. QED BY <1>25, <2>1, <2>2
<1>q. QED BY <1>0, <1>16, <1>18, <1>26, <1>27, <1>28, EntryStep

(* create() enters the new inode in its directory: the link that it owed. *)
LEMMA CreateLinkD ==
    ASSUME Before, After, NEW p \in Procs, CreateLink(p)
    PROVE  DInv'
<1> DEFINE r == proc[p]
<1>0. /\ r.pc = "create_link" /\ r.pc \notin IputPcs /\ r.pc \notin FreedPcs \cup {"write", "create_dot", "ialloc_iget"}
      /\ ~panic' /\ UNCHANGED <<ibitmap, bbitmap, dinode, ftable, ofile, cwd>> /\ r.pc \in CreateIp /\ r.pc \in Naming
      /\ r.pc \notin Builds
  BY DEF CreateLink, At, IputPcs, FreedPcs, CreateIp, CreateDir, Naming, Builds
<1>1. /\ MInv /\ DiskTypes /\ DirsOK /\ KeptOK /\ r \in Records /\ Point(r) = r.pc /\ CallAt(p)
      /\ Fits(r.n, r.ip, r.dp, r.call.op, r.ino, "create_link")
      /\ \A s \in {r.n, r.ip, r.dp, cwd[p]} : s # 0 => Owned(p, s) /\ s \in Slots
      /\ nullptr \notin Procs
  BY <1>0, OwnAt, BeforeParts
<1>2. /\ r.n = 0 /\ r.ip # 0 /\ r.ip \in Slots /\ Owned(p, r.ip) /\ r.dp # 0 /\ Owned(p, r.dp) /\ r.dp \in Slots
      /\ r.pc \in IpLocked /\ r.pc \in DpLocked /\ r.dp # r.ip
  BY <1>0, <1>1 DEF Fits, IpPoints, DpPoints, CreateIp, CreateDir, IpLocked, DpLocked
<1>3. icache[r.ip].lock = p /\ icache[r.dp].lock = p
  BY <1>0, <1>1, <1>2 DEF MInv, LocksOK, Locks, LocksAt
<1>4. PICK s, t, v : s = r.dp /\ t = r.ip /\ v = Inum(t)
  OBVIOUS
<1>5. /\ Usable(s) /\ s \in Slots /\ Live(s) /\ Inum(s) \in Inums
      /\ Live(t) /\ t \in Slots /\ v \in Inums /\ v \in ibitmap /\ icache[t].type = dinode[v].mode /\ dinode[v].mode # "none"
  BY <1>0, <1>2, <1>3, <1>4, LockedIs
<1>6. Inum(s) # v
  BY <1>1, <1>2, <1>4, <1>5, SameSlot
<1>7. LL(v) = {} /\ v # EXT2INO /\ LN(v) = {}
  <2>1. LL(v) = {}
    BY <1>0, <1>4, NewUnlinked
  <2>2. ~Linked(v)
    BY <1>1, <2>1, LinkedLinks
  <2>q. QED BY <2>1, <2>2 DEF Linked
<1>8. PICK n : n = LastName(p)
  OBVIOUS
<1>9. n \in Names
  BY <1>0, <1>1, <1>8 DEF CallAt, LastName, LastOf
<1>10. IsDir(v) <=> r.call.op = "mkdir"
  <2>1. icache[t].type = TypeOf(r.call.op)
    BY <1>0, <1>1, <1>4 DEF CallAt
  <2>q. QED BY <1>5, <2>1 DEF IsDir, TypeOf
<1>11. IsDir(v) => dents[v][".."] = Inum(s)
  BY <1>0, <1>1, <1>4, <1>10 DEF CallAt
<1>12. PICK ret : ret = IF r.call.op = "creat" THEN "open_fd" ELSE "create_done"
  OBVIOUS
<1>13. ret \in Rets /\ ret \in Idle
  BY <1>12 DEF Rets, Idle
<1>14. PICK r1 : r1 = [r EXCEPT !.dp = 0]
  OBVIOUS
<1>15. PICK r2 : r2 = IputThen(r1, <<s>>, ret)
  OBVIOUS
<1>16. r1 \in Records /\ r1.n = 0 /\ r1.ip = t /\ r1.dp = 0
  BY <1>1, <1>2, <1>4, <1>14, DropFields
<1>17. /\ Point(r2) = ret /\ r2.n = 0 /\ r2.ip = t /\ r2.dp = 0 /\ Put(r2, 1) = s /\ Put(r2, 2) = 0
       /\ r2.pc \notin Naming \cup FreePcs /\ r2.pc \notin FreedPcs \cup Allocating \cup {"write", "create_dot"}
  BY <1>5, <1>13, <1>15, <1>16, PutsOne
<1>18. ~OwesIp(r2) /\ ~OwesDp(r2) /\ ~LinkSide(r2) /\ Point(r2) # "namex"
  BY <1>13, <1>17, IdleOwes
<1>19. EntryBy(p, s, n, v, r2)
  <2>1. Become(p, r2) /\ dents' = [dents EXCEPT ![Inum(s)][n] = v]
    BY <1>4, <1>8, <1>12, <1>14, <1>15 DEF CreateLink, Inum
  <2>2. \E c : SetIn(p, c) /\ icache' = c
    <3>1. icache' = [icache EXCEPT ![s] = Unlocked(icache[s])]
      BY <1>4 DEF CreateLink, SetSlot
    <3>q. QED BY <1>1, <1>3, <1>4, <1>5, <3>1, SetInUnlock
  <2>3. n \in DirNames
    BY <1>9 DEF DirNames
  <2>4. {r2.n, r2.ip, r2.dp, Put(r2, 1), Put(r2, 2)} \subseteq {0, proc[p].ip, proc[p].dp}
    BY <1>4, <1>17
  <2>5. Owned(p, s) /\ icache[s].lock \in {p, nullptr}
    BY <1>2, <1>3, <1>4
  <2>q. QED BY <1>0, <1>17, <2>1, <2>2, <2>3, <2>4, <2>5 DEF EntryBy
<1>20. proc'[p] = r2 /\ Normal(p)
  BY <1>19, EntryNormal
<1>21. /\ DirsOK'
       /\ \A i : i \in LD' => i \in LD \/ i = v
       /\ \A i : \A e \in LL(i)' : \/ e \in LL(i)
                                   \/ i = v /\ e = <<Inum(s), n>>
                                   \/ i = Inum(s) /\ IsDir(v) /\ e = <<v, "..">>
  BY <1>5, <1>7, <1>9, <1>11, <1>19, EntryNew
<1>22. \A i \in ibitmap : i \in LD' => i \in LD \/ Firms(i) # {}
  <2>1. Firms(v) # {}
    BY <1>1, <1>2, <1>4, OwnedKept
  <2>q. QED BY <1>21, <2>1
<1>23. FreshAt(p)' /\ CallAt(p)'
  BY <1>17, <1>18, <1>20, NothingFresh, PlainCall
<1>24. /\ \A j : Debt(p, j)' = 0
       /\ \A j : Debt(p, j) >= 0 /\ Debt(p, j) \in Int
       /\ Debt(p, v) >= 1
       /\ IsDir(v) => Debt(p, Inum(s)) >= 1
  <2>1. \A j : Debt(p, j)' = 0
    BY <1>18, <1>20, DebtNext DEF OneIf
  <2>2. \A j : Debt(p, j) >= 0 /\ Debt(p, j) \in Int
    BY DEF Debt, OneIf
  <2>3. OwesIp(r) /\ (IsDir(v) => OwesDp(r))
    BY <1>0, <1>1, <1>10 DEF OwesIp, OwesDp, CreateIp, CreateDir
  <2>4. Debt(p, v) >= 1
    BY <1>4, <2>3 DEF Debt, OneIf
  <2>5. IsDir(v) => Debt(p, Inum(s)) >= 1
    BY <1>4, <2>3 DEF Debt, OneIf
  <2>q. QED BY <2>1, <2>2, <2>4, <2>5
<1>25. \A j \in Inums : \E x, y \in Int : /\ Cardinality(LL(j)') <= Cardinality(LL(j)) + x
                                          /\ Debt(p, j)' <= Debt(p, j) + y
                                          /\ x + y = 0
  <2> TAKE j \in Inums
  <2>0. 0 \in Int /\ 1 \in Int /\ -1 \in Int /\ 0 + 0 = 0 /\ 1 + (-1) = 0
    OBVIOUS
  <2>1. CASE j = v
    <3>1. LL(j)' \subseteq LL(j) \cup {<<Inum(s), n>>}
      BY <1>6, <1>21, <2>1
    <3>2. Cardinality(LL(j)') <= Cardinality(LL(j)) + 1
      BY <1>1, <3>1, LinksCount
    <3>3. Debt(p, j)' <= Debt(p, j) + (-1)
      BY <1>24, <2>1
    <3>q. QED BY <2>0, <3>2, <3>3
  <2>2. CASE j = Inum(s) /\ IsDir(v)
    <3>1. LL(j)' \subseteq LL(j) \cup {<<v, "..">>}
      BY <1>6, <1>21, <2>2
    <3>2. Cardinality(LL(j)') <= Cardinality(LL(j)) + 1
      BY <1>1, <3>1, LinksCount
    <3>3. Debt(p, j)' <= Debt(p, j) + (-1)
      BY <1>24, <2>2
    <3>q. QED BY <2>0, <3>2, <3>3
  <2>3. CASE j # v /\ ~(j = Inum(s) /\ IsDir(v))
    <3>1. LL(j)' \subseteq LL(j)
      BY <1>21, <2>3
    <3>2. Cardinality(LL(j)') <= Cardinality(LL(j)) + 0
      BY <1>1, <3>1, LinksCount
    <3>3. Debt(p, j)' <= Debt(p, j) + 0
      BY <1>24
    <3>q. QED BY <2>0, <3>2, <3>3
  <2>q. QED BY <2>1, <2>2, <2>3
<1>26. n # "."
  BY <1>9, Ext2Assumption
<1>q. QED BY <1>0, <1>19, <1>21, <1>22, <1>23, <1>25, <1>26, EntryStep

(* link() writes the entry that it has counted. *)
LEMMA LinkEntryNewD ==
    ASSUME Before, After, NoDotDot, NEW p \in Procs, LinkEntry(p), Dirlookup(proc[p].dp, LastName(p)) = 0
    PROVE  DInv'
<1> DEFINE r == proc[p]
<1>0. /\ r.pc = "link_dp" /\ r.pc \notin IputPcs /\ r.pc \notin FreedPcs \cup {"write", "create_dot", "ialloc_iget"}
      /\ UNCHANGED <<ibitmap, bbitmap, dinode, ftable, ofile, cwd>> /\ r.pc \notin Builds
      /\ r.pc \in DpPoints /\ r.pc \in LinkIp
  BY DEF LinkEntry, At, IputPcs, FreedPcs, Builds, DpPoints, LinkIp
<1>1. /\ MInv /\ DiskTypes /\ DirsOK /\ KeptOK /\ r \in Records /\ Point(r) = r.pc /\ CallAt(p)
      /\ Fits(r.n, r.ip, r.dp, r.call.op, r.ino, "link_dp")
      /\ \A s \in {r.n, r.ip, r.dp, cwd[p]} : s # 0 => Owned(p, s) /\ s \in Slots
      /\ nullptr \notin Procs
  BY <1>0, OwnAt, BeforeParts
<1>2. /\ r.n = 0 /\ r.ip # 0 /\ r.ip \in Slots /\ Owned(p, r.ip) /\ r.dp # 0 /\ Owned(p, r.dp) /\ r.dp \in Slots
  BY <1>0, <1>1 DEF Fits, IpPoints, DpPoints, CreateIp, CreateDir, LinkIp
<1>3. icache[r.dp].lock = nullptr
  BY DEF LinkEntry, CanLock
<1>4. PICK s, t, v : s = r.dp /\ t = r.ip /\ v = Inum(t)
  OBVIOUS
<1>5. /\ Usable(s) /\ s \in Slots /\ Inum(s) \in Inums /\ IlockPanics(s) = FALSE
  BY <1>2, <1>3, <1>4, LoadedIs
<1>6. v \in Inums /\ v \in ibitmap /\ dinode[v].mode # "none" /\ t \in Slots
  BY <1>1, <1>2, <1>4, OwnedKept DEF Usable, Inum
<1>7. ~IsDir(v) /\ v # EXT2INO /\ IsDir(Inum(s)) /\ LinkSide(r)
  <2>1. LinkSide(r)
    BY <1>0, <1>1 DEF LinkSide
  <2>2. ~IsDir(v) /\ IsDir(Inum(s))
    BY <1>1, <1>2, <1>4, <2>1 DEF CallAt
  <2>q. QED BY <1>1, <2>1, <2>2 DEF DirsOK
<1>8. PICK n : n = LastName(p)
  OBVIOUS
<1>9. n \in Names
  <2>1. n \in DirNames
    BY <1>0, <1>1, <1>8, Locals DEF InCall
  <2>2. n # ".."
    BY <1>0, <1>1, <1>8, LastNoDots
  <2>3. dents[Inum(s)][n] = 0
    BY <1>4, <1>8 DEF Dirlookup, Inum
  <2>4. dents[Inum(s)]["."] = Inum(s)
    BY <1>0, <1>2, <1>4, <1>7, SelfNamed
  <2>5. Inum(s) # 0
    BY <1>5, Ext2Assumption
  <2>6. n # "."
    BY <2>3, <2>4, <2>5
  <2>q. QED BY <2>1, <2>2, <2>6 DEF DirNames
<1>14. PICK r1 : r1 = [r EXCEPT !.dp = 0, !.ip = 0]
  OBVIOUS
<1>15. PICK r2 : r2 = IputThen(r1, <<s, t>>, "user")
  OBVIOUS
<1>16. r2 \in Records /\ r2.pc = "iput" /\ r2.n = 0 /\ r2.ip = 0 /\ r2.dp = 0 /\ r2.puts = <<s, t>> /\ r2.ret = "user"
  <2>1. <<s, t>> \in Seq(Slots) /\ "user" \in Rets /\ "iput" \in IputPcs
    BY <1>5, <1>6 DEF Rets, IputPcs
  <2>q. QED BY <1>1, <1>2, <1>14, <1>15, <2>1 DEF IputThen, Records
<1>17. /\ Point(r2) = "user" /\ Put(r2, 1) = s /\ Put(r2, 2) = t
       /\ r2.pc \notin Naming \cup FreePcs /\ r2.pc \notin FreedPcs \cup Allocating \cup {"write", "create_dot"}
       /\ "user" \in Idle
  <2>1. Put(r2, 1) = s /\ Put(r2, 2) = t
    BY <1>16 DEF Put
  <2>2. Point(r2) = "user"
    BY <1>16 DEF Point, IputPcs
  <2>3. "iput" \notin Naming \cup FreePcs /\ "iput" \notin FreedPcs \cup Allocating \cup {"write", "create_dot"}
    BY DEF Naming, CreateIp, CreateDir, FreePcs, FreedPcs, Allocating
  <2>q. QED BY <1>16, <2>1, <2>2, <2>3 DEF Idle
<1>18. ~OwesIp(r2) /\ ~OwesDp(r2) /\ ~LinkSide(r2) /\ Point(r2) # "namex"
  BY <1>17, IdleOwes
<1>19. EntryBy(p, s, n, v, r2)
  <2>1. Become(p, r2) /\ dents' = [dents EXCEPT ![Inum(s)][n] = v]
    BY <1>4, <1>8, <1>14, <1>15 DEF LinkEntry, Inum
  <2>2. \E c : SetIn(p, c) /\ icache' = c
    <3>1. icache' = [icache EXCEPT ![s] = Loaded(s)]
      BY <1>4 DEF LinkEntry, SetSlot
    <3>q. QED BY <1>2, <1>3, <1>4, <3>1, SetInLoad
  <2>3. n \in DirNames
    BY <1>9 DEF DirNames
  <2>4. {r2.n, r2.ip, r2.dp, Put(r2, 1), Put(r2, 2)} \subseteq {0, proc[p].ip, proc[p].dp}
    BY <1>4, <1>16, <1>17
  <2>5. Owned(p, s) /\ icache[s].lock \in {p, nullptr}
    BY <1>2, <1>3, <1>4
  <2>q. QED BY <1>0, <1>17, <2>1, <2>2, <2>3, <2>4, <2>5 DEF EntryBy
<1>20. proc'[p] = r2 /\ Normal(p) /\ ~panic'
  <2>1. panic' = IlockPanics(s)
    BY <1>4 DEF LinkEntry
  <2>q. QED BY <1>5, <1>19, <2>1, EntryNormal
<1>21. /\ DirsOK'
       /\ \A i : i \in LD' => i \in LD \/ i = v
       /\ \A i : \A e \in LL(i)' : \/ e \in LL(i)
                                   \/ i = v /\ e = <<Inum(s), n>>
                                   \/ i = Inum(s) /\ IsDir(v) /\ e = <<v, "..">>
  BY <1>6, <1>7, <1>9, <1>19, EntryNew
<1>22. \A i \in ibitmap : i \in LD' => i \in LD \/ Firms(i) # {}
  <2>1. Firms(v) # {}
    BY <1>1, <1>2, <1>4, OwnedKept
  <2>q. QED BY <1>21, <2>1
<1>23. FreshAt(p)' /\ CallAt(p)'
  BY <1>16, <1>17, <1>18, <1>20, NothingFresh, PlainCall
<1>24. /\ \A j : Debt(p, j)' = 0
       /\ \A j : Debt(p, j) >= 0 /\ Debt(p, j) \in Int
       /\ Debt(p, v) >= 1
  <2>1. \A j : Debt(p, j)' = 0
    BY <1>18, <1>20, DebtNext DEF OneIf
  <2>2. \A j : Debt(p, j) >= 0 /\ Debt(p, j) \in Int
    BY DEF Debt, OneIf
  <2>3. OwesIp(r)
    BY <1>7 DEF OwesIp
  <2>4. Debt(p, v) >= 1
    BY <1>4, <2>3 DEF Debt, OneIf
  <2>q. QED BY <2>1, <2>2, <2>4
<1>25. \A j \in Inums : \E x, y \in Int : /\ Cardinality(LL(j)') <= Cardinality(LL(j)) + x
                                          /\ Debt(p, j)' <= Debt(p, j) + y
                                          /\ x + y = 0
  <2> TAKE j \in Inums
  <2>0. 0 \in Int /\ 1 \in Int /\ -1 \in Int /\ 0 + 0 = 0 /\ 1 + (-1) = 0
    OBVIOUS
  <2>1. CASE j = v
    <3>1. LL(j)' \subseteq LL(j) \cup {<<Inum(s), n>>}
      BY <1>7, <1>21, <2>1
    <3>2. Cardinality(LL(j)') <= Cardinality(LL(j)) + 1
      BY <1>1, <3>1, LinksCount
    <3>3. Debt(p, j)' <= Debt(p, j) + (-1)
      BY <1>24, <2>1
    <3>q. QED BY <2>0, <3>2, <3>3
  <2>3. CASE j # v
    <3>1. LL(j)' \subseteq LL(j)
      BY <1>7, <1>21, <2>3
    <3>2. Cardinality(LL(j)') <= Cardinality(LL(j)) + 0
      BY <1>1, <3>1, LinksCount
    <3>3. Debt(p, j)' <= Debt(p, j) + 0
      BY <1>24
    <3>q. QED BY <2>0, <3>2, <3>3
  <2>q. QED BY <2>1, <2>3
<1>26. n # "."
  BY <1>9, Ext2Assumption
<1>q. QED BY <1>0, <1>19, <1>20, <1>21, <1>22, <1>23, <1>25, <1>26, EntryStep

(* The second half of link() keeps the invariant. *)
LEMMA LinkEntryD ==
    ASSUME Before, After, NoDotDot, NEW p \in Procs, LinkEntry(p)
    PROVE  DInv'
<1>1. PICK found : found = Dirlookup(proc[p].dp, LastName(p))
  OBVIOUS
<1>2. CASE found = 0
  BY <1>1, <1>2, LinkEntryNewD
<1>3. CASE found # 0
  <2>1. MInv /\ proc[p].pc \notin IputPcs /\ proc[p].pc \in DpPoints
    BY BeforeParts DEF LinkEntry, At, IputPcs, DpPoints
  <2>2. LastName(p) # ".."
    BY <2>1, LastNoDots
  <2>q. QED BY <1>1, <1>3, <2>2, LinkEntryTakenD
<1>q. QED BY <1>2, <1>3

(* The name is removed, and its inode is owed its count for a while. *)
LEMMA UnlinkGone ==
    ASSUME Before, After, NEW p \in Procs, NEW s, NEW n, NEW r2, EntryBy(p, s, n, 0, r2),
           n \in Names, NEW w \in Inums, w \in ibitmap, <<Inum(s), n>> \in LN(w),
           \A j \in Inums : Debt(p, j)' <= Debt(p, j) + IF j = w \/ (j = Inum(s) /\ IsDir(w)) THEN 1 ELSE 0,
           proc[p].pc \notin Builds, FreshAt(p)', CallAt(p)', ~panic'
    PROVE  DInv'
<1>1. /\ DirsOK'
      /\ \A i : i \in LD' => i \in LD
      /\ \A i \in Inums : \A e \in LL(i)' : e \in LL(i)
      /\ <<Inum(s), n>> \in LL(w) /\ <<Inum(s), n>> \notin LL(w)'
      /\ \A k : k = Inum(s) /\ IsDir(w) /\ w \in ibitmap => <<w, "..">> \in LL(k) /\ <<w, "..">> \notin LL(k)'
  BY EntryGone
<1>2. DiskTypes
  BY BeforeParts
<1>25. \A j \in Inums : \E x, y \in Int : /\ Cardinality(LL(j)') <= Cardinality(LL(j)) + x
                                          /\ Debt(p, j)' <= Debt(p, j) + y
                                          /\ x + y = 0
  <2> TAKE j \in Inums
  <2>0. 0 \in Int /\ 1 \in Int /\ -1 \in Int /\ 0 + 0 = 0 /\ (-1) + 1 = 0
    OBVIOUS
  <2>1. CASE j = w
    <3>1. LL(j)' \subseteq LL(j) \ {<<Inum(s), n>>} /\ <<Inum(s), n>> \in LL(j)
      BY <1>1, <2>1
    <3>2. Cardinality(LL(j)') <= Cardinality(LL(j)) + (-1)
      BY <1>2, <3>1, LinksCount
    <3>3. Debt(p, j)' <= Debt(p, j) + 1
      BY <2>1
    <3>q. QED BY <2>0, <3>2, <3>3
  <2>2. CASE j = Inum(s) /\ IsDir(w)
    <3>1. LL(j)' \subseteq LL(j) \ {<<w, "..">>} /\ <<w, "..">> \in LL(j)
      BY <1>1, <2>2
    <3>2. Cardinality(LL(j)') <= Cardinality(LL(j)) + (-1)
      BY <1>2, <3>1, LinksCount
    <3>3. Debt(p, j)' <= Debt(p, j) + 1
      BY <2>2
    <3>q. QED BY <2>0, <3>2, <3>3
  <2>3. CASE j # w /\ ~(j = Inum(s) /\ IsDir(w))
    <3>1. LL(j)' \subseteq LL(j)
      BY <1>1
    <3>2. Cardinality(LL(j)') <= Cardinality(LL(j)) + 0
      BY <1>2, <3>1, LinksCount
    <3>3. Debt(p, j)' <= Debt(p, j) + 0
      BY <2>3
    <3>q. QED BY <2>0, <3>2, <3>3
  <2>q. QED BY <2>1, <2>2, <2>3
<1>26. n # "."
  BY Ext2Assumption
<1>q. QED BY <1>1, <1>25, <1>26, EntryStep

(* unlink() clears the entry; the link count follows later, in this order. *)
LEMMA UnlinkEntryGoneD ==
    ASSUME Before, After, NEW p \in Procs, UnlinkEntry(p),
           ~(Locked(proc[p].ip, p).type = "dir" /\ ~IsDirEmpty(proc[p].ip))
    PROVE  DInv'
<1> DEFINE r == proc[p]
<1>0. /\ r.pc = "unlink_ip" /\ r.pc \notin IputPcs /\ r.pc \notin FreedPcs \cup {"write", "create_dot", "ialloc_iget"}
      /\ UNCHANGED <<ibitmap, bbitmap, dinode, ftable, ofile, cwd>> /\ r.pc \notin Builds
      /\ icache[r.ip].lock = nullptr /\ r.pc \in Idle
  BY DEF UnlinkEntry, At, IputPcs, FreedPcs, Builds, CanLock, Idle
<1>1. /\ MInv /\ DiskTypes /\ KeptOK /\ r \in Records /\ Point(r) = r.pc /\ Put(r, 1) = 0 /\ Put(r, 2) = 0
      /\ Fits(r.n, r.ip, r.dp, r.call.op, r.ino, "unlink_ip")
      /\ nullptr \notin Procs
  BY <1>0, OwnAt, BeforeParts
<1>2. PICK s, t, w, n : s = r.dp /\ t = r.ip /\ w = Inum(t) /\ n = LastName(p)
  OBVIOUS
<1>3. /\ t # 0 /\ Owned(p, t) /\ t \in Slots /\ w \in Inums /\ s # 0 /\ Owned(p, s) /\ s \in Slots /\ Inum(s) \in Inums
      /\ IsDir(Inum(s)) /\ w \in ibitmap /\ n \in Names /\ <<Inum(s), n>> \in LN(w)
      /\ dinode[w].nlink >= 1 /\ dinode[w].nlink \in Int /\ icache[s].lock = p
  BY <1>0, <1>2, UnlinkNamed
<1>4. r.n = 0 /\ s # t /\ icache[t].lock = nullptr
  BY <1>0, <1>1, <1>2, <1>3 DEF Fits
<1>5. PICK l : l = Loaded(t)
  OBVIOUS
<1>6. /\ l \in SlotRecords /\ l.type = dinode[w].mode /\ l.nlink = dinode[w].nlink /\ IlockPanics(t) = FALSE
      /\ Live(t) /\ Usable(s) /\ Live(s)
  BY <1>1, <1>2, <1>3, <1>4, <1>5, LoadedIs, OwnedKept DEF Usable, Live
<1>7. Inum(s) # w
  BY <1>1, <1>2, <1>3, <1>4, <1>6, SameSlot
<1>8. Locked(t, p).type = dinode[w].mode /\ Locked(t, p).nlink = dinode[w].nlink
  BY <1>5, <1>6, LockFields DEF Locked
<1>9. ~panic'
  <2>1. panic' = (IlockPanics(t) \/ Locked(t, p).nlink < 1)
    BY <1>2 DEF UnlinkEntry
  <2>2. ~(Locked(t, p).nlink < 1)
    BY <1>3, <1>8
  <2>q. QED BY <1>6, <2>1, <2>2
<1>10. dents' = [dents EXCEPT ![Inum(s)][n] = 0]
  BY <1>2 DEF UnlinkEntry, Inum
<1>11. n \in DirNames
  BY <1>3 DEF DirNames
<1>12. \A j : Debt(p, j) = 0
  BY <1>0, <1>1, IdleOwes DEF Debt, OneIf
<1>13. SetIn(p, [icache EXCEPT ![t] = Locked(t, p)])
  BY <1>3, <1>4, SetInLoad
<1>14. SetIn(p, [icache EXCEPT ![s] = Unlocked(icache[s])])
  BY <1>1, <1>3, <1>6, SetInUnlock
<1>20. CASE IsDir(w)
  <2>1. Locked(t, p).type = "dir"
    BY <1>8, <1>20 DEF IsDir
  <2>2. PICK r2 : r2 = [r EXCEPT !.pc = "unlink_parent"]
    OBVIOUS
  <2>3. icache' = [icache EXCEPT ![t] = Locked(t, p)] /\ Become(p, r2)
    BY <1>2, <2>1, <2>2 DEF UnlinkEntry, SetSlot, Goto
  <2>4. "unlink_parent" \in Points \cup IputPcs /\ "unlink_parent" \notin IputPcs
    BY DEF Points, IpPoints, IputPcs
  <2>5. /\ r2.pc = "unlink_parent" /\ r2.n = 0 /\ r2.ip = t /\ r2.dp = s /\ Put(r2, 1) = 0 /\ Put(r2, 2) = 0
    BY <1>1, <1>2, <1>4, <2>2, <2>4, GotoFields
  <2>6. /\ Point(r2) = "unlink_parent" /\ r2.pc \notin Naming
        /\ r2.pc \notin FreePcs \cup Allocating \cup {"write", "create_dot"}
    BY <2>4, <2>5 DEF Point, FreePcs, Allocating, Naming, CreateIp, CreateDir
  <2>7. EntryBy(p, s, n, 0, r2)
    <3>1. {r2.n, r2.ip, r2.dp, Put(r2, 1), Put(r2, 2)} \subseteq {0, proc[p].ip, proc[p].dp}
      BY <1>2, <2>5
    <3>2. Owned(p, s) /\ icache[s].lock \in {p, nullptr}
      BY <1>3
    <3>3. \E c : SetIn(p, c) /\ icache' = c
      BY <1>13, <2>3
    <3>q. QED BY <1>0, <1>10, <1>11, <2>3, <2>6, <3>1, <3>2, <3>3 DEF EntryBy
  <2>8. proc'[p] = r2 /\ Normal(p)
    BY <2>7, EntryNormal
  <2>9. OwesIp(r2) /\ OwesDp(r2) /\ ~LinkSide(r2) /\ Point(r2) # "namex"
    BY <2>6 DEF OwesIp, OwesDp, LinkSide, LinkIp
  <2>10. icache'[t].inum = w /\ icache'[s].inum = Inum(s)
    BY <1>2, <1>3, <2>8, SlotsStay
  <2>11. \A j \in Inums : Debt(p, j)' <= Debt(p, j) + IF j = w \/ (j = Inum(s) /\ IsDir(w)) THEN 1 ELSE 0
    <3>1. \A j : Debt(p, j)' = (IF j = w THEN 1 ELSE 0) + (IF j = Inum(s) THEN 1 ELSE 0)
      BY <2>5, <2>8, <2>9, <2>10, DebtNext DEF OneIf
    <3>2. PICK k : k = Inum(s)
      OBVIOUS
    <3>3. \A j : (IF j = w THEN 1 ELSE 0) + (IF j = k THEN 1 ELSE 0) <= 0 + IF j = w \/ (j = k /\ IsDir(w)) THEN 1 ELSE 0
      BY <1>7, <1>20, <3>2
    <3>q. QED BY <1>12, <3>1, <3>2, <3>3
  <2>12. FreshAt(p)' /\ CallAt(p)'
    BY <1>3, <2>5, <2>6, <2>8, <2>9, NothingFresh, PlainCall
  <2>q. QED BY <1>0, <1>3, <1>9, <2>7, <2>11, <2>12, UnlinkGone
<1>21. CASE ~IsDir(w)
  <2>1. Locked(t, p).type # "dir"
    BY <1>8, <1>21 DEF IsDir
  <2>2. PICK r1 : r1 = [r EXCEPT !.dp = 0]
    OBVIOUS
  <2>2a. PICK r2 : r2 = IputThen(r1, <<s>>, "unlink_dec")
    OBVIOUS
  <2>3. icache' = [icache EXCEPT ![t] = Locked(t, p), ![s] = Unlocked(@)] /\ Become(p, r2)
    BY <1>2, <2>1, <2>2, <2>2a DEF UnlinkEntry
  <2>4. "unlink_dec" \in Rets
    BY DEF Rets
  <2>4a. r1 \in Records /\ r1.n = 0 /\ r1.ip = t /\ r1.dp = 0
    BY <1>1, <1>2, <1>4, <2>2, DropFields
  <2>5. /\ Point(r2) = "unlink_dec" /\ r2.n = 0 /\ r2.ip = t /\ r2.dp = 0 /\ Put(r2, 1) = s /\ Put(r2, 2) = 0
        /\ r2.pc \notin Naming \cup FreePcs /\ r2.pc \notin FreedPcs \cup Allocating \cup {"write", "create_dot"}
    BY <1>3, <2>2a, <2>4, <2>4a, PutsOne
  <2>6. \E c : SetIn(p, c) /\ icache' = c
    <3>1. PICK L, U : L = Locked(t, p) /\ U = Unlocked(icache[s])
      OBVIOUS
    <3>2. icache \in [Slots -> SlotRecords]
      BY <1>1 DEF MInv, MemTypes
    <3>3. icache' = [icache EXCEPT ![t] = L, ![s] = U]
      BY <1>4, <2>3, <3>1
    <3>4. PICK c1, c2 : c1 = [icache EXCEPT ![t] = L] /\ c2 = [icache EXCEPT ![s] = U]
      OBVIOUS
    <3>5. SetIn(p, c1) /\ SetIn(p, c2)
      BY <1>13, <1>14, <3>1, <3>4
    <3>6. c1[t] = L /\ c2[s] = U
      BY <1>3, <3>2, <3>4
    <3>7. \A u \in Slots : icache'[u] = IF u = t THEN c1[u] ELSE IF u = s THEN c2[u] ELSE icache[u]
      BY <1>3, <1>4, <3>2, <3>3, <3>6
    <3>8. c1 \in [Slots -> SlotRecords] /\ c2 \in [Slots -> SlotRecords]
      BY <3>5 DEF SetIn
    <3>9. icache' \in [Slots -> SlotRecords]
      BY <1>3, <3>2, <3>3, <3>6, <3>8
    <3>10. SetIn(p, icache')
      BY <3>5, <3>7, <3>9 DEF SetIn, KeptIn, FilledIn
    <3>q. QED BY <3>10
  <2>7. EntryBy(p, s, n, 0, r2)
    <3>1. {r2.n, r2.ip, r2.dp, Put(r2, 1), Put(r2, 2)} \subseteq {0, proc[p].ip, proc[p].dp}
      BY <1>2, <2>5
    <3>2. Owned(p, s) /\ icache[s].lock \in {p, nullptr}
      BY <1>3
    <3>q. QED BY <1>0, <1>10, <1>11, <2>3, <2>5, <2>6, <3>1, <3>2 DEF EntryBy
  <2>8. proc'[p] = r2 /\ Normal(p)
    BY <2>7, EntryNormal
  <2>9. OwesIp(r2) /\ ~OwesDp(r2) /\ ~LinkSide(r2) /\ Point(r2) # "namex"
    BY <2>5 DEF OwesIp, OwesDp, LinkSide, LinkIp
  <2>10. icache'[t].inum = w
    BY <1>2, <1>3, <2>8, SlotsStay
  <2>11. \A j \in Inums : Debt(p, j)' <= Debt(p, j) + IF j = w \/ (j = Inum(s) /\ IsDir(w)) THEN 1 ELSE 0
    <3>1. \A j : Debt(p, j)' = (IF j = w THEN 1 ELSE 0) + 0
      BY <2>5, <2>8, <2>9, <2>10, DebtNext DEF OneIf
    <3>q. QED BY <1>12, <1>21, <3>1
  <2>12. FreshAt(p)' /\ CallAt(p)'
    BY <2>5, <2>8, <2>9, NothingFresh, PlainCall
  <2>q. QED BY <1>0, <1>3, <1>9, <2>7, <2>11, <2>12, UnlinkGone
<1>q. QED BY <1>20, <1>21

(* unlink() under the locks of the directory and of the inode keeps the    *)
(* invariant.                                                              *)
LEMMA UnlinkEntryD ==
    ASSUME Before, After, NEW p \in Procs, UnlinkEntry(p)
    PROVE  DInv'
BY UnlinkEntryKeptD, UnlinkEntryGoneD

(***************************************************************************)
(* The steps that free or allocate an inode: no reference moves            *)
(***************************************************************************)
Still(p, r2) ==
    /\ Become(p, r2)
    /\ r2.n = proc[p].n /\ r2.ip = proc[p].ip /\ r2.dp = proc[p].dp
    /\ r2.call = proc[p].call /\ r2.rest = proc[p].rest
    /\ Put(r2, 1) = Put(proc[p], 1) /\ Put(r2, 2) = Put(proc[p], 2)
    /\ OwesIp(r2) <=> OwesIp(proc[p])
    /\ OwesDp(r2) <=> OwesDp(proc[p])
    /\ r2.pc \in PastPcs \/ proc[p].pc \notin PastPcs
    /\ UNCHANGED <<ftable, ofile, cwd>>
    /\ \A t \in Slots : icache'[t].inum = icache[t].inum /\ icache'[t].ref = icache[t].ref

(* The processes keep their inodes, and the slots theirs. *)
LEMMA StillProcs ==
    ASSUME Before, NEW p \in Procs, NEW r2, Still(p, r2)
    PROVE  /\ proc'[p] = r2 /\ \A q \in Procs \ {p} : proc'[q] = proc[q]
           /\ \A q \in Procs : /\ proc'[q].n = proc[q].n /\ proc'[q].ip = proc[q].ip /\ proc'[q].dp = proc[q].dp
                               /\ proc'[q].call = proc[q].call /\ proc'[q].rest = proc[q].rest
                               /\ Put(proc'[q], 1) = Put(proc[q], 1) /\ Put(proc'[q], 2) = Put(proc[q], 2)
                               /\ OwesIp(proc'[q]) <=> OwesIp(proc[q])
                               /\ OwesDp(proc'[q]) <=> OwesDp(proc[q])
           /\ \A t \in Slots : Inum(t)' = Inum(t) /\ (Live(t)' <=> Live(t))
<1>1. proc \in [Procs -> Records]
  BY BeforeParts DEF MInv, Shapes
<1>2. proc'[p] = r2 /\ \A q \in Procs \ {p} : proc'[q] = proc[q]
  BY <1>1 DEF Still, Become
<1>3. \A t \in Slots : Inum(t)' = Inum(t) /\ (Live(t)' <=> Live(t))
  BY DEF Still, Inum, Live
<1>4. ASSUME NEW q \in Procs
      PROVE  /\ proc'[q].n = proc[q].n /\ proc'[q].ip = proc[q].ip /\ proc'[q].dp = proc[q].dp
             /\ proc'[q].call = proc[q].call /\ proc'[q].rest = proc[q].rest
             /\ Put(proc'[q], 1) = Put(proc[q], 1) /\ Put(proc'[q], 2) = Put(proc[q], 2)
             /\ OwesIp(proc'[q]) <=> OwesIp(proc[q])
             /\ OwesDp(proc'[q]) <=> OwesDp(proc[q])
  <2>1. CASE q = p
    BY <1>2, <2>1 DEF Still
  <2>2. CASE q # p
    BY <1>2, <2>2
  <2>q. QED BY <2>1, <2>2
<1>q. QED BY <1>2, <1>3, <1>4

(* Every place holds what it held. *)
LEMMA StillHolds ==
    ASSUME Before, NEW p \in Procs, NEW r2, Still(p, r2), NEW x \in Places
    PROVE  /\ Holds(x)' = Holds(x)
           /\ Firm(x)' => Firm(x) /\ Inum(Holds(x))' = Inum(Holds(x)) /\ ~(x = <<"put1", p>> /\ r2.pc \in PastPcs)
<1>0. /\ \A q \in Procs : /\ proc'[q].n = proc[q].n /\ proc'[q].ip = proc[q].ip /\ proc'[q].dp = proc[q].dp
                          /\ Put(proc'[q], 1) = Put(proc[q], 1) /\ Put(proc'[q], 2) = Put(proc[q], 2)
      /\ proc'[p] = r2 /\ \A q \in Procs \ {p} : proc'[q] = proc[q]
      /\ \A t \in Slots : Inum(t)' = Inum(t)
      /\ r2.pc \in PastPcs \/ proc[p].pc \notin PastPcs
      /\ ftable' = ftable /\ cwd' = cwd
  BY StillProcs DEF Still
<1>1. Holds(x)' = Holds(x) /\ (Firm(x)' => Firm(x) /\ ~(x = <<"put1", p>> /\ r2.pc \in PastPcs))
  <2>1. CASE \E f \in Files : x = <<"file", f>>
    <3>1. PICK f \in Files : x = <<"file", f>>
      BY <2>1
    <3>2. Holds(x) = ftable[f].ip /\ Holds(x)' = ftable'[f].ip
      BY <3>1, HoldsAlways, HoldsNext DEF HoldsWell
    <3>3. (Firm(x) <=> ftable[f].ip # 0) /\ (Firm(x)' <=> ftable'[f].ip # 0)
      BY <3>1, FirmAlways, FirmNext DEF FirmWell
    <3>4. x # <<"put1", p>>
      BY <3>1
    <3>q. QED BY <1>0, <3>2, <3>3, <3>4
  <2>2. CASE \E q \in Procs : x \in {<<"n", q>>, <<"ip", q>>, <<"dp", q>>, <<"put1", q>>, <<"put2", q>>, <<"cwd", q>>}
    <3>1. PICK q \in Procs : x \in {<<"n", q>>, <<"ip", q>>, <<"dp", q>>, <<"put1", q>>, <<"put2", q>>, <<"cwd", q>>}
      BY <2>2
    <3>2. Holds(x)' = Holds(x)
      <4>1. /\ Holds(<<"n", q>>) = proc[q].n /\ Holds(<<"ip", q>>) = proc[q].ip /\ Holds(<<"dp", q>>) = proc[q].dp
            /\ Holds(<<"put1", q>>) = Put(proc[q], 1) /\ Holds(<<"put2", q>>) = Put(proc[q], 2)
            /\ Holds(<<"cwd", q>>) = cwd[q]
        BY HoldsAlways DEF HoldsWell
      <4>2. /\ Holds(<<"n", q>>)' = proc'[q].n /\ Holds(<<"ip", q>>)' = proc'[q].ip /\ Holds(<<"dp", q>>)' = proc'[q].dp
            /\ Holds(<<"put1", q>>)' = Put(proc'[q], 1) /\ Holds(<<"put2", q>>)' = Put(proc'[q], 2)
            /\ Holds(<<"cwd", q>>)' = cwd'[q]
        BY HoldsNext DEF HoldsWell
      <4>q. QED BY <1>0, <3>1, <4>1, <4>2
    <3>3. CASE x # <<"put1", q>>
      <4>1. Firm(x)' => Firm(x)
        BY <1>0, <3>1, <3>3, FirmAlways, FirmNext DEF FirmWell
      <4>2. x # <<"put1", p>>
        BY <3>1, <3>3
      <4>q. QED BY <3>2, <4>1, <4>2
    <3>4. CASE x = <<"put1", q>>
      <4>1. /\ Firm(x) <=> Put(proc[q], 1) # 0 /\ proc[q].pc \notin PastPcs
            /\ Firm(x)' <=> Put(proc'[q], 1) # 0 /\ proc'[q].pc \notin PastPcs
        BY <3>4, FirmAlways, FirmNext DEF FirmWell
      <4>2. x = <<"put1", p>> => q = p
        BY <3>4
      <4>q. QED BY <1>0, <3>2, <4>1, <4>2
    <3>q. QED BY <3>3, <3>4
  <2>q. QED BY <2>1, <2>2, PlaceKinds
<1>2. Firm(x) => Inum(Holds(x))' = Inum(Holds(x))
  <2> SUFFICES ASSUME Firm(x) PROVE Inum(Holds(x))' = Inum(Holds(x))
    OBVIOUS
  <2>1. Holds(x) \in Slots
    BY BeforeParts, HoldsUsable DEF Firm, Usable
  <2>2. PICK s \in Slots : s = Holds(x)
    BY <2>1
  <2>3. Holds(x)' = s
    BY <1>1, <2>2
  <2>q. QED BY <1>0, <2>2, <2>3 DEF Inum
<1>q. QED BY <1>1, <1>2

(* No place becomes firm. *)
LEMMA StillFirms ==
    ASSUME Before, NEW p \in Procs, NEW r2, Still(p, r2), NEW i
    PROVE  /\ Firms(i)' \subseteq Firms(i)
           /\ r2.pc \in PastPcs => <<"put1", p>> \notin Firms(i)'
<1>1. ASSUME NEW x \in Firms(i)' PROVE x \in Firms(i) /\ ~(x = <<"put1", p>> /\ r2.pc \in PastPcs)
  <2>1. x \in Places /\ Firm(x)' /\ Inum(Holds(x))' = i
    BY <1>1 DEF Firms
  <2>2. Firm(x) /\ Inum(Holds(x)) = i /\ ~(x = <<"put1", p>> /\ r2.pc \in PastPcs)
    BY <2>1, StillHolds
  <2>q. QED BY <2>1, <2>2 DEF Firms
<1>q. QED BY <1>1

(* The inode of a process stays in its slot. *)
LEMMA StillSlots ==
    ASSUME Before, NEW p \in Procs, NEW r2, Still(p, r2), NEW q \in Procs, NEW s, s # 0,
           s \in {proc[q].n, proc[q].ip, proc[q].dp, Put(proc[q], 1)}
    PROVE  Usable(s) /\ s \in Slots /\ Live(s) /\ Inum(s) \in Inums /\ Inum(s)' = Inum(s)
<1>1. MInv
  BY BeforeParts
<1>2. /\ proc[q].n \in Slots \cup {0} /\ proc[q].ip \in Slots \cup {0} /\ proc[q].dp \in Slots \cup {0}
      /\ Put(proc[q], 1) \in Slots \cup {0}
  <2>1. /\ proc[q].n \in Slots \cup {0} /\ proc[q].ip \in Slots \cup {0} /\ proc[q].dp \in Slots \cup {0}
        /\ proc[q].puts \in Seq(Slots)
    BY <1>1 DEF MInv, Shapes, Records
  <2>q. QED BY <2>1 DEF Put
<1>3. s \in Slots
  BY <1>2
<1>4. Usable(s)
  BY <1>1, <1>3, HeldUsable
<1>q. QED BY <1>3, <1>4, StillProcs DEF Usable, Live, Inum

(* Whoever owed a link owes it still. *)
LEMMA StillOwed ==
    ASSUME Before, NEW p \in Procs, NEW r2, Still(p, r2), NEW i
    PROVE  Owed(i)' = Owed(i)
<1>0. MInv
  BY BeforeParts
<1>1. ASSUME NEW x \in {"ip", "dp"} \X Procs PROVE x \in Owed(i)' <=> x \in Owed(i)
  <2>1. PICK q \in Procs : x = <<"ip", q>> \/ x = <<"dp", q>>
    BY <1>1
  <2>2. /\ proc'[q].ip = proc[q].ip /\ proc'[q].dp = proc[q].dp
        /\ OwesIp(proc'[q]) <=> OwesIp(proc[q])
        /\ OwesDp(proc'[q]) <=> OwesDp(proc[q])
    BY StillProcs
  <2>3. proc[q].ip # 0 => Inum(proc[q].ip)' = Inum(proc[q].ip)
    <3>1. PICK u : u = proc[q].ip
      OBVIOUS
    <3>2. u # 0 => Inum(u)' = Inum(u)
      BY <3>1, StillSlots
    <3>q. QED BY <2>2, <3>1, <3>2 DEF Inum
  <2>4. proc[q].dp # 0 => Inum(proc[q].dp)' = Inum(proc[q].dp)
    <3>1. PICK u : u = proc[q].dp
      OBVIOUS
    <3>2. u # 0 => Inum(u)' = Inum(u)
      BY <3>1, StillSlots
    <3>q. QED BY <2>2, <3>1, <3>2 DEF Inum
  <2>7. x = <<"ip", q>> => (x \in Owed(i)' <=> OwesIp(proc'[q]) /\ Inum(proc[q].ip)' = i)
                           /\ (x \in Owed(i) <=> OwesIp(proc[q]) /\ Inum(proc[q].ip) = i)
    BY OwedAlways, OwedNext DEF OwedWell
  <2>8. x = <<"dp", q>> => (x \in Owed(i)' <=> OwesDp(proc'[q]) /\ Inum(proc[q].dp)' = i)
                           /\ (x \in Owed(i) <=> OwesDp(proc[q]) /\ Inum(proc[q].dp) = i)
    BY OwedAlways, OwedNext DEF OwedWell
  <2>q. QED BY <1>0, <2>1, <2>2, <2>3, <2>4, <2>7, <2>8, OwesHas
<1>2. \A x \in Owed(i) : x \in {"ip", "dp"} \X Procs
  BY DEF Owed
<1>3. \A x \in Owed(i)' : x \in {"ip", "dp"} \X Procs
  BY DEF Owed
<1>q. QED BY <1>1, <1>2, <1>3

(* A step of iput()'s freeing of inode k, in slot s. *)
Frees(p, s, k, r2) ==
    /\ proc[p].pc \in FreePcs /\ s = Put(proc[p], 1) /\ k = Inum(s)
    /\ Still(p, r2) /\ r2.pc \in PastPcs /\ Point(r2) = Point(proc[p])
    /\ \A t \in Slots \ {s} : icache'[t] = icache[t]
    /\ icache'[s].lock \in {p, nullptr}
    /\ ibitmap' \subseteq ibitmap /\ ibitmap \ {k} \subseteq ibitmap'
    /\ k \in ibitmap /\ k \notin ibitmap' => proc[p].pc = "ifree"
    /\ \A i \in Inums : i # k \/ k \in ibitmap \/ Blank(k) => dinode'[i] = dinode[i] /\ dents'[i] = dents[i]

(* The slot of the inode that p frees is in use and locked by p. *)
LEMMA FreesSlot ==
    ASSUME Before, NEW p \in Procs, NEW s, NEW k, NEW r2, Frees(p, s, k, r2)
    PROVE  Usable(s) /\ s \in Slots /\ Live(s) /\ k \in Inums /\ icache[s].lock = p
<1>1. Usable(s) /\ icache[s].lock = p
  BY BeforeParts, Freeing DEF Frees
<1>q. QED BY <1>1 DEF Usable, Live, Inum, Frees

(* When the inode is marked as free nobody else has it and no name leads   *)
(* to it.                                                                  *)
LEMMA FreesDead ==
    ASSUME Before, NEW p \in Procs, NEW s, NEW k, NEW r2, Frees(p, s, k, r2), k \notin ibitmap'
    PROVE  LL(k) = {} /\ Firms(k)' = {} /\ k # EXT2INO
<1>0. /\ MInv /\ KeptOK /\ FreeOK /\ ValidOK /\ CountOK /\ DirsOK /\ DiskTypes
      /\ Usable(s) /\ s \in Slots /\ Live(s) /\ k \in Inums /\ icache[s].lock = p /\ nullptr \notin Procs
      /\ Still(p, r2) /\ r2.pc \in PastPcs /\ s = Put(proc[p], 1) /\ k = Inum(s)
  BY BeforeParts, FreesSlot, Ext2Assumption DEF Frees
<1>1. CASE k \notin ibitmap
  <2>1. LL(k) = {}
    BY <1>0, <1>1, NoLinks
  <2>2. Firms(k) = {}
    BY <1>0, <1>1 DEF KeptOK, Firms
  <2>3. Firms(k)' = {}
    BY <1>0, <2>2, StillFirms
  <2>q. QED BY <1>0, <2>1, <2>3, LinkedLinks DEF Linked
<1>2. CASE k \in ibitmap
  <2>1. proc[p].pc = "ifree"
    BY <1>2 DEF Frees
  <2>2. Firms(k) \subseteq {<<"put1", p>>} /\ icache[s].nlink = 0
    BY <1>0, <2>1 DEF FreeOK, FreeAt, FreePcs
  <2>3. ~Dying(s)
    BY <1>0, <2>1, DyingLocked DEF Dying, FreePcs
  <2>4. dinode[k].nlink = 0
    BY <1>0, <2>2, <2>3 DEF ValidOK, ValidAt, Matches
  <2>5. LL(k) = {}
    BY <1>0, <2>4, NoLinks
  <2>6. Firms(k)' = {}
    BY <1>0, <2>2, StillFirms
  <2>q. QED BY <1>0, <2>5, <2>6, LinkedLinks DEF Linked
<1>q. QED BY <1>1, <1>2

(* The inodes in use and the entries stay as they are, those of k aside. *)
LEMMA FreesLinks ==
    ASSUME Before, NEW p \in Procs, NEW s, NEW k, NEW r2, Frees(p, s, k, r2)
    PROVE  /\ \A i \in ibitmap' : i \in ibitmap /\ i \in Inums /\ dinode'[i] = dinode[i] /\ dents'[i] = dents[i]
           /\ \A i \in ibitmap : i # k => i \in ibitmap'
           /\ \A i : LN(i)' \subseteq LN(i) /\ LL(i)' \subseteq LL(i)
           /\ LD' \subseteq LD
<1>0. DiskTypes
  BY BeforeParts
<1>1. \A i \in ibitmap' : i \in ibitmap /\ i \in Inums /\ dinode'[i] = dinode[i] /\ dents'[i] = dents[i]
  BY <1>0 DEF Frees, DiskTypes
<1>2. \A i \in ibitmap : i # k => i \in ibitmap'
  BY DEF Frees
<1>3. \A i \in ibitmap' : IsDir(i)' <=> IsDir(i)
  BY <1>1 DEF IsDir
<1>4. ASSUME NEW i, NEW e \in LN(i)' PROVE e \in LN(i)
  <2>1. e = <<e[1], e[2]>>
    BY LinksNext DEF LinksWell
  <2>2. PICK d, n : e = <<d, n>>
    BY <2>1
  <2>3. d \in ibitmap' /\ IsDir(d)' /\ n \in Names /\ dents'[d][n] = i
    BY <1>4, <2>2, LinksNext DEF LinksWell
  <2>4. d \in ibitmap /\ IsDir(d) /\ dents[d][n] = i
    BY <1>1, <1>3, <2>3
  <2>q. QED BY <2>2, <2>3, <2>4, LinksAlways DEF LinksWell
<1>5. ASSUME NEW d \in LD' PROVE d \in LD /\ d \in ibitmap'
  <2>1. d \in ibitmap' /\ IsDir(d)' /\ (d = EXT2INO \/ LN(d)' # {})
    BY LinksNext DEF LinksWell
  <2>2. d \in ibitmap /\ IsDir(d) /\ (d = EXT2INO \/ LN(d) # {})
    BY <1>1, <1>3, <1>4, <2>1
  <2>q. QED BY <2>1, <2>2, LinksAlways DEF LinksWell
<1>6. ASSUME NEW i, NEW e \in LL(i)' PROVE e \in LL(i)
  <2>1. CASE e \in LN(i)'
    BY <1>4, <2>1, LinksAlways DEF LinksWell
  <2>2. CASE \E d \in LD' : e = <<d, "..">> /\ dents'[d][".."] = i
    <3>1. PICK d \in LD' : e = <<d, "..">> /\ dents'[d][".."] = i
      BY <2>2
    <3>2. d \in LD /\ dents[d][".."] = i
      BY <1>1, <1>5, <3>1
    <3>q. QED BY <3>1, <3>2, LinksAlways DEF LinksWell
  <2>q. QED BY <1>6, <2>1, <2>2, LinksNext DEF LinksWell
<1>q. QED BY <1>1, <1>2, <1>4, <1>5, <1>6

(* Freeing an inode takes it away from no place that counts on it. *)
LEMMA FreesKept ==
    ASSUME Before, NEW p \in Procs, NEW s, NEW k, NEW r2, Frees(p, s, k, r2)
    PROVE  KeptOK'
<1> SUFFICES ASSUME NEW x \in Places, Firm(x)'
             PROVE  (Inum(Holds(x)) \in ibitmap /\ dinode[Inum(Holds(x))].mode # "none")'
  BY DEF KeptOK
<1>0. KeptOK /\ DiskTypes /\ Still(p, r2)
  BY BeforeParts DEF Frees
<1>1. PICK i : i = Inum(Holds(x))'
  OBVIOUS
<1>2. Firm(x) /\ i = Inum(Holds(x)) /\ x \in Firms(i)'
  BY <1>0, <1>1, StillHolds DEF Firms
<1>3. i \in ibitmap /\ dinode[i].mode # "none"
  BY <1>0, <1>2 DEF KeptOK
<1>4. i \in ibitmap'
  BY <1>2, <1>3, FreesDead, FreesLinks
<1>5. dinode'[i] = dinode[i]
  BY <1>4, FreesLinks
<1>q. QED BY <1>1, <1>3, <1>4, <1>5

(* Freeing an inode takes no file from a process that writes. *)
LEMMA FreesWrites ==
    ASSUME Before, NEW p \in Procs, NEW s, NEW k, NEW r2, Frees(p, s, k, r2)
    PROVE  WritesOK'
<1> SUFFICES ASSUME NEW q \in Procs, NEW t \in Slots, proc'[q].pc = "write", icache'[t].lock = q
             PROVE  \E fd \in Fds : ofile'[q][fd] # 0 /\ ftable'[ofile'[q][fd]].ip = t
  BY DEF WritesOK
<1>0. /\ WritesOK /\ Still(p, r2) /\ r2.pc \in PastPcs /\ icache[s].lock = p /\ s \in Slots /\ nullptr \notin Procs
      /\ icache'[s].lock \in {p, nullptr} /\ \A u \in Slots \ {s} : icache'[u] = icache[u]
  BY BeforeParts, FreesSlot, Ext2Assumption DEF Frees
<1>1. q # p
  BY <1>0, StillProcs DEF PastPcs
<1>2. proc[q].pc = "write" /\ icache[t].lock = q
  BY <1>0, <1>1, StillProcs
<1>q. QED BY <1>0, <1>2 DEF WritesOK, Still

(* Freeing an inode, and clearing one that is free again, leaves alone     *)
(* what the others allocate.                                               *)
LEMMA FreesFresh ==
    ASSUME Before, NEW p \in Procs, NEW s, NEW k, NEW r2, Frees(p, s, k, r2)
    PROVE  FreshOK'
<1>0. /\ MInv /\ DiskTypes /\ KeptOK /\ FreshOK /\ Still(p, r2) /\ r2.pc \in PastPcs /\ k = Inum(s) /\ s \in Slots /\ k \in Inums
      /\ s = Put(proc[p], 1) /\ Live(s)
  BY BeforeParts, FreesSlot DEF Frees
<1>1. proc'[p] = r2 /\ \A q \in Procs \ {p} : proc'[q] = proc[q]
  BY <1>0, StillProcs
<1>2. r2.pc \notin Allocating /\ r2.pc # "ialloc_bitmap" /\ r2.pc \notin CreateIp \cup {"create_inode"}
  BY <1>0 DEF PastPcs, Allocating, CreateIp, CreateDir
<1>3. FreshAt(p)'
  BY <1>1, <1>2 DEF FreshAt
<1>4. ASSUME NEW q \in Procs, q # p PROVE FreshAt(q)'
  <2>0. FreshAt(q) /\ proc'[q] = proc[q]
    BY <1>0, <1>1, <1>4 DEF FreshOK
  <2>1. PICK r : r = proc[q]
    OBVIOUS
  <2>2. r \in Records /\ Shape(r)
    BY <1>0, <2>1 DEF MInv, Shapes
  <2>3. ASSUME r.pc \in Allocating
        PROVE  Fresh(r, r.ino)' /\ ((r.ino \in ibitmap)' <=> r.pc = "ialloc_iget") /\ Firms(r.ino)' = {}
    <3>1. PICK i : i = r.ino
      OBVIOUS
    <3>2. i \in Inums
      BY <2>2, <2>3, <3>1 DEF Records, Shape, Fits, Point, Allocating, IputPcs
    <3>3. Fresh(r, i) /\ Firms(i) = {} /\ (i \in ibitmap <=> r.pc = "ialloc_iget")
      BY <2>0, <2>1, <2>3, <3>1 DEF FreshAt
    <3>4. dinode'[i] = dinode[i] /\ dents'[i] = dents[i]
      BY <3>2, <3>3 DEF Frees, Fresh
    <3>5. Firms(i)' = {}
      BY <1>0, <3>3, StillFirms
    <3>6. i \in ibitmap => i \in ibitmap'
      <4> SUFFICES ASSUME i \in ibitmap, i \notin ibitmap' PROVE FALSE
        OBVIOUS
      <4>1. i = k /\ proc[p].pc = "ifree"
        BY DEF Frees
      <4>2. <<"put1", p>> \in Firms(k)
        <5>1. s # 0
          BY <1>0 DEF Slots
        <5>q. QED BY <1>0, <4>1, <5>1, FirmAlways, HoldsProc DEF FirmWell, Firms, PastPcs
      <4>q. QED BY <3>3, <4>1, <4>2
    <3>7. i \in ibitmap' => i \in ibitmap
      BY FreesLinks
    <3>q. QED BY <3>1, <3>3, <3>4, <3>5, <3>6, <3>7 DEF Fresh, Blank
  <2>4. ASSUME r.pc \in CreateIp \cup {"create_inode"}
        PROVE  /\ (Firms(Inum(r.ip)) \subseteq {<<"ip", q>>})'
               /\ r.pc = "create_inode" => Fresh(r, Inum(r.ip))'
    <3>1. r.ip # 0 /\ r.ip = proc[q].ip
      BY <2>1, <2>2, <2>4 DEF Records, Shape, Fits, Point, CreateIp, CreateDir, IputPcs, IpPoints
    <3>2. PICK i : i = Inum(r.ip)
      OBVIOUS
    <3>3. i \in Inums /\ Inum(r.ip)' = i
      BY <1>0, <3>1, <3>2, StillSlots
    <3>4. Firms(i) \subseteq {<<"ip", q>>}
      BY <2>0, <2>1, <2>4, <3>2 DEF FreshAt
    <3>5. <<"ip", q>> \in Firms(i)
      BY <2>1, <3>1, <3>2, FirmAlways, HoldsProc DEF FirmWell, Firms
    <3>6. i \in ibitmap
      BY <1>0, <3>5 DEF KeptOK, Firms
    <3>7. dinode'[i] = dinode[i] /\ dents'[i] = dents[i]
      BY <3>3, <3>6 DEF Frees
    <3>9. Firms(i)' \subseteq {<<"ip", q>>}
      BY <1>0, <3>4, StillFirms
    <3>10. r.pc = "create_inode" => Fresh(r, i)'
      BY <2>0, <2>1, <3>2, <3>7 DEF FreshAt, Fresh, Blank
    <3>11. (Firms(Inum(r.ip)) \subseteq {<<"ip", q>>})'
      BY <3>3, <3>9 DEF Firms
    <3>12. r.pc = "create_inode" => Fresh(r, Inum(r.ip))'
      BY <3>3, <3>10 DEF Fresh, Blank
    <3>q. QED BY <3>11, <3>12
  <2>q. QED BY <2>0, <2>1, <2>3, <2>4 DEF FreshAt
<1>5. \A q \in Procs : FreshAt(q)'
  BY <1>3, <1>4
<1>q. QED BY <1>0, <1>1, <1>2, <1>5 DEF FreshOK

(* What q has in a place of its own is in use. *)
LEMMA HasKept ==
    ASSUME Before, NEW q \in Procs, NEW u, u # 0, u \in {proc[q].n, proc[q].ip, proc[q].dp}
    PROVE  Inum(u) \in ibitmap
<1>1. Owned(q, u)
  BY OwnPlaces
<1>q. QED BY <1>1, OwnedKept, BeforeParts

(* Two processes that free inodes do not meet in one. *)
LEMMA FreesFree ==
    ASSUME Before, NEW p \in Procs, NEW s, NEW k, NEW r2, Frees(p, s, k, r2), NEW q \in Procs, q # p
    PROVE  FreeAt(q)'
<1>0. /\ MInv /\ FreeAt(q) /\ Still(p, r2) /\ proc'[q] = proc[q] /\ Live(s) /\ s \in Slots /\ icache[s].lock = p
      /\ k = Inum(s) /\ k \in Inums
  BY BeforeParts, FreesSlot, StillProcs DEF FreeOK, Frees
<1>1. CASE proc[q].pc \notin FreePcs
  BY <1>0, <1>1 DEF FreeAt, FreePcs
<1>2. CASE proc[q].pc \in FreePcs
  <2>1. PICK r : r = proc[q]
    OBVIOUS
  <2>2. PICK t : t = Put(r, 1)
    OBVIOUS
  <2>3. t # 0
    BY <1>0, <1>2, <2>1, <2>2 DEF MInv, Shapes, Shape, FreePcs, IputPcs
  <2>4. Usable(t) /\ t \in Slots /\ Live(t) /\ Inum(t) \in Inums /\ Inum(t)' = Inum(t)
    BY <1>0, <2>1, <2>2, <2>3, StillSlots
  <2>5. icache[t].lock = q
    BY <1>0, <1>2, <2>1, <2>2, <2>4, DyingLocked
  <2>6. t # s /\ icache'[t] = icache[t] /\ Inum(t) # k
    <3>1. t # s
      BY <1>0, <2>5
    <3>q. QED BY <1>0, <2>4, <3>1, SameSlot DEF Frees
  <2>7. PICK i : i = Inum(t)
    OBVIOUS
  <2>8. dinode'[i] = dinode[i] /\ dents'[i] = dents[i] /\ i # k /\ i \in Inums
    BY <2>4, <2>6, <2>7 DEF Frees
  <2>9. i \in ibitmap' => i \in ibitmap
    BY FreesLinks
  <2>10. Blank(i) => Blank(i)'
    BY <2>8 DEF Blank
  <2>11. Firms(i)' \subseteq Firms(i)
    BY <1>0, StillFirms
  <2>12. /\ r.pc \in FreePcs => icache[t].nlink = 0
         /\ r.pc = "ifree" => Firms(i) \subseteq {<<"put1", q>>}
         /\ r.pc = "bfree" => icache[t].blk # 0
         /\ r.pc = "ifree_update" => icache[t].blk = 0
         /\ r.pc \in {"bfree", "ifree_update"} /\ i \in ibitmap => Blank(i)
    BY <1>0, <2>1, <2>2, <2>7 DEF FreeAt
  <2>13. /\ r.pc \in FreePcs => icache'[t].nlink = 0
         /\ r.pc = "ifree" => Firms(i)' \subseteq {<<"put1", q>>}
         /\ r.pc = "bfree" => icache'[t].blk # 0
         /\ r.pc = "ifree_update" => icache'[t].blk = 0
         /\ r.pc \in {"bfree", "ifree_update"} /\ i \in ibitmap' => Blank(i)'
    BY <2>6, <2>9, <2>10, <2>11, <2>12
  <2>14. Inum(t)' = i /\ proc'[q] = r
    BY <1>0, <2>1, <2>4, <2>7
  <2>q. QED BY <2>2, <2>13, <2>14 DEF FreeAt
<1>q. QED BY <1>1, <1>2

(* What the calls have found out stays true. *)
LEMMA FreesCall ==
    ASSUME Before, NEW p \in Procs, NEW s, NEW k, NEW r2, Frees(p, s, k, r2), NEW q \in Procs
    PROVE  CallAt(q)'
<1>0. /\ MInv /\ DiskTypes /\ CallAt(q) /\ Still(p, r2) /\ icache[s].lock = p /\ s \in Slots
  BY BeforeParts, FreesSlot DEF CallsOK, Frees
<1>1. PICK r : r = proc[q]
  OBVIOUS
<1>2. r \in Records /\ Shape(r)
  BY <1>0, <1>1 DEF MInv, Shapes
<1>e. PICK e : e = proc'[q]
  OBVIOUS
<1>f. /\ e.ip = r.ip /\ e.dp = r.dp /\ e.call = r.call /\ e.rest = r.rest
      /\ q # p => e = r
  BY <1>0, <1>1, <1>e, StillProcs
<1>p. q = p => e.pc \in PastPcs /\ r.pc \in FreePcs /\ Point(e) = Point(r)
  BY <1>0, <1>1, <1>e, StillProcs DEF Frees
<1>pt. Point(e) = Point(r) /\ (LinkSide(e) <=> LinkSide(r)) /\ LastOf(e) = LastOf(r)
  BY <1>f, <1>p DEF LinkSide, LastOf
<1>3. ASSUME NEW u, u # 0, u \in {r.ip, r.dp}
      PROVE  /\ Inum(u)' = Inum(u) /\ u \in Slots
             /\ dinode'[Inum(u)] = dinode[Inum(u)] /\ dents'[Inum(u)] = dents[Inum(u)]
             /\ IsDir(Inum(u))' <=> IsDir(Inum(u))
  <2>1. Inum(u)' = Inum(u) /\ u \in Slots /\ Inum(u) \in Inums
    BY <1>0, <1>1, <1>3, StillSlots
  <2>2. Inum(u) \in ibitmap
    BY <1>1, <1>3, HasKept
  <2>3. dinode'[Inum(u)] = dinode[Inum(u)] /\ dents'[Inum(u)] = dents[Inum(u)]
    BY <2>1, <2>2 DEF Frees
  <2>4. IsDir(Inum(u))' <=> IsDir(Inum(u))
    BY <2>1, <2>3 DEF IsDir
  <2>q. QED BY <2>1, <2>3, <2>4
<1>5. ASSUME LinkSide(r) PROVE r.ip # 0
  BY <1>2, <1>5 DEF LinkSide, Shape, Fits, LinkIp, IpPoints
<1>6. ASSUME e.pc \in CreateIp \cup {"unlink_ip"}
      PROVE  r.ip # 0 /\ r.dp # 0 /\ e = r /\ q # p
  <2>0. q # p /\ e = r
    BY <1>f, <1>p, <1>6 DEF PastPcs, CreateIp, CreateDir
  <2>1. r.pc \notin IputPcs /\ r.pc \in IpPoints /\ r.pc \in DpPoints
    BY <1>6, <2>0 DEF CreateIp, CreateDir, IputPcs, IpPoints, DpPoints
  <2>2. r.ip # 0 /\ r.dp # 0
    BY <1>2, <2>1 DEF Shape, Fits, Point
  <2>q. QED BY <2>0, <2>2
<1>7. ASSUME e.pc \in CreateIp PROVE icache'[r.ip] = icache[r.ip]
  <2>1. r.pc \notin IputPcs /\ r.pc # "write" /\ r.pc \in IpLocked /\ q # p /\ r.ip # 0 /\ r.ip \in Slots
    BY <1>3, <1>6, <1>7 DEF CreateIp, CreateDir, IputPcs, IpLocked
  <2>2. Point(r) = r.pc
    BY <2>1 DEF Point
  <2>3. icache[r.ip].lock = q
    BY <1>0, <1>1, <2>1, <2>2 DEF MInv, LocksOK, Locks, LocksAt
  <2>q. QED BY <1>0, <2>1, <2>3 DEF Frees
<1>8. /\ Point(e) = "namex" => \A j \in 1..Len(e.rest) : e.rest[j] # ".."
      /\ e.pc \in Naming => LastOf(e) \in Names
  <2>1. /\ Point(r) = "namex" => \A j \in 1..Len(r.rest) : r.rest[j] # ".."
        /\ r.pc \in Naming => LastOf(r) \in Names
    BY <1>0, <1>1 DEF CallAt
  <2>2. e.pc \in Naming => e = r
    BY <1>f, <1>p DEF PastPcs, Naming, CreateIp, CreateDir
  <2>q. QED BY <1>f, <1>pt, <2>1, <2>2
<1>9. /\ e.dp # 0 => IsDir(Inum(e.dp))'
      /\ LinkSide(e) => ~IsDir(Inum(e.ip))'
  <2>1. /\ r.dp # 0 => IsDir(Inum(r.dp))
        /\ LinkSide(r) => ~IsDir(Inum(r.ip))
    BY <1>0, <1>1 DEF CallAt
  <2>2. /\ r.dp # 0 => IsDir(Inum(r.dp))'
        /\ LinkSide(r) => ~IsDir(Inum(r.ip))'
    BY <1>3, <1>5, <2>1
  <2>3. /\ Inum(e.dp)' = Inum(r.dp)' /\ Inum(e.ip)' = Inum(r.ip)'
    BY <1>f DEF Inum
  <2>4. /\ IsDir(Inum(e.dp))' <=> IsDir(Inum(r.dp))'
        /\ IsDir(Inum(e.ip))' <=> IsDir(Inum(r.ip))'
    BY <2>3 DEF IsDir
  <2>q. QED BY <1>f, <1>pt, <2>2, <2>4
<1>10. /\ e.pc \in CreateIp => icache'[e.ip].nlink = 1 /\ icache'[e.ip].type = TypeOf(e.call.op)
       /\ e.pc \in {"create_parent", "create_block"} => icache'[e.ip].blk = 0
  <2>1. /\ r.pc \in CreateIp => icache[r.ip].nlink = 1 /\ icache[r.ip].type = TypeOf(r.call.op)
        /\ r.pc \in {"create_parent", "create_block"} => icache[r.ip].blk = 0
    BY <1>0, <1>1 DEF CallAt
  <2>2. {"create_parent", "create_block"} \subseteq CreateIp
    BY DEF CreateIp, CreateDir
  <2>q. QED BY <1>f, <1>6, <1>7, <2>1, <2>2
<1>11. /\ e.pc = "create_link" /\ e.call.op = "mkdir" =>
              (dents[Inum(e.ip)]["."] = Inum(e.ip) /\ dents[Inum(e.ip)][".."] = Inum(e.dp))'
       /\ e.pc = "create_dotdot" => (dents[Inum(e.ip)]["."] = Inum(e.ip))'
       /\ e.pc = "unlink_ip" => (dents[Inum(e.dp)][LastOf(e)] = Inum(e.ip))'
  <2>1. /\ r.pc = "create_link" /\ r.call.op = "mkdir" =>
              (dents[Inum(r.ip)]["."] = Inum(r.ip) /\ dents[Inum(r.ip)][".."] = Inum(r.dp))
        /\ r.pc = "create_dotdot" => (dents[Inum(r.ip)]["."] = Inum(r.ip))
        /\ r.pc = "unlink_ip" => (dents[Inum(r.dp)][LastOf(r)] = Inum(r.ip))
    BY <1>0, <1>1 DEF CallAt
  <2>2. "create_link" \in CreateIp /\ "create_dotdot" \in CreateIp
    BY DEF CreateIp, CreateDir
  <2>3. ASSUME e.pc \in CreateIp \cup {"unlink_ip"}
        PROVE  /\ Inum(e.ip)' = Inum(r.ip) /\ Inum(e.dp)' = Inum(r.dp)
               /\ dents'[Inum(r.ip)] = dents[Inum(r.ip)] /\ dents'[Inum(r.dp)] = dents[Inum(r.dp)] /\ e = r
    BY <1>3, <1>6, <2>3
  <2>q. QED BY <2>1, <2>2, <2>3
<1>q. QED BY <1>e, <1>8, <1>9, <1>10, <1>11 DEF CallAt

(* The other slots keep matching the disk. *)
LEMMA FreesValid ==
    ASSUME Before, NEW p \in Procs, NEW s, NEW k, NEW r2, Frees(p, s, k, r2), NEW t \in Slots, t # s
    PROVE  ValidAt(t)'
<1>0. /\ MInv /\ ValidAt(t) /\ Still(p, r2) /\ s \in Slots /\ Live(s) /\ k = Inum(s) /\ s = Put(proc[p], 1)
      /\ r2.pc \in PastPcs /\ proc[p].pc \in FreePcs /\ icache'[t] = icache[t]
  BY BeforeParts, FreesSlot DEF ValidOK, Frees
<1>1. /\ proc'[p] = r2 /\ \A q \in Procs \ {p} : proc'[q] = proc[q]
      /\ \A q \in Procs : Put(proc'[q], 1) = Put(proc[q], 1)
      /\ Inum(t)' = Inum(t) /\ (Live(t)' <=> Live(t))
  BY <1>0, StillProcs
<1>2. Dying(t)' <=> Dying(t)
  BY <1>0, <1>1 DEF Dying
<1>3. LateBlock(t)' <=> LateBlock(t)
  <2>1. r2.pc \notin {"write", "create_dot"} /\ proc[p].pc \notin {"write", "create_dot"}
    BY <1>0 DEF PastPcs, FreePcs
  <2>q. QED BY <1>0, <1>1, <2>1 DEF LateBlock
<1>4. ASSUME Live(t), Inum(t) \in ibitmap, Matches(t) PROVE Inum(t) \in ibitmap' /\ Matches(t)'
  <2>1. Inum(t) # k
    BY <1>0, <1>4, SameSlot
  <2>2. Inum(t) \in ibitmap'
    BY <1>4, <2>1, FreesLinks
  <2>3. dinode'[Inum(t)] = dinode[Inum(t)]
    BY <2>2, FreesLinks
  <2>q. QED BY <1>0, <1>1, <1>3, <1>4, <2>2, <2>3 DEF Matches
<1>q. QED BY <1>0, <1>1, <1>2, <1>4 DEF ValidAt

(* The inode that is freed had no entries: the other counts stay right. *)
LEMMA FreesCount ==
    ASSUME Before, NEW p \in Procs, NEW s, NEW k, NEW r2, Frees(p, s, k, r2)
    PROVE  CountOK'
<1> SUFFICES ASSUME NEW i \in ibitmap'
             PROVE  dinode'[i].nlink >= Cardinality(LL(i)') + Cardinality(Owed(i)')
  BY DEF CountOK, LL
<1>0. DiskTypes /\ CountOK /\ Still(p, r2)
  BY BeforeParts DEF Frees
<1>1. i \in ibitmap /\ i \in Inums /\ dinode'[i] = dinode[i] /\ LL(i)' \subseteq LL(i)
  BY FreesLinks
<1>2. Owed(i)' = Owed(i)
  BY <1>0, StillOwed
<1>3. IsFiniteSet(LL(i)) /\ Cardinality(LL(i)) \in Nat
  BY <1>0, LinksFinite DEF LinksFew
<1>4. PICK S : S = LL(i)'
  OBVIOUS
<1>5. IsFiniteSet(S) /\ Cardinality(S) <= Cardinality(LL(i)) /\ Cardinality(S) \in Nat
  BY <1>1, <1>3, <1>4, FS_Subset, FS_CardinalityType
<1>6. PICK a, b, c, n : a = Cardinality(LL(i)) /\ b = Cardinality(S) /\ c = Cardinality(Owed(i)) /\ n = dinode[i].nlink
  OBVIOUS
<1>7. a \in Nat /\ b \in Nat /\ c \in Nat /\ n \in Int /\ b <= a
  BY <1>0, <1>1, <1>3, <1>5, <1>6, OwedSplit DEF OwedCounts, DiskTypes, Entries
<1>8. n >= a + c
  BY <1>0, <1>1, <1>6 DEF CountOK, LL
<1>9. n >= b + c
  BY <1>7, <1>8
<1>q. QED BY <1>1, <1>2, <1>4, <1>6, <1>9

(* No directory loses an entry when another inode is freed. *)
LEMMA FreesDirs ==
    ASSUME Before, NEW p \in Procs, NEW s, NEW k, NEW r2, Frees(p, s, k, r2)
    PROVE  DirsOK'
<1>0. DirsOK /\ DiskTypes
  BY BeforeParts
<1>1. /\ \A i \in ibitmap' : i \in ibitmap /\ i \in Inums /\ dinode'[i] = dinode[i] /\ dents'[i] = dents[i]
      /\ \A i \in ibitmap : i # k => i \in ibitmap'
      /\ \A i : LN(i)' \subseteq LN(i)
  BY FreesLinks
<1>2. k \notin ibitmap' => LN(k) = {} /\ k # EXT2INO
  BY FreesDead, LinksAlways DEF LinksWell
<1>3. EXT2INO \in ibitmap' /\ IsDir(EXT2INO)'
  BY <1>0, <1>1, <1>2 DEF DirsOK, IsDir
<1>4. LN(EXT2INO)' = {} /\ dents'[EXT2INO][".."] = EXT2INO
  BY <1>0, <1>1, <1>3 DEF DirsOK, LN
<1>5. ASSUME NEW i \in Inums, LN(i)' # {} PROVE i \in ibitmap' /\ dinode'[i].mode # "none"
  <2>1. LN(i) # {}
    BY <1>1, <1>5
  <2>2. i \in ibitmap /\ dinode[i].mode # "none"
    BY <1>0, <2>1 DEF DirsOK, LN
  <2>q. QED BY <1>1, <1>2, <2>1, <2>2
<1>6. ASSUME NEW i \in DirsOf(Disk)' PROVE \A e, f \in LN(i)' : e = f /\ dents'[i][".."] = e[1]
  <2>1. i \in ibitmap' /\ IsDir(i)'
    BY LinksNext DEF LinksWell
  <2>2. i \in ibitmap /\ IsDir(i) /\ dents'[i] = dents[i]
    BY <1>1, <2>1 DEF IsDir
  <2>3. i \in DirsOf(Disk)
    BY <2>2, LinksAlways DEF LinksWell
  <2>q. QED BY <1>0, <1>1, <2>2, <2>3 DEF DirsOK, LN
<1>q. QED BY <1>3, <1>4, <1>5, <1>6 DEF DirsOK, LN

(* A directory that another process is building is still being built. *)
LEMMA StillBuilding ==
    ASSUME Before, NEW p \in Procs, NEW r2, Still(p, r2), NEW i, Building(i),
           proc[p].pc \notin {"create_inode", "create_parent", "create_block", "create_dot"}
    PROVE  Building(i)'
<1>1. PICK q \in Procs : proc[q].pc \in {"create_inode", "create_parent", "create_block", "create_dot"} /\ Inum(proc[q].ip) = i
  BY DEF Building
<1>2. q # p /\ proc'[q] = proc[q]
  BY <1>1, StillProcs
<1>3. proc[q].ip # 0
  BY <1>1, BeforeParts, NothingToPut DEF Fits, IpPoints, CreateIp, CreateDir, IputPcs
<1>4. Inum(proc[q].ip)' = i
  <2>1. PICK u : u = proc[q].ip
    OBVIOUS
  <2>2. Inum(u)' = Inum(u)
    BY <1>3, <2>1, StillSlots
  <2>q. QED BY <1>1, <1>2, <2>1, <2>2 DEF Inum
<1>q. QED BY <1>1, <1>2, <1>4 DEF Building

(* The other directories keep their own entries. *)
LEMMA FreesSelf ==
    ASSUME Before, NEW p \in Procs, NEW s, NEW k, NEW r2, Frees(p, s, k, r2)
    PROVE  SelfOK'
<1> SUFFICES ASSUME NEW i \in ibitmap', IsDir(i)', Firms(i)' # {} \/ i \in LD'
             PROVE  dents'[i]["."] = i \/ Building(i)'
  BY DEF SelfOK, LD
<1>0. SelfOK /\ Still(p, r2) /\ proc[p].pc \in FreePcs
  BY BeforeParts DEF Frees
<1>1. i \in ibitmap /\ dinode'[i] = dinode[i] /\ dents'[i] = dents[i] /\ LD' \subseteq LD
  BY FreesLinks
<1>2. IsDir(i)
  BY <1>1 DEF IsDir
<1>3. Firms(i) # {} \/ i \in LD
  BY <1>0, <1>1, StillFirms
<1>4. dents[i]["."] = i \/ Building(i)
  BY <1>0, <1>1, <1>2, <1>3 DEF SelfOK, LD
<1>5. proc[p].pc \notin {"create_inode", "create_parent", "create_block", "create_dot"}
  BY <1>0 DEF FreePcs
<1>q. QED BY <1>0, <1>1, <1>4, <1>5, StillBuilding

(* The invariant after a step of the freeing, from what the step itself    *)
(* must see to.                                                            *)
LEMMA FreesStep ==
    ASSUME Before, NEW p \in Procs, NEW s, NEW k, NEW r2, Frees(p, s, k, r2),
           ValidAt(s)', FreeAt(p)', BlocksOK', ~panic'
    PROVE  DInv'
<1>1. KeptOK' /\ WritesOK' /\ FreshOK'
  BY FreesKept, FreesWrites, FreesFresh
<1>2. FreeOK' /\ CallsOK'
  BY FreesFree, FreesCall DEF FreeOK, CallsOK
<1>3. ValidOK'
  BY FreesValid DEF ValidOK
<1>4. CountOK' /\ DirsOK' /\ SelfOK'
  BY FreesCount, FreesDirs, FreesSelf
<1>q. QED BY <1>1, <1>2, <1>3, <1>4 DEF DInv

(* What makes a step of the freeing one. *)
LEMMA FreesGoto ==
    ASSUME Before, NEW p \in Procs, proc[p].pc \in FreePcs, NEW pc \in PastPcs, NEW r2, r2 = [proc[p] EXCEPT !.pc = pc],
           Become(p, r2), UNCHANGED <<ftable, ofile, cwd>>,
           \A t \in Slots : icache'[t].inum = icache[t].inum /\ icache'[t].ref = icache[t].ref
    PROVE  Still(p, r2) /\ r2.pc = pc /\ Point(r2) = Point(proc[p]) /\ Put(r2, 1) = Put(proc[p], 1)
<1>0. proc[p] \in Records
  BY BeforeParts DEF MInv, Shapes
<1>1. pc \in Points \cup IputPcs /\ pc \in IputPcs /\ proc[p].pc \in IputPcs
  BY DEF PastPcs, IputPcs, FreePcs
<1>2. /\ r2.pc = pc /\ r2.ret = proc[p].ret /\ r2.call = proc[p].call /\ r2.rest = proc[p].rest
      /\ r2.n = proc[p].n /\ r2.ip = proc[p].ip /\ r2.dp = proc[p].dp
      /\ Put(r2, 1) = Put(proc[p], 1) /\ Put(r2, 2) = Put(proc[p], 2)
  BY <1>0, <1>1, GotoFields
<1>3. Point(r2) = Point(proc[p])
  BY <1>1, <1>2 DEF Point
<1>4. (OwesIp(r2) <=> OwesIp(proc[p])) /\ (OwesDp(r2) <=> OwesDp(proc[p]))
  BY <1>2, <1>3 DEF OwesIp, OwesDp, LinkSide
<1>q. QED BY <1>2, <1>3, <1>4 DEF Still

(* ext2fs_ifree() clears a bit that is set, so it does not panic, and      *)
(* nobody needs the inode.                                                 *)
LEMMA IfreeD ==
    ASSUME Before, After, NEW p \in Procs, Ifree(p)
    PROVE  DInv'
<1>0. MInv /\ KeptOK /\ FreeOK /\ ValidOK /\ BlocksOK /\ proc[p].pc = "ifree" /\ proc[p].pc \in FreePcs /\ proc \in [Procs -> Records]
  BY BeforeParts DEF Ifree, At, FreePcs, MInv, Shapes
<1>1. PICK s : s = Put(proc[p], 1)
  OBVIOUS
<1>2. /\ icache[s].lock = p /\ Head(proc[p].puts) = s /\ Usable(s) /\ s \in Slots /\ Live(s)
  BY <1>0, <1>1, Freeing DEF Usable, Live
<1>3. PICK k : k = Inum(s)
  OBVIOUS
<1>4. PICK pc \in {"bfree", "ifree_update"} : pc = IF icache[s].blk # 0 THEN "bfree" ELSE "ifree_update"
  OBVIOUS
<1>5. PICK r2 : r2 = [proc[p] EXCEPT !.pc = pc]
  OBVIOUS
<1>6. /\ icache' = icache /\ Become(p, r2) /\ UNCHANGED <<ftable, ofile, cwd>>
      /\ panic' = (k \notin ibitmap) /\ ibitmap' = ibitmap \ {k} /\ UNCHANGED <<bbitmap, dinode, dents>>
  BY <1>2, <1>3, <1>4, <1>5 DEF Ifree, Goto, Inum
<1>7. pc \in PastPcs
  BY DEF PastPcs
<1>8. Still(p, r2) /\ r2.pc = pc /\ Point(r2) = Point(proc[p]) /\ Put(r2, 1) = s
  BY <1>0, <1>1, <1>5, <1>6, <1>7, FreesGoto
<1>9. Frees(p, s, k, r2)
  BY <1>0, <1>1, <1>2, <1>3, <1>6, <1>7, <1>8 DEF Frees
<1>10. k \in ibitmap
  <2>1. Owned(p, s)
    <3>1. s # 0 /\ proc[p].pc \notin PastPcs
      BY <1>0, <1>2 DEF Slots, PastPcs
    <3>q. QED BY <1>1, <3>1, OwnPlaces
  <2>q. QED BY <1>0, <1>3, <2>1, OwnedKept
<1>11. proc'[p] = r2
  BY <1>0, <1>6 DEF Become
<1>12. ValidAt(s)'
  <2>1. Dying(s)'
    BY <1>8, <1>11 DEF Dying
  <2>2. ValidAt(s)
    BY <1>0, <1>2 DEF ValidOK
  <2>q. QED BY <1>2, <1>6, <2>1, <2>2 DEF ValidAt, Live
<1>13. FreeAt(p)'
  <2>1. icache[s].nlink = 0
    BY <1>0, <1>1 DEF FreeOK, FreeAt
  <2>2. Inum(s)' = k /\ k \notin ibitmap'
    BY <1>3, <1>6 DEF Inum
  <2>q. QED BY <1>4, <1>6, <1>8, <1>11, <2>1, <2>2 DEF FreeAt
<1>14. BlocksOK'
  <2>1. \A i, b : Owner(i, b)' => Owner(i, b)
    BY <1>6 DEF Owner, Live, Inum
  <2>q. QED BY <1>0, <1>6, <2>1 DEF BlocksOK
<1>15. ~panic'
  BY <1>6, <1>10
<1>q. QED BY <1>9, <1>12, <1>13, <1>14, <1>15, FreesStep

(* ext2fs_bfree() clears a bit that is set, so it does not panic: the      *)
(* block has this owner only.                                              *)
LEMMA BfreeD ==
    ASSUME Before, After, NEW p \in Procs, Bfree(p)
    PROVE  DInv'
<1>0. /\ MInv /\ FreeOK /\ ValidOK /\ BlocksOK /\ proc[p].pc = "bfree" /\ proc[p].pc \in FreePcs
      /\ proc \in [Procs -> Records] /\ icache \in [Slots -> SlotRecords] /\ DiskTypes /\ nullptr \notin Procs
  BY BeforeParts, Ext2Assumption DEF Bfree, At, FreePcs, MInv, Shapes, MemTypes
<1>1. PICK s : s = Put(proc[p], 1)
  OBVIOUS
<1>2. /\ icache[s].lock = p /\ Head(proc[p].puts) = s /\ Usable(s) /\ s \in Slots /\ Live(s)
  BY <1>0, <1>1, Freeing DEF Usable, Live
<1>3. PICK k : k = Inum(s)
  OBVIOUS
<1>4. PICK b : b = icache[s].blk
  OBVIOUS
<1>5. PICK r2 : r2 = [proc[p] EXCEPT !.pc = "ifree_update"]
  OBVIOUS
<1>6. /\ Become(p, r2) /\ UNCHANGED <<ftable, ofile, cwd>> /\ icache' = [icache EXCEPT ![s] = [icache[s] EXCEPT !.blk = 0]]
      /\ panic' = (b \notin bbitmap) /\ bbitmap' = bbitmap \ {b} /\ UNCHANGED <<ibitmap, dinode, dents>>
  BY <1>2, <1>4, <1>5 DEF Bfree, Goto, SetSlot
<1>7. "ifree_update" \in PastPcs
  BY DEF PastPcs
<1>c. /\ \A t \in Slots \ {s} : icache'[t] = icache[t]
      /\ icache'[s].inum = icache[s].inum /\ icache'[s].ref = icache[s].ref /\ icache'[s].valid = icache[s].valid
      /\ icache'[s].type = icache[s].type /\ icache'[s].nlink = icache[s].nlink /\ icache'[s].lock = icache[s].lock
      /\ icache'[s].blk = 0
  <2>1. icache[s] \in SlotRecords
    BY <1>0, <1>2
  <2>2. PICK z \in {0} : z = 0
    OBVIOUS
  <2>3. PICK v : v = [icache[s] EXCEPT !.blk = 0]
    OBVIOUS
  <2>4. /\ v.inum = icache[s].inum /\ v.ref = icache[s].ref /\ v.valid = icache[s].valid /\ v.type = icache[s].type
        /\ v.nlink = icache[s].nlink /\ v.lock = icache[s].lock /\ v.blk = 0
    BY <2>1, <2>3 DEF SlotRecords
  <2>5. icache'[s] = v /\ \A t \in Slots \ {s} : icache'[t] = icache[t]
    BY <1>0, <1>2, <1>6, <2>3
  <2>q. QED BY <2>4, <2>5
<1>d. \A t \in Slots : icache'[t].inum = icache[t].inum /\ icache'[t].ref = icache[t].ref
  BY <1>c
<1>8. Still(p, r2) /\ r2.pc = "ifree_update" /\ Point(r2) = Point(proc[p]) /\ Put(r2, 1) = s
  BY <1>0, <1>1, <1>5, <1>6, <1>7, <1>d, FreesGoto
<1>9. Frees(p, s, k, r2)
  BY <1>0, <1>1, <1>2, <1>3, <1>6, <1>7, <1>8, <1>c DEF Frees
<1>10. icache[s].valid /\ icache[s].type # "none" /\ icache[s].nlink = 0 /\ b # 0 /\ (k \in ibitmap => Blank(k))
  <2>1. ValidAt(s) /\ FreeAt(p)
    BY <1>0, <1>2 DEF ValidOK, FreeOK
  <2>q. QED BY <1>0, <1>1, <1>2, <1>3, <1>4, <2>1 DEF ValidAt, FreeAt
<1>11. proc'[p] = r2
  BY <1>0, <1>6 DEF Become
<1>12. ValidAt(s)'
  <2>1. Dying(s)'
    BY <1>8, <1>11 DEF Dying
  <2>q. QED BY <1>10, <1>c, <2>1 DEF ValidAt
<1>13. FreeAt(p)'
  <2>1. Inum(s)' = k
    BY <1>3, <1>c DEF Inum
  <2>2. Blank(k)' <=> Blank(k)
    BY <1>6 DEF Blank
  <2>3. Blank(Inum(s))' <=> Blank(k)'
    BY <2>1 DEF Blank
  <2>q. QED BY <1>6, <1>8, <1>10, <1>11, <1>c, <2>1, <2>2, <2>3 DEF FreeAt
<1>14. b \in Blocks /\ k \in Inums /\ 0 \notin Blocks
  <2>1. icache[s] \in SlotRecords
    BY <1>0, <1>2
  <2>q. QED BY <1>2, <1>3, <1>4, <1>10, <2>1, Ext2Assumption DEF SlotRecords, Usable, Inum
<1>15. Owner(k, b)
  BY <1>2, <1>3, <1>4, <1>10 DEF Owner
<1>16. b \in bbitmap /\ \A j \in Inums : Owner(j, b) => k = j
  BY <1>0, <1>14, <1>15 DEF BlocksOK
<1>17. ASSUME NEW i \in Inums, NEW c \in Blocks, Owner(i, c)' PROVE Owner(i, c) /\ c # b
  <2>1. CASE i \in ibitmap' /\ dinode'[i].blk = c
    <3>1. i \in ibitmap /\ dinode[i].blk = c
      BY <1>6, <2>1
    <3>2. Owner(i, c)
      BY <3>1 DEF Owner
    <3>3. c # b
      BY <1>10, <1>14, <1>16, <3>1, <3>2 DEF Blank
    <3>q. QED BY <3>2, <3>3
  <2>2. CASE \E t \in Slots : Live(t)' /\ icache'[t].valid /\ Inum(t)' = i /\ icache'[t].blk = c
    <3>1. PICK t \in Slots : Live(t)' /\ icache'[t].valid /\ Inum(t)' = i /\ icache'[t].blk = c
      BY <2>2
    <3>2. t # s
      BY <1>c, <1>14, <3>1
    <3>3. Live(t) /\ icache[t].valid /\ Inum(t) = i /\ icache[t].blk = c
      BY <1>c, <3>1, <3>2 DEF Live, Inum
    <3>4. Owner(i, c)
      BY <3>3 DEF Owner
    <3>5. i # k
      BY <1>0, <1>2, <1>3, <3>2, <3>3, SameSlot
    <3>q. QED BY <1>16, <3>4, <3>5
  <2>q. QED BY <1>17, <2>1, <2>2 DEF Owner
<1>18. BlocksOK'
  BY <1>0, <1>6, <1>17 DEF BlocksOK
<1>19. ~panic'
  BY <1>6, <1>16
<1>q. QED BY <1>9, <1>12, <1>13, <1>18, <1>19, FreesStep

(* The iupdate() of the freed inode writes nothing that a process which    *)
(* has allocated it since could miss.                                      *)
LEMMA IfreeUpdateD ==
    ASSUME Before, After, NEW p \in Procs, IfreeUpdate(p)
    PROVE  DInv'
<1>0. /\ MInv /\ FreeOK /\ BlocksOK /\ proc[p].pc = "ifree_update" /\ proc[p].pc \in FreePcs
      /\ proc \in [Procs -> Records] /\ icache \in [Slots -> SlotRecords] /\ DiskTypes /\ nullptr \notin Procs
  BY BeforeParts, Ext2Assumption DEF IfreeUpdate, At, FreePcs, MInv, Shapes, MemTypes
<1>1. PICK s : s = Put(proc[p], 1)
  OBVIOUS
<1>2. /\ icache[s].lock = p /\ Head(proc[p].puts) = s /\ Usable(s) /\ s \in Slots /\ Live(s) /\ icache[s] \in SlotRecords
  BY <1>0, <1>1, Freeing DEF Usable, Live
<1>3. PICK k : k = Inum(s)
  OBVIOUS
<1>4. PICK i : i = [icache[s] EXCEPT !.type = "none"]
  OBVIOUS
<1>5. PICK r2 : r2 = [proc[p] EXCEPT !.pc = "iput_drop"]
  OBVIOUS
<1>6. PICK v : v = [Unlocked(i) EXCEPT !.valid = FALSE]
  OBVIOUS
<1>i. i \in SlotRecords /\ i.inum = k /\ i.type = "none" /\ i.nlink = icache[s].nlink /\ i.blk = icache[s].blk /\ i.ref = icache[s].ref
  <2>1. "none" \in Types
    BY DEF Types
  <2>q. QED BY <1>2, <1>3, <1>4, <2>1 DEF SlotRecords, Inum
<1>v. v.inum = icache[s].inum /\ v.ref = icache[s].ref /\ v.lock = nullptr /\ v.valid = FALSE
  BY <1>i, <1>6, <1>3 DEF SlotRecords, Unlocked, Inum
<1>7. /\ Become(p, r2) /\ UNCHANGED <<ftable, ofile, cwd>> /\ icache' = [icache EXCEPT ![s] = v] /\ Iupdate(i)
      /\ UNCHANGED <<ibitmap, bbitmap, panic>>
  BY <1>2, <1>4, <1>5, <1>6 DEF IfreeUpdate, Goto, SetSlot
<1>7a. dents' = [dents EXCEPT ![k] = NoDents]
  <2>1. dents' = [dents EXCEPT ![i.inum] = NoDents]
    BY <1>2, <1>4 DEF IfreeUpdate
  <2>q. QED BY <1>i, <2>1
<1>c. icache'[s] = v /\ \A t \in Slots \ {s} : icache'[t] = icache[t]
  BY <1>0, <1>2, <1>7
<1>d. \A t \in Slots : icache'[t].inum = icache[t].inum /\ icache'[t].ref = icache[t].ref
  BY <1>c, <1>v
<1>8. "iput_drop" \in PastPcs
  BY DEF PastPcs
<1>9. Still(p, r2) /\ r2.pc = "iput_drop" /\ Point(r2) = Point(proc[p])
  BY <1>0, <1>5, <1>7, <1>8, <1>d, FreesGoto
<1>10. icache[s].nlink = 0 /\ icache[s].blk = 0 /\ (k \in ibitmap => Blank(k))
  <2>1. FreeAt(p)
    BY <1>0 DEF FreeOK
  <2>q. QED BY <1>0, <1>1, <1>3, <2>1 DEF FreeAt
<1>11. k \in Inums /\ dinode \in [Inums -> Entries] /\ dents \in [Inums -> [DirNames -> Inums \cup {0}]]
  BY <1>0, <1>2, <1>3 DEF Usable, Inum, DiskTypes
<1>12. \A j \in Inums : j # k => dinode'[j] = dinode[j] /\ dents'[j] = dents[j]
  BY <1>i, <1>7, <1>7a, <1>11 DEF Iupdate
<1>13. Blank(k) => dinode'[k] = dinode[k] /\ dents'[k] = dents[k]
  <2> SUFFICES ASSUME Blank(k) PROVE dinode'[k] = dinode[k] /\ dents'[k] = dents[k]
    OBVIOUS
  <2>1. dents'[k] = NoDents /\ dents[k] = NoDents
    BY <1>7a, <1>11 DEF Blank
  <2>2. dinode'[k] = IupdateEntry(i)
    BY <1>i, <1>7, <1>11 DEF Iupdate
  <2>3. IupdateEntry(i) = [mode |-> dinode[k].mode, nlink |-> 0, blk |-> 0]
    BY <1>i, <1>10 DEF IupdateEntry
  <2>4. dinode[k] = [mode |-> dinode[k].mode, nlink |-> 0, blk |-> 0]
    BY <1>11 DEF Blank, Entries
  <2>q. QED BY <2>1, <2>2, <2>3, <2>4
<1>14. \A j \in Inums : j # k \/ k \in ibitmap \/ Blank(k) => dinode'[j] = dinode[j] /\ dents'[j] = dents[j]
  BY <1>10, <1>12, <1>13
<1>15. Frees(p, s, k, r2)
  BY <1>0, <1>1, <1>3, <1>7, <1>8, <1>9, <1>14, <1>c, <1>v DEF Frees
<1>16. proc'[p] = r2
  BY <1>0, <1>7 DEF Become
<1>17. ValidAt(s)'
  BY <1>c, <1>v DEF ValidAt
<1>18. FreeAt(p)'
  BY <1>9, <1>16 DEF FreeAt, FreePcs
<1>19. ASSUME NEW j \in Inums, NEW b \in Blocks, Owner(j, b)' PROVE Owner(j, b)
  <2>1. CASE j \in ibitmap' /\ dinode'[j].blk = b
    <3>1. j \in ibitmap /\ dinode'[j] = dinode[j]
      BY <1>15, <2>1, FreesLinks
    <3>q. QED BY <2>1, <3>1 DEF Owner
  <2>2. CASE \E t \in Slots : Live(t)' /\ icache'[t].valid /\ Inum(t)' = j /\ icache'[t].blk = b
    BY <1>c, <1>v, <2>2 DEF Owner, Live, Inum
  <2>q. QED BY <1>19, <2>1, <2>2 DEF Owner
<1>20. BlocksOK'
  BY <1>0, <1>7, <1>19 DEF BlocksOK
<1>21. ~panic'
  BY <1>7 DEF Before, DInv
<1>q. QED BY <1>15, <1>17, <1>18, <1>20, <1>21, FreesStep

(* A step of ialloc(): inode i, which was free and which nobody has, is    *)
(* left blank and may be marked.                                           *)
Allocs(p, i, r2) ==
    /\ proc[p].pc \in {"ialloc", "ialloc_bitmap"} /\ r2.pc \in Allocating /\ r2.ino = i /\ i \in Inums
    /\ Still(p, r2)
    /\ icache' = icache /\ bbitmap' = bbitmap /\ panic' = panic
    /\ i \notin ibitmap /\ ibitmap' \in {ibitmap, ibitmap \cup {i}}
    /\ i \in ibitmap' <=> r2.pc = "ialloc_iget"
    /\ \A j \in Inums : j # i => dinode'[j] = dinode[j] /\ dents'[j] = dents[j]
    /\ Blank(i)' /\ dinode'[i].mode = TypeOf(r2.call.op)
    /\ \A q \in Procs \ {p} : proc[q].pc \in Allocating =>
          proc[q].ino # i /\ ~(r2.pc = "ialloc_bitmap" /\ proc[q].pc = "ialloc_bitmap")

(* A free inode is named by no place and no entry. *)
LEMMA AllocsUnused ==
    ASSUME Before, NEW p \in Procs, NEW i, NEW r2, Allocs(p, i, r2)
    PROVE  /\ Firms(i) = {} /\ Firms(i)' = {} /\ Owed(i) = {} /\ LL(i) = {} /\ i # EXT2INO
           /\ \A j \in ibitmap : j # i /\ j \in Inums /\ j \in ibitmap' /\ dinode'[j] = dinode[j] /\ dents'[j] = dents[j]
           /\ \A j \in ibitmap' : j # i => j \in ibitmap
<1>0. /\ MInv /\ KeptOK /\ DirsOK /\ CountOK /\ DiskTypes /\ Still(p, r2) /\ i \notin ibitmap /\ i \in Inums
      /\ ibitmap' \in {ibitmap, ibitmap \cup {i}} /\ \A j \in Inums : j # i => dinode'[j] = dinode[j] /\ dents'[j] = dents[j]
  BY BeforeParts DEF Allocs
<1>1. Firms(i) = {}
  BY <1>0 DEF KeptOK, Firms
<1>2. Firms(i)' = {}
  BY <1>0, <1>1, StillFirms
<1>3. LL(i) = {} /\ i # EXT2INO
  BY <1>0, NoLinks DEF DirsOK
<1>4. ASSUME NEW x \in Owed(i) PROVE FALSE
  <2>1. PICK q \in Procs : x = <<"ip", q>> \/ x = <<"dp", q>>
    BY <1>4 DEF Owed
  <2>2. CASE x = <<"ip", q>>
    <3>1. OwesIp(proc[q]) /\ Inum(proc[q].ip) = i
      BY <1>4, <2>2, OwedAlways DEF OwedWell
    <3>q. QED BY <1>0, <3>1, OwesHas, HasKept
  <2>3. CASE x = <<"dp", q>>
    <3>1. OwesDp(proc[q]) /\ Inum(proc[q].dp) = i
      BY <1>4, <2>3, OwedAlways DEF OwedWell
    <3>q. QED BY <1>0, <3>1, OwesHas, HasKept
  <2>q. QED BY <2>1, <2>2, <2>3
<1>5. \A j \in ibitmap : j # i /\ j \in Inums /\ j \in ibitmap' /\ dinode'[j] = dinode[j] /\ dents'[j] = dents[j]
  BY <1>0 DEF DiskTypes
<1>6. \A j \in ibitmap' : j # i => j \in ibitmap
  BY <1>0
<1>q. QED BY <1>1, <1>2, <1>3, <1>4, <1>5, <1>6

(* The entries stay: a new directory has none. *)
LEMMA AllocsLinks ==
    ASSUME Before, NEW p \in Procs, NEW i, NEW r2, Allocs(p, i, r2)
    PROVE  /\ \A j \in Inums : LN(j)' = LN(j) /\ LL(j)' = LL(j)
           /\ LD' = LD /\ i \notin LD
<1>0. /\ i \notin ibitmap /\ i # EXT2INO /\ LL(i) = {} /\ i \in Inums /\ DiskTypes
      /\ \A j \in ibitmap : j # i /\ j \in Inums /\ j \in ibitmap' /\ dinode'[j] = dinode[j] /\ dents'[j] = dents[j]
      /\ \A j \in ibitmap' : j # i => j \in ibitmap
  BY AllocsUnused, BeforeParts DEF Allocs
<1>1. \A n \in DirNames : dents'[i][n] = 0
  BY DEF Allocs, Blank, NoDents
<1>2. \A j \in ibitmap : IsDir(j)' <=> IsDir(j)
  BY <1>0 DEF IsDir
<1>3. ASSUME NEW j \in Inums PROVE LN(j)' = LN(j)
  <2>0. j # 0
    BY Ext2Assumption
  <2>1. ASSUME NEW e \in LN(j)' PROVE e \in LN(j)
    <3>1. e = <<e[1], e[2]>>
      BY LinksNext DEF LinksWell
    <3>2. PICK d, n : e = <<d, n>>
      BY <3>1
    <3>3. d \in ibitmap' /\ IsDir(d)' /\ n \in Names /\ dents'[d][n] = j
      BY <2>1, <3>2, LinksNext DEF LinksWell
    <3>4. d # i
      BY <1>1, <2>0, <3>3 DEF DirNames
    <3>5. d \in ibitmap /\ IsDir(d) /\ dents[d][n] = j
      BY <1>0, <1>2, <3>3, <3>4
    <3>q. QED BY <3>2, <3>3, <3>5, LinksAlways DEF LinksWell
  <2>2. ASSUME NEW e \in LN(j) PROVE e \in LN(j)'
    <3>1. e = <<e[1], e[2]>>
      BY LinksAlways DEF LinksWell
    <3>2. PICK d, n : e = <<d, n>>
      BY <3>1
    <3>3. d \in ibitmap /\ IsDir(d) /\ n \in Names /\ dents[d][n] = j
      BY <2>2, <3>2, LinksAlways DEF LinksWell
    <3>4. d \in ibitmap' /\ IsDir(d)' /\ dents'[d][n] = j
      BY <1>0, <1>2, <3>3
    <3>q. QED BY <3>2, <3>3, <3>4, LinksNext DEF LinksWell
  <2>q. QED BY <2>1, <2>2
<1>4. LN(i) = {} /\ i \notin LD
  BY <1>0, LinksAlways DEF LinksWell
<1>5. LD' = LD
  <2>1. ASSUME NEW d \in LD' PROVE d \in LD
    <3>1. d \in ibitmap' /\ IsDir(d)' /\ (d = EXT2INO \/ LN(d)' # {})
      BY LinksNext DEF LinksWell
    <3>2. d # i
      BY <1>0, <1>3, <1>4, <3>1
    <3>3. d \in ibitmap /\ d \in Inums
      BY <1>0, <3>1, <3>2
    <3>4. IsDir(d) /\ (d = EXT2INO \/ LN(d) # {})
      BY <1>2, <1>3, <3>1, <3>3
    <3>q. QED BY <3>3, <3>4, LinksAlways DEF LinksWell
  <2>2. ASSUME NEW d \in LD PROVE d \in LD'
    <3>1. d \in ibitmap /\ IsDir(d) /\ (d = EXT2INO \/ LN(d) # {})
      BY LinksAlways DEF LinksWell
    <3>2. d \in ibitmap' /\ IsDir(d)' /\ (d = EXT2INO \/ LN(d)' # {})
      BY <1>0, <1>2, <1>3, <3>1
    <3>q. QED BY <3>2, LinksNext DEF LinksWell
  <2>q. QED BY <2>1, <2>2
<1>6. \A d \in LD : dents'[d] = dents[d]
  BY <1>0, LinksAlways DEF LinksWell
<1>7. ASSUME NEW j \in Inums PROVE LL(j)' = LL(j)
  <2>1. \A e : e \in LL(j) <=> e \in LN(j) \/ \E d \in LD : e = <<d, "..">> /\ dents[d][".."] = j
    BY LinksAlways DEF LinksWell
  <2>2. \A e : e \in LL(j)' <=> e \in LN(j)' \/ \E d \in LD' : e = <<d, "..">> /\ dents'[d][".."] = j
    BY LinksNext DEF LinksWell
  <2>3. \A e : e \in LL(j)' <=> e \in LL(j)
    BY <1>3, <1>5, <1>6, <2>1, <2>2
  <2>q. QED BY <2>3
<1>q. QED BY <1>3, <1>4, <1>5, <1>7

(* No place counts on an inode that was free. *)
LEMMA AllocsKept ==
    ASSUME Before, NEW p \in Procs, NEW i, NEW r2, Allocs(p, i, r2)
    PROVE  KeptOK' /\ WritesOK'
<1>0. KeptOK /\ WritesOK /\ Still(p, r2) /\ icache' = icache /\ r2.pc \in Allocating
  BY BeforeParts DEF Allocs
<1>1. ASSUME NEW x \in Places, Firm(x)'
      PROVE  (Inum(Holds(x)) \in ibitmap /\ dinode[Inum(Holds(x))].mode # "none")'
  <2>1. PICK j : j = Inum(Holds(x))'
    OBVIOUS
  <2>2. Firm(x) /\ j = Inum(Holds(x))
    BY <1>0, <1>1, <2>1, StillHolds
  <2>3. j \in ibitmap /\ dinode[j].mode # "none"
    BY <1>0, <2>2 DEF KeptOK
  <2>q. QED BY <2>1, <2>3, AllocsUnused
<1>2. ASSUME NEW q \in Procs, NEW t \in Slots, proc'[q].pc = "write", icache'[t].lock = q
      PROVE  \E fd \in Fds : ofile'[q][fd] # 0 /\ ftable'[ofile'[q][fd]].ip = t
  <2>1. q # p
    BY <1>0, <1>2, StillProcs DEF Allocating
  <2>2. proc[q].pc = "write" /\ icache[t].lock = q
    BY <1>0, <1>2, <2>1, StillProcs
  <2>q. QED BY <1>0, <2>2 DEF WritesOK, Still
<1>q. QED BY <1>1, <1>2 DEF KeptOK, WritesOK

(* Two processes do not allocate one inode: the bitmap's buffer is held    *)
(* between the two writes.                                                 *)
LEMMA AllocsFresh ==
    ASSUME Before, NEW p \in Procs, NEW i, NEW r2, Allocs(p, i, r2)
    PROVE  FreshOK'
<1>0. /\ MInv /\ FreshOK /\ Still(p, r2) /\ r2.pc \in Allocating /\ r2.ino = i /\ i \in Inums
      /\ i \in ibitmap' <=> r2.pc = "ialloc_iget"
      /\ Blank(i)' /\ dinode'[i].mode = TypeOf(r2.call.op) /\ ibitmap' \in {ibitmap, ibitmap \cup {i}}
  BY BeforeParts DEF Allocs
<1>1. proc'[p] = r2 /\ \A q \in Procs \ {p} : proc'[q] = proc[q]
  BY <1>0, StillProcs
<1>2. r2.pc \notin CreateIp \cup {"create_inode"}
  BY <1>0 DEF Allocating, CreateIp, CreateDir
<1>3. FreshAt(p)'
  <2>1. Firms(i)' = {} /\ Fresh(r2, i)'
    BY <1>0, AllocsUnused DEF Fresh
  <2>q. QED BY <1>0, <1>1, <1>2, <2>1 DEF FreshAt
<1>4. ASSUME NEW q \in Procs, q # p PROVE FreshAt(q)'
  <2>0. FreshAt(q) /\ proc'[q] = proc[q]
    BY <1>0, <1>1, <1>4 DEF FreshOK
  <2>1. PICK r : r = proc[q]
    OBVIOUS
  <2>2. r \in Records /\ Shape(r)
    BY <1>0, <2>1 DEF MInv, Shapes
  <2>3. ASSUME r.pc \in Allocating
        PROVE  Fresh(r, r.ino)' /\ ((r.ino \in ibitmap)' <=> r.pc = "ialloc_iget") /\ Firms(r.ino)' = {}
    <3>1. PICK j : j = r.ino
      OBVIOUS
    <3>2. j \in Inums /\ j # i
      BY <1>4, <2>1, <2>2, <2>3, <3>1 DEF Records, Shape, Fits, Point, Allocating, IputPcs, Allocs
    <3>3. Fresh(r, j) /\ Firms(j) = {} /\ (j \in ibitmap <=> r.pc = "ialloc_iget")
      BY <2>0, <2>1, <2>3, <3>1 DEF FreshAt
    <3>4. dinode'[j] = dinode[j] /\ dents'[j] = dents[j]
      BY <3>2 DEF Allocs
    <3>5. Firms(j)' = {}
      BY <1>0, <3>3, StillFirms
    <3>6. j \in ibitmap <=> j \in ibitmap'
      BY <1>0, <3>2
    <3>q. QED BY <3>1, <3>3, <3>4, <3>5, <3>6 DEF Fresh, Blank
  <2>4. ASSUME r.pc \in CreateIp \cup {"create_inode"}
        PROVE  /\ (Firms(Inum(r.ip)) \subseteq {<<"ip", q>>})'
               /\ r.pc = "create_inode" => Fresh(r, Inum(r.ip))'
    <3>1. r.ip # 0 /\ r.ip = proc[q].ip
      BY <2>1, <2>2, <2>4 DEF Records, Shape, Fits, Point, CreateIp, CreateDir, IputPcs, IpPoints
    <3>2. PICK j : j = Inum(r.ip)
      OBVIOUS
    <3>3. Inum(r.ip)' = j
      BY <1>0, <3>1, <3>2, StillSlots
    <3>4. Firms(j) \subseteq {<<"ip", q>>}
      BY <2>0, <2>1, <2>4, <3>2 DEF FreshAt
    <3>5. j \in ibitmap
      BY <3>1, <3>2, HasKept
    <3>6. dinode'[j] = dinode[j] /\ dents'[j] = dents[j]
      BY <3>5, AllocsUnused
    <3>9. Firms(j)' \subseteq {<<"ip", q>>}
      BY <1>0, <3>4, StillFirms
    <3>10. r.pc = "create_inode" => Fresh(r, j)'
      BY <2>0, <2>1, <3>2, <3>6 DEF FreshAt, Fresh, Blank
    <3>11. (Firms(Inum(r.ip)) \subseteq {<<"ip", q>>})'
      BY <3>3, <3>9 DEF Firms
    <3>12. r.pc = "create_inode" => Fresh(r, Inum(r.ip))'
      BY <3>3, <3>10 DEF Fresh, Blank
    <3>q. QED BY <3>11, <3>12
  <2>q. QED BY <2>0, <2>1, <2>3, <2>4 DEF FreshAt
<1>5. \A q \in Procs : FreshAt(q)'
  BY <1>3, <1>4
<1>6. \A q \in Procs \ {p} : proc'[q].pc \in Allocating =>
          proc'[q].ino # r2.ino /\ ~(r2.pc = "ialloc_bitmap" /\ proc'[q].pc = "ialloc_bitmap")
  BY <1>0, <1>1 DEF Allocs
<1>7. ASSUME NEW a \in Procs, NEW b \in Procs, proc'[a].pc \in Allocating, proc'[b].pc \in Allocating,
             proc'[a].ino = proc'[b].ino \/ (proc'[a].pc = "ialloc_bitmap" /\ proc'[b].pc = "ialloc_bitmap")
      PROVE  a = b
  <2>1. CASE a # p /\ b # p
    BY <1>0, <1>1, <1>7, <2>1 DEF FreshOK
  <2>2. CASE a = p \/ b = p
    BY <1>1, <1>6, <1>7, <2>2
  <2>q. QED BY <2>1, <2>2
<1>q. QED BY <1>5, <1>7 DEF FreshOK

(* An inode that is still being freed may be allocated again: it is blank. *)
LEMMA AllocsFree ==
    ASSUME Before, NEW p \in Procs, NEW i, NEW r2, Allocs(p, i, r2), NEW q \in Procs
    PROVE  FreeAt(q)'
<1>0. /\ MInv /\ FreeAt(q) /\ Still(p, r2) /\ icache' = icache /\ Blank(i)' /\ r2.pc \in Allocating
      /\ proc'[p] = r2 /\ (q # p => proc'[q] = proc[q])
      /\ \A j \in ibitmap' : j # i => j \in ibitmap
      /\ \A j \in ibitmap : dinode'[j] = dinode[j] /\ dents'[j] = dents[j]
  BY BeforeParts, AllocsUnused, StillProcs DEF FreeOK, Allocs
<1>1. CASE q = p
  BY <1>0, <1>1 DEF FreeAt, FreePcs, Allocating
<1>2. CASE q # p
  <2>1. PICK r : r = proc[q]
    OBVIOUS
  <2>2. PICK t : t = Put(r, 1)
    OBVIOUS
  <2>3. PICK j : j = Inum(t)
    OBVIOUS
  <2>4. Inum(t)' = j /\ proc'[q] = r
    BY <1>0, <1>2, <2>1, <2>3 DEF Inum
  <2>5. j \in ibitmap' => j = i \/ (j \in ibitmap /\ dinode'[j] = dinode[j] /\ dents'[j] = dents[j])
    BY <1>0
  <2>6. j \in ibitmap' /\ (j \in ibitmap => Blank(j)) => Blank(j)'
    BY <1>0, <2>5 DEF Blank
  <2>7. Firms(j)' \subseteq Firms(j)
    BY <1>0, StillFirms
  <2>8. /\ r.pc \in FreePcs => icache[t].nlink = 0
        /\ r.pc = "ifree" => Firms(j) \subseteq {<<"put1", q>>}
        /\ r.pc = "bfree" => icache[t].blk # 0
        /\ r.pc = "ifree_update" => icache[t].blk = 0
        /\ r.pc \in {"bfree", "ifree_update"} /\ j \in ibitmap => Blank(j)
    BY <1>0, <2>1, <2>2, <2>3 DEF FreeAt
  <2>9. /\ r.pc \in FreePcs => icache'[t].nlink = 0
        /\ r.pc = "ifree" => Firms(j)' \subseteq {<<"put1", q>>}
        /\ r.pc = "bfree" => icache'[t].blk # 0
        /\ r.pc = "ifree_update" => icache'[t].blk = 0
        /\ r.pc \in {"bfree", "ifree_update"} /\ j \in ibitmap' => Blank(j)'
    BY <1>0, <2>6, <2>7, <2>8
  <2>q. QED BY <2>2, <2>4, <2>9 DEF FreeAt
<1>q. QED BY <1>1, <1>2

(* What the calls have found out stays true. *)
LEMMA AllocsCall ==
    ASSUME Before, NEW p \in Procs, NEW i, NEW r2, Allocs(p, i, r2), NEW q \in Procs
    PROVE  CallAt(q)'
<1>0. /\ MInv /\ DiskTypes /\ CallAt(q) /\ Still(p, r2) /\ icache' = icache
  BY BeforeParts DEF CallsOK, Allocs
<1>1. PICK r : r = proc[q]
  OBVIOUS
<1>2. r \in Records /\ Shape(r)
  BY <1>0, <1>1 DEF MInv, Shapes
<1>e. PICK e : e = proc'[q]
  OBVIOUS
<1>f. /\ e.ip = r.ip /\ e.dp = r.dp /\ e.call = r.call /\ e.rest = r.rest
      /\ q # p => e = r
  BY <1>0, <1>1, <1>e, StillProcs
<1>p. q = p => e.pc \in Allocating /\ r.pc \in {"ialloc", "ialloc_bitmap"}
  BY <1>0, <1>1, <1>e, StillProcs DEF Allocs
<1>pt. LastOf(e) = LastOf(r) /\ (q = p => Point(e) \in Allocating /\ r.pc \in Naming)
  BY <1>f, <1>p DEF LastOf, Point, Allocating, IputPcs, Naming
<1>ls. LinkSide(e) => e = r
  BY <1>f, <1>pt DEF LinkSide, LinkIp, Allocating
<1>3. ASSUME NEW u, u # 0, u \in {r.ip, r.dp}
      PROVE  /\ Inum(u)' = Inum(u)
             /\ dinode'[Inum(u)] = dinode[Inum(u)] /\ dents'[Inum(u)] = dents[Inum(u)]
             /\ IsDir(Inum(u))' <=> IsDir(Inum(u))
  <2>1. Inum(u)' = Inum(u)
    BY <1>0 DEF Inum
  <2>2. Inum(u) \in ibitmap
    BY <1>1, <1>3, HasKept
  <2>3. dinode'[Inum(u)] = dinode[Inum(u)] /\ dents'[Inum(u)] = dents[Inum(u)]
    BY <2>2, AllocsUnused
  <2>4. IsDir(Inum(u))' <=> IsDir(Inum(u))
    BY <2>1, <2>3 DEF IsDir
  <2>q. QED BY <2>1, <2>3, <2>4
<1>5. ASSUME LinkSide(r) PROVE r.ip # 0
  BY <1>2, <1>5 DEF LinkSide, Shape, Fits, LinkIp, IpPoints
<1>6. ASSUME e.pc \in CreateIp \cup {"unlink_ip"}
      PROVE  r.ip # 0 /\ r.dp # 0 /\ e = r
  <2>0. e = r
    BY <1>f, <1>p, <1>6 DEF Allocating, CreateIp, CreateDir
  <2>1. r.pc \notin IputPcs /\ r.pc \in IpPoints /\ r.pc \in DpPoints
    BY <1>6, <2>0 DEF CreateIp, CreateDir, IputPcs, IpPoints, DpPoints
  <2>2. r.ip # 0 /\ r.dp # 0
    BY <1>2, <2>1 DEF Shape, Fits, Point
  <2>q. QED BY <2>0, <2>2
<1>8. /\ Point(e) = "namex" => \A j \in 1..Len(e.rest) : e.rest[j] # ".."
      /\ e.pc \in Naming => LastOf(e) \in Names
  <2>1. /\ Point(r) = "namex" => \A j \in 1..Len(r.rest) : r.rest[j] # ".."
        /\ r.pc \in Naming => LastOf(r) \in Names
    BY <1>0, <1>1 DEF CallAt
  <2>2. CASE q = p
    BY <1>pt, <2>1, <2>2 DEF Allocating
  <2>3. CASE q # p
    BY <1>f, <2>1, <2>3
  <2>q. QED BY <2>2, <2>3
<1>9. /\ e.dp # 0 => IsDir(Inum(e.dp))'
      /\ LinkSide(e) => ~IsDir(Inum(e.ip))'
  <2>1. /\ r.dp # 0 => IsDir(Inum(r.dp))
        /\ LinkSide(r) => ~IsDir(Inum(r.ip))
    BY <1>0, <1>1 DEF CallAt
  <2>2. /\ r.dp # 0 => IsDir(Inum(r.dp))'
        /\ LinkSide(r) => ~IsDir(Inum(r.ip))'
    BY <1>3, <1>5, <2>1
  <2>3. /\ Inum(e.dp)' = Inum(r.dp)' /\ Inum(e.ip)' = Inum(r.ip)'
    BY <1>f DEF Inum
  <2>4. /\ IsDir(Inum(e.dp))' <=> IsDir(Inum(r.dp))'
        /\ IsDir(Inum(e.ip))' <=> IsDir(Inum(r.ip))'
    BY <2>3 DEF IsDir
  <2>q. QED BY <1>f, <1>ls, <2>2, <2>4
<1>10. /\ e.pc \in CreateIp => icache'[e.ip].nlink = 1 /\ icache'[e.ip].type = TypeOf(e.call.op)
       /\ e.pc \in {"create_parent", "create_block"} => icache'[e.ip].blk = 0
  <2>1. /\ r.pc \in CreateIp => icache[r.ip].nlink = 1 /\ icache[r.ip].type = TypeOf(r.call.op)
        /\ r.pc \in {"create_parent", "create_block"} => icache[r.ip].blk = 0
    BY <1>0, <1>1 DEF CallAt
  <2>2. {"create_parent", "create_block"} \subseteq CreateIp
    BY DEF CreateIp, CreateDir
  <2>q. QED BY <1>0, <1>f, <1>6, <2>1, <2>2
<1>11. /\ e.pc = "create_link" /\ e.call.op = "mkdir" =>
              (dents[Inum(e.ip)]["."] = Inum(e.ip) /\ dents[Inum(e.ip)][".."] = Inum(e.dp))'
       /\ e.pc = "create_dotdot" => (dents[Inum(e.ip)]["."] = Inum(e.ip))'
       /\ e.pc = "unlink_ip" => (dents[Inum(e.dp)][LastOf(e)] = Inum(e.ip))'
  <2>1. /\ r.pc = "create_link" /\ r.call.op = "mkdir" =>
              (dents[Inum(r.ip)]["."] = Inum(r.ip) /\ dents[Inum(r.ip)][".."] = Inum(r.dp))
        /\ r.pc = "create_dotdot" => (dents[Inum(r.ip)]["."] = Inum(r.ip))
        /\ r.pc = "unlink_ip" => (dents[Inum(r.dp)][LastOf(r)] = Inum(r.ip))
    BY <1>0, <1>1 DEF CallAt
  <2>2. "create_link" \in CreateIp /\ "create_dotdot" \in CreateIp
    BY DEF CreateIp, CreateDir
  <2>3. ASSUME e.pc \in CreateIp \cup {"unlink_ip"}
        PROVE  /\ Inum(e.ip)' = Inum(r.ip) /\ Inum(e.dp)' = Inum(r.dp)
               /\ dents'[Inum(r.ip)] = dents[Inum(r.ip)] /\ dents'[Inum(r.dp)] = dents[Inum(r.dp)] /\ e = r
    BY <1>3, <1>6, <2>3
  <2>q. QED BY <2>1, <2>2, <2>3
<1>q. QED BY <1>e, <1>8, <1>9, <1>10, <1>11 DEF CallAt

(* The slots keep matching the disk. *)
LEMMA AllocsValid ==
    ASSUME Before, NEW p \in Procs, NEW i, NEW r2, Allocs(p, i, r2), NEW t \in Slots
    PROVE  ValidAt(t)'
<1>0. /\ MInv /\ ValidAt(t) /\ Still(p, r2) /\ icache' = icache
      /\ r2.pc \in Allocating /\ proc[p].pc \in {"ialloc", "ialloc_bitmap"}
  BY BeforeParts DEF ValidOK, Allocs
<1>1. /\ proc'[p] = r2 /\ \A q \in Procs \ {p} : proc'[q] = proc[q]
      /\ Inum(t)' = Inum(t) /\ (Live(t)' <=> Live(t))
  BY <1>0, StillProcs
<1>2. Dying(t)' <=> Dying(t)
  BY <1>0, <1>1 DEF Dying, Allocating
<1>3. LateBlock(t)' <=> LateBlock(t)
  BY <1>0, <1>1 DEF LateBlock, Allocating
<1>4. ASSUME Inum(t) \in ibitmap, Matches(t) PROVE Inum(t) \in ibitmap' /\ Matches(t)'
  <2>1. Inum(t) \in ibitmap' /\ dinode'[Inum(t)] = dinode[Inum(t)]
    BY <1>4, AllocsUnused
  <2>q. QED BY <1>0, <1>1, <1>3, <1>4, <2>1 DEF Matches
<1>q. QED BY <1>0, <1>1, <1>2, <1>4 DEF ValidAt

(* The new inode has no entries and no links. *)
LEMMA AllocsCount ==
    ASSUME Before, NEW p \in Procs, NEW i, NEW r2, Allocs(p, i, r2)
    PROVE  CountOK'
<1> SUFFICES ASSUME NEW j \in ibitmap'
             PROVE  dinode'[j].nlink >= Cardinality(LL(j)') + Cardinality(Owed(j)')
  BY DEF CountOK, LL
<1>0. DiskTypes /\ CountOK /\ Still(p, r2) /\ i \in Inums
  BY BeforeParts DEF Allocs
<1>1. Owed(j)' = Owed(j)
  BY <1>0, StillOwed
<1>2. CASE j # i
  <2>1. j \in ibitmap /\ dinode'[j] = dinode[j] /\ j \in Inums
    BY <1>2, AllocsUnused
  <2>2. LL(j)' = LL(j)
    BY <2>1, AllocsLinks
  <2>q. QED BY <1>0, <1>1, <2>1, <2>2 DEF CountOK, LL
<1>3. CASE j = i
  <2>1. LL(j)' = {} /\ Owed(j)' = {}
    BY <1>0, <1>1, <1>3, AllocsUnused, AllocsLinks
  <2>2. dinode'[j].nlink = 0
    BY <1>3 DEF Allocs, Blank
  <2>3. Cardinality({}) = 0
    BY FS_EmptySet
  <2>q. QED BY <2>1, <2>2, <2>3
<1>q. QED BY <1>2, <1>3

(* The new inode is in no directory, and nobody has it as one. *)
LEMMA AllocsDirs ==
    ASSUME Before, NEW p \in Procs, NEW i, NEW r2, Allocs(p, i, r2)
    PROVE  DirsOK' /\ SelfOK'
<1>0. DirsOK /\ SelfOK /\ DiskTypes /\ Still(p, r2) /\ i \in Inums /\ i # EXT2INO /\ Firms(i)' = {} /\ LL(i) = {}
  BY BeforeParts, AllocsUnused DEF Allocs
<1>1. /\ \A j \in ibitmap : j # i /\ j \in Inums /\ j \in ibitmap' /\ dinode'[j] = dinode[j] /\ dents'[j] = dents[j]
      /\ \A j \in ibitmap' : j # i => j \in ibitmap
  BY AllocsUnused
<1>2. (\A j \in Inums : LN(j)' = LN(j)) /\ LD' = LD /\ i \notin LD
  BY AllocsLinks
<1>2a. LN(i) = {} /\ EXT2INO \in Inums
  BY <1>0, LinksAlways, Ext2Assumption DEF LinksWell
<1>3. EXT2INO \in ibitmap' /\ IsDir(EXT2INO)' /\ LN(EXT2INO)' = {} /\ dents'[EXT2INO][".."] = EXT2INO
  BY <1>0, <1>1, <1>2, <1>2a DEF DirsOK, IsDir, LN
<1>5. ASSUME NEW j \in Inums, LN(j)' # {} PROVE j \in ibitmap' /\ dinode'[j].mode # "none"
  <2>1. LN(j) # {}
    BY <1>2, <1>5
  <2>2. j \in ibitmap /\ dinode[j].mode # "none"
    BY <1>0, <2>1 DEF DirsOK, LN
  <2>q. QED BY <1>1, <2>2
<1>6. ASSUME NEW j \in DirsOf(Disk)' PROVE \A e, f \in LN(j)' : e = f /\ dents'[j][".."] = e[1]
  <2>1. j \in ibitmap' /\ IsDir(j)'
    BY LinksNext DEF LinksWell
  <2>2. CASE j = i
    BY <1>0, <1>2, <1>2a, <2>2
  <2>3. CASE j # i
    <3>1. j \in ibitmap /\ IsDir(j) /\ dents'[j] = dents[j] /\ j \in Inums
      BY <1>1, <2>1, <2>3 DEF IsDir
    <3>2. j \in DirsOf(Disk)
      BY <3>1, LinksAlways DEF LinksWell
    <3>q. QED BY <1>0, <1>2, <3>1, <3>2 DEF DirsOK, LN
  <2>q. QED BY <2>2, <2>3
<1>7. DirsOK'
  BY <1>3, <1>5, <1>6 DEF DirsOK, LN
<1>8. ASSUME NEW j \in ibitmap', IsDir(j)', Firms(j)' # {} \/ j \in LD'
      PROVE  dents'[j]["."] = j \/ Building(j)'
  <2>1. j # i
    BY <1>0, <1>2, <1>8
  <2>2. j \in ibitmap /\ IsDir(j) /\ dents'[j] = dents[j]
    BY <1>1, <1>8, <2>1 DEF IsDir
  <2>3. Firms(j) # {} \/ j \in LD
    BY <1>0, <1>2, <1>8, StillFirms
  <2>4. dents[j]["."] = j \/ Building(j)
    BY <1>0, <2>2, <2>3 DEF SelfOK, LD
  <2>5. proc[p].pc \notin {"create_inode", "create_parent", "create_block", "create_dot"}
    BY DEF Allocs
  <2>q. QED BY <1>0, <2>2, <2>4, <2>5, StillBuilding
<1>9. SelfOK'
  BY <1>8 DEF SelfOK, LD
<1>q. QED BY <1>7, <1>9

(* A step of ialloc() keeps the invariant. *)
LEMMA AllocsStep ==
    ASSUME Before, NEW p \in Procs, NEW i, NEW r2, Allocs(p, i, r2)
    PROVE  DInv'
<1>1. KeptOK' /\ WritesOK' /\ FreshOK'
  BY AllocsKept, AllocsFresh
<1>2. FreeOK' /\ CallsOK' /\ ValidOK'
  BY AllocsFree, AllocsCall, AllocsValid DEF FreeOK, CallsOK, ValidOK
<1>3. CountOK' /\ DirsOK' /\ SelfOK'
  BY AllocsCount, AllocsDirs
<1>4. BlocksOK'
  <2>0. 0 \notin Blocks /\ BlocksOK /\ bbitmap' = bbitmap
    BY Ext2Assumption, BeforeParts DEF Allocs
  <2>1. ASSUME NEW j \in Inums, NEW b \in Blocks, Owner(j, b)' PROVE Owner(j, b)
    <3>1. CASE j \in ibitmap' /\ dinode'[j].blk = b
      <4>1. j # i
        BY <2>0, <3>1 DEF Allocs, Blank
      <4>2. j \in ibitmap /\ dinode'[j] = dinode[j]
        BY <3>1, <4>1, AllocsUnused
      <4>q. QED BY <3>1, <4>2 DEF Owner
    <3>2. CASE \E t \in Slots : Live(t)' /\ icache'[t].valid /\ Inum(t)' = j /\ icache'[t].blk = b
      BY <3>2 DEF Owner, Live, Inum, Allocs
    <3>q. QED BY <2>1, <3>1, <3>2 DEF Owner
  <2>q. QED BY <2>0, <2>1 DEF BlocksOK
<1>5. ~panic'
  BY DEF Allocs, Before, DInv
<1>q. QED BY <1>1, <1>2, <1>3, <1>4, <1>5 DEF DInv

(* ialloc() writes the inode before it marks it. *)
LEMMA IallocInodeD ==
    ASSUME Before, After, NEW p \in Procs, IallocInode(p)
    PROVE  DInv'
<1>0. MInv /\ DiskTypes /\ InCall(p) /\ proc[p].pc = "ialloc" /\ proc[p].pc \notin IputPcs
  BY BeforeParts DEF IallocInode, At, InCall, IputPcs
<1>1. proc[p] \in Records /\ Point(proc[p]) = "ialloc"
  BY <1>0, NothingToPut
<1>2. PICK i \in Inums : i = Least(FreeInums) /\ i \notin ibitmap
  <2>1. FreeInums \in SUBSET Nat /\ FreeInums # {} /\ FreeInums \subseteq Inums
    BY Ext2Assumption DEF IallocInode, FreeInums
  <2>2. Least(FreeInums) \in FreeInums
    BY <2>1, LeastIn
  <2>q. QED BY <2>2 DEF FreeInums
<1>3. PICK r1 : r1 = [proc[p] EXCEPT !.pc = "ialloc_bitmap"]
  OBVIOUS
<1>4. PICK r2 : r2 = [r1 EXCEPT !.ino = i]
  OBVIOUS
<1>5. "ialloc_bitmap" \in Points /\ "ialloc_bitmap" \in Allocating /\ "ialloc_bitmap" \notin IputPcs
  BY DEF Points, DpPoints, Allocating, IputPcs
<1>6. /\ r2.pc = "ialloc_bitmap" /\ r2.n = proc[p].n /\ r2.ip = proc[p].ip /\ r2.dp = proc[p].dp /\ r2.call = proc[p].call
      /\ r2.rest = proc[p].rest /\ r2.ino = i /\ r2.puts = proc[p].puts
  BY <1>1, <1>2, <1>3, <1>4, <1>5 DEF Records
<1>7. Put(r2, 1) = Put(proc[p], 1) /\ Put(r2, 2) = Put(proc[p], 2) /\ Point(r2) = "ialloc_bitmap"
  BY <1>5, <1>6 DEF Put, Point
<1>8. /\ ~OwesIp(r2) /\ ~OwesIp(proc[p]) /\ ~OwesDp(r2) /\ ~OwesDp(proc[p])
  BY <1>1, <1>7 DEF OwesIp, OwesDp, LinkSide, LinkIp, CreateIp, CreateDir
<1>9. /\ Become(p, r2) /\ UNCHANGED <<ftable, ofile, cwd, ibitmap, bbitmap, icache, panic>>
      /\ ~InodeBitmapBusy
  BY <1>2, <1>3, <1>4 DEF IallocInode, Goto
<1>10. /\ dinode' = [dinode EXCEPT ![i] = [mode |-> TypeOf(proc[p].call.op), nlink |-> 0, blk |-> 0]]
       /\ dents' = [dents EXCEPT ![i] = NoDents]
  BY <1>2 DEF IallocInode
<1>11. /\ dinode'[i] = [mode |-> TypeOf(proc[p].call.op), nlink |-> 0, blk |-> 0] /\ dents'[i] = NoDents
       /\ \A j \in Inums : j # i => dinode'[j] = dinode[j] /\ dents'[j] = dents[j]
  BY <1>0, <1>10 DEF DiskTypes
<1>12. Blank(i)' /\ dinode'[i].mode = TypeOf(r2.call.op)
  BY <1>6, <1>11 DEF Blank
<1>13. Still(p, r2)
  BY <1>0, <1>6, <1>7, <1>8, <1>9 DEF Still, PastPcs
<1>14. ASSUME NEW q \in Procs \ {p}, proc[q].pc \in Allocating
       PROVE  proc[q].ino # i /\ ~(r2.pc = "ialloc_bitmap" /\ proc[q].pc = "ialloc_bitmap")
  <2>1. proc[q].pc # "ialloc_bitmap"
    BY <1>9 DEF InodeBitmapBusy
  <2>2. proc[q].ino \in ibitmap
    BY <1>14, <2>1, BeforeParts DEF FreshOK, FreshAt, Allocating
  <2>q. QED BY <1>2, <2>1, <2>2
<1>15. Allocs(p, i, r2)
  BY <1>0, <1>2, <1>5, <1>6, <1>9, <1>11, <1>12, <1>13, <1>14 DEF Allocs
<1>q. QED BY <1>15, AllocsStep

(* ialloc() marks the inode that it has written. *)
LEMMA IallocBitmapD ==
    ASSUME Before, After, NEW p \in Procs, IallocBitmap(p)
    PROVE  DInv'
<1>0. MInv /\ DiskTypes /\ FreshOK /\ proc[p].pc = "ialloc_bitmap" /\ proc[p].pc \notin IputPcs /\ proc[p].pc \in Allocating
  BY BeforeParts DEF IallocBitmap, At, IputPcs, Allocating
<1>1. proc[p] \in Records /\ Point(proc[p]) = "ialloc_bitmap"
  BY <1>0, NothingToPut
<1>2. PICK i : i = proc[p].ino
  OBVIOUS
<1>3. i \in Inums /\ Fresh(proc[p], i) /\ i \notin ibitmap
  <2>1. i \in Inums
    BY <1>0, <1>1, <1>2, NothingToPut DEF Records, Fits
  <2>q. QED BY <1>0, <1>2, <2>1 DEF FreshOK, FreshAt
<1>4. PICK r2 : r2 = [proc[p] EXCEPT !.pc = "ialloc_iget"]
  OBVIOUS
<1>5. "ialloc_iget" \in Points \cup IputPcs /\ "ialloc_iget" \in Allocating /\ "ialloc_iget" \notin IputPcs
  BY DEF Points, DpPoints, Allocating, IputPcs
<1>6. /\ r2.pc = "ialloc_iget" /\ r2.n = proc[p].n /\ r2.ip = proc[p].ip /\ r2.dp = proc[p].dp /\ r2.call = proc[p].call
      /\ r2.rest = proc[p].rest /\ r2.ino = i /\ Put(r2, 1) = Put(proc[p], 1) /\ Put(r2, 2) = Put(proc[p], 2)
  BY <1>1, <1>2, <1>4, <1>5, GotoFields
<1>7. Point(r2) = "ialloc_iget"
  BY <1>5, <1>6 DEF Point
<1>8. /\ ~OwesIp(r2) /\ ~OwesIp(proc[p]) /\ ~OwesDp(r2) /\ ~OwesDp(proc[p])
  BY <1>1, <1>7 DEF OwesIp, OwesDp, LinkSide, LinkIp, CreateIp, CreateDir
<1>9. /\ Become(p, r2) /\ UNCHANGED <<ftable, ofile, cwd, dinode, dents, bbitmap, icache, panic>>
      /\ ibitmap' = ibitmap \cup {i}
  BY <1>2, <1>4 DEF IallocBitmap, Goto
<1>10. Blank(i)' /\ dinode'[i].mode = TypeOf(r2.call.op)
  BY <1>3, <1>6, <1>9 DEF Blank, Fresh
<1>11. Still(p, r2)
  BY <1>0, <1>6, <1>8, <1>9 DEF Still, PastPcs
<1>12. ASSUME NEW q \in Procs \ {p}, proc[q].pc \in Allocating
       PROVE  proc[q].ino # i /\ ~(r2.pc = "ialloc_bitmap" /\ proc[q].pc = "ialloc_bitmap")
  BY <1>0, <1>2, <1>6, <1>12 DEF FreshOK
<1>15. Allocs(p, i, r2)
  BY <1>0, <1>3, <1>5, <1>6, <1>9, <1>10, <1>11, <1>12 DEF Allocs
<1>q. QED BY <1>15, AllocsStep

(* A step of nothing. *)
LEMMA StutterD ==
    ASSUME DInv, UNCHANGED vars
    PROVE  DInv'
<1>0. /\ icache' = icache /\ ftable' = ftable /\ ofile' = ofile /\ cwd' = cwd /\ proc' = proc /\ panic' = panic
      /\ ibitmap' = ibitmap /\ bbitmap' = bbitmap /\ dinode' = dinode /\ dents' = dents
  BY DEF vars, memVars, diskVars
<1>1. Disk' = Disk
  BY <1>0 DEF Disk
<1>2. /\ \A s : Inum(s)' = Inum(s) /\ (Live(s)' <=> Live(s))
      /\ \A x : Holds(x)' = Holds(x)
  BY <1>0 DEF Inum, Live, Holds
<1>3. \A x : Firm(x)' <=> Firm(x)
  BY <1>0, <1>2 DEF Firm
<1>4. \A x : Inum(Holds(x))' = Inum(Holds(x))
  BY <1>0, <1>2 DEF Inum
<1>5. \A i : Firms(i)' = Firms(i)
  BY <1>3, <1>4 DEF Firms
<1>6. KeptOK'
  BY <1>0, <1>3, <1>4 DEF DInv, KeptOK
<1>7. WritesOK'
  BY <1>0 DEF DInv, WritesOK
<1>8. \A r, i : (Blank(i)' <=> Blank(i)) /\ (Fresh(r, i)' <=> Fresh(r, i)) /\ (IsDir(i)' <=> IsDir(i))
  BY <1>0 DEF Blank, Fresh, IsDir
<1>9. FreshOK'
  <2>1. FreshOK
    BY DEF DInv
  <2>2. ASSUME NEW p \in Procs PROVE FreshAt(p)'
    <3>1. FreshAt(p)
      BY <2>1 DEF FreshOK
    <3>2. PICK r, k : r = proc[p] /\ k = Inum(r.ip)
      OBVIOUS
    <3>3. proc'[p] = r /\ Inum(r.ip)' = k
      BY <1>0, <1>2, <3>2
    <3>4. Firms(r.ino)' = Firms(r.ino) /\ Firms(k)' = Firms(k)
      BY <1>5
    <3>5. Firms(Inum(r.ip))' = Firms(k)
      BY <3>3, <3>4 DEF Firms
    <3>6. Fresh(r, Inum(r.ip))' <=> Fresh(r, k)
      BY <1>0, <3>3 DEF Fresh, Blank
    <3>q. QED BY <1>0, <1>8, <3>1, <3>2, <3>3, <3>4, <3>5, <3>6 DEF FreshAt
  <2>q. QED BY <1>0, <2>1, <2>2 DEF FreshOK
<1>10. FreeOK'
  <2>2. ASSUME NEW p \in Procs PROVE FreeAt(p)'
    <3>1. FreeAt(p)
      BY DEF DInv, FreeOK
    <3>2. PICK r, t, k : r = proc[p] /\ t = Put(r, 1) /\ k = Inum(t)
      OBVIOUS
    <3>3. proc'[p] = r /\ Inum(t)' = k
      BY <1>0, <1>2, <3>2
    <3>4. Firms(Inum(t))' = Firms(k) /\ (Blank(Inum(t))' <=> Blank(k))
      BY <1>0, <1>3, <1>4, <3>3 DEF Firms, Blank
    <3>q. QED BY <1>0, <3>1, <3>2, <3>3, <3>4 DEF FreeAt
  <2>q. QED BY <2>2 DEF FreeOK
<1>11. CallsOK'
  BY <1>0 DEF DInv, CallsOK, CallAt, IsDir, Inum
<1>12. ValidOK'
  BY <1>0 DEF DInv, ValidOK, ValidAt, Live, Inum, Dying, LateBlock, Matches
<1>13. \A i : Owed(i)' = Owed(i)
  BY <1>0, <1>4 DEF Owed, Owes
<1>14. CountOK'
  BY <1>0, <1>1, <1>13 DEF DInv, CountOK
<1>15. BlocksOK'
  <2>1. \A i, b : Owner(i, b)' <=> Owner(i, b)
    BY <1>0, <1>2 DEF Owner
  <2>q. QED BY <1>0, <2>1 DEF DInv, BlocksOK
<1>16. DirsOK'
  BY <1>0, <1>1, <1>8 DEF DInv, DirsOK
<1>17. SelfOK'
  <2>1. \A i : Building(i)' <=> Building(i)
    BY <1>0 DEF Building, Inum
  <2>q. QED BY <1>0, <1>1, <1>5, <1>8, <2>1 DEF DInv, SelfOK
<1>q. QED BY <1>0, <1>6, <1>7, <1>9, <1>10, <1>11, <1>12, <1>14, <1>15, <1>16, <1>17 DEF DInv

(* What the disk promises to a machine that boots from it. *)
DiskOK ==
    /\ DirsOK
    /\ \A i \in ibitmap : dinode[i].nlink >= Cardinality(LL(i))
    /\ \A i \in ibitmap, b \in Blocks : dinode[i].blk = b =>
          b \in bbitmap /\ \A j \in ibitmap : dinode[j].blk = b => i = j
    /\ \A d \in LD : dents[d]["."] = d

(* At every moment the disk is fit for a boot: a directory that is being   *)
(* built has no name yet.                                                  *)
LEMMA DiskFit ==
    ASSUME Before
    PROVE  DiskOK
<1>0. MInv /\ DiskTypes /\ DirsOK /\ CountOK /\ BlocksOK /\ SelfOK /\ FreshOK
  BY BeforeParts
<1>1. ASSUME NEW i \in ibitmap PROVE dinode[i].nlink >= Cardinality(LL(i))
  <2>1. PICK a, b, n : a = Cardinality(LL(i)) /\ b = Cardinality(Owed(i)) /\ n = dinode[i].nlink
    OBVIOUS
  <2>2. a \in Nat /\ b \in Nat /\ n \in Int
    BY <1>0, <2>1, LinksFinite, OwedSplit DEF LinksFew, OwedCounts, DiskTypes, Entries
  <2>3. n >= a + b
    BY <1>0, <2>1 DEF CountOK, LL
  <2>4. n >= a
    BY <2>2, <2>3
  <2>q. QED BY <2>1, <2>4
<1>2. ASSUME NEW i \in ibitmap, NEW b \in Blocks, dinode[i].blk = b
      PROVE  b \in bbitmap /\ \A j \in ibitmap : dinode[j].blk = b => i = j
  <2>1. ibitmap \subseteq Inums
    BY <1>0 DEF DiskTypes
  <2>2. \A j \in ibitmap : dinode[j].blk = b => Owner(j, b)
    BY DEF Owner
  <2>q. QED BY <1>0, <1>2, <2>1, <2>2 DEF BlocksOK
<1>3. ASSUME NEW d \in LD PROVE dents[d]["."] = d
  <2>1. d \in ibitmap /\ IsDir(d) /\ Linked(d)
    BY LinksAlways DEF LinksWell, Linked
  <2>2. LL(d) # {} /\ d \in Inums
    BY <1>0, <2>1, LinkedLinks DEF DiskTypes
  <2>3. ~Building(d)
    <3> SUFFICES ASSUME Building(d) PROVE FALSE
      OBVIOUS
    <3>1. PICK q \in Procs : proc[q].pc \in {"create_inode", "create_parent", "create_block", "create_dot"} /\ Inum(proc[q].ip) = d
      BY DEF Building
    <3>2. CASE proc[q].pc = "create_inode"
      <4>1. Fresh(proc[q], d)
        BY <1>0, <3>1, <3>2 DEF FreshOK, FreshAt
      <4>2. LL(d) = {}
        BY <1>0, <2>2, <4>1, NoLinks DEF Fresh, Blank
      <4>q. QED BY <2>2, <4>2
    <3>3. CASE proc[q].pc # "create_inode"
      <4>1. proc[q].pc \in CreateIp
        BY <3>1, <3>3 DEF CreateIp, CreateDir
      <4>q. QED BY <2>2, <3>1, <4>1, NewUnlinked
    <3>q. QED BY <3>2, <3>3
  <2>q. QED BY <1>0, <2>1, <2>3 DEF SelfOK, LD
<1>q. QED BY <1>0, <1>1, <1>2, <1>3 DEF DiskOK

(* The invariant when the machine has booted from such a disk. *)
BootWell == BootedNow /\ DiskTypes /\ DiskOK /\ panic = FALSE => DInv

(* A machine that has booted from a disk that is fit for it has one        *)
(* reference, to the root, which is in use.                                *)
LEMMA BootAlways == BootWell
<1> SUFFICES ASSUME BootedNow, DiskTypes, DiskOK, panic = FALSE PROVE DInv
  BY DEF BootWell
<1>0. /\ icache = [s \in Slots |-> IF s = 1 THEN [FreeSlot EXCEPT !.inum = EXT2INO, !.ref = 1] ELSE FreeSlot]
      /\ ftable = [f \in Files |-> NoFile]
      /\ cwd = [p \in Procs |-> IF p = init THEN 1 ELSE 0]
      /\ proc = [p \in Procs |-> IF p = init THEN User ELSE NoProc]
  BY DEF BootedNow, Booted
<1>1. MInv /\ DirsOK
  BY BootMInv DEF DiskOK
<1>2. \A p \in Procs : /\ proc[p].pc \in {"user", "unused"} /\ Point(proc[p]) \in {"user", "unused"}
                       /\ proc[p].n = 0 /\ proc[p].ip = 0 /\ proc[p].dp = 0
                       /\ Put(proc[p], 1) = 0 /\ Put(proc[p], 2) = 0
  BY <1>0, UserFields
<1>3. \A s \in Slots : icache[s].valid = FALSE /\ icache[s].lock = nullptr
  <2>1. PICK root : root = [FreeSlot EXCEPT !.inum = EXT2INO, !.ref = 1]
    OBVIOUS
  <2>2. FreeSlot.valid = FALSE /\ FreeSlot.lock = nullptr /\ root.valid = FALSE /\ root.lock = nullptr
    BY <2>1 DEF FreeSlot
  <2>3. \A s \in Slots : icache[s] = root \/ icache[s] = FreeSlot
    BY <1>0, <2>1
  <2>q. QED BY <2>2, <2>3
<1>4. ASSUME NEW x \in Places, Firm(x) PROVE Inum(Holds(x)) = EXT2INO
  <2>1. Holds(x) # 0
    BY <1>4 DEF Firm
  <2>2. Holds(x) = 1
    <3>1. CASE \E f \in Files : x = <<"file", f>>
      <4>1. PICK f \in Files : x = <<"file", f>>
        BY <3>1
      <4>2. Holds(x) = 0
        BY <1>0, <4>1, HoldsFile DEF NoFile
      <4>q. QED BY <2>1, <4>2
    <3>2. CASE \E p \in Procs : x \in {<<"n", p>>, <<"ip", p>>, <<"dp", p>>, <<"put1", p>>, <<"put2", p>>, <<"cwd", p>>}
      <4>1. PICK p \in Procs : x \in {<<"n", p>>, <<"ip", p>>, <<"dp", p>>, <<"put1", p>>, <<"put2", p>>, <<"cwd", p>>}
        BY <3>2
      <4>2. cwd[p] \in {0, 1}
        BY <1>0
      <4>q. QED BY <1>2, <2>1, <4>1, <4>2, HoldsProc
    <3>q. QED BY <3>1, <3>2, PlaceKinds
  <2>3. 1 \in Slots
    BY <1>1, <2>1, <2>2, HoldsUsable DEF Usable
  <2>4. icache[1] = [FreeSlot EXCEPT !.inum = EXT2INO, !.ref = 1]
    BY <1>0, <2>3
  <2>5. icache[1].inum = EXT2INO
    BY <2>4 DEF FreeSlot
  <2>q. QED BY <2>2, <2>5 DEF Inum
<1>5. KeptOK
  <2>1. EXT2INO \in ibitmap /\ dinode[EXT2INO].mode # "none"
    BY <1>1 DEF DirsOK, IsDir
  <2>q. QED BY <1>4, <2>1 DEF KeptOK
<1>6. WritesOK
  BY <1>2 DEF WritesOK
<1>7. FreshOK
  BY <1>2 DEF FreshOK, FreshAt, Allocating, CreateIp, CreateDir
<1>8. FreeOK
  BY <1>2 DEF FreeOK, FreeAt, FreePcs
<1>9. CallsOK
  BY <1>2 DEF CallsOK, CallAt, Naming, CreateIp, CreateDir, LinkSide, LinkIp
<1>10. ValidOK
  BY <1>3 DEF ValidOK, ValidAt
<1>11. \A p \in Procs : ~OwesIp(proc[p]) /\ ~OwesDp(proc[p])
  BY <1>2 DEF OwesIp, OwesDp, LinkSide, LinkIp, CreateIp, CreateDir
<1>12. CountOK
  <2> SUFFICES ASSUME NEW i \in ibitmap PROVE dinode[i].nlink >= Cardinality(LL(i)) + Cardinality(Owed(i))
    BY DEF CountOK, LL
  <2>1. ASSUME NEW x \in Owed(i) PROVE FALSE
    <3>1. PICK q \in Procs : x = <<"ip", q>> \/ x = <<"dp", q>>
      BY <2>1 DEF Owed
    <3>q. QED BY <1>11, <2>1, <3>1, OwedAlways DEF OwedWell
  <2>2. Owed(i) = {}
    BY <2>1
  <2>3. PICK a, b, n : a = Cardinality(LL(i)) /\ b = Cardinality(Owed(i)) /\ n = dinode[i].nlink
    OBVIOUS
  <2>4. a \in Nat /\ b = 0 /\ n \in Int /\ n >= a
    BY <2>2, <2>3, LinksFinite, FS_EmptySet DEF LinksFew, DiskTypes, Entries, DiskOK
  <2>5. n >= a + b
    BY <2>4
  <2>q. QED BY <2>3, <2>5
<1>13. BlocksOK
  <2>1. \A i, b : Owner(i, b) <=> i \in ibitmap /\ dinode[i].blk = b
    BY <1>3 DEF Owner
  <2>2. \A i \in ibitmap, b \in Blocks : dinode[i].blk = b =>
          b \in bbitmap /\ \A j \in ibitmap : dinode[j].blk = b => i = j
    BY DEF DiskOK
  <2>q. QED BY <2>1, <2>2 DEF BlocksOK
<1>14. SelfOK
  <2> SUFFICES ASSUME NEW i \in ibitmap, IsDir(i), Firms(i) # {} \/ i \in LD PROVE dents[i]["."] = i
    BY DEF SelfOK, LD
  <2>1. EXT2INO \in LD
    BY <1>1, LinksAlways DEF LinksWell, DirsOK
  <2>2. Firms(i) # {} => i = EXT2INO
    BY <1>4 DEF Firms
  <2>3. i \in LD
    BY <2>1, <2>2
  <2>q. QED BY <2>3 DEF DiskOK
<1>q. QED BY <1>1, <1>5, <1>6, <1>7, <1>8, <1>9, <1>10, <1>12, <1>13, <1>14 DEF DInv

(* The same of a machine that boots in this step. *)
LEMMA BootLater == BootWell'
BY BootAlways, PTL

(* The invariant holds when a machine first boots, from an image that mkfs *)
(* has made.                                                               *)
LEMMA InitD == Init => DInv
<1> SUFFICES ASSUME Init PROVE DInv
  OBVIOUS
<1>1. BootedNow /\ DiskTypes /\ panic = FALSE
  BY InitR DEF Init, BootedNow, RInv
<1>2. PICK im \in Images : ibitmap = im.ibitmap /\ bbitmap = im.bbitmap /\ dinode = im.dinode /\ dents = im.dents
  BY DEF Init, DiskInit
<1>3. im \in Disks /\ Consistent(im)
  BY ImagesAssumption
<1>4. im = Disk
  BY <1>2, <1>3 DEF Disks, Disk
<1>5. Consistent(Disk)
  BY <1>3, <1>4
<1>6. Disk.ibitmap = ibitmap /\ Disk.bbitmap = bbitmap /\ Disk.dinode = dinode /\ Disk.dents = dents
  BY DEF Disk
<1>7. DirsOK
  <2>1. /\ EXT2INO \in DirsOf(Disk) /\ NamesOf(Disk, EXT2INO) = {} /\ dents[EXT2INO][".."] = EXT2INO
        /\ \A i \in Inums : NamesOf(Disk, i) # {} => i \in ibitmap /\ dinode[i].mode # "none"
        /\ \A i \in DirsOf(Disk) : \A e, f \in NamesOf(Disk, i) : e = f /\ dents[i][".."] = e[1]
    BY <1>5, <1>6 DEF Consistent
  <2>2. EXT2INO \in ibitmap /\ IsDir(EXT2INO)
    BY <2>1, LinksAlways DEF LinksWell
  <2>q. QED BY <2>1, <2>2 DEF DirsOK
<1>8. \A i \in ibitmap : dinode[i].nlink >= Cardinality(LL(i))
  BY <1>1, <1>5, <1>6 DEF Consistent, LL, DiskTypes
<1>9. \A i \in ibitmap, b \in Blocks : dinode[i].blk = b =>
          b \in bbitmap /\ \A j \in ibitmap : dinode[j].blk = b => i = j
  <2>1. \A i \in ibitmap : dinode[i].blk # 0 =>
          /\ dinode[i].blk \in bbitmap
          /\ \A j \in ibitmap \ {i} : dinode[j].blk # dinode[i].blk
    BY <1>5, <1>6 DEF Consistent
  <2>q. QED BY <2>1, Ext2Assumption
<1>10. \A d \in LD : dents[d]["."] = d
  BY <1>5, <1>6 DEF Consistent, LD
<1>q. QED BY <1>1, <1>7, <1>8, <1>9, <1>10, BootAlways DEF BootWell, DiskOK

(* The invariant holds after a crash at any moment and a boot from what    *)
(* the disk then has.                                                      *)
LEMMA CrashD ==
    ASSUME Before, Crash
    PROVE  DInv'
<1>1. BootedNow' /\ panic' = FALSE /\ UNCHANGED diskVars
  BY DEF Crash, BootedNow
<1>2. DiskTypes'
  BY CrashR DEF Before, RInv
<1>3. /\ ibitmap' = ibitmap /\ bbitmap' = bbitmap /\ dinode' = dinode /\ dents' = dents /\ Disk' = Disk
  BY <1>1 DEF diskVars, Disk
<1>4. DiskOK
  BY DiskFit
<1>5. DirsOK'
  BY <1>3, <1>4 DEF DiskOK, DirsOK, IsDir
<1>6. (\A i : LL(i)' = LL(i)) /\ LD' = LD
  BY <1>3 DEF LL, LD
<1>7. DiskOK'
  BY <1>3, <1>4, <1>5, <1>6 DEF DiskOK
<1>q. QED BY <1>1, <1>2, <1>7, BootLater DEF BootWell

(* Every step of a process keeps the invariant. *)
LEMMA StepD ==
    ASSUME Before, After, NoDotDot, NEW p \in Procs, Step(p)
    PROVE  DInv'
BY BeginPathCallD, NamexElementD, NamexEndD, IputLockD, IfreeD, BfreeD, IfreeUpdateD, IputDropD, CreateLookupD,
   CreateExistsD, IallocInodeD, IallocBitmapD, IallocIgetD, CreateInodeD, CreateParentD, CreateBlockD, CreateDotD,
   CreateDotDotD, CreateLinkD, CreateDoneD, OpenLockD, OpenFdD, CloseD, DupD, ReadFileD, WriteBlockD, WriteUpdateD,
   UnlinkLookupD, UnlinkEntryD, UnlinkParentD, UnlinkDecD, UnlinkBadD, LinkIncD, LinkNewD, LinkEntryD, LinkTakenD,
   LinkBadD, ChdirD, ForkD, ExitD, ExitCloseD, ExitCwdD DEF Step

(* What the disk, the inode cache and the calls of all processes agree on, *)
(* at every moment and across crashes, for calls whose paths do not go     *)
(* through "..".                                                           *)
THEOREM DInvariant ==
    ASSUME NoDotDot
    PROVE  Spec => []DInv
<1>1. RInv /\ RInv' /\ DInv /\ [Next]_vars => DInv'
  <2> SUFFICES ASSUME RInv, RInv', DInv, [Next]_vars PROVE DInv'
    OBVIOUS
  <2>1. Before /\ After
    BY DEF Before, After, RInv
  <2>2. ASSUME NEW p \in Procs, Step(p) PROVE DInv'
    BY <2>1, <2>2, StepD
  <2>q. QED BY <2>1, <2>2, CrashD, StutterD DEF Next
<1>q. QED BY InitD, RInvariant, <1>1, PTL DEF Spec

(* An entry names an inode in use with enough links. *)
LEMMA EntriesFollow == RInv /\ DInv => EntriesNameLiveInodes
<1> SUFFICES ASSUME RInv, DInv, NEW i \in Inums, LL(i) # {}
             PROVE  i \in ibitmap /\ dinode[i].mode # "none" /\ dinode[i].nlink >= Cardinality(LL(i))
  BY DEF EntriesNameLiveInodes, LL
<1>1. Before /\ DiskOK /\ DiskTypes /\ DirsOK
  BY DiskFit, BeforeParts DEF Before
<1>2. i \in ibitmap /\ dinode[i].mode # "none"
  BY <1>1, LinkedLives
<1>q. QED BY <1>1, <1>2 DEF DiskOK

(* A block has one owner. *)
LEMMA BlocksFollow == RInv /\ DInv => BlocksOwnedOnce
<1> SUFFICES ASSUME RInv, DInv PROVE BlocksOwnedOnce
  OBVIOUS
<1>1. Before /\ MInv /\ DiskTypes /\ DiskOK /\ BlocksOK
  BY DiskFit, BeforeParts DEF Before
<1>2. ASSUME NEW i \in ibitmap, dinode[i].blk # 0
      PROVE  dinode[i].blk \in bbitmap /\ \A j \in ibitmap \ {i} : dinode[j].blk # dinode[i].blk
  <2>1. dinode[i].blk \in Blocks
    BY <1>1, <1>2 DEF DiskTypes, Entries
  <2>q. QED BY <1>1, <2>1 DEF DiskOK
<1>3. ASSUME NEW s \in Slots, NEW t \in Slots, icache[s].ref > 0, icache[s].valid, icache[t].ref > 0, icache[t].valid,
             s # t, icache[s].blk # 0
      PROVE  icache[s].blk \in bbitmap /\ icache[s].blk # icache[t].blk
  <2>1. icache[s] \in SlotRecords /\ icache[t] \in SlotRecords
    BY <1>1 DEF MInv, MemTypes
  <2>2. icache[s].blk \in Blocks
    BY <1>3, <2>1 DEF SlotRecords
  <2>3. Live(s) /\ Live(t) /\ Inum(s) # Inum(t) /\ Inum(s) \in Inums /\ Inum(t) \in Inums
    <3>1. Live(s) /\ Live(t)
      BY <1>3 DEF Live
    <3>2. Inum(s) # Inum(t)
      BY <1>1, <1>3, <3>1, SameSlot
    <3>3. Inum(s) \in Inums /\ Inum(t) \in Inums
      BY <1>1, <3>1 DEF MInv, SlotsOK, MemTypes, SlotRecords, Live, Inum
    <3>q. QED BY <3>1, <3>2, <3>3
  <2>4. Owner(Inum(s), icache[s].blk) /\ Owner(Inum(t), icache[t].blk)
    BY <1>3, <2>3 DEF Owner
  <2>q. QED BY <1>1, <2>2, <2>3, <2>4 DEF BlocksOK
<1>q. QED BY <1>2, <1>3 DEF BlocksOwnedOnce

(* An inode that nobody has locked is on the disk as it is cached. *)
LEMMA CacheFollow == RInv /\ DInv => CacheMatchesDisk
<1> SUFFICES ASSUME RInv, DInv, NEW s \in Slots, icache[s].ref > 0, icache[s].valid, icache[s].lock = nullptr
             PROVE  dinode[icache[s].inum] = [mode |-> icache[s].type, nlink |-> icache[s].nlink, blk |-> icache[s].blk]
  BY DEF CacheMatchesDisk
<1>1. Before /\ MInv /\ DiskTypes /\ ValidAt(s) /\ nullptr \notin Procs
  BY BeforeParts, Ext2Assumption DEF Before, ValidOK
<1>2. ~Dying(s)
  BY <1>1, DyingLocked DEF Dying, FreePcs
<1>3. ~LateBlock(s)
  BY <1>1 DEF LateBlock
<1>4. Inum(s) \in ibitmap /\ Matches(s)
  BY <1>1, <1>2 DEF ValidAt, Live
<1>5. PICK d : d = dinode[Inum(s)]
  OBVIOUS
<1>6. d.mode = icache[s].type /\ d.nlink = icache[s].nlink /\ d.blk = icache[s].blk
  BY <1>3, <1>4, <1>5 DEF Matches
<1>7. d \in Entries
  BY <1>1, <1>4, <1>5 DEF DiskTypes
<1>8. d = [mode |-> icache[s].type, nlink |-> icache[s].nlink, blk |-> icache[s].blk]
  BY <1>6, <1>7 DEF Entries
<1>q. QED BY <1>5, <1>8 DEF Inum

(* An open file or a working directory has an inode in use. *)
LEMMA OpenFollow == RInv /\ DInv => OpenInodeKept
<1> SUFFICES ASSUME RInv, DInv, NEW s \in Slots, s \in {ftable[f].ip : f \in Files} \cup {cwd[p] : p \in Procs}
             PROVE  Inum(s) \in ibitmap
  BY DEF OpenInodeKept, Inum
<1>1. KeptOK
  BY DEF DInv
<1>2. s # 0
  BY DEF Slots
<1>3. CASE \E f \in Files : s = ftable[f].ip
  <2>1. PICK f \in Files : s = ftable[f].ip
    BY <1>3
  <2>2. <<"file", f>> \in Places /\ Holds(<<"file", f>>) = s /\ Firm(<<"file", f>>)
    BY <1>2, <2>1, HoldsFile, FirmAlways DEF FirmWell
  <2>q. QED BY <1>1, <2>2 DEF KeptOK
<1>4. CASE \E q \in Procs : s = cwd[q]
  <2>1. PICK q \in Procs : s = cwd[q]
    BY <1>4
  <2>2. <<"cwd", q>> \in Places /\ Holds(<<"cwd", q>>) = s /\ Firm(<<"cwd", q>>)
    BY <1>2, <2>1, HoldsProc, FirmAlways DEF FirmWell
  <2>q. QED BY <1>1, <2>2 DEF KeptOK
<1>q. QED BY <1>3, <1>4

(* Every directory entry names an inode that is marked as used, has a      *)
(* type, and has at least as many links as entries: create(), link(),      *)
(* unlink() and iput() write in an order that no interleaving and no crash *)
(* turns into an entry for a freed inode.                                  *)
THEOREM EntriesLive ==
    ASSUME NoDotDot
    PROVE  Spec => []EntriesNameLiveInodes
BY DInvariant, RInvariant, EntriesFollow, PTL

(* No block belongs to two inodes, and every block of an inode is marked   *)
(* as used, whatever balloc(), iput() and crashes do.                      *)
THEOREM BlocksOnce ==
    ASSUME NoDotDot
    PROVE  Spec => []BlocksOwnedOnce
BY DInvariant, RInvariant, BlocksFollow, PTL

(* A cached inode that nobody has locked is what the disk has: no call     *)
(* leaves a change behind.                                                 *)
THEOREM CacheAndDisk ==
    ASSUME NoDotDot
    PROVE  Spec => []CacheMatchesDisk
BY DInvariant, RInvariant, CacheFollow, PTL

(* The inode of an open file or a working directory is never freed,        *)
(* although unlink() may take its last name: the race between the test of  *)
(* iput() and the other calls is harmless.                                 *)
THEOREM OpenKept ==
    ASSUME NoDotDot
    PROVE  Spec => []OpenInodeKept
BY DInvariant, RInvariant, OpenFollow, PTL

(* No check of ext2.c, file.c and sysfile.c panics: ilock() finds a type,  *)
(* ifree() and bfree() find their bits set, unlink() finds a link.         *)
THEOREM NeverPanics ==
    ASSUME NoDotDot
    PROVE  Spec => []NoPanic
<1>1. DInv => NoPanic
  BY DEF DInv, NoPanic
<1>q. QED BY DInvariant, <1>1, PTL
=============================================================================
