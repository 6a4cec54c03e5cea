----------------------------- MODULE FileSystem -----------------------------
(***************************************************************************)
(* The file system calls (kernel/syscalls/sysfile.c), the open file table  *)
(* (kernel/fs/file.c), path lookup (kernel/fs/fs.c), and what fork() and   *)
(* exit() do with descriptors and working directories, on top of the       *)
(* inode cache and disk of Ext2.  The machine may crash between any two    *)
(* steps: memory is lost, the disk stays, and there is no recovery pass.   *)
(*                                                                         *)
(* A process has one thread of control.  Its steps are delimited by the    *)
(* writes to the disk and by the inode locks it takes while it holds       *)
(* another: a section that takes and releases one lock, or one spinlock,   *)
(* around reads alone is one step with what follows or precedes it.  A     *)
(* path is the sequence of its elements; an absolute one begins with "/".  *)
(* File contents and offsets are left out, as are pipes (see Pipe) and     *)
(* the contents of devices.                                                *)
(***************************************************************************)
EXTENDS Ext2, Sequences

CONSTANTS init,        \* the first process, the only one after a boot
          NFILE,       \* entries of the open file table
          NOFILE,      \* descriptors of a process
          Calls,       \* the system calls that processes make, with their paths
          MaxCalls,    \* bound on the calls of a behaviour, fork and exit aside
          MaxCrashes   \* bound on the crashes of a behaviour

Files == 1..NFILE
Fds == 1..NOFILE

(* A path has an element, and only the first may be "/". *)
IsPath(path) ==
    /\ path \in Seq(DirNames \cup {"/"})
    /\ path # <<>>
    /\ \A j \in 2..Len(path) : path[j] # "/"

FdCalls == [op : {"close", "dup", "read", "write"}]
PathOps == {"open", "openw", "creat", "mkdir", "mknod", "unlink", "link", "chdir"}

ASSUME FileSystemAssumption ==
    /\ init \in Procs
    /\ NFILE \in Nat
    /\ NOFILE \in Nat
    /\ MaxCalls \in Nat
    /\ MaxCrashes \in Nat
    /\ \A c \in Calls : c \in FdCalls \/ (c.op \in PathOps /\ IsPath(c.path))
    /\ \A c \in Calls : c.op = "link" => IsPath(c.new)

VARIABLES
    ftable, ofile, cwd,
    proc,               \* where each process is in its call, and its locals
    panic,
    calls, crashes      \* so far

memVars == <<icache, ftable, ofile, cwd, proc>>
bounds == <<calls, crashes>>
vars == <<diskVars, memVars, panic, bounds>>

(* A process in user mode.  A call keeps: the rest of the path and the     *)
(* inode that namex() has reached (rest, n), the inodes it has references  *)
(* to (ip, dp), the inodes it is about to iput() (puts), where it goes on  *)
(* from there (ret), the number that ialloc() picked (ino).                *)
User == [pc |-> "user", call |-> [op |-> "none"], rest |-> <<>>, n |-> 0, ip |-> 0,
         dp |-> 0, puts |-> <<>>, ret |-> "user", ino |-> 0]
NoProc == [User EXCEPT !.pc = "unused"]
NoFile == [ref |-> 0, ip |-> 0, writable |-> FALSE]

TypeOK ==
    /\ Ext2TypeOK
    /\ ftable \in [Files -> [ref : Nat, ip : Slots \cup {0}, writable : BOOLEAN]]
    /\ ofile \in [Procs -> [Fds -> Files \cup {0}]]
    /\ cwd \in [Procs -> Slots \cup {0}]
    /\ \A p \in Procs : /\ {proc[p].n, proc[p].ip, proc[p].dp} \subseteq Slots \cup {0}
                        /\ proc[p].puts \in Seq(Slots)
    /\ panic \in BOOLEAN
    /\ calls \in 0..MaxCalls
    /\ crashes \in 0..MaxCrashes

(* The memory of a machine that has just booted: user_init() gives init    *)
(* the root as its working directory.                                      *)
Booted(ic, ft, of, cw, pr) ==
    /\ ic = [s \in Slots |-> IF s = 1 THEN [FreeSlot EXCEPT !.inum = EXT2INO, !.ref = 1]
                                      ELSE FreeSlot]
    /\ ft = [f \in Files |-> NoFile]
    /\ of = [p \in Procs |-> [fd \in Fds |-> 0]]
    /\ cw = [p \in Procs |-> IF p = init THEN 1 ELSE 0]
    /\ pr = [p \in Procs |-> IF p = init THEN User ELSE NoProc]

Init ==
    /\ DiskInit
    /\ Booted(icache, ftable, ofile, cwd, proc)
    /\ panic = FALSE
    /\ calls = 0
    /\ crashes = 0

-----------------------------------------------------------------------------
At(p, where) == proc[p].pc = where /\ ~panic
Goto(p, where) == [proc[p] EXCEPT !.pc = where]
Become(p, r) == proc' = [proc EXCEPT ![p] = r]

(* The process calls iput() on the inodes of slots, one after the other,   *)
(* and then goes on at ret.                                                *)
IputThen(r, slots, ret) == [r EXCEPT !.pc = "iput", !.puts = slots, !.ret = ret]

CanLock(s) == icache[s].lock = nullptr
SetSlot(s, i) == icache' = [icache EXCEPT ![s] = i]

LastName(p) == LET c == proc[p].call IN
               IF c.op = "link" THEN c.new[Len(c.new)] ELSE c.path[Len(c.path)]
TypeOf(op) == CASE op = "mkdir" -> "dir" [] op = "mknod" -> "dev" [] OTHER -> "file"

(* A process in user mode makes another call. *)
Call(p, c) ==
    /\ At(p, "user")
    /\ c \in Calls
    /\ calls < MaxCalls
    /\ calls' = calls + 1

(* The start of namex(): the root, or the working directory. *)
NamexStart(p, r, path) ==
    LET root == path[1] = "/"
        s == IF root THEN IgetSlot(EXT2INO) ELSE cwd[p]
    IN /\ SetSlot(s, IF root THEN IgetEntry(EXT2INO) ELSE Idup(s))
       /\ Become(p, [r EXCEPT !.pc = "namex", !.n = s,
                              !.rest = IF root THEN Tail(path) ELSE path])

(* A call is made for the parent of its path, or for the path itself;      *)
(* link() looks up the old path and then the parent of the new one.        *)
WantsParent(r) == \/ r.call.op \in {"creat", "mkdir", "mknod", "unlink"}
                  \/ r.call.op = "link" /\ r.ip # 0

(* Where a call goes on when namex() has found its inode, and when not. *)
Found(r) ==
    IF WantsParent(r)
    THEN [r EXCEPT !.dp = r.n, !.n = 0, !.rest = <<>>,
                   !.pc = CASE r.call.op = "unlink" -> "unlink_dp"
                            [] r.call.op = "link" -> "link_dp"
                            [] OTHER -> "create"]
    ELSE [r EXCEPT !.ip = r.n, !.n = 0, !.rest = <<>>, !.pc = r.call.op]
NotFound(r) == IF r.call.op = "link" /\ r.ip # 0 THEN "link_bad" ELSE "user"

(* sys_open, sys_mkdir, sys_mknod, sys_unlink, sys_link and sys_chdir. *)
BeginPathCall(p) ==
    /\ \E c \in Calls :
          /\ c.op \in PathOps
          /\ Call(p, c)
          /\ NamexStart(p, [proc[p] EXCEPT !.call = c], c.path)
    /\ UNCHANGED <<diskVars, ftable, ofile, cwd, panic, crashes>>

(* One turn of the loop of namex(). *)
NamexElement(p) ==
    LET r == proc[p]
        i == Loaded(r.n)
        next == dents[i.inum][Head(r.rest)]
    IN /\ At(p, "namex")
       /\ r.rest # <<>>
       /\ CanLock(r.n)
       /\ panic' = IlockPanics(r.n)
       /\ IF i.type # "dir"
          THEN SetSlot(r.n, i) /\ Become(p, IputThen([r EXCEPT !.n = 0], <<r.n>>, NotFound(r)))
          ELSE IF WantsParent(r) /\ Len(r.rest) = 1
          THEN SetSlot(r.n, i) /\ Become(p, Found(r))
          ELSE IF next = 0
          THEN SetSlot(r.n, i) /\ Become(p, IputThen([r EXCEPT !.n = 0], <<r.n>>, NotFound(r)))
          ELSE /\ icache' = SetAndIget(r.n, i, next)
               /\ Become(p, IputThen([r EXCEPT !.n = IgetSlot(next), !.rest = Tail(@)], <<r.n>>, "namex"))
       /\ UNCHANGED <<diskVars, ftable, ofile, cwd, bounds>>

(* The end of namex(): the path is used up. *)
NamexEnd(p) ==
    LET r == proc[p] IN
    /\ At(p, "namex")
    /\ r.rest = <<>>
    /\ Become(p, IF WantsParent(r) THEN IputThen([r EXCEPT !.n = 0], <<r.n>>, NotFound(r)) ELSE Found(r))
    /\ UNCHANGED <<diskVars, icache, ftable, ofile, cwd, panic, bounds>>

-----------------------------------------------------------------------------
(* Mutant of IputLock: the reference count is not tested. *)
IputLockAnyRef(p) ==
    LET s == Head(proc[p].puts)
        dead == icache[s].valid /\ icache[s].nlink = 0
    IN /\ At(p, "iput")
       /\ CanLock(s)
       /\ SetSlot(s, [icache[s] EXCEPT !.lock = IF dead THEN p ELSE nullptr])
       /\ Become(p, Goto(p, IF dead THEN "ifree" ELSE "iput_drop"))
       /\ UNCHANGED <<diskVars, ftable, ofile, cwd, panic, bounds>>

(* iput(), first half: under the inode lock, an inode without links and    *)
(* without other references is to be freed.  The lock is kept for that.    *)
IputLock(p) ==
    LET s == Head(proc[p].puts)
        dead == icache[s].valid /\ icache[s].nlink = 0 /\ icache[s].ref = 1
    IN /\ At(p, "iput")
       /\ CanLock(s)
       /\ SetSlot(s, [icache[s] EXCEPT !.lock = IF dead THEN p ELSE nullptr])
       /\ Become(p, Goto(p, IF dead THEN "ifree" ELSE "iput_drop"))
       /\ UNCHANGED <<diskVars, ftable, ofile, cwd, panic, bounds>>

(* The inode bitmap's buffer is held between the two writes of ialloc(). *)
InodeBitmapBusy == \E q \in Procs : proc[q].pc = "ialloc_bitmap"

(* ext2fs_ifree() *)
Ifree(p) ==
    LET i == icache[Head(proc[p].puts)] IN
    /\ At(p, "ifree")
    /\ ~InodeBitmapBusy
    /\ panic' = (i.inum \notin ibitmap)
    /\ ibitmap' = ibitmap \ {i.inum}
    /\ Become(p, Goto(p, IF i.blk # 0 THEN "bfree" ELSE "ifree_update"))
    /\ UNCHANGED <<bbitmap, dinode, dents, icache, ftable, ofile, cwd, bounds>>

(* ext2fs_itrunc(): ext2fs_bfree() of the block. *)
Bfree(p) ==
    LET s == Head(proc[p].puts)
        i == icache[s]
    IN /\ At(p, "bfree")
       /\ panic' = (i.blk \notin bbitmap)
       /\ bbitmap' = bbitmap \ {i.blk}
       /\ SetSlot(s, [i EXCEPT !.blk = 0])
       /\ Become(p, Goto(p, "ifree_update"))
       /\ UNCHANGED <<ibitmap, dinode, dents, ftable, ofile, cwd, bounds>>

(* Mutant of IfreeUpdate: the freed inode stays valid in the cache. *)
IfreeUpdateValid(p) ==
    LET s == Head(proc[p].puts)
        i == [icache[s] EXCEPT !.type = "none"]
    IN /\ At(p, "ifree_update")
       /\ Iupdate(i)
       /\ dents' = [dents EXCEPT ![i.inum] = NoDents]
       /\ SetSlot(s, Unlocked(i))
       /\ Become(p, Goto(p, "iput_drop"))
       /\ UNCHANGED <<ibitmap, bbitmap, ftable, ofile, cwd, panic, bounds>>

(* The rest of iput()'s freeing: iupdate() of an inode of size 0, and then *)
(* of one of type 0, which leaves the same bytes on the disk.              *)
IfreeUpdate(p) ==
    LET s == Head(proc[p].puts)
        i == [icache[s] EXCEPT !.type = "none"]
    IN /\ At(p, "ifree_update")
       /\ Iupdate(i)
       /\ dents' = [dents EXCEPT ![i.inum] = NoDents]
       /\ SetSlot(s, [Unlocked(i) EXCEPT !.valid = FALSE])
       /\ Become(p, Goto(p, "iput_drop"))
       /\ UNCHANGED <<ibitmap, bbitmap, ftable, ofile, cwd, panic, bounds>>

(* iput(), second half: the reference is dropped under icache.lock. *)
IputDrop(p) ==
    LET r == proc[p]
        left == [r EXCEPT !.puts = Tail(@)]
    IN /\ At(p, "iput_drop")
       /\ icache' = [icache EXCEPT ![Head(r.puts)].ref = @ - 1]
       /\ Become(p, IF left.puts # <<>> THEN [left EXCEPT !.pc = "iput"]
                    ELSE IF r.ret = "user" THEN User
                    ELSE IF r.ret = "unused" THEN NoProc
                    ELSE [left EXCEPT !.pc = r.ret, !.ret = "user"])
       /\ UNCHANGED <<diskVars, ftable, ofile, cwd, panic, bounds>>

-----------------------------------------------------------------------------
(* create(): under the lock of the directory, is the name taken?  It goes  *)
(* on with the existing inode, or with the directory locked.               *)
CreateLookup(p) ==
    LET r == proc[p]
        found == Dirlookup(r.dp, LastName(p))
    IN /\ At(p, "create")
       /\ CanLock(r.dp)
       /\ panic' = IlockPanics(r.dp)
       /\ IF found = 0
          THEN SetSlot(r.dp, Locked(r.dp, p)) /\ Become(p, Goto(p, "ialloc"))
          ELSE /\ icache' = SetAndIget(r.dp, Loaded(r.dp), found)
               /\ Become(p, IputThen([r EXCEPT !.ip = IgetSlot(found), !.dp = 0], <<r.dp>>, "create_exists"))
       /\ UNCHANGED <<diskVars, ftable, ofile, cwd, bounds>>

(* The name is taken: open() takes a file, everything else fails. *)
CreateExists(p) ==
    LET r == proc[p]
        i == Loaded(r.ip)
    IN /\ At(p, "create_exists")
       /\ CanLock(r.ip)
       /\ panic' = IlockPanics(r.ip)
       /\ IF TypeOf(r.call.op) = "file" /\ i.type = "file"
          THEN SetSlot(r.ip, Locked(r.ip, p)) /\ Become(p, Goto(p, "open_fd"))
          ELSE SetSlot(r.ip, i) /\ Become(p, IputThen([r EXCEPT !.ip = 0], <<r.ip>>, "user"))
       /\ UNCHANGED <<diskVars, ftable, ofile, cwd, bounds>>

(* ext2fs_ialloc(): the first free inode is cleared in the inode table,    *)
(* and then marked in the bitmap, whose buffer is held from the choice on. *)
(* Without a free inode the machine panics and the step does not happen.   *)
IallocInode(p) ==
    LET ino == Least(FreeInums) IN
    /\ At(p, "ialloc")
    /\ ~InodeBitmapBusy
    /\ FreeInums # {}
    /\ dinode' = [dinode EXCEPT ![ino] = [mode |-> TypeOf(proc[p].call.op), nlink |-> 0, blk |-> 0]]
    /\ dents' = [dents EXCEPT ![ino] = NoDents]
    /\ Become(p, [Goto(p, "ialloc_bitmap") EXCEPT !.ino = ino])
    /\ UNCHANGED <<ibitmap, bbitmap, icache, ftable, ofile, cwd, panic, bounds>>

IallocBitmap(p) ==
    /\ At(p, "ialloc_bitmap")
    /\ ibitmap' = ibitmap \cup {proc[p].ino}
    /\ Become(p, Goto(p, "ialloc_iget"))
    /\ UNCHANGED <<bbitmap, dinode, dents, icache, ftable, ofile, cwd, panic, bounds>>

(* The iget() at the end of ialloc(). *)
IallocIget(p) ==
    LET s == IgetSlot(proc[p].ino) IN
    /\ At(p, "ialloc_iget")
    /\ SetSlot(s, IgetEntry(proc[p].ino))
    /\ Become(p, [Goto(p, "create_inode") EXCEPT !.ip = s, !.ino = 0])
    /\ UNCHANGED <<diskVars, ftable, ofile, cwd, panic, bounds>>

(* The new inode is locked, below the directory, and written. *)
CreateInode(p) ==
    LET r == proc[p]
        i == [Locked(r.ip, p) EXCEPT !.type = TypeOf(r.call.op), !.nlink = 1]
    IN /\ At(p, "create_inode")
       /\ CanLock(r.ip)
       /\ panic' = IlockPanics(r.ip)
       /\ SetSlot(r.ip, i)
       /\ Iupdate(i)
       /\ Become(p, Goto(p, IF i.type = "dir" THEN "create_parent" ELSE "create_link"))
       /\ UNCHANGED <<ibitmap, bbitmap, dents, ftable, ofile, cwd, bounds>>

(* A new directory: the parent's link count for "..", the block of the new *)
(* directory, and its two entries, each made durable by an iupdate().      *)
CreateParent(p) ==
    LET i == [icache[proc[p].dp] EXCEPT !.nlink = @ + 1] IN
    /\ At(p, "create_parent")
    /\ SetSlot(proc[p].dp, i)
    /\ Iupdate(i)
    /\ Become(p, Goto(p, "create_block"))
    /\ UNCHANGED <<ibitmap, bbitmap, dents, ftable, ofile, cwd, panic, bounds>>

CreateBlock(p) ==
    /\ At(p, "create_block")
    /\ \E b \in FreeBlocks :
          /\ Balloc(b)
          /\ icache' = [icache EXCEPT ![proc[p].ip].blk = b]
    /\ Become(p, Goto(p, "create_dot"))
    /\ UNCHANGED <<ibitmap, dinode, dents, ftable, ofile, cwd, panic, bounds>>

CreateDot(p) ==
    LET i == icache[proc[p].ip] IN
    /\ At(p, "create_dot")
    /\ dents' = [dents EXCEPT ![i.inum]["."] = i.inum]
    /\ Iupdate(i)
    /\ Become(p, Goto(p, "create_dotdot"))
    /\ UNCHANGED <<ibitmap, bbitmap, icache, ftable, ofile, cwd, panic, bounds>>

CreateDotDot(p) ==
    /\ At(p, "create_dotdot")
    /\ dents' = [dents EXCEPT ![icache[proc[p].ip].inum][".."] = icache[proc[p].dp].inum]
    /\ Become(p, Goto(p, "create_link"))
    /\ UNCHANGED <<ibitmap, bbitmap, dinode, icache, ftable, ofile, cwd, panic, bounds>>

(* Mutant of CreateLink: the directory is unlocked but not released. *)
CreateLinkNoPut(p) ==
    LET r == proc[p] IN
    /\ At(p, "create_link")
    /\ dents' = [dents EXCEPT ![icache[r.dp].inum][LastName(p)] = icache[r.ip].inum]
    /\ SetSlot(r.dp, Unlocked(icache[r.dp]))
    /\ Become(p, [r EXCEPT !.dp = 0, !.pc = IF r.call.op = "creat" THEN "open_fd" ELSE "create_done"])
    /\ UNCHANGED <<ibitmap, bbitmap, dinode, ftable, ofile, cwd, panic, bounds>>

(* The entry is written and the directory is let go, the new inode still   *)
(* being locked.                                                           *)
CreateLink(p) ==
    LET r == proc[p] IN
    /\ At(p, "create_link")
    /\ dents' = [dents EXCEPT ![icache[r.dp].inum][LastName(p)] = icache[r.ip].inum]
    /\ SetSlot(r.dp, Unlocked(icache[r.dp]))
    /\ Become(p, IputThen([r EXCEPT !.dp = 0], <<r.dp>>,
                          IF r.call.op = "creat" THEN "open_fd" ELSE "create_done"))
    /\ UNCHANGED <<ibitmap, bbitmap, dinode, ftable, ofile, cwd, panic, bounds>>

(* mkdir() and mknod() let the new inode go. *)
CreateDone(p) ==
    LET r == proc[p] IN
    /\ At(p, "create_done")
    /\ SetSlot(r.ip, Unlocked(icache[r.ip]))
    /\ Become(p, IputThen([r EXCEPT !.ip = 0], <<r.ip>>, "user"))
    /\ UNCHANGED <<diskVars, ftable, ofile, cwd, panic, bounds>>

-----------------------------------------------------------------------------
(* open_file() without O_CREATE: a directory may only be read. *)
OpenLock(p, op) ==
    LET r == proc[p]
        i == Loaded(r.ip)
    IN /\ At(p, op)
       /\ CanLock(r.ip)
       /\ panic' = IlockPanics(r.ip)
       /\ IF i.type = "dir" /\ op = "openw"
          THEN SetSlot(r.ip, i) /\ Become(p, IputThen([r EXCEPT !.ip = 0], <<r.ip>>, "user"))
          ELSE SetSlot(r.ip, Locked(r.ip, p)) /\ Become(p, Goto(p, "open_fd"))
       /\ UNCHANGED <<diskVars, ftable, ofile, cwd, bounds>>

FreeFiles == {f \in Files : ftable[f].ref = 0}
FreeFds(p) == {fd \in Fds : ofile[p][fd] = 0}

(* The end of open_file(): a file and a descriptor, or neither. *)
OpenFd(p) ==
    LET r == proc[p]
        f == Least(FreeFiles)
    IN /\ At(p, "open_fd")
       /\ SetSlot(r.ip, Unlocked(icache[r.ip]))
       /\ IF FreeFiles = {} \/ FreeFds(p) = {}
          THEN /\ Become(p, IputThen([r EXCEPT !.ip = 0], <<r.ip>>, "user"))
               /\ UNCHANGED <<ftable, ofile>>
          ELSE /\ ftable' = [ftable EXCEPT ![f] = [ref |-> 1, ip |-> r.ip, writable |-> r.call.op # "open"]]
               /\ ofile' = [ofile EXCEPT ![p][Least(FreeFds(p))] = f]
               /\ Become(p, User)
       /\ UNCHANGED <<diskVars, cwd, panic, bounds>>

(* file_close(), and the descriptor that its callers clear. *)
FileClose(p, fd, ret) ==
    LET f == ofile[p][fd] IN
    /\ panic' = (ftable[f].ref < 1)
    /\ ofile' = [ofile EXCEPT ![p][fd] = 0]
    /\ IF ftable[f].ref > 1
       THEN /\ ftable' = [ftable EXCEPT ![f].ref = @ - 1]
            /\ Become(p, Goto(p, ret))
       ELSE /\ ftable' = [ftable EXCEPT ![f] = NoFile]
            /\ Become(p, IputThen(proc[p], <<ftable[f].ip>>, ret))

Close(p) ==
    /\ Call(p, [op |-> "close"])
    /\ \E fd \in Fds \ FreeFds(p) : FileClose(p, fd, "user")
    /\ UNCHANGED <<diskVars, icache, cwd, crashes>>

(* sys_dup(): fdalloc(), then file_dup(). *)
Dup(p) ==
    /\ Call(p, [op |-> "dup"])
    /\ FreeFds(p) # {}
    /\ \E fd \in Fds \ FreeFds(p) :
          /\ panic' = (ftable[ofile[p][fd]].ref < 1)
          /\ ofile' = [ofile EXCEPT ![p][Least(FreeFds(p))] = ofile[p][fd]]
          /\ ftable' = [ftable EXCEPT ![ofile[p][fd]].ref = @ + 1]
    /\ UNCHANGED <<diskVars, icache, cwd, proc, crashes>>

(* file_read(), file_stat() and lseek(SEEK_END): under the inode's lock.   *)
(* A file that has a block is overwritten by file_write() in the same way. *)
ReadFile(p) ==
    /\ Call(p, [op |-> "read"])
    /\ \E fd \in Fds \ FreeFds(p) :
          LET s == ftable[ofile[p][fd]].ip IN
          /\ CanLock(s)
          /\ panic' = IlockPanics(s)
          /\ SetSlot(s, Loaded(s))
    /\ UNCHANGED <<diskVars, ftable, ofile, cwd, proc, crashes>>

(* file_write() that extends the file: writei() has bmap() allocate the    *)
(* block, and then commits it with iupdate().                              *)
WriteBlock(p) ==
    /\ Call(p, [op |-> "write"])
    /\ \E fd \in Fds \ FreeFds(p), b \in FreeBlocks :
          LET f == ftable[ofile[p][fd]] IN
          /\ f.writable
          /\ CanLock(f.ip)
          /\ panic' = IlockPanics(f.ip)
          /\ Loaded(f.ip).type = "file"
          /\ Loaded(f.ip).blk = 0
          /\ Balloc(b)
          /\ SetSlot(f.ip, [Locked(f.ip, p) EXCEPT !.blk = b])
          /\ Become(p, Goto(p, "write"))
    /\ UNCHANGED <<ibitmap, dinode, dents, ftable, ofile, cwd, crashes>>

WriteUpdate(p) ==
    /\ At(p, "write")
    /\ \E s \in Slots :
          /\ icache[s].lock = p
          /\ Iupdate(icache[s])
          /\ SetSlot(s, Unlocked(icache[s]))
    /\ Become(p, User)
    /\ UNCHANGED <<ibitmap, bbitmap, dents, ftable, ofile, cwd, panic, bounds>>

-----------------------------------------------------------------------------
(* sys_unlink(): under the lock of the directory, look the name up. *)
UnlinkLookup(p) ==
    LET r == proc[p]
        name == LastName(p)
        found == Dirlookup(r.dp, name)
    IN /\ At(p, "unlink_dp")
       /\ CanLock(r.dp)
       /\ panic' = IlockPanics(r.dp)
       /\ IF name \in {".", ".."} \/ found = 0
          THEN /\ SetSlot(r.dp, Loaded(r.dp))
               /\ Become(p, IputThen([r EXCEPT !.dp = 0], <<r.dp>>, "user"))
          ELSE /\ icache' = SetAndIget(r.dp, Locked(r.dp, p), found)
               /\ Become(p, [Goto(p, "unlink_ip") EXCEPT !.ip = IgetSlot(found)])
       /\ UNCHANGED <<diskVars, ftable, ofile, cwd, bounds>>

(* The inode is locked too.  A directory that is not empty stays; else the *)
(* entry is zeroed and, for a file, the directory let go.                  *)
UnlinkEntry(p) ==
    LET r == proc[p]
        i == Locked(r.ip, p)
    IN /\ At(p, "unlink_ip")
       /\ CanLock(r.ip)
       /\ panic' = (IlockPanics(r.ip) \/ i.nlink < 1)
       /\ IF i.type = "dir" /\ ~IsDirEmpty(r.ip)
          THEN /\ SetSlot(r.ip, Unlocked(i))
               /\ Become(p, IputThen([r EXCEPT !.ip = 0], <<r.ip>>, "unlink_bad"))
               /\ UNCHANGED dents
          ELSE /\ dents' = [dents EXCEPT ![icache[r.dp].inum][LastName(p)] = 0]
               /\ IF i.type = "dir"
                  THEN SetSlot(r.ip, i) /\ Become(p, Goto(p, "unlink_parent"))
                  ELSE /\ icache' = [icache EXCEPT ![r.ip] = i, ![r.dp] = Unlocked(@)]
                       /\ Become(p, IputThen([r EXCEPT !.dp = 0], <<r.dp>>, "unlink_dec"))
       /\ UNCHANGED <<ibitmap, bbitmap, dinode, ftable, ofile, cwd, bounds>>

(* The removed directory's ".." no longer counts. *)
UnlinkParent(p) ==
    LET r == proc[p]
        i == [icache[r.dp] EXCEPT !.nlink = @ - 1]
    IN /\ At(p, "unlink_parent")
       /\ Iupdate(i)
       /\ SetSlot(r.dp, Unlocked(i))
       /\ Become(p, IputThen([r EXCEPT !.dp = 0], <<r.dp>>, "unlink_dec"))
       /\ UNCHANGED <<ibitmap, bbitmap, dents, ftable, ofile, cwd, panic, bounds>>

UnlinkDec(p) ==
    LET r == proc[p]
        i == [icache[r.ip] EXCEPT !.nlink = @ - 1]
    IN /\ At(p, "unlink_dec")
       /\ Iupdate(i)
       /\ SetSlot(r.ip, Unlocked(i))
       /\ Become(p, IputThen([r EXCEPT !.ip = 0], <<r.ip>>, "user"))
       /\ UNCHANGED <<ibitmap, bbitmap, dents, ftable, ofile, cwd, panic, bounds>>

UnlinkBad(p) ==
    LET r == proc[p] IN
    /\ At(p, "unlink_bad")
    /\ SetSlot(r.dp, Unlocked(icache[r.dp]))
    /\ Become(p, IputThen([r EXCEPT !.dp = 0], <<r.dp>>, "user"))
    /\ UNCHANGED <<diskVars, ftable, ofile, cwd, panic, bounds>>

(* sys_link(): the link count first, and then the lookup of the new path.  *)
LinkInc(p) ==
    LET r == proc[p]
        i == Loaded(r.ip)
        inc == [i EXCEPT !.nlink = @ + 1]
    IN /\ At(p, "link")
       /\ CanLock(r.ip)
       /\ panic' = IlockPanics(r.ip)
       /\ IF i.type = "dir"
          THEN /\ SetSlot(r.ip, i)
               /\ Become(p, IputThen([r EXCEPT !.ip = 0], <<r.ip>>, "user"))
               /\ UNCHANGED dinode
          ELSE /\ SetSlot(r.ip, inc)
               /\ Iupdate(inc)
               /\ Become(p, Goto(p, "link_new"))
       /\ UNCHANGED <<ibitmap, bbitmap, dents, ftable, ofile, cwd, bounds>>

LinkNew(p) ==
    /\ At(p, "link_new")
    /\ NamexStart(p, proc[p], proc[p].call.new)
    /\ UNCHANGED <<diskVars, ftable, ofile, cwd, panic, bounds>>

(* dirlink() under the lock of the new directory: a name that is taken is  *)
(* put back with the directory still locked.                               *)
LinkEntry(p) ==
    LET r == proc[p]
        found == Dirlookup(r.dp, LastName(p))
    IN /\ At(p, "link_dp")
       /\ CanLock(r.dp)
       /\ panic' = IlockPanics(r.dp)
       /\ IF found # 0
          THEN /\ icache' = SetAndIget(r.dp, Locked(r.dp, p), found)
               /\ Become(p, IputThen(r, <<IgetSlot(found)>>, "link_taken"))
               /\ UNCHANGED dents
          ELSE /\ dents' = [dents EXCEPT ![icache[r.dp].inum][LastName(p)] = icache[r.ip].inum]
               /\ SetSlot(r.dp, Loaded(r.dp))
               /\ Become(p, IputThen([r EXCEPT !.dp = 0, !.ip = 0], <<r.dp, r.ip>>, "user"))
       /\ UNCHANGED <<ibitmap, bbitmap, dinode, ftable, ofile, cwd, bounds>>

LinkTaken(p) ==
    LET r == proc[p] IN
    /\ At(p, "link_taken")
    /\ SetSlot(r.dp, Unlocked(icache[r.dp]))
    /\ Become(p, IputThen([r EXCEPT !.dp = 0], <<r.dp>>, "link_bad"))
    /\ UNCHANGED <<diskVars, ftable, ofile, cwd, panic, bounds>>

(* bad: the link count is taken back. *)
LinkBad(p) ==
    LET r == proc[p]
        i == [Loaded(r.ip) EXCEPT !.nlink = @ - 1]
    IN /\ At(p, "link_bad")
       /\ CanLock(r.ip)
       /\ panic' = IlockPanics(r.ip)
       /\ Iupdate(i)
       /\ SetSlot(r.ip, i)
       /\ Become(p, IputThen([r EXCEPT !.ip = 0], <<r.ip>>, "user"))
       /\ UNCHANGED <<ibitmap, bbitmap, dents, ftable, ofile, cwd, bounds>>

(* sys_chdir(): the old working directory is put, the new one keeps the    *)
(* reference of the lookup.                                                *)
Chdir(p) ==
    LET r == proc[p]
        i == Loaded(r.ip)
    IN /\ At(p, "chdir")
       /\ CanLock(r.ip)
       /\ panic' = IlockPanics(r.ip)
       /\ SetSlot(r.ip, i)
       /\ IF i.type # "dir"
          THEN Become(p, IputThen([r EXCEPT !.ip = 0], <<r.ip>>, "user")) /\ UNCHANGED cwd
          ELSE /\ Become(p, IputThen([r EXCEPT !.ip = 0], <<cwd[p]>>, "user"))
               /\ cwd' = [cwd EXCEPT ![p] = r.ip]
       /\ UNCHANGED <<diskVars, ftable, ofile, bounds>>

-----------------------------------------------------------------------------
Descriptors(p, f) == Cardinality({fd \in Fds : ofile[p][fd] = f})

(* fork(): the child shares the parent's files and working directory. *)
Fork(p, q) ==
    /\ At(p, "user")
    /\ proc[q].pc = "unused"
    /\ ftable' = [f \in Files |-> [ftable[f] EXCEPT !.ref = @ + Descriptors(p, f)]]
    /\ ofile' = [ofile EXCEPT ![q] = ofile[p]]
    /\ cwd' = [cwd EXCEPT ![q] = cwd[p]]
    /\ SetSlot(cwd[p], Idup(cwd[p]))
    /\ Become(q, User)
    /\ UNCHANGED <<diskVars, panic, bounds>>

(* exit(): every descriptor is closed, then the working directory is put.  *)
(* The slot of the process is free again once wait() has reaped it.        *)
Exit(p) ==
    /\ At(p, "user")
    /\ p # init
    /\ Become(p, Goto(p, "exit"))
    /\ UNCHANGED <<diskVars, icache, ftable, ofile, cwd, panic, bounds>>

ExitClose(p) ==
    LET open == Fds \ FreeFds(p) IN
    /\ At(p, "exit")
    /\ open # {}
    /\ FileClose(p, Least(open), "exit")
    /\ UNCHANGED <<diskVars, icache, cwd, bounds>>

ExitCwd(p) ==
    /\ At(p, "exit")
    /\ FreeFds(p) = Fds
    /\ Become(p, IputThen(proc[p], <<cwd[p]>>, "unused"))
    /\ cwd' = [cwd EXCEPT ![p] = 0]
    /\ UNCHANGED <<diskVars, icache, ftable, ofile, panic, bounds>>

(* Power fails, or the machine is reset, and boots again. *)
Crash ==
    /\ crashes < MaxCrashes
    /\ crashes' = crashes + 1
    /\ Booted(icache', ftable', ofile', cwd', proc')
    /\ panic' = FALSE
    /\ UNCHANGED <<diskVars, calls>>

Step(p) ==
    \/ BeginPathCall(p) \/ NamexElement(p) \/ NamexEnd(p)
    \/ IputLock(p) \/ Ifree(p) \/ Bfree(p) \/ IfreeUpdate(p) \/ IputDrop(p)
    \/ CreateLookup(p) \/ CreateExists(p)
    \/ IallocInode(p) \/ IallocBitmap(p) \/ IallocIget(p)
    \/ CreateInode(p) \/ CreateParent(p) \/ CreateBlock(p) \/ CreateDot(p) \/ CreateDotDot(p)
    \/ CreateLink(p) \/ CreateDone(p)
    \/ \E op \in {"open", "openw"} : OpenLock(p, op)
    \/ OpenFd(p) \/ Close(p) \/ Dup(p) \/ ReadFile(p) \/ WriteBlock(p) \/ WriteUpdate(p)
    \/ UnlinkLookup(p) \/ UnlinkEntry(p) \/ UnlinkParent(p) \/ UnlinkDec(p) \/ UnlinkBad(p)
    \/ LinkInc(p) \/ LinkNew(p) \/ LinkEntry(p) \/ LinkTaken(p) \/ LinkBad(p)
    \/ Chdir(p)
    \/ \E q \in Procs : Fork(p, q)
    \/ Exit(p) \/ ExitClose(p) \/ ExitCwd(p)

Next == (\E p \in Procs : Step(p)) \/ Crash

Spec == Init /\ [][Next]_vars

-----------------------------------------------------------------------------
Disk == [ibitmap |-> ibitmap, bbitmap |-> bbitmap, dinode |-> dinode, dents |-> dents]

(* Whatever the disk holds, at every moment and so after a crash at any    *)
(* moment, a name of a directory, or the ".." of one that can be reached,  *)
(* is that of an inode that is in use, has a type, and counts at least the *)
(* entries that name it: create() writes the inode before the entry,       *)
(* link() the count before the entry, and unlink() removes the entry       *)
(* before the count.                                                       *)
EntriesNameLiveInodes ==
    \A i \in Inums :
        LinksOf(Disk, i) # {} => /\ i \in ibitmap
                                 /\ dinode[i].mode # "none"
                                 /\ dinode[i].nlink >= Cardinality(LinksOf(Disk, i))

(* A block belongs to one inode and is marked as used, on the disk and in  *)
(* the cache, although iput() frees the inode before its blocks and        *)
(* another process may be given the inode in between.                      *)
BlocksOwnedOnce ==
    /\ \A i \in ibitmap : dinode[i].blk # 0 =>
          /\ dinode[i].blk \in bbitmap
          /\ \A j \in ibitmap \ {i} : dinode[j].blk # dinode[i].blk
    /\ \A s, t \in Slots :
          LET live(u) == icache[u].ref > 0 /\ icache[u].valid
          IN live(s) /\ live(t) /\ s # t /\ icache[s].blk # 0
             => icache[s].blk \in bbitmap /\ icache[s].blk # icache[t].blk

(* An inode that is cached and not locked says what the disk says: every   *)
(* change is written before the lock is released, and a slot that outlives *)
(* its inode does not keep the dead one's contents for the next.           *)
CacheMatchesDisk ==
    \A s \in Slots :
        LET i == icache[s] IN
        i.ref > 0 /\ i.valid /\ i.lock = nullptr
        => dinode[i.inum] = [mode |-> i.type, nlink |-> i.nlink, blk |-> i.blk]

(* Where a reference to a slot may be: the locals of a call, the working   *)
(* directory of a process, an open file.                                   *)
Places == ({"n", "ip", "dp", "put1", "put2", "cwd"} \X Procs) \cup ({"file"} \X Files)
Put(r, j) == IF j <= Len(r.puts) THEN r.puts[j] ELSE 0
Holds(x) ==
    CASE x[1] = "n" -> proc[x[2]].n
      [] x[1] = "ip" -> proc[x[2]].ip
      [] x[1] = "dp" -> proc[x[2]].dp
      [] x[1] = "put1" -> Put(proc[x[2]], 1)
      [] x[1] = "put2" -> Put(proc[x[2]], 2)
      [] x[1] = "cwd" -> cwd[x[2]]
      [] x[1] = "file" -> ftable[x[2]].ip
Users(s) == {x \in Places : Holds(x) = s}
FdsOf(f) == {x \in Procs \X Fds : ofile[x[1]][x[2]] = f}

(* An inode's reference count is the number of calls, open files and       *)
(* working directories that use it, and a file's is the number of its      *)
(* descriptors: no call returns, on any path, with a reference or an inode *)
(* lock it took, or having dropped one twice.                              *)
RefsExact ==
    /\ \A s \in Slots : icache[s].ref = Cardinality(Users(s))
    /\ \A f \in Files : ftable[f].ref = Cardinality(FdsOf(f))
    /\ \A s \in Slots, p \in Procs : icache[s].lock = p => proc[p].pc \notin {"user", "unused"}

(* An inode that is open, or a process's working directory, is not freed,  *)
(* even when its last name is removed.                                     *)
OpenInodeKept ==
    \A s \in Slots :
        s \in {ftable[f].ip : f \in Files} \cup {cwd[p] : p \in Procs} => icache[s].inum \in ibitmap

(* None of the consistency checks of ext2.c, file.c and sysfile.c panics:  *)
(* no inode or block is freed twice, no inode without a type is locked, no *)
(* entry names an inode without links, no file is used after its close.    *)
NoPanic == ~panic

(* The inode lock a process waits for before its next step, 0 if none. *)
Wants(p) ==
    LET r == proc[p] IN
    CASE r.pc = "namex" /\ r.rest # <<>> -> r.n
      [] r.pc = "iput" -> Head(r.puts)
      [] r.pc \in {"create", "unlink_dp", "link_dp"} -> r.dp
      [] r.pc \in {"create_exists", "create_inode", "open", "openw", "unlink_ip", "link", "link_bad", "chdir"} -> r.ip
      [] OTHER -> 0

(* No processes wait for inode locks that only they hold. *)
NoLockCycle ==
    \A D \in SUBSET Procs \ {{}} :
        \E p \in D : Wants(p) = 0 \/ icache[Wants(p)].lock \notin D
=============================================================================
