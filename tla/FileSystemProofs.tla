-------------------------- MODULE FileSystemProofs --------------------------
(***************************************************************************)
(* What the file system calls do with references and locks, for any number *)
(* of processes, inodes, descriptors, calls and crashes.                   *)
(*                                                                         *)
(* RInv says, of each point of each call, which inodes the process has     *)
(* references to and which of them it has locked; that the counts of the   *)
(* inode cache and of the open file table are the numbers of these places; *)
(* and that no inode is cached twice.  One lemma per action, with the      *)
(* name of the action and an R, shows that the action keeps it.  A step of *)
(* process p is compared with what the others hold (Others): the count of  *)
(* a slot is theirs plus the Weight of p's own places.                     *)
(***************************************************************************)
EXTENDS FileSystem, TLAPS, FiniteSetTheorems, SequenceTheorems, WellFoundedInduction

(* Any nonempty set of natural numbers has a least element. *)
LEMMA SmallestExists ==
    ASSUME NEW S \in SUBSET Nat, S # {}
    PROVE  \E x \in S : \A y \in S : x <= y
<1> DEFINE R == OpToRel(<, Nat)
<1>1. IsWellFoundedOn(R, Nat)
  BY NatLessThanWellFounded
<1>2. PICK x \in S : \A y \in S : ~ (<<y, x>> \in R)
  <2> HIDE DEF R
  <2>q. QED
    BY <1>1, WFMin
<1>3. \A y \in S : ~ (y < x)
  BY <1>2 DEF OpToRel
<1>q. QED
  BY <1>3

(***************************************************************************)
(* References and locks                                                    *)
(***************************************************************************)
IputPcs == {"iput", "ifree", "bfree", "ifree_update", "iput_drop"}
FreePcs == {"ifree", "bfree", "ifree_update"}
Rets == {"user", "unused", "exit", "namex", "create_exists", "open_fd", "create_done",
         "unlink_dec", "unlink_bad", "link_taken", "link_bad"}

(* The point of its call that a process is at, iput() aside. *)
Point(r) == IF r.pc \in IputPcs THEN r.ret ELSE r.pc

CreateDir == {"create_parent", "create_block", "create_dot", "create_dotdot"}
CreateIp == CreateDir \cup {"create_link"}
Creating == CreateIp \cup {"create", "create_exists", "ialloc", "ialloc_bitmap", "ialloc_iget",
                           "create_inode"}
LinkIp == {"link_new", "link_dp", "link_taken", "link_bad"}
IpPoints == CreateIp \cup LinkIp
            \cup {"create_exists", "create_inode", "open", "openw", "open_fd", "create_done",
                  "unlink_ip", "unlink_parent", "unlink_dec", "link", "chdir"}
DpPoints == CreateIp
            \cup {"create", "ialloc", "ialloc_bitmap", "ialloc_iget", "create_inode", "unlink_dp",
                  "unlink_ip", "unlink_parent", "unlink_bad", "link_dp", "link_taken"}
IpLocked == CreateIp \cup {"open_fd", "create_done", "unlink_parent", "unlink_dec"}
DpLocked == DpPoints \ {"create", "unlink_dp", "link_dp"}
Points == IpPoints \cup DpPoints \cup {"user", "unused", "exit", "namex", "write"}

NoCall == [op |-> "none"]
Records == [pc : Points \cup IputPcs, call : Calls \cup {NoCall}, rest : Seq(DirNames),
            n : Slots \cup {0}, ip : Slots \cup {0}, dp : Slots \cup {0}, puts : Seq(Slots),
            ret : Rets, ino : Inums \cup {0}]

(* The calls that may be at a point. *)
OpAt(op, pt) ==
    /\ pt = "namex" => op \in PathOps
    /\ pt \in Creating => op \in {"creat", "mkdir", "mknod"}
    /\ pt \in CreateDir => op = "mkdir"
    /\ pt \in {"unlink_dp", "unlink_ip", "unlink_parent", "unlink_dec", "unlink_bad"} => op = "unlink"
    /\ pt \in LinkIp \cup {"link"} => op = "link"

(* What a process has at each point of a call: the inodes, and their locks. *)
Fits(n, ip, dp, op, ino, pt) ==
    /\ n # 0 <=> pt = "namex"
    /\ dp # 0 <=> pt \in DpPoints
    /\ ip # 0 => pt \in IpPoints \/ (pt = "namex" /\ op = "link")
    /\ pt \in IpPoints => ip # 0
    /\ pt \in IpLocked => dp # ip
    /\ OpAt(op, pt)
    /\ ino # 0 <=> pt \in {"ialloc_bitmap", "ialloc_iget"}
LocksAt(ip, dp, pt, s) ==
    \/ pt \in IpLocked /\ ip = s
    \/ pt \in DpLocked /\ dp = s

(* The name that create(), unlink() or dirlink() is called for is the last *)
(* of the path that namex() walks.                                         *)
LastOf(r) == IF r.call.op = "link" THEN r.call.new[Len(r.call.new)] ELSE r.call.path[Len(r.call.path)]
Named(r) ==
    /\ r.dp # 0 => LastOf(r) \in DirNames
    /\ r.n # 0 /\ WantsParent(r) /\ r.rest # <<>> => LastOf(r) = r.rest[Len(r.rest)]

Shape(r) ==
    /\ Named(r)
    /\ Fits(r.n, r.ip, r.dp, r.call.op, r.ino, Point(r))
    /\ Put(r, 1) # 0 <=> r.pc \in IputPcs
    /\ Put(r, 2) # 0 => Point(r) = "user"
    /\ Len(r.puts) <= 2
    /\ r.pc \in FreePcs => ~LocksAt(r.ip, r.dp, Point(r), Put(r, 1))
Shapes == proc \in [Procs -> Records] /\ \A p \in Procs : Shape(proc[p])

(* iput() has the lock of the inode that it frees. *)
Locks(r, s) == LocksAt(r.ip, r.dp, Point(r), s) \/ (r.pc \in FreePcs /\ Put(r, 1) = s)

LocksOK ==
    \A p \in Procs, s \in Slots :
        IF proc[p].pc = "write" THEN icache[s].lock = p => \A t \in Slots : icache[t].lock = p => t = s
        ELSE icache[s].lock = p <=> Locks(proc[p], s)

Gone(r) == Point(r) = "unused"

OwnsOK ==
    \A p \in Procs : /\ cwd[p] # 0 <=> ~Gone(proc[p])
                     /\ Gone(proc[p]) => \A fd \in Fds : ofile[p][fd] = 0

RefsOK == \A s \in Slots : icache[s].ref = Cardinality(Users(s))
FilesOK == \A f \in Files : /\ ftable[f].ref = Cardinality(FdsOf(f))
                            /\ ftable[f].ip # 0 <=> ftable[f].ref > 0
SlotsOK == \A s, t \in Slots :
              /\ icache[s].ref > 0 => icache[s].inum # 0
              /\ icache[s].ref > 0 /\ icache[t].ref > 0 /\ icache[s].inum = icache[t].inum => s = t

SlotRecords == [inum : Inums \cup {0}, ref : Nat, valid : BOOLEAN, type : Types, nlink : Int,
                blk : Blocks \cup {0}, lock : Procs \cup {nullptr}]
FileRecords == [ref : Nat, ip : Slots \cup {0}, writable : BOOLEAN]
MemTypes ==
    /\ icache \in [Slots -> SlotRecords]
    /\ ftable \in [Files -> FileRecords]
    /\ ofile \in [Procs -> [Fds -> Files \cup {0}]]
    /\ cwd \in [Procs -> Slots \cup {0}]
Entries == [mode : Types, nlink : Int, blk : Blocks \cup {0}]
DiskTypes ==
    /\ ibitmap \in SUBSET Inums
    /\ bbitmap \in SUBSET Blocks
    /\ dinode \in [Inums -> Entries]
    /\ dents \in [Inums -> [DirNames -> Inums \cup {0}]]
BoundsOK == panic \in BOOLEAN /\ calls \in 0..MaxCalls /\ crashes \in 0..MaxCrashes

MInv == MemTypes /\ Shapes /\ LocksOK /\ OwnsOK /\ RefsOK /\ FilesOK /\ SlotsOK
RInv == DiskTypes /\ BoundsOK /\ MInv

-----------------------------------------------------------------------------
(* The references of one process, and of the others, to a slot. *)
One(a, s) == IF a = s THEN 1 ELSE 0
Weight(r, c, s) == One(r.n, s) + One(r.ip, s) + One(r.dp, s) + One(Put(r, 1), s) + One(Put(r, 2), s)
                   + One(c, s)
With(S, x, a, s) == IF a = s THEN S \cup {x} ELSE S
Others(s, p) == {x \in Users(s) : x[1] = "file" \/ x[2] # p}
OthersF(s, p, f) == {x \in Others(s, p) : x # <<"file", f>>}

(* The place of a reference is one of seven kinds. *)
LEMMA PlaceKinds ==
    ASSUME NEW x \in Places
    PROVE  \/ \E p \in Procs : x \in {<<"n", p>>, <<"ip", p>>, <<"dp", p>>, <<"put1", p>>, <<"put2", p>>, <<"cwd", p>>}
           \/ \E f \in Files : x = <<"file", f>>
BY DEF Places

(* The six places of a process, and what each holds. *)
LEMMA HoldsProc ==
    ASSUME NEW p \in Procs
    PROVE  /\ Holds(<<"n", p>>) = proc[p].n
           /\ Holds(<<"ip", p>>) = proc[p].ip
           /\ Holds(<<"dp", p>>) = proc[p].dp
           /\ Holds(<<"put1", p>>) = Put(proc[p], 1)
           /\ Holds(<<"put2", p>>) = Put(proc[p], 2)
           /\ Holds(<<"cwd", p>>) = cwd[p]
           /\ {<<"n", p>>, <<"ip", p>>, <<"dp", p>>, <<"put1", p>>, <<"put2", p>>, <<"cwd", p>>} \subseteq Places
BY DEF Holds, Places

(* The place of an open file, and what it holds. *)
LEMMA HoldsFile ==
    ASSUME NEW f \in Files
    PROVE  Holds(<<"file", f>>) = ftable[f].ip /\ <<"file", f>> \in Places
BY DEF Holds, Places

(* There are finitely many places. *)
LEMMA PlacesFinite == IsFiniteSet(Places)
<1>1. IsFiniteSet({"n", "ip", "dp", "put1", "put2", "cwd"}) /\ IsFiniteSet({"file"})
  <2>1. IsFiniteSet({}) BY FS_EmptySet
  <2>2. IsFiniteSet({"n"}) /\ IsFiniteSet({"file"})
    BY FS_Singleton
  <2>3. IsFiniteSet({"n"} \cup {"ip"}) BY <2>2, FS_AddElement
  <2>4. IsFiniteSet(({"n"} \cup {"ip"}) \cup {"dp"}) BY <2>3, FS_AddElement
  <2>5. IsFiniteSet((({"n"} \cup {"ip"}) \cup {"dp"}) \cup {"put1"}) BY <2>4, FS_AddElement
  <2>6. IsFiniteSet(((({"n"} \cup {"ip"}) \cup {"dp"}) \cup {"put1"}) \cup {"put2"}) BY <2>5, FS_AddElement
  <2>7. IsFiniteSet((((({"n"} \cup {"ip"}) \cup {"dp"}) \cup {"put1"}) \cup {"put2"}) \cup {"cwd"}) BY <2>6, FS_AddElement
  <2>8. {"n", "ip", "dp", "put1", "put2", "cwd"} = ((((({"n"} \cup {"ip"}) \cup {"dp"}) \cup {"put1"}) \cup {"put2"}) \cup {"cwd"})
    OBVIOUS
  <2>q. QED BY <2>2, <2>7, <2>8
<1>2. IsFiniteSet(Files)
  BY FileSystemAssumption, FS_Interval DEF Files
<1>3. IsFiniteSet({"n", "ip", "dp", "put1", "put2", "cwd"} \X Procs)
  BY <1>1, Ext2Assumption, FS_Product
<1>4. IsFiniteSet({"file"} \X Files)
  BY <1>1, <1>2, FS_Product
<1>q. QED
  BY <1>3, <1>4, FS_Union DEF Places

(* A slot has finitely many users, so their number is a natural number. *)
LEMMA UsersFinite ==
    ASSUME NEW s, NEW p, NEW f
    PROVE  /\ IsFiniteSet(Users(s)) /\ Cardinality(Users(s)) \in Nat
           /\ IsFiniteSet(Others(s, p)) /\ Cardinality(Others(s, p)) \in Nat
           /\ IsFiniteSet(OthersF(s, p, f)) /\ Cardinality(OthersF(s, p, f)) \in Nat
<1>1. Users(s) \subseteq Places /\ Others(s, p) \subseteq Places /\ OthersF(s, p, f) \subseteq Places
  BY DEF Users, Others, OthersF
<1>q. QED
  BY <1>1, PlacesFinite, FS_Subset, FS_CardinalityType

(* An element more or less, if it holds the slot. *)
LEMMA CountOne ==
    ASSUME NEW S, IsFiniteSet(S), Cardinality(S) \in Nat, NEW x, NEW a, NEW s, x \notin S
    PROVE  /\ IsFiniteSet(With(S, x, a, s))
           /\ Cardinality(With(S, x, a, s)) = Cardinality(S) + One(a, s)
           /\ Cardinality(With(S, x, a, s)) \in Nat
<1>1. CASE a = s
  BY <1>1, FS_AddElement DEF One, With
<1>2. CASE a # s
  BY <1>2 DEF One, With
<1>q. QED BY <1>1, <1>2

(* The users of a slot are those of process p and the others. *)
LEMMA UsersSplit ==
    ASSUME NEW s \in Slots, NEW p \in Procs
    PROVE  Cardinality(Users(s)) = Cardinality(Others(s, p)) + Weight(proc[p], cwd[p], s)
<1> DEFINE S0 == Others(s, p)
           S1 == With(S0, <<"n", p>>, proc[p].n, s)
           S2 == With(S1, <<"ip", p>>, proc[p].ip, s)
           S3 == With(S2, <<"dp", p>>, proc[p].dp, s)
           S4 == With(S3, <<"put1", p>>, Put(proc[p], 1), s)
           S5 == With(S4, <<"put2", p>>, Put(proc[p], 2), s)
           S6 == With(S5, <<"cwd", p>>, cwd[p], s)
<1>0. \A x \in S0 : x[1] = "file" \/ x[2] # p
  BY DEF Others
<1>1. /\ <<"n", p>> \notin S0 /\ <<"ip", p>> \notin S1 /\ <<"dp", p>> \notin S2
      /\ <<"put1", p>> \notin S3 /\ <<"put2", p>> \notin S4 /\ <<"cwd", p>> \notin S5
  BY <1>0 DEF With
<1>2. Users(s) = S6
  <2>1. ASSUME NEW x \in Users(s) PROVE x \in S6
    <3>1. x \in Places /\ Holds(x) = s
      BY DEF Users
    <3>2. CASE x \in Others(s, p)
      BY <3>2 DEF With
    <3>3. CASE x \notin Others(s, p)
      <4>1. x[1] # "file" /\ x[2] = p
        BY <3>3 DEF Others
      <4>2. x \in {<<"n", p>>, <<"ip", p>>, <<"dp", p>>, <<"put1", p>>, <<"put2", p>>, <<"cwd", p>>}
        BY <3>1, <4>1, PlaceKinds
      <4>q. QED BY <3>1, <4>2, HoldsProc DEF With
    <3>q. QED BY <3>2, <3>3
  <2>2. ASSUME NEW x \in S6 PROVE x \in Users(s)
    <3>1. CASE x \in S0
      BY <3>1 DEF Others
    <3>2. CASE x \notin S0
      <4>1. x \in Places /\ Holds(x) = s
        BY <3>2, <2>2, HoldsProc DEF With
      <4>q. QED BY <4>1 DEF Users
    <3>q. QED BY <3>1, <3>2
  <2>q. QED BY <2>1, <2>2
<1>3. IsFiniteSet(S0) /\ Cardinality(S0) \in Nat
  BY UsersFinite
<1> HIDE DEF S0
<1>4. IsFiniteSet(S1) /\ Cardinality(S1) = Cardinality(S0) + One(proc[p].n, s) /\ Cardinality(S1) \in Nat
  BY <1>1, <1>3, CountOne
<1> HIDE DEF S1
<1>5. IsFiniteSet(S2) /\ Cardinality(S2) = Cardinality(S1) + One(proc[p].ip, s) /\ Cardinality(S2) \in Nat
  BY <1>1, <1>4, CountOne
<1> HIDE DEF S2
<1>6. IsFiniteSet(S3) /\ Cardinality(S3) = Cardinality(S2) + One(proc[p].dp, s) /\ Cardinality(S3) \in Nat
  BY <1>1, <1>5, CountOne
<1> HIDE DEF S3
<1>7. IsFiniteSet(S4) /\ Cardinality(S4) = Cardinality(S3) + One(Put(proc[p], 1), s) /\ Cardinality(S4) \in Nat
  BY <1>1, <1>6, CountOne
<1> HIDE DEF S4
<1>8. IsFiniteSet(S5) /\ Cardinality(S5) = Cardinality(S4) + One(Put(proc[p], 2), s) /\ Cardinality(S5) \in Nat
  BY <1>1, <1>7, CountOne
<1> HIDE DEF S5
<1>9. IsFiniteSet(S6) /\ Cardinality(S6) = Cardinality(S5) + One(cwd[p], s) /\ Cardinality(S6) \in Nat
  BY <1>1, <1>8, CountOne
<1> HIDE DEF S6
<1>10. Cardinality(S6) = Cardinality(S0) + Weight(proc[p], cwd[p], s)
  BY <1>3, <1>4, <1>5, <1>6, <1>7, <1>8, <1>9 DEF Weight, One
<1>q. QED BY <1>2, <1>10 DEF S0

(* Of the others, file f may be one. *)
LEMMA OthersSplit ==
    ASSUME NEW s \in Slots, NEW p \in Procs, NEW f \in Files
    PROVE  Cardinality(Others(s, p)) = Cardinality(OthersF(s, p, f)) + One(ftable[f].ip, s)
<1> DEFINE S0 == OthersF(s, p, f)
           S1 == With(S0, <<"file", f>>, ftable[f].ip, s)
<1>1. <<"file", f>> \notin S0
  BY DEF OthersF
<1>2. Others(s, p) = S1
  BY HoldsFile DEF OthersF, Others, Users, With
<1>3. IsFiniteSet(S0) /\ Cardinality(S0) \in Nat
  BY UsersFinite
<1> HIDE DEF S0
<1>4. Cardinality(S1) = Cardinality(S0) + One(ftable[f].ip, s)
  BY <1>1, <1>3, CountOne
<1>q. QED BY <1>2, <1>4 DEF S0

UsersSplits ==
    /\ \A s \in Slots, p \in Procs :
          Cardinality(Users(s)) = Cardinality(Others(s, p)) + Weight(proc[p], cwd[p], s)
    /\ \A s \in Slots, p \in Procs, f \in Files :
          Cardinality(Others(s, p)) = Cardinality(OthersF(s, p, f)) + One(ftable[f].ip, s)
UsersCounts == \A s, p, f : /\ Cardinality(Users(s)) \in Nat
                            /\ Cardinality(Others(s, p)) \in Nat
                            /\ Cardinality(OthersF(s, p, f)) \in Nat

(* The two ways of splitting the users of a slot, as facts about a state. *)
LEMMA UsersAlways == UsersSplits /\ UsersCounts
<1>1. UsersSplits BY UsersSplit, OthersSplit DEF UsersSplits
<1>2. UsersCounts BY UsersFinite DEF UsersCounts
<1>q. QED BY <1>1, <1>2

(* The same facts about the next state. *)
LEMMA UsersNext == UsersSplits' /\ UsersCounts'
BY UsersAlways, PTL

HoldsWell ==
    /\ \A p \in Procs :
           /\ Holds(<<"n", p>>) = proc[p].n
           /\ Holds(<<"ip", p>>) = proc[p].ip
           /\ Holds(<<"dp", p>>) = proc[p].dp
           /\ Holds(<<"put1", p>>) = Put(proc[p], 1)
           /\ Holds(<<"put2", p>>) = Put(proc[p], 2)
           /\ Holds(<<"cwd", p>>) = cwd[p]
    /\ \A f \in Files : Holds(<<"file", f>>) = ftable[f].ip

(* What each place holds, as a fact about a state. *)
LEMMA HoldsAlways == HoldsWell
<1>1. \A p \in Procs :
           /\ Holds(<<"n", p>>) = proc[p].n
           /\ Holds(<<"ip", p>>) = proc[p].ip
           /\ Holds(<<"dp", p>>) = proc[p].dp
           /\ Holds(<<"put1", p>>) = Put(proc[p], 1)
           /\ Holds(<<"put2", p>>) = Put(proc[p], 2)
           /\ Holds(<<"cwd", p>>) = cwd[p]
  BY HoldsProc
<1>q. QED BY <1>1, HoldsFile DEF HoldsWell

(* The same fact about the next state. *)
LEMMA HoldsNext == HoldsWell'
BY HoldsAlways, PTL

(* A step of process p leaves what the others hold. *)
Mine(p, r) ==
    /\ proc' = [proc EXCEPT ![p] = r]
    /\ \A q \in Procs \ {p} : cwd'[q] = cwd[q]

(* A step of process p changes what its own places hold, and no others. *)
LEMMA OthersHold ==
    ASSUME NEW p \in Procs, NEW r, proc \in [Procs -> Records], Mine(p, r),
           NEW x \in Places, x[1] = "file" \/ x[2] # p,
           \A f \in Files : x = <<"file", f>> => ftable'[f].ip = ftable[f].ip
    PROVE  Holds(x)' = Holds(x)
<1>1. CASE \E f \in Files : x = <<"file", f>>
  BY <1>1, HoldsAlways, HoldsNext DEF HoldsWell
<1>2. CASE \E q \in Procs : x \in {<<"n", q>>, <<"ip", q>>, <<"dp", q>>, <<"put1", q>>, <<"put2", q>>, <<"cwd", q>>}
  <2>1. PICK q \in Procs : x \in {<<"n", q>>, <<"ip", q>>, <<"dp", q>>, <<"put1", q>>, <<"put2", q>>, <<"cwd", q>>}
    BY <1>2
  <2>2. q # p
    BY <2>1
  <2>3. proc'[q] = proc[q] /\ cwd'[q] = cwd[q]
    BY <2>2 DEF Mine
  <2>4. /\ Holds(<<"n", q>>)' = Holds(<<"n", q>>)
        /\ Holds(<<"ip", q>>)' = Holds(<<"ip", q>>)
        /\ Holds(<<"dp", q>>)' = Holds(<<"dp", q>>)
        /\ Holds(<<"cwd", q>>)' = Holds(<<"cwd", q>>)
    BY <2>3 DEF Holds
  <2>5. /\ Holds(<<"put1", q>>)' = Holds(<<"put1", q>>)
        /\ Holds(<<"put2", q>>)' = Holds(<<"put2", q>>)
    BY <2>3 DEF Holds, Put
  <2>q. QED BY <2>1, <2>4, <2>5
<1>q. QED BY <1>1, <1>2, PlaceKinds

(* The reference counts after a step of p that leaves the files alone. *)
LEMMA RefsStep ==
    ASSUME NEW p \in Procs, NEW r, proc \in [Procs -> Records], Mine(p, r),
           \A f \in Files : ftable'[f].ip = ftable[f].ip,
           RefsOK,
           \A s \in Slots : icache'[s].ref = icache[s].ref + Weight(r, cwd'[p], s) - Weight(proc[p], cwd[p], s)
    PROVE  RefsOK'
<1>1. proc'[p] = r
  BY DEF Mine
<1> SUFFICES ASSUME NEW s \in Slots PROVE icache'[s].ref = Cardinality(Users(s)')
  BY DEF RefsOK, Slots
<1>2. Others(s, p)' = Others(s, p)
  <2>1. \A x \in Places : x[1] = "file" \/ x[2] # p => Holds(x)' = Holds(x)
    BY OthersHold
  <2>q. QED BY <2>1 DEF Others, Users
<1>3. /\ Cardinality(Users(s)) = Cardinality(Others(s, p)) + Weight(proc[p], cwd[p], s)
      /\ Cardinality(Users(s)') = Cardinality(Others(s, p)') + Weight(r, cwd'[p], s)
      /\ Cardinality(Users(s)) \in Nat /\ Cardinality(Others(s, p)) \in Nat
  BY <1>1, UsersAlways, UsersNext DEF UsersSplits, UsersCounts, Slots
<1>4. Weight(proc[p], cwd[p], s) \in Nat /\ Weight(r, cwd'[p], s) \in Nat
  BY DEF Weight, One
<1>5. icache[s].ref = Cardinality(Users(s))
  BY DEF RefsOK
<1>q. QED BY <1>2, <1>3, <1>4, <1>5

(* The same, when file f may change. *)
LEMMA RefsFileStep ==
    ASSUME NEW p \in Procs, NEW r, proc \in [Procs -> Records], Mine(p, r), NEW g \in Files,
           \A f \in Files \ {g} : ftable'[f].ip = ftable[f].ip,
           RefsOK,
           \A s \in Slots : icache'[s].ref = icache[s].ref + Weight(r, cwd'[p], s) - Weight(proc[p], cwd[p], s)
                                             + One(ftable'[g].ip, s) - One(ftable[g].ip, s)
    PROVE  RefsOK'
<1>1. proc'[p] = r
  BY DEF Mine
<1> SUFFICES ASSUME NEW s \in Slots PROVE icache'[s].ref = Cardinality(Users(s)')
  BY DEF RefsOK, Slots
<1>2. OthersF(s, p, g)' = OthersF(s, p, g)
  <2>1. \A x \in Places : x # <<"file", g>> /\ (x[1] = "file" \/ x[2] # p) => Holds(x)' = Holds(x)
    <3>1. SUFFICES ASSUME NEW x \in Places, x # <<"file", g>>, x[1] = "file" \/ x[2] # p
                   PROVE  Holds(x)' = Holds(x)
      OBVIOUS
    <3>2. \A f \in Files : x = <<"file", f>> => ftable'[f].ip = ftable[f].ip
      BY <3>1
    <3>q. QED BY <3>1, <3>2, OthersHold
  <2>q. QED BY <2>1 DEF OthersF, Others, Users
<1>3. /\ Cardinality(Users(s)) = Cardinality(Others(s, p)) + Weight(proc[p], cwd[p], s)
      /\ Cardinality(Users(s)') = Cardinality(Others(s, p)') + Weight(r, cwd'[p], s)
      /\ Cardinality(Users(s)) \in Nat /\ Cardinality(Others(s, p)) \in Nat
  BY <1>1, UsersAlways, UsersNext DEF UsersSplits, UsersCounts, Slots
<1>4. /\ Cardinality(Others(s, p)) = Cardinality(OthersF(s, p, g)) + One(ftable[g].ip, s)
      /\ Cardinality(Others(s, p)') = Cardinality(OthersF(s, p, g)') + One(ftable'[g].ip, s)
      /\ Cardinality(OthersF(s, p, g)) \in Nat
  BY UsersAlways, UsersNext DEF UsersSplits, UsersCounts, Slots, Files
<1>5. /\ Weight(proc[p], cwd[p], s) \in Nat /\ Weight(r, cwd'[p], s) \in Nat
      /\ One(ftable[g].ip, s) \in Nat /\ One(ftable'[g].ip, s) \in Nat
  BY DEF Weight, One
<1>6. icache[s].ref = Cardinality(Users(s))
  BY DEF RefsOK
<1>q. QED BY <1>2, <1>3, <1>4, <1>5, <1>6

-----------------------------------------------------------------------------
(* The least element of a set of natural numbers is one of them. *)
LEMMA LeastIn ==
    ASSUME NEW S \in SUBSET Nat, S # {}
    PROVE  Least(S) \in S /\ \A j \in S : Least(S) <= j
BY SmallestExists DEF Least

(* With all slots in use every inode is cached. *)
LEMMA SlotLeft ==
    ASSUME MemTypes, SlotsOK, NEW inum \in Inums, Cached(inum) = {}
    PROVE  Empty # {}
<1> SUFFICES ASSUME Empty = {} PROVE FALSE
  OBVIOUS
<1>1. \A s \in Slots : icache[s].ref > 0 /\ icache[s].inum \in Inums \ {inum}
  BY DEF Empty, MemTypes, SlotRecords, Cached, SlotsOK
<1> DEFINE h == [s \in Slots |-> icache[s].inum]
<1>2. h \in [Slots -> Inums \ {inum}]
  BY <1>1
<1>3. IsFiniteSet(Slots) /\ Cardinality(Slots) = NINODE
  BY Ext2Assumption, FS_Interval DEF Slots
<1>4. /\ IsFiniteSet(Inums \ {inum}) /\ Cardinality(Inums \ {inum}) = Cardinality(Inums) - 1
      /\ Cardinality(Inums) \in Nat
  BY Ext2Assumption, FS_RemoveElement, FS_CardinalityType
<1>5. Cardinality(Inums \ {inum}) < Cardinality(Slots)
  BY <1>3, <1>4, Ext2Assumption
<1>6. \E s, t \in Slots : s # t /\ h[s] = h[t]
  <2> HIDE DEF h
  <2>q. QED BY <1>2, <1>3, <1>4, <1>5, FS_PigeonHole
<1>q. QED BY <1>1, <1>6 DEF SlotsOK

(* Slot u is where iget() puts inode inum. *)
Slot4(u, inum) ==
    /\ u \in Slots
    /\ icache[u].ref > 0 => icache[u].inum = inum
    /\ icache[u].ref = 0 => \A t \in Slots : icache[t].ref > 0 => icache[t].inum # inum

(* iget() returns the slot that caches the inode, or one that nobody uses:   *)
(* there is a slot for every inode.                                          *)
LEMMA IgetFinds ==
    ASSUME MemTypes, SlotsOK, NEW inum \in Inums
    PROVE  /\ Slot4(IgetSlot(inum), inum)
           /\ Cached(inum) # {} <=> icache[IgetSlot(inum)].ref > 0
<1>0. Slots \subseteq Nat
  BY DEF Slots
<1>1. CASE Cached(inum) # {}
  <2>1. Cached(inum) \in SUBSET Nat
    BY <1>0 DEF Cached
  <2>2. Least(Cached(inum)) \in Cached(inum)
    BY <1>1, <2>1, LeastIn
  <2>q. QED
    BY <1>1, <2>2 DEF IgetSlot, Slot4, Cached, MemTypes, SlotRecords
<1>2. CASE Cached(inum) = {}
  <2>1. Empty \in SUBSET Nat /\ Empty # {}
    BY <1>0, <1>2, SlotLeft DEF Empty
  <2>2. Least(Empty) \in Empty
    BY <2>1, LeastIn
  <2>3. IgetSlot(inum) = Least(Empty)
    BY <1>2 DEF IgetSlot
  <2>q. QED
    BY <1>2, <2>2, <2>3 DEF Slot4, Cached, Empty, MemTypes, SlotRecords
<1>q. QED BY <1>1, <1>2

(* Cache c when iget() has returned slot u for inode inum. *)
Got(c, u, inum) ==
    [c EXCEPT ![u] = [c[u] EXCEPT !.inum = inum, !.ref = @ + 1,
                                  !.valid = IF c[u].ref > 0 THEN @ ELSE FALSE]]

(* iget() counts one more reference, and forgets the contents of a slot it   *)
(* takes over.                                                               *)
LEMMA GotFields ==
    ASSUME NEW c \in [Slots -> SlotRecords], NEW u \in Slots, NEW inum \in Inums
    PROVE  /\ Got(c, u, inum) \in [Slots -> SlotRecords]
           /\ \A t \in Slots \ {u} : Got(c, u, inum)[t] = c[t]
           /\ Got(c, u, inum)[u].inum = inum
           /\ Got(c, u, inum)[u].ref = c[u].ref + 1
           /\ Got(c, u, inum)[u].type = c[u].type
           /\ Got(c, u, inum)[u].nlink = c[u].nlink
           /\ Got(c, u, inum)[u].blk = c[u].blk
           /\ Got(c, u, inum)[u].lock = c[u].lock
           /\ c[u].ref > 0 => Got(c, u, inum)[u].valid = c[u].valid
           /\ c[u].ref = 0 => ~Got(c, u, inum)[u].valid
<1> DEFINE i == [c[u] EXCEPT !.inum = inum, !.ref = @ + 1, !.valid = IF c[u].ref > 0 THEN @ ELSE FALSE]
<1>1. c[u] \in SlotRecords
  OBVIOUS
<1>2. /\ i \in SlotRecords /\ i.inum = inum /\ i.ref = c[u].ref + 1 /\ i.type = c[u].type
      /\ i.nlink = c[u].nlink /\ i.blk = c[u].blk /\ i.lock = c[u].lock
  <2>1. PICK v \in BOOLEAN : v = IF c[u].ref > 0 THEN c[u].valid ELSE FALSE
    BY <1>1 DEF SlotRecords
  <2>2. i = [c[u] EXCEPT !.inum = inum, !.ref = @ + 1, !.valid = v]
    BY <1>1, <2>1
  <2> HIDE DEF i
  <2>3. /\ i.inum = inum /\ i.ref = c[u].ref + 1 /\ i.type = c[u].type
        /\ i.nlink = c[u].nlink /\ i.blk = c[u].blk /\ i.lock = c[u].lock
    BY <1>1, <2>2 DEF SlotRecords
  <2>4. PICK b \in Nat : b = c[u].ref + 1
    BY <1>1 DEF SlotRecords
  <2>5. i = [c[u] EXCEPT !.inum = inum, !.ref = b, !.valid = v]
    BY <2>2, <2>4
  <2>6. i \in SlotRecords
    BY <1>1, <2>5, Zenon DEF SlotRecords
  <2>q. QED BY <2>3, <2>6
<1>3. c[u].ref > 0 => i.valid = c[u].valid
  BY <1>1 DEF SlotRecords
<1>4. c[u].ref = 0 => ~i.valid
  BY <1>1 DEF SlotRecords
<1>5. Got(c, u, inum) = [c EXCEPT ![u] = i]
  BY DEF Got
<1> HIDE DEF i
<1>q. QED BY <1>2, <1>3, <1>4, <1>5

(* The two cases of iget() are one: the slot becomes what Got says. *)
LEMMA IgetIs ==
    ASSUME MemTypes, SlotsOK, NEW inum \in Inums
    PROVE  [icache EXCEPT ![IgetSlot(inum)] = IgetEntry(inum)] = Got(icache, IgetSlot(inum), inum)
<1>1. PICK u \in Slots : u = IgetSlot(inum)
  BY IgetFinds DEF Slot4
<1>2. icache[u] \in SlotRecords
  BY DEF MemTypes
<1>3. IgetEntry(inum) = [icache[u] EXCEPT !.inum = inum, !.ref = @ + 1,
                                          !.valid = IF icache[u].ref > 0 THEN @ ELSE FALSE]
  <2>1. CASE Cached(inum) # {}
    <3>1. icache[u].ref > 0 /\ icache[u].inum = inum
      BY <1>1, <2>1, IgetFinds DEF Slot4
    <3>q. QED BY <1>1, <1>2, <2>1, <3>1 DEF IgetEntry, SlotRecords
  <2>2. CASE Cached(inum) = {}
    <3>1. icache[u].ref = 0
      BY <1>1, <1>2, <2>2, IgetFinds DEF SlotRecords
    <3>q. QED BY <1>1, <1>2, <2>2, <3>1 DEF IgetEntry, SlotRecords
  <2>q. QED BY <2>1, <2>2
<1>q. QED BY <1>1, <1>3 DEF Got

(* A change to one slot that keeps its number and its count, followed by     *)
(* iget().                                                                   *)
LEMMA SetAndIgetIs ==
    ASSUME MemTypes, SlotsOK, NEW inum \in Inums, NEW s \in Slots, NEW i \in SlotRecords,
           icache[s].ref > 0, i.ref = icache[s].ref, i.inum = icache[s].inum
    PROVE  SetAndIget(s, i, inum) = Got([icache EXCEPT ![s] = i], IgetSlot(inum), inum)
<1>1. PICK u \in Slots : u = IgetSlot(inum)
  BY IgetFinds DEF Slot4
<1>2. icache[u] \in SlotRecords
  BY DEF MemTypes
<1>3. CASE u = s
  <2>1. icache[u].inum = inum
    BY <1>1, <1>3, IgetFinds DEF Slot4
  <2>2. [i EXCEPT !.inum = inum, !.ref = @ + 1, !.valid = IF i.ref > 0 THEN @ ELSE FALSE] = [i EXCEPT !.ref = @ + 1]
    BY <1>3, <2>1 DEF SlotRecords
  <2>3. icache \in [Slots -> SlotRecords]
    BY DEF MemTypes
  <2>4. SetAndIget(s, i, inum) = [icache EXCEPT ![s] = [i EXCEPT !.ref = @ + 1]]
    BY <1>1, <1>3 DEF SetAndIget
  <2>5. Got([icache EXCEPT ![s] = i], u, inum)
        = [icache EXCEPT ![s] = [i EXCEPT !.inum = inum, !.ref = @ + 1, !.valid = IF i.ref > 0 THEN @ ELSE FALSE]]
    <3> DEFINE c == [icache EXCEPT ![s] = i]
    <3>1. c[u] = i /\ c \in [Slots -> SlotRecords]
      BY <1>3, <2>3
    <3>2. Got(c, u, inum) = [c EXCEPT ![u] = [i EXCEPT !.inum = inum, !.ref = @ + 1, !.valid = IF i.ref > 0 THEN @ ELSE FALSE]]
      BY <3>1 DEF Got
    <3>3. \A k : [c EXCEPT ![u] = k] = [icache EXCEPT ![s] = k]
      BY <1>3, <2>3
    <3> HIDE DEF c
    <3>4. Got(c, u, inum) = [icache EXCEPT ![s] = [i EXCEPT !.inum = inum, !.ref = @ + 1, !.valid = IF i.ref > 0 THEN @ ELSE FALSE]]
      BY <3>2, <3>3
    <3>q. QED BY <3>4 DEF c
  <2>q. QED BY <1>1, <2>2, <2>4, <2>5
<1>4. CASE u # s
  <2>1. SetAndIget(s, i, inum) = [icache EXCEPT ![s] = i, ![u] = IgetEntry(inum)]
    BY <1>1, <1>4 DEF SetAndIget
  <2>2. [icache EXCEPT ![u] = IgetEntry(inum)] = Got(icache, u, inum)
    BY <1>1, IgetIs
  <2>3. icache \in [Slots -> SlotRecords]
    BY DEF MemTypes
  <2>4. IgetEntry(inum) = Got(icache, u, inum)[u]
    BY <2>2, <2>3
  <2>5. Got(icache, u, inum)[u] = [icache[u] EXCEPT !.inum = inum, !.ref = @ + 1,
                                          !.valid = IF icache[u].ref > 0 THEN @ ELSE FALSE]
    BY <2>3 DEF Got
  <2>6. [icache EXCEPT ![s] = i][u] = icache[u]
    BY <1>4, <2>3
  <2>q. QED BY <1>1, <2>1, <2>4, <2>5, <2>6 DEF Got
<1>q. QED BY <1>3, <1>4

-----------------------------------------------------------------------------
(* A step of p takes and releases locks for p only, and ends with those    *)
(* that r says p has.                                                      *)
Locking(p, r) ==
    \A s \in Slots :
        /\ icache'[s].lock = icache[s].lock \/ {icache'[s].lock, icache[s].lock} \subseteq {p, nullptr}
        /\ IF r.pc = "write" THEN icache'[s].lock = p => \A t \in Slots : icache'[t].lock = p => t = s
           ELSE icache'[s].lock = p <=> Locks(r, s)

(* The locks match the points of the calls after a step of p if they do for  *)
(* p.                                                                        *)
LEMMA LocksStep ==
    ASSUME NEW p \in Procs, NEW r, proc \in [Procs -> Records], Mine(p, r), LocksOK, Locking(p, r)
    PROVE  LocksOK'
<1>0. proc'[p] = r /\ \A q \in Procs \ {p} : proc'[q] = proc[q]
  BY DEF Mine
<1> SUFFICES ASSUME NEW q \in Procs, NEW s \in Slots
             PROVE  IF proc'[q].pc = "write" THEN icache'[s].lock = q => \A t \in Slots : icache'[t].lock = q => t = s
                    ELSE icache'[s].lock = q <=> Locks(proc'[q], s)
  BY DEF LocksOK, Slots, Locks, LocksAt, Put, Point
<1>1. CASE q = p
  BY <1>0, <1>1 DEF Locking
<1>2. CASE q # p
  <2>1. \A t \in Slots : icache'[t].lock = q <=> icache[t].lock = q
    BY <1>2, Ext2Assumption DEF Locking
  <2>2. proc'[q] = proc[q]
    BY <1>0, <1>2
  <2>q. QED BY <2>1, <2>2 DEF LocksOK
<1>q. QED BY <1>1, <1>2

(* The slots in use keep their inodes when no inode is fetched. *)
Kept == \A s \in Slots : /\ icache'[s].inum = icache[s].inum
                         /\ icache'[s].ref > 0 => icache[s].ref > 0

(* No inode is cached twice if the slots keep their numbers and counts. *)
LEMMA SlotsKept ==
    ASSUME SlotsOK, Kept
    PROVE  SlotsOK'
BY DEF SlotsOK, Kept, Slots

(* No inode is cached twice after an iget(), which looks for it first. *)
LEMMA SlotsGot ==
    ASSUME SlotsOK, NEW u, NEW inum \in Inums, Slot4(u, inum), NEW c \in [Slots -> SlotRecords],
           \A s \in Slots : c[s].inum = icache[s].inum /\ c[s].ref = icache[s].ref,
           icache' = Got(c, u, inum)
    PROVE  SlotsOK'
<1>1. u \in Slots
  BY DEF Slot4
<1>2. /\ \A t \in Slots \ {u} : icache'[t] = c[t]
      /\ icache'[u].inum = inum
  BY <1>1, GotFields
<1>3. inum # 0
  BY Ext2Assumption
<1> SUFFICES ASSUME NEW s \in Slots, NEW t \in Slots
             PROVE  /\ icache'[s].ref > 0 => icache'[s].inum # 0
                    /\ icache'[s].ref > 0 /\ icache'[t].ref > 0 /\ icache'[s].inum = icache'[t].inum => s = t
  BY DEF SlotsOK, Slots
<1>4. \A k \in Slots \ {u} : icache'[k].ref = icache[k].ref /\ icache'[k].inum = icache[k].inum
  BY <1>2
<1>5. \A k \in Slots \ {u} : icache[k].ref > 0 => icache[k].inum # inum
  <2>1. CASE icache[u].ref > 0
    BY <2>1, <1>1 DEF Slot4, SlotsOK
  <2>2. CASE ~(icache[u].ref > 0)
    <3>1. icache[u].ref = 0
      BY <2>2, <1>1 DEF SlotRecords
    <3>q. QED BY <3>1 DEF Slot4
  <2>q. QED BY <2>1, <2>2
<1>q. QED BY <1>2, <1>3, <1>4, <1>5 DEF SlotsOK

(* A step of process p, to r, that leaves files and descriptors alone. *)
LEMMA ProcStep ==
    ASSUME MInv, NEW p \in Procs, NEW r \in Records, Shape(r), Mine(p, r),
           icache' \in [Slots -> SlotRecords], ofile' = ofile, ftable' = ftable,
           cwd' \in [Procs -> Slots \cup {0}],
           cwd'[p] # 0 <=> ~Gone(r),
           Gone(r) => \A fd \in Fds : ofile[p][fd] = 0,
           \A s \in Slots : icache'[s].ref = icache[s].ref + Weight(r, cwd'[p], s) - Weight(proc[p], cwd[p], s),
           Locking(p, r), SlotsOK'
    PROVE  MInv'
<1>0. proc \in [Procs -> Records] /\ \A q \in Procs : Shape(proc[q])
  BY DEF MInv, Shapes
<1>1. proc'[p] = r /\ \A q \in Procs \ {p} : proc'[q] = proc[q]
  BY <1>0 DEF Mine
<1>2. MemTypes'
  BY DEF MInv, MemTypes, Slots, Files, Fds, SlotRecords, FileRecords, Types
<1>3. Shapes'
  <2>1. proc' \in [Procs -> Records]
    BY <1>0 DEF Mine
  <2>2. \A q \in Procs : Shape(proc'[q])
    BY <1>0, <1>1
  <2>3. Shapes' <=> (proc' \in [Procs -> Records] /\ \A q \in Procs : Shape(proc'[q]))
    BY DEF Shapes, Records, Shape, Named, LastOf, WantsParent, Fits, OpAt, LocksAt, Put, Point, Slots
  <2>q. QED BY <2>1, <2>2, <2>3
<1>4. LocksOK'
  BY <1>0, LocksStep DEF MInv
<1>5. OwnsOK'
  <2> SUFFICES ASSUME NEW q \in Procs
               PROVE  /\ cwd'[q] # 0 <=> ~Gone(proc'[q])
                      /\ Gone(proc'[q]) => \A fd \in Fds : ofile'[q][fd] = 0
    BY DEF OwnsOK, Gone, Point, Fds
  <2>1. CASE q = p
    BY <1>1, <2>1
  <2>2. CASE q # p
    BY <1>1, <2>2 DEF MInv, OwnsOK, Mine
  <2>q. QED BY <2>1, <2>2
<1>6. RefsOK'
  BY <1>0, RefsStep DEF MInv
<1>7. FilesOK'
  BY DEF MInv, FilesOK, FdsOf, Files, Fds
<1>q. QED BY <1>2, <1>3, <1>4, <1>5, <1>6, <1>7 DEF MInv

(* Cache c has the slots of icache, with the locks that r says p has. *)
Sets(p, r, c) ==
    /\ c \in [Slots -> SlotRecords]
    /\ r.pc # "write"
    /\ \A s \in Slots :
        /\ c[s].ref = icache[s].ref
        /\ c[s].inum = icache[s].inum
        /\ c[s].lock = icache[s].lock \/ {c[s].lock, icache[s].lock} \subseteq {p, nullptr}
        /\ c[s].lock = p <=> Locks(r, s)

SameHoldings(p, r) ==
    \A s \in Slots : Weight(r, cwd'[p], s) = Weight(proc[p], cwd[p], s)
MoreHoldings(p, r, u) ==
    \A s \in Slots : Weight(r, cwd'[p], s) = Weight(proc[p], cwd[p], s) + One(u, s)

(* What the steps below have in common. *)
Stepping(p, r) ==
    /\ r \in Records /\ Shape(r) /\ Mine(p, r)
    /\ ofile' = ofile /\ ftable' = ftable
    /\ cwd' \in [Procs -> Slots \cup {0}]
    /\ cwd'[p] # 0 <=> ~Gone(r)
    /\ Gone(r) => \A fd \in Fds : ofile[p][fd] = 0

(* The references that a process has to a slot are counted by a natural      *)
(* number.                                                                   *)
LEMMA WeightNat ==
    ASSUME NEW r, NEW c, NEW s
    PROVE  Weight(r, c, s) \in Nat /\ One(c, s) \in Nat
BY DEF Weight, One

(* A step of p that neither takes nor drops a reference keeps MInv. *)
LEMMA KeepStep ==
    ASSUME MInv, NEW p \in Procs, NEW r, Stepping(p, r), Sets(p, r, icache'), SameHoldings(p, r)
    PROVE  MInv'
<1>1. icache \in [Slots -> SlotRecords]
  BY DEF MInv, MemTypes
<1>2. \A s \in Slots : icache'[s].ref = icache[s].ref + Weight(r, cwd'[p], s) - Weight(proc[p], cwd[p], s)
  BY <1>1, WeightNat DEF Sets, SameHoldings, SlotRecords
<1>3. Locking(p, r)
  BY DEF Locking, Sets
<1>4. SlotsOK'
  BY SlotsKept DEF Kept, Sets, MInv
<1>q. QED BY <1>2, <1>3, <1>4, ProcStep DEF Stepping, Sets

(* A step of p that takes one reference with iget() keeps MInv. *)
LEMMA GotStep ==
    ASSUME MInv, NEW p \in Procs, NEW r, Stepping(p, r), NEW c, Sets(p, r, c), NEW inum \in Inums,
           NEW u, Slot4(u, inum), icache' = Got(c, u, inum), MoreHoldings(p, r, u)
    PROVE  MInv'
<1>0. u \in Slots /\ c \in [Slots -> SlotRecords]
  BY DEF Slot4, Sets
<1>1. icache \in [Slots -> SlotRecords]
  BY DEF MInv, MemTypes
<1>2. /\ icache' \in [Slots -> SlotRecords]
      /\ \A t \in Slots \ {u} : icache'[t] = c[t]
      /\ icache'[u].ref = c[u].ref + 1
      /\ icache'[u].lock = c[u].lock
  BY <1>0, GotFields
<1>3. \A s \in Slots : icache'[s].ref = icache[s].ref + Weight(r, cwd'[p], s) - Weight(proc[p], cwd[p], s)
  <2> TAKE s \in Slots
  <2>1. icache'[s].ref = icache[s].ref + One(u, s)
    BY <1>0, <1>1, <1>2 DEF One, Sets, SlotRecords
  <2>2. icache[s].ref \in Nat
    BY <1>1 DEF SlotRecords
  <2>3. Weight(r, cwd'[p], s) = Weight(proc[p], cwd[p], s) + One(u, s)
    BY DEF MoreHoldings
  <2>4. Weight(proc[p], cwd[p], s) \in Nat /\ One(u, s) \in Nat
    BY WeightNat
  <2>q. QED BY <2>1, <2>2, <2>3, <2>4
<1>4. Locking(p, r)
  <2>1. \A s \in Slots : icache'[s].lock = c[s].lock
    BY <1>2
  <2>q. QED BY <2>1 DEF Locking, Sets
<1>5. SlotsOK'
  BY <1>0, SlotsGot DEF Sets, MInv
<1>q. QED BY <1>2, <1>3, <1>4, <1>5, ProcStep DEF Stepping

(* A slot that something refers to is in use. *)
LEMMA Held ==
    ASSUME MInv, NEW p \in Procs, NEW s \in Slots,
           s \in {proc[p].n, proc[p].ip, proc[p].dp, Put(proc[p], 1), Put(proc[p], 2), cwd[p]}
    PROVE  icache[s].ref > 0 /\ icache[s].inum \in Inums /\ icache[s] \in SlotRecords
<1>1. icache[s] \in SlotRecords
  BY DEF MInv, MemTypes
<1>2. Weight(proc[p], cwd[p], s) > 0
  BY DEF Weight, One
<1>3. Cardinality(Users(s)) > 0
  <2>1. Cardinality(Users(s)) = Cardinality(Others(s, p)) + Weight(proc[p], cwd[p], s)
    BY UsersSplit
  <2>2. Cardinality(Others(s, p)) \in Nat /\ Weight(proc[p], cwd[p], s) \in Nat
    BY UsersFinite, WeightNat
  <2>q. QED BY <2>1, <2>2, <1>2
<1>4. icache[s].ref > 0
  BY <1>3 DEF MInv, RefsOK
<1>q. QED BY <1>1, <1>4 DEF MInv, SlotsOK, SlotRecords

(* The inode of an open file is cached and counted. *)
LEMMA HeldFile ==
    ASSUME MInv, NEW f \in Files, NEW s \in Slots, s = ftable[f].ip
    PROVE  icache[s].ref > 0 /\ icache[s].inum \in Inums /\ icache[s] \in SlotRecords
<1>1. icache[s] \in SlotRecords
  BY DEF MInv, MemTypes
<1>2. init \in Procs
  BY FileSystemAssumption
<1>3. Cardinality(Users(s)) > 0
  <2>1. Cardinality(Users(s)) = Cardinality(Others(s, init)) + Weight(proc[init], cwd[init], s)
    BY <1>2, UsersSplit
  <2>2. Cardinality(Others(s, init)) = Cardinality(OthersF(s, init, f)) + One(ftable[f].ip, s)
    BY <1>2, OthersSplit
  <2>3. /\ Cardinality(OthersF(s, init, f)) \in Nat /\ Weight(proc[init], cwd[init], s) \in Nat
        /\ One(ftable[f].ip, s) = 1
    BY UsersFinite, WeightNat DEF One
  <2>q. QED BY <2>1, <2>2, <2>3
<1>4. icache[s].ref > 0
  BY <1>3 DEF MInv, RefsOK
<1>q. QED BY <1>1, <1>4 DEF MInv, SlotsOK, SlotRecords

(* ilock() leaves the number and the references of the slot. *)
LEMMA LoadedFields ==
    ASSUME NEW s \in Slots, icache[s] \in SlotRecords, icache[s].inum \in Inums, DiskTypes
    PROVE  /\ Loaded(s) \in SlotRecords
           /\ Loaded(s).ref = icache[s].ref
           /\ Loaded(s).inum = icache[s].inum
           /\ Loaded(s).lock = icache[s].lock
           /\ Loaded(s).valid
<1> DEFINE i == icache[s]
           d == dinode[i.inum]
<1>1. d \in Entries
  BY DEF DiskTypes
<1>2. CASE i.valid
  BY <1>2 DEF Loaded
<1>3. CASE ~i.valid
  <2>1. PICK ty \in Types : ty = IF d.mode = "none" THEN i.type ELSE d.mode
    BY <1>1 DEF Entries, SlotRecords
  <2>2. Loaded(s) = [i EXCEPT !.valid = TRUE, !.nlink = d.nlink, !.blk = d.blk, !.type = ty]
    BY <1>3, <2>1 DEF Loaded
  <2>3. d.nlink \in Int /\ d.blk \in Blocks \cup {0}
    BY <1>1 DEF Entries
  <2> HIDE DEF d
  <2>q. QED BY <2>2, <2>3 DEF SlotRecords
<1>q. QED BY <1>2, <1>3

(* Taking or releasing a lock changes no other field of a slot. *)
LEMMA LockFields ==
    ASSUME NEW i \in SlotRecords, NEW l \in Procs \cup {nullptr}
    PROVE  /\ [i EXCEPT !.lock = l] \in SlotRecords
           /\ [i EXCEPT !.lock = l].ref = i.ref
           /\ [i EXCEPT !.lock = l].inum = i.inum
           /\ [i EXCEPT !.lock = l].valid = i.valid
           /\ [i EXCEPT !.lock = l].type = i.type
           /\ [i EXCEPT !.lock = l].nlink = i.nlink
           /\ [i EXCEPT !.lock = l].blk = i.blk
           /\ [i EXCEPT !.lock = l].lock = l
BY DEF SlotRecords

(* The records that a step leaves. *)
LEMMA IputFields ==
    ASSUME NEW r \in Records, NEW s \in Slots, NEW ret \in Rets
    PROVE  LET r2 == IputThen(r, <<s>>, ret) IN
           /\ r2 \in Records
           /\ r2.pc = "iput" /\ r2.puts = <<s>> /\ r2.ret = ret /\ r2.call = r.call /\ r2.rest = r.rest
           /\ r2.n = r.n /\ r2.ip = r.ip /\ r2.dp = r.dp /\ r2.ino = r.ino
           /\ Put(r2, 1) = s /\ Put(r2, 2) = 0
<1>1. <<s>> \in Seq(Slots) /\ Len(<<s>>) = 1 /\ <<s>>[1] = s
  OBVIOUS
<1>2. "iput" \in IputPcs
  BY DEF IputPcs
<1> DEFINE r2 == IputThen(r, <<s>>, ret)
<1>3. /\ r2.pc = "iput" /\ r2.puts = <<s>> /\ r2.ret = ret /\ r2.call = r.call /\ r2.rest = r.rest
      /\ r2.n = r.n /\ r2.ip = r.ip /\ r2.dp = r.dp /\ r2.ino = r.ino
  BY DEF IputThen, Records
<1>4. r2 \in Records
  BY <1>1, <1>2 DEF IputThen, Records
<1> HIDE DEF r2
<1>5. Put(r2, 1) = s /\ Put(r2, 2) = 0
  BY <1>1, <1>3 DEF Put
<1>q. QED BY <1>3, <1>4, <1>5 DEF r2

(* A process that forgets n, ip or dp keeps its other locals. *)
LEMMA DropFields ==
    ASSUME NEW r \in Records
    PROVE  /\ [r EXCEPT !.n = 0] \in Records /\ [r EXCEPT !.ip = 0] \in Records /\ [r EXCEPT !.dp = 0] \in Records
           /\ [r EXCEPT !.n = 0].n = 0 /\ [r EXCEPT !.n = 0].ip = r.ip /\ [r EXCEPT !.n = 0].dp = r.dp
           /\ [r EXCEPT !.n = 0].call = r.call /\ [r EXCEPT !.n = 0].rest = r.rest /\ [r EXCEPT !.n = 0].ino = r.ino
           /\ [r EXCEPT !.ip = 0].n = r.n /\ [r EXCEPT !.ip = 0].ip = 0 /\ [r EXCEPT !.ip = 0].dp = r.dp
           /\ [r EXCEPT !.ip = 0].call = r.call /\ [r EXCEPT !.ip = 0].rest = r.rest /\ [r EXCEPT !.ip = 0].ino = r.ino
           /\ [r EXCEPT !.dp = 0].n = r.n /\ [r EXCEPT !.dp = 0].ip = r.ip /\ [r EXCEPT !.dp = 0].dp = 0
           /\ [r EXCEPT !.dp = 0].call = r.call /\ [r EXCEPT !.dp = 0].rest = r.rest /\ [r EXCEPT !.dp = 0].ino = r.ino
BY DEF Records

(* What Goto() leaves. *)
LEMMA GotoFields ==
    ASSUME NEW r \in Records, NEW pc \in Points \cup IputPcs, NEW r2, r2 = [r EXCEPT !.pc = pc]
    PROVE  /\ r2 \in Records
           /\ r2.pc = pc /\ r2.puts = r.puts /\ r2.ret = r.ret /\ r2.call = r.call /\ r2.rest = r.rest
           /\ r2.n = r.n /\ r2.ip = r.ip /\ r2.dp = r.dp /\ r2.ino = r.ino
           /\ Put(r2, 1) = Put(r, 1) /\ Put(r2, 2) = Put(r, 2)
<1>1. /\ r2 \in Records
      /\ r2.pc = pc /\ r2.puts = r.puts /\ r2.ret = r.ret /\ r2.call = r.call /\ r2.rest = r.rest
      /\ r2.n = r.n /\ r2.ip = r.ip /\ r2.dp = r.dp /\ r2.ino = r.ino
  BY DEF Records
<1>2. Put(r2, 1) = Put(r, 1) /\ Put(r2, 2) = Put(r, 2)
  BY DEF Put, Records
<1>q. QED BY <1>1, <1>2

(* Outside the calls of iput() a process has nothing to put. *)
LEMMA NothingToPut ==
    ASSUME MInv, NEW p \in Procs, proc[p].pc \notin IputPcs
    PROVE  /\ proc[p] \in Records /\ proc[p].puts = <<>>
           /\ Put(proc[p], 1) = 0 /\ Put(proc[p], 2) = 0
           /\ Point(proc[p]) = proc[p].pc
           /\ Fits(proc[p].n, proc[p].ip, proc[p].dp, proc[p].call.op, proc[p].ino, proc[p].pc)
           /\ Named(proc[p])
<1>1. /\ proc[p] \in Records /\ Put(proc[p], 1) = 0 /\ Point(proc[p]) = proc[p].pc
      /\ Fits(proc[p].n, proc[p].ip, proc[p].dp, proc[p].call.op, proc[p].ino, proc[p].pc)
      /\ Named(proc[p])
  BY DEF MInv, Shapes, Shape, Point
<1>2. proc[p].puts \in Seq(Slots)
  BY <1>1 DEF Records
<1>3. proc[p].puts = <<>>
  <2>1. Len(proc[p].puts) \in Nat /\ \A j \in 1..Len(proc[p].puts) : proc[p].puts[j] \in Slots
    BY <1>2
  <2>2. ~(1 <= Len(proc[p].puts))
    BY <1>1, <2>1 DEF Put, Slots
  <2>q. QED BY <1>2, <2>1, <2>2
<1>q. QED BY <1>1, <1>3 DEF Put

(* The locks of p, iput() aside, as those of a call with ip and dp at pt. *)
SetsAt(p, ip, dp, pt, c) ==
    /\ c \in [Slots -> SlotRecords]
    /\ \A s \in Slots :
        /\ c[s].ref = icache[s].ref
        /\ c[s].inum = icache[s].inum
        /\ c[s].lock = icache[s].lock \/ {c[s].lock, icache[s].lock} \subseteq {p, nullptr}
        /\ c[s].lock = p <=> LocksAt(ip, dp, pt, s)

(* Process p is in a call, or in user mode, and not in iput(). *)
InCall(p) == p \in Procs /\ proc[p].pc \notin IputPcs \cup {"unused", "write"}

(* A step that changes slot s, and takes or releases its lock as the next    *)
(* point of the call wants it, leaves the locks right.                       *)
LEMMA SetsAtOne ==
    ASSUME MInv, NEW p, InCall(p), NEW ip, NEW dp, NEW pt,
           NEW s \in Slots, NEW i \in SlotRecords,
           i.ref = icache[s].ref, i.inum = icache[s].inum,
           icache[s].lock \in {p, nullptr},
           i.lock = IF LocksAt(ip, dp, pt, s) THEN p ELSE nullptr,
           \A t \in Slots \ {s} : LocksAt(ip, dp, pt, t) <=> LocksAt(proc[p].ip, proc[p].dp, proc[p].pc, t)
    PROVE  SetsAt(p, ip, dp, pt, [icache EXCEPT ![s] = i])
<1>1. icache \in [Slots -> SlotRecords]
  BY DEF MInv, MemTypes
<1>2. proc[p].pc \notin FreePcs /\ Point(proc[p]) = proc[p].pc
  BY DEF InCall, IputPcs, FreePcs, Point
<1>3. \A t \in Slots : icache[t].lock = p <=> LocksAt(proc[p].ip, proc[p].dp, proc[p].pc, t)
  BY <1>2 DEF MInv, LocksOK, Locks, InCall
<1>q. QED BY <1>1, <1>3, Ext2Assumption DEF SetsAt, InCall

(* A step that changes no slot leaves the locks right if the next point of   *)
(* the call wants the same ones.                                             *)
LEMMA SetsAtNone ==
    ASSUME MInv, NEW p, InCall(p), NEW ip, NEW dp, NEW pt,
           \A t \in Slots : LocksAt(ip, dp, pt, t) <=> LocksAt(proc[p].ip, proc[p].dp, proc[p].pc, t)
    PROVE  SetsAt(p, ip, dp, pt, icache)
<1>1. icache \in [Slots -> SlotRecords]
  BY DEF MInv, MemTypes
<1>2. proc[p].pc \notin FreePcs /\ Point(proc[p]) = proc[p].pc
  BY DEF InCall, IputPcs, FreePcs, Point
<1>3. \A t \in Slots : icache[t].lock = p <=> LocksAt(proc[p].ip, proc[p].dp, proc[p].pc, t)
  BY <1>2 DEF MInv, LocksOK, Locks, InCall
<1>q. QED BY <1>1, <1>3 DEF SetsAt

(* The record r1, about to put s and to go on at ret. *)
Enters(p, r1, s, ret, c) ==
    /\ InCall(p) /\ r1 \in Records /\ s \in Slots /\ ret \in Rets \ {"unused"}
    /\ Fits(r1.n, r1.ip, r1.dp, r1.call.op, r1.ino, ret) /\ Named(r1)
    /\ Become(p, IputThen(r1, <<s>>, ret))
    /\ SetsAt(p, r1.ip, r1.dp, ret, c)
    /\ ofile' = ofile /\ ftable' = ftable /\ cwd' = cwd

(* A process that enters iput() of one inode fits its new point. *)
LEMMA EntersStepping ==
    ASSUME MInv, NEW p, NEW r1, NEW s, NEW ret, NEW c, Enters(p, r1, s, ret, c), NEW r2, r2 = IputThen(r1, <<s>>, ret)
    PROVE  /\ Stepping(p, r2) /\ Sets(p, r2, c)
           /\ r2.n = r1.n /\ r2.ip = r1.ip /\ r2.dp = r1.dp /\ Put(r2, 1) = s /\ Put(r2, 2) = 0
           /\ Put(proc[p], 1) = 0 /\ Put(proc[p], 2) = 0
<1>0. p \in Procs /\ r1 \in Records /\ s \in Slots /\ ret \in Rets /\ ret # "unused"
  BY DEF Enters, InCall
<1>1. /\ r2 \in Records /\ r2.puts = <<s>>
      /\ r2.pc = "iput" /\ r2.ret = ret /\ r2.call = r1.call
      /\ r2.n = r1.n /\ r2.ip = r1.ip /\ r2.dp = r1.dp /\ r2.ino = r1.ino /\ r2.rest = r1.rest
      /\ Put(r2, 1) = s /\ Put(r2, 2) = 0
  BY <1>0, IputFields
<1>2. /\ Put(proc[p], 1) = 0 /\ Put(proc[p], 2) = 0
      /\ Point(proc[p]) = proc[p].pc
  BY NothingToPut DEF Enters, InCall
<1>3. ~Gone(proc[p]) /\ cwd[p] # 0 /\ cwd \in [Procs -> Slots \cup {0}]
  BY <1>2 DEF Enters, InCall, Gone, MInv, OwnsOK, MemTypes
<1>4. Mine(p, r2)
  BY DEF Mine, Become, Enters
<1>5. Point(r2) = ret /\ r2.pc \in IputPcs /\ r2.pc \notin FreePcs
  BY <1>1 DEF Point, IputPcs, FreePcs
<1>6. Shape(r2)
  <2>1. s # 0
    BY <1>0 DEF Slots
  <2>3. Len(<<s>>) <= 2
    OBVIOUS
  <2>2. Fits(r2.n, r2.ip, r2.dp, r2.call.op, r2.ino, Point(r2))
    BY <1>1, <1>5 DEF Enters
  <2>4. Named(r2)
    BY <1>1 DEF Named, LastOf, WantsParent, Enters
  <2>q. QED BY <1>1, <1>5, <2>1, <2>2, <2>3, <2>4 DEF Shape
<1>7. Stepping(p, r2)
  BY <1>0, <1>1, <1>3, <1>4, <1>5, <1>6 DEF Stepping, Gone, Enters
<1>8. Sets(p, r2, c)
  BY <1>1, <1>5 DEF Sets, SetsAt, Locks, Enters
<1>q. QED BY <1>1, <1>2, <1>7, <1>8

(* A step that gives an inode of a call to iput(). *)
LEMMA AwayStep ==
    ASSUME MInv, NEW p, NEW r1, NEW s, NEW ret, Enters(p, r1, s, ret, icache'),
           \A t \in Slots : One(r1.n, t) + One(r1.ip, t) + One(r1.dp, t) + One(s, t)
                            = One(proc[p].n, t) + One(proc[p].ip, t) + One(proc[p].dp, t)
    PROVE  MInv'
<1>1. PICK r2 : r2 = IputThen(r1, <<s>>, ret)
  OBVIOUS
<1>2. /\ Stepping(p, r2) /\ Sets(p, r2, icache')
      /\ r2.n = r1.n /\ r2.ip = r1.ip /\ r2.dp = r1.dp /\ Put(r2, 1) = s /\ Put(r2, 2) = 0
      /\ Put(proc[p], 1) = 0 /\ Put(proc[p], 2) = 0
  BY <1>1, EntersStepping
<1>3. SameHoldings(p, r2)
  BY <1>2 DEF SameHoldings, Weight, One, Slots, Enters
<1>q. QED BY <1>2, <1>3, KeepStep DEF Enters, InCall

(* The same, when an inode is fetched too. *)
LEMMA AwayGotStep ==
    ASSUME MInv, NEW p, NEW r1, NEW s, NEW ret, NEW c, Enters(p, r1, s, ret, c),
           NEW inum \in Inums, NEW u, Slot4(u, inum), icache' = Got(c, u, inum),
           \A t \in Slots : One(r1.n, t) + One(r1.ip, t) + One(r1.dp, t) + One(s, t)
                            = One(proc[p].n, t) + One(proc[p].ip, t) + One(proc[p].dp, t) + One(u, t)
    PROVE  MInv'
<1>1. PICK r2 : r2 = IputThen(r1, <<s>>, ret)
  OBVIOUS
<1>2. /\ Stepping(p, r2) /\ Sets(p, r2, c)
      /\ r2.n = r1.n /\ r2.ip = r1.ip /\ r2.dp = r1.dp /\ Put(r2, 1) = s /\ Put(r2, 2) = 0
      /\ Put(proc[p], 1) = 0 /\ Put(proc[p], 2) = 0
  BY <1>1, EntersStepping
<1>3. MoreHoldings(p, r2, u)
  BY <1>2 DEF MoreHoldings, Weight, One, Slots, Enters
<1>q. QED BY <1>2, <1>3, GotStep DEF Enters, InCall

(* The record r2, with nothing to put. *)
Moves(p, r2, c) ==
    /\ InCall(p) /\ r2 \in Records /\ r2.puts = <<>> /\ r2.pc \notin IputPcs \cup {"unused", "write"}
    /\ Fits(r2.n, r2.ip, r2.dp, r2.call.op, r2.ino, r2.pc) /\ Named(r2)
    /\ Become(p, r2)
    /\ SetsAt(p, r2.ip, r2.dp, r2.pc, c)
    /\ ofile' = ofile /\ ftable' = ftable /\ cwd' = cwd

(* A process that goes on to another point of its call, outside iput(), fits *)
(* it.                                                                       *)
LEMMA MovesStepping ==
    ASSUME MInv, NEW p, NEW r2, NEW c, Moves(p, r2, c)
    PROVE  /\ Stepping(p, r2) /\ Sets(p, r2, c)
           /\ Put(r2, 1) = 0 /\ Put(r2, 2) = 0
           /\ Put(proc[p], 1) = 0 /\ Put(proc[p], 2) = 0
<1>0. p \in Procs /\ r2 \in Records /\ r2.pc # "unused" /\ r2.pc # "write"
  BY DEF Moves, InCall
<1>1. Put(r2, 1) = 0 /\ Put(r2, 2) = 0 /\ Len(r2.puts) = 0
  BY DEF Put, Moves
<1>2. /\ Put(proc[p], 1) = 0 /\ Put(proc[p], 2) = 0
      /\ Point(proc[p]) = proc[p].pc
  BY NothingToPut DEF Moves, InCall
<1>3. ~Gone(proc[p]) /\ cwd[p] # 0 /\ cwd \in [Procs -> Slots \cup {0}]
  BY <1>2 DEF Moves, InCall, Gone, MInv, OwnsOK, MemTypes
<1>4. Mine(p, r2)
  BY DEF Mine, Become, Moves
<1>5. Point(r2) = r2.pc /\ r2.pc \notin IputPcs /\ r2.pc \notin FreePcs
  BY DEF Point, IputPcs, FreePcs, Moves
<1>6. Shape(r2)
  BY <1>0, <1>1, <1>5 DEF Shape, Moves, Slots
<1>7. Stepping(p, r2)
  BY <1>0, <1>1, <1>3, <1>4, <1>5, <1>6 DEF Stepping, Gone, Moves
<1>8. Sets(p, r2, c)
  BY <1>0, <1>5 DEF Sets, SetsAt, Locks, Moves
<1>q. QED BY <1>1, <1>2, <1>7, <1>8

(* A step inside a call that takes and drops no reference keeps MInv. *)
LEMMA MoveStep ==
    ASSUME MInv, NEW p, NEW r2, Moves(p, r2, icache'),
           \A t \in Slots : One(r2.n, t) + One(r2.ip, t) + One(r2.dp, t)
                            = One(proc[p].n, t) + One(proc[p].ip, t) + One(proc[p].dp, t)
    PROVE  MInv'
<1>1. /\ Stepping(p, r2) /\ Sets(p, r2, icache')
      /\ Put(r2, 1) = 0 /\ Put(r2, 2) = 0
      /\ Put(proc[p], 1) = 0 /\ Put(proc[p], 2) = 0
  BY MovesStepping
<1>2. SameHoldings(p, r2)
  BY <1>1 DEF SameHoldings, Weight, One, Slots, Moves
<1>q. QED BY <1>1, <1>2, KeepStep DEF Moves, InCall

(* A step inside a call that takes one reference with iget() keeps MInv. *)
LEMMA MoveGotStep ==
    ASSUME MInv, NEW p, NEW r2, NEW c, Moves(p, r2, c),
           NEW inum \in Inums, NEW u, Slot4(u, inum), icache' = Got(c, u, inum),
           \A t \in Slots : One(r2.n, t) + One(r2.ip, t) + One(r2.dp, t)
                            = One(proc[p].n, t) + One(proc[p].ip, t) + One(proc[p].dp, t) + One(u, t)
    PROVE  MInv'
<1>1. /\ Stepping(p, r2) /\ Sets(p, r2, c)
      /\ Put(r2, 1) = 0 /\ Put(r2, 2) = 0
      /\ Put(proc[p], 1) = 0 /\ Put(proc[p], 2) = 0
  BY MovesStepping
<1>2. MoreHoldings(p, r2, u)
  BY <1>1 DEF MoreHoldings, Weight, One, Slots, Moves
<1>q. QED BY <1>1, <1>2, GotStep DEF Moves, InCall

(* Contents i for slot s that differ in what the disk knows, with lock l. *)
Like(i, s, l) ==
    i \in SlotRecords /\ i.ref = icache[s].ref /\ i.inum = icache[s].inum /\ i.lock = l

(* The slots of a call, and what may be done to them. *)
Usable(s) == s \in Slots /\ icache[s].ref > 0 /\ icache[s].inum \in Inums /\ icache[s] \in SlotRecords

(* An inode that a process has a reference to is cached and counted. *)
LEMMA HeldUsable ==
    ASSUME MInv, NEW p \in Procs, NEW s \in Slots,
           s \in {proc[p].n, proc[p].ip, proc[p].dp, Put(proc[p], 1), Put(proc[p], 2), cwd[p]}
    PROVE  Usable(s)
BY Held DEF Usable

(* ilock() fills a slot from the disk: its number, count and lock stay. *)
LEMMA LikeLoaded ==
    ASSUME DiskTypes, NEW s, Usable(s)
    PROVE  Like(Loaded(s), s, icache[s].lock) /\ Like(icache[s], s, icache[s].lock)
BY LoadedFields DEF Usable, Like

(* The slot that ilock() leaves locked has the same number and count. *)
LEMMA LikeLocked ==
    ASSUME DiskTypes, NEW s, Usable(s), NEW p \in Procs
    PROVE  Like(Locked(s, p), s, p)
BY LoadedFields, LockFields DEF Usable, Like, Locked

(* iunlock() keeps the number and the count. *)
LEMMA LikeUnlocked ==
    ASSUME NEW i, NEW s, NEW l, Like(i, s, l)
    PROVE  Like(Unlocked(i), s, nullptr)
BY LockFields DEF Like, Unlocked

(* A new link count changes no other field of a slot. *)
LEMMA NlinkFields ==
    ASSUME NEW i \in SlotRecords, NEW n \in Int
    PROVE  /\ [i EXCEPT !.nlink = n] \in SlotRecords
           /\ [i EXCEPT !.nlink = n].ref = i.ref
           /\ [i EXCEPT !.nlink = n].inum = i.inum
           /\ [i EXCEPT !.nlink = n].valid = i.valid
           /\ [i EXCEPT !.nlink = n].type = i.type
           /\ [i EXCEPT !.nlink = n].nlink = n
           /\ [i EXCEPT !.nlink = n].blk = i.blk
           /\ [i EXCEPT !.nlink = n].lock = i.lock
BY DEF SlotRecords

(* One link more or less keeps the number, the count and the lock. *)
LEMMA LikeNlink ==
    ASSUME NEW i, NEW s, NEW l, Like(i, s, l)
    PROVE  Like([i EXCEPT !.nlink = @ - 1], s, l) /\ Like([i EXCEPT !.nlink = @ + 1], s, l)
<1>1. i.nlink \in Int
  BY DEF Like, SlotRecords
<1>2. i.nlink - 1 \in Int /\ i.nlink + 1 \in Int
  BY <1>1
<1>q. QED BY <1>2, NlinkFields DEF Like

(* A new block changes no other field of a slot. *)
LEMMA BlkFields ==
    ASSUME NEW i \in SlotRecords, NEW b \in Blocks \cup {0}
    PROVE  /\ [i EXCEPT !.blk = b] \in SlotRecords
           /\ [i EXCEPT !.blk = b].ref = i.ref
           /\ [i EXCEPT !.blk = b].inum = i.inum
           /\ [i EXCEPT !.blk = b].valid = i.valid
           /\ [i EXCEPT !.blk = b].type = i.type
           /\ [i EXCEPT !.blk = b].nlink = i.nlink
           /\ [i EXCEPT !.blk = b].blk = b
           /\ [i EXCEPT !.blk = b].lock = i.lock
BY DEF SlotRecords

(* A new block keeps the number, the count and the lock. *)
LEMMA LikeBlk ==
    ASSUME NEW i, NEW s, NEW l, Like(i, s, l), NEW b \in Blocks \cup {0}
    PROVE  Like([i EXCEPT !.blk = b], s, l)
BY BlkFields DEF Like

(* SetsAtOne for a slot that keeps its number and its count, as the next     *)
(* cache and as an expression.                                               *)
LEMMA SetsAtLike ==
    ASSUME MInv, NEW p, InCall(p), NEW ip, NEW dp, NEW pt, NEW s \in Slots, NEW i, NEW l, Like(i, s, l),
           icache[s].lock \in {p, nullptr},
           l = IF LocksAt(ip, dp, pt, s) THEN p ELSE nullptr,
           \A t \in Slots \ {s} : LocksAt(ip, dp, pt, t) <=> LocksAt(proc[p].ip, proc[p].dp, proc[p].pc, t),
           SetSlot(s, i)
    PROVE  SetsAt(p, ip, dp, pt, icache') /\ SetsAt(p, ip, dp, pt, [icache EXCEPT ![s] = i])
BY SetsAtOne DEF Like, SetSlot

(* A call lets go of its ip, its dp, or of what namex() has reached. *)
LEMMA AwayIp ==
    ASSUME MInv, NEW p, InCall(p), NEW ret \in Rets, ret # "unused", proc[p].ip \in Slots,
           Become(p, IputThen([proc[p] EXCEPT !.ip = 0], <<proc[p].ip>>, ret)),
           UNCHANGED <<ofile, ftable, cwd>>,
           Fits(proc[p].n, 0, proc[p].dp, proc[p].call.op, proc[p].ino, ret),
           SetsAt(p, 0, proc[p].dp, ret, icache')
    PROVE  MInv'
<1>1. proc[p] \in Records
  BY DEF MInv, Shapes, InCall
<1>2. PICK r1 \in Records : r1 = [proc[p] EXCEPT !.ip = 0]
  BY <1>1, DropFields
<1>3. r1.n = proc[p].n /\ r1.ip = 0 /\ r1.dp = proc[p].dp /\ r1.call = proc[p].call /\ r1.ino = proc[p].ino /\ r1.rest = proc[p].rest
  BY <1>1, <1>2, DropFields
<1>6. Named(r1)
  BY <1>3, NothingToPut DEF Named, LastOf, WantsParent, InCall
<1>4. Enters(p, r1, proc[p].ip, ret, icache')
  BY <1>2, <1>3, <1>6 DEF Enters
<1>5. \A t \in Slots : One(r1.n, t) + One(r1.ip, t) + One(r1.dp, t) + One(proc[p].ip, t)
                       = One(proc[p].n, t) + One(proc[p].ip, t) + One(proc[p].dp, t)
  BY <1>3 DEF One, Slots
<1>q. QED BY <1>4, <1>5, AwayStep

(* A call that iput()s its directory and goes on without it keeps MInv. *)
LEMMA AwayDp ==
    ASSUME MInv, NEW p, InCall(p), NEW ret \in Rets, ret # "unused", proc[p].dp \in Slots,
           Become(p, IputThen([proc[p] EXCEPT !.dp = 0], <<proc[p].dp>>, ret)),
           UNCHANGED <<ofile, ftable, cwd>>,
           Fits(proc[p].n, proc[p].ip, 0, proc[p].call.op, proc[p].ino, ret),
           SetsAt(p, proc[p].ip, 0, ret, icache')
    PROVE  MInv'
<1>1. proc[p] \in Records
  BY DEF MInv, Shapes, InCall
<1>2. PICK r1 \in Records : r1 = [proc[p] EXCEPT !.dp = 0]
  BY <1>1, DropFields
<1>3. r1.n = proc[p].n /\ r1.ip = proc[p].ip /\ r1.dp = 0 /\ r1.call = proc[p].call /\ r1.ino = proc[p].ino /\ r1.rest = proc[p].rest
  BY <1>1, <1>2, DropFields
<1>6. Named(r1)
  BY <1>3, NothingToPut DEF Named, LastOf, WantsParent, InCall
<1>4. Enters(p, r1, proc[p].dp, ret, icache')
  BY <1>2, <1>3, <1>6 DEF Enters
<1>5. \A t \in Slots : One(r1.n, t) + One(r1.ip, t) + One(r1.dp, t) + One(proc[p].dp, t)
                       = One(proc[p].n, t) + One(proc[p].ip, t) + One(proc[p].dp, t)
  BY <1>3 DEF One, Slots
<1>q. QED BY <1>4, <1>5, AwayStep

(* namex() that iput()s the inode it has reached and gives up keeps MInv. *)
LEMMA AwayN ==
    ASSUME MInv, NEW p, InCall(p), NEW ret \in Rets, ret # "unused", proc[p].n \in Slots,
           Become(p, IputThen([proc[p] EXCEPT !.n = 0], <<proc[p].n>>, ret)),
           UNCHANGED <<ofile, ftable, cwd>>,
           Fits(0, proc[p].ip, proc[p].dp, proc[p].call.op, proc[p].ino, ret),
           SetsAt(p, proc[p].ip, proc[p].dp, ret, icache')
    PROVE  MInv'
<1>1. proc[p] \in Records
  BY DEF MInv, Shapes, InCall
<1>2. PICK r1 \in Records : r1 = [proc[p] EXCEPT !.n = 0]
  BY <1>1, DropFields
<1>3. r1.n = 0 /\ r1.ip = proc[p].ip /\ r1.dp = proc[p].dp /\ r1.call = proc[p].call /\ r1.ino = proc[p].ino /\ r1.rest = proc[p].rest
  BY <1>1, <1>2, DropFields
<1>6. Named(r1)
  BY <1>3, NothingToPut DEF Named, LastOf, WantsParent, InCall
<1>4. Enters(p, r1, proc[p].n, ret, icache')
  BY <1>2, <1>3, <1>6 DEF Enters
<1>5. \A t \in Slots : One(r1.n, t) + One(r1.ip, t) + One(r1.dp, t) + One(proc[p].n, t)
                       = One(proc[p].n, t) + One(proc[p].ip, t) + One(proc[p].dp, t)
  BY <1>3 DEF One, Slots
<1>q. QED BY <1>4, <1>5, AwayStep

(* A call goes on with what it has. *)
LEMMA GoesOn ==
    ASSUME MInv, NEW p, InCall(p), NEW pc \in Points, pc \notin IputPcs \cup {"unused", "write"},
           Become(p, Goto(p, pc)),
           UNCHANGED <<ofile, ftable, cwd>>,
           Fits(proc[p].n, proc[p].ip, proc[p].dp, proc[p].call.op, proc[p].ino, pc),
           SetsAt(p, proc[p].ip, proc[p].dp, pc, icache')
    PROVE  MInv'
<1>1. proc[p] \in Records /\ proc[p].puts = <<>>
  BY NothingToPut DEF InCall
<1>2. PICK r2 : r2 = [proc[p] EXCEPT !.pc = pc]
  OBVIOUS
<1>3. /\ r2 \in Records
      /\ r2.pc = pc /\ r2.puts = proc[p].puts /\ r2.call = proc[p].call /\ r2.rest = proc[p].rest
      /\ r2.n = proc[p].n /\ r2.ip = proc[p].ip /\ r2.dp = proc[p].dp /\ r2.ino = proc[p].ino
  BY <1>1, <1>2, GotoFields
<1>5. Named(r2)
  BY <1>3, NothingToPut DEF Named, LastOf, WantsParent, InCall
<1>4. Moves(p, r2, icache')
  BY <1>1, <1>2, <1>3, <1>5 DEF Moves, Goto
<1>q. QED BY <1>3, <1>4, MoveStep

(* Where a call of iput() comes back to. *)
LEMMA RetsAre ==
    /\ Rets \subseteq Points
    /\ \A s \in {"user", "namex", "create_exists", "open_fd", "create_done", "unlink_dec", "unlink_bad",
                 "link_taken", "link_bad"} : s \in Rets /\ s # "unused"
BY DEF Rets, Points, IpPoints, DpPoints, CreateIp, CreateDir, LinkIp

(* The locks of a process in a call. *)
LEMMA CallLocks ==
    ASSUME MInv, NEW p, InCall(p), NEW s \in Slots
    PROVE  icache[s].lock = p <=> LocksAt(proc[p].ip, proc[p].dp, proc[p].pc, s)
<1>1. proc[p].pc \notin FreePcs /\ Point(proc[p]) = proc[p].pc
  BY DEF InCall, IputPcs, FreePcs, Point
<1>q. QED BY <1>1 DEF MInv, LocksOK, Locks, InCall

(* create() on a name that is taken: the inode stays locked for open(), or   *)
(* is put.                                                                   *)
LEMMA CreateExistsR ==
    ASSUME RInv, NEW p \in Procs, CreateExists(p)
    PROVE  MInv'
<1> DEFINE r == proc[p]
<1>0. MInv /\ DiskTypes /\ InCall(p) /\ r.pc = "create_exists"
  BY DEF RInv, CreateExists, At, InCall, IputPcs
<1>1. Fits(r.n, r.ip, r.dp, r.call.op, r.ino, "create_exists") /\ r \in Records
  BY <1>0, NothingToPut DEF InCall
<1>2. r.n = 0 /\ r.ip \in Slots /\ r.dp = 0 /\ r.ino = 0
  BY <1>1 DEF Records, Fits, OpAt, IpPoints, DpPoints, CreateIp, CreateDir, Creating, LinkIp, IpLocked, DpLocked, PathOps
<1>3. Usable(r.ip)
  BY <1>0, <1>2, HeldUsable
<1>4. UNCHANGED <<ofile, ftable, cwd>>
  BY DEF CreateExists
<1>5. icache[r.ip].lock = nullptr
  BY <1>0, <1>2, CallLocks DEF CreateExists, CanLock, LocksAt, IpPoints, DpPoints, CreateIp, CreateDir, LinkIp, IpLocked, DpLocked
<1>6. CASE TypeOf(r.call.op) = "file" /\ Loaded(r.ip).type = "file"
  <2>1. SetSlot(r.ip, Locked(r.ip, p)) /\ Become(p, Goto(p, "open_fd"))
    BY <1>6 DEF CreateExists
  <2>2. Like(Locked(r.ip, p), r.ip, p)
    BY <1>0, <1>3, <1>5, LikeLocked
  <2>3. Fits(r.n, r.ip, r.dp, r.call.op, r.ino, "open_fd")
    BY <1>1, <1>2 DEF Slots, Fits, OpAt, IpPoints, DpPoints, CreateIp, CreateDir, Creating, LinkIp, IpLocked, DpLocked, PathOps
  <2>4. /\ p = IF LocksAt(r.ip, r.dp, "open_fd", r.ip) THEN p ELSE nullptr
        /\ \A t \in Slots \ {r.ip} : LocksAt(r.ip, r.dp, "open_fd", t) <=> LocksAt(r.ip, r.dp, r.pc, t)
    BY <1>0, <1>2, Ext2Assumption DEF Slots, LocksAt, IpPoints, DpPoints, CreateIp, CreateDir, LinkIp, IpLocked, DpLocked
  <2>5. SetsAt(p, r.ip, r.dp, "open_fd", icache')
    BY <1>0, <1>2, <1>5, <2>1, <2>2, <2>4, SetsAtLike
  <2>6. "open_fd" \in Points /\ "open_fd" \notin IputPcs \cup {"unused", "write"}
    BY RetsAre DEF Points, IpPoints, DpPoints, CreateIp, CreateDir, LinkIp, IputPcs
  <2>q. QED BY <1>0, <1>2, <1>4, <2>1, <2>3, <2>5, <2>6, GoesOn
<1>7. CASE ~(TypeOf(r.call.op) = "file" /\ Loaded(r.ip).type = "file")
  <2>1. SetSlot(r.ip, Loaded(r.ip)) /\ Become(p, IputThen([r EXCEPT !.ip = 0], <<r.ip>>, "user"))
    BY <1>7 DEF CreateExists
  <2>2. Like(Loaded(r.ip), r.ip, nullptr)
    BY <1>0, <1>3, <1>5, LikeLoaded
  <2>3. Fits(r.n, 0, r.dp, r.call.op, r.ino, "user")
    BY <1>1, <1>2 DEF Slots, Fits, OpAt, IpPoints, DpPoints, CreateIp, CreateDir, Creating, LinkIp, IpLocked, DpLocked, PathOps
  <2>4. /\ nullptr = IF LocksAt(0, r.dp, "user", r.ip) THEN p ELSE nullptr
        /\ \A t \in Slots \ {r.ip} : LocksAt(0, r.dp, "user", t) <=> LocksAt(r.ip, r.dp, r.pc, t)
    BY <1>0, <1>2, Ext2Assumption DEF Slots, LocksAt, IpPoints, DpPoints, CreateIp, CreateDir, LinkIp, IpLocked, DpLocked
  <2>5. SetsAt(p, 0, r.dp, "user", icache')
    BY <1>0, <1>2, <1>5, <2>1, <2>2, <2>4, SetsAtLike
  <2>6. "user" \in Rets
    BY RetsAre DEF Points, IpPoints, DpPoints, CreateIp, CreateDir, LinkIp, IputPcs
  <2>q. QED BY <1>0, <1>2, <1>4, <2>1, <2>3, <2>5, <2>6, AwayIp
<1>q. QED BY <1>6, <1>7

(* mkdir() and mknod() unlock and put the new inode. *)
LEMMA CreateDoneR ==
    ASSUME RInv, NEW p \in Procs, CreateDone(p)
    PROVE  MInv'
<1> DEFINE r == proc[p]
<1>0. MInv /\ DiskTypes /\ InCall(p) /\ r.pc = "create_done"
  BY DEF RInv, CreateDone, At, InCall, IputPcs
<1>1. Fits(r.n, r.ip, r.dp, r.call.op, r.ino, "create_done") /\ r \in Records
  BY <1>0, NothingToPut DEF InCall
<1>2. r.n = 0 /\ r.ip \in Slots /\ r.dp = 0 /\ r.ino = 0
  BY <1>1 DEF Records, Fits, OpAt, IpPoints, DpPoints, CreateIp, CreateDir, Creating, LinkIp, IpLocked, DpLocked, PathOps
<1>3. Usable(r.ip)
  BY <1>0, <1>2, HeldUsable
<1>4. UNCHANGED <<ofile, ftable, cwd>>
  BY DEF CreateDone
<1>5. icache[r.ip].lock = p
  BY <1>0, <1>2, CallLocks DEF CreateDone, CanLock, LocksAt, IpPoints, DpPoints, CreateIp, CreateDir, LinkIp, IpLocked, DpLocked
<1>6. MInv'
  <2>1. SetSlot(r.ip, Unlocked(icache[r.ip])) /\ Become(p, IputThen([r EXCEPT !.ip = 0], <<r.ip>>, "user"))
    BY DEF CreateDone
  <2>2. Like(Unlocked(icache[r.ip]), r.ip, nullptr)
    BY <1>0, <1>3, <1>5, LikeLoaded, LikeUnlocked
  <2>3. Fits(r.n, 0, r.dp, r.call.op, r.ino, "user")
    BY <1>1, <1>2 DEF Slots, Fits, OpAt, IpPoints, DpPoints, CreateIp, CreateDir, Creating, LinkIp, IpLocked, DpLocked, PathOps
  <2>4. /\ nullptr = IF LocksAt(0, r.dp, "user", r.ip) THEN p ELSE nullptr
        /\ \A t \in Slots \ {r.ip} : LocksAt(0, r.dp, "user", t) <=> LocksAt(r.ip, r.dp, r.pc, t)
    BY <1>0, <1>2, Ext2Assumption DEF Slots, LocksAt, IpPoints, DpPoints, CreateIp, CreateDir, LinkIp, IpLocked, DpLocked
  <2>5. SetsAt(p, 0, r.dp, "user", icache')
    BY <1>0, <1>2, <1>5, <2>1, <2>2, <2>4, SetsAtLike
  <2>6. "user" \in Rets
    BY RetsAre DEF Points, IpPoints, DpPoints, CreateIp, CreateDir, LinkIp, IputPcs
  <2>q. QED BY <1>0, <1>2, <1>4, <2>1, <2>3, <2>5, <2>6, AwayIp
<1>q. QED BY <1>6

(* create() enters the name, and puts the directory. *)
LEMMA CreateLinkR ==
    ASSUME RInv, NEW p \in Procs, CreateLink(p)
    PROVE  MInv'
<1> DEFINE r == proc[p]
<1>0. MInv /\ DiskTypes /\ InCall(p) /\ r.pc = "create_link"
  BY DEF RInv, CreateLink, At, InCall, IputPcs
<1>1. Fits(r.n, r.ip, r.dp, r.call.op, r.ino, "create_link") /\ r \in Records
  BY <1>0, NothingToPut DEF InCall
<1>2. r.n = 0 /\ r.ip \in Slots /\ r.dp \in Slots /\ r.ino = 0 /\ r.ip # r.dp
  BY <1>1 DEF Records, Fits, OpAt, IpPoints, DpPoints, CreateIp, CreateDir, Creating, LinkIp, IpLocked, DpLocked, PathOps
<1>3. Usable(r.ip) /\ Usable(r.dp)
  BY <1>0, <1>2, HeldUsable
<1>4. UNCHANGED <<ofile, ftable, cwd>>
  BY DEF CreateLink
<1>5. icache[r.dp].lock = p
  BY <1>0, <1>2, CallLocks DEF CreateLink, CanLock, LocksAt, IpPoints, DpPoints, CreateIp, CreateDir, LinkIp, IpLocked, DpLocked
<1>6. CASE r.call.op = "creat"
  <2>1. SetSlot(r.dp, Unlocked(icache[r.dp])) /\ Become(p, IputThen([r EXCEPT !.dp = 0], <<r.dp>>, "open_fd"))
    BY <1>6 DEF CreateLink
  <2>2. Like(Unlocked(icache[r.dp]), r.dp, nullptr)
    BY <1>0, <1>3, <1>5, LikeLoaded, LikeUnlocked
  <2>3. Fits(r.n, r.ip, 0, r.call.op, r.ino, "open_fd")
    BY <1>1, <1>2 DEF Slots, Fits, OpAt, IpPoints, DpPoints, CreateIp, CreateDir, Creating, LinkIp, IpLocked, DpLocked, PathOps
  <2>4. /\ nullptr = IF LocksAt(r.ip, 0, "open_fd", r.dp) THEN p ELSE nullptr
        /\ \A t \in Slots \ {r.dp} : LocksAt(r.ip, 0, "open_fd", t) <=> LocksAt(r.ip, r.dp, r.pc, t)
    BY <1>0, <1>2, Ext2Assumption DEF Slots, LocksAt, IpPoints, DpPoints, CreateIp, CreateDir, LinkIp, IpLocked, DpLocked
  <2>5. SetsAt(p, r.ip, 0, "open_fd", icache')
    BY <1>0, <1>2, <1>5, <2>1, <2>2, <2>4, SetsAtLike
  <2>6. "open_fd" \in Rets
    BY RetsAre DEF Points, IpPoints, DpPoints, CreateIp, CreateDir, LinkIp, IputPcs
  <2>q. QED BY <1>0, <1>2, <1>4, <2>1, <2>3, <2>5, <2>6, AwayDp
<1>7. CASE r.call.op # "creat"
  <2>1. SetSlot(r.dp, Unlocked(icache[r.dp])) /\ Become(p, IputThen([r EXCEPT !.dp = 0], <<r.dp>>, "create_done"))
    BY <1>7 DEF CreateLink
  <2>2. Like(Unlocked(icache[r.dp]), r.dp, nullptr)
    BY <1>0, <1>3, <1>5, LikeLoaded, LikeUnlocked
  <2>3. Fits(r.n, r.ip, 0, r.call.op, r.ino, "create_done")
    BY <1>1, <1>2 DEF Slots, Fits, OpAt, IpPoints, DpPoints, CreateIp, CreateDir, Creating, LinkIp, IpLocked, DpLocked, PathOps
  <2>4. /\ nullptr = IF LocksAt(r.ip, 0, "create_done", r.dp) THEN p ELSE nullptr
        /\ \A t \in Slots \ {r.dp} : LocksAt(r.ip, 0, "create_done", t) <=> LocksAt(r.ip, r.dp, r.pc, t)
    BY <1>0, <1>2, Ext2Assumption DEF Slots, LocksAt, IpPoints, DpPoints, CreateIp, CreateDir, LinkIp, IpLocked, DpLocked
  <2>5. SetsAt(p, r.ip, 0, "create_done", icache')
    BY <1>0, <1>2, <1>5, <2>1, <2>2, <2>4, SetsAtLike
  <2>6. "create_done" \in Rets
    BY RetsAre DEF Points, IpPoints, DpPoints, CreateIp, CreateDir, LinkIp, IputPcs
  <2>q. QED BY <1>0, <1>2, <1>4, <2>1, <2>3, <2>5, <2>6, AwayDp
<1>q. QED BY <1>6, <1>7

(* unlink() drops the link, unlocks the inode and puts it. *)
LEMMA UnlinkDecR ==
    ASSUME RInv, NEW p \in Procs, UnlinkDec(p)
    PROVE  MInv'
<1> DEFINE r == proc[p]
<1>0. MInv /\ DiskTypes /\ InCall(p) /\ r.pc = "unlink_dec"
  BY DEF RInv, UnlinkDec, At, InCall, IputPcs
<1>1. Fits(r.n, r.ip, r.dp, r.call.op, r.ino, "unlink_dec") /\ r \in Records
  BY <1>0, NothingToPut DEF InCall
<1>2. r.n = 0 /\ r.ip \in Slots /\ r.dp = 0 /\ r.ino = 0
  BY <1>1 DEF Records, Fits, OpAt, IpPoints, DpPoints, CreateIp, CreateDir, Creating, LinkIp, IpLocked, DpLocked, PathOps
<1>3. Usable(r.ip)
  BY <1>0, <1>2, HeldUsable
<1>4. UNCHANGED <<ofile, ftable, cwd>>
  BY DEF UnlinkDec
<1>5. icache[r.ip].lock = p
  BY <1>0, <1>2, CallLocks DEF UnlinkDec, CanLock, LocksAt, IpPoints, DpPoints, CreateIp, CreateDir, LinkIp, IpLocked, DpLocked
<1>6. MInv'
  <2>1. SetSlot(r.ip, Unlocked([icache[r.ip] EXCEPT !.nlink = @ - 1])) /\ Become(p, IputThen([r EXCEPT !.ip = 0], <<r.ip>>, "user"))
    BY DEF UnlinkDec
  <2>2. Like(Unlocked([icache[r.ip] EXCEPT !.nlink = @ - 1]), r.ip, nullptr)
    BY <1>0, <1>3, <1>5, LikeLoaded, LikeNlink, LikeUnlocked
  <2>3. Fits(r.n, 0, r.dp, r.call.op, r.ino, "user")
    BY <1>1, <1>2 DEF Slots, Fits, OpAt, IpPoints, DpPoints, CreateIp, CreateDir, Creating, LinkIp, IpLocked, DpLocked, PathOps
  <2>4. /\ nullptr = IF LocksAt(0, r.dp, "user", r.ip) THEN p ELSE nullptr
        /\ \A t \in Slots \ {r.ip} : LocksAt(0, r.dp, "user", t) <=> LocksAt(r.ip, r.dp, r.pc, t)
    BY <1>0, <1>2, Ext2Assumption DEF Slots, LocksAt, IpPoints, DpPoints, CreateIp, CreateDir, LinkIp, IpLocked, DpLocked
  <2>5. SetsAt(p, 0, r.dp, "user", icache')
    BY <1>0, <1>2, <1>5, <2>1, <2>2, <2>4, SetsAtLike
  <2>6. "user" \in Rets
    BY RetsAre DEF Points, IpPoints, DpPoints, CreateIp, CreateDir, LinkIp, IputPcs
  <2>q. QED BY <1>0, <1>2, <1>4, <2>1, <2>3, <2>5, <2>6, AwayIp
<1>q. QED BY <1>6

(* unlink() of a directory drops the parent's link, and puts the parent. *)
LEMMA UnlinkParentR ==
    ASSUME RInv, NEW p \in Procs, UnlinkParent(p)
    PROVE  MInv'
<1> DEFINE r == proc[p]
<1>0. MInv /\ DiskTypes /\ InCall(p) /\ r.pc = "unlink_parent"
  BY DEF RInv, UnlinkParent, At, InCall, IputPcs
<1>1. Fits(r.n, r.ip, r.dp, r.call.op, r.ino, "unlink_parent") /\ r \in Records
  BY <1>0, NothingToPut DEF InCall
<1>2. r.n = 0 /\ r.ip \in Slots /\ r.dp \in Slots /\ r.ino = 0 /\ r.ip # r.dp
  BY <1>1 DEF Records, Fits, OpAt, IpPoints, DpPoints, CreateIp, CreateDir, Creating, LinkIp, IpLocked, DpLocked, PathOps
<1>3. Usable(r.ip) /\ Usable(r.dp)
  BY <1>0, <1>2, HeldUsable
<1>4. UNCHANGED <<ofile, ftable, cwd>>
  BY DEF UnlinkParent
<1>5. icache[r.dp].lock = p
  BY <1>0, <1>2, CallLocks DEF UnlinkParent, CanLock, LocksAt, IpPoints, DpPoints, CreateIp, CreateDir, LinkIp, IpLocked, DpLocked
<1>6. MInv'
  <2>1. SetSlot(r.dp, Unlocked([icache[r.dp] EXCEPT !.nlink = @ - 1])) /\ Become(p, IputThen([r EXCEPT !.dp = 0], <<r.dp>>, "unlink_dec"))
    BY DEF UnlinkParent
  <2>2. Like(Unlocked([icache[r.dp] EXCEPT !.nlink = @ - 1]), r.dp, nullptr)
    BY <1>0, <1>3, <1>5, LikeLoaded, LikeNlink, LikeUnlocked
  <2>3. Fits(r.n, r.ip, 0, r.call.op, r.ino, "unlink_dec")
    BY <1>1, <1>2 DEF Slots, Fits, OpAt, IpPoints, DpPoints, CreateIp, CreateDir, Creating, LinkIp, IpLocked, DpLocked, PathOps
  <2>4. /\ nullptr = IF LocksAt(r.ip, 0, "unlink_dec", r.dp) THEN p ELSE nullptr
        /\ \A t \in Slots \ {r.dp} : LocksAt(r.ip, 0, "unlink_dec", t) <=> LocksAt(r.ip, r.dp, r.pc, t)
    BY <1>0, <1>2, Ext2Assumption DEF Slots, LocksAt, IpPoints, DpPoints, CreateIp, CreateDir, LinkIp, IpLocked, DpLocked
  <2>5. SetsAt(p, r.ip, 0, "unlink_dec", icache')
    BY <1>0, <1>2, <1>5, <2>1, <2>2, <2>4, SetsAtLike
  <2>6. "unlink_dec" \in Rets
    BY RetsAre DEF Points, IpPoints, DpPoints, CreateIp, CreateDir, LinkIp, IputPcs
  <2>q. QED BY <1>0, <1>2, <1>4, <2>1, <2>3, <2>5, <2>6, AwayDp
<1>q. QED BY <1>6

(* unlink() that fails unlocks and puts the directory. *)
LEMMA UnlinkBadR ==
    ASSUME RInv, NEW p \in Procs, UnlinkBad(p)
    PROVE  MInv'
<1> DEFINE r == proc[p]
<1>0. MInv /\ DiskTypes /\ InCall(p) /\ r.pc = "unlink_bad"
  BY DEF RInv, UnlinkBad, At, InCall, IputPcs
<1>1. Fits(r.n, r.ip, r.dp, r.call.op, r.ino, "unlink_bad") /\ r \in Records
  BY <1>0, NothingToPut DEF InCall
<1>2. r.n = 0 /\ r.ip = 0 /\ r.dp \in Slots /\ r.ino = 0
  BY <1>1 DEF Records, Fits, OpAt, IpPoints, DpPoints, CreateIp, CreateDir, Creating, LinkIp, IpLocked, DpLocked, PathOps
<1>3. Usable(r.dp)
  BY <1>0, <1>2, HeldUsable
<1>4. UNCHANGED <<ofile, ftable, cwd>>
  BY DEF UnlinkBad
<1>5. icache[r.dp].lock = p
  BY <1>0, <1>2, CallLocks DEF UnlinkBad, CanLock, LocksAt, IpPoints, DpPoints, CreateIp, CreateDir, LinkIp, IpLocked, DpLocked
<1>6. MInv'
  <2>1. SetSlot(r.dp, Unlocked(icache[r.dp])) /\ Become(p, IputThen([r EXCEPT !.dp = 0], <<r.dp>>, "user"))
    BY DEF UnlinkBad
  <2>2. Like(Unlocked(icache[r.dp]), r.dp, nullptr)
    BY <1>0, <1>3, <1>5, LikeLoaded, LikeUnlocked
  <2>3. Fits(r.n, r.ip, 0, r.call.op, r.ino, "user")
    BY <1>1, <1>2 DEF Slots, Fits, OpAt, IpPoints, DpPoints, CreateIp, CreateDir, Creating, LinkIp, IpLocked, DpLocked, PathOps
  <2>4. /\ nullptr = IF LocksAt(r.ip, 0, "user", r.dp) THEN p ELSE nullptr
        /\ \A t \in Slots \ {r.dp} : LocksAt(r.ip, 0, "user", t) <=> LocksAt(r.ip, r.dp, r.pc, t)
    BY <1>0, <1>2, Ext2Assumption DEF Slots, LocksAt, IpPoints, DpPoints, CreateIp, CreateDir, LinkIp, IpLocked, DpLocked
  <2>5. SetsAt(p, r.ip, 0, "user", icache')
    BY <1>0, <1>2, <1>5, <2>1, <2>2, <2>4, SetsAtLike
  <2>6. "user" \in Rets
    BY RetsAre DEF Points, IpPoints, DpPoints, CreateIp, CreateDir, LinkIp, IputPcs
  <2>q. QED BY <1>0, <1>2, <1>4, <2>1, <2>3, <2>5, <2>6, AwayDp
<1>q. QED BY <1>6

(* link() to a name that is taken unlocks and puts the directory. *)
LEMMA LinkTakenR ==
    ASSUME RInv, NEW p \in Procs, LinkTaken(p)
    PROVE  MInv'
<1> DEFINE r == proc[p]
<1>0. MInv /\ DiskTypes /\ InCall(p) /\ r.pc = "link_taken"
  BY DEF RInv, LinkTaken, At, InCall, IputPcs
<1>1. Fits(r.n, r.ip, r.dp, r.call.op, r.ino, "link_taken") /\ r \in Records
  BY <1>0, NothingToPut DEF InCall
<1>2. r.n = 0 /\ r.ip \in Slots /\ r.dp \in Slots /\ r.ino = 0
  BY <1>1 DEF Records, Fits, OpAt, IpPoints, DpPoints, CreateIp, CreateDir, Creating, LinkIp, IpLocked, DpLocked, PathOps
<1>3. Usable(r.dp)
  BY <1>0, <1>2, HeldUsable
<1>4. UNCHANGED <<ofile, ftable, cwd>>
  BY DEF LinkTaken
<1>5. icache[r.dp].lock = p
  BY <1>0, <1>2, CallLocks DEF LinkTaken, CanLock, LocksAt, IpPoints, DpPoints, CreateIp, CreateDir, LinkIp, IpLocked, DpLocked
<1>6. MInv'
  <2>1. SetSlot(r.dp, Unlocked(icache[r.dp])) /\ Become(p, IputThen([r EXCEPT !.dp = 0], <<r.dp>>, "link_bad"))
    BY DEF LinkTaken
  <2>2. Like(Unlocked(icache[r.dp]), r.dp, nullptr)
    BY <1>0, <1>3, <1>5, LikeLoaded, LikeUnlocked
  <2>3. Fits(r.n, r.ip, 0, r.call.op, r.ino, "link_bad")
    BY <1>1, <1>2 DEF Slots, Fits, OpAt, IpPoints, DpPoints, CreateIp, CreateDir, Creating, LinkIp, IpLocked, DpLocked, PathOps
  <2>4. /\ nullptr = IF LocksAt(r.ip, 0, "link_bad", r.dp) THEN p ELSE nullptr
        /\ \A t \in Slots \ {r.dp} : LocksAt(r.ip, 0, "link_bad", t) <=> LocksAt(r.ip, r.dp, r.pc, t)
    BY <1>0, <1>2, Ext2Assumption DEF Slots, LocksAt, IpPoints, DpPoints, CreateIp, CreateDir, LinkIp, IpLocked, DpLocked
  <2>5. SetsAt(p, r.ip, 0, "link_bad", icache')
    BY <1>0, <1>2, <1>5, <2>1, <2>2, <2>4, SetsAtLike
  <2>6. "link_bad" \in Rets
    BY RetsAre DEF Points, IpPoints, DpPoints, CreateIp, CreateDir, LinkIp, IputPcs
  <2>q. QED BY <1>0, <1>2, <1>4, <2>1, <2>3, <2>5, <2>6, AwayDp
<1>q. QED BY <1>6

(* link() that fails takes the count back and puts the inode. *)
LEMMA LinkBadR ==
    ASSUME RInv, NEW p \in Procs, LinkBad(p)
    PROVE  MInv'
<1> DEFINE r == proc[p]
<1>0. MInv /\ DiskTypes /\ InCall(p) /\ r.pc = "link_bad"
  BY DEF RInv, LinkBad, At, InCall, IputPcs
<1>1. Fits(r.n, r.ip, r.dp, r.call.op, r.ino, "link_bad") /\ r \in Records
  BY <1>0, NothingToPut DEF InCall
<1>2. r.n = 0 /\ r.ip \in Slots /\ r.dp = 0 /\ r.ino = 0
  BY <1>1 DEF Records, Fits, OpAt, IpPoints, DpPoints, CreateIp, CreateDir, Creating, LinkIp, IpLocked, DpLocked, PathOps
<1>3. Usable(r.ip)
  BY <1>0, <1>2, HeldUsable
<1>4. UNCHANGED <<ofile, ftable, cwd>>
  BY DEF LinkBad
<1>5. icache[r.ip].lock = nullptr
  BY <1>0, <1>2, CallLocks DEF LinkBad, CanLock, LocksAt, IpPoints, DpPoints, CreateIp, CreateDir, LinkIp, IpLocked, DpLocked
<1>6. MInv'
  <2>1. SetSlot(r.ip, [Loaded(r.ip) EXCEPT !.nlink = @ - 1]) /\ Become(p, IputThen([r EXCEPT !.ip = 0], <<r.ip>>, "user"))
    BY DEF LinkBad
  <2>2. Like([Loaded(r.ip) EXCEPT !.nlink = @ - 1], r.ip, nullptr)
    BY <1>0, <1>3, <1>5, LikeLoaded, LikeNlink
  <2>3. Fits(r.n, 0, r.dp, r.call.op, r.ino, "user")
    BY <1>1, <1>2 DEF Slots, Fits, OpAt, IpPoints, DpPoints, CreateIp, CreateDir, Creating, LinkIp, IpLocked, DpLocked, PathOps
  <2>4. /\ nullptr = IF LocksAt(0, r.dp, "user", r.ip) THEN p ELSE nullptr
        /\ \A t \in Slots \ {r.ip} : LocksAt(0, r.dp, "user", t) <=> LocksAt(r.ip, r.dp, r.pc, t)
    BY <1>0, <1>2, Ext2Assumption DEF Slots, LocksAt, IpPoints, DpPoints, CreateIp, CreateDir, LinkIp, IpLocked, DpLocked
  <2>5. SetsAt(p, 0, r.dp, "user", icache')
    BY <1>0, <1>2, <1>5, <2>1, <2>2, <2>4, SetsAtLike
  <2>6. "user" \in Rets
    BY RetsAre DEF Points, IpPoints, DpPoints, CreateIp, CreateDir, LinkIp, IputPcs
  <2>q. QED BY <1>0, <1>2, <1>4, <2>1, <2>3, <2>5, <2>6, AwayIp
<1>q. QED BY <1>6

(* link() keeps the inode unlocked for the lookup, or puts a directory. *)
LEMMA LinkIncR ==
    ASSUME RInv, NEW p \in Procs, LinkInc(p)
    PROVE  MInv'
<1> DEFINE r == proc[p]
<1>0. MInv /\ DiskTypes /\ InCall(p) /\ r.pc = "link"
  BY DEF RInv, LinkInc, At, InCall, IputPcs
<1>1. Fits(r.n, r.ip, r.dp, r.call.op, r.ino, "link") /\ r \in Records
  BY <1>0, NothingToPut DEF InCall
<1>2. r.n = 0 /\ r.ip \in Slots /\ r.dp = 0 /\ r.ino = 0 /\ r.call.op = "link"
  BY <1>1 DEF Records, Fits, OpAt, IpPoints, DpPoints, CreateIp, CreateDir, Creating, LinkIp, IpLocked, DpLocked, PathOps
<1>3. Usable(r.ip)
  BY <1>0, <1>2, HeldUsable
<1>4. UNCHANGED <<ofile, ftable, cwd>>
  BY DEF LinkInc
<1>5. icache[r.ip].lock = nullptr
  BY <1>0, <1>2, CallLocks DEF LinkInc, CanLock, LocksAt, IpPoints, DpPoints, CreateIp, CreateDir, LinkIp, IpLocked, DpLocked
<1>6. CASE Loaded(r.ip).type = "dir"
  <2>1. SetSlot(r.ip, Loaded(r.ip)) /\ Become(p, IputThen([r EXCEPT !.ip = 0], <<r.ip>>, "user"))
    BY <1>6 DEF LinkInc
  <2>2. Like(Loaded(r.ip), r.ip, nullptr)
    BY <1>0, <1>3, <1>5, LikeLoaded
  <2>3. Fits(r.n, 0, r.dp, r.call.op, r.ino, "user")
    BY <1>1, <1>2 DEF Slots, Fits, OpAt, IpPoints, DpPoints, CreateIp, CreateDir, Creating, LinkIp, IpLocked, DpLocked, PathOps
  <2>4. /\ nullptr = IF LocksAt(0, r.dp, "user", r.ip) THEN p ELSE nullptr
        /\ \A t \in Slots \ {r.ip} : LocksAt(0, r.dp, "user", t) <=> LocksAt(r.ip, r.dp, r.pc, t)
    BY <1>0, <1>2, Ext2Assumption DEF Slots, LocksAt, IpPoints, DpPoints, CreateIp, CreateDir, LinkIp, IpLocked, DpLocked
  <2>5. SetsAt(p, 0, r.dp, "user", icache')
    BY <1>0, <1>2, <1>5, <2>1, <2>2, <2>4, SetsAtLike
  <2>6. "user" \in Rets
    BY RetsAre DEF Points, IpPoints, DpPoints, CreateIp, CreateDir, LinkIp, IputPcs
  <2>q. QED BY <1>0, <1>2, <1>4, <2>1, <2>3, <2>5, <2>6, AwayIp
<1>7. CASE Loaded(r.ip).type # "dir"
  <2>1. SetSlot(r.ip, [Loaded(r.ip) EXCEPT !.nlink = @ + 1]) /\ Become(p, Goto(p, "link_new"))
    BY <1>7 DEF LinkInc
  <2>2. Like([Loaded(r.ip) EXCEPT !.nlink = @ + 1], r.ip, nullptr)
    BY <1>0, <1>3, <1>5, LikeLoaded, LikeNlink
  <2>3. Fits(r.n, r.ip, r.dp, r.call.op, r.ino, "link_new")
    BY <1>1, <1>2 DEF Slots, Fits, OpAt, IpPoints, DpPoints, CreateIp, CreateDir, Creating, LinkIp, IpLocked, DpLocked, PathOps
  <2>4. /\ nullptr = IF LocksAt(r.ip, r.dp, "link_new", r.ip) THEN p ELSE nullptr
        /\ \A t \in Slots \ {r.ip} : LocksAt(r.ip, r.dp, "link_new", t) <=> LocksAt(r.ip, r.dp, r.pc, t)
    BY <1>0, <1>2, Ext2Assumption DEF Slots, LocksAt, IpPoints, DpPoints, CreateIp, CreateDir, LinkIp, IpLocked, DpLocked
  <2>5. SetsAt(p, r.ip, r.dp, "link_new", icache')
    BY <1>0, <1>2, <1>5, <2>1, <2>2, <2>4, SetsAtLike
  <2>6. "link_new" \in Points /\ "link_new" \notin IputPcs \cup {"unused", "write"}
    BY RetsAre DEF Points, IpPoints, DpPoints, CreateIp, CreateDir, LinkIp, IputPcs
  <2>q. QED BY <1>0, <1>2, <1>4, <2>1, <2>3, <2>5, <2>6, GoesOn
<1>q. QED BY <1>6, <1>7

(* A new type changes no other field of a slot. *)
LEMMA TypeFields ==
    ASSUME NEW i \in SlotRecords, NEW ty \in Types
    PROVE  /\ [i EXCEPT !.type = ty] \in SlotRecords
           /\ [i EXCEPT !.type = ty].ref = i.ref
           /\ [i EXCEPT !.type = ty].inum = i.inum
           /\ [i EXCEPT !.type = ty].valid = i.valid
           /\ [i EXCEPT !.type = ty].type = ty
           /\ [i EXCEPT !.type = ty].nlink = i.nlink
           /\ [i EXCEPT !.type = ty].blk = i.blk
           /\ [i EXCEPT !.type = ty].lock = i.lock
BY DEF SlotRecords

(* create() sets the type and the link count: number, count and lock stay. *)
LEMMA LikeNew ==
    ASSUME NEW i, NEW s, NEW l, Like(i, s, l), NEW op
    PROVE  Like([i EXCEPT !.type = TypeOf(op), !.nlink = 1], s, l)
<1>1. TypeOf(op) \in Types
  BY DEF TypeOf, Types
<1>2. PICK ty \in Types : ty = TypeOf(op)
  BY <1>1
<1>3. PICK j : j = [i EXCEPT !.type = ty]
  OBVIOUS
<1>4. Like(j, s, l)
  BY <1>3, TypeFields DEF Like
<1>5. Like([j EXCEPT !.nlink = 1], s, l)
  BY <1>4, NlinkFields DEF Like
<1>6. [j EXCEPT !.nlink = 1] = [i EXCEPT !.type = ty, !.nlink = 1]
  BY <1>3
<1>q. QED BY <1>2, <1>5, <1>6

(* create() locks the new inode below the directory. *)
LEMMA CreateInodeR ==
    ASSUME RInv, NEW p \in Procs, CreateInode(p)
    PROVE  MInv'
<1> DEFINE r == proc[p]
<1>0. MInv /\ DiskTypes /\ InCall(p) /\ r.pc = "create_inode"
  BY DEF RInv, CreateInode, At, InCall, IputPcs
<1>1. Fits(r.n, r.ip, r.dp, r.call.op, r.ino, "create_inode") /\ r \in Records
  BY <1>0, NothingToPut DEF InCall
<1>2. r.n = 0 /\ r.ip \in Slots /\ r.dp \in Slots /\ r.ino = 0 /\ r.call.op \in {"creat", "mkdir", "mknod"}
  BY <1>1 DEF Records, Fits, OpAt, IpPoints, DpPoints, CreateIp, CreateDir, Creating, LinkIp, IpLocked, DpLocked, PathOps
<1>3. Usable(r.ip) /\ Usable(r.dp)
  BY <1>0, <1>2, HeldUsable
<1>4. UNCHANGED <<ofile, ftable, cwd>>
  BY DEF CreateInode
<1>5. icache[r.ip].lock = nullptr /\ icache[r.dp].lock = p
  BY <1>0, <1>2, CallLocks DEF CreateInode, CanLock, LocksAt, IpPoints, DpPoints, CreateIp, CreateDir, LinkIp, IpLocked, DpLocked
<1>8. r.ip # r.dp
  BY <1>5, Ext2Assumption
<1>9. [Locked(r.ip, p) EXCEPT !.type = TypeOf(r.call.op), !.nlink = 1].type = TypeOf(r.call.op)
  BY <1>0, <1>3, LikeLocked DEF Like, SlotRecords
<1>6. CASE r.call.op = "mkdir"
  <2>1. SetSlot(r.ip, [Locked(r.ip, p) EXCEPT !.type = TypeOf(r.call.op), !.nlink = 1]) /\ Become(p, Goto(p, "create_parent"))
    BY <1>6, <1>9 DEF CreateInode, TypeOf
  <2>2. Like([Locked(r.ip, p) EXCEPT !.type = TypeOf(r.call.op), !.nlink = 1], r.ip, p)
    BY <1>0, <1>3, <1>5, LikeLocked, LikeNew
  <2>3. Fits(r.n, r.ip, r.dp, r.call.op, r.ino, "create_parent")
    BY <1>1, <1>2, <1>6, <1>8 DEF Slots, Fits, OpAt, IpPoints, DpPoints, CreateIp, CreateDir, Creating, LinkIp, IpLocked, DpLocked, PathOps
  <2>4. /\ p = IF LocksAt(r.ip, r.dp, "create_parent", r.ip) THEN p ELSE nullptr
        /\ \A t \in Slots \ {r.ip} : LocksAt(r.ip, r.dp, "create_parent", t) <=> LocksAt(r.ip, r.dp, r.pc, t)
    BY <1>0, <1>2, <1>8, Ext2Assumption DEF Slots, LocksAt, IpPoints, DpPoints, CreateIp, CreateDir, LinkIp, IpLocked, DpLocked
  <2>5. SetsAt(p, r.ip, r.dp, "create_parent", icache')
    BY <1>0, <1>2, <1>5, <2>1, <2>2, <2>4, SetsAtLike
  <2>6. "create_parent" \in Points /\ "create_parent" \notin IputPcs \cup {"unused", "write"}
    BY RetsAre DEF Points, IpPoints, DpPoints, CreateIp, CreateDir, LinkIp, IputPcs
  <2>q. QED BY <1>0, <1>2, <1>4, <2>1, <2>3, <2>5, <2>6, GoesOn
<1>7. CASE r.call.op # "mkdir"
  <2>1. SetSlot(r.ip, [Locked(r.ip, p) EXCEPT !.type = TypeOf(r.call.op), !.nlink = 1]) /\ Become(p, Goto(p, "create_link"))
    BY <1>7, <1>9 DEF CreateInode, TypeOf
  <2>2. Like([Locked(r.ip, p) EXCEPT !.type = TypeOf(r.call.op), !.nlink = 1], r.ip, p)
    BY <1>0, <1>3, <1>5, LikeLocked, LikeNew
  <2>3. Fits(r.n, r.ip, r.dp, r.call.op, r.ino, "create_link")
    BY <1>1, <1>2, <1>8 DEF Slots, Fits, OpAt, IpPoints, DpPoints, CreateIp, CreateDir, Creating, LinkIp, IpLocked, DpLocked, PathOps
  <2>4. /\ p = IF LocksAt(r.ip, r.dp, "create_link", r.ip) THEN p ELSE nullptr
        /\ \A t \in Slots \ {r.ip} : LocksAt(r.ip, r.dp, "create_link", t) <=> LocksAt(r.ip, r.dp, r.pc, t)
    BY <1>0, <1>2, <1>8, Ext2Assumption DEF Slots, LocksAt, IpPoints, DpPoints, CreateIp, CreateDir, LinkIp, IpLocked, DpLocked
  <2>5. SetsAt(p, r.ip, r.dp, "create_link", icache')
    BY <1>0, <1>2, <1>5, <2>1, <2>2, <2>4, SetsAtLike
  <2>6. "create_link" \in Points /\ "create_link" \notin IputPcs \cup {"unused", "write"}
    BY RetsAre DEF Points, IpPoints, DpPoints, CreateIp, CreateDir, LinkIp, IputPcs
  <2>q. QED BY <1>0, <1>2, <1>4, <2>1, <2>3, <2>5, <2>6, GoesOn
<1>q. QED BY <1>6, <1>7

(* mkdir() counts the new ".." in the parent, which stays locked. *)
LEMMA CreateParentR ==
    ASSUME RInv, NEW p \in Procs, CreateParent(p)
    PROVE  MInv'
<1> DEFINE r == proc[p]
<1>0. MInv /\ DiskTypes /\ InCall(p) /\ r.pc = "create_parent"
  BY DEF RInv, CreateParent, At, InCall, IputPcs
<1>1. Fits(r.n, r.ip, r.dp, r.call.op, r.ino, "create_parent") /\ r \in Records
  BY <1>0, NothingToPut DEF InCall
<1>2. r.n = 0 /\ r.ip \in Slots /\ r.dp \in Slots /\ r.ino = 0 /\ r.ip # r.dp
  BY <1>1 DEF Records, Fits, OpAt, IpPoints, DpPoints, CreateIp, CreateDir, Creating, LinkIp, IpLocked, DpLocked, PathOps
<1>3. Usable(r.ip) /\ Usable(r.dp)
  BY <1>0, <1>2, HeldUsable
<1>4. UNCHANGED <<ofile, ftable, cwd>>
  BY DEF CreateParent
<1>5. icache[r.dp].lock = p
  BY <1>0, <1>2, CallLocks DEF CreateParent, CanLock, LocksAt, IpPoints, DpPoints, CreateIp, CreateDir, LinkIp, IpLocked, DpLocked
<1>6. MInv'
  <2>1. SetSlot(r.dp, [icache[r.dp] EXCEPT !.nlink = @ + 1]) /\ Become(p, Goto(p, "create_block"))
    BY DEF CreateParent
  <2>2. Like([icache[r.dp] EXCEPT !.nlink = @ + 1], r.dp, p)
    BY <1>0, <1>3, <1>5, LikeLoaded, LikeNlink
  <2>3. Fits(r.n, r.ip, r.dp, r.call.op, r.ino, "create_block")
    BY <1>1, <1>2 DEF Slots, Fits, OpAt, IpPoints, DpPoints, CreateIp, CreateDir, Creating, LinkIp, IpLocked, DpLocked, PathOps
  <2>4. /\ p = IF LocksAt(r.ip, r.dp, "create_block", r.dp) THEN p ELSE nullptr
        /\ \A t \in Slots \ {r.dp} : LocksAt(r.ip, r.dp, "create_block", t) <=> LocksAt(r.ip, r.dp, r.pc, t)
    BY <1>0, <1>2, Ext2Assumption DEF Slots, LocksAt, IpPoints, DpPoints, CreateIp, CreateDir, LinkIp, IpLocked, DpLocked
  <2>5. SetsAt(p, r.ip, r.dp, "create_block", icache')
    BY <1>0, <1>2, <1>5, <2>1, <2>2, <2>4, SetsAtLike
  <2>6. "create_block" \in Points /\ "create_block" \notin IputPcs \cup {"unused", "write"}
    BY RetsAre DEF Points, IpPoints, DpPoints, CreateIp, CreateDir, LinkIp, IputPcs
  <2>q. QED BY <1>0, <1>2, <1>4, <2>1, <2>3, <2>5, <2>6, GoesOn
<1>q. QED BY <1>6

(* mkdir() enters ".". *)
LEMMA CreateDotR ==
    ASSUME RInv, NEW p \in Procs, CreateDot(p)
    PROVE  MInv'
<1> DEFINE r == proc[p]
<1>0. MInv /\ DiskTypes /\ InCall(p) /\ r.pc = "create_dot"
  BY DEF RInv, CreateDot, At, InCall, IputPcs
<1>1. Fits(r.n, r.ip, r.dp, r.call.op, r.ino, "create_dot") /\ r \in Records
  BY <1>0, NothingToPut DEF InCall
<1>2. r.n = 0 /\ r.ip \in Slots /\ r.dp \in Slots /\ r.ino = 0 /\ r.ip # r.dp
  BY <1>1 DEF Records, Fits, OpAt, IpPoints, DpPoints, CreateIp, CreateDir, Creating, LinkIp, IpLocked, DpLocked, PathOps
<1>3. Usable(r.ip) /\ Usable(r.dp)
  BY <1>0, <1>2, HeldUsable
<1>4. UNCHANGED <<ofile, ftable, cwd>>
  BY DEF CreateDot
<1>5. icache[r.dp].lock = p
  BY <1>0, <1>2, CallLocks DEF CreateDot, CanLock, LocksAt, IpPoints, DpPoints, CreateIp, CreateDir, LinkIp, IpLocked, DpLocked
<1>6. MInv'
  <2>1. icache' = icache /\ Become(p, Goto(p, "create_dotdot"))
    BY DEF CreateDot
  <2>2. Fits(r.n, r.ip, r.dp, r.call.op, r.ino, "create_dotdot")
    BY <1>1, <1>2 DEF Slots, Fits, OpAt, IpPoints, DpPoints, CreateIp, CreateDir, Creating, LinkIp, IpLocked, DpLocked, PathOps
  <2>3. \A t \in Slots : LocksAt(r.ip, r.dp, "create_dotdot", t) <=> LocksAt(r.ip, r.dp, r.pc, t)
    BY <1>0, <1>2 DEF Slots, LocksAt, IpPoints, DpPoints, CreateIp, CreateDir, LinkIp, IpLocked, DpLocked
  <2>4. SetsAt(p, r.ip, r.dp, "create_dotdot", icache')
    BY <1>0, <2>1, <2>3, SetsAtNone
  <2>5. "create_dotdot" \in Points /\ "create_dotdot" \notin IputPcs \cup {"unused", "write"}
    BY DEF Points, IpPoints, DpPoints, CreateIp, CreateDir, LinkIp, IputPcs
  <2>q. QED BY <1>0, <1>2, <1>4, <2>1, <2>2, <2>4, <2>5, GoesOn
<1>q. QED BY <1>6

(* mkdir() enters "..". *)
LEMMA CreateDotDotR ==
    ASSUME RInv, NEW p \in Procs, CreateDotDot(p)
    PROVE  MInv'
<1> DEFINE r == proc[p]
<1>0. MInv /\ DiskTypes /\ InCall(p) /\ r.pc = "create_dotdot"
  BY DEF RInv, CreateDotDot, At, InCall, IputPcs
<1>1. Fits(r.n, r.ip, r.dp, r.call.op, r.ino, "create_dotdot") /\ r \in Records
  BY <1>0, NothingToPut DEF InCall
<1>2. r.n = 0 /\ r.ip \in Slots /\ r.dp \in Slots /\ r.ino = 0 /\ r.ip # r.dp
  BY <1>1 DEF Records, Fits, OpAt, IpPoints, DpPoints, CreateIp, CreateDir, Creating, LinkIp, IpLocked, DpLocked, PathOps
<1>3. Usable(r.ip) /\ Usable(r.dp)
  BY <1>0, <1>2, HeldUsable
<1>4. UNCHANGED <<ofile, ftable, cwd>>
  BY DEF CreateDotDot
<1>5. icache[r.dp].lock = p
  BY <1>0, <1>2, CallLocks DEF CreateDotDot, CanLock, LocksAt, IpPoints, DpPoints, CreateIp, CreateDir, LinkIp, IpLocked, DpLocked
<1>6. MInv'
  <2>1. icache' = icache /\ Become(p, Goto(p, "create_link"))
    BY DEF CreateDotDot
  <2>2. Fits(r.n, r.ip, r.dp, r.call.op, r.ino, "create_link")
    BY <1>1, <1>2 DEF Slots, Fits, OpAt, IpPoints, DpPoints, CreateIp, CreateDir, Creating, LinkIp, IpLocked, DpLocked, PathOps
  <2>3. \A t \in Slots : LocksAt(r.ip, r.dp, "create_link", t) <=> LocksAt(r.ip, r.dp, r.pc, t)
    BY <1>0, <1>2 DEF Slots, LocksAt, IpPoints, DpPoints, CreateIp, CreateDir, LinkIp, IpLocked, DpLocked
  <2>4. SetsAt(p, r.ip, r.dp, "create_link", icache')
    BY <1>0, <2>1, <2>3, SetsAtNone
  <2>5. "create_link" \in Points /\ "create_link" \notin IputPcs \cup {"unused", "write"}
    BY DEF Points, IpPoints, DpPoints, CreateIp, CreateDir, LinkIp, IputPcs
  <2>q. QED BY <1>0, <1>2, <1>4, <2>1, <2>2, <2>4, <2>5, GoesOn
<1>q. QED BY <1>6

(* open() keeps the inode locked, or puts a directory that it may not write. *)
LEMMA OpenLockR ==
    ASSUME RInv, NEW p \in Procs, NEW op \in {"open", "openw"}, OpenLock(p, op)
    PROVE  MInv'
<1> DEFINE r == proc[p]
<1>0. MInv /\ DiskTypes /\ InCall(p) /\ r.pc = op
  BY DEF RInv, OpenLock, At, InCall, IputPcs
<1>1. Fits(r.n, r.ip, r.dp, r.call.op, r.ino, op) /\ r \in Records
  BY <1>0, NothingToPut DEF InCall
<1>2. r.n = 0 /\ r.ip \in Slots /\ r.dp = 0 /\ r.ino = 0
  BY <1>1 DEF Records, Fits, OpAt, IpPoints, DpPoints, CreateIp, CreateDir, Creating, LinkIp, IpLocked, DpLocked, PathOps
<1>3. Usable(r.ip)
  BY <1>0, <1>2, HeldUsable
<1>4. UNCHANGED <<ofile, ftable, cwd>>
  BY DEF OpenLock
<1>5. icache[r.ip].lock = nullptr
  BY <1>0, <1>2, CallLocks DEF OpenLock, CanLock, LocksAt, IpPoints, DpPoints, CreateIp, CreateDir, LinkIp, IpLocked, DpLocked
<1>6. CASE Loaded(r.ip).type = "dir" /\ op = "openw"
  <2>1. SetSlot(r.ip, Loaded(r.ip)) /\ Become(p, IputThen([r EXCEPT !.ip = 0], <<r.ip>>, "user"))
    BY <1>6 DEF OpenLock
  <2>2. Like(Loaded(r.ip), r.ip, nullptr)
    BY <1>0, <1>3, <1>5, LikeLoaded
  <2>3. Fits(r.n, 0, r.dp, r.call.op, r.ino, "user")
    BY <1>1, <1>2 DEF Slots, Fits, OpAt, IpPoints, DpPoints, CreateIp, CreateDir, Creating, LinkIp, IpLocked, DpLocked, PathOps
  <2>4. /\ nullptr = IF LocksAt(0, r.dp, "user", r.ip) THEN p ELSE nullptr
        /\ \A t \in Slots \ {r.ip} : LocksAt(0, r.dp, "user", t) <=> LocksAt(r.ip, r.dp, r.pc, t)
    BY <1>0, <1>2, Ext2Assumption DEF Slots, LocksAt, IpPoints, DpPoints, CreateIp, CreateDir, LinkIp, IpLocked, DpLocked
  <2>5. SetsAt(p, 0, r.dp, "user", icache')
    BY <1>0, <1>2, <1>5, <2>1, <2>2, <2>4, SetsAtLike
  <2>6. "user" \in Rets
    BY RetsAre DEF Points, IpPoints, DpPoints, CreateIp, CreateDir, LinkIp, IputPcs
  <2>q. QED BY <1>0, <1>2, <1>4, <2>1, <2>3, <2>5, <2>6, AwayIp
<1>7. CASE ~(Loaded(r.ip).type = "dir" /\ op = "openw")
  <2>1. SetSlot(r.ip, Locked(r.ip, p)) /\ Become(p, Goto(p, "open_fd"))
    BY <1>7 DEF OpenLock
  <2>2. Like(Locked(r.ip, p), r.ip, p)
    BY <1>0, <1>3, <1>5, LikeLocked
  <2>3. Fits(r.n, r.ip, r.dp, r.call.op, r.ino, "open_fd")
    BY <1>1, <1>2 DEF Slots, Fits, OpAt, IpPoints, DpPoints, CreateIp, CreateDir, Creating, LinkIp, IpLocked, DpLocked, PathOps
  <2>4. /\ p = IF LocksAt(r.ip, r.dp, "open_fd", r.ip) THEN p ELSE nullptr
        /\ \A t \in Slots \ {r.ip} : LocksAt(r.ip, r.dp, "open_fd", t) <=> LocksAt(r.ip, r.dp, r.pc, t)
    BY <1>0, <1>2, Ext2Assumption DEF Slots, LocksAt, IpPoints, DpPoints, CreateIp, CreateDir, LinkIp, IpLocked, DpLocked
  <2>5. SetsAt(p, r.ip, r.dp, "open_fd", icache')
    BY <1>0, <1>2, <1>5, <2>1, <2>2, <2>4, SetsAtLike
  <2>6. "open_fd" \in Points /\ "open_fd" \notin IputPcs \cup {"unused", "write"}
    BY RetsAre DEF Points, IpPoints, DpPoints, CreateIp, CreateDir, LinkIp, IputPcs
  <2>q. QED BY <1>0, <1>2, <1>4, <2>1, <2>3, <2>5, <2>6, GoesOn
<1>q. QED BY <1>6, <1>7

(* exit() begins. *)
LEMMA ExitR ==
    ASSUME RInv, NEW p \in Procs, Exit(p)
    PROVE  MInv'
<1> DEFINE r == proc[p]
<1>0. MInv /\ DiskTypes /\ InCall(p) /\ r.pc = "user"
  BY DEF RInv, Exit, At, InCall, IputPcs
<1>1. Fits(r.n, r.ip, r.dp, r.call.op, r.ino, "user") /\ r \in Records
  BY <1>0, NothingToPut DEF InCall
<1>2. r.n = 0 /\ r.ip = 0 /\ r.dp = 0 /\ r.ino = 0
  BY <1>1 DEF Records, Fits, OpAt, IpPoints, DpPoints, CreateIp, CreateDir, Creating, LinkIp, IpLocked, DpLocked, PathOps
<1>4. UNCHANGED <<ofile, ftable, cwd>>
  BY DEF Exit
<1>6. MInv'
  <2>1. icache' = icache /\ Become(p, Goto(p, "exit"))
    BY DEF Exit
  <2>2. Fits(r.n, r.ip, r.dp, r.call.op, r.ino, "exit")
    BY <1>1, <1>2 DEF Slots, Fits, OpAt, IpPoints, DpPoints, CreateIp, CreateDir, Creating, LinkIp, IpLocked, DpLocked, PathOps
  <2>3. \A t \in Slots : LocksAt(r.ip, r.dp, "exit", t) <=> LocksAt(r.ip, r.dp, r.pc, t)
    BY <1>0, <1>2 DEF Slots, LocksAt, IpPoints, DpPoints, CreateIp, CreateDir, LinkIp, IpLocked, DpLocked
  <2>4. SetsAt(p, r.ip, r.dp, "exit", icache')
    BY <1>0, <2>1, <2>3, SetsAtNone
  <2>5. "exit" \in Points /\ "exit" \notin IputPcs \cup {"unused", "write"}
    BY DEF Points, IpPoints, DpPoints, CreateIp, CreateDir, LinkIp, IputPcs
  <2>q. QED BY <1>0, <1>2, <1>4, <2>1, <2>2, <2>4, <2>5, GoesOn
<1>q. QED BY <1>6

(* mkdir() gives the new directory its block. *)
LEMMA CreateBlockR ==
    ASSUME RInv, NEW p \in Procs, CreateBlock(p)
    PROVE  MInv'
<1> DEFINE r == proc[p]
<1>0. MInv /\ DiskTypes /\ InCall(p) /\ r.pc = "create_block"
  BY DEF RInv, CreateBlock, At, InCall, IputPcs
<1>1. Fits(r.n, r.ip, r.dp, r.call.op, r.ino, "create_block") /\ r \in Records
  BY <1>0, NothingToPut DEF InCall
<1>2. r.n = 0 /\ r.ip \in Slots /\ r.dp \in Slots /\ r.ino = 0 /\ r.ip # r.dp
  BY <1>1 DEF Records, Fits, OpAt, IpPoints, DpPoints, CreateIp, CreateDir, Creating, LinkIp, IpLocked, DpLocked, PathOps
<1>3. Usable(r.ip) /\ Usable(r.dp)
  BY <1>0, <1>2, HeldUsable
<1>4. UNCHANGED <<ofile, ftable, cwd>>
  BY DEF CreateBlock
<1>5. icache[r.ip].lock = p
  BY <1>0, <1>2, CallLocks DEF CreateBlock, CanLock, LocksAt, IpPoints, DpPoints, CreateIp, CreateDir, LinkIp, IpLocked, DpLocked
<1>7. PICK b \in FreeBlocks : icache' = [icache EXCEPT ![r.ip].blk = b]
  BY DEF CreateBlock
<1>8. b \in Blocks \cup {0}
  BY DEF FreeBlocks
<1>6. MInv'
  <2>1. SetSlot(r.ip, [icache[r.ip] EXCEPT !.blk = b]) /\ Become(p, Goto(p, "create_dot"))
    BY <1>7 DEF CreateBlock, SetSlot
  <2>2. Like([icache[r.ip] EXCEPT !.blk = b], r.ip, p)
    BY <1>0, <1>3, <1>5, <1>8, LikeLoaded, LikeBlk
  <2>3. Fits(r.n, r.ip, r.dp, r.call.op, r.ino, "create_dot")
    BY <1>1, <1>2 DEF Slots, Fits, OpAt, IpPoints, DpPoints, CreateIp, CreateDir, Creating, LinkIp, IpLocked, DpLocked, PathOps
  <2>4. /\ p = IF LocksAt(r.ip, r.dp, "create_dot", r.ip) THEN p ELSE nullptr
        /\ \A t \in Slots \ {r.ip} : LocksAt(r.ip, r.dp, "create_dot", t) <=> LocksAt(r.ip, r.dp, r.pc, t)
    BY <1>0, <1>2, Ext2Assumption DEF Slots, LocksAt, IpPoints, DpPoints, CreateIp, CreateDir, LinkIp, IpLocked, DpLocked
  <2>5. SetsAt(p, r.ip, r.dp, "create_dot", icache')
    BY <1>0, <1>2, <1>5, <2>1, <2>2, <2>4, SetsAtLike
  <2>6. "create_dot" \in Points /\ "create_dot" \notin IputPcs \cup {"unused", "write"}
    BY RetsAre DEF Points, IpPoints, DpPoints, CreateIp, CreateDir, LinkIp, IputPcs
  <2>q. QED BY <1>0, <1>2, <1>4, <2>1, <2>3, <2>5, <2>6, GoesOn
<1>q. QED BY <1>6

(* What a directory is looked up for. *)
LEMMA LookupTyped ==
    ASSUME RInv, NEW p \in Procs, proc[p].pc \notin IputPcs, proc[p].dp \in Slots
    PROVE  /\ LastName(p) = LastOf(proc[p]) /\ LastName(p) \in DirNames
           /\ Dirlookup(proc[p].dp, LastName(p)) \in Inums \cup {0}
<1>1. LastName(p) = LastOf(proc[p])
  BY DEF LastName, LastOf
<1>2. LastName(p) \in DirNames
  BY <1>1, NothingToPut DEF RInv, Named, Slots
<1>3. icache[proc[p].dp].inum \in Inums
  BY HeldUsable DEF RInv, Usable
<1>q. QED BY <1>1, <1>2, <1>3 DEF Dirlookup, RInv, DiskTypes

(* A slot is set and an inode fetched. *)
LEMMA SetAndGot ==
    ASSUME MInv, NEW s, Usable(s), NEW i, NEW l, Like(i, s, l), NEW inum \in Inums,
           icache' = SetAndIget(s, i, inum)
    PROVE  /\ Slot4(IgetSlot(inum), inum) /\ IgetSlot(inum) \in Slots
           /\ icache' = Got([icache EXCEPT ![s] = i], IgetSlot(inum), inum)
<1>1. MemTypes /\ SlotsOK
  BY DEF MInv
<1>q. QED BY <1>1, IgetFinds, SetAndIgetIs DEF Like, Usable, Slot4

(* SetsAtLike for a change that an iget() follows. *)
LEMMA SetsAtCell ==
    ASSUME MInv, NEW p, InCall(p), NEW ip, NEW dp, NEW pt, NEW s \in Slots, NEW i, NEW l, Like(i, s, l),
           icache[s].lock \in {p, nullptr},
           l = IF LocksAt(ip, dp, pt, s) THEN p ELSE nullptr,
           \A t \in Slots \ {s} : LocksAt(ip, dp, pt, t) <=> LocksAt(proc[p].ip, proc[p].dp, proc[p].pc, t)
    PROVE  SetsAt(p, ip, dp, pt, [icache EXCEPT ![s] = i])
BY SetsAtOne DEF Like

(* create() looks the name up: it keeps the directory's lock, or trades the  *)
(* directory for the inode found.                                            *)
LEMMA CreateLookupR ==
    ASSUME RInv, NEW p \in Procs, CreateLookup(p)
    PROVE  MInv'
<1> DEFINE r == proc[p]
<1>0. MInv /\ DiskTypes /\ InCall(p) /\ r.pc = "create"
  BY DEF RInv, CreateLookup, At, InCall, IputPcs
<1>1. Fits(r.n, r.ip, r.dp, r.call.op, r.ino, "create") /\ r \in Records
  BY <1>0, NothingToPut DEF InCall
<1>2. r.n = 0 /\ r.ip = 0 /\ r.dp \in Slots /\ r.ino = 0
  BY <1>1 DEF Records, Fits, OpAt, IpPoints, DpPoints, CreateIp, CreateDir, Creating, LinkIp, IpLocked, DpLocked, PathOps
<1>3. Usable(r.dp)
  BY <1>0, <1>2, HeldUsable
<1>4. UNCHANGED <<ofile, ftable, cwd>>
  BY DEF CreateLookup
<1>5. icache[r.dp].lock = nullptr
  BY <1>0, <1>2, CallLocks DEF CreateLookup, CanLock, LocksAt, IpPoints, DpPoints, CreateIp, CreateDir, LinkIp, IpLocked, DpLocked
<1>6. CASE Dirlookup(r.dp, LastName(p)) = 0
  <2>1. SetSlot(r.dp, Locked(r.dp, p)) /\ Become(p, Goto(p, "ialloc"))
    BY <1>6 DEF CreateLookup
  <2>2. Like(Locked(r.dp, p), r.dp, p)
    BY <1>0, <1>3, <1>5, LikeLocked
  <2>3. Fits(r.n, r.ip, r.dp, r.call.op, r.ino, "ialloc")
    BY <1>1, <1>2 DEF Slots, Fits, OpAt, IpPoints, DpPoints, CreateIp, CreateDir, Creating, LinkIp, IpLocked, DpLocked, PathOps
  <2>4. /\ p = IF LocksAt(r.ip, r.dp, "ialloc", r.dp) THEN p ELSE nullptr
        /\ \A t \in Slots \ {r.dp} : LocksAt(r.ip, r.dp, "ialloc", t) <=> LocksAt(r.ip, r.dp, r.pc, t)
    BY <1>0, <1>2, Ext2Assumption DEF Slots, LocksAt, IpPoints, DpPoints, CreateIp, CreateDir, LinkIp, IpLocked, DpLocked
  <2>5. SetsAt(p, r.ip, r.dp, "ialloc", icache')
    BY <1>0, <1>2, <1>5, <2>1, <2>2, <2>4, SetsAtLike
  <2>6. "ialloc" \in Points /\ "ialloc" \notin IputPcs \cup {"unused", "write"}
    BY RetsAre DEF Points, IpPoints, DpPoints, CreateIp, CreateDir, LinkIp, IputPcs
  <2>q. QED BY <1>0, <1>2, <1>4, <2>1, <2>3, <2>5, <2>6, GoesOn
<1>7. CASE Dirlookup(r.dp, LastName(p)) # 0
  <2>1. PICK inum \in Inums : inum = Dirlookup(r.dp, LastName(p))
    BY <1>0, <1>2, <1>7, LookupTyped DEF InCall
  <2>2. PICK u : u = IgetSlot(inum)
    OBVIOUS
  <2>3. /\ icache' = SetAndIget(r.dp, Loaded(r.dp), inum)
        /\ Become(p, IputThen([r EXCEPT !.ip = u, !.dp = 0], <<r.dp>>, "create_exists"))
    BY <1>7, <2>1, <2>2 DEF CreateLookup
  <2>4. Like(Loaded(r.dp), r.dp, nullptr)
    BY <1>0, <1>3, <1>5, LikeLoaded
  <2>5. PICK c : c = [icache EXCEPT ![r.dp] = Loaded(r.dp)]
    OBVIOUS
  <2>6. Slot4(u, inum) /\ u \in Slots /\ icache' = Got(c, u, inum)
    BY <1>0, <1>3, <2>2, <2>3, <2>4, <2>5, SetAndGot
  <2>7. PICK r1 : r1 = [r EXCEPT !.ip = u, !.dp = 0]
    OBVIOUS
  <2>8. /\ r1 \in Records /\ r1.n = r.n /\ r1.ip = u /\ r1.dp = 0 /\ r1.call = r.call /\ r1.ino = r.ino
    BY <1>1, <2>6, <2>7 DEF Records
  <2>9. Fits(r1.n, r1.ip, r1.dp, r1.call.op, r1.ino, "create_exists")
    BY <1>1, <1>2, <2>6, <2>8 DEF Slots, Fits, OpAt, IpPoints, DpPoints, CreateIp, CreateDir, Creating, LinkIp, IpLocked, DpLocked, PathOps
  <2>10. /\ nullptr = IF LocksAt(r1.ip, r1.dp, "create_exists", r.dp) THEN p ELSE nullptr
         /\ \A t \in Slots \ {r.dp} : LocksAt(r1.ip, r1.dp, "create_exists", t) <=> LocksAt(r.ip, r.dp, r.pc, t)
    BY <1>0, <1>2, <2>8, Ext2Assumption DEF Slots, LocksAt, IpPoints, DpPoints, CreateIp, CreateDir, LinkIp, IpLocked, DpLocked
  <2>11. SetsAt(p, r1.ip, r1.dp, "create_exists", c)
    BY <1>0, <1>2, <1>5, <2>4, <2>5, <2>10, SetsAtCell
  <2>12. Named(r1)
    BY <1>2, <2>8 DEF Named
  <2>13. Enters(p, r1, r.dp, "create_exists", c)
    BY <1>0, <1>2, <1>4, <2>3, <2>7, <2>8, <2>9, <2>11, <2>12, RetsAre DEF Enters
  <2>14. \A t \in Slots : One(r1.n, t) + One(r1.ip, t) + One(r1.dp, t) + One(r.dp, t)
                          = One(r.n, t) + One(r.ip, t) + One(r.dp, t) + One(u, t)
    BY <1>2, <2>8 DEF One, Slots
  <2>q. QED BY <1>0, <2>6, <2>13, <2>14, AwayGotStep
<1>q. QED BY <1>6, <1>7

(* unlink() looks the name up: it keeps the directory's lock and takes a     *)
(* reference to the inode found, or puts the directory.                      *)
LEMMA UnlinkLookupR ==
    ASSUME RInv, NEW p \in Procs, UnlinkLookup(p)
    PROVE  MInv'
<1> DEFINE r == proc[p]
<1>0. MInv /\ DiskTypes /\ InCall(p) /\ r.pc = "unlink_dp"
  BY DEF RInv, UnlinkLookup, At, InCall, IputPcs
<1>1. Fits(r.n, r.ip, r.dp, r.call.op, r.ino, "unlink_dp") /\ r \in Records
  BY <1>0, NothingToPut DEF InCall
<1>2. r.n = 0 /\ r.ip = 0 /\ r.dp \in Slots /\ r.ino = 0
  BY <1>1 DEF Records, Fits, OpAt, IpPoints, DpPoints, CreateIp, CreateDir, Creating, LinkIp, IpLocked, DpLocked, PathOps
<1>3. Usable(r.dp)
  BY <1>0, <1>2, HeldUsable
<1>4. UNCHANGED <<ofile, ftable, cwd>>
  BY DEF UnlinkLookup
<1>5. icache[r.dp].lock = nullptr
  BY <1>0, <1>2, CallLocks DEF UnlinkLookup, CanLock, LocksAt, IpPoints, DpPoints, CreateIp, CreateDir, LinkIp, IpLocked, DpLocked
<1>6. CASE LastName(p) \in {".", ".."} \/ Dirlookup(r.dp, LastName(p)) = 0
  <2>1. SetSlot(r.dp, Loaded(r.dp)) /\ Become(p, IputThen([r EXCEPT !.dp = 0], <<r.dp>>, "user"))
    BY <1>6 DEF UnlinkLookup
  <2>2. Like(Loaded(r.dp), r.dp, nullptr)
    BY <1>0, <1>3, <1>5, LikeLoaded
  <2>3. Fits(r.n, r.ip, 0, r.call.op, r.ino, "user")
    BY <1>1, <1>2 DEF Slots, Fits, OpAt, IpPoints, DpPoints, CreateIp, CreateDir, Creating, LinkIp, IpLocked, DpLocked, PathOps
  <2>4. /\ nullptr = IF LocksAt(r.ip, 0, "user", r.dp) THEN p ELSE nullptr
        /\ \A t \in Slots \ {r.dp} : LocksAt(r.ip, 0, "user", t) <=> LocksAt(r.ip, r.dp, r.pc, t)
    BY <1>0, <1>2, Ext2Assumption DEF Slots, LocksAt, IpPoints, DpPoints, CreateIp, CreateDir, LinkIp, IpLocked, DpLocked
  <2>5. SetsAt(p, r.ip, 0, "user", icache')
    BY <1>0, <1>2, <1>5, <2>1, <2>2, <2>4, SetsAtLike
  <2>6. "user" \in Rets
    BY RetsAre DEF Points, IpPoints, DpPoints, CreateIp, CreateDir, LinkIp, IputPcs
  <2>q. QED BY <1>0, <1>2, <1>4, <2>1, <2>3, <2>5, <2>6, AwayDp
<1>7. CASE ~(LastName(p) \in {".", ".."} \/ Dirlookup(r.dp, LastName(p)) = 0)
  <2>1. PICK inum \in Inums : inum = Dirlookup(r.dp, LastName(p))
    BY <1>0, <1>2, <1>7, LookupTyped DEF InCall
  <2>2. PICK u : u = IgetSlot(inum)
    OBVIOUS
  <2>3. /\ icache' = SetAndIget(r.dp, Locked(r.dp, p), inum)
        /\ Become(p, [Goto(p, "unlink_ip") EXCEPT !.ip = u])
    BY <1>7, <2>1, <2>2 DEF UnlinkLookup
  <2>4. Like(Locked(r.dp, p), r.dp, p)
    BY <1>0, <1>3, LikeLocked
  <2>5. PICK c : c = [icache EXCEPT ![r.dp] = Locked(r.dp, p)]
    OBVIOUS
  <2>6. Slot4(u, inum) /\ u \in Slots /\ icache' = Got(c, u, inum)
    BY <1>0, <1>3, <2>2, <2>3, <2>4, <2>5, SetAndGot
  <2>7. PICK r2 : r2 = [[r EXCEPT !.pc = "unlink_ip"] EXCEPT !.ip = u]
    OBVIOUS
  <2>8. "unlink_ip" \in Points /\ "unlink_ip" \notin IputPcs \cup {"unused", "write"}
    BY DEF Points, IpPoints, IputPcs
  <2>9. /\ r2 \in Records /\ r2.pc = "unlink_ip" /\ r2.n = r.n /\ r2.ip = u /\ r2.dp = r.dp /\ r2.call = r.call
        /\ r2.ino = r.ino /\ r2.puts = r.puts /\ r2.rest = r.rest
    BY <1>1, <2>6, <2>7, <2>8 DEF Records
  <2>10. Fits(r2.n, r2.ip, r2.dp, r2.call.op, r2.ino, r2.pc)
    BY <1>1, <1>2, <2>6, <2>9 DEF Slots, Fits, OpAt, IpPoints, DpPoints, CreateIp, CreateDir, Creating, LinkIp, IpLocked, DpLocked, PathOps
  <2>11. /\ p = IF LocksAt(r2.ip, r2.dp, r2.pc, r.dp) THEN p ELSE nullptr
         /\ \A t \in Slots \ {r.dp} : LocksAt(r2.ip, r2.dp, r2.pc, t) <=> LocksAt(r.ip, r.dp, r.pc, t)
    BY <1>0, <1>2, <2>9, Ext2Assumption DEF Slots, LocksAt, IpPoints, DpPoints, CreateIp, CreateDir, LinkIp, IpLocked, DpLocked
  <2>12. SetsAt(p, r2.ip, r2.dp, r2.pc, c)
    BY <1>0, <1>2, <1>5, <2>4, <2>5, <2>11, SetsAtCell
  <2>13. Named(r2) /\ r.puts = <<>>
    BY <1>0, <1>2, <2>9, NothingToPut DEF Named, LastOf, InCall
  <2>14. Moves(p, r2, c)
    BY <1>0, <1>4, <2>3, <2>7, <2>8, <2>9, <2>10, <2>12, <2>13 DEF Moves, Goto
  <2>15. \A t \in Slots : One(r2.n, t) + One(r2.ip, t) + One(r2.dp, t)
                          = One(r.n, t) + One(r.ip, t) + One(r.dp, t) + One(u, t)
    BY <1>2, <2>9 DEF One, Slots
  <2>q. QED BY <1>0, <2>6, <2>14, <2>15, MoveGotStep
<1>q. QED BY <1>6, <1>7

(* link() enters the name and puts both inodes; if the name is taken, it     *)
(* puts the inode found and keeps the directory's lock.                      *)
LEMMA LinkEntryR ==
    ASSUME RInv, NEW p \in Procs, LinkEntry(p)
    PROVE  MInv'
<1> DEFINE r == proc[p]
<1>0. MInv /\ DiskTypes /\ InCall(p) /\ r.pc = "link_dp"
  BY DEF RInv, LinkEntry, At, InCall, IputPcs
<1>1. Fits(r.n, r.ip, r.dp, r.call.op, r.ino, "link_dp") /\ r \in Records
  BY <1>0, NothingToPut DEF InCall
<1>2. r.n = 0 /\ r.ip \in Slots /\ r.dp \in Slots /\ r.ino = 0
  BY <1>1 DEF Records, Fits, OpAt, IpPoints, DpPoints, CreateIp, CreateDir, Creating, LinkIp, IpLocked, DpLocked, PathOps
<1>3. Usable(r.ip) /\ Usable(r.dp)
  BY <1>0, <1>2, HeldUsable
<1>4. UNCHANGED <<ofile, ftable, cwd>>
  BY DEF LinkEntry
<1>5. icache[r.dp].lock = nullptr
  BY <1>0, <1>2, CallLocks DEF LinkEntry, CanLock, LocksAt, IpPoints, DpPoints, CreateIp, CreateDir, LinkIp, IpLocked, DpLocked
<1>7. CASE Dirlookup(r.dp, LastName(p)) # 0
  <2>1. PICK inum \in Inums : inum = Dirlookup(r.dp, LastName(p))
    BY <1>0, <1>2, <1>7, LookupTyped DEF InCall
  <2>2. PICK u : u = IgetSlot(inum)
    OBVIOUS
  <2>3. /\ icache' = SetAndIget(r.dp, Locked(r.dp, p), inum)
        /\ Become(p, IputThen(r, <<u>>, "link_taken"))
    BY <1>7, <2>1, <2>2 DEF LinkEntry
  <2>4. Like(Locked(r.dp, p), r.dp, p)
    BY <1>0, <1>3, LikeLocked
  <2>5. PICK c : c = [icache EXCEPT ![r.dp] = Locked(r.dp, p)]
    OBVIOUS
  <2>6. Slot4(u, inum) /\ u \in Slots /\ icache' = Got(c, u, inum)
    BY <1>0, <1>3, <2>2, <2>3, <2>4, <2>5, SetAndGot
  <2>9. Fits(r.n, r.ip, r.dp, r.call.op, r.ino, "link_taken")
    BY <1>1, <1>2 DEF Slots, Fits, OpAt, IpPoints, DpPoints, CreateIp, CreateDir, Creating, LinkIp, IpLocked, DpLocked, PathOps
  <2>10. /\ p = IF LocksAt(r.ip, r.dp, "link_taken", r.dp) THEN p ELSE nullptr
         /\ \A t \in Slots \ {r.dp} : LocksAt(r.ip, r.dp, "link_taken", t) <=> LocksAt(r.ip, r.dp, r.pc, t)
    BY <1>0, <1>2, Ext2Assumption DEF Slots, LocksAt, IpPoints, DpPoints, CreateIp, CreateDir, LinkIp, IpLocked, DpLocked
  <2>11. SetsAt(p, r.ip, r.dp, "link_taken", c)
    BY <1>0, <1>2, <1>5, <2>4, <2>5, <2>10, SetsAtCell
  <2>12. Named(r)
    BY <1>0, NothingToPut DEF InCall
  <2>13. Enters(p, r, u, "link_taken", c)
    BY <1>0, <1>1, <1>4, <2>3, <2>6, <2>9, <2>11, <2>12, RetsAre DEF Enters
  <2>14. \A t \in Slots : One(r.n, t) + One(r.ip, t) + One(r.dp, t) + One(u, t)
                          = One(r.n, t) + One(r.ip, t) + One(r.dp, t) + One(u, t)
    OBVIOUS
  <2>q. QED BY <1>0, <2>6, <2>13, <2>14, AwayGotStep
<1>6. CASE Dirlookup(r.dp, LastName(p)) = 0
  <2>1. /\ SetSlot(r.dp, Loaded(r.dp))
        /\ Become(p, IputThen([r EXCEPT !.dp = 0, !.ip = 0], <<r.dp, r.ip>>, "user"))
    BY <1>6 DEF LinkEntry
  <2>2. Like(Loaded(r.dp), r.dp, nullptr)
    BY <1>0, <1>3, <1>5, LikeLoaded
  <2>3. PICK r2 : r2 = IputThen([r EXCEPT !.dp = 0, !.ip = 0], <<r.dp, r.ip>>, "user")
    OBVIOUS
  <2>4. /\ r2 \in Records /\ r2.pc = "iput" /\ r2.n = 0 /\ r2.ip = 0 /\ r2.dp = 0 /\ r2.call = r.call
        /\ r2.ino = 0 /\ r2.puts = <<r.dp, r.ip>> /\ r2.ret = "user"
    <3>1. <<r.dp, r.ip>> \in Seq(Slots) /\ "user" \in Rets /\ "iput" \in IputPcs
      BY <1>2 DEF Rets, IputPcs
    <3>q. QED BY <1>1, <1>2, <2>3, <3>1 DEF IputThen, Records
  <2>5. Put(r2, 1) = r.dp /\ Put(r2, 2) = r.ip /\ Len(r2.puts) = 2
    BY <2>4 DEF Put
  <2>6. Point(r2) = "user" /\ r2.pc \in IputPcs /\ r2.pc \notin FreePcs
    BY <2>4 DEF Point, IputPcs, FreePcs
  <2>7. Fits(r2.n, r2.ip, r2.dp, r2.call.op, r2.ino, "user") /\ Named(r2)
    BY <2>4 DEF Named, Slots, Fits, OpAt, IpPoints, DpPoints, CreateIp, CreateDir, Creating, LinkIp, IpLocked, DpLocked, PathOps
  <2>8. Shape(r2)
    BY <1>2, <2>5, <2>6, <2>7 DEF Shape, Slots
  <2>9. /\ nullptr = IF LocksAt(r2.ip, r2.dp, "user", r.dp) THEN p ELSE nullptr
        /\ \A t \in Slots \ {r.dp} : LocksAt(r2.ip, r2.dp, "user", t) <=> LocksAt(r.ip, r.dp, r.pc, t)
    BY <1>0, <1>2, <2>4, Ext2Assumption DEF Slots, LocksAt, IpPoints, DpPoints, CreateIp, CreateDir, LinkIp, IpLocked, DpLocked
  <2>10. SetsAt(p, r2.ip, r2.dp, "user", icache')
    BY <1>0, <1>2, <1>5, <2>1, <2>2, <2>9, SetsAtLike
  <2>11. Sets(p, r2, icache')
    BY <2>4, <2>6, <2>10 DEF Sets, SetsAt, Locks
  <2>12. Put(r, 1) = 0 /\ Put(r, 2) = 0 /\ Point(r) = r.pc
    BY <1>0, NothingToPut DEF InCall
  <2>13. SameHoldings(p, r2)
    BY <1>2, <1>4, <2>4, <2>5, <2>12 DEF SameHoldings, Weight, One, Slots
  <2>14. ~Gone(r2) /\ ~Gone(r) /\ cwd[p] # 0 /\ cwd \in [Procs -> Slots \cup {0}]
    BY <1>0, <2>6, <2>12 DEF Gone, MInv, OwnsOK, MemTypes
  <2>15. Stepping(p, r2)
    BY <1>4, <2>1, <2>3, <2>4, <2>8, <2>14 DEF Stepping, Mine, Become
  <2>q. QED BY <1>0, <2>11, <2>13, <2>15, KeepStep
<1>q. QED BY <1>6, <1>7

(* iget() in terms of Got, from the whole of MInv. *)
LEMMA IgetGot ==
    ASSUME MInv, NEW inum \in Inums
    PROVE  /\ Slot4(IgetSlot(inum), inum) /\ IgetSlot(inum) \in Slots
           /\ [icache EXCEPT ![IgetSlot(inum)] = IgetEntry(inum)] = Got(icache, IgetSlot(inum), inum)
<1>1. MemTypes /\ SlotsOK
  BY DEF MInv
<1>q. QED BY <1>1, IgetFinds, IgetIs DEF Slot4

(* idup() is the iget() of an inode that is cached. *)
LEMMA IdupGot ==
    ASSUME MInv, NEW s, Usable(s)
    PROVE  /\ Slot4(s, icache[s].inum) /\ icache[s].inum \in Inums
           /\ [icache EXCEPT ![s] = Idup(s)] = Got(icache, s, icache[s].inum)
<1>1. icache[s] \in SlotRecords /\ icache[s].ref > 0 /\ s \in Slots /\ icache[s].inum \in Inums
  BY DEF Usable
<1>2. Idup(s) = [icache[s] EXCEPT !.inum = icache[s].inum, !.ref = @ + 1,
                                  !.valid = IF icache[s].ref > 0 THEN @ ELSE FALSE]
  BY <1>1 DEF Idup, SlotRecords
<1>q. QED BY <1>1, <1>2 DEF Got, Slot4

(* The rest of a path, after "/". *)
LEMMA PathRest ==
    ASSUME NEW path, IsPath(path)
    PROVE  /\ path[1] # "/" => path \in Seq(DirNames)
           /\ path[1] = "/" => Tail(path) \in Seq(DirNames)
           /\ path[1] = "/" /\ Tail(path) # <<>> => path[Len(path)] = Tail(path)[Len(Tail(path))]
           /\ Len(path) \in Nat \ {0}
<1>1. /\ path \in Seq(DirNames \cup {"/"}) /\ path # <<>> /\ \A j \in 2..Len(path) : path[j] # "/"
  BY DEF IsPath
<1>2. /\ Len(path) \in Nat \ {0} /\ \A j \in 1..Len(path) : path[j] \in DirNames \cup {"/"}
      /\ DOMAIN path = 1..Len(path) /\ path = [j \in 1..Len(path) |-> path[j]]
  BY <1>1
<1>3. ASSUME path[1] # "/" PROVE path \in Seq(DirNames)
  <2>1. \A j \in 1..Len(path) : path[j] \in DirNames
    BY <1>1, <1>2, <1>3
  <2>q. QED BY <1>2, <2>1, IsASeq
<1>4. PICK tl : tl = Tail(path)
  OBVIOUS
<1>5. tl \in Seq(DirNames \cup {"/"}) /\ Len(tl) = Len(path) - 1 /\ \A j \in 1..Len(tl) : tl[j] = path[j + 1]
  BY <1>1, <1>4
<1>6. tl \in Seq(DirNames)
  <2>0. Len(tl) \in Nat /\ tl = [j \in 1..Len(tl) |-> tl[j]]
    BY <1>5
  <2>1. \A j \in 1..Len(tl) : tl[j] \in DirNames
    <3> TAKE j \in 1..Len(tl)
    <3>1. j + 1 \in 2..Len(path) /\ j + 1 \in 1..Len(path)
      BY <1>2, <1>5
    <3>q. QED BY <1>1, <1>2, <1>5, <3>1
  <2>q. QED BY <2>0, <2>1, IsASeq
<1>7. tl # <<>> => path[Len(path)] = tl[Len(tl)]
  <2> SUFFICES ASSUME tl # <<>> PROVE path[Len(path)] = tl[Len(tl)]
    OBVIOUS
  <2>1. Len(tl) \in Nat /\ Len(tl) # 0
    BY <1>5
  <2>2. Len(tl) \in 1..Len(tl) /\ Len(tl) + 1 = Len(path)
    BY <1>2, <1>5, <2>1
  <2>q. QED BY <1>5, <2>2
<1>q. QED BY <1>2, <1>3, <1>4, <1>6, <1>7

(* The start of namex(), in a call that may have an ip already. *)
LEMMA NamexStarts ==
    ASSUME MInv, NEW p, InCall(p), NEW r \in Records, NEW path, IsPath(path), NamexStart(p, r, path),
           UNCHANGED <<ofile, ftable, cwd>>,
           proc[p].n = 0 /\ proc[p].dp = 0,
           r.puts = <<>> /\ r.n = 0 /\ r.ip = proc[p].ip /\ r.dp = 0 /\ r.ino = 0,
           r.call.op \in PathOps, r.ip # 0 => r.call.op = "link",
           WantsParent(r) => LastOf(r) = path[Len(path)],
           \A t \in Slots : ~LocksAt(proc[p].ip, proc[p].dp, proc[p].pc, t)
    PROVE  MInv'
<1>0. p \in Procs /\ EXT2INO \in Inums
  BY Ext2Assumption DEF InCall
<1>1. PICK s, inum, rest : /\ s \in Slots /\ Slot4(s, inum) /\ inum \in Inums /\ icache' = Got(icache, s, inum)
                           /\ Become(p, [r EXCEPT !.pc = "namex", !.n = s, !.rest = rest])
                           /\ rest = IF path[1] = "/" THEN Tail(path) ELSE path
  <2>1. CASE path[1] = "/"
    <3>1. /\ SetSlot(IgetSlot(EXT2INO), IgetEntry(EXT2INO))
          /\ Become(p, [r EXCEPT !.pc = "namex", !.n = IgetSlot(EXT2INO), !.rest = Tail(path)])
      BY <2>1 DEF NamexStart
    <3>2. /\ Slot4(IgetSlot(EXT2INO), EXT2INO) /\ IgetSlot(EXT2INO) \in Slots
          /\ icache' = Got(icache, IgetSlot(EXT2INO), EXT2INO)
      BY <1>0, <3>1, IgetGot DEF SetSlot
    <3>q. QED BY <1>0, <2>1, <3>1, <3>2
  <2>2. CASE path[1] # "/"
    <3>1. /\ SetSlot(cwd[p], Idup(cwd[p]))
          /\ Become(p, [r EXCEPT !.pc = "namex", !.n = cwd[p], !.rest = path])
      BY <2>2 DEF NamexStart
    <3>2. cwd[p] \in Slots
      <4>1. ~Gone(proc[p])
        BY DEF Gone, Point, InCall
      <4>q. QED BY <1>0, <4>1 DEF MInv, MemTypes, OwnsOK
    <3>3. Usable(cwd[p])
      BY <1>0, <3>2, HeldUsable
    <3>4. /\ Slot4(cwd[p], icache[cwd[p]].inum) /\ icache[cwd[p]].inum \in Inums
          /\ icache' = Got(icache, cwd[p], icache[cwd[p]].inum)
      BY <3>1, <3>3, IdupGot DEF SetSlot
    <3>q. QED BY <2>2, <3>1, <3>2, <3>4
  <2>q. QED BY <2>1, <2>2
<1>2. rest \in Seq(DirNames) /\ (rest # <<>> => path[Len(path)] = rest[Len(rest)])
  BY <1>1, PathRest
<1>3. PICK r2 : r2 = [r EXCEPT !.pc = "namex", !.n = s, !.rest = rest]
  OBVIOUS
<1>4. /\ r2 \in Records /\ r2.pc = "namex" /\ r2.n = s /\ r2.rest = rest /\ r2.ip = r.ip /\ r2.dp = 0
      /\ r2.call = r.call /\ r2.ino = 0 /\ r2.puts = <<>>
  <2>1. "namex" \in Points
    BY DEF Points
  <2>q. QED BY <1>1, <1>2, <1>3, <2>1 DEF Records
<1>5. Fits(r2.n, r2.ip, r2.dp, r2.call.op, r2.ino, r2.pc)
  BY <1>1, <1>4 DEF Slots, Fits, OpAt, IpPoints, DpPoints, CreateIp, CreateDir, Creating, LinkIp, IpLocked, DpLocked, PathOps
<1>6. Named(r2)
  BY <1>2, <1>4 DEF Named, LastOf, WantsParent
<1>7. SetsAt(p, r2.ip, r2.dp, r2.pc, icache)
  <2>1. \A t \in Slots : ~LocksAt(r2.ip, r2.dp, r2.pc, t)
    BY <1>4 DEF LocksAt, IpPoints, DpPoints, CreateIp, CreateDir, LinkIp, IpLocked, DpLocked
  <2>q. QED BY <2>1, SetsAtNone
<1>8. Moves(p, r2, icache)
  BY <1>1, <1>3, <1>4, <1>5, <1>6, <1>7 DEF Moves, IputPcs
<1>9. \A t \in Slots : One(r2.n, t) + One(r2.ip, t) + One(r2.dp, t)
                       = One(proc[p].n, t) + One(proc[p].ip, t) + One(proc[p].dp, t) + One(s, t)
  BY <1>4 DEF One, Slots
<1>q. QED BY <1>1, <1>8, <1>9, MoveGotStep

(* A call that takes a path begins with a reference to the root or to the    *)
(* working directory.                                                        *)
LEMMA BeginPathCallR ==
    ASSUME RInv, NEW p \in Procs, BeginPathCall(p)
    PROVE  MInv'
<1> DEFINE r == proc[p]
<1>0. MInv /\ InCall(p) /\ r.pc = "user"
  BY DEF RInv, BeginPathCall, Call, At, InCall, IputPcs
<1>1. Fits(r.n, r.ip, r.dp, r.call.op, r.ino, "user") /\ r \in Records /\ r.puts = <<>>
  BY <1>0, NothingToPut DEF InCall
<1>2. r.n = 0 /\ r.ip = 0 /\ r.dp = 0 /\ r.ino = 0
  BY <1>1 DEF Records, Fits, OpAt, IpPoints, DpPoints, CreateIp, CreateDir, Creating, LinkIp, IpLocked, DpLocked, PathOps
<1>3. PICK c \in Calls : c.op \in PathOps /\ NamexStart(p, [proc[p] EXCEPT !.call = c], c.path)
  BY DEF BeginPathCall
<1>4. c \notin FdCalls
  BY <1>3 DEF FdCalls, PathOps
<1>5. IsPath(c.path)
  BY <1>4, FileSystemAssumption
<1>6. PICK r1 : r1 = [proc[p] EXCEPT !.call = c]
  OBVIOUS
<1>7. /\ r1 \in Records /\ r1.puts = <<>> /\ r1.n = 0 /\ r1.ip = 0 /\ r1.dp = 0 /\ r1.ino = 0 /\ r1.call = c
  BY <1>1, <1>2, <1>6 DEF Records
<1>8. WantsParent(r1) => LastOf(r1) = c.path[Len(c.path)]
  BY <1>7 DEF WantsParent, LastOf
<1>9. UNCHANGED <<ofile, ftable, cwd>>
  BY DEF BeginPathCall
<1>10. \A t \in Slots : ~LocksAt(r.ip, r.dp, r.pc, t)
  BY <1>0 DEF LocksAt, IpPoints, DpPoints, CreateIp, CreateDir, LinkIp, IpLocked, DpLocked
<1>q. QED BY <1>0, <1>2, <1>3, <1>5, <1>6, <1>7, <1>8, <1>9, <1>10, NamexStarts

(* link() begins its second lookup, with a reference to the old inode. *)
LEMMA LinkNewR ==
    ASSUME RInv, NEW p \in Procs, LinkNew(p)
    PROVE  MInv'
<1> DEFINE r == proc[p]
<1>0. MInv /\ InCall(p) /\ r.pc = "link_new"
  BY DEF RInv, LinkNew, At, InCall, IputPcs
<1>1. Fits(r.n, r.ip, r.dp, r.call.op, r.ino, "link_new") /\ r \in Records /\ r.puts = <<>>
  BY <1>0, NothingToPut DEF InCall
<1>2. r.n = 0 /\ r.ip # 0 /\ r.dp = 0 /\ r.ino = 0 /\ r.call.op = "link"
  BY <1>1 DEF Records, Fits, OpAt, IpPoints, DpPoints, CreateIp, CreateDir, Creating, LinkIp, IpLocked, DpLocked, PathOps
<1>3. NamexStart(p, r, r.call.new)
  BY DEF LinkNew
<1>4. r.call \in Calls
  BY <1>1, <1>2 DEF Records, NoCall
<1>5. IsPath(r.call.new) /\ r.call.op \in PathOps
  BY <1>2, <1>4, FileSystemAssumption DEF PathOps
<1>8. WantsParent(r) => LastOf(r) = r.call.new[Len(r.call.new)]
  BY <1>2 DEF WantsParent, LastOf
<1>9. UNCHANGED <<ofile, ftable, cwd>>
  BY DEF LinkNew
<1>10. \A t \in Slots : ~LocksAt(r.ip, r.dp, r.pc, t)
  BY <1>0 DEF LocksAt, IpPoints, DpPoints, CreateIp, CreateDir, LinkIp, IpLocked, DpLocked
<1>q. QED BY <1>0, <1>1, <1>2, <1>3, <1>5, <1>8, <1>9, <1>10, NamexStarts

(* ialloc() marks the inode. *)
LEMMA IallocBitmapR ==
    ASSUME RInv, NEW p \in Procs, IallocBitmap(p)
    PROVE  MInv'
<1> DEFINE r == proc[p]
<1>0. MInv /\ DiskTypes /\ InCall(p) /\ r.pc = "ialloc_bitmap"
  BY DEF RInv, IallocBitmap, At, InCall, IputPcs
<1>1. Fits(r.n, r.ip, r.dp, r.call.op, r.ino, "ialloc_bitmap") /\ r \in Records
  BY <1>0, NothingToPut DEF InCall
<1>2. r.n = 0 /\ r.ip = 0 /\ r.dp \in Slots
  BY <1>1 DEF Records, Fits, OpAt, IpPoints, DpPoints, CreateIp, CreateDir, Creating, LinkIp, IpLocked, DpLocked, PathOps
<1>3. Usable(r.dp)
  BY <1>0, <1>2, HeldUsable
<1>4. UNCHANGED <<ofile, ftable, cwd>>
  BY DEF IallocBitmap
<1>5. icache[r.dp].lock = p
  BY <1>0, <1>2, CallLocks DEF IallocBitmap, CanLock, LocksAt, IpPoints, DpPoints, CreateIp, CreateDir, LinkIp, IpLocked, DpLocked
<1>6. MInv'
  <2>1. icache' = icache /\ Become(p, Goto(p, "ialloc_iget"))
    BY DEF IallocBitmap
  <2>2. Fits(r.n, r.ip, r.dp, r.call.op, r.ino, "ialloc_iget")
    BY <1>1, <1>2 DEF Slots, Fits, OpAt, IpPoints, DpPoints, CreateIp, CreateDir, Creating, LinkIp, IpLocked, DpLocked, PathOps
  <2>3. \A t \in Slots : LocksAt(r.ip, r.dp, "ialloc_iget", t) <=> LocksAt(r.ip, r.dp, r.pc, t)
    BY <1>0, <1>2 DEF Slots, LocksAt, IpPoints, DpPoints, CreateIp, CreateDir, LinkIp, IpLocked, DpLocked
  <2>4. SetsAt(p, r.ip, r.dp, "ialloc_iget", icache')
    BY <1>0, <2>1, <2>3, SetsAtNone
  <2>5. "ialloc_iget" \in Points /\ "ialloc_iget" \notin IputPcs \cup {"unused", "write"}
    BY DEF Points, IpPoints, DpPoints, CreateIp, CreateDir, LinkIp, IputPcs
  <2>q. QED BY <1>0, <1>2, <1>4, <2>1, <2>2, <2>4, <2>5, GoesOn
<1>q. QED BY <1>6

(* ialloc() clears the inode. *)
LEMMA IallocInodeR ==
    ASSUME RInv, NEW p \in Procs, IallocInode(p)
    PROVE  MInv'
<1> DEFINE r == proc[p]
<1>0. MInv /\ DiskTypes /\ InCall(p) /\ r.pc = "ialloc"
  BY DEF RInv, IallocInode, At, InCall, IputPcs
<1>1. Fits(r.n, r.ip, r.dp, r.call.op, r.ino, "ialloc") /\ r \in Records
  BY <1>0, NothingToPut DEF InCall
<1>2. r.n = 0 /\ r.ip = 0 /\ r.dp \in Slots
  BY <1>1 DEF Records, Fits, OpAt, IpPoints, DpPoints, CreateIp, CreateDir, Creating, LinkIp, IpLocked, DpLocked, PathOps
<1>3. Usable(r.dp)
  BY <1>0, <1>2, HeldUsable
<1>4. UNCHANGED <<ofile, ftable, cwd>>
  BY DEF IallocInode
<1>5. icache[r.dp].lock = p
  BY <1>0, <1>2, CallLocks DEF IallocInode, CanLock, LocksAt, IpPoints, DpPoints, CreateIp, CreateDir, LinkIp, IpLocked, DpLocked
<1>6. PICK ino \in Inums : ino = Least(FreeInums)
  <2>1. FreeInums \in SUBSET Nat /\ FreeInums # {} /\ FreeInums \subseteq Inums
    BY Ext2Assumption DEF IallocInode, FreeInums
  <2>q. QED BY <2>1, LeastIn
<1>7. icache' = icache /\ Become(p, [Goto(p, "ialloc_bitmap") EXCEPT !.ino = ino])
  BY <1>6 DEF IallocInode
<1>8. PICK r2 : r2 = [[r EXCEPT !.pc = "ialloc_bitmap"] EXCEPT !.ino = ino]
  OBVIOUS
<1>9. "ialloc_bitmap" \in Points /\ "ialloc_bitmap" \notin IputPcs \cup {"unused", "write"}
  BY DEF Points, DpPoints, IputPcs
<1>10. /\ r2 \in Records /\ r2.pc = "ialloc_bitmap" /\ r2.n = 0 /\ r2.ip = 0 /\ r2.dp = r.dp /\ r2.call = r.call
       /\ r2.ino = ino /\ r2.puts = r.puts
  BY <1>1, <1>2, <1>6, <1>8, <1>9 DEF Records
<1>11. Fits(r2.n, r2.ip, r2.dp, r2.call.op, r2.ino, r2.pc)
  BY <1>1, <1>2, <1>6, <1>10, Ext2Assumption DEF Slots, Fits, OpAt, IpPoints, DpPoints, CreateIp, CreateDir, Creating, LinkIp, IpLocked, DpLocked, PathOps
<1>12. \A t \in Slots : LocksAt(r2.ip, r2.dp, r2.pc, t) <=> LocksAt(r.ip, r.dp, r.pc, t)
  BY <1>0, <1>2, <1>10 DEF LocksAt, IpPoints, DpPoints, CreateIp, CreateDir, LinkIp, IpLocked, DpLocked
<1>13. SetsAt(p, r2.ip, r2.dp, r2.pc, icache')
  BY <1>0, <1>7, <1>12, SetsAtNone
<1>14. Named(r2) /\ r.puts = <<>>
  BY <1>0, <1>10, NothingToPut DEF Named, LastOf, InCall
<1>15. Moves(p, r2, icache')
  BY <1>0, <1>4, <1>7, <1>8, <1>9, <1>10, <1>11, <1>13, <1>14 DEF Moves, Goto
<1>16. \A t \in Slots : One(r2.n, t) + One(r2.ip, t) + One(r2.dp, t)
                        = One(r.n, t) + One(r.ip, t) + One(r.dp, t)
  BY <1>2, <1>10
<1>q. QED BY <1>0, <1>15, <1>16, MoveStep

(* ialloc() takes a reference to the new inode. *)
LEMMA IallocIgetR ==
    ASSUME RInv, NEW p \in Procs, IallocIget(p)
    PROVE  MInv'
<1> DEFINE r == proc[p]
<1>0. MInv /\ DiskTypes /\ InCall(p) /\ r.pc = "ialloc_iget"
  BY DEF RInv, IallocIget, At, InCall, IputPcs
<1>1. Fits(r.n, r.ip, r.dp, r.call.op, r.ino, "ialloc_iget") /\ r \in Records
  BY <1>0, NothingToPut DEF InCall
<1>2. r.n = 0 /\ r.ip = 0 /\ r.dp \in Slots /\ r.ino \in Inums
  BY <1>1 DEF Records, Fits, OpAt, IpPoints, DpPoints, CreateIp, CreateDir, Creating, LinkIp, IpLocked, DpLocked, PathOps
<1>3. Usable(r.dp)
  BY <1>0, <1>2, HeldUsable
<1>4. UNCHANGED <<ofile, ftable, cwd>>
  BY DEF IallocIget
<1>5. icache[r.dp].lock = p
  BY <1>0, <1>2, CallLocks DEF IallocIget, CanLock, LocksAt, IpPoints, DpPoints, CreateIp, CreateDir, LinkIp, IpLocked, DpLocked
<1>6. PICK u : u = IgetSlot(r.ino)
  OBVIOUS
<1>7. /\ Slot4(u, r.ino) /\ u \in Slots /\ icache' = Got(icache, u, r.ino)
      /\ Become(p, [Goto(p, "create_inode") EXCEPT !.ip = u, !.ino = 0])
  BY <1>0, <1>2, <1>6, IgetGot DEF IallocIget, SetSlot
<1>8. PICK r2 : r2 = [[r EXCEPT !.pc = "create_inode"] EXCEPT !.ip = u, !.ino = 0]
  OBVIOUS
<1>9. "create_inode" \in Points /\ "create_inode" \notin IputPcs \cup {"unused", "write"}
  BY DEF Points, DpPoints, IputPcs
<1>10. /\ r2 \in Records /\ r2.pc = "create_inode" /\ r2.n = 0 /\ r2.ip = u /\ r2.dp = r.dp /\ r2.call = r.call
       /\ r2.ino = 0 /\ r2.puts = r.puts
  BY <1>1, <1>2, <1>7, <1>8, <1>9 DEF Records
<1>11. Fits(r2.n, r2.ip, r2.dp, r2.call.op, r2.ino, r2.pc)
  BY <1>1, <1>2, <1>7, <1>10 DEF Slots, Fits, OpAt, IpPoints, DpPoints, CreateIp, CreateDir, Creating, LinkIp, IpLocked, DpLocked, PathOps
<1>12. \A t \in Slots : LocksAt(r2.ip, r2.dp, r2.pc, t) <=> LocksAt(r.ip, r.dp, r.pc, t)
  BY <1>0, <1>2, <1>10 DEF LocksAt, IpPoints, DpPoints, CreateIp, CreateDir, LinkIp, IpLocked, DpLocked
<1>13. SetsAt(p, r2.ip, r2.dp, r2.pc, icache)
  BY <1>0, <1>7, <1>12, SetsAtNone
<1>14. Named(r2) /\ r.puts = <<>>
  BY <1>0, <1>2, <1>10, NothingToPut DEF Named, LastOf, InCall
<1>15. Moves(p, r2, icache)
  BY <1>0, <1>4, <1>7, <1>8, <1>9, <1>10, <1>11, <1>13, <1>14 DEF Moves, Goto
<1>16. \A t \in Slots : One(r2.n, t) + One(r2.ip, t) + One(r2.dp, t)
                        = One(r.n, t) + One(r.ip, t) + One(r.dp, t) + One(u, t)
  BY <1>2, <1>10 DEF One, Slots
<1>q. QED BY <1>0, <1>2, <1>7, <1>15, <1>16, MoveGotStep

(* Where namex() ends. *)
LEMMA NotFoundFits ==
    ASSUME NEW r \in Records, r.call.op \in PathOps, r.dp = 0, r.ino = 0, r.ip # 0 => r.call.op = "link"
    PROVE  /\ NotFound(r) \in Rets /\ NotFound(r) # "unused" /\ NotFound(r) \in {"user", "link_bad"}
           /\ Fits(0, r.ip, r.dp, r.call.op, r.ino, NotFound(r))
BY DEF NotFound, Rets, Fits, OpAt, IpPoints, DpPoints, CreateIp, CreateDir, Creating, LinkIp, IpLocked, DpLocked, PathOps

(* Where a call goes on when namex() has found its inode, it has what that   *)
(* point needs.                                                              *)
LEMMA FoundFields ==
    ASSUME NEW r \in Records, r.call.op \in PathOps, r.n \in Slots, r.dp = 0, r.ino = 0, r.ip # 0 => r.call.op = "link",
           Named(r), WantsParent(r) => Len(r.rest) = 1 /\ r.rest # <<>>, NEW r2, r2 = Found(r)
    PROVE  /\ r2 \in Records /\ r2.pc \in Points /\ r2.pc \notin IputPcs \cup {"unused", "write"}
           /\ r2.n = 0 /\ r2.puts = r.puts /\ r2.call = r.call /\ r2.ino = 0 /\ r2.rest = <<>>
           /\ WantsParent(r) => /\ r2.dp = r.n /\ r2.ip = r.ip /\ r2.pc \in {"create", "unlink_dp", "link_dp"}
           /\ ~WantsParent(r) => /\ r2.ip = r.n /\ r2.dp = 0 /\ r2.pc \in {"open", "openw", "link", "chdir"}
                                 /\ r.ip = 0 /\ r2.pc = r.call.op
           /\ Named(r2)
           /\ Fits(r2.n, r2.ip, r2.dp, r2.call.op, r2.ino, r2.pc)
<1>0. <<>> \in Seq(DirNames) /\ {"create", "unlink_dp", "link_dp", "open", "openw", "link", "chdir"} \subseteq Points
  BY DEF Points, IpPoints, DpPoints
<1>1. CASE WantsParent(r)
  <2>1. PICK pc \in {"create", "unlink_dp", "link_dp"} :
           pc = CASE r.call.op = "unlink" -> "unlink_dp" [] r.call.op = "link" -> "link_dp" [] OTHER -> "create"
    BY DEF WantsParent
  <2>2. r2 = [r EXCEPT !.dp = r.n, !.n = 0, !.rest = <<>>, !.pc = pc]
    BY <1>1, <2>1 DEF Found
  <2>3. /\ r2.n = 0 /\ r2.puts = r.puts /\ r2.call = r.call /\ r2.ino = 0 /\ r2.rest = <<>>
        /\ r2.dp = r.n /\ r2.ip = r.ip /\ r2.pc = pc
    BY <2>2 DEF Records
  <2>4. r2 \in Records
    <3>1. pc \in Points
      BY <1>0
    <3>q. QED BY <1>0, <2>2, <3>1 DEF Records
  <2>5. LastOf(r) \in DirNames
    <3>0. Len(r.rest) = 1 /\ r.rest # <<>> /\ r.n # 0
      BY <1>1 DEF Slots
    <3>1. LastOf(r) = r.rest[Len(r.rest)] /\ Len(r.rest) = 1
      BY <1>1, <3>0 DEF Named
    <3>2. r.rest \in Seq(DirNames)
      BY DEF Records
    <3>q. QED BY <3>1, <3>2
  <2>6. Named(r2)
    BY <2>3, <2>5 DEF Named, LastOf
  <2>7. Fits(r2.n, r2.ip, r2.dp, r2.call.op, r2.ino, r2.pc)
    BY <1>1, <2>1, <2>3 DEF WantsParent, Slots, Fits, OpAt, IpPoints, DpPoints, CreateIp, CreateDir, Creating, LinkIp, IpLocked, DpLocked, PathOps
  <2>8. r2.pc \in Points /\ r2.pc \notin IputPcs \cup {"unused", "write"}
    BY <1>0, <2>1, <2>3 DEF IputPcs
  <2>q. QED BY <1>1, <2>1, <2>3, <2>4, <2>6, <2>7, <2>8
<1>2. CASE ~WantsParent(r)
  <2>1. r.call.op \in {"open", "openw", "link", "chdir"} /\ r.ip = 0
    BY <1>2 DEF WantsParent, PathOps
  <2>2. r2 = [r EXCEPT !.ip = r.n, !.n = 0, !.rest = <<>>, !.pc = r.call.op]
    BY <1>2 DEF Found
  <2>3. PICK pc \in {"open", "openw", "link", "chdir"} : pc = r.call.op
    BY <2>1
  <2>4. /\ r2.n = 0 /\ r2.puts = r.puts /\ r2.call = r.call /\ r2.ino = 0 /\ r2.rest = <<>>
        /\ r2.ip = r.n /\ r2.dp = 0 /\ r2.pc = pc
    BY <2>2, <2>3 DEF Records
  <2>5. r2 \in Records
    <3>1. r2 = [r EXCEPT !.ip = r.n, !.n = 0, !.rest = <<>>, !.pc = pc]
      BY <2>2, <2>3
    <3>2. pc \in Points
      BY <1>0
    <3>q. QED BY <1>0, <3>1, <3>2 DEF Records
  <2>6. Named(r2)
    BY <2>4 DEF Named
  <2>7. Fits(r2.n, r2.ip, r2.dp, r2.call.op, r2.ino, r2.pc)
    BY <2>1, <2>3, <2>4 DEF Slots, Fits, OpAt, IpPoints, DpPoints, CreateIp, CreateDir, Creating, LinkIp, IpLocked, DpLocked, PathOps
  <2>8. r2.pc \in Points /\ r2.pc \notin IputPcs \cup {"unused", "write"}
    BY <1>0, <2>3, <2>4 DEF IputPcs
  <2>q. QED BY <1>2, <2>1, <2>3, <2>4, <2>5, <2>6, <2>7, <2>8
<1>q. QED BY <1>1, <1>2

(* A turn of namex() trades a reference to a directory for one to its entry, *)
(* or gives up and puts the directory.                                       *)
LEMMA NamexElementR ==
    ASSUME RInv, NEW p \in Procs, NamexElement(p)
    PROVE  MInv'
<1> DEFINE r == proc[p]
<1>0. MInv /\ DiskTypes /\ InCall(p) /\ r.pc = "namex"
  BY DEF RInv, NamexElement, At, InCall, IputPcs
<1>1. Fits(r.n, r.ip, r.dp, r.call.op, r.ino, "namex") /\ r \in Records
  BY <1>0, NothingToPut DEF InCall
<1>2. r.n \in Slots /\ r.dp = 0 /\ r.ino = 0 /\ r.call.op \in PathOps /\ (r.ip # 0 => r.ip \in Slots /\ r.call.op = "link")
  BY <1>1 DEF Records, Fits, OpAt, IpPoints, DpPoints, CreateIp, CreateDir, Creating, LinkIp, IpLocked, DpLocked, PathOps
<1>3. Usable(r.n)
  BY <1>0, <1>2, HeldUsable
<1>4. UNCHANGED <<ofile, ftable, cwd>>
  BY DEF NamexElement
<1>5. icache[r.n].lock = nullptr
  BY <1>0, <1>2, CallLocks DEF NamexElement, CanLock, LocksAt, IpPoints, DpPoints, CreateIp, CreateDir, LinkIp, IpLocked, DpLocked
<1>6. /\ r.rest # <<>> /\ r.rest \in Seq(DirNames) /\ Head(r.rest) \in DirNames /\ Tail(r.rest) \in Seq(DirNames)
      /\ Len(r.rest) \in Nat /\ Named(r) /\ r.puts = <<>>
  BY <1>0, <1>1, NothingToPut DEF NamexElement, Records, InCall
<1>7. Like(Loaded(r.n), r.n, nullptr)
  BY <1>0, <1>3, <1>5, LikeLoaded
<1>8. \A pt \in {"user", "link_bad", "namex", "create", "unlink_dp", "link_dp", "open", "openw", "link", "chdir"} :
          \A ip, dp : \A t \in Slots : ~LocksAt(ip, dp, pt, t)
  BY DEF LocksAt, IpPoints, DpPoints, CreateIp, CreateDir, LinkIp, IpLocked, DpLocked
<1>9. \A ip, dp : \A pt \in {"user", "link_bad", "namex", "create", "unlink_dp", "link_dp", "open", "openw", "link", "chdir"} :
         /\ SetsAt(p, ip, dp, pt, [icache EXCEPT ![r.n] = Loaded(r.n)])
  <2> TAKE ip, dp
  <2> TAKE pt \in {"user", "link_bad", "namex", "create", "unlink_dp", "link_dp", "open", "openw", "link", "chdir"}
  <2>1. \A t \in Slots : ~LocksAt(ip, dp, pt, t) /\ ~LocksAt(r.ip, r.dp, r.pc, t)
    BY <1>0, <1>8
  <2>q. QED BY <1>0, <1>2, <1>5, <1>7, <2>1, SetsAtCell
<1>10. PICK nx : nx = dents[Loaded(r.n).inum][Head(r.rest)]
  OBVIOUS
<1>11. nx \in Inums \cup {0}
  <2>1. Loaded(r.n).inum \in Inums
    BY <1>3, <1>7 DEF Like, Usable
  <2>q. QED BY <1>0, <1>6, <1>10, <2>1 DEF DiskTypes
<1>12. CASE /\ SetSlot(r.n, Loaded(r.n))
            /\ Become(p, IputThen([r EXCEPT !.n = 0], <<r.n>>, NotFound(r)))
  <2>1. /\ NotFound(r) \in Rets /\ NotFound(r) # "unused" /\ NotFound(r) \in {"user", "link_bad"}
        /\ Fits(0, r.ip, r.dp, r.call.op, r.ino, NotFound(r))
    BY <1>1, <1>2, NotFoundFits
  <2>2. SetsAt(p, r.ip, r.dp, NotFound(r), icache')
    BY <1>9, <1>12, <2>1 DEF SetSlot
  <2>q. QED BY <1>0, <1>2, <1>4, <1>12, <2>1, <2>2, AwayN
<1>13. CASE /\ WantsParent(r) /\ Len(r.rest) = 1
            /\ SetSlot(r.n, Loaded(r.n)) /\ Become(p, Found(r))
  <2>1. PICK r2 : r2 = Found(r)
    OBVIOUS
  <2>2. /\ r2 \in Records /\ r2.pc \notin IputPcs \cup {"unused", "write"}
        /\ r2.n = 0 /\ r2.puts = r.puts /\ r2.dp = r.n /\ r2.ip = r.ip /\ r2.pc \in {"create", "unlink_dp", "link_dp"}
        /\ Named(r2) /\ Fits(r2.n, r2.ip, r2.dp, r2.call.op, r2.ino, r2.pc)
    BY <1>1, <1>2, <1>6, <1>13, <2>1, FoundFields
  <2>3. SetsAt(p, r2.ip, r2.dp, r2.pc, icache')
    BY <1>9, <1>13, <2>2 DEF SetSlot
  <2>4. Moves(p, r2, icache')
    BY <1>0, <1>4, <1>6, <1>13, <2>1, <2>2, <2>3 DEF Moves
  <2>5. \A t \in Slots : One(r2.n, t) + One(r2.ip, t) + One(r2.dp, t) = One(r.n, t) + One(r.ip, t) + One(r.dp, t)
    BY <1>2, <2>2 DEF One, Slots
  <2>q. QED BY <1>0, <2>4, <2>5, MoveStep
<1>14. CASE /\ nx # 0 /\ ~(WantsParent(r) /\ Len(r.rest) = 1)
            /\ icache' = SetAndIget(r.n, Loaded(r.n), nx)
            /\ Become(p, IputThen([r EXCEPT !.n = IgetSlot(nx), !.rest = Tail(@)], <<r.n>>, "namex"))
  <2>0. nx \in Inums
    BY <1>11, <1>14
  <2>1. PICK u : u = IgetSlot(nx)
    OBVIOUS
  <2>2. PICK c : c = [icache EXCEPT ![r.n] = Loaded(r.n)]
    OBVIOUS
  <2>3. Slot4(u, nx) /\ u \in Slots /\ icache' = Got(c, u, nx)
    BY <1>0, <1>3, <1>7, <1>14, <2>0, <2>1, <2>2, SetAndGot
  <2>4. PICK r1 : r1 = [r EXCEPT !.n = u, !.rest = Tail(@)]
    OBVIOUS
  <2>5. /\ r1 \in Records /\ r1.n = u /\ r1.rest = Tail(r.rest) /\ r1.ip = r.ip /\ r1.dp = r.dp /\ r1.call = r.call
        /\ r1.ino = r.ino
    BY <1>1, <1>6, <2>3, <2>4 DEF Records
  <2>6. Fits(r1.n, r1.ip, r1.dp, r1.call.op, r1.ino, "namex")
    BY <1>1, <1>2, <2>3, <2>5 DEF Slots, Fits, OpAt, IpPoints, DpPoints, CreateIp, CreateDir, Creating, LinkIp, IpLocked, DpLocked, PathOps
  <2>7. Named(r1)
    <3>1. Tail(r.rest) # <<>> => Tail(r.rest)[Len(Tail(r.rest))] = r.rest[Len(r.rest)]
      <4>1. PICK tl : tl = Tail(r.rest)
        OBVIOUS
      <4>2. /\ tl \in Seq(DirNames) /\ Len(tl) = Len(r.rest) - 1 /\ Len(tl) \in Nat
            /\ \A j \in 1..Len(tl) : tl[j] = r.rest[j + 1]
        BY <1>6, <4>1
      <4>3. tl # <<>> => Len(tl) \in 1..Len(tl) /\ Len(tl) + 1 = Len(r.rest)
        BY <1>6, <4>2
      <4>q. QED BY <4>1, <4>2, <4>3
    <3>q. QED BY <1>2, <1>6, <2>5, <3>1 DEF Named, LastOf, WantsParent, Slots
  <2>8. SetsAt(p, r1.ip, r1.dp, "namex", c)
    BY <1>9, <2>2
  <2>9. Enters(p, r1, r.n, "namex", c)
    BY <1>0, <1>2, <1>4, <1>14, <2>1, <2>4, <2>5, <2>6, <2>7, <2>8, RetsAre DEF Enters
  <2>10. \A t \in Slots : One(r1.n, t) + One(r1.ip, t) + One(r1.dp, t) + One(r.n, t)
                          = One(r.n, t) + One(r.ip, t) + One(r.dp, t) + One(u, t)
    BY <2>5 DEF One
  <2>q. QED BY <1>0, <2>0, <2>3, <2>9, <2>10, AwayGotStep
<1>q. QED BY <1>10, <1>12, <1>13, <1>14 DEF NamexElement

(* The end of namex(): the call has the inode that the lookup has reached. *)
LEMMA NamexEndR ==
    ASSUME RInv, NEW p \in Procs, NamexEnd(p)
    PROVE  MInv'
<1> DEFINE r == proc[p]
<1>0. MInv /\ DiskTypes /\ InCall(p) /\ r.pc = "namex"
  BY DEF RInv, NamexEnd, At, InCall, IputPcs
<1>1. Fits(r.n, r.ip, r.dp, r.call.op, r.ino, "namex") /\ r \in Records
  BY <1>0, NothingToPut DEF InCall
<1>2. r.n \in Slots /\ r.dp = 0 /\ r.ino = 0 /\ r.call.op \in PathOps /\ (r.ip # 0 => r.ip \in Slots /\ r.call.op = "link")
  BY <1>1 DEF Records, Fits, OpAt, IpPoints, DpPoints, CreateIp, CreateDir, Creating, LinkIp, IpLocked, DpLocked, PathOps
<1>3. Usable(r.n)
  BY <1>0, <1>2, HeldUsable
<1>4. UNCHANGED <<ofile, ftable, cwd>>
  BY DEF NamexEnd
<1>5. r.rest = <<>> /\ icache' = icache /\ Named(r) /\ r.puts = <<>>
  BY <1>0, NothingToPut DEF NamexEnd, InCall
<1>6. \A ip, dp : \A pt \in {"user", "link_bad", "open", "openw", "link", "chdir"} : SetsAt(p, ip, dp, pt, icache')
  <2> TAKE ip, dp
  <2> TAKE pt \in {"user", "link_bad", "open", "openw", "link", "chdir"}
  <2>1. \A t \in Slots : ~LocksAt(ip, dp, pt, t) /\ ~LocksAt(r.ip, r.dp, r.pc, t)
    BY <1>0 DEF LocksAt, IpPoints, DpPoints, CreateIp, CreateDir, LinkIp, IpLocked, DpLocked
  <2>q. QED BY <1>0, <1>5, <2>1, SetsAtNone
<1>7. CASE WantsParent(r)
  <2>0. Become(p, IputThen([r EXCEPT !.n = 0], <<r.n>>, NotFound(r)))
    BY <1>7 DEF NamexEnd
  <2>1. /\ NotFound(r) \in Rets /\ NotFound(r) # "unused" /\ NotFound(r) \in {"user", "link_bad"}
        /\ Fits(0, r.ip, r.dp, r.call.op, r.ino, NotFound(r))
    BY <1>1, <1>2, NotFoundFits
  <2>2. SetsAt(p, r.ip, r.dp, NotFound(r), icache')
    BY <1>6, <2>1
  <2>q. QED BY <1>0, <1>2, <1>4, <2>0, <2>1, <2>2, AwayN
<1>8. CASE ~WantsParent(r)
  <2>0. Become(p, Found(r))
    BY <1>8 DEF NamexEnd
  <2>1. PICK r2 : r2 = Found(r)
    OBVIOUS
  <2>2. /\ r2 \in Records /\ r2.pc \notin IputPcs \cup {"unused", "write"}
        /\ r2.n = 0 /\ r2.puts = r.puts /\ r2.ip = r.n /\ r2.dp = 0 /\ r.ip = 0 /\ r2.pc \in {"open", "openw", "link", "chdir"}
        /\ Named(r2) /\ Fits(r2.n, r2.ip, r2.dp, r2.call.op, r2.ino, r2.pc)
    BY <1>1, <1>2, <1>5, <1>8, <2>1, FoundFields
  <2>3. SetsAt(p, r2.ip, r2.dp, r2.pc, icache')
    BY <1>6, <2>2
  <2>4. Moves(p, r2, icache')
    BY <1>0, <1>4, <1>5, <2>0, <2>1, <2>2, <2>3 DEF Moves
  <2>5. \A t \in Slots : One(r2.n, t) + One(r2.ip, t) + One(r2.dp, t) = One(r.n, t) + One(r.ip, t) + One(r.dp, t)
    BY <1>2, <2>2 DEF One, Slots
  <2>q. QED BY <1>0, <2>4, <2>5, MoveStep
<1>q. QED BY <1>7, <1>8

(* unlink() clears the entry, and puts the directory for a file; a directory *)
(* that is not empty is put.                                                 *)
LEMMA UnlinkEntryR ==
    ASSUME RInv, NEW p \in Procs, UnlinkEntry(p)
    PROVE  MInv'
<1> DEFINE r == proc[p]
<1>0. MInv /\ DiskTypes /\ InCall(p) /\ r.pc = "unlink_ip"
  BY DEF RInv, UnlinkEntry, At, InCall, IputPcs
<1>1. Fits(r.n, r.ip, r.dp, r.call.op, r.ino, "unlink_ip") /\ r \in Records
  BY <1>0, NothingToPut DEF InCall
<1>2. r.n = 0 /\ r.ip \in Slots /\ r.dp \in Slots /\ r.ino = 0
  BY <1>1 DEF Records, Fits, OpAt, IpPoints, DpPoints, CreateIp, CreateDir, Creating, LinkIp, IpLocked, DpLocked, PathOps
<1>3. Usable(r.ip) /\ Usable(r.dp)
  BY <1>0, <1>2, HeldUsable
<1>4. UNCHANGED <<ofile, ftable, cwd>>
  BY DEF UnlinkEntry
<1>5. icache[r.ip].lock = nullptr /\ icache[r.dp].lock = p
  BY <1>0, <1>2, CallLocks DEF UnlinkEntry, CanLock, LocksAt, IpPoints, DpPoints, CreateIp, CreateDir, LinkIp, IpLocked, DpLocked
<1>9. r.ip # r.dp
  BY <1>5, Ext2Assumption
<1>6. CASE Locked(r.ip, p).type = "dir" /\ ~IsDirEmpty(r.ip)
  <2>1. SetSlot(r.ip, Unlocked(Locked(r.ip, p))) /\ Become(p, IputThen([r EXCEPT !.ip = 0], <<r.ip>>, "unlink_bad"))
    BY <1>6 DEF UnlinkEntry
  <2>2. Like(Unlocked(Locked(r.ip, p)), r.ip, nullptr)
    BY <1>0, <1>3, <1>5, LikeLocked, LikeUnlocked
  <2>3. Fits(r.n, 0, r.dp, r.call.op, r.ino, "unlink_bad")
    BY <1>1, <1>2, <1>9 DEF Slots, Fits, OpAt, IpPoints, DpPoints, CreateIp, CreateDir, Creating, LinkIp, IpLocked, DpLocked, PathOps
  <2>4. /\ nullptr = IF LocksAt(0, r.dp, "unlink_bad", r.ip) THEN p ELSE nullptr
        /\ \A t \in Slots \ {r.ip} : LocksAt(0, r.dp, "unlink_bad", t) <=> LocksAt(r.ip, r.dp, r.pc, t)
    BY <1>0, <1>2, <1>9, Ext2Assumption DEF Slots, LocksAt, IpPoints, DpPoints, CreateIp, CreateDir, LinkIp, IpLocked, DpLocked
  <2>5. SetsAt(p, 0, r.dp, "unlink_bad", icache')
    BY <1>0, <1>2, <1>5, <2>1, <2>2, <2>4, SetsAtLike
  <2>6. "unlink_bad" \in Rets
    BY RetsAre DEF Points, IpPoints, DpPoints, CreateIp, CreateDir, LinkIp, IputPcs
  <2>q. QED BY <1>0, <1>2, <1>4, <2>1, <2>3, <2>5, <2>6, AwayIp
<1>7. CASE Locked(r.ip, p).type = "dir" /\ IsDirEmpty(r.ip)
  <2>1. SetSlot(r.ip, Locked(r.ip, p)) /\ Become(p, Goto(p, "unlink_parent"))
    BY <1>7 DEF UnlinkEntry
  <2>2. Like(Locked(r.ip, p), r.ip, p)
    BY <1>0, <1>3, <1>5, LikeLocked
  <2>3. Fits(r.n, r.ip, r.dp, r.call.op, r.ino, "unlink_parent")
    BY <1>1, <1>2, <1>9 DEF Slots, Fits, OpAt, IpPoints, DpPoints, CreateIp, CreateDir, Creating, LinkIp, IpLocked, DpLocked, PathOps
  <2>4. /\ p = IF LocksAt(r.ip, r.dp, "unlink_parent", r.ip) THEN p ELSE nullptr
        /\ \A t \in Slots \ {r.ip} : LocksAt(r.ip, r.dp, "unlink_parent", t) <=> LocksAt(r.ip, r.dp, r.pc, t)
    BY <1>0, <1>2, <1>9, Ext2Assumption DEF Slots, LocksAt, IpPoints, DpPoints, CreateIp, CreateDir, LinkIp, IpLocked, DpLocked
  <2>5. SetsAt(p, r.ip, r.dp, "unlink_parent", icache')
    BY <1>0, <1>2, <1>5, <2>1, <2>2, <2>4, SetsAtLike
  <2>6. "unlink_parent" \in Points /\ "unlink_parent" \notin IputPcs \cup {"unused", "write"}
    BY RetsAre DEF Points, IpPoints, DpPoints, CreateIp, CreateDir, LinkIp, IputPcs
  <2>q. QED BY <1>0, <1>2, <1>4, <2>1, <2>3, <2>5, <2>6, GoesOn
<1>8. CASE Locked(r.ip, p).type # "dir"
  <2>1. /\ icache' = [icache EXCEPT ![r.ip] = Locked(r.ip, p), ![r.dp] = Unlocked(@)]
        /\ Become(p, IputThen([r EXCEPT !.dp = 0], <<r.dp>>, "unlink_dec"))
    BY <1>8 DEF UnlinkEntry
  <2>2. Like(Locked(r.ip, p), r.ip, p) /\ Like(Unlocked(icache[r.dp]), r.dp, nullptr)
    BY <1>0, <1>3, LikeLocked, LikeLoaded, LikeUnlocked
  <2>3. icache \in [Slots -> SlotRecords]
    BY <1>0 DEF MInv, MemTypes
  <2>4. /\ icache'[r.ip] = Locked(r.ip, p) /\ icache'[r.dp] = Unlocked(icache[r.dp])
        /\ \A t \in Slots \ {r.ip, r.dp} : icache'[t] = icache[t]
        /\ icache' \in [Slots -> SlotRecords]
    BY <1>2, <1>9, <2>1, <2>2, <2>3 DEF Like
  <2>5. Fits(r.n, r.ip, 0, r.call.op, r.ino, "unlink_dec")
    BY <1>1, <1>2 DEF Slots, Fits, OpAt, IpPoints, DpPoints, CreateIp, CreateDir, Creating, LinkIp, IpLocked, DpLocked, PathOps
  <2>6. \A t \in Slots : /\ LocksAt(r.ip, 0, "unlink_dec", t) <=> t = r.ip
                         /\ LocksAt(r.ip, r.dp, r.pc, t) <=> t = r.dp
    BY <1>0, <1>2 DEF Slots, LocksAt, IpPoints, DpPoints, CreateIp, CreateDir, LinkIp, IpLocked, DpLocked
  <2>7. SetsAt(p, r.ip, 0, "unlink_dec", icache')
    BY <1>0, <1>2, <1>5, <1>9, <2>2, <2>4, <2>6, CallLocks, Ext2Assumption DEF SetsAt, Like
  <2>q. QED BY <1>0, <1>2, <1>4, <2>1, <2>5, <2>7, RetsAre, AwayDp
<1>q. QED BY <1>6, <1>7, <1>8

(* The process is in iput(). *)
LEMMA Putting ==
    ASSUME MInv, NEW p \in Procs, proc[p].pc \in IputPcs
    PROVE  /\ proc[p] \in Records /\ Shape(proc[p]) /\ Point(proc[p]) = proc[p].ret /\ proc[p].pc # "write"
           /\ proc[p].puts # <<>> /\ Len(proc[p].puts) \in 1..2
           /\ Head(proc[p].puts) = Put(proc[p], 1) /\ Put(proc[p], 1) \in Slots
           /\ Usable(Put(proc[p], 1))
           /\ Gone(proc[p]) => \A fd \in Fds : ofile[p][fd] = 0
           /\ cwd[p] # 0 <=> ~Gone(proc[p])
           /\ icache \in [Slots -> SlotRecords] /\ cwd \in [Procs -> Slots \cup {0}]
<1> DEFINE r == proc[p]
<1>1. r \in Records /\ Shape(r) /\ Point(r) = r.ret /\ r.pc # "write"
  BY DEF MInv, Shapes, Point, IputPcs
<1>2. r.puts \in Seq(Slots)
  BY <1>1 DEF Records
<1>3. Put(r, 1) # 0 /\ Len(r.puts) <= 2
  BY <1>1 DEF Shape
<1>4. Len(r.puts) \in Nat /\ \A j \in 1..Len(r.puts) : r.puts[j] \in Slots
  BY <1>2
<1>5. 1 <= Len(r.puts)
  BY <1>3, <1>4 DEF Put
<1>6. Put(r, 1) = r.puts[1] /\ Put(r, 1) \in Slots
  BY <1>4, <1>5 DEF Put
<1>7. r.puts # <<>>
  BY <1>2, <1>5
<1>8. Head(r.puts) = r.puts[1]
  BY <1>2, <1>7
<1>9. Usable(Put(r, 1))
  BY <1>6, HeldUsable
<1>10. /\ Gone(r) => \A fd \in Fds : ofile[p][fd] = 0
       /\ cwd[p] # 0 <=> ~Gone(r)
       /\ icache \in [Slots -> SlotRecords] /\ cwd \in [Procs -> Slots \cup {0}]
  BY DEF MInv, OwnsOK, MemTypes
<1>11. Head(r.puts) = Put(r, 1)
  BY <1>6, <1>8
<1>12. Len(r.puts) \in 1..2
  <2>1. PICK k : k = Len(r.puts)
    OBVIOUS
  <2>2. k \in Nat /\ 1 <= k /\ k <= 2
    BY <1>2, <1>3, <1>5, <2>1
  <2>3. k \in 1..2
    BY <2>2
  <2>q. QED BY <2>1, <2>3, Zenon
<1>q. QED BY <1>1, <1>6, <1>7, <1>9, <1>10, <1>11, <1>12

(* A step inside iput() that keeps what the process has. *)
LEMMA PutStays ==
    ASSUME MInv, NEW p \in Procs, proc[p].pc \in IputPcs, NEW pc \in IputPcs,
           Become(p, Goto(p, pc)), UNCHANGED <<ofile, ftable, cwd>>,
           NEW s, s = Put(proc[p], 1), ~LocksAt(proc[p].ip, proc[p].dp, Point(proc[p]), s),
           NEW i, NEW l, Like(i, s, l), l = IF pc \in FreePcs THEN p ELSE nullptr,
           icache[s].lock \in {p, nullptr},
           icache' = [icache EXCEPT ![s] = i]
    PROVE  MInv'
<1> DEFINE r == proc[p]
<1>0. /\ r \in Records /\ Shape(r) /\ s \in Slots /\ Usable(s) /\ Point(r) = r.ret /\ r.pc # "write"
      /\ Gone(r) => \A fd \in Fds : ofile[p][fd] = 0
      /\ cwd[p] # 0 <=> ~Gone(r)
      /\ icache \in [Slots -> SlotRecords] /\ cwd \in [Procs -> Slots \cup {0}]
  BY Putting
<1>1. PICK r2 : r2 = [r EXCEPT !.pc = pc]
  OBVIOUS
<1>2. /\ r2 \in Records
      /\ r2.pc = pc /\ r2.puts = r.puts /\ r2.ret = r.ret /\ r2.call = r.call /\ r2.rest = r.rest
      /\ r2.n = r.n /\ r2.ip = r.ip /\ r2.dp = r.dp /\ r2.ino = r.ino
      /\ Put(r2, 1) = Put(r, 1) /\ Put(r2, 2) = Put(r, 2)
  BY <1>0, <1>1, GotoFields
<1>3. Point(r2) = r.ret
  BY <1>2 DEF Point
<1>4. Shape(r2)
  <2>1. Named(r2)
    BY <1>0, <1>2 DEF Shape, Named, LastOf, WantsParent
  <2>2. Fits(r2.n, r2.ip, r2.dp, r2.call.op, r2.ino, Point(r2))
    BY <1>0, <1>2, <1>3 DEF Shape
  <2>3. Put(r2, 1) # 0
    BY <1>0, <1>2 DEF Slots
  <2>q. QED BY <1>0, <1>2, <1>3, <2>1, <2>2, <2>3 DEF Shape
<1>5. Mine(p, r2)
  BY <1>1 DEF Mine, Become, Goto
<1>6. Gone(r2) <=> Gone(r)
  BY <1>0, <1>3 DEF Gone
<1>7. Stepping(p, r2)
  BY <1>0, <1>2, <1>4, <1>5, <1>6 DEF Stepping
<1>8. \A t \in Slots : icache[t].lock = p <=> Locks(r, t)
  BY <1>0 DEF MInv, LocksOK
<1>9. \A t \in Slots \ {s} : Locks(r2, t) <=> Locks(r, t)
  BY <1>0, <1>2, <1>3 DEF Locks
<1>10. Locks(r2, s) <=> pc \in FreePcs
  BY <1>0, <1>2, <1>3 DEF Locks
<1>11. i \in SlotRecords /\ i.ref = icache[s].ref /\ i.inum = icache[s].inum /\ i.lock = l
  BY DEF Like
<1>12. l \in {p, nullptr} /\ (l = p <=> pc \in FreePcs)
  BY Ext2Assumption
<1>13. Sets(p, r2, icache')
  <2>1. icache' \in [Slots -> SlotRecords] /\ r2.pc # "write"
    BY <1>0, <1>2, <1>11 DEF IputPcs
  <2>2. \A t \in Slots \ {s} : icache'[t] = icache[t]
    BY <1>0
  <2>3. icache'[s] = i
    BY <1>0
  <2>q. QED BY <1>8, <1>9, <1>10, <1>11, <1>12, <2>1, <2>2, <2>3 DEF Sets
<1>14. SameHoldings(p, r2)
  BY <1>2 DEF SameHoldings, Weight
<1>q. QED BY <1>7, <1>13, <1>14, KeepStep

(* The lock of the inode that iput() frees. *)
LEMMA Freeing ==
    ASSUME MInv, NEW p \in Procs, proc[p].pc \in FreePcs, NEW s, s = Put(proc[p], 1)
    PROVE  /\ proc[p].pc \in IputPcs /\ icache[s].lock = p
           /\ ~LocksAt(proc[p].ip, proc[p].dp, Point(proc[p]), s)
           /\ Head(proc[p].puts) = s /\ Usable(s)
<1>1. proc[p].pc \in IputPcs
  BY DEF IputPcs, FreePcs
<1>2. Shape(proc[p]) /\ s \in Slots /\ Usable(s) /\ Head(proc[p].puts) = s /\ proc[p].pc # "write"
  BY <1>1, Putting
<1>3. icache[s].lock = p
  BY <1>2 DEF MInv, LocksOK, Locks
<1>q. QED BY <1>1, <1>2, <1>3 DEF Shape

(* The first half of iput() keeps the lock of an inode that it will free. *)
LEMMA IputLockR ==
    ASSUME RInv, NEW p \in Procs, IputLock(p)
    PROVE  MInv'
<1> DEFINE r == proc[p]
<1>0. MInv /\ r.pc = "iput" /\ r.pc \in IputPcs
  BY DEF RInv, IputLock, At, IputPcs
<1>1. PICK s : s = Put(r, 1)
  OBVIOUS
<1>2. s \in Slots /\ Usable(s) /\ Head(r.puts) = s /\ r.pc # "write"
  BY <1>0, <1>1, Putting
<1>3. icache[s].lock = nullptr
  BY <1>2 DEF IputLock, CanLock
<1>4. ~LocksAt(r.ip, r.dp, Point(r), s)
  <2>1. ~Locks(r, s)
    BY <1>0, <1>2, <1>3, Ext2Assumption DEF MInv, LocksOK
  <2>q. QED BY <2>1 DEF Locks
<1>5. PICK pc \in {"ifree", "iput_drop"} : pc = IF icache[s].valid /\ icache[s].nlink = 0 /\ icache[s].ref = 1 THEN "ifree" ELSE "iput_drop"
  OBVIOUS
<1>6. pc \in IputPcs /\ (pc \in FreePcs <=> pc = "ifree")
  BY DEF IputPcs, FreePcs
<1>7. PICK l : l = IF pc \in FreePcs THEN p ELSE nullptr
  OBVIOUS
<1>8. icache' = [icache EXCEPT ![s] = [icache[s] EXCEPT !.lock = l]] /\ Become(p, Goto(p, pc))
  BY <1>2, <1>5, <1>6, <1>7 DEF IputLock, SetSlot
<1>9. Like([icache[s] EXCEPT !.lock = l], s, l)
  BY <1>2, <1>7, LockFields DEF Like, Usable
<1>10. UNCHANGED <<ofile, ftable, cwd>>
  BY DEF IputLock
<1>q. QED BY <1>0, <1>1, <1>3, <1>4, <1>6, <1>7, <1>8, <1>9, <1>10, PutStays

(* ifree() keeps the lock. *)
LEMMA IfreeR ==
    ASSUME RInv, NEW p \in Procs, Ifree(p)
    PROVE  MInv'
<1> DEFINE r == proc[p]
<1>0. MInv /\ r.pc = "ifree" /\ r.pc \in FreePcs
  BY DEF RInv, Ifree, At, FreePcs
<1>1. PICK s : s = Put(r, 1)
  OBVIOUS
<1>2. /\ r.pc \in IputPcs /\ icache[s].lock = p /\ ~LocksAt(r.ip, r.dp, Point(r), s)
      /\ Head(r.puts) = s /\ Usable(s)
  BY <1>0, <1>1, Freeing
<1>3. PICK pc \in {"bfree", "ifree_update"} : pc = IF icache[s].blk # 0 THEN "bfree" ELSE "ifree_update"
  OBVIOUS
<1>4. pc \in IputPcs /\ pc \in FreePcs
  BY DEF IputPcs, FreePcs
<1>5. icache' = icache /\ Become(p, Goto(p, pc)) /\ UNCHANGED <<ofile, ftable, cwd>>
  BY <1>2, <1>3 DEF Ifree
<1>6. icache' = [icache EXCEPT ![s] = icache[s]]
  BY <1>0, <1>2, <1>5 DEF Usable, MInv, MemTypes
<1>7. Like(icache[s], s, p)
  BY <1>2 DEF Like, Usable
<1>q. QED BY <1>0, <1>1, <1>2, <1>4, <1>5, <1>6, <1>7, PutStays

(* bfree() keeps the lock. *)
LEMMA BfreeR ==
    ASSUME RInv, NEW p \in Procs, Bfree(p)
    PROVE  MInv'
<1> DEFINE r == proc[p]
<1>0. MInv /\ r.pc = "bfree" /\ r.pc \in FreePcs
  BY DEF RInv, Bfree, At, FreePcs
<1>1. PICK s : s = Put(r, 1)
  OBVIOUS
<1>2. /\ r.pc \in IputPcs /\ icache[s].lock = p /\ ~LocksAt(r.ip, r.dp, Point(r), s)
      /\ Head(r.puts) = s /\ Usable(s)
  BY <1>0, <1>1, Freeing
<1>4. "ifree_update" \in IputPcs /\ "ifree_update" \in FreePcs
  BY DEF IputPcs, FreePcs
<1>5. Become(p, Goto(p, "ifree_update")) /\ UNCHANGED <<ofile, ftable, cwd>>
  BY DEF Bfree
<1>6. icache' = [icache EXCEPT ![s] = [icache[s] EXCEPT !.blk = 0]]
  BY <1>2 DEF Bfree, SetSlot
<1>7. Like([icache[s] EXCEPT !.blk = 0], s, p)
  BY <1>2, LikeBlk DEF Like, Usable
<1>q. QED BY <1>0, <1>1, <1>2, <1>4, <1>5, <1>6, <1>7, PutStays

(* iput() releases the lock of the inode that it has freed. *)
LEMMA IfreeUpdateR ==
    ASSUME RInv, NEW p \in Procs, IfreeUpdate(p)
    PROVE  MInv'
<1> DEFINE r == proc[p]
<1>0. MInv /\ r.pc = "ifree_update" /\ r.pc \in FreePcs
  BY DEF RInv, IfreeUpdate, At, FreePcs
<1>1. PICK s : s = Put(r, 1)
  OBVIOUS
<1>2. /\ r.pc \in IputPcs /\ icache[s].lock = p /\ ~LocksAt(r.ip, r.dp, Point(r), s)
      /\ Head(r.puts) = s /\ Usable(s)
  BY <1>0, <1>1, Freeing
<1>4. "iput_drop" \in IputPcs /\ "iput_drop" \notin FreePcs
  BY DEF IputPcs, FreePcs
<1>5. Become(p, Goto(p, "iput_drop")) /\ UNCHANGED <<ofile, ftable, cwd>>
  BY DEF IfreeUpdate
<1>6. PICK i : i = [Unlocked([icache[s] EXCEPT !.type = "none"]) EXCEPT !.valid = FALSE]
  OBVIOUS
<1>7. icache' = [icache EXCEPT ![s] = i]
  BY <1>2, <1>6 DEF IfreeUpdate, SetSlot
<1>8. Like(i, s, nullptr)
  BY <1>2, <1>6 DEF Like, Usable, Unlocked, SlotRecords, Types
<1>q. QED BY <1>0, <1>1, <1>2, <1>4, <1>5, <1>7, <1>8, PutStays

(* A process in user mode, and a slot of the process table without one. *)
LEMMA UserFields ==
    /\ User \in Records /\ NoProc \in Records
    /\ Put(User, 1) = 0 /\ Put(User, 2) = 0 /\ Put(NoProc, 1) = 0 /\ Put(NoProc, 2) = 0
    /\ User.pc = "user" /\ User.n = 0 /\ User.ip = 0 /\ User.dp = 0 /\ User.ino = 0 /\ User.puts = <<>>
    /\ NoProc.pc = "unused" /\ NoProc.n = 0 /\ NoProc.ip = 0 /\ NoProc.dp = 0 /\ NoProc.puts = <<>>
    /\ Point(User) = "user" /\ Point(NoProc) = "unused" /\ ~Gone(User) /\ Gone(NoProc)
    /\ Shape(User) /\ Shape(NoProc)
    /\ \A s \in Slots : ~Locks(User, s) /\ ~Locks(NoProc, s)
<1>0. {"user", "unused"} \subseteq Points /\ "user" \in Rets /\ {"user", "unused"} \cap IputPcs = {}
      /\ {"user", "unused"} \cap FreePcs = {}
  BY DEF Points, Rets, IputPcs, FreePcs
<1>1. <<>> \in Seq(DirNames) /\ <<>> \in Seq(Slots) /\ Len(<<>>) = 0
  OBVIOUS
<1>2. User \in Records
  BY <1>0, <1>1 DEF User, Records, NoCall
<1>3. NoProc \in Records
  BY <1>0, <1>2 DEF NoProc, Records
<1>4. /\ User.pc = "user" /\ User.n = 0 /\ User.ip = 0 /\ User.dp = 0 /\ User.ino = 0 /\ User.puts = <<>>
      /\ User.call.op = "none"
  BY DEF User
<1>5. /\ NoProc.pc = "unused" /\ NoProc.n = 0 /\ NoProc.ip = 0 /\ NoProc.dp = 0 /\ NoProc.puts = <<>>
      /\ NoProc.ino = 0 /\ NoProc.call.op = "none"
  BY DEF User, NoProc
<1>6. Put(User, 1) = 0 /\ Put(User, 2) = 0 /\ Put(NoProc, 1) = 0 /\ Put(NoProc, 2) = 0
  BY <1>1, <1>4, <1>5 DEF Put
<1>7. Point(User) = "user" /\ Point(NoProc) = "unused"
  BY <1>0, <1>4, <1>5 DEF Point
<1>8. /\ Fits(0, 0, 0, "none", 0, "user") /\ Fits(0, 0, 0, "none", 0, "unused")
  BY DEF Fits, OpAt, IpPoints, DpPoints, CreateIp, CreateDir, Creating, LinkIp, IpLocked, DpLocked, PathOps
<1>9. Shape(User)
  BY <1>0, <1>1, <1>4, <1>6, <1>7, <1>8 DEF Shape, Named
<1>10. Shape(NoProc)
  BY <1>0, <1>1, <1>5, <1>6, <1>7, <1>8 DEF Shape, Named
<1>11. \A s \in Slots : ~Locks(User, s) /\ ~Locks(NoProc, s)
  BY <1>0, <1>4, <1>5, <1>7 DEF Slots, Locks, LocksAt, IpPoints, DpPoints, CreateIp, CreateDir, LinkIp, IpLocked, DpLocked
<1>12. ~Gone(User) /\ Gone(NoProc)
  BY <1>7 DEF Gone
<1>q. QED BY <1>2, <1>3, <1>4, <1>5, <1>6, <1>7, <1>9, <1>10, <1>11, <1>12

(* The locks of a process that is not in the middle of a write. *)
LEMMA LocksAre ==
    ASSUME MInv, NEW p \in Procs, proc[p].pc # "write", NEW r, \A s \in Slots : Locks(r, s) <=> Locks(proc[p], s),
           r.pc # "write", \A s \in Slots : icache'[s].lock = icache[s].lock
    PROVE  Locking(p, r)
BY DEF Locking, MInv, LocksOK

(* The end of iput(): the call has another inode to put, or goes on. *)
LEMMA TailOf ==
    ASSUME NEW q \in Seq(Slots), q # <<>>, Len(q) <= 2
    PROVE  /\ Tail(q) \in Seq(Slots)
           /\ Tail(q) = <<>> => Len(q) = 1
           /\ Tail(q) # <<>> => Len(q) = 2 /\ Len(Tail(q)) = 1 /\ Tail(q)[1] = q[2] /\ q[2] \in Slots
<1>1. PICK k, tl : k = Len(q) /\ tl = Tail(q)
  OBVIOUS
<1>2. k \in Nat /\ k # 0 /\ k <= 2
  BY <1>1, EmptySeq
<1>3. tl \in Seq(Slots) /\ Len(tl) = k - 1 /\ \A j \in 1..Len(tl) : tl[j] = q[j + 1]
  BY <1>1, HeadTailProperties, Zenon
<1>4. tl = <<>> => Len(tl) = 0
  BY EmptySeq, Zenon
<1>5. tl # <<>> => Len(tl) # 0
  BY <1>3, EmptySeq
<1>6. \A j \in 1..k : q[j] \in Slots
  BY <1>1, ElementOfSeq, Zenon
<1> HIDE <1>1
<1>7. tl = <<>> => k = 1
  BY <1>2, <1>3, <1>4
<1>8. tl # <<>> => k = 2 /\ Len(tl) = 1
  BY <1>2, <1>3, <1>5
<1>9. k = 2 => q[2] \in Slots
  BY <1>6
<1>10. Len(tl) = 1 => tl[1] = q[2]
  <2>1. PICK m : m = Len(tl)
    OBVIOUS
  <2>2. \A j \in 1..m : tl[j] = q[j + 1]
    BY <1>3, <2>1, Zenon
  <2>3. m = 1 => tl[1] = q[1 + 1]
    BY <2>2
  <2>4. 1 + 1 = 2
    OBVIOUS
  <2>q. QED BY <2>1, <2>3, <2>4, Zenon
<1>q. QED BY <1>1, <1>3, <1>7, <1>8, <1>9, <1>10, Zenon

(* What is left of record r of a process that has done its first iput(). *)
Left(r, r2) ==
    /\ r2 \in Records /\ Shape(r2) /\ r2.pc # "write"
    /\ r2.n = r.n /\ r2.ip = r.ip /\ r2.dp = r.dp /\ Put(r2, 1) = Put(r, 2) /\ Put(r2, 2) = 0
    /\ Gone(r2) <=> Gone(r)
    /\ \A s \in Slots : Locks(r2, s) <=> Locks(r, s)

(* After the first of two iput()s the second follows. *)
LEMMA LeftMore ==
    ASSUME NEW r \in Records, Shape(r), r.pc = "iput_drop", Len(r.puts) = 2, NEW tl \in Seq(Slots), Len(tl) = 1,
           tl[1] = r.puts[2], r.puts[2] \in Slots,
           NEW r2, r2 = [r EXCEPT !.puts = tl, !.pc = "iput"]
    PROVE  Left(r, r2)
<1>1. r.ret \in Rets /\ {"iput", "iput_drop"} \cap FreePcs = {} /\ {"iput", "iput_drop"} \subseteq IputPcs
  BY DEF Records, IputPcs, FreePcs
<1>2. /\ r2.pc = "iput" /\ r2.puts = tl /\ r2.ret = r.ret /\ r2.call = r.call /\ r2.rest = r.rest
      /\ r2.n = r.n /\ r2.ip = r.ip /\ r2.dp = r.dp /\ r2.ino = r.ino
  BY DEF Records
<1>3. r2 \in Records
  BY <1>1 DEF Records
<1>9. 2 <= Len(r.puts) /\ 1 <= Len(r2.puts) /\ ~(2 <= Len(r2.puts)) /\ Len(r2.puts) <= 2 /\ r.puts[2] # 0
  <2>1. PICK k : k = Len(r2.puts)
    OBVIOUS
  <2>2. k = 1
    BY <1>2, <2>1, Zenon
  <2>3. 1 <= k /\ ~(2 <= k) /\ k <= 2
    BY <2>2
  <2>4. r.puts[2] # 0
    BY DEF Slots
  <2>5. 2 <= Len(r.puts)
    <3>1. 2 <= 2
      OBVIOUS
    <3>q. QED BY <3>1, Zenon
  <2>q. QED BY <2>1, <2>3, <2>4, <2>5, Zenon
<1>4. Put(r, 2) = r.puts[2] /\ Put(r2, 1) = tl[1] /\ Put(r2, 2) = 0 /\ Put(r, 2) # 0
  BY <1>2, <1>9, Zenon DEF Put
<1>5. Point(r) = r.ret /\ Point(r2) = r.ret
  BY <1>1, <1>2 DEF Point
<1>6. Shape(r2)
  <2>1. Named(r2)
    BY <1>2 DEF Shape, Named, LastOf, WantsParent
  <2>2. Fits(r2.n, r2.ip, r2.dp, r2.call.op, r2.ino, Point(r2))
    BY <1>2, <1>5 DEF Shape
  <2>3. Put(r2, 1) # 0
    BY <1>4
  <2>q. QED BY <1>1, <1>2, <1>4, <1>9, <2>1, <2>2, <2>3 DEF Shape
<1>7. \A s \in Slots : Locks(r2, s) <=> Locks(r, s)
  BY <1>1, <1>2, <1>5 DEF Locks
<1>8. Gone(r2) <=> Gone(r)
  BY <1>5 DEF Gone
<1>q. QED BY <1>2, <1>3, <1>4, <1>6, <1>7, <1>8 DEF Left

(* After the last iput() the call goes on at its return point, without the   *)
(* reference.                                                                *)
LEMMA LeftNone ==
    ASSUME NEW r \in Records, Shape(r), r.pc = "iput_drop", Len(r.puts) = 1, NEW r2,
           \/ r.ret = "user" /\ r2 = User
           \/ r.ret = "unused" /\ r2 = NoProc
           \/ r.ret \notin {"user", "unused"} /\ r2 = [r EXCEPT !.puts = <<>>, !.pc = r.ret, !.ret = "user"]
    PROVE  Left(r, r2)
<1>0. Rets \subseteq Points /\ Rets \cap IputPcs = {} /\ Rets \cap FreePcs = {} /\ "write" \notin Rets /\ "user" \in Rets
  BY RetsAre DEF Rets, IputPcs, FreePcs
<1>1. r.ret \in Rets /\ "iput_drop" \in IputPcs /\ "iput_drop" \notin FreePcs
  BY DEF Records, IputPcs, FreePcs
<1>2. Put(r, 2) = 0
  BY DEF Put
<1>3. Point(r) = r.ret
  BY <1>1 DEF Point
<1>4. Named(r) /\ Fits(r.n, r.ip, r.dp, r.call.op, r.ino, r.ret)
  BY <1>3 DEF Shape
<1>5. CASE r.ret \in {"user", "unused"}
  <2>1. r.n = 0 /\ r.ip = 0 /\ r.dp = 0
    BY <1>4, <1>5 DEF Fits, IpPoints, DpPoints, CreateIp, CreateDir, LinkIp
  <2>2. Gone(r) <=> r.ret = "unused"
    BY <1>3 DEF Gone
  <2>3. \A s \in Slots : ~Locks(r, s)
    BY <1>1, <1>3, <2>1 DEF Slots, Locks, LocksAt
  <2>4. CASE r.ret = "user"
    BY <1>2, <2>1, <2>2, <2>3, <2>4, UserFields DEF Left
  <2>5. CASE r.ret = "unused"
    BY <1>2, <2>1, <2>2, <2>3, <2>5, UserFields DEF Left
  <2>q. QED BY <1>5, <2>4, <2>5
<1>6. CASE r.ret \notin {"user", "unused"}
  <2>1. r2 = [r EXCEPT !.puts = <<>>, !.pc = r.ret, !.ret = "user"]
    BY <1>6
  <2>2. /\ r2.pc = r.ret /\ r2.puts = <<>> /\ r2.call = r.call /\ r2.rest = r.rest
        /\ r2.n = r.n /\ r2.ip = r.ip /\ r2.dp = r.dp /\ r2.ino = r.ino
    BY <2>1 DEF Records
  <2>3. r2 \in Records
    <3>1. r.ret \in Points \cup IputPcs /\ <<>> \in Seq(Slots)
      BY <1>0, <1>1
    <3>q. QED BY <1>0, <2>1, <3>1 DEF Records
  <2>4. Put(r2, 1) = 0 /\ Put(r2, 2) = 0 /\ Len(r2.puts) = 0
    <3> HIDE <2>1
    <3>1. Len(<<>>) = 0
      OBVIOUS
    <3>q. QED BY <2>2, <3>1 DEF Put
  <2>5. Point(r2) = r.ret /\ r2.pc \notin IputPcs /\ r2.pc \notin FreePcs /\ r2.pc # "write"
    BY <1>0, <1>1, <2>2 DEF Point
  <2>6. Shape(r2)
    <3>1. Named(r2)
      BY <1>4, <2>2 DEF Named, LastOf, WantsParent
    <3>2. Fits(r2.n, r2.ip, r2.dp, r2.call.op, r2.ino, Point(r2))
      BY <1>4, <2>2, <2>5
    <3>q. QED BY <2>2, <2>4, <2>5, <3>1, <3>2 DEF Shape
  <2>7. \A s \in Slots : Locks(r2, s) <=> Locks(r, s)
    BY <1>1, <1>3, <2>2, <2>5 DEF Locks
  <2>8. Gone(r2) <=> Gone(r)
    BY <1>3, <2>5 DEF Gone
  <2>q. QED BY <1>2, <2>2, <2>3, <2>4, <2>5, <2>6, <2>7, <2>8 DEF Left
<1>q. QED BY <1>5, <1>6

(* The second half of iput() drops one reference, the caller's. *)
LEMMA IputDropR ==
    ASSUME RInv, NEW p \in Procs, IputDrop(p)
    PROVE  MInv'
<1> DEFINE r == proc[p]
<1>0. MInv /\ r.pc = "iput_drop" /\ r.pc \in IputPcs
  BY DEF RInv, IputDrop, At, IputPcs
<1>1. PICK s : s = Put(r, 1)
  OBVIOUS
<1>2. /\ r \in Records /\ Shape(r) /\ r.puts # <<>> /\ Len(r.puts) \in 1..2
      /\ s \in Slots /\ Usable(s) /\ Head(r.puts) = s
      /\ Gone(r) => \A fd \in Fds : ofile[p][fd] = 0
      /\ cwd[p] # 0 <=> ~Gone(r)
      /\ icache \in [Slots -> SlotRecords] /\ cwd \in [Procs -> Slots \cup {0}]
  BY <1>0, <1>1, Putting
<1>3. PICK tl : tl = Tail(r.puts)
  OBVIOUS
<1>4. PICK r2 : /\ Left(r, r2) /\ Become(p, r2)
  <2>1. r.puts \in Seq(Slots) /\ Len(r.puts) <= 2
    BY <1>2 DEF Records, Shape
  <2>2. /\ tl \in Seq(Slots)
        /\ tl = <<>> => Len(r.puts) = 1
        /\ tl # <<>> => Len(r.puts) = 2 /\ Len(tl) = 1 /\ tl[1] = r.puts[2] /\ r.puts[2] \in Slots
    BY <1>2, <1>3, <2>1, TailOf
  <2>3. CASE tl # <<>>
    <3>1. PICK r2 : r2 = [r EXCEPT !.puts = tl, !.pc = "iput"]
      OBVIOUS
    <3>2. Become(p, r2)
      BY <1>2, <1>3, <2>3, <3>1 DEF IputDrop, Records
    <3>q. QED BY <1>0, <1>2, <2>2, <2>3, <3>1, <3>2, LeftMore
  <2>4. CASE tl = <<>>
    <3>1. PICK r2 : r2 = IF r.ret = "user" THEN User ELSE IF r.ret = "unused" THEN NoProc
                         ELSE [r EXCEPT !.puts = <<>>, !.pc = r.ret, !.ret = "user"]
      OBVIOUS
    <3>2. Become(p, r2)
      BY <1>2, <1>3, <2>4, <3>1 DEF IputDrop, Records
    <3>3. \/ r.ret = "user" /\ r2 = User
          \/ r.ret = "unused" /\ r2 = NoProc
          \/ r.ret \notin {"user", "unused"} /\ r2 = [r EXCEPT !.puts = <<>>, !.pc = r.ret, !.ret = "user"]
      BY <3>1
    <3>q. QED BY <1>0, <1>2, <2>2, <2>4, <3>2, <3>3, LeftNone
  <2>q. QED BY <2>3, <2>4
<1>5. /\ r2 \in Records /\ Shape(r2) /\ r2.pc # "write"
      /\ r2.n = r.n /\ r2.ip = r.ip /\ r2.dp = r.dp /\ Put(r2, 1) = Put(r, 2) /\ Put(r2, 2) = 0
      /\ Gone(r2) <=> Gone(r)
      /\ \A t \in Slots : Locks(r2, t) <=> Locks(r, t)
  BY <1>4 DEF Left
<1>6. /\ icache' = [icache EXCEPT ![s] = [icache[s] EXCEPT !.ref = icache[s].ref - 1]]
      /\ Become(p, r2) /\ UNCHANGED <<ofile, ftable, cwd>>
  BY <1>2, <1>4 DEF IputDrop
<1>7. PICK b \in Nat : b = icache[s].ref - 1
  BY <1>2 DEF Usable, SlotRecords
<1>8. /\ icache' \in [Slots -> SlotRecords]
      /\ icache'[s].ref = b /\ icache'[s].lock = icache[s].lock /\ icache'[s].inum = icache[s].inum
      /\ \A t \in Slots \ {s} : icache'[t] = icache[t]
  <2>1. icache' = [icache EXCEPT ![s] = [icache[s] EXCEPT !.ref = b]]
    BY <1>6, <1>7
  <2>2. icache[s] \in SlotRecords
    BY <1>2
  <2>3. [icache[s] EXCEPT !.ref = b] \in SlotRecords
    BY <2>2 DEF SlotRecords
  <2>4. /\ [icache[s] EXCEPT !.ref = b].ref = b /\ [icache[s] EXCEPT !.ref = b].lock = icache[s].lock
        /\ [icache[s] EXCEPT !.ref = b].inum = icache[s].inum
    BY <2>2 DEF SlotRecords
  <2>q. QED BY <1>2, <2>1, <2>3, <2>4
<1>9. Locking(p, r2)
  BY <1>0, <1>5, <1>8, LocksAre
<1>10. \A t \in Slots : icache'[t].ref = icache[t].ref + Weight(r2, cwd'[p], t) - Weight(r, cwd[p], t)
  <2> TAKE t \in Slots
  <2>1. icache[t].ref \in Nat
    BY <1>2 DEF SlotRecords
  <2>2. Weight(r2, cwd'[p], t) + One(s, t) = Weight(r, cwd[p], t)
    <3>1. One(0, t) = 0
      BY DEF One, Slots
    <3>2. cwd'[p] = cwd[p]
      BY <1>6
    <3>3. /\ One(r.n, t) \in Nat /\ One(r.ip, t) \in Nat /\ One(r.dp, t) \in Nat /\ One(s, t) \in Nat
          /\ One(Put(r, 2), t) \in Nat /\ One(cwd[p], t) \in Nat
      BY WeightNat
    <3>4. Weight(r2, cwd'[p], t) = One(r.n, t) + One(r.ip, t) + One(r.dp, t) + One(Put(r, 2), t) + 0 + One(cwd[p], t)
      BY <1>5, <3>1, <3>2 DEF Weight
    <3>5. Weight(r, cwd[p], t) = One(r.n, t) + One(r.ip, t) + One(r.dp, t) + One(s, t) + One(Put(r, 2), t) + One(cwd[p], t)
      BY <1>1 DEF Weight
    <3>q. QED BY <3>3, <3>4, <3>5
  <2>3. Weight(r2, cwd'[p], t) \in Nat /\ One(s, t) \in Nat
    BY WeightNat
  <2>4. icache'[t].ref = icache[t].ref - One(s, t)
    BY <1>7, <1>8, <2>1 DEF One
  <2>q. QED BY <2>1, <2>2, <2>3, <2>4
<1>11. SlotsOK'
  <2>1. Kept
    BY <1>2, <1>7, <1>8 DEF Kept, Usable
  <2>q. QED BY <1>0, <2>1, SlotsKept DEF MInv
<1>12. Mine(p, r2) /\ cwd' \in [Procs -> Slots \cup {0}] /\ cwd'[p] = cwd[p]
  BY <1>2, <1>6 DEF Mine, Become
<1>q. QED BY <1>0, <1>2, <1>5, <1>6, <1>8, <1>9, <1>10, <1>11, <1>12, ProcStep

(* The working directory goes to iput(), and the inode of the call, or     *)
(* none, becomes the new one.                                              *)
LEMMA CwdStep ==
    ASSUME MInv, NEW p \in Procs, InCall(p), NEW r1 \in Records, r1.n = 0, r1.ip = 0, r1.dp = 0, r1.ino = 0,
           proc[p].n = 0, proc[p].dp = 0, proc[p].ip \in Slots \cup {0}, cwd[p] \in Slots,
           NEW ret \in {"user", "unused"}, ret = "unused" <=> proc[p].ip = 0,
           Become(p, IputThen(r1, <<cwd[p]>>, ret)), cwd' = [cwd EXCEPT ![p] = proc[p].ip],
           UNCHANGED <<ofile, ftable>>,
           ret = "unused" => \A fd \in Fds : ofile[p][fd] = 0,
           \A s \in Slots : icache[s].lock # p,
           icache' \in [Slots -> SlotRecords],
           \A s \in Slots : /\ icache'[s].ref = icache[s].ref /\ icache'[s].inum = icache[s].inum
                            /\ icache'[s].lock = icache[s].lock
    PROVE  MInv'
<1>1. PICK s : s = cwd[p]
  OBVIOUS
<1>2. PICK r2 : r2 = IputThen(r1, <<s>>, ret)
  OBVIOUS
<1>3. ret \in Rets /\ s \in Slots /\ s # 0 /\ cwd \in [Procs -> Slots \cup {0}]
  BY <1>1 DEF Rets, Slots, MInv, MemTypes
<1>4. /\ r2 \in Records
      /\ r2.pc = "iput" /\ r2.puts = <<s>> /\ r2.ret = ret /\ r2.call = r1.call
      /\ r2.n = 0 /\ r2.ip = 0 /\ r2.dp = 0 /\ r2.ino = 0
      /\ Put(r2, 1) = s /\ Put(r2, 2) = 0
  BY <1>2, <1>3, IputFields
<1>5. Point(r2) = ret /\ r2.pc \in IputPcs /\ r2.pc \notin FreePcs /\ r2.pc # "write"
  BY <1>4 DEF Point, IputPcs, FreePcs
<1>6. Shape(r2)
  <2>1. Len(<<s>>) <= 2
    OBVIOUS
  <2>2. Fits(0, 0, 0, r2.call.op, 0, ret)
    BY DEF Fits, OpAt, IpPoints, DpPoints, CreateIp, CreateDir, Creating, LinkIp, IpLocked, DpLocked, PathOps
  <2>3. Named(r2)
    BY <1>4 DEF Named
  <2>q. QED BY <1>3, <1>4, <1>5, <2>1, <2>2, <2>3 DEF Shape
<1>7. Mine(p, r2)
  BY <1>1, <1>2, <1>3 DEF Mine, Become
<1>8. Stepping(p, r2)
  <2>1. cwd' \in [Procs -> Slots \cup {0}] /\ cwd'[p] = proc[p].ip
    BY <1>3
  <2>2. Gone(r2) <=> ret = "unused"
    BY <1>5 DEF Gone
  <2>q. QED BY <1>4, <1>6, <1>7, <2>1, <2>2 DEF Stepping
<1>9. Sets(p, r2, icache')
  <2>1. \A t \in Slots : ~Locks(r2, t)
    BY <1>4, <1>5 DEF Locks, LocksAt, Slots
  <2>q. QED BY <1>5, <2>1 DEF Sets
<1>10. SameHoldings(p, r2)
  <2>1. Put(proc[p], 1) = 0 /\ Put(proc[p], 2) = 0
    BY NothingToPut DEF InCall
  <2>2. cwd'[p] = proc[p].ip
    BY <1>3
  <2>q. QED BY <1>1, <1>4, <2>1, <2>2 DEF SameHoldings, Weight, One, Slots
<1>q. QED BY <1>8, <1>9, <1>10, KeepStep

(* A process in user mode, or about to exit, has nothing. *)
LEMMA AtRest ==
    ASSUME MInv, NEW p \in Procs, proc[p].pc \in {"user", "exit"}
    PROVE  /\ InCall(p) /\ proc[p] \in Records /\ proc[p].puts = <<>> /\ Shape(proc[p])
           /\ Put(proc[p], 1) = 0 /\ Put(proc[p], 2) = 0
           /\ proc[p].n = 0 /\ proc[p].ip = 0 /\ proc[p].dp = 0 /\ proc[p].ino = 0
           /\ \A s \in Slots : icache[s].lock # p /\ ~Locks(proc[p], s)
           /\ cwd[p] \in Slots /\ ~Gone(proc[p])
<1>1. proc[p].pc \notin IputPcs /\ InCall(p) /\ proc[p].pc # "write" /\ proc[p].pc \notin FreePcs
  BY DEF InCall, IputPcs, FreePcs
<1>2. /\ proc[p] \in Records /\ proc[p].puts = <<>>
      /\ Put(proc[p], 1) = 0 /\ Put(proc[p], 2) = 0
      /\ Point(proc[p]) = proc[p].pc
      /\ Fits(proc[p].n, proc[p].ip, proc[p].dp, proc[p].call.op, proc[p].ino, proc[p].pc)
  BY <1>1, NothingToPut
<1>3. proc[p].n = 0 /\ proc[p].ip = 0 /\ proc[p].dp = 0 /\ proc[p].ino = 0
  BY <1>2 DEF Fits, IpPoints, DpPoints, CreateIp, CreateDir, LinkIp
<1>4. \A s \in Slots : ~Locks(proc[p], s)
  BY <1>1, <1>3 DEF Locks, LocksAt, Slots
<1>5. \A s \in Slots : icache[s].lock # p
  BY <1>1, <1>4 DEF MInv, LocksOK
<1>6. ~Gone(proc[p])
  BY <1>2 DEF Gone
<1>7. cwd[p] \in Slots
  BY <1>6 DEF MInv, OwnsOK, MemTypes
<1>8. Shape(proc[p])
  BY DEF MInv, Shapes
<1>q. QED BY <1>1, <1>2, <1>3, <1>4, <1>5, <1>6, <1>7, <1>8

(* exit() puts the working directory. *)
LEMMA ExitCwdR ==
    ASSUME RInv, NEW p \in Procs, ExitCwd(p)
    PROVE  MInv'
<1>0. MInv /\ proc[p].pc \in {"user", "exit"}
  BY DEF RInv, ExitCwd, At
<1>1. /\ InCall(p) /\ proc[p] \in Records
      /\ proc[p].n = 0 /\ proc[p].ip = 0 /\ proc[p].dp = 0 /\ proc[p].ino = 0
      /\ \A s \in Slots : icache[s].lock # p
      /\ cwd[p] \in Slots
  BY <1>0, AtRest
<1>2. \A fd \in Fds : ofile[p][fd] = 0
  BY DEF ExitCwd, FreeFds
<1>3. icache' = icache /\ icache \in [Slots -> SlotRecords]
  BY <1>0 DEF ExitCwd, MInv, MemTypes
<1>4. /\ Become(p, IputThen(proc[p], <<cwd[p]>>, "unused")) /\ cwd' = [cwd EXCEPT ![p] = proc[p].ip]
      /\ UNCHANGED <<ofile, ftable>>
  BY <1>1 DEF ExitCwd
<1>q. QED BY <1>0, <1>1, <1>2, <1>3, <1>4, CwdStep

(* chdir() trades the old working directory for the new one. *)
LEMMA ChdirR ==
    ASSUME RInv, NEW p \in Procs, Chdir(p)
    PROVE  MInv'
<1> DEFINE r == proc[p]
<1>0. MInv /\ DiskTypes /\ InCall(p) /\ r.pc = "chdir"
  BY DEF RInv, Chdir, At, InCall, IputPcs
<1>1. Fits(r.n, r.ip, r.dp, r.call.op, r.ino, "chdir") /\ r \in Records
  BY <1>0, NothingToPut DEF InCall
<1>2. r.n = 0 /\ r.ip \in Slots /\ r.dp = 0 /\ r.ino = 0
  BY <1>1 DEF Records, Fits, OpAt, IpPoints, DpPoints, CreateIp, CreateDir, Creating, LinkIp, IpLocked, DpLocked, PathOps
<1>3. Usable(r.ip)
  BY <1>0, <1>2, HeldUsable
<1>4. UNCHANGED <<ofile, ftable>>
  BY DEF Chdir
<1>5. icache[r.ip].lock = nullptr
  BY <1>0, <1>2, CallLocks DEF Chdir, CanLock, LocksAt, IpPoints, DpPoints, CreateIp, CreateDir, LinkIp, IpLocked, DpLocked
<1>6. CASE Loaded(r.ip).type # "dir"
  <2>1. SetSlot(r.ip, Loaded(r.ip)) /\ Become(p, IputThen([r EXCEPT !.ip = 0], <<r.ip>>, "user"))
    BY <1>6 DEF Chdir
  <2>2. Like(Loaded(r.ip), r.ip, nullptr)
    BY <1>0, <1>3, <1>5, LikeLoaded
  <2>3. Fits(r.n, 0, r.dp, r.call.op, r.ino, "user")
    BY <1>1, <1>2 DEF Slots, Fits, OpAt, IpPoints, DpPoints, CreateIp, CreateDir, Creating, LinkIp, IpLocked, DpLocked, PathOps
  <2>4. /\ nullptr = IF LocksAt(0, r.dp, "user", r.ip) THEN p ELSE nullptr
        /\ \A t \in Slots \ {r.ip} : LocksAt(0, r.dp, "user", t) <=> LocksAt(r.ip, r.dp, r.pc, t)
    BY <1>0, <1>2, Ext2Assumption DEF Slots, LocksAt, IpPoints, DpPoints, CreateIp, CreateDir, LinkIp, IpLocked, DpLocked
  <2>5. SetsAt(p, 0, r.dp, "user", icache')
    BY <1>0, <1>2, <1>5, <2>1, <2>2, <2>4, SetsAtLike
  <2>6. "user" \in Rets
    BY RetsAre DEF Points, IpPoints, DpPoints, CreateIp, CreateDir, LinkIp, IputPcs
  <2>7. UNCHANGED cwd
    BY <1>6 DEF Chdir
  <2>q. QED BY <1>0, <1>2, <1>4, <2>1, <2>3, <2>5, <2>6, <2>7, AwayIp
<1>7. CASE Loaded(r.ip).type = "dir"
  <2>1. PICK r1 \in Records : r1 = [r EXCEPT !.ip = 0]
    BY <1>1, DropFields
  <2>2. r1.n = r.n /\ r1.ip = 0 /\ r1.dp = r.dp /\ r1.ino = r.ino
    BY <1>1, <2>1, DropFields
  <2>3. /\ SetSlot(r.ip, Loaded(r.ip))
        /\ Become(p, IputThen(r1, <<cwd[p]>>, "user")) /\ cwd' = [cwd EXCEPT ![p] = r.ip]
    BY <1>7, <2>1 DEF Chdir
  <2>4. \A s \in Slots : icache[s].lock # p
    BY <1>0, <1>2, CallLocks DEF LocksAt, IpLocked, DpLocked, DpPoints, CreateIp, CreateDir
  <2>5. Point(r) = "chdir" /\ icache \in [Slots -> SlotRecords]
    BY <1>0, NothingToPut DEF InCall, MInv, MemTypes
  <2>6. cwd[p] \in Slots
    BY <1>0, <2>5 DEF MInv, MemTypes, OwnsOK, Gone
  <2>7. Like(Loaded(r.ip), r.ip, nullptr)
    BY <1>0, <1>3, <1>5, LikeLoaded
  <2>8. /\ icache' \in [Slots -> SlotRecords]
        /\ \A s \in Slots : /\ icache'[s].ref = icache[s].ref /\ icache'[s].inum = icache[s].inum
                            /\ icache'[s].lock = icache[s].lock
    BY <1>2, <1>5, <2>3, <2>5, <2>7 DEF SetSlot, Like
  <2>9. r.ip # 0
    BY <1>2 DEF Slots
  <2>q. QED BY <1>0, <1>2, <1>4, <2>1, <2>2, <2>3, <2>4, <2>6, <2>8, <2>9, CwdStep
<1>q. QED BY <1>6, <1>7

(* An open file's inode. *)
LEMMA OpenFile ==
    ASSUME MInv, NEW p \in Procs, NEW fd \in Fds, ofile[p][fd] # 0, NEW f, f = ofile[p][fd]
    PROVE  /\ f \in Files /\ ftable[f].ref > 0 /\ ftable[f] \in FileRecords
           /\ ftable[f].ip \in Slots /\ Usable(ftable[f].ip)
           /\ ofile \in [Procs -> [Fds -> Files \cup {0}]] /\ ftable \in [Files -> FileRecords]
<1>1. f \in Files /\ ofile \in [Procs -> [Fds -> Files \cup {0}]] /\ ftable \in [Files -> FileRecords]
  BY DEF MInv, MemTypes
<1>2. <<p, fd>> \in FdsOf(f)
  BY DEF FdsOf
<1>3. IsFiniteSet(Procs \X Fds)
  <2>1. IsFiniteSet(Fds)
    BY FileSystemAssumption, FS_Interval DEF Fds
  <2>q. QED BY <2>1, Ext2Assumption, FS_Product
<1>4. IsFiniteSet(FdsOf(f))
  BY <1>3, FS_Subset DEF FdsOf
<1>5. Cardinality(FdsOf(f)) # 0 /\ Cardinality(FdsOf(f)) \in Nat
  BY <1>2, <1>4, FS_EmptySet, FS_CardinalityType
<1>6. ftable[f].ref > 0 /\ ftable[f].ip # 0
  BY <1>1, <1>5 DEF MInv, FilesOK
<1>7. ftable[f] \in FileRecords /\ ftable[f].ip \in Slots
  BY <1>1, <1>6 DEF FileRecords
<1>8. Usable(ftable[f].ip)
  BY <1>1, <1>7, HeldFile DEF Usable
<1>q. QED BY <1>1, <1>6, <1>7, <1>8

(* A read locks and unlocks the inode. *)
LEMMA ReadFileR ==
    ASSUME RInv, NEW p \in Procs, ReadFile(p)
    PROVE  MInv'
<1>0. MInv /\ DiskTypes /\ proc[p].pc \in {"user", "exit"} /\ proc[p].pc = "user"
  BY DEF RInv, ReadFile, Call, At
<1>1. /\ proc[p] \in Records /\ Shape(proc[p])
      /\ \A s \in Slots : icache[s].lock # p /\ ~Locks(proc[p], s)
      /\ cwd[p] \in Slots /\ ~Gone(proc[p])
  BY <1>0, AtRest
<1>2. PICK fd \in Fds \ FreeFds(p) :
         LET s == ftable[ofile[p][fd]].ip IN CanLock(s) /\ SetSlot(s, Loaded(s))
  BY DEF ReadFile
<1>3. PICK s : s = ftable[ofile[p][fd]].ip
  OBVIOUS
<1>4. Usable(s)
  BY <1>0, <1>3, OpenFile DEF FreeFds
<1>5. icache[s].lock = nullptr /\ icache' = [icache EXCEPT ![s] = Loaded(s)] /\ s \in Slots
  BY <1>2, <1>3, <1>4 DEF CanLock, SetSlot, Usable
<1>6. Like(Loaded(s), s, nullptr)
  BY <1>0, <1>4, <1>5, LikeLoaded
<1>7. Sets(p, proc[p], icache')
  <2>1. icache \in [Slots -> SlotRecords]
    BY <1>0 DEF MInv, MemTypes
  <2>q. QED BY <1>0, <1>1, <1>5, <1>6, <2>1, Ext2Assumption DEF Sets, Like
<1>8. UNCHANGED <<ofile, ftable, cwd, proc>>
  BY DEF ReadFile
<1>9. Stepping(p, proc[p]) /\ SameHoldings(p, proc[p])
  <2>1. proc \in [Procs -> Records] /\ cwd \in [Procs -> Slots \cup {0}]
    BY <1>0 DEF MInv, Shapes, MemTypes
  <2>2. Mine(p, proc[p])
    BY <1>8, <2>1 DEF Mine
  <2>3. cwd[p] # 0
    BY <1>1 DEF Slots
  <2>4. Stepping(p, proc[p])
    BY <1>1, <1>8, <2>1, <2>2, <2>3 DEF Stepping
  <2>q. QED BY <1>8, <2>4 DEF SameHoldings
<1>q. QED BY <1>0, <1>7, <1>9, KeepStep

(* A write that needs a block keeps the inode's lock. *)
LEMMA WriteBlockR ==
    ASSUME RInv, NEW p \in Procs, WriteBlock(p)
    PROVE  MInv'
<1> DEFINE r == proc[p]
<1>0. MInv /\ DiskTypes /\ r.pc \in {"user", "exit"} /\ r.pc = "user"
  BY DEF RInv, WriteBlock, Call, At
<1>1. /\ r \in Records /\ Shape(r)
      /\ r.n = 0 /\ r.ip = 0 /\ r.dp = 0 /\ r.ino = 0 /\ Put(r, 1) = 0 /\ Put(r, 2) = 0 /\ r.puts = <<>>
      /\ \A s \in Slots : icache[s].lock # p
      /\ cwd[p] \in Slots /\ ~Gone(r)
  BY <1>0, AtRest
<1>2. PICK fd \in Fds \ FreeFds(p), b \in FreeBlocks :
         LET f == ftable[ofile[p][fd]] IN
         CanLock(f.ip) /\ SetSlot(f.ip, [Locked(f.ip, p) EXCEPT !.blk = b])
  BY DEF WriteBlock
<1>3. PICK s : s = ftable[ofile[p][fd]].ip
  OBVIOUS
<1>4. Usable(s) /\ s \in Slots
  BY <1>0, <1>3, OpenFile DEF FreeFds, Usable
<1>5. icache[s].lock = nullptr /\ icache' = [icache EXCEPT ![s] = [Locked(s, p) EXCEPT !.blk = b]]
  BY <1>2, <1>3 DEF CanLock, SetSlot
<1>6. PICK i : i = [Locked(s, p) EXCEPT !.blk = b] /\ Like(i, s, p)
  <2>1. b \in Blocks \cup {0}
    BY DEF FreeBlocks
  <2>q. QED BY <1>0, <1>4, <2>1, LikeLocked, LikeBlk
<1>7. PICK r2 : r2 = [r EXCEPT !.pc = "write"]
  OBVIOUS
<1>8. "write" \in Points /\ "write" \notin IputPcs /\ "write" \notin FreePcs
  BY DEF Points, IputPcs, FreePcs
<1>9. /\ r2 \in Records
      /\ r2.pc = "write" /\ r2.puts = r.puts /\ r2.call = r.call
      /\ r2.n = r.n /\ r2.ip = r.ip /\ r2.dp = r.dp /\ r2.ino = r.ino
      /\ Put(r2, 1) = Put(r, 1) /\ Put(r2, 2) = Put(r, 2)
  BY <1>1, <1>7, <1>8, GotoFields
<1>10. Point(r2) = "write" /\ ~Gone(r2)
  BY <1>8, <1>9 DEF Point, Gone
<1>11. Shape(r2)
  <2>1. Fits(0, 0, 0, r2.call.op, 0, "write")
    BY DEF Fits, OpAt, IpPoints, DpPoints, CreateIp, CreateDir, Creating, LinkIp, IpLocked, DpLocked, PathOps
  <2>2. Named(r2)
    BY <1>1, <1>9 DEF Named
  <2>3. Len(r2.puts) <= 2
    BY <1>1, <1>9 DEF Shape
  <2>q. QED BY <1>1, <1>8, <1>9, <1>10, <2>1, <2>2, <2>3 DEF Shape
<1>12. UNCHANGED <<ofile, ftable, cwd>> /\ Mine(p, r2)
  BY <1>7 DEF WriteBlock, Mine, Become, Goto
<1>13. icache \in [Slots -> SlotRecords] /\ cwd \in [Procs -> Slots \cup {0}]
  BY <1>0 DEF MInv, MemTypes
<1>14. /\ icache' \in [Slots -> SlotRecords]
       /\ icache'[s].ref = icache[s].ref /\ icache'[s].inum = icache[s].inum /\ icache'[s].lock = p
       /\ \A t \in Slots \ {s} : icache'[t] = icache[t]
  BY <1>4, <1>5, <1>6, <1>13 DEF Like
<1>15. Locking(p, r2)
  BY <1>1, <1>5, <1>9, <1>14 DEF Locking
<1>16. SlotsOK'
  <2>1. Kept
    BY <1>14 DEF Kept
  <2>q. QED BY <1>0, <2>1, SlotsKept DEF MInv
<1>17. \A t \in Slots : icache'[t].ref = icache[t].ref + Weight(r2, cwd'[p], t) - Weight(r, cwd[p], t)
  <2> TAKE t \in Slots
  <2>1. icache'[t].ref = icache[t].ref /\ icache[t].ref \in Nat
    BY <1>13, <1>14 DEF SlotRecords
  <2>2. Weight(r2, cwd'[p], t) = Weight(r, cwd[p], t) /\ Weight(r, cwd[p], t) \in Nat
    BY <1>9, <1>12, WeightNat DEF Weight
  <2>q. QED BY <2>1, <2>2
<1>18. cwd'[p] # 0 /\ cwd' \in [Procs -> Slots \cup {0}]
  BY <1>1, <1>12, <1>13 DEF Slots
<1>q. QED BY <1>0, <1>9, <1>10, <1>11, <1>12, <1>14, <1>15, <1>16, <1>17, <1>18, ProcStep

(* A write ends by releasing the one lock that its process has. *)
LEMMA WriteUpdateR ==
    ASSUME RInv, NEW p \in Procs, WriteUpdate(p)
    PROVE  MInv'
<1> DEFINE r == proc[p]
<1>0. MInv /\ DiskTypes /\ r.pc = "write" /\ r.pc \notin IputPcs
  BY DEF RInv, WriteUpdate, At, IputPcs
<1>1. /\ r \in Records /\ Put(r, 1) = 0 /\ Put(r, 2) = 0 /\ Point(r) = "write"
      /\ Fits(r.n, r.ip, r.dp, r.call.op, r.ino, "write")
  BY <1>0, NothingToPut
<1>2. r.n = 0 /\ r.ip = 0 /\ r.dp = 0
  BY <1>1 DEF Fits, IpPoints, DpPoints, CreateIp, CreateDir, LinkIp
<1>3. PICK s \in Slots : icache[s].lock = p /\ SetSlot(s, Unlocked(icache[s]))
  BY DEF WriteUpdate
<1>4. icache \in [Slots -> SlotRecords] /\ cwd \in [Procs -> Slots \cup {0}]
  BY <1>0 DEF MInv, MemTypes
<1>5. \A t \in Slots : icache[t].lock = p => t = s
  BY <1>0, <1>3 DEF MInv, LocksOK
<1>6. PICK i : i = Unlocked(icache[s]) /\ Like(i, s, nullptr)
  BY <1>4, LikeUnlocked DEF Like
<1>7. /\ icache' \in [Slots -> SlotRecords]
      /\ icache'[s].ref = icache[s].ref /\ icache'[s].inum = icache[s].inum /\ icache'[s].lock = nullptr
      /\ \A t \in Slots \ {s} : icache'[t] = icache[t]
  BY <1>3, <1>4, <1>6 DEF Like, SetSlot
<1>8. Sets(p, User, icache')
  BY <1>3, <1>5, <1>7, UserFields, Ext2Assumption DEF Sets
<1>9. UNCHANGED <<ofile, ftable, cwd>> /\ Mine(p, User)
  BY DEF WriteUpdate, Mine, Become
<1>10. cwd[p] # 0
  BY <1>0, <1>1 DEF MInv, OwnsOK, Gone
<1>11. Stepping(p, User)
  BY <1>4, <1>9, <1>10, UserFields DEF Stepping
<1>12. SameHoldings(p, User)
  BY <1>1, <1>2, <1>9, UserFields DEF SameHoldings, Weight
<1>q. QED BY <1>0, <1>8, <1>11, <1>12, KeepStep

(* The descriptors of a file, one aside. *)
FdsBut(f, x) == FdsOf(f) \ {x}

(* A file has finitely many descriptors, so their number is a natural        *)
(* number.                                                                   *)
LEMMA FdsFinite ==
    ASSUME NEW f
    PROVE  /\ IsFiniteSet(FdsOf(f)) /\ Cardinality(FdsOf(f)) \in Nat
           /\ \A x : IsFiniteSet(FdsBut(f, x)) /\ Cardinality(FdsBut(f, x)) \in Nat
<1>1. IsFiniteSet(Fds)
  BY FileSystemAssumption, FS_Interval DEF Fds
<1>2. IsFiniteSet(Procs \X Fds)
  BY <1>1, Ext2Assumption, FS_Product
<1>3. FdsOf(f) \subseteq Procs \X Fds /\ \A x : FdsBut(f, x) \subseteq Procs \X Fds
  BY DEF FdsOf, FdsBut
<1>q. QED BY <1>2, <1>3, FS_Subset, FS_CardinalityType

(* The descriptors of a file are one descriptor, if it is one of them, and   *)
(* the others.                                                               *)
LEMMA FdsSplit ==
    ASSUME NEW f, NEW p \in Procs, NEW fd \in Fds
    PROVE  Cardinality(FdsOf(f)) = Cardinality(FdsBut(f, <<p, fd>>)) + One(ofile[p][fd], f)
<1> DEFINE S == FdsBut(f, <<p, fd>>)
<1>1. <<p, fd>> \notin S /\ IsFiniteSet(S) /\ Cardinality(S) \in Nat
  BY FdsFinite DEF FdsBut
<1>2. FdsOf(f) = With(S, <<p, fd>>, ofile[p][fd], f)
  BY DEF FdsOf, FdsBut, With
<1> HIDE DEF S
<1>3. Cardinality(With(S, <<p, fd>>, ofile[p][fd], f)) = Cardinality(S) + One(ofile[p][fd], f)
  BY <1>1, CountOne
<1>q. QED BY <1>2, <1>3 DEF S

FdsSplits ==
    \A f : /\ \A p \in Procs, fd \in Fds :
                  Cardinality(FdsOf(f)) = Cardinality(FdsBut(f, <<p, fd>>)) + One(ofile[p][fd], f)
           /\ Cardinality(FdsOf(f)) \in Nat
           /\ \A x : Cardinality(FdsBut(f, x)) \in Nat

(* The split of the descriptors, as a fact about a state. *)
LEMMA FdsAlways == FdsSplits
BY FdsSplit, FdsFinite DEF FdsSplits

(* The same fact about the next state. *)
LEMMA FdsNext == FdsSplits'
BY FdsAlways, PTL

(* A descriptor is set. *)
LEMMA SetFd ==
    ASSUME NEW p \in Procs, NEW fd \in Fds, NEW g, ofile \in [Procs -> [Fds -> Files \cup {0}]],
           ofile' = [ofile EXCEPT ![p][fd] = g], NEW f
    PROVE  /\ Cardinality(FdsOf(f)') = Cardinality(FdsOf(f)) - One(ofile[p][fd], f) + One(g, f)
           /\ Cardinality(FdsOf(f)) \in Nat
<1>1. ofile'[p][fd] = g
  OBVIOUS
<1>2. FdsBut(f, <<p, fd>>)' = FdsBut(f, <<p, fd>>)
  <2>1. \A x \in Procs \X Fds : x # <<p, fd>> => ofile'[x[1]][x[2]] = ofile[x[1]][x[2]]
    <3> TAKE x \in Procs \X Fds
    <3>1. PICK q \in Procs, e \in Fds : x = <<q, e>>
      OBVIOUS
    <3>2. x # <<p, fd>> => ofile'[q][e] = ofile[q][e]
      BY <3>1
    <3>q. QED BY <3>1, <3>2
  <2>q. QED BY <2>1 DEF FdsBut, FdsOf, Fds
<1>3. /\ Cardinality(FdsOf(f)) = Cardinality(FdsBut(f, <<p, fd>>)) + One(ofile[p][fd], f)
      /\ Cardinality(FdsOf(f)') = Cardinality(FdsBut(f, <<p, fd>>)') + One(ofile'[p][fd], f)
      /\ Cardinality(FdsOf(f)) \in Nat /\ Cardinality(FdsBut(f, <<p, fd>>)) \in Nat
  BY FdsAlways, FdsNext DEF FdsSplits, Fds
<1>4. One(ofile[p][fd], f) \in Nat /\ One(g, f) \in Nat
  BY DEF One
<1>q. QED BY <1>1, <1>2, <1>3, <1>4

(* A step of process p, to r, that changes file g and a descriptor. *)
LEMMA FileStep ==
    ASSUME MInv, NEW p \in Procs, NEW r \in Records, Shape(r), Mine(p, r), ~Gone(r),
           icache' \in [Slots -> SlotRecords], cwd' = cwd, cwd[p] # 0,
           NEW g \in Files, NEW h \in FileRecords, ftable' = [ftable EXCEPT ![g] = h], h.ip # 0 <=> h.ref > 0,
           NEW fd \in Fds, NEW k \in Files \cup {0}, ofile' = [ofile EXCEPT ![p][fd] = k],
           {ofile[p][fd], k} \subseteq {0, g},
           h.ref = ftable[g].ref + One(k, g) - One(ofile[p][fd], g),
           \A s \in Slots : icache'[s].ref = icache[s].ref + Weight(r, cwd'[p], s) - Weight(proc[p], cwd[p], s)
                                             + One(ftable'[g].ip, s) - One(ftable[g].ip, s),
           Locking(p, r), SlotsOK'
    PROVE  MInv'
<1>0. proc \in [Procs -> Records] /\ \A q \in Procs : Shape(proc[q])
  BY DEF MInv, Shapes
<1>1. proc'[p] = r /\ \A q \in Procs \ {p} : proc'[q] = proc[q]
  BY <1>0 DEF Mine
<1>2. /\ ofile \in [Procs -> [Fds -> Files \cup {0}]] /\ ftable \in [Files -> FileRecords]
      /\ cwd \in [Procs -> Slots \cup {0}]
  BY DEF MInv, MemTypes
<1>3. /\ ofile' \in [Procs -> [Fds -> Files \cup {0}]] /\ ftable' \in [Files -> FileRecords]
      /\ \A q \in Procs \ {p} : ofile'[q] = ofile[q]
      /\ ftable'[g] = h /\ \A f \in Files \ {g} : ftable'[f] = ftable[f]
  BY <1>2
<1>4. MemTypes'
  BY <1>2, <1>3 DEF MemTypes, Slots, Files, Fds, SlotRecords, FileRecords, Types
<1>5. Shapes'
  <2>1. proc' \in [Procs -> Records]
    BY <1>0 DEF Mine
  <2>2. \A q \in Procs : Shape(proc'[q])
    BY <1>0, <1>1
  <2>3. Shapes' <=> (proc' \in [Procs -> Records] /\ \A q \in Procs : Shape(proc'[q]))
    BY DEF Shapes, Records, Shape, Named, LastOf, WantsParent, Fits, OpAt, LocksAt, Put, Point, Slots
  <2>q. QED BY <2>1, <2>2, <2>3
<1>6. LocksOK'
  BY <1>0, LocksStep DEF MInv
<1>7. OwnsOK'
  <2> SUFFICES ASSUME NEW q \in Procs
               PROVE  /\ cwd'[q] # 0 <=> ~Gone(proc'[q])
                      /\ Gone(proc'[q]) => \A e \in Fds : ofile'[q][e] = 0
    BY DEF OwnsOK, Gone, Point, Fds
  <2>1. CASE q = p
    BY <1>1, <2>1
  <2>2. CASE q # p
    BY <1>1, <1>3, <2>2 DEF MInv, OwnsOK
  <2>q. QED BY <2>1, <2>2
<1>8. RefsOK'
  BY <1>0, <1>3, RefsFileStep DEF MInv
<1>9. FilesOK'
  <2> SUFFICES ASSUME NEW f \in Files
               PROVE  /\ ftable'[f].ref = Cardinality(FdsOf(f)')
                      /\ ftable'[f].ip # 0 <=> ftable'[f].ref > 0
    BY DEF FilesOK, Files
  <2>1. /\ Cardinality(FdsOf(f)') = Cardinality(FdsOf(f)) - One(ofile[p][fd], f) + One(k, f)
        /\ Cardinality(FdsOf(f)) \in Nat
    BY <1>2, SetFd
  <2>2. ftable[f].ref = Cardinality(FdsOf(f)) /\ (ftable[f].ip # 0 <=> ftable[f].ref > 0)
    BY DEF MInv, FilesOK
  <2>3. CASE f = g
    <3>1. One(ofile[p][fd], f) \in Nat /\ One(k, f) \in Nat
      BY DEF One
    <3>2. h.ref = Cardinality(FdsOf(f)')
      BY <2>1, <2>2, <2>3, <3>1
    <3>q. QED BY <1>3, <2>3, <3>2
  <2>4. CASE f # g
    <3>1. f # 0
      BY DEF Files
    <3>2. One(ofile[p][fd], f) = 0 /\ One(k, f) = 0
      BY <2>4, <3>1 DEF One
    <3>3. Cardinality(FdsOf(f)') = Cardinality(FdsOf(f))
      BY <2>1, <3>2
    <3>q. QED BY <1>3, <2>2, <2>4, <3>3
  <2>q. QED BY <2>3, <2>4
<1>q. QED BY <1>4, <1>5, <1>6, <1>7, <1>8, <1>9 DEF MInv

(* What Sets() says, for the steps above. *)
LEMMA SetsGives ==
    ASSUME MInv, NEW p \in Procs, NEW r, Sets(p, r, icache')
    PROVE  Locking(p, r) /\ SlotsOK' /\ icache' \in [Slots -> SlotRecords]
           /\ \A s \in Slots : icache'[s].ref = icache[s].ref /\ icache[s].ref \in Nat
<1>1. Locking(p, r)
  BY DEF Locking, Sets
<1>2. SlotsOK'
  BY SlotsKept DEF Kept, Sets, MInv
<1>q. QED BY <1>1, <1>2 DEF Sets, MInv, MemTypes, SlotRecords

(* A free file, and a free descriptor. *)
LEMMA FreeOnes ==
    ASSUME MInv, NEW p \in Procs
    PROVE  /\ FreeFiles # {} => Least(FreeFiles) \in Files /\ ftable[Least(FreeFiles)].ref = 0
                                /\ ftable[Least(FreeFiles)].ip = 0
           /\ FreeFds(p) # {} => Least(FreeFds(p)) \in Fds /\ ofile[p][Least(FreeFds(p))] = 0
<1>1. FreeFiles \in SUBSET Nat /\ FreeFds(p) \in SUBSET Nat
  BY DEF FreeFiles, FreeFds, Files, Fds
<1>2. FreeFiles # {} => Least(FreeFiles) \in FreeFiles
  BY <1>1, LeastIn
<1>3. FreeFds(p) # {} => Least(FreeFds(p)) \in FreeFds(p)
  BY <1>1, LeastIn
<1>4. \A f \in Files : ftable[f].ref = 0 => ftable[f].ip = 0
  BY DEF MInv, FilesOK
<1>q. QED BY <1>2, <1>3, <1>4 DEF FreeFiles, FreeFds

(* open() moves the call's reference to the new file, or puts the inode when *)
(* there is no file or descriptor.                                           *)
LEMMA OpenFdR ==
    ASSUME RInv, NEW p \in Procs, OpenFd(p)
    PROVE  MInv'
<1> DEFINE r == proc[p]
<1>0. MInv /\ DiskTypes /\ InCall(p) /\ r.pc = "open_fd"
  BY DEF RInv, OpenFd, At, InCall, IputPcs
<1>1. Fits(r.n, r.ip, r.dp, r.call.op, r.ino, "open_fd") /\ r \in Records
  BY <1>0, NothingToPut DEF InCall
<1>2. r.n = 0 /\ r.ip \in Slots /\ r.dp = 0 /\ r.ino = 0
  BY <1>1 DEF Records, Fits, OpAt, IpPoints, DpPoints, CreateIp, CreateDir, Creating, LinkIp, IpLocked, DpLocked, PathOps
<1>3. Usable(r.ip)
  BY <1>0, <1>2, HeldUsable
<1>4. UNCHANGED cwd
  BY DEF OpenFd
<1>5. icache[r.ip].lock = p
  BY <1>0, <1>2, CallLocks DEF OpenFd, CanLock, LocksAt, IpPoints, DpPoints, CreateIp, CreateDir, LinkIp, IpLocked, DpLocked
<1>6. CASE FreeFiles = {} \/ FreeFds(p) = {}
  <2>1. SetSlot(r.ip, Unlocked(icache[r.ip])) /\ Become(p, IputThen([r EXCEPT !.ip = 0], <<r.ip>>, "user"))
    BY <1>6 DEF OpenFd
  <2>2. Like(Unlocked(icache[r.ip]), r.ip, nullptr)
    BY <1>0, <1>3, <1>5, LikeLoaded, LikeUnlocked
  <2>3. Fits(r.n, 0, r.dp, r.call.op, r.ino, "user")
    BY <1>1, <1>2 DEF Slots, Fits, OpAt, IpPoints, DpPoints, CreateIp, CreateDir, Creating, LinkIp, IpLocked, DpLocked, PathOps
  <2>4. /\ nullptr = IF LocksAt(0, r.dp, "user", r.ip) THEN p ELSE nullptr
        /\ \A t \in Slots \ {r.ip} : LocksAt(0, r.dp, "user", t) <=> LocksAt(r.ip, r.dp, r.pc, t)
    BY <1>0, <1>2, Ext2Assumption DEF Slots, LocksAt, IpPoints, DpPoints, CreateIp, CreateDir, LinkIp, IpLocked, DpLocked
  <2>5. SetsAt(p, 0, r.dp, "user", icache')
    BY <1>0, <1>2, <1>5, <2>1, <2>2, <2>4, SetsAtLike
  <2>6. "user" \in Rets
    BY RetsAre DEF Points, IpPoints, DpPoints, CreateIp, CreateDir, LinkIp, IputPcs
  <2>7. UNCHANGED <<ofile, ftable>>
    BY <1>6 DEF OpenFd
  <2>q. QED BY <1>0, <1>2, <1>4, <2>1, <2>3, <2>5, <2>6, <2>7, AwayIp
<1>7. CASE FreeFiles # {} /\ FreeFds(p) # {}
  <2>1. PICK g, fd : g = Least(FreeFiles) /\ fd = Least(FreeFds(p))
    OBVIOUS
  <2>2. g \in Files /\ ftable[g].ref = 0 /\ ftable[g].ip = 0 /\ fd \in Fds /\ ofile[p][fd] = 0
    BY <1>0, <1>7, <2>1, FreeOnes
  <2>3. PICK h : h = [ref |-> 1, ip |-> r.ip, writable |-> r.call.op # "open"]
    OBVIOUS
  <2>4. h \in FileRecords /\ h.ip = r.ip /\ h.ref = 1
    BY <1>2, <2>3 DEF FileRecords
  <2>5. /\ SetSlot(r.ip, Unlocked(icache[r.ip])) /\ ftable' = [ftable EXCEPT ![g] = h]
        /\ ofile' = [ofile EXCEPT ![p][fd] = g] /\ Become(p, User)
    BY <1>7, <2>1, <2>3 DEF OpenFd
  <2>6. Like(Unlocked(icache[r.ip]), r.ip, nullptr)
    BY <1>0, <1>3, <1>5, LikeLoaded, LikeUnlocked
  <2>7. Sets(p, User, icache')
    <3>1. \A t \in Slots : icache[t].lock = p <=> t = r.ip
      BY <1>0, <1>2, CallLocks DEF LocksAt, IpLocked, Slots
    <3>2. icache \in [Slots -> SlotRecords]
      BY <1>0 DEF MInv, MemTypes
    <3>q. QED BY <1>2, <2>5, <2>6, <3>1, <3>2, UserFields, Ext2Assumption DEF Sets, SetSlot, Like
  <2>8. Locking(p, User) /\ SlotsOK' /\ icache' \in [Slots -> SlotRecords]
        /\ \A s \in Slots : icache'[s].ref = icache[s].ref /\ icache[s].ref \in Nat
    BY <1>0, <2>7, SetsGives
  <2>9. Put(r, 1) = 0 /\ Put(r, 2) = 0 /\ Point(r) = "open_fd"
    BY <1>0, NothingToPut DEF InCall
  <2>10. cwd[p] # 0
    BY <1>0, <2>9 DEF MInv, OwnsOK, Gone
  <2>11. ftable'[g].ip = r.ip
    BY <1>0, <2>2, <2>4, <2>5 DEF MInv, MemTypes
  <2>12. \A s \in Slots : icache'[s].ref = icache[s].ref + Weight(User, cwd'[p], s) - Weight(r, cwd[p], s)
                                           + One(ftable'[g].ip, s) - One(ftable[g].ip, s)
    <3> TAKE s \in Slots
    <3>1. One(0, s) = 0 /\ One(r.ip, s) \in Nat /\ One(cwd[p], s) \in Nat
      BY DEF One, Slots
    <3>2. Weight(User, cwd'[p], s) = One(cwd[p], s)
      BY <1>4, <3>1, UserFields DEF Weight
    <3>3. Weight(r, cwd[p], s) = One(r.ip, s) + One(cwd[p], s)
      BY <1>2, <2>9, <3>1 DEF Weight
    <3>4. One(ftable'[g].ip, s) = One(r.ip, s) /\ One(ftable[g].ip, s) = 0
      BY <2>2, <2>11, <3>1
    <3>q. QED BY <2>8, <3>1, <3>2, <3>3, <3>4
  <2>13. Mine(p, User)
    BY <1>4, <2>5 DEF Mine, Become
  <2>14. h.ref = ftable[g].ref + One(g, g) - One(ofile[p][fd], g) /\ (h.ip # 0 <=> h.ref > 0)
    BY <1>2, <2>2, <2>4 DEF One, Files, Slots
  <2>q. QED BY <1>0, <1>4, <2>2, <2>4, <2>5, <2>8, <2>10, <2>12, <2>13, <2>14, UserFields, FileStep
<1>q. QED BY <1>6, <1>7

(* A step that leaves the inode cache alone and takes no inode lock. *)
LEMMA SetsSame ==
    ASSUME MInv, NEW p \in Procs, NEW r, r.pc # "write", icache' = icache,
           \A s \in Slots : icache[s].lock # p /\ ~Locks(r, s)
    PROVE  Sets(p, r, icache')
BY DEF Sets, MInv, MemTypes

(* The last close of a file puts its inode; the others drop one count. *)
LEMMA FileCloseR ==
    ASSUME MInv, NEW p \in Procs, NEW fd \in Fds, ofile[p][fd] # 0, proc[p].pc \in {"user", "exit"},
           NEW ret, ret = proc[p].pc, FileClose(p, fd, ret), UNCHANGED <<icache, cwd>>
    PROVE  MInv'
<1> DEFINE r == proc[p]
<1>1. /\ InCall(p) /\ r \in Records /\ r.puts = <<>> /\ Shape(r) /\ Put(r, 1) = 0 /\ Put(r, 2) = 0
      /\ r.n = 0 /\ r.ip = 0 /\ r.dp = 0 /\ r.ino = 0
      /\ \A s \in Slots : icache[s].lock # p /\ ~Locks(r, s)
      /\ cwd[p] \in Slots /\ ~Gone(r) /\ r.pc # "write"
  BY AtRest
<1>2. PICK g : g = ofile[p][fd]
  OBVIOUS
<1>3. /\ g \in Files /\ ftable[g].ref > 0 /\ ftable[g] \in FileRecords
      /\ ftable[g].ip \in Slots
      /\ ofile \in [Procs -> [Fds -> Files \cup {0}]] /\ ftable \in [Files -> FileRecords]
  BY <1>2, OpenFile
<1>4. cwd[p] # 0 /\ ofile' = [ofile EXCEPT ![p][fd] = 0] /\ g # 0
  BY <1>1, <1>3 DEF Slots, FileClose, Files
<1>5. PICK k \in Nat : k = ftable[g].ref /\ k > 0
  BY <1>3 DEF FileRecords
<1>6. CASE ftable[g].ref > 1
  <2>1. ftable' = [ftable EXCEPT ![g] = [ftable[g] EXCEPT !.ref = k - 1]] /\ Become(p, Goto(p, ret))
    BY <1>2, <1>3, <1>5, <1>6 DEF FileClose
  <2>2. PICK h : h = [ftable[g] EXCEPT !.ref = k - 1]
    OBVIOUS
  <2>3. h \in FileRecords /\ h.ref = k - 1 /\ h.ip = ftable[g].ip
    <3>1. PICK j \in Nat : j = k - 1
      BY <1>5
    <3>2. h = [ftable[g] EXCEPT !.ref = j]
      BY <2>2, <3>1
    <3>q. QED BY <1>3, <3>1, <3>2 DEF FileRecords
  <2>4. Mine(p, r)
    <3>1. [proc[p] EXCEPT !.pc = ret] = proc[p]
      BY <1>1 DEF Records
    <3>q. QED BY <2>1, <3>1 DEF Mine, Become, Goto
  <2>5. Sets(p, r, icache')
    BY <1>1, SetsSame
  <2>6. Locking(p, r) /\ SlotsOK' /\ icache' \in [Slots -> SlotRecords]
        /\ \A s \in Slots : icache'[s].ref = icache[s].ref /\ icache[s].ref \in Nat
    BY <2>5, SetsGives
  <2>7. ftable'[g].ip = ftable[g].ip
    BY <1>3, <2>1, <2>2, <2>3
  <2>8. \A s \in Slots : icache'[s].ref = icache[s].ref + Weight(r, cwd'[p], s) - Weight(r, cwd[p], s)
                                           + One(ftable'[g].ip, s) - One(ftable[g].ip, s)
    <3> TAKE s \in Slots
    <3>1. Weight(r, cwd[p], s) \in Nat /\ One(ftable[g].ip, s) \in Nat
      BY WeightNat
    <3>q. QED BY <2>6, <2>7, <3>1
  <2>9. h.ip # 0 <=> h.ref > 0
    BY <1>3, <1>5, <1>6, <2>3 DEF Slots
  <2>10. h.ref = ftable[g].ref + One(0, g) - One(ofile[p][fd], g)
    BY <1>2, <1>4, <1>5, <2>3 DEF One
  <2>11. ftable' = [ftable EXCEPT ![g] = h] /\ cwd' = cwd /\ {ofile[p][fd], 0} \subseteq {0, g} /\ 0 \in Files \cup {0}
    BY <1>2, <2>1, <2>2
  <2>12. PICK r2 : r2 = r
    OBVIOUS
  <2>13. r2 \in Records /\ Shape(r2) /\ ~Gone(r2) /\ Mine(p, r2) /\ Locking(p, r2)
    BY <1>1, <2>4, <2>6, <2>12
  <2>14. \A s \in Slots : icache'[s].ref = icache[s].ref + Weight(r2, cwd'[p], s) - Weight(proc[p], cwd[p], s)
                                           + One(ftable'[g].ip, s) - One(ftable[g].ip, s)
    BY <2>8, <2>12
  <2>15. h \in FileRecords /\ g \in Files /\ cwd[p] # 0 /\ icache' \in [Slots -> SlotRecords] /\ SlotsOK'
    BY <1>3, <1>4, <2>3, <2>6
  <2>q. QED BY <1>4, <2>9, <2>10, <2>11, <2>13, <2>14, <2>15, FileStep
<1>7. CASE ~(ftable[g].ref > 1)
  <2>1. ftable' = [ftable EXCEPT ![g] = NoFile] /\ Become(p, IputThen(r, <<ftable[g].ip>>, ret)) /\ k = 1
    BY <1>2, <1>3, <1>5, <1>7 DEF FileClose
  <2>2. NoFile \in FileRecords /\ NoFile.ref = 0 /\ NoFile.ip = 0
    BY DEF NoFile, FileRecords
  <2>3. PICK t : t = ftable[g].ip
    OBVIOUS
  <2>4. PICK r2 : r2 = IputThen(r, <<t>>, ret)
    OBVIOUS
  <2>5. ret \in Rets /\ ret # "unused" /\ t \in Slots /\ t # 0
    BY <1>3, <2>3 DEF Rets, Slots
  <2>6. /\ r2 \in Records
        /\ r2.pc = "iput" /\ r2.puts = <<t>> /\ r2.ret = ret /\ r2.call = r.call
        /\ r2.n = 0 /\ r2.ip = 0 /\ r2.dp = 0 /\ r2.ino = 0
        /\ Put(r2, 1) = t /\ Put(r2, 2) = 0
    BY <1>1, <2>4, <2>5, IputFields
  <2>7. Point(r2) = ret /\ r2.pc \in IputPcs /\ r2.pc \notin FreePcs /\ r2.pc # "write" /\ ~Gone(r2)
    BY <2>5, <2>6 DEF Point, IputPcs, FreePcs, Gone
  <2>8. Shape(r2)
    <3>1. Len(<<t>>) <= 2
      OBVIOUS
    <3>2. Fits(0, 0, 0, r2.call.op, 0, ret)
      BY DEF Fits, OpAt, IpPoints, DpPoints, CreateIp, CreateDir, Creating, LinkIp, IpLocked, DpLocked, PathOps
    <3>3. Named(r2)
      BY <2>6 DEF Named
    <3>q. QED BY <2>5, <2>6, <2>7, <3>1, <3>2, <3>3 DEF Shape
  <2>9. Mine(p, r2)
    BY <2>1, <2>3, <2>4 DEF Mine, Become
  <2>10. Sets(p, r2, icache')
    <3>1. \A s \in Slots : ~Locks(r2, s)
      BY <2>6, <2>7 DEF Locks, LocksAt, Slots
    <3>q. QED BY <1>1, <2>7, <3>1, SetsSame
  <2>11. Locking(p, r2) /\ SlotsOK' /\ icache' \in [Slots -> SlotRecords]
        /\ \A s \in Slots : icache'[s].ref = icache[s].ref /\ icache[s].ref \in Nat
    BY <2>10, SetsGives
  <2>12. ftable'[g].ip = 0
    BY <1>3, <2>1, <2>2
  <2>13. \A s \in Slots : icache'[s].ref = icache[s].ref + Weight(r2, cwd'[p], s) - Weight(r, cwd[p], s)
                                           + One(ftable'[g].ip, s) - One(ftable[g].ip, s)
    <3> TAKE s \in Slots
    <3>1. One(0, s) = 0 /\ One(t, s) \in Nat /\ One(cwd[p], s) \in Nat
      BY DEF One, Slots
    <3>2. Weight(r2, cwd'[p], s) = One(t, s) + One(cwd[p], s)
      BY <2>6, <3>1 DEF Weight
    <3>3. Weight(r, cwd[p], s) = One(cwd[p], s)
      BY <1>1, <3>1 DEF Weight
    <3>4. One(ftable'[g].ip, s) = 0 /\ One(ftable[g].ip, s) = One(t, s)
      BY <2>3, <2>12, <3>1
    <3>q. QED BY <2>11, <3>1, <3>2, <3>3, <3>4
  <2>14. NoFile.ref = ftable[g].ref + One(0, g) - One(ofile[p][fd], g) /\ (NoFile.ip # 0 <=> NoFile.ref > 0)
    BY <1>2, <1>4, <1>5, <2>1, <2>2 DEF One
  <2>q. QED BY <1>2, <1>3, <1>4, <2>1, <2>2, <2>6, <2>7, <2>8, <2>9, <2>11, <2>13, <2>14, FileStep
<1>q. QED BY <1>6, <1>7

(* close() of a descriptor. *)
LEMMA CloseR ==
    ASSUME RInv, NEW p \in Procs, Close(p)
    PROVE  MInv'
<1>1. MInv /\ proc[p].pc = "user" /\ UNCHANGED <<icache, cwd>>
  BY DEF RInv, Close, Call, At
<1>2. PICK fd \in Fds \ FreeFds(p) : FileClose(p, fd, "user")
  BY DEF Close
<1>3. fd \in Fds /\ ofile[p][fd] # 0
  BY DEF FreeFds
<1>q. QED BY <1>1, <1>2, <1>3, FileCloseR

(* exit() closes the least open descriptor. *)
LEMMA ExitCloseR ==
    ASSUME RInv, NEW p \in Procs, ExitClose(p)
    PROVE  MInv'
<1>1. MInv /\ proc[p].pc = "exit" /\ UNCHANGED <<icache, cwd>>
  BY DEF RInv, ExitClose, At
<1>2. PICK fd : fd = Least(Fds \ FreeFds(p)) /\ FileClose(p, fd, "exit")
  BY DEF ExitClose
<1>3. Fds \ FreeFds(p) \in SUBSET Nat /\ Fds \ FreeFds(p) # {}
  BY DEF ExitClose, Fds
<1>4. fd \in Fds \ FreeFds(p)
  BY <1>2, <1>3, LeastIn
<1>5. fd \in Fds /\ ofile[p][fd] # 0
  BY <1>4 DEF FreeFds
<1>q. QED BY <1>1, <1>2, <1>5, FileCloseR

(* dup() counts one more descriptor. *)
LEMMA DupR ==
    ASSUME RInv, NEW p \in Procs, Dup(p)
    PROVE  MInv'
<1> DEFINE r == proc[p]
<1>0. MInv /\ r.pc = "user" /\ UNCHANGED <<icache, cwd, proc>> /\ FreeFds(p) # {}
  BY DEF RInv, Dup, Call, At
<1>1. /\ r \in Records /\ Shape(r)
      /\ \A s \in Slots : icache[s].lock # p /\ ~Locks(r, s)
      /\ cwd[p] \in Slots /\ ~Gone(r) /\ r.pc # "write"
  BY <1>0, AtRest
<1>2. PICK e \in Fds \ FreeFds(p) :
         /\ ofile' = [ofile EXCEPT ![p][Least(FreeFds(p))] = ofile[p][e]]
         /\ ftable' = [ftable EXCEPT ![ofile[p][e]].ref = @ + 1]
  BY DEF Dup
<1>3. PICK g, fd : g = ofile[p][e] /\ fd = Least(FreeFds(p))
  OBVIOUS
<1>4. /\ g \in Files /\ ftable[g].ref > 0 /\ ftable[g] \in FileRecords
      /\ ftable[g].ip \in Slots
      /\ ofile \in [Procs -> [Fds -> Files \cup {0}]] /\ ftable \in [Files -> FileRecords]
  BY <1>0, <1>3, OpenFile DEF FreeFds
<1>5. fd \in Fds /\ ofile[p][fd] = 0 /\ cwd[p] # 0 /\ g # 0
  BY <1>0, <1>1, <1>3, <1>4, FreeOnes DEF Slots, Files
<1>6. PICK k \in Nat : k = ftable[g].ref + 1
  BY <1>4 DEF FileRecords
<1>7. PICK h : h = [ftable[g] EXCEPT !.ref = k]
  OBVIOUS
<1>8. h \in FileRecords /\ h.ref = k /\ h.ip = ftable[g].ip
  BY <1>4, <1>7 DEF FileRecords
<1>9. ofile' = [ofile EXCEPT ![p][fd] = g] /\ ftable' = [ftable EXCEPT ![g] = h]
  BY <1>2, <1>3, <1>4, <1>6, <1>7
<1>10. Mine(p, r)
  <2>1. proc \in [Procs -> Records]
    BY <1>0 DEF MInv, Shapes
  <2>q. QED BY <1>0, <2>1 DEF Mine
<1>11. Sets(p, r, icache')
  BY <1>0, <1>1, SetsSame
<1>12. Locking(p, r) /\ SlotsOK' /\ icache' \in [Slots -> SlotRecords]
       /\ \A s \in Slots : icache'[s].ref = icache[s].ref /\ icache[s].ref \in Nat
  BY <1>0, <1>11, SetsGives
<1>13. ftable'[g].ip = ftable[g].ip
  BY <1>4, <1>8, <1>9
<1>14. \A s \in Slots : icache'[s].ref = icache[s].ref + Weight(r, cwd'[p], s) - Weight(r, cwd[p], s)
                                         + One(ftable'[g].ip, s) - One(ftable[g].ip, s)
  <2> TAKE s \in Slots
  <2>1. Weight(r, cwd[p], s) \in Nat /\ One(ftable[g].ip, s) \in Nat
    BY WeightNat
  <2>q. QED BY <1>0, <1>12, <1>13, <2>1
<1>15. h.ip # 0 <=> h.ref > 0
  BY <1>4, <1>6, <1>8 DEF Slots, FileRecords
<1>16. h.ref = ftable[g].ref + One(g, g) - One(ofile[p][fd], g)
  BY <1>4, <1>5, <1>6, <1>8 DEF One, FileRecords
<1>17. cwd' = cwd /\ {ofile[p][fd], g} \subseteq {0, g} /\ g \in Files \cup {0}
  BY <1>0, <1>4, <1>5
<1>18. PICK r2 : r2 = r
  OBVIOUS
<1>19. r2 \in Records /\ Shape(r2) /\ ~Gone(r2) /\ Mine(p, r2) /\ Locking(p, r2)
  BY <1>1, <1>10, <1>12, <1>18
<1>20. \A s \in Slots : icache'[s].ref = icache[s].ref + Weight(r2, cwd'[p], s) - Weight(proc[p], cwd[p], s)
                                         + One(ftable'[g].ip, s) - One(ftable[g].ip, s)
  BY <1>14, <1>18
<1>q. QED BY <1>0, <1>4, <1>5, <1>8, <1>9, <1>12, <1>15, <1>16, <1>17, <1>19, <1>20, FileStep

(* A process has finitely many descriptors. *)
LEMMA FdsAreFinite == IsFiniteSet(Fds)
BY FileSystemAssumption, FS_Interval DEF Fds

(* The child of fork() has the descriptors of its parent. *)
LEMMA ForkFds ==
    ASSUME NEW p \in Procs, NEW q \in Procs, p # q, ofile \in [Procs -> [Fds -> Files \cup {0}]],
           \A fd \in Fds : ofile[q][fd] = 0, ofile' = [ofile EXCEPT ![q] = ofile[p]], NEW f \in Files
    PROVE  /\ Cardinality(FdsOf(f)') = Cardinality(FdsOf(f)) + Descriptors(p, f)
           /\ Descriptors(p, f) \in Nat /\ Cardinality(FdsOf(f)) \in Nat
           /\ Cardinality(FdsOf(f)) = 0 => Descriptors(p, f) = 0
<1> DEFINE D == {fd \in Fds : ofile[p][fd] = f}
<1>1. IsFiniteSet(Fds)
  BY FdsAreFinite
<1>2. IsFiniteSet(D) /\ Cardinality(D) \in Nat
  BY <1>1, FS_Subset, FS_CardinalityType
<1>3. IsFiniteSet({q}) /\ Cardinality({q}) = 1
  BY FS_Singleton
<1>4. IsFiniteSet({q} \X D) /\ Cardinality({q} \X D) = 1 * Cardinality(D)
  <2> HIDE DEF D
  <2>q. QED BY <1>2, <1>3, FS_Product
<1>5. IsFiniteSet(FdsOf(f)) /\ Cardinality(FdsOf(f)) \in Nat
  BY FdsFinite
<1>6. f # 0
  BY DEF Files
<1>7. FdsOf(f)' = FdsOf(f) \cup ({q} \X D)
  <2>1. ofile'[q] = ofile[p] /\ \A r \in Procs \ {q} : ofile'[r] = ofile[r]
    OBVIOUS
  <2>2. FdsOf(f)' = {x \in Procs \X Fds : ofile'[x[1]][x[2]] = f}
    BY DEF FdsOf, Fds
  <2>3. ASSUME NEW x PROVE x \in FdsOf(f)' <=> x \in FdsOf(f) \cup ({q} \X D)
    <3>1. CASE x \in Procs \X Fds
      <4>1. PICK r \in Procs, e \in Fds : x = <<r, e>>
        BY <3>1
      <4>2. x \in FdsOf(f)' <=> ofile'[r][e] = f
        BY <2>2, <4>1
      <4>3. x \in FdsOf(f) <=> ofile[r][e] = f
        BY <4>1 DEF FdsOf
      <4>4. x \in {q} \X D <=> r = q /\ ofile[p][e] = f
        BY <4>1
      <4>5. CASE r = q
        BY <1>6, <2>1, <4>2, <4>3, <4>4, <4>5
      <4>6. CASE r # q
        BY <2>1, <4>2, <4>3, <4>4, <4>6
      <4>q. QED BY <4>5, <4>6
    <3>2. CASE x \notin Procs \X Fds
      <4>1. x \notin FdsOf(f)' /\ x \notin FdsOf(f)
        BY <2>2, <3>2 DEF FdsOf
      <4>2. x \notin {q} \X D
        BY <3>2
      <4>q. QED BY <4>1, <4>2
    <3>q. QED BY <3>1, <3>2
  <2>q. QED BY <2>3
<1>8. FdsOf(f) \cap ({q} \X D) = {}
  BY <1>6 DEF FdsOf
<1>9. Cardinality(FdsOf(f) \cup ({q} \X D)) = Cardinality(FdsOf(f)) + Cardinality({q} \X D)
  <2>1. PICK T : T = {q} \X D
    OBVIOUS
  <2>2. IsFiniteSet(T) /\ FdsOf(f) \cap T = {} /\ Cardinality(T) \in Nat
    BY <1>2, <1>4, <1>8, <2>1
  <2>3. Cardinality(FdsOf(f) \cup T) = Cardinality(FdsOf(f)) + Cardinality(T) - Cardinality(FdsOf(f) \cap T)
    BY <1>5, <2>2, FS_Union
  <2>4. Cardinality(FdsOf(f) \cap T) = 0
    BY <2>2, FS_EmptySet
  <2>5. Cardinality(FdsOf(f) \cup T) = Cardinality(FdsOf(f)) + Cardinality(T)
    BY <1>5, <2>2, <2>3, <2>4
  <2>q. QED BY <2>1, <2>5
<1>10. Cardinality({q} \X D) = Descriptors(p, f)
  BY <1>2, <1>4 DEF Descriptors
<1>11. Descriptors(p, f) \in Nat
  BY <1>2 DEF Descriptors
<1>12. Cardinality(FdsOf(f)) = 0 => Descriptors(p, f) = 0
  <2> SUFFICES ASSUME Cardinality(FdsOf(f)) = 0 PROVE Descriptors(p, f) = 0
    OBVIOUS
  <2>1. FdsOf(f) = {}
    BY <1>5, FS_EmptySet
  <2>2. D = {}
    <3>1. \A fd \in Fds : <<p, fd>> \notin FdsOf(f)
      BY <2>1
    <3>q. QED BY <3>1 DEF FdsOf
  <2>q. QED BY <2>2, FS_EmptySet DEF Descriptors
<1>q. QED BY <1>5, <1>7, <1>9, <1>10, <1>11, <1>12

(* fork() counts the child's descriptors and its working directory. *)
LEMMA ForkR ==
    ASSUME RInv, NEW p \in Procs, NEW q \in Procs, Fork(p, q)
    PROVE  MInv'
<1>0. MInv /\ proc[p].pc = "user" /\ proc[q].pc = "unused" /\ p # q
  BY DEF RInv, Fork, At
<1>1. cwd[p] \in Slots /\ Usable(cwd[p])
  <2>1. cwd[p] \in Slots
    BY <1>0, AtRest
  <2>q. QED BY <1>0, <2>1, HeldUsable
<1>2. PICK s : s = cwd[p]
  OBVIOUS
<1>3. /\ proc[q] \in Records /\ Point(proc[q]) = "unused" /\ Put(proc[q], 1) = 0 /\ Put(proc[q], 2) = 0
      /\ proc[q].n = 0 /\ proc[q].ip = 0 /\ proc[q].dp = 0 /\ proc[q].pc \notin FreePcs
  <2>1. proc[q].pc \notin IputPcs /\ proc[q].pc \notin FreePcs
    BY <1>0 DEF IputPcs, FreePcs
  <2>2. /\ proc[q] \in Records /\ Put(proc[q], 1) = 0 /\ Put(proc[q], 2) = 0 /\ Point(proc[q]) = "unused"
        /\ Fits(proc[q].n, proc[q].ip, proc[q].dp, proc[q].call.op, proc[q].ino, "unused")
    BY <1>0, <2>1, NothingToPut
  <2>3. proc[q].n = 0 /\ proc[q].ip = 0 /\ proc[q].dp = 0
    BY <2>2 DEF Fits, IpPoints, DpPoints, CreateIp, CreateDir, LinkIp
  <2>q. QED BY <2>1, <2>2, <2>3
<1>4. cwd[q] = 0 /\ \A fd \in Fds : ofile[q][fd] = 0
  BY <1>0, <1>3 DEF MInv, OwnsOK, Gone
<1>5. /\ ofile \in [Procs -> [Fds -> Files \cup {0}]] /\ ftable \in [Files -> FileRecords]
      /\ cwd \in [Procs -> Slots \cup {0}] /\ icache \in [Slots -> SlotRecords]
      /\ proc \in [Procs -> Records] /\ \A r \in Procs : Shape(proc[r])
  BY <1>0 DEF MInv, MemTypes, Shapes
<1>6. /\ ftable' = [f \in Files |-> [ftable[f] EXCEPT !.ref = @ + Descriptors(p, f)]]
      /\ ofile' = [ofile EXCEPT ![q] = ofile[p]]
      /\ cwd' = [cwd EXCEPT ![q] = s]
      /\ icache' = [icache EXCEPT ![s] = [icache[s] EXCEPT !.ref = icache[s].ref + 1]]
      /\ Become(q, User)
  BY <1>2, <1>5 DEF Fork, SetSlot, Idup
<1>7. \A f \in Files :
         /\ Cardinality(FdsOf(f)') = Cardinality(FdsOf(f)) + Descriptors(p, f)
         /\ Descriptors(p, f) \in Nat /\ Cardinality(FdsOf(f)) \in Nat
         /\ Cardinality(FdsOf(f)) = 0 => Descriptors(p, f) = 0
  BY <1>0, <1>4, <1>5, <1>6, ForkFds
<1>8. \A f \in Files : ftable'[f] \in FileRecords /\ ftable'[f].ip = ftable[f].ip /\ ftable'[f].ref = ftable[f].ref + Descriptors(p, f)
  <2> TAKE f \in Files
  <2>1. PICK k \in Nat : k = ftable[f].ref + Descriptors(p, f)
    BY <1>5, <1>7 DEF FileRecords
  <2>2. ftable'[f] = [ftable[f] EXCEPT !.ref = k]
    BY <1>6, <2>1
  <2>3. ftable[f] \in FileRecords
    BY <1>5
  <2>q. QED BY <2>1, <2>2, <2>3 DEF FileRecords
<1>9. /\ icache' \in [Slots -> SlotRecords]
      /\ icache'[s].ref = icache[s].ref + 1 /\ icache'[s].lock = icache[s].lock /\ icache'[s].inum = icache[s].inum
      /\ \A t \in Slots \ {s} : icache'[t] = icache[t]
  <2>1. PICK b \in Nat : b = icache[s].ref + 1
    BY <1>1, <1>2 DEF Usable, SlotRecords
  <2>2. icache' = [icache EXCEPT ![s] = [icache[s] EXCEPT !.ref = b]]
    BY <1>6, <2>1
  <2>3. icache[s] \in SlotRecords /\ s \in Slots
    BY <1>1, <1>2 DEF Usable
  <2>4. [icache[s] EXCEPT !.ref = b] \in SlotRecords
    BY <2>3 DEF SlotRecords
  <2>5. /\ [icache[s] EXCEPT !.ref = b].ref = b /\ [icache[s] EXCEPT !.ref = b].lock = icache[s].lock
        /\ [icache[s] EXCEPT !.ref = b].inum = icache[s].inum
    BY <2>3 DEF SlotRecords
  <2>q. QED BY <1>5, <2>1, <2>2, <2>3, <2>4, <2>5
<1>10. proc' = [proc EXCEPT ![q] = User] /\ proc'[q] = User /\ \A r \in Procs \ {q} : proc'[r] = proc[r]
  BY <1>5, <1>6 DEF Become
<1>11. /\ ofile' \in [Procs -> [Fds -> Files \cup {0}]] /\ ftable' \in [Files -> FileRecords]
       /\ cwd' \in [Procs -> Slots \cup {0}] /\ cwd'[q] = s
       /\ \A r \in Procs \ {q} : ofile'[r] = ofile[r] /\ cwd'[r] = cwd[r]
  <2>1. ftable' \in [Files -> FileRecords]
    BY <1>6, <1>8
  <2>q. QED BY <1>1, <1>2, <1>5, <1>6, <2>1
<1>12. Mine(q, User)
  BY <1>10, <1>11 DEF Mine
<1>13. MemTypes'
  BY <1>9, <1>11 DEF MemTypes, Slots, Files, Fds, SlotRecords, FileRecords, Types
<1>14. Shapes'
  <2>1. proc' \in [Procs -> Records]
    BY <1>5, <1>10, UserFields
  <2>2. \A r \in Procs : Shape(proc'[r])
    BY <1>5, <1>10, UserFields
  <2>3. Shapes' <=> (proc' \in [Procs -> Records] /\ \A r \in Procs : Shape(proc'[r]))
    BY DEF Shapes, Records, Shape, Named, LastOf, WantsParent, Fits, OpAt, LocksAt, Put, Point, Slots
  <2>q. QED BY <2>1, <2>2, <2>3
<1>15. LocksOK'
  <2>1. \A t \in Slots : ~Locks(proc[q], t)
    BY <1>3 DEF Locks, LocksAt, Slots
  <2>2. \A t \in Slots : icache[t].lock # q /\ icache'[t].lock = icache[t].lock
    BY <1>0, <1>9, <2>1 DEF MInv, LocksOK
  <2>3. Locking(q, User)
    BY <2>2, UserFields DEF Locking
  <2>q. QED BY <1>0, <1>5, <1>12, <2>3, LocksStep DEF MInv
<1>16. OwnsOK'
  <2> SUFFICES ASSUME NEW r \in Procs
               PROVE  /\ cwd'[r] # 0 <=> ~Gone(proc'[r])
                      /\ Gone(proc'[r]) => \A e \in Fds : ofile'[r][e] = 0
    BY DEF OwnsOK, Gone, Point, Fds
  <2>1. CASE r = q
    BY <1>1, <1>2, <1>10, <1>11, <2>1, UserFields DEF Slots
  <2>2. CASE r # q
    BY <1>0, <1>10, <1>11, <2>2 DEF MInv, OwnsOK
  <2>q. QED BY <2>1, <2>2
<1>17. RefsOK'
  <2>1. \A t \in Slots : icache'[t].ref = icache[t].ref + Weight(User, cwd'[q], t) - Weight(proc[q], cwd[q], t)
    <3> TAKE t \in Slots
    <3>1. One(0, t) = 0 /\ One(s, t) \in Nat
      BY DEF One, Slots
    <3>2. Weight(User, cwd'[q], t) = One(s, t)
      BY <1>11, <3>1, UserFields DEF Weight
    <3>3. Weight(proc[q], cwd[q], t) = 0
      BY <1>3, <1>4, <3>1 DEF Weight
    <3>4. icache[t].ref \in Nat
      BY <1>5 DEF SlotRecords
    <3>5. icache'[t].ref = icache[t].ref + One(s, t)
      BY <1>9, <3>4 DEF One
    <3>q. QED BY <3>1, <3>2, <3>3, <3>4, <3>5
  <2>2. \A f \in Files : ftable'[f].ip = ftable[f].ip
    BY <1>8
  <2>q. QED BY <1>0, <1>5, <1>12, <2>1, <2>2, RefsStep DEF MInv
<1>18. FilesOK'
  <2> SUFFICES ASSUME NEW f \in Files
               PROVE  /\ ftable'[f].ref = Cardinality(FdsOf(f)')
                      /\ ftable'[f].ip # 0 <=> ftable'[f].ref > 0
    BY DEF FilesOK, Files
  <2>1. ftable[f].ref = Cardinality(FdsOf(f)) /\ (ftable[f].ip # 0 <=> ftable[f].ref > 0)
    BY <1>0 DEF MInv, FilesOK
  <2>q. QED BY <1>7, <1>8, <2>1
<1>19. SlotsOK'
  <2>1. Kept
    BY <1>1, <1>2, <1>9 DEF Kept, Usable
  <2>q. QED BY <1>0, <2>1, SlotsKept DEF MInv
<1>q. QED BY <1>13, <1>14, <1>15, <1>16, <1>17, <1>18, <1>19 DEF MInv

-----------------------------------------------------------------------------
BootedNow == Booted(icache, ftable, ofile, cwd, proc)

(* A machine that has just booted has one reference, init's to the root. *)
LEMMA BootMInv == BootedNow => MInv
<1> SUFFICES ASSUME BootedNow PROVE MInv
  OBVIOUS
<1>0. /\ icache = [s \in Slots |-> IF s = 1 THEN [FreeSlot EXCEPT !.inum = EXT2INO, !.ref = 1] ELSE FreeSlot]
      /\ ftable = [f \in Files |-> NoFile]
      /\ ofile = [p \in Procs |-> [fd \in Fds |-> 0]]
      /\ cwd = [p \in Procs |-> IF p = init THEN 1 ELSE 0]
      /\ proc = [p \in Procs |-> IF p = init THEN User ELSE NoProc]
  BY DEF BootedNow, Booted
<1>1. 1 \in Slots /\ init \in Procs /\ EXT2INO \in Inums /\ EXT2INO # 0
  <2>1. Cardinality(Inums) # 0 /\ Cardinality(Inums) \in Nat
    BY Ext2Assumption, FS_EmptySet, FS_CardinalityType
  <2>q. QED BY <2>1, Ext2Assumption, FileSystemAssumption DEF Slots
<1>2. PICK root : root = [FreeSlot EXCEPT !.inum = EXT2INO, !.ref = 1]
  OBVIOUS
<1>3. /\ FreeSlot \in SlotRecords /\ FreeSlot.ref = 0 /\ FreeSlot.lock = nullptr
      /\ root \in SlotRecords /\ root.ref = 1 /\ root.lock = nullptr /\ root.inum = EXT2INO
  <2>1. FreeSlot \in SlotRecords /\ FreeSlot.ref = 0 /\ FreeSlot.lock = nullptr
    BY DEF FreeSlot, SlotRecords, Types
  <2>2. root = [inum |-> EXT2INO, ref |-> 1, valid |-> FALSE, type |-> "none", nlink |-> 0, blk |-> 0, lock |-> nullptr]
    BY <1>2 DEF FreeSlot
  <2>3. root \in SlotRecords
    BY <1>1, <2>2 DEF SlotRecords, Types
  <2>q. QED BY <2>1, <2>2, <2>3
<1>4. /\ icache \in [Slots -> SlotRecords] /\ icache[1] = root
      /\ \A s \in Slots \ {1} : icache[s] = FreeSlot
      /\ \A s \in Slots : icache[s].lock = nullptr
  BY <1>0, <1>1, <1>2, <1>3
<1>5. MemTypes
  <2>1. NoFile \in FileRecords
    BY DEF NoFile, FileRecords
  <2>2. cwd \in [Procs -> Slots \cup {0}]
    BY <1>0, <1>1
  <2>3. ofile \in [Procs -> [Fds -> Files \cup {0}]] /\ ftable \in [Files -> FileRecords]
    BY <1>0, <2>1
  <2>q. QED BY <1>4, <2>2, <2>3 DEF MemTypes
<1>6. \A p \in Procs : proc[p] = (IF p = init THEN User ELSE NoProc)
  BY <1>0
<1>7. Shapes
  BY <1>0, <1>6, UserFields DEF Shapes
<1>8. LocksOK
  <2>1. \A p \in Procs, s \in Slots : ~Locks(proc[p], s) /\ proc[p].pc # "write"
    BY <1>6, UserFields
  <2>q. QED BY <1>4, <2>1, Ext2Assumption DEF LocksOK
<1>9. OwnsOK
  BY <1>0, <1>1, <1>6, UserFields DEF OwnsOK
<1>10. \A x \in Places : Holds(x) = IF x = <<"cwd", init>> THEN 1 ELSE 0
  <2> TAKE x \in Places
  <2>1. CASE \E f \in Files : x = <<"file", f>>
    BY <1>0, <2>1, HoldsFile DEF NoFile
  <2>2. CASE \E p \in Procs : x \in {<<"n", p>>, <<"ip", p>>, <<"dp", p>>, <<"put1", p>>, <<"put2", p>>, <<"cwd", p>>}
    <3>1. PICK p \in Procs : x \in {<<"n", p>>, <<"ip", p>>, <<"dp", p>>, <<"put1", p>>, <<"put2", p>>, <<"cwd", p>>}
      BY <2>2
    <3>2. proc[p].n = 0 /\ proc[p].ip = 0 /\ proc[p].dp = 0 /\ Put(proc[p], 1) = 0 /\ Put(proc[p], 2) = 0
      BY <1>6, UserFields
    <3>3. cwd[p] = IF p = init THEN 1 ELSE 0
      BY <1>0
    <3>4. CASE x = <<"cwd", p>>
      BY <3>3, <3>4, HoldsProc
    <3>5. CASE x # <<"cwd", p>>
      <4>1. Holds(x) = 0
        BY <3>1, <3>2, <3>5, HoldsProc
      <4>2. x # <<"cwd", init>>
        BY <3>1, <3>5
      <4>q. QED BY <4>1, <4>2
    <3>q. QED BY <3>4, <3>5
  <2>q. QED BY <2>1, <2>2, PlaceKinds
<1>11. RefsOK
  <2>1. Users(1) = {<<"cwd", init>>}
    <3>1. <<"cwd", init>> \in Places
      BY <1>1, HoldsProc
    <3>2. ASSUME NEW x PROVE x \in Users(1) <=> x = <<"cwd", init>>
      BY <1>10, <3>1 DEF Users
    <3>q. QED BY <3>2
  <2>2. \A s \in Slots \ {1} : Users(s) = {}
    BY <1>10 DEF Users, Slots
  <2>3. Cardinality(Users(1)) = 1
    BY <2>1, FS_Singleton
  <2>4. \A s \in Slots \ {1} : Cardinality(Users(s)) = 0
    BY <2>2, FS_EmptySet
  <2>q. QED BY <1>3, <1>4, <2>3, <2>4 DEF RefsOK
<1>12. FilesOK
  <2>1. \A f \in Files : FdsOf(f) = {}
    BY <1>0 DEF FdsOf, Files
  <2>2. \A f \in Files : Cardinality(FdsOf(f)) = 0
    BY <2>1, FS_EmptySet
  <2>q. QED BY <1>0, <2>2 DEF FilesOK, NoFile
<1>13. SlotsOK
  BY <1>1, <1>3, <1>4 DEF SlotsOK
<1>q. QED BY <1>5, <1>7, <1>8, <1>9, <1>11, <1>12, <1>13 DEF MInv

(* The same of a machine that boots in this step, after a crash. *)
LEMMA BootNext == BootedNow' => MInv'
BY BootMInv, PTL

(* What a call has. *)
LEMMA Locals ==
    ASSUME MInv, NEW p \in Procs, InCall(p)
    PROVE  /\ proc[p].pc \in IpPoints => proc[p].ip \in Slots /\ Usable(proc[p].ip)
           /\ proc[p].pc \in DpPoints => /\ proc[p].dp \in Slots /\ Usable(proc[p].dp)
                                         /\ LastName(p) \in DirNames
           /\ proc[p].pc \in {"ialloc_bitmap", "ialloc_iget"} => proc[p].ino \in Inums
           /\ proc[p].pc \in IpLocked => icache[proc[p].ip].lock = p /\ proc[p].ip # proc[p].dp
           /\ proc[p].pc \in DpLocked => icache[proc[p].dp].lock = p
<1> DEFINE r == proc[p]
<1>1. r \in Records /\ Fits(r.n, r.ip, r.dp, r.call.op, r.ino, r.pc) /\ Named(r)
  BY NothingToPut DEF InCall
<1>2. r.pc \in IpPoints => r.ip \in Slots
  BY <1>1 DEF Records, Fits
<1>3. r.pc \in DpPoints => r.dp \in Slots /\ r.dp # 0
  BY <1>1 DEF Records, Fits
<1>4. r.pc \in IpPoints => Usable(r.ip)
  BY <1>2, HeldUsable
<1>5. r.pc \in DpPoints => Usable(r.dp)
  BY <1>3, HeldUsable
<1>6. r.pc \in DpPoints => LastName(p) \in DirNames
  BY <1>1, <1>3 DEF Named, LastOf, LastName
<1>7. r.pc \in {"ialloc_bitmap", "ialloc_iget"} => r.ino \in Inums
  BY <1>1 DEF Records, Fits
<1>8. IpLocked \subseteq IpPoints /\ DpLocked \subseteq DpPoints
  BY DEF IpLocked, DpLocked, IpPoints, DpPoints
<1>9. r.pc \in IpLocked => icache[r.ip].lock = p /\ r.ip # r.dp
  BY <1>1, <1>2, <1>8, CallLocks DEF Fits, LocksAt
<1>10. r.pc \in DpLocked => icache[r.dp].lock = p
  BY <1>3, <1>8, CallLocks DEF LocksAt
<1>q. QED BY <1>2, <1>3, <1>4, <1>5, <1>6, <1>7, <1>9, <1>10

(* iupdate() writes an entry of the inode table. *)
LEMMA IupdateTypes ==
    ASSUME DiskTypes, NEW i \in SlotRecords, i.inum \in Inums
    PROVE  /\ IupdateEntry(i) \in Entries
           /\ Iupdate(i) => dinode' \in [Inums -> Entries]
<1>1. dinode \in [Inums -> Entries]
  BY DEF DiskTypes
<1>2. dinode[i.inum].mode \in Types /\ i.type \in Types /\ i.nlink \in Int /\ i.blk \in Blocks \cup {0}
  BY <1>1 DEF Entries, SlotRecords
<1>3. IupdateEntry(i) \in Entries
  BY <1>2 DEF IupdateEntry, Entries
<1>q. QED BY <1>1, <1>3 DEF Iupdate

(* Writing one directory entry keeps the directories' type. *)
LEMMA DentsTypes ==
    ASSUME DiskTypes, NEW d \in Inums, NEW n \in DirNames, NEW v \in Inums \cup {0}, dents' = [dents EXCEPT ![d][n] = v]
    PROVE  dents' \in [Inums -> [DirNames -> Inums \cup {0}]]
BY DEF DiskTypes

(* Clearing a directory keeps the directories' type. *)
LEMMA NoDentsTypes ==
    ASSUME DiskTypes, NEW d \in Inums, dents' = [dents EXCEPT ![d] = NoDents]
    PROVE  dents' \in [Inums -> [DirNames -> Inums \cup {0}]]
BY DEF DiskTypes, NoDents

DiskTyped ==
    /\ ibitmap' \in SUBSET Inums
    /\ bbitmap' \in SUBSET Blocks
    /\ dinode' \in [Inums -> Entries]
    /\ dents' \in [Inums -> [DirNames -> Inums \cup {0}]]

(* DiskTyped says of the next state what DiskTypes says. *)
LEMMA DiskTypedIs == DiskTyped <=> DiskTypes'
BY DEF DiskTyped, DiskTypes, Entries, Types, DirNames

(* A step that writes nothing keeps the disk's type. *)
LEMMA DiskSame ==
    ASSUME DiskTypes, UNCHANGED diskVars
    PROVE  DiskTypes'
BY DiskTypedIs DEF DiskTyped, DiskTypes, diskVars

(* balloc() marks a block of the disk. *)
LEMMA BallocTypes ==
    ASSUME DiskTypes, NEW b \in FreeBlocks, Balloc(b)
    PROVE  bbitmap' \in SUBSET Blocks
BY DEF DiskTypes, Balloc, FreeBlocks

(* The slot of a counted inode has a number of the disk. *)
LEMMA UseSlot ==
    ASSUME NEW s, Usable(s)
    PROVE  icache[s].inum \in Inums /\ icache[s] \in SlotRecords
BY DEF Usable

(* So has a changed slot that keeps its number. *)
LEMMA LikeInum ==
    ASSUME NEW i, NEW s, NEW l, Like(i, s, l), Usable(s)
    PROVE  i \in SlotRecords /\ i.inum \in Inums /\ i.inum = icache[s].inum
BY DEF Like, Usable

(* A step whose only write is an iupdate() keeps the disk's type. *)
LEMMA IupdateDisk ==
    ASSUME DiskTypes, NEW i, NEW s, NEW l, Like(i, s, l), Usable(s), Iupdate(i), UNCHANGED <<ibitmap, bbitmap, dents>>
    PROVE  DiskTypes'
BY LikeInum, IupdateTypes, DiskTypedIs DEF DiskTyped, DiskTypes

(* A step whose only write is a directory entry keeps the disk's type. *)
LEMMA DentsDisk ==
    ASSUME DiskTypes, NEW d \in Inums, NEW n \in DirNames, NEW v \in Inums \cup {0},
           dents' = [dents EXCEPT ![d][n] = v], UNCHANGED <<ibitmap, bbitmap, dinode>>
    PROVE  DiskTypes'
BY DentsTypes, DiskTypedIs DEF DiskTyped, DiskTypes

(* The disk, step by step. *)
LEMMA FreeDisk ==
    ASSUME RInv, NEW p \in Procs, Ifree(p) \/ Bfree(p) \/ IfreeUpdate(p)
    PROVE  DiskTypes'
<1>0. MInv /\ DiskTypes /\ proc[p].pc \in FreePcs
  BY DEF RInv, Ifree, Bfree, IfreeUpdate, At, FreePcs
<1>1. PICK s : s = Head(proc[p].puts) /\ Usable(s) /\ s \in Slots
  BY <1>0, Freeing DEF Usable
<1>2. CASE Ifree(p)
  BY <1>0, <1>2, DiskTypedIs DEF DiskTyped, DiskTypes, Ifree
<1>3. CASE Bfree(p)
  BY <1>0, <1>3, DiskTypedIs DEF DiskTyped, DiskTypes, Bfree
<1>4. CASE IfreeUpdate(p)
  <2>1. PICK i : i = [icache[s] EXCEPT !.type = "none"]
    OBVIOUS
  <2>2. i \in SlotRecords /\ i.inum \in Inums
    BY <1>1, <2>1 DEF Usable, SlotRecords, Types
  <2>3. Iupdate(i) /\ dents' = [dents EXCEPT ![i.inum] = NoDents] /\ UNCHANGED <<ibitmap, bbitmap>>
    BY <1>1, <1>4, <2>1 DEF IfreeUpdate
  <2>4. dinode' \in [Inums -> Entries] /\ dents' \in [Inums -> [DirNames -> Inums \cup {0}]]
    BY <1>0, <2>2, <2>3, IupdateTypes, NoDentsTypes
  <2>q. QED BY <1>0, <2>3, <2>4, DiskTypedIs DEF DiskTyped, DiskTypes
<1>q. QED BY <1>2, <1>3, <1>4

(* ialloc() keeps the disk's type. *)
LEMMA IallocDisk ==
    ASSUME RInv, NEW p \in Procs, IallocInode(p) \/ IallocBitmap(p)
    PROVE  DiskTypes'
<1>0. MInv /\ DiskTypes
  BY DEF RInv
<1>1. CASE IallocInode(p)
  <2>1. FreeInums \in SUBSET Nat /\ FreeInums # {}
    BY <1>1, Ext2Assumption DEF FreeInums, IallocInode
  <2>2. PICK ino \in Inums : ino = Least(FreeInums)
    BY <2>1, LeastIn DEF FreeInums
  <2>3. PICK e \in Entries : e = [mode |-> TypeOf(proc[p].call.op), nlink |-> 0, blk |-> 0]
    <3>1. PICK ty \in Types : ty = TypeOf(proc[p].call.op)
      BY DEF TypeOf, Types
    <3>2. [mode |-> ty, nlink |-> 0, blk |-> 0] \in Entries
      BY DEF Entries
    <3>q. QED BY <3>1, <3>2
  <2>4. dinode' = [dinode EXCEPT ![ino] = e] /\ dents' = [dents EXCEPT ![ino] = NoDents] /\ UNCHANGED <<ibitmap, bbitmap>>
    BY <1>1, <2>2, <2>3 DEF IallocInode
  <2>5. dents' \in [Inums -> [DirNames -> Inums \cup {0}]]
    BY <1>0, <2>4, NoDentsTypes
  <2>q. QED BY <1>0, <2>4, <2>5, DiskTypedIs DEF DiskTyped, DiskTypes
<1>2. CASE IallocBitmap(p)
  <2>1. proc[p].pc = "ialloc_bitmap" /\ InCall(p)
    BY <1>2 DEF IallocBitmap, At, InCall, IputPcs
  <2>2. proc[p].ino \in Inums
    BY <1>0, <2>1, Locals
  <2>q. QED BY <1>0, <1>2, <2>2, DiskTypedIs DEF DiskTyped, DiskTypes, IallocBitmap
<1>q. QED BY <1>1, <1>2

(* The writes of create() keep the disk's type. *)
LEMMA CreateDisk ==
    ASSUME RInv, NEW p \in Procs,
           \/ CreateInode(p) \/ CreateParent(p) \/ CreateBlock(p) \/ CreateDot(p) \/ CreateDotDot(p) \/ CreateLink(p)
    PROVE  DiskTypes'
<1> DEFINE r == proc[p]
<1>0. MInv /\ DiskTypes
  BY DEF RInv
<1>1. InCall(p) /\ r.pc \in CreateIp \cup {"create_inode"}
  BY DEF CreateInode, CreateParent, CreateBlock, CreateDot, CreateDotDot, CreateLink, At, InCall, IputPcs, CreateIp, CreateDir
<1>2. r.pc \in IpPoints /\ r.pc \in DpPoints
  BY <1>1 DEF IpPoints, DpPoints
<1>3. /\ r.ip \in Slots /\ Usable(r.ip) /\ r.dp \in Slots /\ Usable(r.dp) /\ LastName(p) \in DirNames
      /\ icache[r.ip].inum \in Inums /\ icache[r.dp].inum \in Inums
  BY <1>0, <1>1, <1>2, Locals, UseSlot
<1>4. CASE CreateInode(p)
  <2>1. PICK ty \in Types : ty = TypeOf(r.call.op)
    BY DEF TypeOf, Types
  <2>2. PICK i : i = [Locked(r.ip, p) EXCEPT !.type = ty, !.nlink = 1]
    OBVIOUS
  <2>3. Like(i, r.ip, p)
    <3>1. Like(Locked(r.ip, p), r.ip, p)
      BY <1>0, <1>3, LikeLocked
    <3>q. QED BY <2>1, <2>2, <3>1, LikeNew
  <2>4. Iupdate(i) /\ UNCHANGED <<ibitmap, bbitmap, dents>>
    BY <1>4, <2>1, <2>2 DEF CreateInode
  <2>q. QED BY <1>0, <1>3, <2>3, <2>4, IupdateDisk
<1>5. CASE CreateParent(p)
  <2>1. PICK i : i = [icache[r.dp] EXCEPT !.nlink = @ + 1]
    OBVIOUS
  <2>2. Like(i, r.dp, icache[r.dp].lock)
    BY <1>0, <1>3, <2>1, LikeLoaded, LikeNlink
  <2>3. Iupdate(i) /\ UNCHANGED <<ibitmap, bbitmap, dents>>
    BY <1>5, <2>1 DEF CreateParent
  <2>q. QED BY <1>0, <1>3, <2>2, <2>3, IupdateDisk
<1>6. CASE CreateBlock(p)
  <2>1. PICK b \in FreeBlocks : Balloc(b)
    BY <1>6 DEF CreateBlock
  <2>2. bbitmap' \in SUBSET Blocks
    BY <1>0, <2>1, BallocTypes
  <2>q. QED BY <1>0, <1>6, <2>2, DiskTypedIs DEF DiskTyped, DiskTypes, CreateBlock
<1>7. CASE CreateDot(p)
  <2>1. /\ dents' = [dents EXCEPT ![icache[r.ip].inum]["."] = icache[r.ip].inum] /\ Iupdate(icache[r.ip])
        /\ UNCHANGED <<ibitmap, bbitmap>>
    BY <1>7 DEF CreateDot
  <2>2. dents' \in [Inums -> [DirNames -> Inums \cup {0}]]
    BY <1>0, <1>3, <2>1, DentsTypes DEF DirNames
  <2>3. dinode' \in [Inums -> Entries]
    BY <1>0, <1>3, <2>1, UseSlot, IupdateTypes
  <2>q. QED BY <1>0, <2>1, <2>2, <2>3, DiskTypedIs DEF DiskTyped, DiskTypes
<1>8. CASE CreateDotDot(p)
  BY <1>0, <1>3, <1>8, DentsDisk DEF CreateDotDot, DirNames
<1>9. CASE CreateLink(p)
  BY <1>0, <1>3, <1>9, DentsDisk DEF CreateLink
<1>q. QED BY <1>4, <1>5, <1>6, <1>7, <1>8, <1>9

(* The writes of file_write() keep the disk's type. *)
LEMMA WriteDisk ==
    ASSUME RInv, NEW p \in Procs, WriteBlock(p) \/ WriteUpdate(p)
    PROVE  DiskTypes'
<1>0. MInv /\ DiskTypes /\ icache \in [Slots -> SlotRecords]
  BY DEF RInv, MInv, MemTypes
<1>1. CASE WriteBlock(p)
  <2>1. PICK b \in FreeBlocks : Balloc(b)
    BY <1>1 DEF WriteBlock
  <2>2. bbitmap' \in SUBSET Blocks
    BY <1>0, <2>1, BallocTypes
  <2>q. QED BY <1>0, <1>1, <2>2, DiskTypedIs DEF DiskTyped, DiskTypes, WriteBlock
<1>2. CASE WriteUpdate(p)
  <2>1. PICK s \in Slots : icache[s].lock = p /\ Iupdate(icache[s])
    BY <1>2 DEF WriteUpdate
  <2>2. CASE icache[s].inum \in Inums
    <3>1. dinode' \in [Inums -> Entries]
      BY <1>0, <2>1, <2>2, IupdateTypes
    <3>q. QED BY <1>0, <1>2, <3>1, DiskTypedIs DEF DiskTyped, DiskTypes, WriteUpdate
  <2>3. CASE icache[s].inum \notin Inums
    <3>1. dinode' = [dinode EXCEPT ![icache[s].inum] = IupdateEntry(icache[s])]
      BY <2>1 DEF Iupdate
    <3>2. dinode' = dinode
      BY <1>0, <2>3, <3>1 DEF DiskTypes
    <3>q. QED BY <1>0, <1>2, <3>2, DiskTypedIs DEF DiskTyped, DiskTypes, WriteUpdate
  <2>q. QED BY <2>2, <2>3
<1>q. QED BY <1>1, <1>2

(* The writes of unlink() keep the disk's type. *)
LEMMA UnlinkDisk ==
    ASSUME RInv, NEW p \in Procs, UnlinkEntry(p) \/ UnlinkParent(p) \/ UnlinkDec(p)
    PROVE  DiskTypes'
<1> DEFINE r == proc[p]
<1>0. MInv /\ DiskTypes
  BY DEF RInv
<1>1. InCall(p)
  BY DEF UnlinkEntry, UnlinkParent, UnlinkDec, At, InCall, IputPcs
<1>2. CASE UnlinkEntry(p)
  <2>1. r.pc \in DpPoints
    BY <1>2 DEF UnlinkEntry, At, DpPoints
  <2>2. icache[r.dp].inum \in Inums /\ LastName(p) \in DirNames
    BY <1>0, <1>1, <2>1, Locals, UseSlot
  <2>3. CASE UNCHANGED dents
    BY <1>0, <1>2, <2>3, DiskSame DEF UnlinkEntry, diskVars
  <2>4. CASE dents' = [dents EXCEPT ![icache[r.dp].inum][LastName(p)] = 0]
    BY <1>0, <1>2, <2>2, <2>4, DentsDisk DEF UnlinkEntry
  <2>q. QED BY <1>2, <2>3, <2>4 DEF UnlinkEntry
<1>3. CASE UnlinkParent(p)
  <2>1. r.pc \in DpPoints
    BY <1>3 DEF UnlinkParent, At, DpPoints
  <2>2. Usable(r.dp)
    BY <1>0, <1>1, <2>1, Locals
  <2>3. PICK i : i = [icache[r.dp] EXCEPT !.nlink = @ - 1]
    OBVIOUS
  <2>4. Like(i, r.dp, icache[r.dp].lock)
    BY <1>0, <2>2, <2>3, LikeLoaded, LikeNlink
  <2>5. Iupdate(i) /\ UNCHANGED <<ibitmap, bbitmap, dents>>
    BY <1>3, <2>3 DEF UnlinkParent
  <2>q. QED BY <1>0, <2>2, <2>4, <2>5, IupdateDisk
<1>4. CASE UnlinkDec(p)
  <2>1. r.pc \in IpPoints
    BY <1>4 DEF UnlinkDec, At, IpPoints
  <2>2. Usable(r.ip)
    BY <1>0, <1>1, <2>1, Locals
  <2>3. PICK i : i = [icache[r.ip] EXCEPT !.nlink = @ - 1]
    OBVIOUS
  <2>4. Like(i, r.ip, icache[r.ip].lock)
    BY <1>0, <2>2, <2>3, LikeLoaded, LikeNlink
  <2>5. Iupdate(i) /\ UNCHANGED <<ibitmap, bbitmap, dents>>
    BY <1>4, <2>3 DEF UnlinkDec
  <2>q. QED BY <1>0, <2>2, <2>4, <2>5, IupdateDisk
<1>q. QED BY <1>2, <1>3, <1>4

(* The writes of link() keep the disk's type. *)
LEMMA LinkDisk ==
    ASSUME RInv, NEW p \in Procs, LinkInc(p) \/ LinkEntry(p) \/ LinkBad(p)
    PROVE  DiskTypes'
<1> DEFINE r == proc[p]
<1>0. MInv /\ DiskTypes
  BY DEF RInv
<1>1. InCall(p) /\ r.pc \in IpPoints
  BY DEF LinkInc, LinkEntry, LinkBad, At, InCall, IputPcs, IpPoints, LinkIp
<1>2. r.ip \in Slots /\ Usable(r.ip) /\ icache[r.ip].inum \in Inums
  BY <1>0, <1>1, Locals, UseSlot
<1>3. CASE LinkInc(p)
  <2>1. PICK i : i = [Loaded(r.ip) EXCEPT !.nlink = @ + 1]
    OBVIOUS
  <2>2. Like(i, r.ip, icache[r.ip].lock)
    BY <1>0, <1>2, <2>1, LikeLoaded, LikeNlink
  <2>3. CASE Iupdate(i)
    BY <1>0, <1>2, <1>3, <2>2, <2>3, IupdateDisk DEF LinkInc
  <2>4. CASE UNCHANGED dinode
    BY <1>0, <1>3, <2>4, DiskSame DEF LinkInc, diskVars
  <2>q. QED BY <1>3, <2>1, <2>3, <2>4 DEF LinkInc
<1>4. CASE LinkEntry(p)
  <2>1. r.pc \in DpPoints
    BY <1>4 DEF LinkEntry, At, DpPoints
  <2>2. icache[r.dp].inum \in Inums /\ LastName(p) \in DirNames
    BY <1>0, <1>1, <2>1, Locals, UseSlot
  <2>3. CASE UNCHANGED dents
    BY <1>0, <1>4, <2>3, DiskSame DEF LinkEntry, diskVars
  <2>4. CASE dents' = [dents EXCEPT ![icache[r.dp].inum][LastName(p)] = icache[r.ip].inum]
    BY <1>0, <1>2, <1>4, <2>2, <2>4, DentsDisk DEF LinkEntry
  <2>q. QED BY <1>4, <2>3, <2>4 DEF LinkEntry
<1>5. CASE LinkBad(p)
  <2>1. PICK i : i = [Loaded(r.ip) EXCEPT !.nlink = @ - 1]
    OBVIOUS
  <2>2. Like(i, r.ip, icache[r.ip].lock)
    BY <1>0, <1>2, <2>1, LikeLoaded, LikeNlink
  <2>3. Iupdate(i) /\ UNCHANGED <<ibitmap, bbitmap, dents>>
    BY <1>5, <2>1 DEF LinkBad
  <2>q. QED BY <1>0, <1>2, <2>2, <2>3, IupdateDisk
<1>q. QED BY <1>3, <1>4, <1>5

(* Whether ilock() panics is a Boolean. *)
LEMMA IlockBool ==
    ASSUME NEW s
    PROVE  IlockPanics(s) \in BOOLEAN
BY DEF IlockPanics

(* A step keeps the bounds on calls and crashes, and panic is a Boolean. *)
LEMMA BoundsStep ==
    ASSUME RInv, NEW p \in Procs, Step(p)
    PROVE  BoundsOK'
<1>0. panic \in BOOLEAN /\ calls \in 0..MaxCalls /\ crashes \in 0..MaxCrashes /\ MaxCalls \in Nat
  BY FileSystemAssumption DEF RInv, BoundsOK
<1>1. crashes' = crashes /\ (calls' = calls \/ (calls < MaxCalls /\ calls' = calls + 1))
  BY DEF Step, bounds, BeginPathCall, NamexElement, NamexEnd, IputLock, Ifree, Bfree, IfreeUpdate, IputDrop, CreateLookup,
         CreateExists, IallocInode, IallocBitmap, IallocIget, CreateInode, CreateParent, CreateBlock, CreateDot,
         CreateDotDot, CreateLink, CreateDone, OpenLock, OpenFd, Close, Dup, ReadFile, WriteBlock, WriteUpdate,
         UnlinkLookup, UnlinkEntry, UnlinkParent, UnlinkDec, UnlinkBad, LinkInc, LinkNew, LinkEntry, LinkTaken,
         LinkBad, Chdir, Fork, Exit, ExitClose, ExitCwd, Call
<1>2. panic' \in BOOLEAN
  <2>1. CASE UNCHANGED panic
    BY <2>1, <1>0
  <2>2. CASE NamexElement(p)
    BY <2>2, IlockBool DEF NamexElement
  <2>3. CASE CreateLookup(p)
    BY <2>3, IlockBool DEF CreateLookup
  <2>4. CASE CreateExists(p)
    BY <2>4, IlockBool DEF CreateExists
  <2>5. CASE CreateInode(p)
    BY <2>5, IlockBool DEF CreateInode
  <2>6. CASE ReadFile(p)
    BY <2>6, IlockBool DEF ReadFile
  <2>7. CASE WriteBlock(p)
    BY <2>7, IlockBool DEF WriteBlock
  <2>8. CASE UnlinkLookup(p)
    BY <2>8, IlockBool DEF UnlinkLookup
  <2>9. CASE UnlinkEntry(p)
    BY <2>9, IlockBool DEF UnlinkEntry
  <2>10. CASE LinkInc(p)
    BY <2>10, IlockBool DEF LinkInc
  <2>11. CASE LinkEntry(p)
    BY <2>11, IlockBool DEF LinkEntry
  <2>12. CASE LinkBad(p)
    BY <2>12, IlockBool DEF LinkBad
  <2>13. CASE Chdir(p)
    BY <2>13, IlockBool DEF Chdir
  <2>14. CASE Ifree(p)
    BY <2>14 DEF Ifree
  <2>15. CASE Bfree(p)
    BY <2>15 DEF Bfree
  <2>16. CASE Close(p)
    BY <2>16 DEF Close, FileClose
  <2>17. CASE Dup(p)
    BY <2>17 DEF Dup
  <2>18. CASE ExitClose(p)
    BY <2>18 DEF ExitClose, FileClose
  <2>19. ASSUME NEW op \in {"open", "openw"}, OpenLock(p, op) PROVE panic' \in BOOLEAN
    BY <2>19, IlockBool DEF OpenLock
  <2>20. CASE \/ BeginPathCall(p) \/ NamexEnd(p) \/ IputLock(p) \/ IfreeUpdate(p) \/ IputDrop(p)
             \/ IallocInode(p) \/ IallocBitmap(p) \/ IallocIget(p) \/ CreateParent(p)
             \/ CreateBlock(p) \/ CreateDot(p) \/ CreateDotDot(p) \/ CreateLink(p) \/ CreateDone(p)
             \/ OpenFd(p) \/ WriteUpdate(p) \/ UnlinkParent(p) \/ UnlinkDec(p) \/ UnlinkBad(p)
             \/ LinkNew(p) \/ LinkTaken(p) \/ Exit(p) \/ ExitCwd(p) 
             \/ \E q \in Procs : Fork(p, q)
    <3>1. UNCHANGED panic
      BY <2>20 DEF Fork, BeginPathCall, NamexEnd, IputLock, IfreeUpdate, IputDrop, IallocInode, IallocBitmap,
           IallocIget, CreateParent, CreateBlock, CreateDot, CreateDotDot, CreateLink, CreateDone,
           OpenFd, WriteUpdate, UnlinkParent, UnlinkDec, UnlinkBad, LinkNew, LinkTaken, Exit, ExitCwd
    <3>q. QED BY <3>1, <1>0
  <2>q. QED BY <2>1, <2>2, <2>3, <2>4, <2>5, <2>6, <2>7, <2>8, <2>9, <2>10, <2>11, <2>12, <2>13, <2>14, <2>15, <2>16, <2>17, <2>18, <2>19, <2>20 DEF Step
<1>q. QED BY <1>0, <1>1, <1>2 DEF BoundsOK

(* A step keeps the disk's type. *)
LEMMA DiskStep ==
    ASSUME RInv, NEW p \in Procs, Step(p)
    PROVE  DiskTypes'
<1>1. CASE UNCHANGED diskVars
  BY <1>1, DiskSame DEF RInv
<1>2. \/ UNCHANGED diskVars
      \/ Ifree(p) \/ Bfree(p) \/ IfreeUpdate(p) \/ IallocInode(p) \/ IallocBitmap(p)
      \/ CreateInode(p) \/ CreateParent(p) \/ CreateBlock(p) \/ CreateDot(p) \/ CreateDotDot(p) \/ CreateLink(p)
      \/ WriteBlock(p) \/ WriteUpdate(p) \/ UnlinkEntry(p) \/ UnlinkParent(p) \/ UnlinkDec(p)
      \/ LinkInc(p) \/ LinkEntry(p) \/ LinkBad(p)
  BY DEF Step, BeginPathCall, NamexElement, NamexEnd, IputLock, IputDrop, CreateLookup,
         CreateExists, IallocIget, CreateDone, OpenLock, OpenFd, Close, Dup, ReadFile,
         UnlinkLookup, UnlinkBad, LinkNew, LinkTaken, Chdir, Fork, Exit, ExitClose, ExitCwd
<1>q. QED BY <1>1, <1>2, FreeDisk, IallocDisk, CreateDisk, WriteDisk, UnlinkDisk, LinkDisk

(* Every step of a process keeps the references and locks right. *)
LEMMA StepR ==
    ASSUME RInv, NEW p \in Procs, Step(p)
    PROVE  MInv'
BY BeginPathCallR, NamexElementR, NamexEndR, IputLockR, IfreeR, BfreeR, IfreeUpdateR, IputDropR, CreateLookupR,
   CreateExistsR, IallocInodeR, IallocBitmapR, IallocIgetR, CreateInodeR, CreateParentR, CreateBlockR, CreateDotR,
   CreateDotDotR, CreateLinkR, CreateDoneR, OpenLockR, OpenFdR, CloseR, DupR, ReadFileR, WriteBlockR, WriteUpdateR,
   UnlinkLookupR, UnlinkEntryR, UnlinkParentR, UnlinkDecR, UnlinkBadR, LinkIncR, LinkNewR, LinkEntryR, LinkTakenR,
   LinkBadR, ChdirR, ForkR, ExitR, ExitCloseR, ExitCwdR DEF Step

(* The invariant holds when the machine first boots. *)
LEMMA InitR == Init => RInv
<1> SUFFICES ASSUME Init PROVE RInv
  OBVIOUS
<1>1. MInv
  BY BootMInv DEF Init, BootedNow
<1>2. DiskTypes
  <2>1. PICK im \in Images : ibitmap = im.ibitmap /\ bbitmap = im.bbitmap /\ dinode = im.dinode /\ dents = im.dents
    BY DEF Init, DiskInit
  <2>2. im \in Disks
    BY ImagesAssumption
  <2>3. /\ im.ibitmap \in SUBSET Inums /\ im.bbitmap \in SUBSET Blocks
        /\ im.dinode \in [Inums -> [mode : Types, nlink : Nat, blk : Blocks \cup {0}]]
        /\ im.dents \in [Inums -> [DirNames -> Inums \cup {0}]]
    BY <2>2 DEF Disks
  <2>4. [mode : Types, nlink : Nat, blk : Blocks \cup {0}] \subseteq Entries
    BY DEF Entries
  <2>5. im.dinode \in [Inums -> Entries]
    BY <2>3, <2>4
  <2>q. QED BY <2>1, <2>3, <2>5 DEF DiskTypes
<1>3. BoundsOK
  <2>1. panic \in BOOLEAN
    BY DEF Init
  <2>2. calls \in 0..MaxCalls /\ crashes \in 0..MaxCrashes
    BY FileSystemAssumption DEF Init
  <2>q. QED BY <2>1, <2>2 DEF BoundsOK
<1>q. QED BY <1>1, <1>2, <1>3 DEF RInv

(* The invariant holds after a crash: nothing in memory is left over. *)
LEMMA CrashR ==
    ASSUME RInv, Crash
    PROVE  RInv'
<1>1. MInv'
  BY BootNext DEF Crash, BootedNow
<1>2. DiskTypes'
  BY DiskSame DEF Crash, RInv
<1>3. BoundsOK'
  <2>1. panic' \in BOOLEAN
    BY DEF Crash
  <2>2. calls' \in 0..MaxCalls /\ crashes' \in 0..MaxCrashes
    BY FileSystemAssumption DEF Crash, RInv, BoundsOK
  <2>q. QED BY <2>1, <2>2 DEF BoundsOK
<1>q. QED BY <1>1, <1>2, <1>3 DEF RInv

(* The invariant holds after a step of nothing. *)
LEMMA StutterR ==
    ASSUME RInv, UNCHANGED vars
    PROVE  RInv'
<1>1. UNCHANGED diskVars /\ UNCHANGED <<icache, ftable, ofile, cwd, proc>> /\ UNCHANGED <<panic, calls, crashes>>
  BY DEF vars, memVars, bounds
<1>2. DiskTypes' /\ BoundsOK'
  BY <1>1, DiskSame DEF RInv, BoundsOK
<1>3. MInv'
  <2>1. icache' = icache /\ ftable' = ftable /\ ofile' = ofile /\ cwd' = cwd /\ proc' = proc
    BY <1>1
  <2>2. MemTypes'
    BY <2>1 DEF RInv, MInv, MemTypes
  <2>3. Shapes'
    BY <2>1 DEF RInv, MInv, Shapes
  <2>4. LocksOK'
    BY <2>1 DEF RInv, MInv, LocksOK
  <2>5. OwnsOK'
    BY <2>1 DEF RInv, MInv, OwnsOK
  <2>6. \A x : Holds(x)' = Holds(x)
    BY <2>1 DEF Holds
  <2>7. \A s \in Slots : Users(s)' = Users(s)
    BY <2>6 DEF Users
  <2>8. RefsOK'
    BY <2>1, <2>7 DEF RInv, MInv, RefsOK
  <2>9. FilesOK'
    BY <2>1 DEF RInv, MInv, FilesOK, FdsOf
  <2>10. SlotsOK'
    BY <2>1 DEF RInv, MInv, SlotsOK
  <2>q. QED BY <2>2, <2>3, <2>4, <2>5, <2>8, <2>9, <2>10 DEF MInv
<1>q. QED BY <1>2, <1>3 DEF RInv

(* On every path of every call, and after every crash, each inode reference, *)
(* inode lock and file reference belongs to the point at which some process  *)
(* is.                                                                       *)
THEOREM RInvariant == Spec => []RInv
<1>1. RInv /\ [Next]_vars => RInv'
  <2> SUFFICES ASSUME RInv, [Next]_vars PROVE RInv'
    OBVIOUS
  <2>1. ASSUME NEW p \in Procs, Step(p) PROVE RInv'
    BY <2>1, BoundsStep, DiskStep, StepR DEF RInv
  <2>q. QED BY <2>1, CrashR, StutterR DEF Next
<1>q. QED BY InitR, <1>1, PTL DEF Spec

(* The invariant implies the property that the model checker checks: at a    *)
(* point of no call there is no lock.                                        *)
LEMMA RefsFollow == RInv => RefsExact
<1> SUFFICES ASSUME RInv PROVE RefsExact
  OBVIOUS
<1>1. MInv
  BY DEF RInv
<1>2. ASSUME NEW s \in Slots, NEW p \in Procs, icache[s].lock = p, proc[p].pc \in {"user", "unused"}
      PROVE  FALSE
  <2>1. proc[p].pc \notin IputPcs /\ proc[p].pc # "write" /\ proc[p].pc \notin FreePcs
    BY <1>2 DEF IputPcs, FreePcs
  <2>2. Fits(proc[p].n, proc[p].ip, proc[p].dp, proc[p].call.op, proc[p].ino, proc[p].pc) /\ Point(proc[p]) = proc[p].pc
    BY <1>1, <2>1, NothingToPut
  <2>3. ~Locks(proc[p], s)
    BY <1>2, <2>1, <2>2 DEF Locks, LocksAt, IpLocked, DpLocked, DpPoints, CreateIp, CreateDir
  <2>q. QED BY <1>1, <1>2, <2>1, <2>3 DEF MInv, LocksOK
<1>q. QED BY <1>1, <1>2 DEF MInv, RefsOK, FilesOK, RefsExact

(* RefsExact of FileSystem: no file system call, on any path of it, leaks an *)
(* inode reference or an inode lock, or drops one twice, and the open file   *)
(* table counts the descriptors of all processes, across fork(), exit() and  *)
(* crashes.                                                                  *)
THEOREM ReferencesExact == Spec => []RefsExact
BY RInvariant, RefsFollow, PTL

(* The invariant implies the type invariant. *)
LEMMA TypesFollow == RInv => TypeOK
<1> SUFFICES ASSUME RInv PROVE TypeOK
  OBVIOUS
<1>1. Ext2TypeOK
  BY DEF RInv, MInv, MemTypes, DiskTypes, Ext2TypeOK, Entries, SlotRecords
<1>2. \A p \in Procs : /\ {proc[p].n, proc[p].ip, proc[p].dp} \subseteq Slots \cup {0}
                       /\ proc[p].puts \in Seq(Slots)
  BY DEF RInv, MInv, Shapes, Records
<1>q. QED BY <1>1, <1>2 DEF RInv, MInv, MemTypes, BoundsOK, TypeOK, FileRecords

(* TypeOK of FileSystem: reference counts never go below 0, and the locals   *)
(* of a call are cached inodes.                                              *)
THEOREM TypeCorrect == Spec => []TypeOK
BY RInvariant, TypesFollow, PTL
=============================================================================
