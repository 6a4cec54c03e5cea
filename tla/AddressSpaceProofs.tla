------------------------- MODULE AddressSpaceProofs -------------------------
(***************************************************************************)
(* Proofs about AddressSpace, for any number of slots, pages and entries   *)
(* of a page table.                                                        *)
(***************************************************************************)
EXTENDS AddressSpace, TLAPS, FiniteSetTheorems, WellFoundedInduction

(* Any nonempty set of natural numbers has a least element. *)
LEMMA SmallestExists ==
    ASSUME NEW S \in SUBSET Nat, S # {}
    PROVE  \E x \in S : \A y \in S : x <= y
<1> DEFINE R == OpToRel(<, Nat)
<1>1. IsWellFoundedOn(R, Nat)
  BY NatLessThanWellFounded
<1>2. PICK x \in S : \A y \in S : ~ (<<y, x>> \in R)
  <2> HIDE DEF R
  <2>q. QED
    BY <1>1, WFMin
<1>3. \A y \in S : ~ (y < x)
  BY <1>2 DEF OpToRel
<1>q. QED
  BY <1>3

VAs == 0..(KERNBASE - 1)
UserPdes == 0..UserTables

(* A directory: its user entries are 0 or name page tables, its heap entry *)
(* is the one all directories share.                                       *)
DirShape(m, d) ==
    /\ m[d] \in [Pdes -> Pages \cup {0}]
    /\ m[d][HeapPde] \in {0, 3}
    /\ \A i \in UserPdes : m[d][i] # 0 => m[m[d][i]] \in [Ptes -> Pages \cup {0, DEV}]

(* What d maps: pages up to top, some of the framebuffer if fb, and        *)
(* nothing else.                                                           *)
Layout(m, d, top, fb) ==
    \A va \in VAs :
        IF va < top THEN Pte(m, d, va) \in Pages
        ELSE Pte(m, d, va) # 0 => Pte(m, d, va) = DEV /\ fb /\ va \in FbRange

(* d maps all of the framebuffer. *)
FbMapped(m, d) == \A va \in FbRange : Pte(m, d, va) = DEV

KernelDir(m) == m[kpgdir] = [EmptyDir EXCEPT ![DirectPde] = 2, ![HeapPde] = 3]

-----------------------------------------------------------------------------
(* Addresses *)

(* What the assumptions say of the sizes: the framebuffer's table ends     *)
(* where the kernel begins, and there are fewer pages than addresses below *)
(* it.                                                                     *)
LEMMA Sizes ==
    /\ NPROC \in Nat \ {0} /\ NPAGES \in Nat \ {0} /\ NPTENTRIES \in Nat \ {0}
    /\ UserTables \in Nat \ {0} /\ FbPages \in Nat \ {0}
    /\ FB_MMAP_BASE \in Nat /\ KERNBASE \in Nat
    /\ KERNBASE = FB_MMAP_BASE + NPTENTRIES
    /\ NPAGES <= FB_MMAP_BASE /\ NPAGES >= 8
    /\ FB_MMAP_BASE + FbPages < KERNBASE
<1>1. /\ NPROC \in Nat \ {0} /\ NPAGES \in Nat \ {0} /\ NPTENTRIES \in Nat \ {0}
      /\ UserTables \in Nat \ {0} /\ FbPages \in Nat \ {0}
  BY AddressSpaceAssumption
<1>2. FB_MMAP_BASE \in Nat
  BY <1>1, SMT DEF FB_MMAP_BASE
<1>3. KERNBASE = FB_MMAP_BASE + NPTENTRIES
  BY <1>1, SMT DEF FB_MMAP_BASE, KERNBASE
<1>q. QED
  BY <1>1, <1>2, <1>3, AddressSpaceAssumption DEF FB_MMAP_BASE

(* Division with remainder, for the two parts of an address. *)
LEMMA DivMod ==
    ASSUME NEW a \in Nat, NEW n \in Nat \ {0}
    PROVE  /\ a \div n \in Nat /\ a % n \in 0..(n - 1)
           /\ a = n * (a \div n) + (a % n)
BY Z3T(30)

(* Multiplication is monotonic: a later table begins where an earlier one  *)
(* has ended.                                                              *)
LEMMA Times ==
    ASSUME NEW n \in Nat \ {0}, NEW x \in Nat, NEW y \in Nat, x < y
    PROVE  n * x + n <= n * y
<1>1. PICK z \in Nat : y = x + 1 + z
  <2>1. y - x - 1 \in Nat /\ y = x + 1 + (y - x - 1)
    OBVIOUS
  <2>q. QED
    BY <2>1
<1>2. n * y = n * x + n + n * z
  BY <1>1
<1>3. n * z \in Nat /\ n * x \in Nat
  OBVIOUS
<1>q. QED
  BY <1>2, <1>3

(* A virtual address is the number of its table and its entry there. *)
LEMMA Split ==
    ASSUME NEW va \in Nat
    PROVE  PDX(va) \in Nat /\ PTX(va) \in Ptes /\ va = NPTENTRIES * PDX(va) + PTX(va)
BY DivMod, Sizes DEF PDX, PTX, Ptes

(* Two addresses in the same entry of the same table are equal. *)
LEMMA SplitUnique ==
    ASSUME NEW va \in Nat, NEW vb \in Nat, PDX(va) = PDX(vb), PTX(va) = PTX(vb)
    PROVE  va = vb
BY Split

(* A user address below the framebuffer is in a table of its own part,     *)
(* and one above in the framebuffer's table.                               *)
LEMMA TableOf ==
    ASSUME NEW va \in VAs
    PROVE  /\ va \in Nat /\ PTX(va) \in Ptes
           /\ PDX(va) \in UserPdes
           /\ va < FB_MMAP_BASE => PDX(va) < UserTables
           /\ va >= FB_MMAP_BASE => PDX(va) = UserTables
<1>1. va \in Nat
  BY Sizes DEF VAs
<1> DEFINE q == PDX(va)
           r == PTX(va)
<1>2. q \in Nat /\ r \in 0..(NPTENTRIES - 1) /\ va = NPTENTRIES * q + r
  BY <1>1, Split DEF Ptes
<1> HIDE DEF q, r
<1>3. q < UserTables + 1
  <2> SUFFICES ASSUME UserTables + 1 <= q PROVE FALSE
    BY <1>2, Sizes
  <2>1. UserTables < q
    BY <1>2, Sizes
  <2>2. NPTENTRIES * UserTables + NPTENTRIES <= NPTENTRIES * q
    BY <2>1, <1>2, Times, Sizes
  <2>3. NPTENTRIES * UserTables = FB_MMAP_BASE
    BY Sizes DEF FB_MMAP_BASE
  <2>q. QED
    BY <2>2, <2>3, <1>2, Sizes DEF VAs
<1>4. va < FB_MMAP_BASE => q < UserTables
  <2> SUFFICES ASSUME va < FB_MMAP_BASE, UserTables <= q PROVE FALSE
    BY <1>2, Sizes
  <2>1. NPTENTRIES * UserTables <= NPTENTRIES * q
    BY <1>2, Times, Sizes
  <2>2. NPTENTRIES * UserTables = FB_MMAP_BASE
    BY Sizes DEF FB_MMAP_BASE
  <2>q. QED
    BY <2>1, <2>2, <1>2, Sizes
<1>5. va >= FB_MMAP_BASE => q >= UserTables
  <2> SUFFICES ASSUME va >= FB_MMAP_BASE, q < UserTables PROVE FALSE
    BY <1>2, Sizes
  <2>1. NPTENTRIES * q + NPTENTRIES <= NPTENTRIES * UserTables
    BY <1>2, Times, Sizes
  <2>2. NPTENTRIES * UserTables = FB_MMAP_BASE
    BY Sizes DEF FB_MMAP_BASE
  <2>q. QED
    BY <2>1, <2>2, <1>2, Sizes
<1>q. QED
  BY <1>1, <1>2, <1>3, <1>4, <1>5, Sizes DEF q, r, UserPdes, Ptes
-----------------------------------------------------------------------------
(* Holdings *)

Accounted(H, F) ==
    /\ {h[3] : h \in H} = Pages \ F
    /\ \A g, h \in H : g[3] = h[3] => g = h

(* A page comes off the free list. *)
LEMMA AddHolding ==
    ASSUME NEW H, NEW F \in SUBSET Pages, NEW pg \in F, NEW t,
           Accounted(H, F), t[3] = pg
    PROVE  Accounted(H \cup {t}, F \ {pg})
BY DEF Accounted

(* Pages go back to the free list with whatever held them. *)
LEMMA DropHoldings ==
    ASSUME NEW H, NEW F \in SUBSET Pages, NEW R \in SUBSET H, Accounted(H, F)
    PROVE  Accounted(H \ R, F \cup {h[3] : h \in R})
<1>1. \A g, h \in H \ R : g[3] = h[3] => g = h
  BY DEF Accounted
<1>2. ASSUME NEW x PROVE x \in {h[3] : h \in H \ R} <=> x \in Pages \ (F \cup {h[3] : h \in R})
  BY DEF Accounted
<1>3. {h[3] : h \in H \ R} = Pages \ (F \cup {h[3] : h \in R})
  BY <1>2
<1>q. QED
  BY <1>1, <1>3 DEF Accounted

(* A page changes hands. *)
LEMMA MoveHolding ==
    ASSUME NEW H, NEW F \in SUBSET Pages, NEW h \in H, NEW t,
           Accounted(H, F), t[3] = h[3]
    PROVE  Accounted((H \ {h}) \cup {t}, F)
<1> DEFINE G == (H \ {h}) \cup {t}
<1>1. \A f, g \in G : f[3] = g[3] => f = g
  BY DEF Accounted
<1>2. {g[3] : g \in G} = {g[3] : g \in H}
  OBVIOUS
<1> HIDE DEF G
<1>3. Accounted(G, F)
  BY <1>1, <1>2 DEF Accounted
<1>q. QED
  BY <1>3 DEF G

(* n says of directory d what m does. *)
Agree(m, n, d) ==
    /\ n[d] = m[d]
    /\ \A i \in UserPdes : m[d][i] # 0 => n[m[d][i]] = m[m[d][i]]

(* A directory that memory changes leave alone maps every address as       *)
(* before.                                                                 *)
LEMMA AgreePte ==
    ASSUME NEW m, NEW n, NEW d, Agree(m, n, d), NEW va \in VAs
    PROVE  Pte(n, d, va) = Pte(m, d, va)
BY TableOf DEF Agree, Pte

(* It holds the tables and pages it held. *)
LEMMA AgreeHoldings ==
    ASSUME NEW m, NEW n, NEW d, Agree(m, n, d), n[kpgdir] = m[kpgdir]
    PROVE  TablesOf(n, d) = TablesOf(m, d) /\ PagesOf(n, d) = PagesOf(m, d)
<1>1. TablesOf(n, d) = TablesOf(m, d)
  BY DEF TablesOf, Agree
<1>2. \A va \in VAs : Pte(n, d, va) = Pte(m, d, va)
  BY AgreePte
<1>3. PagesOf(n, d) = PagesOf(m, d)
  BY <1>2 DEF PagesOf, VAs
<1>q. QED
  BY <1>1, <1>3

(* It is still a directory. *)
LEMMA AgreeShape ==
    ASSUME NEW m, NEW n, NEW d, Agree(m, n, d), DirShape(m, d)
    PROVE  DirShape(n, d)
BY DEF Agree, DirShape

(* It still maps what it mapped. *)
LEMMA AgreeLayout ==
    ASSUME NEW m, NEW n, NEW d, Agree(m, n, d), NEW top, NEW fb, Layout(m, d, top, fb)
    PROVE  Layout(n, d, top, fb)
BY AgreePte DEF Layout

(* And all of the framebuffer if it did. *)
LEMMA AgreeFb ==
    ASSUME NEW m, NEW n, NEW d, Agree(m, n, d), FbMapped(m, d)
    PROVE  FbMapped(n, d)
<1>1. FbRange \subseteq VAs
  BY Sizes DEF FbRange, VAs
<1>q. QED
  BY <1>1, AgreePte DEF FbMapped

(* The pages it maps in any range are the same. *)
LEMMA AgreeMapped ==
    ASSUME NEW m, NEW n, NEW d, Agree(m, n, d), NEW lo \in Nat, NEW hi \in Nat, hi <= KERNBASE
    PROVE  Mapped(n, d, lo, hi) = Mapped(m, d, lo, hi)
<1>1. \A va \in lo..(hi - 1) : va \in VAs
  BY Sizes DEF VAs
<1>2. \A va \in lo..(hi - 1) : Pte(n, d, va) = Pte(m, d, va)
  BY <1>1, AgreePte
<1>q. QED
  BY <1>2 DEF Mapped

(* A directory together with all it holds. *)
Subtree(m, d) == TablesOf(m, d) \cup PagesOf(m, d)

(* Memory m with the free list F is all accounted for by stacks st, pages  *)
(* in hand ha and directories dd, and these are well formed.               *)
Sane(st, ha, dd, m, F) ==
    /\ Accounted(Held(st, ha, dd, m), F)
    /\ F \subseteq Pages
    /\ m \in [Pages -> Contents]
    /\ KernelDir(m)
    /\ \A x \in st : x[1] = "stack"
    /\ \A x \in ha : x[1] = "hand"
    /\ \A d \in dd : d[1] \in {"call", "slot"} /\ DirShape(m, d[3])

(* The entries of the kernel's directory, which                            *)
(* setup_kernel_page_directory shares.                                     *)
LEMMA KernelEntries ==
    ASSUME NEW m, KernelDir(m)
    PROVE  /\ \A i \in UserPdes : i \in Pdes /\ m[kpgdir][i] = 0
           /\ DirectPde \in Pdes /\ HeapPde \in Pdes
           /\ m[kpgdir][DirectPde] = 2 /\ m[kpgdir][HeapPde] = 3
           /\ \A i \in Pdes : i \in UserPdes \/ i = DirectPde \/ i = HeapPde
BY Sizes DEF KernelDir, EmptyDir, UserPdes, Pdes, DirectPde, HeapPde

(* The tables and pages of a directory are held by it. *)
LEMMA InHeld ==
    ASSUME NEW st, NEW ha, NEW dd, NEW m, NEW F, Sane(st, ha, dd, m, F), NEW d \in dd
    PROVE  LET H == Held(st, ha, dd, m) IN
           /\ d \in H /\ <<"kernel", <<0, 0>>, kpgdir>> \in H
           /\ Subtree(m, d[3]) \subseteq H
           /\ \A i \in UserPdes : m[d[3]][i] # 0 =>
                 <<"table", <<d[3], i>>, m[d[3]][i]>> \in TablesOf(m, d[3])
           /\ \A va \in VAs : Pte(m, d[3], va) \notin {0, DEV} =>
                 <<"page", <<d[3], va>>, Pte(m, d[3], va)>> \in PagesOf(m, d[3])
<1> DEFINE H == Held(st, ha, dd, m)
<1>1. d \in H /\ <<"kernel", <<0, 0>>, kpgdir>> \in H /\ Subtree(m, d[3]) \subseteq H
  BY DEF Held, Subtree, kpgdir, KernelPages
<1>2. \A i \in UserPdes : m[d[3]][i] # 0 =>
         <<"table", <<d[3], i>>, m[d[3]][i]>> \in TablesOf(m, d[3])
  BY KernelEntries DEF Sane, TablesOf
<1>3. \A va \in VAs : Pte(m, d[3], va) \notin {0, DEV} =>
         <<"page", <<d[3], va>>, Pte(m, d[3], va)>> \in PagesOf(m, d[3])
  BY DEF PagesOf, VAs
<1>q. QED
  BY <1>1, <1>2, <1>3

(* Directories, tables and pages are all different pages: directory d and  *)
(* what it holds share nothing with another, with the kernel or with the   *)
(* free list.                                                              *)
LEMMA Apart ==
    ASSUME NEW st, NEW ha, NEW dd, NEW m, NEW F, Sane(st, ha, dd, m, F), NEW d \in dd
    PROVE  /\ d[3] \in Pages \ F /\ d[3] # kpgdir
           /\ \A e \in dd : e[3] = d[3] => e = d
           /\ \A i \in UserPdes : m[d[3]][i] # 0 =>
                 /\ m[d[3]][i] \in Pages \ F /\ m[d[3]][i] # kpgdir
                 /\ \A e \in dd : m[d[3]][i] # e[3]
                 /\ \A e \in dd, j \in UserPdes : m[e[3]][j] = m[d[3]][i] => e = d /\ j = i
           /\ \A va \in VAs : Pte(m, d[3], va) \notin {0, DEV} =>
                 LET pg == Pte(m, d[3], va) IN
                 /\ pg \in Pages \ F /\ pg # kpgdir
                 /\ \A e \in dd : pg # e[3]
                 /\ \A e \in dd, j \in UserPdes : m[e[3]][j] # pg
                 /\ \A e \in dd, w \in VAs : Pte(m, e[3], w) = pg => e = d /\ w = va
<1> DEFINE H == Held(st, ha, dd, m)
           kern == <<"kernel", <<0, 0>>, kpgdir>>
           tab(e, i) == <<"table", <<e[3], i>>, m[e[3]][i]>>
           pag(e, va) == <<"page", <<e[3], va>>, Pte(m, e[3], va)>>
<1>1. /\ \A g, h \in H : g[3] = h[3] => g = h
      /\ \A h \in H : h[3] \in Pages \ F
  BY DEF Sane, Accounted
<1>2. \A e \in dd : /\ e \in H /\ kern \in H /\ e[1] \in {"call", "slot"}
                    /\ \A i \in UserPdes : m[e[3]][i] # 0 => tab(e, i) \in H
                    /\ \A va \in VAs : Pte(m, e[3], va) \notin {0, DEV} => pag(e, va) \in H
  BY InHeld DEF Subtree, Sane
<1>3. \A e, i : tab(e, i)[1] = "table" /\ tab(e, i)[2] = <<e[3], i>> /\ tab(e, i)[3] = m[e[3]][i]
  OBVIOUS
<1>4. \A e, i : pag(e, i)[1] = "page" /\ pag(e, i)[2] = <<e[3], i>> /\ pag(e, i)[3] = Pte(m, e[3], i)
  OBVIOUS
<1>5. kern[1] = "kernel" /\ kern[3] = kpgdir
  OBVIOUS
<1> HIDE DEF H, kern, tab, pag
<1>6. /\ d[3] \in Pages \ F /\ d[3] # kpgdir
      /\ \A e \in dd : e[3] = d[3] => e = d
  BY <1>1, <1>2, <1>5
<1>7. ASSUME NEW i \in UserPdes, m[d[3]][i] # 0
      PROVE  /\ m[d[3]][i] \in Pages \ F /\ m[d[3]][i] # kpgdir
             /\ \A e \in dd : m[d[3]][i] # e[3]
             /\ \A e \in dd, j \in UserPdes : m[e[3]][j] = m[d[3]][i] => e = d /\ j = i
  <2>1. tab(d, i) \in H /\ tab(d, i)[3] = m[d[3]][i]
    BY <1>2, <1>3, <1>7
  <2>2. m[d[3]][i] \in Pages \ F /\ m[d[3]][i] # kpgdir /\ \A e \in dd : m[d[3]][i] # e[3]
    BY <2>1, <1>1, <1>2, <1>3, <1>5
  <2>3. ASSUME NEW e \in dd, NEW j \in UserPdes, m[e[3]][j] = m[d[3]][i]
        PROVE  e = d /\ j = i
    <3>1. tab(e, j) \in H /\ tab(e, j)[3] = m[e[3]][j]
      BY <1>2, <1>3, <1>7, <2>3
    <3>2. tab(e, j) = tab(d, i)
      BY <3>1, <2>1, <2>3, <1>1
    <3>3. <<e[3], j>> = <<d[3], i>>
      BY <3>2, <1>3
    <3>q. QED
      BY <3>3, <1>6
  <2>q. QED
    BY <2>2, <2>3
<1>8. ASSUME NEW va \in VAs, Pte(m, d[3], va) \notin {0, DEV}
      PROVE  LET pg == Pte(m, d[3], va) IN
             /\ pg \in Pages \ F /\ pg # kpgdir
             /\ \A e \in dd : pg # e[3]
             /\ \A e \in dd, j \in UserPdes : m[e[3]][j] # pg
             /\ \A e \in dd, w \in VAs : Pte(m, e[3], w) = pg => e = d /\ w = va
  <2> DEFINE pg == Pte(m, d[3], va)
  <2>1. pag(d, va) \in H /\ pag(d, va)[3] = pg
    BY <1>2, <1>4, <1>8
  <2>2. pg \in Pages \ F /\ pg # kpgdir /\ \A e \in dd : pg # e[3]
    BY <2>1, <1>1, <1>2, <1>4, <1>5
  <2>3. ASSUME NEW e \in dd, NEW j \in UserPdes, m[e[3]][j] = pg PROVE FALSE
    <3>1. tab(e, j) \in H /\ tab(e, j)[3] = pg
      BY <1>2, <1>3, <1>8, <2>3
    <3>q. QED
      BY <3>1, <2>1, <1>1, <1>3, <1>4
  <2>4. ASSUME NEW e \in dd, NEW w \in VAs, Pte(m, e[3], w) = pg PROVE e = d /\ w = va
    <3>1. pag(e, w) \in H /\ pag(e, w)[3] = pg
      BY <1>2, <1>4, <1>8, <2>4
    <3>2. pag(e, w) = pag(d, va)
      BY <3>1, <2>1, <1>1
    <3>3. <<e[3], w>> = <<d[3], va>>
      BY <3>2, <1>4
    <3>q. QED
      BY <3>3, <1>6
  <2>q. QED
    BY <2>2, <2>3, <2>4
<1>q. QED
  BY <1>6, <1>7, <1>8

(* The pages whose contents matter to directory d. *)
LEMMA AgreeOutside ==
    ASSUME NEW st, NEW ha, NEW dd, NEW m, NEW F, Sane(st, ha, dd, m, F), NEW d \in dd,
           NEW n, NEW X, \A pg \in Pages \ X : n[pg] = m[pg],
           d[3] \notin X, \A i \in UserPdes : m[d[3]][i] # 0 => m[d[3]][i] \notin X
    PROVE  Agree(m, n, d[3])
<1>1. d[3] \in Pages /\ \A i \in UserPdes : m[d[3]][i] # 0 => m[d[3]][i] \in Pages
  BY Apart
<1>q. QED
  BY <1>1 DEF Agree

(* Nobody holds a free page, so nobody sees it change. *)
LEMMA AgreeFree ==
    ASSUME NEW st, NEW ha, NEW dd, NEW m, NEW F, Sane(st, ha, dd, m, F), NEW d \in dd,
           NEW n, NEW t \in F, \A pg \in Pages \ {t} : n[pg] = m[pg]
    PROVE  Agree(m, n, d[3])
<1>1. d[3] \notin {t} /\ \A i \in UserPdes : m[d[3]][i] # 0 => m[d[3]][i] \notin {t}
  BY Apart
<1>q. QED
  BY <1>1, AgreeOutside

(* The kernel's own pages are never on the free list. *)
LEMMA KernelPagesHeld ==
    ASSUME NEW st, NEW ha, NEW dd, NEW m, NEW F, Sane(st, ha, dd, m, F)
    PROVE  kpgdir \in Pages \ F /\ 3 \in Pages \ F
<1>1. <<"kernel", <<0, 0>>, 1>> \in Held(st, ha, dd, m) /\ <<"kernel", <<0, 0>>, 3>> \in Held(st, ha, dd, m)
  BY DEF Held, KernelPages
<1>2. <<"kernel", <<0, 0>>, 1>>[3] = 1 /\ <<"kernel", <<0, 0>>, 3>>[3] = 3
  OBVIOUS
<1>q. QED
  BY <1>1, <1>2 DEF Sane, Accounted, kpgdir

(* Holdings when all directories agree. *)
LEMMA HeldSame ==
    ASSUME NEW st, NEW ha, NEW dd, NEW m, NEW n,
           \A d \in dd : Agree(m, n, d[3]), n[kpgdir] = m[kpgdir]
    PROVE  Held(st, ha, dd, n) = Held(st, ha, dd, m)
<1>1. \A d \in dd : TablesOf(n, d[3]) = TablesOf(m, d[3]) /\ PagesOf(n, d[3]) = PagesOf(m, d[3])
  BY AgreeHoldings
<1>q. QED
  BY <1>1 DEF Held

Put(m, pg, c) == [m EXCEPT ![pg] = c]

(* A page is allocated as a kernel stack or for a mapping to come. *)
LEMMA NewStack ==
    ASSUME NEW st, NEW ha, NEW dd, NEW m, NEW F, Sane(st, ha, dd, m, F),
           NEW t \in F, NEW x, x[1] = "stack", x[3] = t
    PROVE  LET n == [m EXCEPT ![t] = data] IN
           /\ Sane(st \cup {x}, ha, dd, n, F \ {t})
           /\ \A d \in dd : Agree(m, n, d[3])
<1> DEFINE n == [m EXCEPT ![t] = data]
<1>1. t \in Pages /\ n \in [Pages -> Contents] /\ \A pg \in Pages \ {t} : n[pg] = m[pg]
  BY DEF Sane, Contents
<1> HIDE DEF n
<1>2. \A d \in dd : Agree(m, n, d[3])
  BY <1>1, AgreeFree
<1>3. n[kpgdir] = m[kpgdir]
  BY <1>1, KernelPagesHeld
<1>4. Held(st, ha, dd, n) = Held(st, ha, dd, m)
  BY <1>2, <1>3, HeldSame
<1>5. Held(st \cup {x}, ha, dd, n) = Held(st, ha, dd, m) \cup {x}
  BY <1>4 DEF Held
<1>6. Accounted(Held(st \cup {x}, ha, dd, n), F \ {t})
  <2>1. Accounted(Held(st, ha, dd, m), F) /\ F \in SUBSET Pages
    BY DEF Sane
  <2>2. Accounted(Held(st, ha, dd, m) \cup {x}, F \ {t})
    BY <2>1, AddHolding
  <2>q. QED
    BY <1>5, <2>2
<1>7. \A d \in dd : DirShape(n, d[3])
  BY <1>2, AgreeShape DEF Sane
<1>8. Sane(st \cup {x}, ha, dd, n, F \ {t})
  BY <1>1, <1>3, <1>6, <1>7 DEF Sane, KernelDir
<1>q. QED
  BY <1>2, <1>8 DEF n

(* kalloc_page gives a page to a call that will map it: nobody else sees   *)
(* a difference.                                                           *)
LEMMA NewHand ==
    ASSUME NEW st, NEW ha, NEW dd, NEW m, NEW F, Sane(st, ha, dd, m, F),
           NEW t \in F, NEW x, x[1] = "hand", x[3] = t, NEW n, n = Put(m, t, data)
    PROVE  /\ Sane(st, ha \cup {x}, dd, n, F \ {t})
           /\ \A d \in dd : Agree(m, n, d[3])
<1>1. t \in Pages /\ n \in [Pages -> Contents] /\ \A pg \in Pages \ {t} : n[pg] = m[pg]
  BY DEF Sane, Contents, Put
<1>2. \A d \in dd : Agree(m, n, d[3])
  BY <1>1, AgreeFree
<1>3. n[kpgdir] = m[kpgdir]
  BY <1>1, KernelPagesHeld
<1>4. Held(st, ha, dd, n) = Held(st, ha, dd, m)
  BY <1>2, <1>3, HeldSame
<1>5. Held(st, ha \cup {x}, dd, n) = Held(st, ha, dd, m) \cup {x}
  BY <1>4 DEF Held
<1>6. Accounted(Held(st, ha \cup {x}, dd, n), F \ {t})
  <2>1. Accounted(Held(st, ha, dd, m), F) /\ F \in SUBSET Pages
    BY DEF Sane
  <2>2. Accounted(Held(st, ha, dd, m) \cup {x}, F \ {t})
    BY <2>1, AddHolding
  <2>q. QED
    BY <1>5, <2>2
<1>7. \A d \in dd : DirShape(n, d[3])
  BY <1>2, AgreeShape DEF Sane
<1>8. Sane(st, ha \cup {x}, dd, n, F \ {t})
  BY <1>1, <1>3, <1>6, <1>7 DEF Sane, KernelDir
<1>q. QED
  BY <1>2, <1>8

(* A new directory, empty at first. *)
LEMMA NewDir ==
    ASSUME NEW st, NEW ha, NEW dd, NEW m, NEW F, Sane(st, ha, dd, m, F),
           NEW t \in F, NEW x, x[1] \in {"call", "slot"}, x[3] = t,
           NEW n, n = Put(m, t, EmptyDir)
    PROVE  /\ Sane(st, ha, dd \cup {x}, n, F \ {t})
           /\ \A d \in dd : Agree(m, n, d[3])
           /\ \A va \in VAs : Pte(n, t, va) = 0
<1>1. t \in Pages /\ n \in [Pages -> Contents] /\ n[t] = EmptyDir
      /\ \A pg \in Pages \ {t} : n[pg] = m[pg]
  BY DEF Sane, Contents, EmptyDir, Put
<1>2. \A d \in dd : Agree(m, n, d[3])
  BY <1>1, AgreeFree
<1>3. n[kpgdir] = m[kpgdir]
  BY <1>1, KernelPagesHeld
<1>4. Held(st, ha, dd, n) = Held(st, ha, dd, m)
  BY <1>2, <1>3, HeldSame
<1>5. TablesOf(n, t) = {}
  BY <1>1 DEF TablesOf, EmptyDir
<1>6. \A va \in VAs : Pte(n, t, va) = 0
  BY <1>1, TableOf, KernelEntries DEF Pte, EmptyDir, Sane
<1>7. PagesOf(n, t) = {}
  BY <1>6 DEF PagesOf, VAs
<1>8. Held(st, ha, dd \cup {x}, n) = Held(st, ha, dd, n) \cup {x}
  <2>1. \A d \in dd \cup {x} : d \in dd \/ (d = x /\ TablesOf(n, d[3]) \cup PagesOf(n, d[3]) = {})
    BY <1>5, <1>7
  <2>2. UNION {TablesOf(n, d[3]) \cup PagesOf(n, d[3]) : d \in dd \cup {x}}
        = UNION {TablesOf(n, d[3]) \cup PagesOf(n, d[3]) : d \in dd}
    BY <2>1
  <2>q. QED
    BY <2>2 DEF Held
<1>9. Accounted(Held(st, ha, dd \cup {x}, n), F \ {t})
  <2>1. Accounted(Held(st, ha, dd, m), F) /\ F \in SUBSET Pages
    BY DEF Sane
  <2>2. Accounted(Held(st, ha, dd, m) \cup {x}, F \ {t})
    BY <2>1, AddHolding
  <2>q. QED
    BY <1>4, <1>8, <2>2
<1>10. \A d \in dd : DirShape(n, d[3])
  BY <1>2, AgreeShape DEF Sane
<1>11. DirShape(n, t)
  BY <1>1, KernelEntries DEF DirShape, EmptyDir, Sane
<1>12. Sane(st, ha, dd \cup {x}, n, F \ {t})
  BY <1>1, <1>3, <1>9, <1>10, <1>11 DEF Sane, KernelDir
<1>q. QED
  BY <1>2, <1>6, <1>12

(* Only directory d changes, and it holds one page more, or fewer pages. *)
OthersAgree(dd, m, n, d) ==
    /\ \A e \in dd \ {d} : Agree(m, n, e[3])
    /\ n[kpgdir] = m[kpgdir]
Gains(m, n, d, x) == Subtree(n, d) = Subtree(m, d) \cup {x}
Loses(m, n, d, R) == R \subseteq Subtree(m, d) /\ Subtree(n, d) = Subtree(m, d) \ R

(* A directory that takes one page off the free list keeps the accounts    *)
(* right.                                                                  *)
LEMMA Grow ==
    ASSUME NEW st, NEW ha, NEW dd, NEW m, NEW F, Sane(st, ha, dd, m, F), NEW n, NEW d \in dd,
           NEW x, OthersAgree(dd, m, n, d), Gains(m, n, d[3], x), NEW t \in F, x[3] = t
    PROVE  Accounted(Held(st, ha, dd, n), F \ {t})
<1>1. \A e \in dd \ {d} : Subtree(n, e[3]) = Subtree(m, e[3])
  BY AgreeHoldings DEF Subtree, OthersAgree
<1>2. UNION {Subtree(n, e[3]) : e \in dd} = (UNION {Subtree(m, e[3]) : e \in dd}) \cup {x}
  BY <1>1 DEF Gains
<1>3. Held(st, ha, dd, n) = Held(st, ha, dd, m) \cup {x}
  BY <1>2 DEF Held, Subtree
<1>4. Accounted(Held(st, ha, dd, m), F) /\ F \in SUBSET Pages
  BY DEF Sane
<1>5. Accounted(Held(st, ha, dd, m) \cup {x}, F \ {t})
  BY <1>4, AddHolding
<1>q. QED
  BY <1>3, <1>5

(* A directory that gives up the holdings R, whose pages go to the free    *)
(* list, keeps the accounts right.                                         *)
LEMMA Shrink ==
    ASSUME NEW st, NEW ha, NEW dd, NEW m, NEW F, Sane(st, ha, dd, m, F), NEW n, NEW d \in dd,
           NEW R, OthersAgree(dd, m, n, d), Loses(m, n, d[3], R)
    PROVE  Accounted(Held(st, ha, dd, n), F \cup {h[3] : h \in R})
<1> USE DEF OthersAgree, Loses
<1>1. \A e \in dd \ {d} : Subtree(n, e[3]) = Subtree(m, e[3])
  BY AgreeHoldings DEF Subtree
<1>2. \A e \in dd : \A x \in Subtree(m, e[3]) : x[1] \in {"table", "page"} /\ x[2][1] = e[3]
  BY DEF Subtree, TablesOf, PagesOf
<1>3. \A e \in dd \ {d} : e[3] # d[3]
  BY Apart
<1>4. \A e \in dd \ {d} : Subtree(m, e[3]) \cap R = {}
  BY <1>2, <1>3
<1>5. UNION {Subtree(n, e[3]) : e \in dd} = (UNION {Subtree(m, e[3]) : e \in dd}) \ R
  <2>1. \A x : (\E e \in dd : x \in Subtree(n, e[3])) <=> (\E e \in dd : x \in Subtree(m, e[3])) /\ x \notin R
    BY <1>1, <1>4
  <2>q. QED
    BY <2>1
<1>6. \A x \in R : x \notin st /\ x \notin ha /\ x \notin dd
  BY <1>2 DEF Sane
<1>7. \A x \in R : x \notin {<<"kernel", <<0, 0>>, pg>> : pg \in KernelPages}
  BY <1>2
<1>8. Held(st, ha, dd, n) = Held(st, ha, dd, m) \ R
  BY <1>5, <1>6, <1>7 DEF Held, Subtree
<1>9. R \in SUBSET Held(st, ha, dd, m)
  BY DEF Held, Subtree
<1>10. Accounted(Held(st, ha, dd, m), F) /\ F \in SUBSET Pages
  BY DEF Sane
<1>11. Accounted(Held(st, ha, dd, m) \ R, F \cup {h[3] : h \in R})
  BY <1>9, <1>10, DropHoldings
<1>q. QED
  BY <1>8, <1>11

KmapDir(m, t) == [EmptyDir EXCEPT ![DirectPde] = t, ![HeapPde] = m[kpgdir][HeapPde]]
Blank(m, d) == (\A i \in UserPdes : m[d][i] = 0) /\ (\A va \in VAs : Pte(m, d, va) = 0)
GetsKmap(m, n, d, t) == m[d] = EmptyDir /\ n = Put(Put(m, t, data), d, KmapDir(m, t))

(* A new directory gets its table of the direct map. *)
LEMMA NewKmap ==
    ASSUME NEW st, NEW ha, NEW dd, NEW m, NEW F, Sane(st, ha, dd, m, F),
           NEW t \in F, NEW d \in dd, NEW n, GetsKmap(m, n, d[3], t)
    PROVE  /\ Sane(st, ha, dd, n, F \ {t})
           /\ \A e \in dd \ {d} : Agree(m, n, e[3])
           /\ Blank(n, d[3])
<1> DEFINE new == KmapDir(m, t)
           x == <<"table", <<d[3], DirectPde>>, t>>
<1>0. /\ KernelDir(m) /\ m \in [Pages -> Contents] /\ F \in SUBSET Pages
      /\ Accounted(Held(st, ha, dd, m), F) /\ m[d[3]] = EmptyDir
  BY DEF Sane, GetsKmap
<1>1. /\ d[3] \in Pages \ F /\ d[3] # kpgdir /\ t \in Pages /\ t # d[3] /\ t # kpgdir
  BY <1>0, Apart, KernelPagesHeld
<1>2. t # 0 /\ t # 2
  <2>1. <<"kernel", <<0, 0>>, 2>> \in Held(st, ha, dd, m) /\ <<"kernel", <<0, 0>>, 2>>[3] = 2
    BY DEF Held, KernelPages
  <2>2. 2 \in Pages \ F
    BY <2>1, <1>0 DEF Accounted
  <2>q. QED
    BY <1>1, <2>2 DEF Pages
<1>3. /\ new \in [Pdes -> Pages \cup {0}]
      /\ new[DirectPde] = t /\ new[HeapPde] = 3
      /\ \A i \in UserPdes : new[i] = 0
  <2>1. /\ DirectPde \in Pdes /\ HeapPde \in Pdes /\ DirectPde # HeapPde
        /\ \A i \in UserPdes : i \in Pdes /\ i # DirectPde /\ i # HeapPde
    BY Sizes DEF UserPdes, Pdes, DirectPde, HeapPde
  <2>2. m[kpgdir][HeapPde] = 3 /\ 3 \in Pages
    BY <1>0, KernelEntries, KernelPagesHeld
  <2>q. QED
    BY <1>1, <2>1, <2>2 DEF EmptyDir, KmapDir
<1> HIDE DEF new
<1>4. /\ n \in [Pages -> Contents] /\ n[d[3]] = new /\ n[kpgdir] = m[kpgdir]
      /\ \A pg \in Pages \ {t, d[3]} : n[pg] = m[pg]
  <2>1. n = Put(Put(m, t, data), d[3], new)
    BY DEF new, GetsKmap
  <2>q. QED
    BY <1>0, <1>1, <1>3, <2>1, KernelPagesHeld DEF Contents, Put
<1>5. \A e \in dd \ {d} : Agree(m, n, e[3])
  <2> SUFFICES ASSUME NEW e \in dd \ {d} PROVE Agree(m, n, e[3])
    OBVIOUS
  <2>1. /\ e[3] \notin {t, d[3]}
        /\ \A i \in UserPdes : m[e[3]][i] # 0 => m[e[3]][i] \notin {t, d[3]}
    BY Apart
  <2>q. QED
    BY <1>4, <2>1, AgreeOutside
<1>6. \A va \in VAs : Pte(n, d[3], va) = 0 /\ Pte(m, d[3], va) = 0
  BY <1>0, <1>3, <1>4, TableOf, KernelEntries DEF Pte, EmptyDir
<1>7. PagesOf(n, d[3]) = {} /\ PagesOf(m, d[3]) = {}
  BY <1>6 DEF PagesOf, VAs
<1>8. TablesOf(m, d[3]) = {}
  BY <1>0 DEF TablesOf, EmptyDir
<1>9. TablesOf(n, d[3]) = {x}
  <2>1. {j \in Pdes : n[d[3]][j] \notin {0, n[kpgdir][j]}} = {DirectPde}
    BY <1>0, <1>2, <1>3, <1>4, KernelEntries
  <2>q. QED
    BY <1>3, <1>4, <2>1 DEF TablesOf
<1> HIDE DEF x
<1>10. x[3] = t
  BY DEF x
<1>11. Accounted(Held(st, ha, dd, n), F \ {t})
  <2>1. Gains(m, n, d[3], x)
    BY <1>7, <1>8, <1>9 DEF Subtree, Gains
  <2>2. OthersAgree(dd, m, n, d)
    BY <1>4, <1>5 DEF OthersAgree
  <2>q. QED
    BY <1>10, <2>1, <2>2, Grow
<1>12. \A e \in dd : DirShape(n, e[3])
  <2>1. DirShape(n, d[3])
    BY <1>3, <1>4 DEF DirShape
  <2>2. \A e \in dd \ {d} : DirShape(n, e[3])
    BY <1>5, AgreeShape DEF Sane
  <2>q. QED
    BY <2>1, <2>2
<1>13. Sane(st, ha, dd, n, F \ {t})
  BY <1>4, <1>11, <1>12 DEF Sane, KernelDir
<1>q. QED
  BY <1>3, <1>4, <1>5, <1>6, <1>13 DEF Blank

PutsTable(m, n, d, i, t) == m[d][i] = 0 /\ n = [m EXCEPT ![t] = EmptyTab, ![d][i] = t]
HasNewTable(m, n, d, i, t) ==
    n[d] = [m[d] EXCEPT ![i] = t] /\ \A va \in VAs : Pte(n, d, va) = Pte(m, d, va)

(* mappages gives directory d a table t for its entry i. *)
LEMMA NewTable ==
    ASSUME NEW st, NEW ha, NEW dd, NEW m, NEW F, Sane(st, ha, dd, m, F),
           NEW t \in F, NEW d \in dd, NEW i \in UserPdes, NEW n, PutsTable(m, n, d[3], i, t)
    PROVE  /\ Sane(st, ha, dd, n, F \ {t})
           /\ \A e \in dd \ {d} : Agree(m, n, e[3])
           /\ HasNewTable(m, n, d[3], i, t)
<1> DEFINE x == <<"table", <<d[3], i>>, t>>
<1>0. /\ KernelDir(m) /\ m \in [Pages -> Contents] /\ F \in SUBSET Pages
      /\ Accounted(Held(st, ha, dd, m), F) /\ DirShape(m, d[3]) /\ m[d[3]][i] = 0
  BY DEF Sane, PutsTable
<1>1. /\ d[3] \in Pages \ F /\ d[3] # kpgdir /\ t \in Pages /\ t # d[3] /\ t # kpgdir
      /\ m[d[3]] \in [Pdes -> Pages \cup {0}] /\ i \in Pdes /\ t # 0
  BY <1>0, Apart, KernelPagesHeld, KernelEntries DEF DirShape, Pages
<1>2. EmptyTab \in [Ptes -> Pages \cup {0, DEV}] /\ \A j \in Ptes : EmptyTab[j] = 0
  BY DEF EmptyTab
<1>3. /\ n \in [Pages -> Contents] /\ n[d[3]] = [m[d[3]] EXCEPT ![i] = t]
      /\ n[t] = EmptyTab /\ n[kpgdir] = m[kpgdir]
      /\ \A pg \in Pages \ {t, d[3]} : n[pg] = m[pg]
  <2>1. n = [m EXCEPT ![t] = EmptyTab, ![d[3]] = [m[d[3]] EXCEPT ![i] = t]]
    BY <1>0, <1>1 DEF PutsTable
  <2>2. [m[d[3]] EXCEPT ![i] = t] \in Contents /\ EmptyTab \in Contents
    BY <1>1, <1>2 DEF Contents
  <2>q. QED
    BY <1>0, <1>1, <2>1, <2>2, KernelPagesHeld
<1>4. /\ n[d[3]] \in [Pdes -> Pages \cup {0}] /\ n[d[3]][i] = t
      /\ \A j \in Pdes \ {i} : n[d[3]][j] = m[d[3]][j]
  BY <1>1, <1>3
<1>5. \A e \in dd \ {d} : Agree(m, n, e[3])
  <2> SUFFICES ASSUME NEW e \in dd \ {d} PROVE Agree(m, n, e[3])
    OBVIOUS
  <2>1. /\ e[3] \notin {t, d[3]}
        /\ \A j \in UserPdes : m[e[3]][j] # 0 => m[e[3]][j] \notin {t, d[3]}
    BY Apart
  <2>q. QED
    BY <1>3, <2>1, AgreeOutside
<1>6. \A j \in UserPdes \ {i} : m[d[3]][j] # 0 =>
         n[d[3]][j] = m[d[3]][j] /\ n[m[d[3]][j]] = m[m[d[3]][j]]
  <2>1. \A j \in UserPdes : m[d[3]][j] # 0 => m[d[3]][j] \in Pages \ {t, d[3]}
    BY Apart
  <2>q. QED
    BY <1>0, <1>3, <1>4, <2>1, KernelEntries
<1>7. \A va \in VAs : Pte(n, d[3], va) = Pte(m, d[3], va)
  <2> SUFFICES ASSUME NEW va \in VAs PROVE Pte(n, d[3], va) = Pte(m, d[3], va)
    OBVIOUS
  <2>1. PDX(va) \in UserPdes /\ PTX(va) \in Ptes /\ PDX(va) \in Pdes
    BY <1>0, TableOf, KernelEntries
  <2>2. CASE PDX(va) = i
    BY <1>0, <1>1, <1>2, <1>3, <1>4, <2>1, <2>2 DEF Pte
  <2>3. CASE PDX(va) # i
    BY <1>4, <1>6, <2>1, <2>3 DEF Pte
  <2>q. QED
    BY <2>2, <2>3
<1>8. PagesOf(n, d[3]) = PagesOf(m, d[3])
  BY <1>7 DEF PagesOf, VAs
<1>9. TablesOf(n, d[3]) = TablesOf(m, d[3]) \cup {x}
  <2>1. {j \in Pdes : n[d[3]][j] \notin {0, n[kpgdir][j]}}
        = {j \in Pdes : m[d[3]][j] \notin {0, m[kpgdir][j]}} \cup {i}
    BY <1>0, <1>1, <1>3, <1>4, KernelEntries
  <2>2. i \notin {j \in Pdes : m[d[3]][j] \notin {0, m[kpgdir][j]}}
    BY <1>0
  <2>q. QED
    BY <1>4, <2>1, <2>2 DEF TablesOf
<1> HIDE DEF x
<1>10. x[3] = t
  BY DEF x
<1>11. Accounted(Held(st, ha, dd, n), F \ {t})
  <2>1. Gains(m, n, d[3], x)
    BY <1>8, <1>9 DEF Subtree, Gains
  <2>2. OthersAgree(dd, m, n, d)
    BY <1>3, <1>5 DEF OthersAgree
  <2>q. QED
    BY <1>10, <2>1, <2>2, Grow
<1>12. \A e \in dd : DirShape(n, e[3])
  <2>1. DirShape(n, d[3])
    <3>1. n[d[3]][HeapPde] = m[d[3]][HeapPde]
      BY <1>4, Sizes DEF HeapPde, Pdes, UserPdes
    <3>2. \A j \in UserPdes : n[d[3]][j] # 0 => n[n[d[3]][j]] \in [Ptes -> Pages \cup {0, DEV}]
      BY <1>0, <1>2, <1>3, <1>4, <1>6, KernelEntries DEF DirShape
    <3>q. QED
      BY <1>0, <1>4, <3>1, <3>2 DEF DirShape
  <2>2. \A e \in dd \ {d} : DirShape(n, e[3])
    BY <1>5, AgreeShape DEF Sane
  <2>q. QED
    BY <2>1, <2>2
<1>13. Sane(st, ha, dd, n, F \ {t})
  BY <1>3, <1>11, <1>12 DEF Sane, KernelDir
<1>q. QED
  BY <1>3, <1>5, <1>7, <1>13 DEF HasNewTable

(* Entries of directory d from lo up to hi become e. *)
LEMMA SetEntries ==
    ASSUME NEW st, NEW ha, NEW dd, NEW m, NEW F, Sane(st, ha, dd, m, F), NEW d \in dd,
           NEW lo \in Nat, NEW hi \in Nat, hi <= KERNBASE, NEW e \in Pages \cup {0, DEV}
    PROVE  LET n == SetPtes(m, d[3], lo, hi, e)
           IN /\ n \in [Pages -> Contents]
              /\ OthersAgree(dd, m, n, d)
              /\ n[d[3]] = m[d[3]]
              /\ DirShape(n, d[3])
              /\ \A va \in VAs : Pte(n, d[3], va) =
                    IF va \in lo..(hi - 1) /\ m[d[3]][PDX(va)] # 0 THEN e ELSE Pte(m, d[3], va)
<1> DEFINE R == lo..(hi - 1)
           tab(i) == m[d[3]][i]
           n == SetPtes(m, d[3], lo, hi, e)
<1>0. /\ KernelDir(m) /\ m \in [Pages -> Contents] /\ DirShape(m, d[3])
  BY DEF Sane
<1>1. \A va \in R : va \in VAs /\ PDX(va) \in UserPdes /\ PTX(va) \in Ptes
  <2>1. \A va \in R : va \in VAs
    BY Sizes DEF VAs
  <2>q. QED
    BY <2>1, TableOf
<1>2. \A pg \in Pages : n[pg] = IF \E va \in R : tab(PDX(va)) = pg
                               THEN [i \in Ptes |-> IF \E va \in R : tab(PDX(va)) = pg /\ PTX(va) = i
                                                    THEN e ELSE m[pg][i]]
                               ELSE m[pg]
  BY DEF SetPtes
<1>3. n = [pg \in Pages |-> n[pg]]
  BY DEF SetPtes
<1> HIDE DEF n
<1>4. \A i \in UserPdes : tab(i) # 0 =>
         /\ tab(i) \in Pages /\ tab(i) # kpgdir /\ \A f \in dd : tab(i) # f[3]
         /\ m[tab(i)] \in [Ptes -> Pages \cup {0, DEV}]
         /\ \A f \in dd, j \in UserPdes : m[f[3]][j] = tab(i) => f = d /\ j = i
  BY <1>0, Apart DEF DirShape
<1>5. 0 \notin Pages
  BY DEF Pages
<1>6. \A i \in UserPdes : tab(i) # 0 =>
         /\ n[tab(i)] \in [Ptes -> Pages \cup {0, DEV}]
         /\ \A j \in Ptes : n[tab(i)][j] =
               IF \E va \in R : PDX(va) = i /\ PTX(va) = j THEN e ELSE m[tab(i)][j]
  <2> SUFFICES ASSUME NEW i \in UserPdes, tab(i) # 0
               PROVE  /\ n[tab(i)] \in [Ptes -> Pages \cup {0, DEV}]
                      /\ \A j \in Ptes : n[tab(i)][j] =
                            IF \E va \in R : PDX(va) = i /\ PTX(va) = j THEN e ELSE m[tab(i)][j]
    OBVIOUS
  <2>1. \A va \in R : tab(PDX(va)) = tab(i) <=> PDX(va) = i
    BY <1>1, <1>4
  <2>2. CASE \E va \in R : PDX(va) = i
    <3>1. n[tab(i)] = [j \in Ptes |-> IF \E va \in R : PDX(va) = i /\ PTX(va) = j
                                      THEN e ELSE m[tab(i)][j]]
      BY <1>2, <1>4, <2>1, <2>2
    <3>2. m[tab(i)] \in [Ptes -> Pages \cup {0, DEV}]
      BY <1>4
    <3>q. QED
      BY <3>1, <3>2
  <2>3. CASE ~ \E va \in R : PDX(va) = i
    BY <1>2, <1>4, <2>1, <2>3
  <2>q. QED
    BY <2>2, <2>3
<1>7. \A pg \in Pages : (\A i \in UserPdes : tab(i) # pg) => n[pg] = m[pg]
  BY <1>1, <1>2
<1>8. \A pg \in Pages : n[pg] \in Contents
  <2> SUFFICES ASSUME NEW pg \in Pages PROVE n[pg] \in Contents
    OBVIOUS
  <2>1. CASE \E i \in UserPdes : tab(i) = pg
    BY <1>5, <1>6, <2>1 DEF Contents
  <2>2. CASE ~ \E i \in UserPdes : tab(i) = pg
    BY <1>0, <1>7, <2>2
  <2>q. QED
    BY <2>1, <2>2
<1>9. n \in [Pages -> Contents]
  BY <1>3, <1>8
<1>10. n[d[3]] = m[d[3]] /\ n[kpgdir] = m[kpgdir]
  <2>1. d[3] \in Pages /\ kpgdir \in Pages
    BY Apart, KernelPagesHeld
  <2>q. QED
    BY <1>4, <1>5, <1>7, <2>1
<1>11. \A f \in dd \ {d} : Agree(m, n, f[3])
  <2> SUFFICES ASSUME NEW f \in dd \ {d} PROVE Agree(m, n, f[3])
    OBVIOUS
  <2>1. f[3] \in Pages /\ \A j \in UserPdes : m[f[3]][j] # 0 => m[f[3]][j] \in Pages
    BY Apart
  <2>2. n[f[3]] = m[f[3]]
    BY <1>4, <1>5, <1>7, <2>1
  <2>3. \A j \in UserPdes : m[f[3]][j] # 0 => n[m[f[3]][j]] = m[m[f[3]][j]]
    BY <1>4, <1>7, <2>1
  <2>q. QED
    BY <2>2, <2>3 DEF Agree
<1>12. DirShape(n, d[3])
  BY <1>0, <1>6, <1>10 DEF DirShape
<1>13. ASSUME NEW va \in VAs
       PROVE  Pte(n, d[3], va) = IF va \in R /\ tab(PDX(va)) # 0 THEN e ELSE Pte(m, d[3], va)
  <2>1. PDX(va) \in UserPdes /\ PTX(va) \in Ptes /\ va \in Nat
    BY TableOf
  <2>2. CASE tab(PDX(va)) = 0
    BY <1>10, <2>2 DEF Pte
  <2>3. CASE tab(PDX(va)) # 0
    <3>1. (\E w \in R : PDX(w) = PDX(va) /\ PTX(w) = PTX(va)) <=> va \in R
      BY <2>1, SplitUnique
    <3>2. Pte(n, d[3], va) = n[tab(PDX(va))][PTX(va)] /\ Pte(m, d[3], va) = m[tab(PDX(va))][PTX(va)]
      BY <1>10, <2>3 DEF Pte
    <3>q. QED
      BY <1>6, <2>1, <2>3, <3>1, <3>2
  <2>q. QED
    BY <2>2, <2>3
<1>14. OthersAgree(dd, m, n, d)
  BY <1>10, <1>11 DEF OthersAgree
<1>q. QED
  BY <1>9, <1>10, <1>12, <1>13, <1>14 DEF n

SetsPte(m, n, d, va, e) ==
    n[d] = m[d] /\ \A w \in VAs : Pte(n, d, w) = IF w = va THEN e ELSE Pte(m, d, w)

(* mappages: the page in hand is mapped at va. *)
LEMMA MapHand ==
    ASSUME NEW st, NEW ha, NEW dd, NEW m, NEW F, Sane(st, ha, dd, m, F), NEW d \in dd,
           NEW h \in ha, NEW va \in VAs, m[d[3]][PDX(va)] # 0, Pte(m, d[3], va) = 0
    PROVE  LET n == SetPtes(m, d[3], va, va + 1, h[3])
           IN /\ Sane(st, ha \ {h}, dd, n, F)
              /\ \A e \in dd \ {d} : Agree(m, n, e[3])
              /\ h[3] \in Pages /\ SetsPte(m, n, d[3], va, h[3])
<1> DEFINE n == SetPtes(m, d[3], va, va + 1, h[3])
           x == <<"page", <<d[3], va>>, h[3]>>
<1>0. /\ Accounted(Held(st, ha, dd, m), F) /\ F \in SUBSET Pages
  BY DEF Sane
<1>1. h \in Held(st, ha, dd, m) /\ h[3] \in Pages
  BY <1>0 DEF Held, Accounted
<1>2. h[3] # 0 /\ h[3] # DEV
  BY <1>1, AddressSpaceAssumption, Sizes DEF Pages
<1>3. va \in Nat /\ va + 1 \in Nat /\ va + 1 <= KERNBASE
      /\ \A w \in VAs : w \in va..((va + 1) - 1) <=> w = va
  BY Sizes DEF VAs
<1>4. /\ n \in [Pages -> Contents] /\ OthersAgree(dd, m, n, d) /\ n[d[3]] = m[d[3]]
      /\ DirShape(n, d[3])
      /\ \A w \in VAs : Pte(n, d[3], w) = IF w \in va..((va + 1) - 1) /\ m[d[3]][PDX(w)] # 0
                                          THEN h[3] ELSE Pte(m, d[3], w)
  BY <1>1, <1>3, SetEntries
<1> HIDE DEF n
<1>5. \A w \in VAs : Pte(n, d[3], w) = IF w = va THEN h[3] ELSE Pte(m, d[3], w)
  BY <1>3, <1>4
<1>6. TablesOf(n, d[3]) = TablesOf(m, d[3])
  BY <1>4 DEF TablesOf, OthersAgree
<1>7. PagesOf(n, d[3]) = PagesOf(m, d[3]) \cup {x}
  <2>1. {w \in VAs : Pte(n, d[3], w) \notin {0, DEV}}
        = {w \in VAs : Pte(m, d[3], w) \notin {0, DEV}} \cup {va}
    BY <1>2, <1>5
  <2>q. QED
    BY <1>5, <2>1 DEF PagesOf, VAs
<1>8. \A e \in dd \ {d} : Subtree(n, e[3]) = Subtree(m, e[3])
  BY <1>4, AgreeHoldings DEF Subtree, OthersAgree
<1>9. UNION {Subtree(n, e[3]) : e \in dd} = (UNION {Subtree(m, e[3]) : e \in dd}) \cup {x}
  BY <1>6, <1>7, <1>8 DEF Subtree
<1>10. \A e \in dd : \A y \in Subtree(m, e[3]) : y[1] \in {"table", "page"}
  BY DEF Subtree, TablesOf, PagesOf
<1>11. x # h /\ h \notin st /\ h \notin dd /\ h \notin UNION {Subtree(m, e[3]) : e \in dd}
       /\ h \notin {<<"kernel", <<0, 0>>, pg>> : pg \in KernelPages}
  BY <1>10 DEF Sane
<1>12. Held(st, ha \ {h}, dd, n) = (Held(st, ha, dd, m) \ {h}) \cup {x}
  BY <1>9, <1>11 DEF Held, Subtree
<1>13. Accounted((Held(st, ha, dd, m) \ {h}) \cup {x}, F)
  <2>1. x[3] = h[3]
    OBVIOUS
  <2> HIDE DEF x
  <2>q. QED
    BY <1>0, <1>1, <2>1, MoveHolding
<1>14. \A e \in dd : DirShape(n, e[3])
  BY <1>4, AgreeShape DEF Sane, OthersAgree
<1>15. Sane(st, ha \ {h}, dd, n, F)
  BY <1>4, <1>12, <1>13, <1>14 DEF Sane, KernelDir, OthersAgree
<1>q. QED
  BY <1>1, <1>4, <1>5, <1>15 DEF n, OthersAgree, SetsPte

ClearsPtes(m, n, d, lo, hi) ==
    n[d] = m[d] /\ \A va \in VAs : Pte(n, d, va) = IF va \in lo..(hi - 1) THEN 0 ELSE Pte(m, d, va)

(* deallocvm: the pages from lo up to hi are unmapped and freed. *)
LEMMA Unmap ==
    ASSUME NEW st, NEW ha, NEW dd, NEW m, NEW F, Sane(st, ha, dd, m, F), NEW d \in dd,
           NEW lo \in Nat, NEW hi \in Nat, hi <= KERNBASE
    PROVE  LET n == Deallocvm(m, d[3], hi, lo)
           IN /\ Sane(st, ha, dd, n, F \cup Mapped(m, d[3], lo, hi))
              /\ \A e \in dd \ {d} : Agree(m, n, e[3])
              /\ ClearsPtes(m, n, d[3], lo, hi)
<1> DEFINE m1 == SetPtes(m, d[3], lo, hi, 0)
           P == Mapped(m, d[3], lo, hi)
           n == Kfree(m1, P)
           gone == {va \in lo..(hi - 1) : Pte(m, d[3], va) \notin {0, DEV}}
           R == {<<"page", <<d[3], va>>, Pte(m, d[3], va)>> : va \in gone}
<1>0. /\ KernelDir(m) /\ m \in [Pages -> Contents] /\ DirShape(m, d[3]) /\ F \in SUBSET Pages
  BY DEF Sane
<1>1. \A va \in lo..(hi - 1) : va \in VAs
  BY Sizes DEF VAs
<1>2. /\ m1 \in [Pages -> Contents] /\ OthersAgree(dd, m, m1, d) /\ m1[d[3]] = m[d[3]]
      /\ DirShape(m1, d[3])
      /\ \A va \in VAs : Pte(m1, d[3], va) = IF va \in lo..(hi - 1) /\ m[d[3]][PDX(va)] # 0
                                             THEN 0 ELSE Pte(m, d[3], va)
  BY SetEntries
<1>3. \A va \in VAs : m[d[3]][PDX(va)] = 0 => Pte(m, d[3], va) = 0
  BY DEF Pte
<1>4. P = {Pte(m, d[3], va) : va \in gone}
  BY DEF Mapped
<1>5. \A pg \in P : /\ pg \in Pages /\ pg # kpgdir
                    /\ \A e \in dd : pg # e[3] /\ \A j \in UserPdes : m[e[3]][j] # pg
  BY <1>1, <1>4, Apart
<1> HIDE DEF m1
<1>6. /\ n \in [Pages -> Contents]
      /\ \A pg \in Pages \ P : n[pg] = m1[pg]
  BY <1>2 DEF Kfree, Contents
<1> HIDE DEF P, n
<1>7. kpgdir \in Pages /\ \A e \in dd : e[3] \in Pages /\ \A j \in UserPdes : m[e[3]][j] # 0 => m[e[3]][j] \in Pages
  BY Apart, KernelPagesHeld
<1>8. \A e \in dd \ {d} : Agree(m, n, e[3])
  BY <1>2, <1>5, <1>6, <1>7 DEF OthersAgree, Agree
<1>9. n[kpgdir] = m[kpgdir] /\ n[d[3]] = m[d[3]]
  BY <1>2, <1>5, <1>6, <1>7 DEF OthersAgree
<1>10. \A j \in UserPdes : m[d[3]][j] # 0 => n[m[d[3]][j]] = m1[m[d[3]][j]]
  BY <1>5, <1>6, <1>7
<1>11. Agree(m1, n, d[3])
  BY <1>2, <1>9, <1>10 DEF Agree
<1>12. \A va \in VAs : Pte(n, d[3], va) = IF va \in lo..(hi - 1) THEN 0 ELSE Pte(m, d[3], va)
  BY <1>2, <1>3, <1>11, AgreePte
<1>13. TablesOf(n, d[3]) = TablesOf(m, d[3])
  BY <1>9 DEF TablesOf
<1>14. R \subseteq PagesOf(m, d[3]) /\ PagesOf(n, d[3]) = PagesOf(m, d[3]) \ R
  <2> DEFINE old == {w \in VAs : Pte(m, d[3], w) \notin {0, DEV}}
             pag(w) == <<"page", <<d[3], w>>, Pte(m, d[3], w)>>
  <2>1. gone \subseteq old /\ {w \in VAs : Pte(n, d[3], w) \notin {0, DEV}} = old \ gone
    BY <1>1, <1>12
  <2>2. PagesOf(m, d[3]) = {pag(w) : w \in old}
    BY DEF PagesOf, VAs
  <2>3. PagesOf(n, d[3]) = {pag(w) : w \in old \ gone}
    <3>1. PagesOf(n, d[3]) = {<<"page", <<d[3], w>>, Pte(n, d[3], w)>> : w \in old \ gone}
      BY <2>1 DEF PagesOf, VAs
    <3>2. \A w \in old \ gone : Pte(n, d[3], w) = Pte(m, d[3], w)
      BY <1>12
    <3>q. QED
      BY <3>1, <3>2
  <2>4. \A v, w \in old : pag(v) = pag(w) => v = w
    OBVIOUS
  <2>5. R = {pag(w) : w \in gone}
    OBVIOUS
  <2> HIDE DEF pag, old, gone, R
  <2>q. QED
    BY <2>1, <2>2, <2>3, <2>4, <2>5
<1>15. {h[3] : h \in R} = P
  <2> DEFINE pag(va) == <<"page", <<d[3], va>>, Pte(m, d[3], va)>>
  <2>1. R = {pag(va) : va \in gone}
    OBVIOUS
  <2>2. \A va \in gone : pag(va)[3] = Pte(m, d[3], va)
    OBVIOUS
  <2> HIDE DEF pag, R, gone
  <2>3. {h[3] : h \in R} = {Pte(m, d[3], va) : va \in gone}
    BY <2>1, <2>2
  <2>q. QED
    BY <1>4, <2>3
<1> HIDE DEF R
<1>16. Loses(m, n, d[3], R)
  <2>1. R \cap TablesOf(m, d[3]) = {}
    BY DEF R, TablesOf
  <2>q. QED
    BY <1>13, <1>14, <2>1 DEF Loses, Subtree
<1>17. OthersAgree(dd, m, n, d)
  BY <1>8, <1>9 DEF OthersAgree
<1>18. Accounted(Held(st, ha, dd, n), F \cup {h[3] : h \in R})
  BY <1>16, <1>17, Shrink
<1>19. \A e \in dd : DirShape(n, e[3])
  BY <1>2, <1>8, <1>11, AgreeShape DEF Sane
<1>20. P \subseteq Pages
  BY <1>5
<1>21. Sane(st, ha, dd, n, F \cup P)
  BY <1>0, <1>6, <1>9, <1>15, <1>18, <1>19, <1>20 DEF Sane, KernelDir
<1>q. QED
  BY <1>8, <1>9, <1>12, <1>21 DEF n, P, m1, Deallocvm, ClearsPtes

MapsNoPage(m, d, lo, hi) == \A va \in lo..(hi - 1) : Pte(m, d, va) \in {0, DEV}
SetsPtes(m, n, d, lo, hi, e) ==
    /\ n[d] = m[d]
    /\ \A va \in VAs : Pte(n, d, va) =
          IF va \in lo..(hi - 1) /\ m[d][PDX(va)] # 0 THEN e ELSE Pte(m, d, va)

(* Entries that map no memory page become 0 or the framebuffer. *)
LEMMA MapDevice ==
    ASSUME NEW st, NEW ha, NEW dd, NEW m, NEW F, Sane(st, ha, dd, m, F), NEW d \in dd,
           NEW lo \in Nat, NEW hi \in Nat, hi <= KERNBASE, NEW e \in {0, DEV},
           MapsNoPage(m, d[3], lo, hi)
    PROVE  LET n == SetPtes(m, d[3], lo, hi, e)
           IN /\ Sane(st, ha, dd, n, F)
              /\ \A f \in dd \ {d} : Agree(m, n, f[3])
              /\ SetsPtes(m, n, d[3], lo, hi, e)
<1> DEFINE n == SetPtes(m, d[3], lo, hi, e)
<1>1. /\ n \in [Pages -> Contents] /\ OthersAgree(dd, m, n, d) /\ n[d[3]] = m[d[3]]
      /\ DirShape(n, d[3])
      /\ \A va \in VAs : Pte(n, d[3], va) = IF va \in lo..(hi - 1) /\ m[d[3]][PDX(va)] # 0
                                            THEN e ELSE Pte(m, d[3], va)
  BY SetEntries
<1> HIDE DEF n
<1>2. \A va \in VAs : \/ Pte(n, d[3], va) = Pte(m, d[3], va)
                      \/ Pte(n, d[3], va) \in {0, DEV} /\ Pte(m, d[3], va) \in {0, DEV}
  BY <1>1 DEF MapsNoPage
<1>3. PagesOf(n, d[3]) = PagesOf(m, d[3])
  <2>1. {w \in VAs : Pte(n, d[3], w) \notin {0, DEV}} = {w \in VAs : Pte(m, d[3], w) \notin {0, DEV}}
    BY <1>2
  <2>2. \A w \in VAs : Pte(m, d[3], w) \notin {0, DEV} => Pte(n, d[3], w) = Pte(m, d[3], w)
    BY <1>2
  <2>q. QED
    BY <2>1, <2>2 DEF PagesOf, VAs
<1>4. TablesOf(n, d[3]) = TablesOf(m, d[3])
  BY <1>1 DEF TablesOf, OthersAgree
<1>5. \A f \in dd : Subtree(n, f[3]) = Subtree(m, f[3])
  BY <1>1, <1>3, <1>4, AgreeHoldings DEF Subtree, OthersAgree
<1>6. Held(st, ha, dd, n) = Held(st, ha, dd, m)
  BY <1>5 DEF Held, Subtree
<1>7. \A f \in dd : DirShape(n, f[3])
  BY <1>1, AgreeShape DEF Sane, OthersAgree
<1>8. Sane(st, ha, dd, n, F)
  BY <1>1, <1>6, <1>7 DEF Sane, KernelDir, OthersAgree
<1>q. QED
  BY <1>1, <1>8 DEF n, OthersAgree, SetsPtes

(* What is freed is not seen to change by those who keep their pages. *)
LEMMA FreeAgree ==
    ASSUME NEW st, NEW ha, NEW dd, NEW m, NEW F, Sane(st, ha, dd, m, F),
           NEW R \in SUBSET Held(st, ha, dd, m), NEW e \in dd, e \notin R,
           TablesOf(m, e[3]) \cap R = {}
    PROVE  Agree(m, Kfree(m, {h[3] : h \in R}), e[3])
<1> DEFINE X == {h[3] : h \in R}
           n == Kfree(m, X)
<1>1. \A g, h \in Held(st, ha, dd, m) : g[3] = h[3] => g = h
  BY DEF Sane, Accounted
<1>2. e \in Held(st, ha, dd, m) /\ TablesOf(m, e[3]) \subseteq Held(st, ha, dd, m)
  BY DEF Held
<1>3. e[3] \notin X
  BY <1>1, <1>2
<1>4. ASSUME NEW i \in UserPdes, m[e[3]][i] # 0 PROVE m[e[3]][i] \notin X
  <2> DEFINE x == <<"table", <<e[3], i>>, m[e[3]][i]>>
  <2>1. x \in TablesOf(m, e[3]) /\ x[3] = m[e[3]][i]
    BY <1>4, InHeld
  <2> HIDE DEF x
  <2>q. QED
    BY <1>1, <1>2, <2>1
<1>5. \A pg \in Pages \ X : n[pg] = m[pg]
  BY DEF Kfree
<1> HIDE DEF n, X
<1>6. Agree(m, n, e[3])
  BY <1>3, <1>4, <1>5, AgreeOutside
<1>q. QED
  BY <1>6 DEF n, X

(* Stacks and pages in hand go back to the free list. *)
LEMMA FreeSome ==
    ASSUME NEW st, NEW ha, NEW dd, NEW m, NEW F, Sane(st, ha, dd, m, F),
           NEW R \in SUBSET (st \cup ha)
    PROVE  LET X == {h[3] : h \in R}
               n == Kfree(m, X)
           IN /\ Sane(st \ R, ha \ R, dd, n, F \cup X)
              /\ \A e \in dd : Agree(m, n, e[3])
<1> DEFINE X == {h[3] : h \in R}
           n == Kfree(m, X)
           H == Held(st, ha, dd, m)
<1>0. /\ Accounted(H, F) /\ F \in SUBSET Pages /\ m \in [Pages -> Contents]
  BY DEF Sane
<1>1. R \in SUBSET H /\ X \subseteq Pages
  BY <1>0 DEF Held, Accounted
<1>2. \A x \in R : x[1] \in {"stack", "hand"}
  BY DEF Sane
<1>3. \A e \in dd : /\ e \notin R /\ TablesOf(m, e[3]) \cap R = {}
                    /\ (TablesOf(m, e[3]) \cup PagesOf(m, e[3])) \cap R = {}
  BY <1>2 DEF Sane, TablesOf, PagesOf
<1>4. \A e \in dd : Agree(m, n, e[3])
  BY <1>1, <1>3, FreeAgree
<1>5. n \in [Pages -> Contents] /\ \A pg \in Pages : pg \notin X => n[pg] = m[pg]
  BY <1>0 DEF Kfree, Contents
<1>6. kpgdir \notin X /\ {<<"kernel", <<0, 0>>, pg>> : pg \in KernelPages} \cap R = {}
  <2>1. <<"kernel", <<0, 0>>, kpgdir>> \in H /\ <<"kernel", <<0, 0>>, kpgdir>>[3] = kpgdir
        /\ <<"kernel", <<0, 0>>, kpgdir>>[1] = "kernel"
    BY DEF Held, kpgdir, KernelPages
  <2>2. kpgdir \notin X
    BY <1>0, <1>1, <1>2, <2>1 DEF Accounted
  <2>q. QED
    BY <1>2, <2>2
<1>7. n[kpgdir] = m[kpgdir]
  BY <1>5, <1>6, KernelPagesHeld
<1> HIDE DEF n
<1>8. \A e \in dd : TablesOf(n, e[3]) = TablesOf(m, e[3]) /\ PagesOf(n, e[3]) = PagesOf(m, e[3])
  BY <1>4, <1>7, AgreeHoldings
<1>9. Held(st \ R, ha \ R, dd, n) = H \ R
  BY <1>3, <1>6, <1>8 DEF Held
<1>10. Accounted(H \ R, F \cup X)
  <2> HIDE DEF H
  <2>q. QED
    BY <1>0, <1>1, DropHoldings
<1>11. \A e \in dd : DirShape(n, e[3])
  BY <1>4, AgreeShape DEF Sane
<1> HIDE DEF X
<1>12. Sane(st \ R, ha \ R, dd, n, F \cup X)
  BY <1>1, <1>5, <1>7, <1>9, <1>10, <1>11 DEF Sane, KernelDir
<1>q. QED
  BY <1>4, <1>12 DEF n, X

(* Freeing A and then B is freeing both. *)
LEMMA FreeTwice ==
    ASSUME NEW m, NEW A, NEW B
    PROVE  Kfree(Kfree(m, A), B) = Kfree(m, A \cup B)
BY DEF Kfree

FreevmOf(m, d) ==
    {d} \cup Mapped(m, d, 0, KERNBASE)
        \cup ({m[d][i] : i \in {j \in Pdes : m[d][j] # m[kpgdir][j] /\ j < HeapPde}} \ {0})

(* freevm: a directory goes with all it holds. *)
LEMMA FreeDir ==
    ASSUME NEW st, NEW ha, NEW dd, NEW m, NEW F, Sane(st, ha, dd, m, F), NEW d \in dd
    PROVE  LET n == Kfree(m, FreevmOf(m, d[3]))
           IN /\ Sane(st, ha, dd \ {d}, n, F \cup FreevmOf(m, d[3]))
              /\ \A e \in dd \ {d} : Agree(m, n, e[3])
<1> DEFINE P == FreevmOf(m, d[3])
           n == Kfree(m, P)
           H == Held(st, ha, dd, m)
           R == {d} \cup Subtree(m, d[3])
           tabs == {j \in Pdes : m[d[3]][j] \notin {0, m[kpgdir][j]}}
           vas == {w \in VAs : Pte(m, d[3], w) \notin {0, DEV}}
           tab(i) == <<"table", <<d[3], i>>, m[d[3]][i]>>
           pag(va) == <<"page", <<d[3], va>>, Pte(m, d[3], va)>>
<1>0. /\ Accounted(H, F) /\ F \in SUBSET Pages /\ m \in [Pages -> Contents] /\ KernelDir(m)
      /\ DirShape(m, d[3])
  BY DEF Sane
<1>1. TablesOf(m, d[3]) = {tab(i) : i \in tabs} /\ \A i \in tabs : tab(i)[3] = m[d[3]][i]
  BY DEF TablesOf
<1>2. PagesOf(m, d[3]) = {pag(va) : va \in vas} /\ \A va \in vas : pag(va)[3] = Pte(m, d[3], va)
  BY DEF PagesOf, VAs
<1>3. Mapped(m, d[3], 0, KERNBASE) = {Pte(m, d[3], va) : va \in vas}
  BY DEF Mapped, VAs
<1>4. {m[d[3]][i] : i \in {j \in Pdes : m[d[3]][j] # m[kpgdir][j] /\ j < HeapPde}} \ {0}
      = {m[d[3]][i] : i \in tabs}
  <2>1. \A j \in Pdes : m[d[3]][j] # 0 =>
           (m[d[3]][j] # m[kpgdir][j] /\ j < HeapPde <=> j \in tabs)
    <3>1. \A j \in Pdes : j # HeapPde => j < HeapPde
      BY Sizes DEF Pdes, HeapPde
    <3>2. m[d[3]][HeapPde] \in {0, 3} /\ m[kpgdir][HeapPde] = 3 /\ ~(HeapPde < HeapPde)
      BY <1>0, KernelEntries, Sizes DEF DirShape, HeapPde
    <3>q. QED
      BY <3>1, <3>2
  <2>2. \A j \in tabs : j \in Pdes /\ m[d[3]][j] # 0
    OBVIOUS
  <2> HIDE DEF tabs
  <2>q. QED
    BY <2>1, <2>2
<1> HIDE DEF tab, pag, tabs, vas
<1>5. {h[3] : h \in R} = P
  <2>1. P = {d[3]} \cup {Pte(m, d[3], va) : va \in vas} \cup {m[d[3]][i] : i \in tabs}
    BY <1>3, <1>4 DEF FreevmOf
  <2>2. R = {d} \cup {tab(i) : i \in tabs} \cup {pag(va) : va \in vas}
    BY <1>1, <1>2 DEF Subtree
  <2> HIDE DEF P, R
  <2>3. \A y : (\E h \in R : y = h[3]) <=> y \in P
    BY <1>1, <1>2, <2>1, <2>2
  <2>q. QED
    BY <2>3
<1>6. R \in SUBSET H
  BY DEF Held, Subtree
<1>7. \A e \in dd : \A y \in Subtree(m, e[3]) : y[1] \in {"table", "page"} /\ y[2][1] = e[3]
  BY DEF Subtree, TablesOf, PagesOf
<1>8. \A e \in dd \ {d} : e[3] # d[3]
  BY Apart
<1>9. \A e \in dd \ {d} : e \notin R /\ Subtree(m, e[3]) \cap R = {}
  BY <1>7, <1>8 DEF Sane
<1> HIDE DEF P, R
<1>10. \A e \in dd \ {d} : Agree(m, n, e[3])
  <2> SUFFICES ASSUME NEW e \in dd \ {d} PROVE Agree(m, n, e[3])
    OBVIOUS
  <2>1. e \notin R /\ TablesOf(m, e[3]) \cap R = {}
    BY <1>9 DEF Subtree
  <2>2. Agree(m, Kfree(m, {h[3] : h \in R}), e[3])
    BY <1>6, <2>1, FreeAgree
  <2>q. QED
    BY <1>5, <2>2
<1>11. P \subseteq Pages
  BY <1>0, <1>5, <1>6 DEF Accounted
<1>12. n \in [Pages -> Contents] /\ \A pg \in Pages : pg \notin P => n[pg] = m[pg]
  BY <1>0 DEF Kfree, Contents
<1>13. \A y \in R : y[1] # "kernel" /\ y \notin st /\ y \notin ha
  BY <1>7 DEF R, Sane
<1>14. n[kpgdir] = m[kpgdir]
  <2>1. <<"kernel", <<0, 0>>, kpgdir>> \in H /\ <<"kernel", <<0, 0>>, kpgdir>>[3] = kpgdir
        /\ <<"kernel", <<0, 0>>, kpgdir>>[1] = "kernel"
    BY DEF Held, kpgdir, KernelPages
  <2>2. kpgdir \notin P
    BY <1>0, <1>5, <1>6, <1>13, <2>1 DEF Accounted
  <2>q. QED
    BY <1>12, <2>2, KernelPagesHeld
<1> HIDE DEF n
<1>15. \A e \in dd \ {d} : Subtree(n, e[3]) = Subtree(m, e[3])
  BY <1>10, <1>14, AgreeHoldings DEF Subtree
<1>16. Held(st, ha, dd \ {d}, n) = H \ R
  <2>1. UNION {Subtree(n, e[3]) : e \in dd \ {d}} = (UNION {Subtree(m, e[3]) : e \in dd}) \ R
    <3>1. Subtree(m, d[3]) \subseteq R
      BY DEF R
    <3>2. \A y : (\E e \in dd \ {d} : y \in Subtree(n, e[3]))
                 <=> (\E e \in dd : y \in Subtree(m, e[3])) /\ y \notin R
      BY <1>9, <1>15, <3>1
    <3>q. QED
      BY <3>2
  <2>2. dd \ {d} = dd \ R
    BY <1>7, <1>9 DEF R
  <2>3. \A y \in {<<"kernel", <<0, 0>>, pg>> : pg \in KernelPages} : y \notin R
    BY <1>13
  <2>4. st \ R = st /\ ha \ R = ha
    BY <1>13
  <2>q. QED
    BY <2>1, <2>2, <2>3, <2>4 DEF Held, Subtree
<1>17. Accounted(H \ R, F \cup P)
  <2> HIDE DEF H
  <2>1. Accounted(H \ R, F \cup {h[3] : h \in R})
    BY <1>0, <1>6, DropHoldings
  <2>q. QED
    BY <1>5, <2>1
<1>18. \A e \in dd \ {d} : DirShape(n, e[3])
  BY <1>10, AgreeShape DEF Sane
<1>19. Sane(st, ha, dd \ {d}, n, F \cup P)
  BY <1>11, <1>12, <1>14, <1>16, <1>17, <1>18 DEF Sane, KernelDir
<1>q. QED
  BY <1>10, <1>19 DEF n, P

(* Two changes that d does not see are one. *)
LEMMA AgreeTwice ==
    ASSUME NEW m, NEW n, NEW o, NEW d, Agree(m, n, d), Agree(n, o, d)
    PROVE  Agree(m, o, d)
BY DEF Agree

(* freevm together with stacks and pages in hand. *)
LEMMA FreeDirAndSome ==
    ASSUME NEW st, NEW ha, NEW dd, NEW m, NEW F, Sane(st, ha, dd, m, F), NEW d \in dd,
           NEW R \in SUBSET (st \cup ha)
    PROVE  LET X == FreevmOf(m, d[3]) \cup {h[3] : h \in R}
               n == Kfree(m, X)
           IN /\ Sane(st \ R, ha \ R, dd \ {d}, n, F \cup X)
              /\ \A e \in dd \ {d} : Agree(m, n, e[3])
<1> DEFINE P == FreevmOf(m, d[3])
           Y == {h[3] : h \in R}
           o == Kfree(m, P)
           n == Kfree(o, Y)
<1>1. Sane(st, ha, dd \ {d}, o, F \cup P) /\ \A e \in dd \ {d} : Agree(m, o, e[3])
  BY FreeDir
<1> HIDE DEF P, o
<1>2. /\ Sane(st \ R, ha \ R, dd \ {d}, n, (F \cup P) \cup Y)
      /\ \A e \in dd \ {d} : Agree(o, n, e[3])
  BY <1>1, FreeSome
<1> HIDE DEF Y, n
<1>3. n = Kfree(m, P \cup Y)
  BY FreeTwice DEF n, o
<1>4. (F \cup P) \cup Y = F \cup (P \cup Y)
  OBVIOUS
<1>5. \A e \in dd \ {d} : Agree(m, n, e[3])
  BY <1>1, <1>2, AgreeTwice
<1>6. Sane(st \ R, ha \ R, dd \ {d}, n, F \cup (P \cup Y))
  BY <1>2, <1>4
<1>q. QED
  BY <1>3, <1>5, <1>6 DEF P, Y

(* A directory changes hands. *)
LEMMA MoveDir ==
    ASSUME NEW st, NEW ha, NEW dd, NEW m, NEW F, Sane(st, ha, dd, m, F), NEW d \in dd,
           NEW x, x[1] \in {"call", "slot"}, x[3] = d[3]
    PROVE  Sane(st, ha, (dd \ {d}) \cup {x}, m, F)
<1> DEFINE H == Held(st, ha, dd, m)
           ee == (dd \ {d}) \cup {x}
<1>0. Accounted(H, F) /\ F \in SUBSET Pages
  BY DEF Sane
<1>1. d \in H
  BY DEF Held
<1>2. UNION {Subtree(m, e[3]) : e \in ee} = UNION {Subtree(m, e[3]) : e \in dd}
  OBVIOUS
<1>3. \A y \in UNION {Subtree(m, e[3]) : e \in dd} : y[1] \in {"table", "page"}
  BY DEF Subtree, TablesOf, PagesOf
<1>4. d \notin st /\ d \notin ha /\ d \notin UNION {Subtree(m, e[3]) : e \in dd}
      /\ d \notin {<<"kernel", <<0, 0>>, pg>> : pg \in KernelPages}
  BY <1>3 DEF Sane
<1>5. Held(st, ha, ee, m) = (H \ {d}) \cup {x}
  BY <1>2, <1>4 DEF Held, Subtree
<1>6. Accounted((H \ {d}) \cup {x}, F)
  <2> HIDE DEF H
  <2>q. QED
    BY <1>0, <1>1, MoveHolding
<1>7. \A e \in ee : e[1] \in {"call", "slot"} /\ DirShape(m, e[3])
  BY DEF Sane
<1>q. QED
  BY <1>5, <1>6, <1>7 DEF Sane
-----------------------------------------------------------------------------
(* The inductive invariant *)

(* The locals of a system call at each point of it. *)
Frame(f, brk) ==
    /\ f.pc = "user" => f = User
    /\ f.pc = "exiting" => f = [User EXCEPT !.pc = "exiting"]
    /\ f.pc \in {"init_proc", "copyuvm", "forked"} => f.call = "fork"
    /\ f.pc \in {"setup", "setup_kmap"} => f.call \in {"fork", "exec"}
    /\ f.pc = "mappages" => f.call \in {"fork", "exec", "exec_stack", "sbrk"}
    /\ f.pc = "allocvm" => f.call \in {"exec", "exec_stack", "sbrk"}
    /\ f.pc \in {"activate", "freeold"} => f.call = "exec_stack"
    /\ f.d = 0 <=> f.pc \in {"user", "exiting", "init_proc", "setup"} \/ f.call = "sbrk"
    /\ f.mem = 0 <=> f.pc # "mappages"
    /\ f.pc \in {"init_proc", "setup", "setup_kmap"} => f.a = 0
    /\ f.pc = "copyuvm" => f.a <= brk
    /\ f.pc = "mappages" => f.a < IF f.call = "fork" THEN brk ELSE f.end
    /\ f.pc = "allocvm" => f.a <= f.end
    /\ f.call = "exec" => f.end + 2 < KERNBASE
    /\ f.call = "sbrk" => /\ f.pc \in {"mappages", "allocvm"}
                          /\ brk <= f.a \/ (f.pc = "allocvm" /\ f.a = f.end)

(* A slot that is not RUNNING is in no call, but for a zombie on its way   *)
(* to the scheduler, which keeps ptable.lock.                              *)
FrameAt(s) ==
    /\ Frame(k[s], ptable[s].brk)
    /\ ptable[s].state # "RUNNING" => k[s].pc = IF ptlock = s THEN "exiting" ELSE "user"
    /\ ptlock = s => ptable[s].state = "ZOMBIE"

(* fork's child is an EMBRYO that nobody else builds. *)
ForkAt(s) ==
    k[s].call = "fork" =>
        LET c == ptable[k[s].np]
        IN /\ k[s].np \in Slots /\ c.state = "EMBRYO"
           /\ c.kstack = 0 <=> k[s].pc = "init_proc"
           /\ k[s].pc = "forked" =>
                 c.pgdir = k[s].d /\ c.brk = ptable[s].brk /\ c.fb = ptable[s].fb
NpUnique ==
    \A s, t \in Slots : k[s].call = "fork" /\ k[t].call = "fork" /\ k[s].np = k[t].np => s = t

SlotAt(s) ==
    /\ ptable[s].state = "UNUSED" => ptable[s].kstack = 0
    /\ s \in Alive => ptable[s].kstack # 0 /\ ptable[s].pgdir # 0
    /\ ptable[s].state = "ZOMBIE" \/ k[s].pc = "exiting" => ~ptable[s].fb

Dirs == CallDirs \cup SlotDirs

(* How far the pages of a process reach in the middle of sbrk. *)
Top(s) == IF k[s].call = "sbrk" THEN k[s].a ELSE ptable[s].brk

Filling(s) == k[s].pc \in {"setup_kmap", "copyuvm", "mappages", "allocvm"} /\ k[s].call # "sbrk"

LayoutAt(s) ==
    /\ ptable[s].state = "RUNNING" => Layout(mem, ptable[s].pgdir, Top(s), ptable[s].fb)
    /\ Filling(s) => /\ Layout(mem, k[s].d, k[s].a, FALSE)
                     /\ mem[k[s].d][UserTables] = 0
    /\ k[s].pc = "setup_kmap" => mem[k[s].d] = EmptyDir
    /\ k[s].pc = "forked" => /\ Layout(mem, k[s].d, ptable[s].brk, ptable[s].fb)
                             /\ ptable[s].fb => FbMapped(mem, k[s].d)

Cr3At(s) ==
    /\ ptable[s].state = "RUNNING" =>
          cr3[s] = ptable[s].pgdir \/ (k[s].pc = "activate" /\ cr3[s] = k[s].d)
    /\ ptlock = s => cr3[s] = ptable[s].pgdir
    /\ ptable[s].state # "RUNNING" /\ ptlock # s => cr3[s] = kpgdir /\ tlb[s] = {}

TlbAt(s) ==
    /\ ptable[s].state = "RUNNING"
    /\ k[s].pc # "activate"
    /\ ~(k[s].call = "sbrk" /\ k[s].end < ptable[s].brk)
    => tlb[s] \subseteq Mapped(mem, ptable[s].pgdir, 0, ptable[s].brk)

(* Slot s loses no entry of the framebuffer but to a sbrk that fails. *)
FbKept(s) ==
    \A va \in FbMissing(s)' \ FbMissing(s) :
        k[s].call = "sbrk" /\ va < k[s].end /\ k'[s] = User

SlotInv(s) == FrameAt(s) /\ ForkAt(s) /\ SlotAt(s) /\ LayoutAt(s) /\ Cr3At(s) /\ TlbAt(s)

IInv ==
    /\ TypeOK
    /\ Sane(Stacks, Hands, Dirs, mem, free)
    /\ \A s \in Slots : SlotInv(s)
    /\ NpUnique
    /\ ~panic

(* What is proved of every step: it keeps the invariant and the            *)
(* framebuffer's entries.                                                  *)
StepGood == IInv' /\ \A s \in Slots : FbKept(s)
-----------------------------------------------------------------------------
(* What a step leaves alone *)

SDir(s) == <<"slot", <<s, 0>>, ptable[s].pgdir>>
CDir(s) == <<"call", <<s, 0>>, k[s].d>>

(* The types of a slot and of a frame, by field. *)
LEMMA Types ==
    ASSUME TypeOK, NEW s \in Slots
    PROVE  /\ ptable[s].state \in {"UNUSED", "EMBRYO", "RUNNING", "ZOMBIE"}
           /\ ptable[s].pgdir \in Pages \cup {0} /\ ptable[s].kstack \in Pages \cup {0}
           /\ ptable[s].brk \in 0..FB_MMAP_BASE /\ ptable[s].fb \in BOOLEAN
           /\ k[s].np \in Slots \cup {0} /\ k[s].d \in Pages \cup {0}
           /\ k[s].mem \in Pages \cup {0} /\ k[s].a \in 0..FB_MMAP_BASE /\ k[s].end \in 0..KERNBASE
BY DEF TypeOK

(* The locals of a process that is in no system call. *)
LEMMA UserFields ==
    /\ User.pc = "user" /\ User.call = "none" /\ User.np = 0 /\ User.d = 0
    /\ User.a = 0 /\ User.end = 0 /\ User.mem = 0
BY DEF User

(* Only a RUNNING process builds or frees a directory or has a page in     *)
(* hand or a child to fork.                                                *)
LEMMA Idle ==
    ASSUME NEW s \in Slots, FrameAt(s), ptable[s].state # "RUNNING"
    PROVE  k[s].d = 0 /\ k[s].mem = 0 /\ k[s].call = "none"
<1>1. k[s] = User \/ k[s] = [User EXCEPT !.pc = "exiting"]
  BY DEF FrameAt, Frame
<1>q. QED
  BY <1>1 DEF User

(* The directory of a slot and the one its call is building are among the  *)
(* holdings.                                                               *)
LEMMA OwnDirs ==
    ASSUME IInv, NEW s \in Slots
    PROVE  /\ s \in Alive => SDir(s) \in Dirs
           /\ k[s].d # 0 => CDir(s) \in Dirs /\ ptable[s].state = "RUNNING"
           /\ SDir(s)[3] = ptable[s].pgdir /\ CDir(s)[3] = k[s].d
           /\ SDir(s)[2] = <<s, 0>> /\ CDir(s)[2] = <<s, 0>>
           /\ SDir(s)[1] = "slot" /\ CDir(s)[1] = "call"
<1>1. k[s].d # 0 => ptable[s].state = "RUNNING"
  BY Idle DEF IInv, SlotInv
<1>q. QED
  BY <1>1 DEF SDir, CDir, Dirs, CallDirs, SlotDirs, Alive

(* The directories of s say what they said. *)
SeesSame(s) ==
    /\ s \in Alive => Agree(mem, mem', ptable[s].pgdir)
    /\ k[s].d # 0 => Agree(mem, mem', k[s].d)

(* When only directories of p change, no other slot sees a difference. *)
LEMMA OthersSeeSame ==
    ASSUME IInv, NEW p \in Slots, NEW X, X \subseteq {SDir(p), CDir(p)},
           \A e \in Dirs \ X : Agree(mem, mem', e[3])
    PROVE  \A s \in Slots \ {p} : SeesSame(s)
<1> SUFFICES ASSUME NEW s \in Slots \ {p} PROVE SeesSame(s)
  OBVIOUS
<1>1. SDir(s) \notin X /\ CDir(s) \notin X
  BY DEF SDir, CDir
<1>q. QED
  BY <1>1, OwnDirs DEF SeesSame

(* Slot s takes no part in the step. *)
Kept(s) ==
    /\ k'[s] = k[s]
    /\ ptable'[s].state = ptable[s].state /\ ptable'[s].pgdir = ptable[s].pgdir
    /\ ptable'[s].kstack = ptable[s].kstack /\ ptable'[s].brk = ptable[s].brk
    /\ ptable'[s].fb = ptable[s].fb
    /\ cr3'[s] = cr3[s] /\ tlb'[s] = tlb[s]
    /\ ptlock' = s <=> ptlock = s

(* A slot that takes no part in the step keeps its mappings. *)
LEMMA KeptLayout ==
    ASSUME IInv, NEW s \in Slots, Kept(s), SeesSame(s)
    PROVE  LayoutAt(s)'
<1>1. LayoutAt(s) /\ FrameAt(s)
  BY DEF IInv, SlotInv
<1>2. Top(s)' = Top(s) /\ (Filling(s)' <=> Filling(s))
  BY DEF Kept, Top, Filling
<1>3. ptable'[s].state = "RUNNING" => Layout(mem', ptable'[s].pgdir, Top(s)', ptable'[s].fb)
  <2> SUFFICES ASSUME ptable'[s].state = "RUNNING"
               PROVE  Layout(mem', ptable'[s].pgdir, Top(s)', ptable'[s].fb)
    OBVIOUS
  <2>1. Agree(mem, mem', ptable[s].pgdir) /\ Layout(mem, ptable[s].pgdir, Top(s), ptable[s].fb)
    BY <1>1 DEF SeesSame, LayoutAt, Alive, Kept
  <2>2. Layout(mem', ptable[s].pgdir, Top(s), ptable[s].fb)
    BY <2>1, AgreeLayout
  <2>q. QED
    BY <1>2, <2>2 DEF Kept
<1>4. Filling(s)' => k[s].d # 0
  BY <1>1, <1>2 DEF Filling, FrameAt, Frame
<1>5. Filling(s)' => Layout(mem', k'[s].d, k'[s].a, FALSE) /\ mem'[k'[s].d][UserTables] = 0
  <2> SUFFICES ASSUME Filling(s)' PROVE Layout(mem', k'[s].d, k'[s].a, FALSE) /\ mem'[k'[s].d][UserTables] = 0
    OBVIOUS
  <2>1. Agree(mem, mem', k[s].d) /\ k'[s] = k[s] /\ Layout(mem, k[s].d, k[s].a, FALSE)
        /\ mem[k[s].d][UserTables] = 0
    BY <1>1, <1>2, <1>4 DEF SeesSame, Kept, LayoutAt
  <2>q. QED
    BY <2>1, AgreeLayout DEF Agree
<1>6. k'[s].pc = "setup_kmap" => mem'[k'[s].d] = EmptyDir
  BY <1>1 DEF Kept, SeesSame, LayoutAt, FrameAt, Frame, Agree
<1>7. k'[s].pc = "forked" => /\ Layout(mem', k'[s].d, ptable'[s].brk, ptable'[s].fb)
                             /\ ptable'[s].fb => FbMapped(mem', k'[s].d)
  <2> SUFFICES ASSUME k'[s].pc = "forked"
               PROVE  /\ Layout(mem', k'[s].d, ptable'[s].brk, ptable'[s].fb)
                      /\ ptable'[s].fb => FbMapped(mem', k'[s].d)
    OBVIOUS
  <2>1. k'[s] = k[s] /\ k[s].d # 0
    BY <1>1 DEF Kept, FrameAt, Frame
  <2>2. /\ Agree(mem, mem', k[s].d) /\ Layout(mem, k[s].d, ptable[s].brk, ptable[s].fb)
        /\ ptable[s].fb => FbMapped(mem, k[s].d)
    BY <1>1, <2>1 DEF SeesSame, LayoutAt
  <2>q. QED
    BY <2>1, <2>2, AgreeLayout, AgreeFb DEF Kept
<1>q. QED
  BY <1>3, <1>5, <1>6, <1>7 DEF LayoutAt

(* A slot that takes no part in the step keeps its part of the invariant. *)
LEMMA KeptOK ==
    ASSUME IInv, NEW s \in Slots, Kept(s), SeesSame(s)
    PROVE  FrameAt(s)' /\ SlotAt(s)' /\ LayoutAt(s)' /\ Cr3At(s)' /\ TlbAt(s)'
<1>1. FrameAt(s)' /\ SlotAt(s)' /\ Cr3At(s)'
  <2>1. FrameAt(s) /\ SlotAt(s) /\ Cr3At(s)
    BY DEF IInv, SlotInv
  <2>2. s \in Alive' <=> s \in Alive
    BY DEF Alive, Kept
  <2>q. QED
    BY <2>1, <2>2 DEF FrameAt, SlotAt, Cr3At, Kept
<1>2. TlbAt(s)'
  <2> SUFFICES ASSUME ptable[s].state = "RUNNING", k[s].pc # "activate",
                      ~(k[s].call = "sbrk" /\ k[s].end < ptable[s].brk)
               PROVE  tlb[s] \subseteq Mapped(mem', ptable[s].pgdir, 0, ptable[s].brk)
    BY DEF TlbAt, Kept
  <2>1. tlb[s] \subseteq Mapped(mem, ptable[s].pgdir, 0, ptable[s].brk)
    BY DEF IInv, SlotInv, TlbAt
  <2>2. ptable[s].brk \in Nat /\ ptable[s].brk <= KERNBASE /\ 0 \in Nat
    BY Types, Sizes DEF IInv
  <2>3. Agree(mem, mem', ptable[s].pgdir)
    BY DEF SeesSame, Alive
  <2>4. Mapped(mem', ptable[s].pgdir, 0, ptable[s].brk) = Mapped(mem, ptable[s].pgdir, 0, ptable[s].brk)
    BY <2>2, <2>3, AgreeMapped
  <2>q. QED
    BY <2>1, <2>4
<1>q. QED
  BY <1>1, <1>2, KeptLayout

(* What is enough to keep the entries of the framebuffer. *)
LEMMA SameFb ==
    ASSUME NEW s \in Slots,
           \/ ptable'[s].state # "RUNNING" \/ ~ptable'[s].fb
           \/ FbMapped(mem', ptable'[s].pgdir)
           \/ /\ ptable[s].state = "RUNNING" /\ ptable'[s].fb = ptable[s].fb
              /\ ptable'[s].pgdir = ptable[s].pgdir /\ Agree(mem, mem', ptable[s].pgdir)
    PROVE  FbKept(s)
<1>1. CASE ptable'[s].state # "RUNNING" \/ ~ptable'[s].fb \/ FbMapped(mem', ptable'[s].pgdir)
  BY <1>1 DEF FbKept, FbMissing, FbMapped
<1>2. CASE /\ ptable[s].state = "RUNNING" /\ ptable'[s].fb = ptable[s].fb
           /\ ptable'[s].pgdir = ptable[s].pgdir /\ Agree(mem, mem', ptable[s].pgdir)
  <2>1. FbRange \subseteq VAs
    BY Sizes DEF FbRange, VAs
  <2>2. \A va \in FbRange : Pte(mem', ptable[s].pgdir, va) = Pte(mem, ptable[s].pgdir, va)
    BY <1>2, <2>1, AgreePte
  <2>3. FbMissing(s)' \subseteq FbMissing(s)
    BY <1>2, <2>2 DEF FbMissing
  <2>q. QED
    BY <2>3 DEF FbKept
<1>q. QED
  BY <1>1, <1>2

(* A slot that takes no part in the step keeps them. *)
LEMMA KeptFb ==
    ASSUME NEW s \in Slots, Kept(s), SeesSame(s)
    PROVE  FbKept(s)
<1>1. CASE ptable'[s].state # "RUNNING"
  BY <1>1, SameFb
<1>2. CASE ptable'[s].state = "RUNNING"
  BY <1>2, SameFb DEF Kept, SeesSame, Alive
<1>q. QED
  BY <1>1, <1>2

(* A step of p, in which at most p and q change. *)
LEMMA StepOK ==
    ASSUME IInv, NEW p \in Slots, NEW q \in Slots,
           \A s \in Slots \ {p, q} : Kept(s) /\ SeesSame(s),
           \A s \in Slots \ {p, q} : k[s].call = "fork" => k[s].np \notin {p, q},
           TypeOK', Sane(Stacks', Hands', Dirs', mem', free'), ~panic', NpUnique',
           SlotInv(p)', SlotInv(q)', FbKept(p), FbKept(q)
    PROVE  StepGood
<1>1. ASSUME NEW s \in Slots \ {p, q} PROVE SlotInv(s)'
  <2>1. FrameAt(s)' /\ SlotAt(s)' /\ LayoutAt(s)' /\ Cr3At(s)' /\ TlbAt(s)'
    BY KeptOK
  <2>2. ForkAt(s)'
    <3> SUFFICES ASSUME k'[s].call = "fork" PROVE ForkAt(s)'
      BY DEF ForkAt
    <3>1. k'[s] = k[s] /\ Kept(s) /\ ForkAt(s)
      BY DEF Kept, IInv, SlotInv
    <3>2. k[s].np \in Slots /\ k[s].np \notin {p, q}
      BY <3>1 DEF ForkAt
    <3>3. \A c \in Slots \ {p, q} : Kept(c)
      OBVIOUS
    <3>4. Kept(k[s].np)
      BY <3>2, <3>3
    <3>q. QED
      BY <3>1, <3>4 DEF ForkAt, Kept
  <2>q. QED
    BY <2>1, <2>2 DEF SlotInv
<1>2. \A s \in Slots : SlotInv(s)'
  BY <1>1
<1>3. \A s \in Slots : FbKept(s)
  BY KeptFb
<1>q. QED
  BY <1>2, <1>3 DEF IInv, StepGood

(* A step in which only p changes. *)
LEMMA StepOne ==
    ASSUME IInv, NEW p \in Slots,
           \A s \in Slots \ {p} : Kept(s) /\ SeesSame(s),
           \A s \in Slots \ {p} : k[s].call = "fork" => k[s].np # p,
           TypeOK', Sane(Stacks', Hands', Dirs', mem', free'), ~panic', NpUnique',
           SlotInv(p)', FbKept(p)
    PROVE  StepGood
<1>1. \A s \in Slots \ {p, p} : Kept(s) /\ SeesSame(s)
  OBVIOUS
<1>2. \A s \in Slots \ {p, p} : k[s].call = "fork" => k[s].np \notin {p, p}
  OBVIOUS
<1>q. QED
  BY <1>1, <1>2, StepOK
-----------------------------------------------------------------------------
(* Initial states *)

(* The page kalloc_page returns. *)
LEMMA PageIsFree ==
    ASSUME TypeOK, CanAlloc
    PROVE  Page \in free /\ Page \in Pages /\ Page # 0
<1>1. free \in SUBSET Nat /\ free # {} /\ \A x \in free : x \in Pages /\ x # 0
  BY DEF TypeOK, CanAlloc, Pages
<1>2. \E x \in free : \A y \in free : x <= y
  BY <1>1, SmallestExists
<1>q. QED
  BY <1>1, <1>2 DEF Page

(* The invariant holds when init has been set up. *)
LEMMA InitInv == Init => IInv
<1> SUFFICES ASSUME Init PROVE IInv
  OBVIOUS
<1>a. free = 9..NPAGES /\ ptlock = 0 /\ panic = FALSE /\ calls = 0
  BY DEF Init
<1>b. /\ ptable = [s \in Slots |->
            IF s = initproc
            THEN [state |-> "RUNNING", pgdir |-> 5, kstack |-> 4, brk |-> 1,
                  fb |-> FALSE, parent |-> 0]
            ELSE UNUSED]
      /\ k = [s \in Slots |-> User]
      /\ cr3 = [s \in Slots |-> IF s = initproc THEN 5 ELSE kpgdir]
      /\ tlb = [s \in Slots |-> {}]
  BY DEF Init
<1>0. NPAGES \in Nat /\ NPAGES >= 8 /\ initproc \in Slots /\ 0 \notin Slots
  BY Sizes, AddressSpaceAssumption DEF initproc, Slots
<1>1. /\ DirectPde \in Pdes /\ HeapPde \in Pdes /\ 0 \in Pdes /\ 0 \in UserPdes
      /\ DirectPde # 0 /\ HeapPde # 0 /\ HeapPde # DirectPde
      /\ UserPdes \subseteq Pdes
      /\ \A i \in UserPdes : i # DirectPde /\ i # HeapPde
      /\ 0 \in Ptes /\ UserTables # 0 /\ UserTables \in UserPdes
  BY Sizes DEF Pdes, UserPdes, Ptes, DirectPde, HeapPde
<1>2. 1..8 \subseteq Pages /\ DEV \notin Pages /\ DEV # 0 /\ 0 \notin Pages
  BY <1>0, AddressSpaceAssumption DEF Pages
<1> DEFINE kd == [EmptyDir EXCEPT ![DirectPde] = 2, ![HeapPde] = 3]
           id == [EmptyDir EXCEPT ![0] = 7, ![DirectPde] = 6, ![HeapPde] = 3]
           it == [EmptyTab EXCEPT ![0] = 8]
<1>3. /\ kd \in [Pdes -> Pages \cup {0}] /\ kd[DirectPde] = 2 /\ kd[HeapPde] = 3
      /\ \A i \in UserPdes : kd[i] = 0
  BY <1>1, <1>2 DEF EmptyDir
<1>4. /\ id \in [Pdes -> Pages \cup {0}] /\ id[0] = 7 /\ id[DirectPde] = 6 /\ id[HeapPde] = 3
      /\ \A i \in UserPdes \ {0} : id[i] = 0
  BY <1>1, <1>2 DEF EmptyDir
<1>5. /\ it \in [Ptes -> Pages \cup {0, DEV}] /\ it[0] = 8 /\ \A i \in Ptes \ {0} : it[i] = 0
  BY <1>1, <1>2 DEF EmptyTab
<1>6. /\ mem[1] = kd /\ mem[5] = id /\ mem[7] = it
      /\ \A pg \in Pages \ {1, 5, 7} : mem[pg] \in {data, junk}
      /\ mem = [pg \in Pages |-> mem[pg]]
  <2> HIDE DEF kd, id, it
  <2>1. mem = [pg \in Pages |-> CASE pg = 1 -> kd [] pg = 5 -> id [] pg = 7 -> it
                                  [] pg \in 9..NPAGES -> junk [] OTHER -> data]
    BY DEF kd, id, it, Init
  <2>2. \A pg \in Pages : (pg = 1 \/ pg = 5 \/ pg = 7) => pg \notin 9..NPAGES
    BY <1>0
  <2>q. QED
    BY <1>2, <2>1, <2>2
<1> HIDE DEF kd, id, it
<1>7. mem \in [Pages -> Contents]
  <2>1. \A pg \in Pages : mem[pg] \in Contents
    BY <1>3, <1>4, <1>5, <1>6 DEF Contents
  <2>q. QED
    BY <1>6, <2>1
<1>8. TypeOK
  <2>1. free \subseteq Pages
    BY <1>a, <1>0 DEF Pages
  <2>2. /\ ptable \in [Slots -> [state : {"UNUSED", "EMBRYO", "RUNNING", "ZOMBIE"},
                             pgdir : Pages \cup {0}, kstack : Pages \cup {0},
                             brk : 0..FB_MMAP_BASE, fb : BOOLEAN, parent : Slots \cup {0}]]
    BY <1>b, <1>2, Sizes DEF UNUSED
  <2>3. k \in [Slots -> [pc : {"user", "init_proc", "setup", "setup_kmap", "copyuvm",
                              "mappages", "allocvm", "forked", "activate", "freeold",
                              "exiting"},
                        call : {"none", "fork", "exec", "exec_stack", "sbrk"},
                        np : Slots \cup {0}, d : Pages \cup {0}, a : 0..FB_MMAP_BASE,
                        end : 0..KERNBASE, mem : Pages \cup {0}]]
    BY <1>b, Sizes DEF User
  <2>4. cr3 \in [Slots -> Pages] /\ tlb \in [Slots -> SUBSET Pages]
    BY <1>b, <1>2 DEF kpgdir
  <2>5. ptlock \in Slots \cup {0} /\ calls \in 0..MaxCalls
    BY <1>a, AddressSpaceAssumption
  <2>6. panic \in BOOLEAN
    BY <1>a
  <2>q. QED
    BY <1>7, <2>1, <2>2, <2>3, <2>4, <2>5, <2>6 DEF TypeOK
<1>9. /\ ptable[initproc].state = "RUNNING" /\ ptable[initproc].pgdir = 5
      /\ ptable[initproc].kstack = 4 /\ ptable[initproc].brk = 1 /\ ptable[initproc].fb = FALSE
      /\ \A s \in Slots \ {initproc} : ptable[s].state = "UNUSED" /\ ptable[s].kstack = 0
                                       /\ ptable[s].fb = FALSE
      /\ \A s \in Slots : k[s] = User /\ tlb[s] = {}
      /\ cr3[initproc] = 5 /\ \A s \in Slots \ {initproc} : cr3[s] = kpgdir
  BY <1>b, <1>0 DEF UNUSED
<1>10. Stacks = {<<"stack", <<initproc, 0>>, 4>>}
  <2>1. {t \in Slots : ptable[t].kstack # 0} = {initproc}
    BY <1>0, <1>9
  <2>q. QED
    BY <1>9, <2>1 DEF Stacks
<1>11. Hands = {} /\ CallDirs = {} /\ Dirs = {<<"slot", <<initproc, 0>>, 5>>}
  <2>1. Alive = {initproc}
    BY <1>0, <1>9 DEF Alive
  <2>2. \A s \in Slots : k[s].d = 0 /\ k[s].mem = 0
    BY <1>9, UserFields
  <2>3. Hands = {} /\ CallDirs = {}
    BY <2>2 DEF Hands, CallDirs, Alive
  <2>4. SlotDirs = {<<"slot", <<initproc, 0>>, 5>>}
    BY <1>9, <2>1 DEF SlotDirs
  <2>q. QED
    BY <2>3, <2>4 DEF Dirs
<1>12. KernelDir(mem)
  BY <1>6 DEF KernelDir, kpgdir, kd
<1>13. DirShape(mem, 5)
  BY <1>4, <1>5, <1>6 DEF DirShape
<1>14. \A va \in VAs : Pte(mem, 5, va) = IF va = 0 THEN 8 ELSE 0
  <2> SUFFICES ASSUME NEW va \in VAs PROVE Pte(mem, 5, va) = IF va = 0 THEN 8 ELSE 0
    OBVIOUS
  <2>1. PDX(va) \in UserPdes /\ PTX(va) \in Ptes /\ va \in Nat /\ va = NPTENTRIES * PDX(va) + PTX(va)
    BY TableOf, Split
  <2>2. PDX(0) = 0 /\ PTX(0) = 0
    <3>1. 0 = NPTENTRIES * PDX(0) + PTX(0) /\ PDX(0) \in Nat /\ PTX(0) \in Nat
      BY Split, Sizes DEF Ptes
    <3>2. NPTENTRIES * PDX(0) \in Nat
      BY <3>1, Sizes
    <3>3. PTX(0) = 0 /\ NPTENTRIES * PDX(0) = 0
      BY <3>1, <3>2
    <3>4. PDX(0) > 0 => NPTENTRIES * 0 + NPTENTRIES <= NPTENTRIES * PDX(0)
      BY <3>1, Times, Sizes
    <3>q. QED
      BY <3>1, <3>3, <3>4, Sizes
  <2>3. PDX(va) = 0 /\ PTX(va) = 0 => va = 0
    BY <2>1, <2>2, SplitUnique
  <2>4. CASE PDX(va) = 0
    <3>1. Pte(mem, 5, va) = it[PTX(va)]
      BY <1>4, <1>6, <2>4 DEF Pte
    <3>2. va = 0 <=> PTX(va) = 0
      BY <2>2, <2>3, <2>4
    <3>q. QED
      BY <1>5, <2>1, <3>1, <3>2
  <2>5. CASE PDX(va) # 0
    BY <1>4, <1>6, <2>1, <2>2, <2>5 DEF Pte
  <2>q. QED
    BY <2>4, <2>5
<1>15. 0 \in VAs /\ 8 \notin {0, DEV}
  BY <1>2, Sizes DEF VAs
<1>16. PagesOf(mem, 5) = {<<"page", <<5, 0>>, 8>>}
  <2>1. {w \in VAs : Pte(mem, 5, w) \notin {0, DEV}} = {0}
    BY <1>14, <1>15
  <2>q. QED
    BY <1>14, <1>15, <2>1 DEF PagesOf, VAs
<1>17. TablesOf(mem, 5) = {<<"table", <<5, 0>>, 7>>, <<"table", <<5, DirectPde>>, 6>>}
  <2>1. \A i \in Pdes : i \in UserPdes \/ i = DirectPde \/ i = HeapPde
    BY <1>12, KernelEntries
  <2>2. {j \in Pdes : mem[5][j] \notin {0, mem[kpgdir][j]}} = {0, DirectPde}
    BY <1>1, <1>3, <1>4, <1>6, <2>1 DEF kpgdir
  <2>3. mem[5][0] = 7 /\ mem[5][DirectPde] = 6
    BY <1>4, <1>6
  <2>q. QED
    BY <2>2, <2>3 DEF TablesOf
<1>18. Held(Stacks, Hands, Dirs, mem)
       = {<<"kernel", <<0, 0>>, 1>>, <<"kernel", <<0, 0>>, 2>>, <<"kernel", <<0, 0>>, 3>>,
          <<"stack", <<initproc, 0>>, 4>>, <<"slot", <<initproc, 0>>, 5>>,
          <<"table", <<5, 0>>, 7>>, <<"table", <<5, DirectPde>>, 6>>, <<"page", <<5, 0>>, 8>>}
  <2>1. <<"slot", <<initproc, 0>>, 5>>[3] = 5
    OBVIOUS
  <2>2. UNION {TablesOf(mem, d[3]) \cup PagesOf(mem, d[3]) : d \in Dirs} = TablesOf(mem, 5) \cup PagesOf(mem, 5)
    BY <1>11, <2>1
  <2>3. KernelPages = {1, 2, 3}
    BY DEF KernelPages
  <2>4. {<<"kernel", <<0, 0>>, pg>> : pg \in KernelPages}
        = {<<"kernel", <<0, 0>>, 1>>, <<"kernel", <<0, 0>>, 2>>, <<"kernel", <<0, 0>>, 3>>}
    BY <2>3
  <2>q. QED
    BY <1>10, <1>11, <1>16, <1>17, <2>2, <2>4 DEF Held
<1>19. Accounted(Held(Stacks, Hands, Dirs, mem), free)
  <2>1. Pages \ free = {1, 2, 3, 4, 5, 6, 7, 8}
    BY <1>a, <1>0 DEF Pages
  <2> DEFINE H == Held(Stacks, Hands, Dirs, mem)
  <2>2. \A h \in H : h[3] \in {1, 2, 3, 4, 5, 6, 7, 8}
    BY <1>18
  <2>3. \A pg \in {1, 2, 3, 4, 5, 6, 7, 8} : \E h \in H : h[3] = pg
    <3>1. /\ <<"kernel", <<0, 0>>, 1>> \in H /\ <<"kernel", <<0, 0>>, 1>>[3] = 1
          /\ <<"kernel", <<0, 0>>, 2>> \in H /\ <<"kernel", <<0, 0>>, 2>>[3] = 2
          /\ <<"kernel", <<0, 0>>, 3>> \in H /\ <<"kernel", <<0, 0>>, 3>>[3] = 3
          /\ <<"stack", <<initproc, 0>>, 4>> \in H /\ <<"stack", <<initproc, 0>>, 4>>[3] = 4
      BY <1>18
    <3>2. /\ <<"slot", <<initproc, 0>>, 5>> \in H /\ <<"slot", <<initproc, 0>>, 5>>[3] = 5
          /\ <<"table", <<5, DirectPde>>, 6>> \in H /\ <<"table", <<5, DirectPde>>, 6>>[3] = 6
          /\ <<"table", <<5, 0>>, 7>> \in H /\ <<"table", <<5, 0>>, 7>>[3] = 7
          /\ <<"page", <<5, 0>>, 8>> \in H /\ <<"page", <<5, 0>>, 8>>[3] = 8
      BY <1>18
    <3> HIDE DEF H
    <3>q. QED
      BY <3>1, <3>2
  <2>4. \A g, h \in H : g[3] = h[3] => g = h
    BY <1>18
  <2> HIDE DEF H
  <2>5. {h[3] : h \in H} = Pages \ free
    BY <2>1, <2>2, <2>3
  <2>q. QED
    BY <2>4, <2>5 DEF Accounted, H
<1>20. Sane(Stacks, Hands, Dirs, mem, free)
  <2>1. \A d \in Dirs : d[1] \in {"call", "slot"} /\ DirShape(mem, d[3])
    BY <1>11, <1>13
  <2>2. (\A x \in Stacks : x[1] = "stack") /\ (\A x \in Hands : x[1] = "hand")
    BY <1>10, <1>11
  <2>3. free \subseteq Pages
    BY <1>8 DEF TypeOK
  <2>q. QED
    BY <1>7, <1>12, <1>19, <2>1, <2>2, <2>3 DEF Sane
<1>21. ASSUME NEW s \in Slots PROVE SlotInv(s)
  <2>1. FrameAt(s)
    BY <1>a, <1>0, <1>9, UserFields DEF FrameAt, Frame
  <2>2. ForkAt(s)
    BY <1>9, UserFields DEF ForkAt
  <2>7. SlotAt(s)
    BY <1>9, UserFields DEF SlotAt, Alive
  <2>3. Cr3At(s)
    BY <1>a, <1>0, <1>9 DEF Cr3At
  <2>4. TlbAt(s)
    BY <1>9 DEF TlbAt
  <2>5. Layout(mem, 5, 1, FALSE)
    <3>1. \A va \in VAs : va < 1 <=> va = 0
      BY Sizes DEF VAs
    <3>q. QED
      BY <1>2, <1>14, <3>1 DEF Layout
  <2>6. LayoutAt(s)
    BY <1>9, <2>5, UserFields DEF LayoutAt, Top, Filling
  <2>q. QED
    BY <2>1, <2>2, <2>3, <2>4, <2>6, <2>7 DEF SlotInv
<1>22. NpUnique
  BY <1>9, UserFields DEF NpUnique
<1>q. QED
  BY <1>a, <1>8, <1>20, <1>21, <1>22 DEF IInv
-----------------------------------------------------------------------------
(* Who holds what, when one slot changes *)

StackOf(s) == <<"stack", <<s, 0>>, ptable[s].kstack>>
HandOf(s) == <<"hand", <<s, 0>>, k[s].mem>>

StacksKept == \A s \in Slots : ptable'[s].kstack = ptable[s].kstack
HandsKept == \A s \in Slots : k'[s].mem = k[s].mem
SlotDirsKept ==
    \A s \in Slots : (s \in Alive' <=> s \in Alive) /\ (s \in Alive => ptable'[s].pgdir = ptable[s].pgdir)
CallDirsKept == \A s \in Slots : k'[s].d = k[s].d

(* The stacks are the same when no kstack changes. *)
LEMMA SameStacks ==
    ASSUME StacksKept
    PROVE  Stacks' = Stacks
BY DEF StacksKept, Stacks

(* The pages in hand are the same when no call takes or maps one. *)
LEMMA SameHands ==
    ASSUME HandsKept
    PROVE  Hands' = Hands
BY DEF HandsKept, Hands

(* The directories are the same when no slot and no call gets or loses     *)
(* one.                                                                    *)
LEMMA SameDirs ==
    ASSUME SlotDirsKept, CallDirsKept
    PROVE  Dirs' = Dirs
<1>1. SlotDirs' = SlotDirs
  BY DEF SlotDirsKept, SlotDirs, Alive
<1>2. CallDirs' = CallDirs
  BY DEF SlotDirsKept, CallDirsKept, CallDirs, Alive
<1>q. QED
  BY <1>1, <1>2 DEF Dirs

(* alloc_proc adds one stack. *)
LEMMA GetsStack ==
    ASSUME NEW q \in Slots, ptable[q].kstack = 0, ptable'[q].kstack # 0,
           \A s \in Slots \ {q} : ptable'[s].kstack = ptable[s].kstack
    PROVE  Stacks' = Stacks \cup {StackOf(q)'}
<1>1. \A s \in Slots : ptable'[s].kstack # 0 <=> s = q \/ ptable[s].kstack # 0
  OBVIOUS
<1>q. QED
  BY <1>1 DEF Stacks, StackOf

(* Freeing kstack removes one. *)
LEMMA LosesStack ==
    ASSUME NEW q \in Slots, ptable'[q].kstack = 0,
           \A s \in Slots \ {q} : ptable'[s].kstack = ptable[s].kstack
    PROVE  Stacks' = Stacks \ {StackOf(q)}
BY DEF Stacks, StackOf

(* A call that allocates a page has one more in hand. *)
LEMMA GetsHand ==
    ASSUME NEW q \in Slots, k[q].mem = 0, k'[q].mem # 0,
           \A s \in Slots \ {q} : k'[s].mem = k[s].mem
    PROVE  Hands' = Hands \cup {HandOf(q)'}
<1>1. \A s \in Slots : k'[s].mem # 0 <=> s = q \/ k[s].mem # 0
  OBVIOUS
<1>q. QED
  BY <1>1 DEF Hands, HandOf

(* A call that maps or frees its page has none. *)
LEMMA LosesHand ==
    ASSUME NEW q \in Slots, k'[q].mem = 0,
           \A s \in Slots \ {q} : k'[s].mem = k[s].mem
    PROVE  Hands' = Hands \ {HandOf(q)}
BY DEF Hands, HandOf

(* A call that allocates a directory has one to fill. *)
LEMMA GetsCallDir ==
    ASSUME NEW q \in Alive, k[q].d = 0, k'[q].d # 0, SlotDirsKept,
           \A s \in Slots \ {q} : k'[s].d = k[s].d
    PROVE  Dirs' = Dirs \cup {CDir(q)'}
<1>1. SlotDirs' = SlotDirs
  BY DEF SlotDirsKept, SlotDirs, Alive
<1>2. CallDirs' = CallDirs \cup {CDir(q)'}
  BY DEF SlotDirsKept, CallDirs, Alive, CDir
<1>q. QED
  BY <1>1, <1>2 DEF Dirs

(* A call that frees or hands over its directory has none. *)
LEMMA LosesCallDir ==
    ASSUME NEW q \in Slots, k'[q].d = 0, SlotDirsKept,
           \A s \in Slots \ {q} : k'[s].d = k[s].d
    PROVE  Dirs' = Dirs \ {CDir(q)}
<1>1. SlotDirs' = SlotDirs
  BY DEF SlotDirsKept, SlotDirs, Alive
<1>2. CallDirs' = CallDirs \ {CDir(q)}
  BY DEF SlotDirsKept, CallDirs, Alive, CDir
<1>3. CDir(q) \notin SlotDirs
  BY DEF CDir, SlotDirs
<1>q. QED
  BY <1>1, <1>2, <1>3 DEF Dirs

(* Reaping a zombie takes the directory from its slot. *)
LEMMA LosesSlotDir ==
    ASSUME NEW q \in Slots, q \notin Alive', CallDirsKept, k[q].d = 0,
           \A s \in Slots \ {q} : (s \in Alive' <=> s \in Alive)
                                  /\ (s \in Alive => ptable'[s].pgdir = ptable[s].pgdir)
    PROVE  Dirs' = Dirs \ {SDir(q)}
<1>1. SlotDirs' = SlotDirs \ {SDir(q)}
  BY DEF SlotDirs, Alive, SDir
<1>2. CallDirs' = CallDirs
  BY DEF CallDirsKept, CallDirs, Alive
<1>3. SDir(q) \notin CallDirs
  BY DEF SDir, CallDirs
<1>q. QED
  BY <1>1, <1>2, <1>3 DEF Dirs
-----------------------------------------------------------------------------
(* Steps that leave memory alone *)

(* A step that changes neither memory nor its holders keeps the accounts. *)
LEMMA SaneSame ==
    ASSUME IInv, mem' = mem, free' = free, StacksKept, HandsKept, SlotDirsKept, CallDirsKept
    PROVE  Sane(Stacks', Hands', Dirs', mem', free')
BY SameStacks, SameHands, SameDirs DEF IInv

(* A step that leaves memory alone is seen by no directory. *)
LEMMA AllSeeSame ==
    ASSUME mem' = mem
    PROVE  \A s : SeesSame(s)
BY DEF SeesSame, Agree

(* What a process maps below the framebuffer is what it maps below brk. *)
LEMMA MappedBelow ==
    ASSUME NEW m, NEW d, NEW fb, NEW top \in Nat, top <= FB_MMAP_BASE, Layout(m, d, top, fb)
    PROVE  /\ Mapped(m, d, 0, FB_MMAP_BASE) = Mapped(m, d, 0, top)
           /\ Mapped(m, d, 0, top) \subseteq Pages
<1>1. \A va \in 0..(FB_MMAP_BASE - 1) : va \in VAs /\ va \in Nat /\ va \notin FbRange
  BY Sizes DEF VAs, FbRange
<1>2. \A va \in 0..(FB_MMAP_BASE - 1) : IF va \in 0..(top - 1) THEN Pte(m, d, va) \in Pages
                                                          ELSE Pte(m, d, va) = 0
  BY <1>1, Sizes DEF Layout
<1>3. 0..(top - 1) \subseteq 0..(FB_MMAP_BASE - 1)
  BY Sizes
<1>4. Mapped(m, d, 0, FB_MMAP_BASE) \subseteq Mapped(m, d, 0, top)
  BY <1>2 DEF Mapped
<1>5. Mapped(m, d, 0, top) \subseteq Mapped(m, d, 0, FB_MMAP_BASE)
  BY <1>3 DEF Mapped
<1>6. Mapped(m, d, 0, top) \subseteq Pages
  BY <1>2, <1>3 DEF Mapped
<1>q. QED
  BY <1>4, <1>5, <1>6

(* A RUNNING process, in particular one that makes a system call. *)
LEMMA RunningFacts ==
    ASSUME IInv, NEW p \in Slots, ptable[p].state = "RUNNING"
    PROVE  /\ p \in Alive /\ SDir(p) \in Dirs /\ SDir(p)[3] = ptable[p].pgdir
           /\ ptable[p].pgdir # 0 /\ ptable[p].kstack # 0 /\ ptlock # p
           /\ Frame(k[p], ptable[p].brk)
           /\ Layout(mem, ptable[p].pgdir, Top(p), ptable[p].fb)
           /\ ptable[p].brk \in Nat /\ ptable[p].brk <= FB_MMAP_BASE
           /\ \A s \in Slots : k[s].call = "fork" => k[s].np # p
<1>1. p \in Alive
  BY DEF Alive
<1>2. FrameAt(p) /\ SlotAt(p) /\ LayoutAt(p) /\ TypeOK /\ \A s \in Slots : ForkAt(s)
  BY DEF IInv, SlotInv
<1>3. ptlock # p
  BY <1>2 DEF FrameAt
<1>4. \A s \in Slots : k[s].call = "fork" => k[s].np # p
  BY <1>2 DEF ForkAt
<1>5. ptable[p].brk \in Nat /\ ptable[p].brk <= FB_MMAP_BASE
  BY <1>2, Types, Sizes
<1>q. QED
  BY <1>1, <1>2, <1>3, <1>4, <1>5, OwnDirs DEF FrameAt, SlotAt, LayoutAt

(* What is true of a process that enters a system call, and what the       *)
(* entry changes.                                                          *)
LEMMA EnterFacts ==
    ASSUME IInv, NEW p \in Slots, NEW f, Enter(p, f)
    PROVE  /\ ptable[p].state = "RUNNING" /\ k[p] = User /\ cr3[p] = ptable[p].pgdir
           /\ Layout(mem, ptable[p].pgdir, ptable[p].brk, ptable[p].fb)
           /\ tlb' \in [Slots -> SUBSET Pages]
           /\ tlb'[p] \subseteq Mapped(mem, ptable[p].pgdir, 0, ptable[p].brk)
           /\ k'[p] = f
           /\ \A s \in Slots \ {p} : tlb'[s] = tlb[s] /\ k'[s] = k[s]
<1>1. /\ ptable[p].state = "RUNNING" /\ k[p].pc = "user"
      /\ tlb' = [tlb EXCEPT ![p] = @ \cup Mapped(mem, cr3[p], 0, FB_MMAP_BASE)]
      /\ k' = [k EXCEPT ![p] = f]
  BY DEF Enter, At
<1>2. /\ TypeOK /\ Cr3At(p) /\ TlbAt(p) /\ tlb \in [Slots -> SUBSET Pages]
      /\ DOMAIN k = Slots
  BY DEF IInv, SlotInv, TypeOK
<1>3. k[p] = User /\ Top(p) = ptable[p].brk
  BY <1>1, RunningFacts, UserFields DEF Frame, Top
<1>4. cr3[p] = ptable[p].pgdir /\ tlb[p] \subseteq Mapped(mem, ptable[p].pgdir, 0, ptable[p].brk)
  BY <1>1, <1>2, <1>3, UserFields DEF Cr3At, TlbAt
<1>5. Layout(mem, ptable[p].pgdir, ptable[p].brk, ptable[p].fb)
  BY <1>1, <1>3, RunningFacts
<1>6. ptable[p].brk \in Nat /\ ptable[p].brk <= FB_MMAP_BASE
  BY <1>1, RunningFacts, Sizes
<1>7. /\ Mapped(mem, ptable[p].pgdir, 0, FB_MMAP_BASE) = Mapped(mem, ptable[p].pgdir, 0, ptable[p].brk)
      /\ Mapped(mem, ptable[p].pgdir, 0, ptable[p].brk) \subseteq Pages
  BY <1>5, <1>6, MappedBelow
<1>8. tlb'[p] = tlb[p] \cup Mapped(mem, ptable[p].pgdir, 0, FB_MMAP_BASE)
  BY <1>1, <1>2, <1>4
<1>9. tlb'[p] \subseteq Mapped(mem, ptable[p].pgdir, 0, ptable[p].brk)
  BY <1>4, <1>7, <1>8
<1>10. tlb' \in [Slots -> SUBSET Pages]
  BY <1>1, <1>2, <1>7, <1>8, <1>9
<1>q. QED
  BY <1>1, <1>2, <1>3, <1>4, <1>5, <1>9, <1>10

Procs == [state : {"UNUSED", "EMBRYO", "RUNNING", "ZOMBIE"},
          pgdir : Pages \cup {0}, kstack : Pages \cup {0},
          brk : 0..FB_MMAP_BASE, fb : BOOLEAN, parent : Slots \cup {0}]
Frames == [pc : {"user", "init_proc", "setup", "setup_kmap", "copyuvm",
                 "mappages", "allocvm", "forked", "activate", "freeold", "exiting"},
           call : {"none", "fork", "exec", "exec_stack", "sbrk"},
           np : Slots \cup {0}, d : Pages \cup {0}, a : 0..FB_MMAP_BASE,
           end : 0..KERNBASE, mem : Pages \cup {0}]

(* The type invariant, variable by variable. *)
LEMMA TypeParts ==
    ASSUME IInv
    PROVE  /\ TypeOK /\ ptable \in [Slots -> Procs] /\ k \in [Slots -> Frames]
           /\ cr3 \in [Slots -> Pages] /\ tlb \in [Slots -> SUBSET Pages]
           /\ ptlock \in Slots \cup {0} /\ calls \in 0..MaxCalls
           /\ free \subseteq Pages /\ mem \in [Pages -> Contents]
BY DEF IInv, TypeOK, Procs, Frames

(* The type invariant after a step, from the accounts and the types of     *)
(* what the step assigns.                                                  *)
LEMMA TypeStep ==
    ASSUME Sane(Stacks', Hands', Dirs', mem', free'),
           ptable' \in [Slots -> Procs], k' \in [Slots -> Frames],
           cr3' \in [Slots -> Pages], tlb' \in [Slots -> SUBSET Pages],
           ptlock' \in Slots \cup {0}, calls' \in 0..MaxCalls, panic' = FALSE
    PROVE  TypeOK'
<1>1. free' \subseteq Pages /\ mem' \in [Pages -> Contents]
  BY DEF Sane
<1>2. panic' \in BOOLEAN
  OBVIOUS
<1>q. QED
  BY <1>1, <1>2 DEF TypeOK, Procs, Frames

(* No call at all is a frame. *)
LEMMA UserFrame == User \in Frames
BY Sizes DEF User, Frames

(* Frames that only get a new pc, or a directory as well. *)
Goes(f, pc) == [f EXCEPT !.pc = pc]
GetsDir(f, d, pc) == [f EXCEPT !.d = d, !.pc = pc]

(* A frame that only moves to the fork's second half. *)
LEMMA GoesFields ==
    ASSUME NEW f \in Frames, NEW g, g = Goes(f, "forked")
    PROVE  /\ g \in Frames /\ g.pc = "forked" /\ g.call = f.call /\ g.np = f.np /\ g.d = f.d
           /\ g.mem = f.mem /\ g.a = f.a /\ g.end = f.end
BY DEF Frames, Goes

(* A frame that gets a new directory. *)
LEMMA GetsDirFields ==
    ASSUME NEW f \in Frames, NEW d \in Pages, NEW pc \in {"setup_kmap", "activate"},
           NEW g, g = GetsDir(f, d, pc)
    PROVE  /\ g \in Frames /\ g.pc = pc /\ g.call = f.call /\ g.np = f.np /\ g.d = d
           /\ g.mem = f.mem /\ g.a = f.a /\ g.end = f.end
BY DEF Frames, GetsDir

(* A slot that is not in use, or being forked. *)
LEMMA IdleSlot ==
    ASSUME IInv, NEW q \in Slots, ptable[q].state \in {"UNUSED", "EMBRYO"}
    PROVE  k[q] = User /\ cr3[q] = kpgdir /\ tlb[q] = {} /\ ptlock # q
<1>1. FrameAt(q) /\ Cr3At(q)
  BY DEF IInv, SlotInv
<1>q. QED
  BY <1>1 DEF FrameAt, Frame, Cr3At

(* A slot that is not in use, or being forked, meets its part of the       *)
(* invariant.                                                              *)
LEMMA IdleOK ==
    ASSUME NEW q \in Slots, ptable'[q].state \in {"UNUSED", "EMBRYO"},
           ptable'[q].state = "UNUSED" => ptable'[q].kstack = 0,
           k'[q] = User, ptlock' # q, cr3'[q] = kpgdir, tlb'[q] = {}
    PROVE  SlotInv(q)'
<1>1. FrameAt(q)'
  BY UserFields DEF FrameAt, Frame
<1>2. ForkAt(q)' /\ Cr3At(q)' /\ TlbAt(q)'
  BY UserFields DEF ForkAt, Cr3At, TlbAt
<1>3. SlotAt(q)' /\ LayoutAt(q)'
  BY UserFields DEF SlotAt, LayoutAt, Filling, Alive
<1>q. QED
  BY <1>1, <1>2, <1>3 DEF SlotInv

(* fork() up to alloc_proc, which takes a slot. *)
LEMMA ForkOK ==
    ASSUME IInv, NEW p \in Slots, Fork(p)
    PROVE  StepGood
<1> DEFINE frame(c) == [User EXCEPT !.pc = "init_proc", !.call = "fork", !.np = c]
<1>1. PICK np \in Slots :
         /\ ptable[np].state = "UNUSED" /\ Enter(p, frame(np))
         /\ ptable' = [ptable EXCEPT ![np].state = "EMBRYO"]
  <2> DEFINE unused == {s \in Slots : ptable[s].state = "UNUSED"}
             np == CHOOSE s \in unused : \A t \in unused : s <= t
  <2>1. unused # {} /\ Enter(p, frame(np)) /\ ptable' = [ptable EXCEPT ![np].state = "EMBRYO"]
    BY DEF Fork, Call
  <2>2. unused \in SUBSET Nat
    BY DEF Slots
  <2>3. \E x \in unused : \A y \in unused : x <= y
    BY <2>1, <2>2, SmallestExists
  <2>4. np \in unused
    BY <2>3
  <2>5. np \in Slots /\ ptable[np].state = "UNUSED"
    BY <2>4
  <2> HIDE DEF np, unused, frame
  <2>q. QED
    BY <2>1, <2>5
<1>2. /\ ptlock = 0 /\ calls < MaxCalls /\ calls' = calls + 1
      /\ free' = free /\ mem' = mem /\ ptlock' = ptlock /\ cr3' = cr3 /\ panic' = panic
  BY DEF Fork, Call
<1> DEFINE f == frame(np)
<1>3. /\ f.pc = "init_proc" /\ f.call = "fork" /\ f.np = np /\ f.d = 0 /\ f.mem = 0
      /\ f.a = 0 /\ f.end = 0 /\ f \in Frames
  BY UserFrame DEF User, Frames
<1> HIDE DEF f
<1>a. Enter(p, f)
  BY <1>1 DEF f
<1> HIDE DEF frame
<1>4. /\ ptable[p].state = "RUNNING" /\ k[p] = User /\ cr3[p] = ptable[p].pgdir
      /\ Layout(mem, ptable[p].pgdir, ptable[p].brk, ptable[p].fb)
      /\ tlb' \in [Slots -> SUBSET Pages]
      /\ tlb'[p] \subseteq Mapped(mem, ptable[p].pgdir, 0, ptable[p].brk)
      /\ k'[p] = f /\ \A s \in Slots \ {p} : tlb'[s] = tlb[s] /\ k'[s] = k[s]
  BY <1>a, EnterFacts
<1>5. /\ \A s \in Slots \ {np} : ptable'[s] = ptable[s]
      /\ ptable'[np] = [ptable[np] EXCEPT !.state = "EMBRYO"]
      /\ ptable'[np].state = "EMBRYO" /\ ptable'[np].kstack = ptable[np].kstack
      /\ ptable' \in [Slots -> Procs] /\ k' \in [Slots -> Frames]
  <2>1. ptable \in [Slots -> Procs] /\ k \in [Slots -> Frames] /\ k' = [k EXCEPT ![p] = f]
    BY <1>a, TypeParts DEF Enter
  <2>q. QED
    BY <2>1, <1>1, <1>2, <1>3 DEF Procs
<1>6. np # p /\ ptable[np].kstack = 0
  <2>1. SlotAt(np)
    BY <1>1, <1>2 DEF IInv, SlotInv
  <2>q. QED
    BY <1>1, <1>2, <1>4, <2>1 DEF SlotAt
<1>7. Sane(Stacks', Hands', Dirs', mem', free')
  <2>1. StacksKept
    BY <1>5 DEF StacksKept
  <2>2. HandsKept /\ CallDirsKept
    BY <1>3, <1>4, UserFields DEF HandsKept, CallDirsKept
  <2>3. SlotDirsKept
    BY <1>1, <1>2, <1>5 DEF SlotDirsKept, Alive
  <2>q. QED
    BY <1>1, <1>2, <2>1, <2>2, <2>3, SaneSame
<1>8. panic' = FALSE
  BY <1>1, <1>2 DEF IInv, TypeOK
<1>9. TypeOK'
  <2>1. calls' \in 0..MaxCalls
    BY <1>1, <1>2, TypeParts, AddressSpaceAssumption
  <2>2. cr3' \in [Slots -> Pages] /\ ptlock' \in Slots \cup {0}
    BY <1>1, <1>2, TypeParts
  <2>q. QED
    BY <1>4, <1>5, <1>7, <1>8, <2>1, <2>2, TypeStep
<1>10. \A s \in Slots : k[s].call = "fork" => k[s].np \notin {p, np}
  BY <1>1, <1>2, <1>4 DEF IInv, SlotInv, ForkAt
<1>11. \A s \in Slots \ {p, np} : Kept(s) /\ SeesSame(s)
  BY <1>1, <1>2, <1>4, <1>5, AllSeeSame DEF Kept
<1>12. NpUnique'
  BY <1>3, <1>4, <1>10 DEF IInv, NpUnique
<1>13. SlotInv(np)'
  <2>1. k[np] = User /\ cr3[np] = kpgdir /\ tlb[np] = {} /\ ptlock # np
    BY <1>1, <1>2, IdleSlot
  <2>2. k'[np] = User /\ cr3'[np] = kpgdir /\ tlb'[np] = {} /\ ptlock' # np
    BY <1>1, <1>2, <1>4, <1>6, <2>1
  <2>q. QED
    BY <1>1, <1>2, <1>5, <2>2, IdleOK
<1>14. SlotInv(p)'
  <2>1. ptable'[p] = ptable[p] /\ ptable[p].pgdir # 0 /\ ptable[p].kstack # 0 /\ ptlock' # p
    BY <1>1, <1>2, <1>4, <1>5, <1>6, RunningFacts
  <2>2. FrameAt(p)'
    BY <1>3, <1>4, <2>1 DEF FrameAt, Frame
  <2>3. ForkAt(p)'
    BY <1>1, <1>2, <1>3, <1>4, <1>5, <1>6 DEF ForkAt
  <2>4. SlotAt(p)' /\ Cr3At(p)'
    BY <1>1, <1>2, <1>3, <1>4, <2>1 DEF SlotAt, Cr3At, Alive
  <2>5. LayoutAt(p)' /\ TlbAt(p)'
    BY <1>1, <1>2, <1>3, <1>4, <2>1 DEF LayoutAt, TlbAt, Top, Filling
  <2>q. QED
    BY <2>2, <2>3, <2>4, <2>5 DEF SlotInv
<1>15. FbKept(p) /\ FbKept(np)
  <2>1. ptable'[p] = ptable[p] /\ Agree(mem, mem', ptable[p].pgdir)
    BY <1>2, <1>5, <1>6 DEF Agree
  <2>2. ptable'[np].state # "RUNNING"
    BY <1>5
  <2>q. QED
    BY <1>4, <2>1, <2>2, SameFb
<1>q. QED
  BY <1>1, <1>2, <1>7, <1>8, <1>9, <1>10, <1>11, <1>12, <1>13, <1>14, <1>15, StepOK

(* exec and a growing sbrk begin. *)
LEMMA EntersOK ==
    ASSUME IInv, NEW p \in Slots, NEW f \in Frames, Enter(p, f), Frame(f, ptable[p].brk),
           \/ f.call = "exec" /\ f.pc = "setup"
           \/ f.call = "sbrk" /\ f.pc = "allocvm" /\ f.a = ptable[p].brk /\ ptable[p].brk <= f.end,
           calls' \in 0..MaxCalls, UNCHANGED <<free, mem, ptable, ptlock, cr3, panic>>
    PROVE  StepGood
<1>1. free' = free /\ mem' = mem /\ ptable' = ptable /\ ptlock' = ptlock /\ cr3' = cr3 /\ panic' = panic
  OBVIOUS
<1>2. f.d = 0 /\ f.mem = 0
  BY DEF Frame
<1>4. /\ ptable[p].state = "RUNNING" /\ k[p] = User /\ cr3[p] = ptable[p].pgdir
      /\ Layout(mem, ptable[p].pgdir, ptable[p].brk, ptable[p].fb)
      /\ tlb' \in [Slots -> SUBSET Pages]
      /\ tlb'[p] \subseteq Mapped(mem, ptable[p].pgdir, 0, ptable[p].brk)
      /\ k'[p] = f /\ \A s \in Slots \ {p} : tlb'[s] = tlb[s] /\ k'[s] = k[s]
  BY EnterFacts
<1>5. /\ ptable[p].pgdir # 0 /\ ptable[p].kstack # 0 /\ ptlock # p
      /\ ptable[p].brk \in Nat /\ f.end \in Nat
      /\ \A s \in Slots : k[s].call = "fork" => k[s].np # p
  BY <1>4, RunningFacts, Sizes DEF Frames
<1>6. Sane(Stacks', Hands', Dirs', mem', free')
  <2>1. StacksKept /\ SlotDirsKept
    BY <1>1 DEF StacksKept, SlotDirsKept, Alive
  <2>2. HandsKept /\ CallDirsKept
    BY <1>2, <1>4, UserFields DEF HandsKept, CallDirsKept
  <2>q. QED
    BY <1>1, <2>1, <2>2, SaneSame
<1>7. panic' = FALSE
  BY <1>1 DEF IInv, TypeOK
<1>8. TypeOK'
  <2>1. k' = [k EXCEPT ![p] = f]
    BY DEF Enter
  <2>2. k' \in [Slots -> Frames]
    BY <2>1, TypeParts
  <2>q. QED
    BY <1>1, <1>4, <1>6, <1>7, <2>2, TypeParts, TypeStep
<1>9. \A s \in Slots \ {p} : Kept(s) /\ SeesSame(s)
  BY <1>1, <1>4, AllSeeSame DEF Kept
<1>10. NpUnique'
  BY <1>4 DEF IInv, NpUnique
<1>11. SlotInv(p)'
  <2>1. FrameAt(p)'
    BY <1>1, <1>4, <1>5 DEF FrameAt
  <2>2. ForkAt(p)' /\ SlotAt(p)' /\ Cr3At(p)'
    BY <1>1, <1>4, <1>5 DEF ForkAt, SlotAt, Cr3At, Alive
  <2>3. LayoutAt(p)' /\ TlbAt(p)'
    BY <1>1, <1>4, <1>5 DEF LayoutAt, TlbAt, Top, Filling
  <2>q. QED
    BY <2>1, <2>2, <2>3 DEF SlotInv
<1>12. FbKept(p)
  BY <1>1 DEF FbKept, FbMissing
<1>q. QED
  BY <1>5, <1>6, <1>7, <1>8, <1>9, <1>10, <1>11, <1>12, StepOne

(* exec() begins. *)
LEMMA ExecOK ==
    ASSUME IInv, NEW p \in Slots, Exec(p)
    PROVE  StepGood
<1>1. PICK sz \in Images : Call(p, [User EXCEPT !.pc = "setup", !.call = "exec", !.end = sz])
  BY Zenon DEF Exec
<1> DEFINE f == [User EXCEPT !.pc = "setup", !.call = "exec", !.end = sz]
<1>2. /\ f.pc = "setup" /\ f.call = "exec" /\ f.end = sz /\ f.a = 0 /\ f.d = 0 /\ f.mem = 0
      /\ f.np = 0 /\ sz \in Nat /\ sz + 2 < KERNBASE /\ f \in Frames
  <2>1. sz \in 1..(KERNBASE - 3)
    BY AddressSpaceAssumption DEF KERNBASE
  <2>2. sz \in Nat /\ sz + 2 < KERNBASE /\ sz \in 0..KERNBASE
    BY <2>1, Sizes
  <2>3. /\ f.pc = "setup" /\ f.call = "exec" /\ f.end = sz /\ f.a = 0 /\ f.d = 0 /\ f.mem = 0
        /\ f.np = 0 
    BY DEF User
  <2>4. f \in Frames
    BY <2>2, UserFrame DEF Frames
  <2> HIDE DEF f
  <2>q. QED
    BY <2>2, <2>3, <2>4
<1> HIDE DEF f
<1>3. Enter(p, f) /\ calls' \in 0..MaxCalls
  BY <1>1, TypeParts, AddressSpaceAssumption DEF Call, f
<1>4. Frame(f, ptable[p].brk)
  BY <1>2 DEF Frame
<1>q. QED
  BY <1>2, <1>3, <1>4, EntersOK DEF Exec

(* sbrk() with a positive argument begins. *)
LEMMA SbrkGrowOK ==
    ASSUME IInv, NEW p \in Slots, NEW n \in Deltas, SbrkGrow(p, n)
    PROVE  StepGood
<1> DEFINE f == [User EXCEPT !.pc = "allocvm", !.call = "sbrk",
                             !.a = ptable[p].brk, !.end = ptable[p].brk + n]
<1>1. Call(p, f) /\ ptable[p].brk + n < KERNBASE /\ ptable[p].brk \in Nat /\ n \in Nat \ {0}
  BY TypeParts, Types, AddressSpaceAssumption DEF SbrkGrow
<1>2. /\ f.pc = "allocvm" /\ f.call = "sbrk" /\ f.a = ptable[p].brk /\ f.end = ptable[p].brk + n
      /\ f.d = 0 /\ f.mem = 0 /\ f \in Frames
  <2>1. ptable[p].brk \in 0..FB_MMAP_BASE /\ ptable[p].brk + n \in 0..KERNBASE
    BY <1>1, TypeParts, Types, Sizes DEF SbrkGrow, Call, Enter, At
  <2>q. QED
    BY <2>1, UserFrame DEF User, Frames
<1> HIDE DEF f
<1>3. Enter(p, f) /\ calls' \in 0..MaxCalls
  BY <1>1, TypeParts, AddressSpaceAssumption DEF Call
<1>4. Frame(f, ptable[p].brk) /\ ptable[p].brk <= f.end
  BY <1>1, <1>2 DEF Frame
<1>q. QED
  BY <1>2, <1>3, <1>4, EntersOK DEF SbrkGrow

(* A step of p that allocates and frees nothing. *)
LEMMA QuietOK ==
    ASSUME IInv, NEW p \in Slots, mem' = mem, free' = free, panic' = panic, calls' = calls,
           ptable' \in [Slots -> Procs], k' \in [Slots -> Frames], cr3' \in [Slots -> Pages],
           tlb' \in [Slots -> SUBSET Pages], ptlock' \in Slots \cup {0},
           \A s \in Slots \ {p} : Kept(s),
           p \in Alive, p \in Alive', ptable'[p].pgdir = ptable[p].pgdir,
           ptable'[p].fb = ptable[p].fb, ptable'[p].state = "RUNNING" => ptable[p].state = "RUNNING",
           ptable'[p].kstack = ptable[p].kstack, k'[p].d = k[p].d, k'[p].mem = k[p].mem,
           k'[p].call = "fork" => k[p].call = "fork" /\ k'[p].np = k[p].np,
           SlotInv(p)'
    PROVE  StepGood
<1>1. Sane(Stacks', Hands', Dirs', mem', free')
  <2>1. StacksKept /\ SlotDirsKept /\ HandsKept /\ CallDirsKept
    BY DEF StacksKept, SlotDirsKept, HandsKept, CallDirsKept, Kept, Alive
  <2>q. QED
    BY <2>1, SaneSame
<1>2. panic' = FALSE
  BY DEF IInv, TypeOK
<1>3. TypeOK'
  BY <1>1, <1>2, TypeParts, TypeStep
<1>4. NpUnique'
  <2>1. \A s \in Slots : k'[s].call = "fork" => k[s].call = "fork" /\ k'[s].np = k[s].np
    BY DEF Kept
  <2>q. QED
    BY <2>1 DEF IInv, NpUnique
<1>5. \A s \in Slots \ {p} : k[s].call = "fork" => k[s].np # p
  <2>1. ptable[p].state # "EMBRYO"
    BY DEF Alive
  <2>q. QED
    BY <2>1 DEF IInv, SlotInv, ForkAt
<1>6. \A s \in Slots \ {p} : Kept(s) /\ SeesSame(s)
  BY AllSeeSame
<1>7. FbKept(p)
  BY DEF FbKept, FbMissing
<1>q. QED
  BY <1>1, <1>2, <1>3, <1>4, <1>5, <1>6, <1>7, StepOne

(* Loading cr3 flushes the TLB of that CPU and touches no other. *)
LEMMA Lcr3Facts ==
    ASSUME IInv, NEW p \in Slots, NEW d \in Pages, Lcr3(p, d)
    PROVE  /\ cr3' \in [Slots -> Pages] /\ tlb' \in [Slots -> SUBSET Pages]
           /\ cr3'[p] = d /\ tlb'[p] = {}
           /\ \A s \in Slots \ {p} : cr3'[s] = cr3[s] /\ tlb'[s] = tlb[s]
<1>1. cr3 \in [Slots -> Pages] /\ tlb \in [Slots -> SUBSET Pages]
  BY TypeParts
<1>q. QED
  BY <1>1 DEF Lcr3

(* A process that is alive has a directory and a stack. *)
LEMMA PgdirIsPage ==
    ASSUME IInv, NEW p \in Alive
    PROVE  p \in Slots /\ ptable[p].pgdir \in Pages /\ ptable[p].kstack \in Pages
<1>1. p \in Slots /\ SlotAt(p)
  BY DEF Alive, IInv, SlotInv
<1>q. QED
  BY <1>1, TypeParts, Types DEF SlotAt

(* exec() loads the new directory. *)
LEMMA ExecActivateOK ==
    ASSUME IInv, NEW p \in Slots, ExecActivate(p)
    PROVE  StepGood
<1>1. /\ ptable[p].state = "RUNNING" /\ k[p].pc = "activate" /\ Lcr3(p, ptable[p].pgdir)
      /\ k' = [k EXCEPT ![p].pc = "freeold"]
      /\ free' = free /\ mem' = mem /\ ptable' = ptable /\ ptlock' = ptlock /\ panic' = panic /\ calls' = calls
  BY DEF ExecActivate, At, Goto
<1>2. p \in Alive /\ p \in Alive' /\ ptable[p].pgdir \in Pages
  BY <1>1, PgdirIsPage DEF Alive
<1>3. /\ cr3' \in [Slots -> Pages] /\ tlb' \in [Slots -> SUBSET Pages]
      /\ cr3'[p] = ptable[p].pgdir /\ tlb'[p] = {}
      /\ \A s \in Slots \ {p} : cr3'[s] = cr3[s] /\ tlb'[s] = tlb[s]
  BY <1>1, <1>2, Lcr3Facts
<1>4. /\ k' \in [Slots -> Frames] /\ \A s \in Slots \ {p} : k'[s] = k[s]
      /\ k'[p].pc = "freeold" /\ k'[p].call = k[p].call /\ k'[p].np = k[p].np /\ k'[p].d = k[p].d
      /\ k'[p].mem = k[p].mem /\ k'[p].a = k[p].a /\ k'[p].end = k[p].end
  BY <1>1, TypeParts DEF Frames
<1>5. \A s \in Slots \ {p} : Kept(s)
  BY <1>1, <1>3, <1>4 DEF Kept
<1>6. SlotInv(p)'
  <2>1. FrameAt(p) /\ SlotAt(p) /\ LayoutAt(p)
    BY DEF IInv, SlotInv
  <2>2. FrameAt(p)'
    BY <1>1, <1>4, <2>1 DEF FrameAt, Frame
  <2>3. k[p].call = "exec_stack"
    BY <1>1, <2>1 DEF FrameAt, Frame
  <2>4. ForkAt(p)' /\ SlotAt(p)' /\ Cr3At(p)' /\ TlbAt(p)'
    BY <1>1, <1>2, <1>3, <1>4, <2>1, <2>3, RunningFacts DEF ForkAt, SlotAt, Cr3At, TlbAt
  <2>5. LayoutAt(p)'
    BY <1>1, <1>4, <2>1, <2>3 DEF LayoutAt, Top, Filling
  <2>q. QED
    BY <2>2, <2>4, <2>5 DEF SlotInv
<1>q. QED
  BY <1>1, <1>2, <1>3, <1>4, <1>5, <1>6, TypeParts, QuietOK

(* A process is switched out and back: its directory is loaded again. *)
LEMMA PreemptOK ==
    ASSUME IInv, NEW p \in Slots, Preempt(p)
    PROVE  StepGood
<1>1. /\ ptable[p].state = "RUNNING" /\ Lcr3(p, ptable[p].pgdir) /\ k' = k
      /\ free' = free /\ mem' = mem /\ ptable' = ptable /\ ptlock' = ptlock /\ panic' = panic /\ calls' = calls
  BY DEF Preempt
<1>2. p \in Alive /\ p \in Alive' /\ ptable[p].pgdir \in Pages
  BY <1>1, PgdirIsPage DEF Alive
<1>3. /\ cr3' \in [Slots -> Pages] /\ tlb' \in [Slots -> SUBSET Pages]
      /\ cr3'[p] = ptable[p].pgdir /\ tlb'[p] = {}
      /\ \A s \in Slots \ {p} : cr3'[s] = cr3[s] /\ tlb'[s] = tlb[s]
  BY <1>1, <1>2, Lcr3Facts
<1>5. \A s \in Slots \ {p} : Kept(s)
  BY <1>1, <1>3 DEF Kept
<1>6. SlotInv(p)'
  <2>1. FrameAt(p) /\ SlotAt(p) /\ LayoutAt(p) /\ ForkAt(p)
    BY DEF IInv, SlotInv
  <2>2. FrameAt(p)' /\ SlotAt(p)' /\ ForkAt(p)'
    BY <1>1, <1>2, <2>1 DEF FrameAt, SlotAt, ForkAt
  <2>4. Cr3At(p)' /\ TlbAt(p)'
    BY <1>1, <1>3, RunningFacts DEF Cr3At, TlbAt
  <2>5. LayoutAt(p)'
    BY <1>1, <2>1 DEF LayoutAt, Top, Filling
  <2>q. QED
    BY <2>2, <2>4, <2>5 DEF SlotInv
<1>q. QED
  BY <1>1, <1>2, <1>3, <1>5, <1>6, TypeParts, QuietOK

(* sbrk() sets brk and flushes the TLB. *)
LEMMA SbrkDoneOK ==
    ASSUME IInv, NEW p \in Slots, SbrkDone(p)
    PROVE  StepGood
<1>1. /\ ptable[p].state = "RUNNING" /\ k[p].pc = "allocvm" /\ k[p].call = "sbrk" /\ k[p].a = k[p].end
      /\ Lcr3(p, ptable[p].pgdir) /\ ptable' = [ptable EXCEPT ![p].brk = k[p].end]
      /\ k' = [k EXCEPT ![p] = User]
      /\ free' = free /\ mem' = mem /\ ptlock' = ptlock /\ panic' = panic /\ calls' = calls
  BY DEF SbrkDone, At, Return
<1>2. /\ ptable' \in [Slots -> Procs] /\ \A s \in Slots \ {p} : ptable'[s] = ptable[s]
      /\ ptable'[p].state = ptable[p].state /\ ptable'[p].brk = k[p].end
      /\ ptable'[p].pgdir = ptable[p].pgdir /\ ptable'[p].kstack = ptable[p].kstack
      /\ ptable'[p].fb = ptable[p].fb
  BY <1>1, TypeParts, Types DEF Procs
<1>3. p \in Alive /\ p \in Alive' /\ ptable[p].pgdir \in Pages
  BY <1>1, <1>2, PgdirIsPage DEF Alive
<1>4. /\ cr3' \in [Slots -> Pages] /\ tlb' \in [Slots -> SUBSET Pages]
      /\ cr3'[p] = ptable[p].pgdir /\ tlb'[p] = {}
      /\ \A s \in Slots \ {p} : cr3'[s] = cr3[s] /\ tlb'[s] = tlb[s]
  BY <1>1, <1>3, Lcr3Facts
<1>5. k' \in [Slots -> Frames] /\ k'[p] = User /\ \A s \in Slots \ {p} : k'[s] = k[s]
  BY <1>1, TypeParts, UserFrame
<1>6. \A s \in Slots \ {p} : Kept(s)
  BY <1>1, <1>2, <1>4, <1>5 DEF Kept
<1>7. FrameAt(p) /\ SlotAt(p) /\ k[p].d = 0 /\ k[p].mem = 0 /\ ptlock # p
  <2>1. FrameAt(p) /\ SlotAt(p)
    BY DEF IInv, SlotInv
  <2>q. QED
    BY <1>1, <2>1 DEF FrameAt, Frame
<1>8. SlotInv(p)'
  <2>1. FrameAt(p)' /\ SlotAt(p)'
    BY <1>1, <1>2, <1>3, <1>5, <1>7, UserFields DEF FrameAt, Frame, SlotAt
  <2>2. Cr3At(p)' /\ TlbAt(p)' /\ ForkAt(p)'
    BY <1>1, <1>2, <1>4, <1>5, <1>7, UserFields DEF Cr3At, TlbAt, ForkAt
  <2>3. Layout(mem, ptable[p].pgdir, k[p].end, ptable[p].fb)
    BY <1>1, RunningFacts DEF Top
  <2>4. LayoutAt(p)'
    BY <1>1, <1>2, <1>5, <2>3, UserFields DEF LayoutAt, Top, Filling
  <2>q. QED
    BY <2>1, <2>2, <2>4 DEF SlotInv
<1>q. QED
  BY <1>1, <1>2, <1>3, <1>4, <1>5, <1>6, <1>7, <1>8, UserFields, TypeParts, QuietOK

(* exit() becomes ZOMBIE with ptable.lock held. *)
LEMMA ExitZombieOK ==
    ASSUME IInv, NEW p \in Slots, ExitZombie(p)
    PROVE  StepGood
<1>1. /\ ptable[p].state = "RUNNING" /\ k[p].pc = "exiting" /\ ptlock = 0 /\ ptlock' = p /\ k' = k
      /\ ptable' = [s \in Slots |->
           IF s = p THEN [ptable[s] EXCEPT !.state = "ZOMBIE"]
           ELSE IF ptable[s].parent = p THEN [ptable[s] EXCEPT !.parent = initproc]
           ELSE ptable[s]]
      /\ free' = free /\ mem' = mem /\ cr3' = cr3 /\ tlb' = tlb /\ panic' = panic /\ calls' = calls
  BY DEF ExitZombie, At
<1>2. ptable \in [Slots -> Procs] /\ initproc \in Slots /\ 0 \notin Slots
  BY TypeParts, Sizes DEF initproc, Slots
<1>3. /\ ptable' \in [Slots -> Procs] /\ ptable'[p].state = "ZOMBIE"
      /\ \A s \in Slots \ {p} : ptable'[s].state = ptable[s].state
      /\ \A s \in Slots : /\ ptable'[s].pgdir = ptable[s].pgdir /\ ptable'[s].kstack = ptable[s].kstack
                          /\ ptable'[s].brk = ptable[s].brk /\ ptable'[s].fb = ptable[s].fb
  BY <1>1, <1>2 DEF Procs
<1>4. p \in Alive /\ p \in Alive'
  BY <1>1, <1>3 DEF Alive
<1>5. \A s \in Slots \ {p} : Kept(s)
  BY <1>1, <1>2, <1>3 DEF Kept
<1>6. FrameAt(p) /\ SlotAt(p) /\ Cr3At(p) /\ k[p] = [User EXCEPT !.pc = "exiting"]
  <2>1. FrameAt(p) /\ SlotAt(p) /\ Cr3At(p)
    BY DEF IInv, SlotInv
  <2>q. QED
    BY <1>1, <2>1 DEF FrameAt, Frame
<1>7. k[p].call = "none"
  BY <1>6 DEF User
<1>8. SlotInv(p)'
  <2>1. FrameAt(p)'
    BY <1>1, <1>3, <1>6 DEF FrameAt
  <2>2. SlotAt(p)' /\ Cr3At(p)'
    BY <1>1, <1>3, <1>4, <1>6 DEF SlotAt, Cr3At
  <2>3. TlbAt(p)' /\ ForkAt(p)' /\ LayoutAt(p)'
    BY <1>1, <1>3, <1>7 DEF TlbAt, ForkAt, LayoutAt, Filling
  <2>q. QED
    BY <2>1, <2>2, <2>3 DEF SlotInv
<1>9. ptlock' \in Slots \cup {0}
  BY <1>1
<1>q. QED
  BY <1>1, <1>3, <1>4, <1>5, <1>8, <1>9, TypeParts, QuietOK

(* scheduler() has left the stack and the directory of the zombie. *)
LEMMA SchedulerResumesOK ==
    ASSUME IInv, NEW p \in Slots, SchedulerResumes(p)
    PROVE  StepGood
<1>1. /\ ptlock = p /\ ptlock' = 0 /\ Lcr3(p, kpgdir) /\ k' = [k EXCEPT ![p] = User]
      /\ free' = free /\ mem' = mem /\ ptable' = ptable /\ panic' = panic /\ calls' = calls
  BY DEF SchedulerResumes, Return
<1>2. /\ ptable[p].state = "ZOMBIE" /\ k[p].d = 0 /\ k[p].mem = 0 /\ SlotAt(p)
      /\ 0 \notin Slots /\ kpgdir \in Pages
  <2>1. FrameAt(p) /\ SlotAt(p)
    BY DEF IInv, SlotInv
  <2>2. ptable[p].state = "ZOMBIE"
    BY <1>1, <2>1 DEF FrameAt
  <2>3. kpgdir \in Pages /\ 0 \notin Slots
    BY Sizes, AddressSpaceAssumption DEF Pages, kpgdir, Slots
  <2>q. QED
    BY <2>1, <2>2, <2>3, Idle
<1>3. p \in Alive /\ p \in Alive'
  BY <1>1, <1>2 DEF Alive
<1>4. /\ cr3' \in [Slots -> Pages] /\ tlb' \in [Slots -> SUBSET Pages]
      /\ cr3'[p] = kpgdir /\ tlb'[p] = {}
      /\ \A s \in Slots \ {p} : cr3'[s] = cr3[s] /\ tlb'[s] = tlb[s]
  BY <1>1, <1>2, Lcr3Facts
<1>5. k' \in [Slots -> Frames] /\ k'[p] = User /\ \A s \in Slots \ {p} : k'[s] = k[s]
  BY <1>1, TypeParts, UserFrame
<1>6. \A s \in Slots \ {p} : Kept(s)
  BY <1>1, <1>2, <1>4, <1>5 DEF Kept
<1>7. SlotInv(p)'
  <2>1. FrameAt(p)' /\ SlotAt(p)'
    BY <1>1, <1>2, <1>3, <1>5, UserFields DEF FrameAt, Frame, SlotAt
  <2>2. Cr3At(p)' /\ TlbAt(p)' /\ ForkAt(p)' /\ LayoutAt(p)'
    BY <1>1, <1>2, <1>4, <1>5, UserFields DEF Cr3At, TlbAt, ForkAt, LayoutAt, Filling
  <2>q. QED
    BY <2>1, <2>2 DEF SlotInv
<1>q. QED
  BY <1>1, <1>2, <1>3, <1>4, <1>5, <1>6, <1>7, UserFields, TypeParts, QuietOK

(* exec goes on to its stack. *)
LEMMA ExecStackGoesOn ==
    ASSUME IInv, NEW p \in Slots, At(p, "allocvm"), k[p].call = "exec", k[p].a = k[p].end,
           k' = [k EXCEPT ![p].end = @ + 2, ![p].call = "exec_stack"],
           UNCHANGED <<free, mem, ptable, ptlock, cr3, tlb, panic, calls>>
    PROVE  StepGood
<1>1. /\ ptable[p].state = "RUNNING" /\ k[p].pc = "allocvm"
      /\ free' = free /\ mem' = mem /\ ptable' = ptable /\ ptlock' = ptlock /\ panic' = panic /\ calls' = calls
      /\ cr3' = cr3 /\ tlb' = tlb
  BY DEF At
<1>2. p \in Alive /\ p \in Alive'
  BY <1>1 DEF Alive
<1>3. FrameAt(p) /\ SlotAt(p) /\ LayoutAt(p) /\ Cr3At(p) /\ TlbAt(p)
  BY DEF IInv, SlotInv
<1>4. k[p].end \in Nat /\ k[p].end + 2 \in 0..KERNBASE
  BY <1>3, TypeParts, Types, Sizes DEF FrameAt, Frame
<1>5. /\ k' \in [Slots -> Frames] /\ \A s \in Slots \ {p} : k'[s] = k[s]
      /\ k'[p].pc = k[p].pc /\ k'[p].call = "exec_stack" /\ k'[p].np = k[p].np /\ k'[p].d = k[p].d
      /\ k'[p].mem = k[p].mem /\ k'[p].a = k[p].a /\ k'[p].end = k[p].end + 2
  BY <1>4, TypeParts DEF Frames
<1>6. \A s \in Slots \ {p} : Kept(s)
  BY <1>1, <1>5 DEF Kept
<1>7. SlotInv(p)'
  <2>1. FrameAt(p)'
    BY <1>1, <1>3, <1>4, <1>5 DEF FrameAt, Frame
  <2>2. SlotAt(p)' /\ Cr3At(p)' /\ TlbAt(p)' /\ ForkAt(p)'
    BY <1>1, <1>2, <1>3, <1>5 DEF SlotAt, Cr3At, TlbAt, ForkAt
  <2>3. LayoutAt(p)'
    BY <1>1, <1>3, <1>5 DEF LayoutAt, Top, Filling
  <2>q. QED
    BY <2>1, <2>2, <2>3 DEF SlotInv
<1>q. QED
  BY <1>1, <1>2, <1>5, <1>6, <1>7, TypeParts, QuietOK

(* fork() makes the child RUNNABLE. *)
LEMMA ForkDoneOK ==
    ASSUME IInv, NEW p \in Slots, ForkDone(p)
    PROVE  StepGood
<1>0. /\ ptable[p].state = "RUNNING" /\ k[p].pc = "forked" /\ ptlock = 0
      /\ free' = free /\ mem' = mem /\ ptlock' = ptlock /\ tlb' = tlb /\ panic' = panic /\ calls' = calls
      /\ k' = [k EXCEPT ![p] = User]
  BY DEF ForkDone, At, Return
<1>1. /\ FrameAt(p) /\ ForkAt(p) /\ SlotAt(p) /\ LayoutAt(p) /\ TlbAt(p) /\ Cr3At(p) /\ NpUnique
      /\ k[p].call = "fork" /\ k[p].d # 0 /\ k[p].mem = 0
  <2>1. FrameAt(p) /\ ForkAt(p) /\ SlotAt(p) /\ LayoutAt(p) /\ TlbAt(p) /\ Cr3At(p) /\ NpUnique
    BY DEF IInv, SlotInv
  <2>q. QED
    BY <1>0, <2>1 DEF FrameAt, Frame
<1>2. PICK np \in Slots :
         /\ np = k[p].np /\ ptable[np].state = "EMBRYO" /\ ptable[np].kstack # 0
         /\ ptable[np].pgdir = k[p].d /\ ptable[np].brk = ptable[p].brk /\ ptable[np].fb = ptable[p].fb
  BY <1>0, <1>1 DEF ForkAt
<1>3. /\ ptable' = [ptable EXCEPT ![np].state = "RUNNING", ![np].parent = p]
      /\ cr3' = [cr3 EXCEPT ![np] = ptable[np].pgdir]
  BY <1>2 DEF ForkDone
<1>4. /\ ptable' \in [Slots -> Procs] /\ \A s \in Slots \ {np} : ptable'[s] = ptable[s]
      /\ ptable'[np].state = "RUNNING" /\ ptable'[np].pgdir = k[p].d
      /\ ptable'[np].kstack = ptable[np].kstack /\ ptable'[np].brk = ptable[p].brk
      /\ ptable'[np].fb = ptable[p].fb
  BY <1>2, <1>3, TypeParts DEF Procs
<1>5. k[p].d \in Pages /\ cr3' \in [Slots -> Pages] /\ cr3'[np] = k[p].d
      /\ \A s \in Slots \ {np} : cr3'[s] = cr3[s]
  BY <1>1, <1>2, <1>3, TypeParts, Types
<1>6. k' \in [Slots -> Frames] /\ k'[p] = User /\ \A s \in Slots \ {p} : k'[s] = k[s]
  BY <1>0, TypeParts, UserFrame
<1>7. np # p /\ k[np] = User /\ tlb[np] = {} /\ ptlock # np
  BY <1>0, <1>2, IdleSlot
<1>8. Stacks' = Stacks /\ Hands' = Hands
  <2>1. StacksKept
    BY <1>4 DEF StacksKept
  <2>2. HandsKept
    BY <1>1, <1>6, UserFields DEF HandsKept
  <2>q. QED
    BY <2>1, <2>2, SameStacks, SameHands
<1> DEFINE x == <<"slot", <<np, 0>>, k[p].d>>
<1>9. Dirs' = (Dirs \ {CDir(p)}) \cup {x}
  <2>1. np \notin Alive /\ Alive' = Alive \cup {np}
    BY <1>2, <1>4 DEF Alive
  <2>2. SlotDirs' = SlotDirs \cup {x}
    BY <1>4, <2>1 DEF SlotDirs, Alive
  <2>3. k'[p].d = 0 /\ k'[np].d = 0
    BY <1>6, <1>7, UserFields
  <2>4. CallDirs' = CallDirs \ {CDir(p)}
    BY <1>6, <2>1, <2>3 DEF CallDirs, CDir, Alive
  <2>5. CDir(p) \notin SlotDirs /\ CDir(p) # x
    BY DEF CDir, SlotDirs
  <2>q. QED
    BY <2>2, <2>4, <2>5 DEF Dirs
<1>10. Sane(Stacks', Hands', Dirs', mem', free')
  <2>1. Sane(Stacks, Hands, Dirs, mem, free) /\ CDir(p) \in Dirs /\ CDir(p)[3] = k[p].d
    BY <1>1, OwnDirs DEF IInv
  <2>2. x[1] \in {"call", "slot"} /\ x[3] = k[p].d
    OBVIOUS
  <2> HIDE DEF x
  <2>3. Sane(Stacks, Hands, (Dirs \ {CDir(p)}) \cup {x}, mem, free)
    BY <2>1, <2>2, MoveDir
  <2>q. QED
    BY <1>0, <1>8, <1>9, <2>3
<1>11. panic' = FALSE
  BY <1>0 DEF IInv, TypeOK
<1>12. TypeOK'
  BY <1>0, <1>4, <1>5, <1>6, <1>10, <1>11, TypeParts, TypeStep
<1>13. NpUnique'
  BY <1>1, <1>6, UserFields DEF NpUnique
<1>14. \A s \in Slots \ {p, np} : k[s].call = "fork" => k[s].np \notin {p, np}
  BY <1>0, <1>1, <1>2, RunningFacts DEF NpUnique
<1>15. \A s \in Slots \ {p, np} : Kept(s) /\ SeesSame(s)
  BY <1>0, <1>4, <1>5, <1>6, AllSeeSame DEF Kept
<1>16. SlotInv(p)'
  <2>1. FrameAt(p)' /\ ForkAt(p)'
    BY <1>0, <1>1, <1>4, <1>6, <1>7, UserFields DEF FrameAt, Frame, ForkAt
  <2>2. SlotAt(p)' /\ Cr3At(p)' /\ TlbAt(p)'
    BY <1>0, <1>1, <1>4, <1>5, <1>6, <1>7, UserFields DEF SlotAt, Cr3At, TlbAt, Alive
  <2>3. LayoutAt(p)'
    BY <1>0, <1>1, <1>4, <1>6, <1>7, UserFields DEF LayoutAt, Top, Filling
  <2>q. QED
    BY <2>1, <2>2, <2>3 DEF SlotInv
<1>17. SlotInv(np)'
  <2>0. k'[np] = User
    BY <1>6, <1>7
  <2>1. FrameAt(np)' /\ ForkAt(np)'
    BY <1>0, <1>4, <1>7, <2>0, UserFields DEF FrameAt, Frame, ForkAt
  <2>2. SlotAt(np)' /\ Cr3At(np)' /\ TlbAt(np)'
    BY <1>0, <1>1, <1>2, <1>4, <1>5, <1>7, <2>0, UserFields DEF SlotAt, Cr3At, TlbAt, Alive
  <2>3. LayoutAt(np)'
    BY <1>0, <1>1, <1>4, <2>0, UserFields DEF LayoutAt, Top, Filling
  <2>q. QED
    BY <2>1, <2>2, <2>3 DEF SlotInv
<1>18. FbKept(p) /\ FbKept(np)
  <2>1. ptable'[p] = ptable[p] /\ Agree(mem, mem', ptable[p].pgdir)
    BY <1>0, <1>4, <1>7 DEF Agree
  <2>2. ~ptable'[np].fb \/ FbMapped(mem', ptable'[np].pgdir)
    BY <1>0, <1>1, <1>4 DEF LayoutAt
  <2>q. QED
    BY <1>0, <2>1, <2>2, SameFb
<1>q. QED
  BY <1>10, <1>11, <1>12, <1>13, <1>14, <1>15, <1>16, <1>17, <1>18, StepOK
-----------------------------------------------------------------------------
(* Steps inside a system call *)

(* A step of p in the middle of a call that changes neither its slot nor   *)
(* what its own directory maps; q is the child if it forks, p otherwise.   *)
LEMMA CallStepOK ==
    ASSUME IInv, NEW p \in Slots, NEW q \in Slots, ptable[p].state = "RUNNING",
           k[p].pc # "activate", k'[p].pc \notin {"activate", "exiting"},
           q # p => k[p].call = "fork" /\ k[p].np = q,
           Sane(Stacks', Hands', Dirs', mem', free'), panic' = panic,
           UNCHANGED <<ptlock, cr3, tlb, calls>>,
           ptable' \in [Slots -> Procs], k' \in [Slots -> Frames],
           \A s \in Slots \ {p} : k'[s] = k[s] /\ SeesSame(s),
           \A s \in Slots \ {q} : ptable'[s] = ptable[s], ptable'[p] = ptable[p],
           q # p => /\ ptable'[q].state \in {"UNUSED", "EMBRYO"}
                    /\ ptable'[q].state = "UNUSED" => ptable'[q].kstack = 0,
           Agree(mem, mem', ptable[p].pgdir),
           k'[p].call = "fork" => k[p].call = "fork" /\ k'[p].np = k[p].np,
           k'[p].call = "sbrk" <=> k[p].call = "sbrk",
           k[p].call = "sbrk" => /\ ptable[p].brk <= k[p].end
                                 /\ k'[p].a = k[p].a /\ k'[p].end = k[p].end,
           Frame(k'[p], ptable[p].brk), ForkAt(p)',
           Filling(p)' => Layout(mem', k'[p].d, k'[p].a, FALSE) /\ mem'[k'[p].d][UserTables] = 0,
           k'[p].pc = "setup_kmap" => mem'[k'[p].d] = EmptyDir,
           k'[p].pc = "forked" => /\ Layout(mem', k'[p].d, ptable[p].brk, ptable[p].fb)
                                  /\ ptable[p].fb => FbMapped(mem', k'[p].d)
    PROVE  StepGood
<1>0. ptlock' = ptlock /\ cr3' = cr3 /\ tlb' = tlb /\ calls' = calls
  OBVIOUS
<1>1. panic' = FALSE
  BY DEF IInv, TypeOK
<1>2. TypeOK'
  BY <1>0, <1>1, TypeParts, TypeStep
<1>3. \A s \in Slots \ {p, q} : Kept(s) /\ SeesSame(s)
  BY <1>0 DEF Kept
<1>4. \A s \in Slots \ {p, q} : k[s].call = "fork" => k[s].np \notin {p, q}
  BY RunningFacts DEF IInv, NpUnique
<1>5. NpUnique'
  <2>1. \A s \in Slots : k'[s].call = "fork" => k[s].call = "fork" /\ k'[s].np = k[s].np
    OBVIOUS
  <2>q. QED
    BY <2>1 DEF IInv, NpUnique
<1>6. ASSUME q # p PROVE SlotInv(q)'
  <2>1. ptable[q].state = "EMBRYO"
    BY <1>6 DEF IInv, SlotInv, ForkAt
  <2>2. k[q] = User /\ cr3[q] = kpgdir /\ tlb[q] = {} /\ ptlock # q
    BY <2>1, IdleSlot
  <2>q. QED
    BY <1>0, <1>6, <2>2, IdleOK
<1>7. SlotInv(p)'
  <2>1. SlotAt(p) /\ Cr3At(p) /\ TlbAt(p) /\ p \in Alive /\ p \in Alive' /\ ptlock # p
        /\ ptable[p].brk \in Nat /\ ptable[p].brk <= KERNBASE
        /\ Layout(mem, ptable[p].pgdir, Top(p), ptable[p].fb)
    BY RunningFacts, Sizes DEF IInv, SlotInv, Alive
  <2>2. FrameAt(p)'
    BY <1>0, <2>1 DEF FrameAt
  <2>3. SlotAt(p)' /\ Cr3At(p)'
    BY <1>0, <2>1 DEF SlotAt, Cr3At
  <2>4. Layout(mem', ptable[p].pgdir, Top(p), ptable[p].fb)
    BY <2>1, AgreeLayout
  <2>5. Top(p)' = Top(p)
    BY DEF Top
  <2>6. LayoutAt(p)'
    BY <2>4, <2>5 DEF LayoutAt
  <2>7. Mapped(mem', ptable[p].pgdir, 0, ptable[p].brk) = Mapped(mem, ptable[p].pgdir, 0, ptable[p].brk)
    BY <2>1, AgreeMapped
  <2>8. tlb[p] \subseteq Mapped(mem, ptable[p].pgdir, 0, ptable[p].brk)
    <3>1. k[p].call = "sbrk" => ~(k[p].end < ptable[p].brk)
      BY <2>1, TypeParts, Types
    <3>q. QED
      BY <2>1, <3>1 DEF TlbAt
  <2>9. TlbAt(p)'
    BY <1>0, <2>7, <2>8 DEF TlbAt
  <2>q. QED
    BY <2>2, <2>3, <2>6, <2>9 DEF SlotInv
<1>8. SlotInv(q)'
  BY <1>6, <1>7
<1>9. FbKept(p) /\ FbKept(q)
  BY SameFb
<1>q. QED
  BY <1>1, <1>2, <1>3, <1>4, <1>5, <1>7, <1>8, <1>9, StepOK

(* A change that no directory sees is seen by no slot. *)
LEMMA DirsSeeSame ==
    ASSUME IInv, \A e \in Dirs : Agree(mem, mem', e[3])
    PROVE  \A s \in Slots : SeesSame(s)
BY OwnDirs DEF SeesSame

(* The child of a fork. *)
LEMMA ForkFacts ==
    ASSUME IInv, NEW p \in Slots, ptable[p].state = "RUNNING", k[p].call = "fork"
    PROVE  /\ k[p].np \in Slots /\ k[p].np # p /\ ptable[k[p].np].state = "EMBRYO"
           /\ ptable[k[p].np].kstack = 0 <=> k[p].pc = "init_proc"
           /\ ptable[k[p].np].kstack # 0 => StackOf(k[p].np) \in Stacks
           /\ StackOf(k[p].np)[3] = ptable[k[p].np].kstack
           /\ k[p].np \notin Alive
<1>1. ForkAt(p)
  BY DEF IInv, SlotInv
<1>q. QED
  BY <1>1 DEF ForkAt, StackOf, Stacks, Alive

(* What the invariant says of a process in the middle of a call. *)
LEMMA CallFacts ==
    ASSUME IInv, NEW p \in Slots, NEW pc, At(p, pc)
    PROVE  /\ ptable[p].state = "RUNNING" /\ k[p].pc = pc /\ Frame(k[p], ptable[p].brk)
           /\ p \in Alive /\ SDir(p) \in Dirs /\ SDir(p)[3] = ptable[p].pgdir
           /\ k[p].d # 0 => CDir(p) \in Dirs /\ CDir(p)[3] = k[p].d /\ k[p].d \in Pages
           /\ LayoutAt(p) /\ ForkAt(p)
           /\ Sane(Stacks, Hands, Dirs, mem, free)
BY RunningFacts, OwnDirs, TypeParts, Types DEF At, IInv, SlotInv

(* init_proc allocates the child's stack. *)
LEMMA InitProcOK ==
    ASSUME IInv, NEW p \in Slots, InitProc(p)
    PROVE  StepGood
<1>0. /\ At(p, "init_proc") /\ ptlock' = ptlock /\ cr3' = cr3 /\ tlb' = tlb /\ panic' = panic /\ calls' = calls
      /\ UNCHANGED <<ptlock, cr3, tlb, calls>>
  BY DEF InitProc
<1>1. /\ ptable[p].state = "RUNNING" /\ k[p].pc = "init_proc" /\ Frame(k[p], ptable[p].brk)
      /\ SDir(p) \in Dirs /\ SDir(p)[3] = ptable[p].pgdir
      /\ Sane(Stacks, Hands, Dirs, mem, free)
  BY <1>0, CallFacts
<1>2. k[p].call = "fork" /\ k[p].d = 0 /\ k[p].mem = 0 /\ k[p].a = 0
  BY <1>1 DEF Frame
<1>3. PICK np \in Slots : /\ np = k[p].np /\ np # p /\ ptable[np].state = "EMBRYO" /\ ptable[np].kstack = 0
                          /\ np \notin Alive
  BY <1>1, <1>2, ForkFacts
<1>4. CASE CanAlloc
  <2>0. PICK pg \in free : pg = Page /\ pg \in Pages /\ pg # 0
    BY <1>4, TypeParts, PageIsFree
  <2>1. /\ free' = free \ {pg} /\ mem' = [mem EXCEPT ![pg] = data]
        /\ ptable' = [ptable EXCEPT ![np].kstack = pg] /\ k' = [k EXCEPT ![p].pc = "setup"]
    BY <1>3, <1>4, <2>0 DEF InitProc, Goto
  <2>2. /\ ptable' \in [Slots -> Procs] /\ \A s \in Slots \ {np} : ptable'[s] = ptable[s]
        /\ ptable'[np].state = "EMBRYO" /\ ptable'[np].kstack = pg
    BY <1>3, <2>0, <2>1, TypeParts DEF Procs
  <2>3. /\ k' \in [Slots -> Frames] /\ \A s \in Slots \ {p} : k'[s] = k[s]
        /\ k'[p].pc = "setup" /\ k'[p].call = "fork" /\ k'[p].np = np /\ k'[p].d = 0
        /\ k'[p].mem = 0 /\ k'[p].a = 0
    BY <1>2, <1>3, <2>1, TypeParts DEF Frames
  <2>4. Stacks' = Stacks \cup {StackOf(np)'}
    BY <1>3, <2>0, <2>2, GetsStack
  <2>5. Hands' = Hands /\ Dirs' = Dirs
    <3>1. HandsKept /\ CallDirsKept
      BY <1>2, <2>3 DEF HandsKept, CallDirsKept
    <3>2. SlotDirsKept
      BY <1>3, <2>2 DEF SlotDirsKept, Alive
    <3>q. QED
      BY <3>1, <3>2, SameHands, SameDirs
  <2> DEFINE x == StackOf(np)'
  <2>6. x[1] = "stack" /\ x[3] = pg
    BY <2>2 DEF StackOf
  <2> HIDE DEF x
  <2>7. /\ Sane(Stacks \cup {x}, Hands, Dirs, mem', free \ {pg})
        /\ \A d \in Dirs : Agree(mem, mem', d[3])
    BY <1>1, <2>1, <2>6, NewStack
  <2>8. Sane(Stacks', Hands', Dirs', mem', free')
    BY <2>1, <2>4, <2>5, <2>7 DEF x
  <2>9. (\A s \in Slots : SeesSame(s)) /\ Agree(mem, mem', ptable[p].pgdir)
    BY <1>1, <2>7, DirsSeeSame
  <2>10. Frame(k'[p], ptable[p].brk)
    BY <2>3 DEF Frame
  <2>11. ForkAt(p)' /\ ~Filling(p)'
    BY <1>3, <2>0, <2>2, <2>3 DEF ForkAt, Filling
  <2>q. QED
    BY <1>0, <1>1, <1>2, <1>3, <2>2, <2>3, <2>8, <2>9, <2>10, <2>11, CallStepOK
<1>5. CASE ~CanAlloc
  <2>1. /\ free' = free /\ mem' = mem
        /\ ptable' = [ptable EXCEPT ![np].state = "UNUSED"] /\ k' = [k EXCEPT ![p] = User]
    BY <1>3, <1>5 DEF InitProc, Return
  <2>2. /\ ptable' \in [Slots -> Procs] /\ \A s \in Slots \ {np} : ptable'[s] = ptable[s]
        /\ ptable'[np].state = "UNUSED" /\ ptable'[np].kstack = 0
    BY <1>3, <2>1, TypeParts DEF Procs
  <2>3. k' \in [Slots -> Frames] /\ k'[p] = User /\ \A s \in Slots \ {p} : k'[s] = k[s]
    BY <2>1, TypeParts, UserFrame
  <2>4. Sane(Stacks', Hands', Dirs', mem', free')
    <3>1. HandsKept /\ CallDirsKept
      BY <1>2, <2>3, UserFields DEF HandsKept, CallDirsKept
    <3>2. SlotDirsKept /\ StacksKept
      BY <1>3, <2>2 DEF SlotDirsKept, Alive, StacksKept
    <3>q. QED
      BY <2>1, <3>1, <3>2, SaneSame
  <2>5. (\A s \in Slots : SeesSame(s)) /\ Agree(mem, mem', ptable[p].pgdir)
    BY <2>1, AllSeeSame DEF Agree
  <2>6. Frame(k'[p], ptable[p].brk) /\ ForkAt(p)' /\ ~Filling(p)'
    BY <2>3, UserFields DEF Frame, ForkAt, Filling
  <2>q. QED
    BY <1>0, <1>1, <1>2, <1>3, <2>2, <2>3, <2>4, <2>5, <2>6, UserFields, CallStepOK
<1>q. QED
  BY <1>4, <1>5

(* fork or exec gives up. *)
LEMMA FailsOK ==
    ASSUME IInv, NEW p \in Slots, NEW pc, At(p, pc), NEW more,
           pc \in {"setup", "setup_kmap", "copyuvm", "mappages", "allocvm"}, k[p].call # "sbrk",
           more = IF k[p].mem = 0 THEN {} ELSE {k[p].mem},
           Fails(p, more), UNCHANGED <<ptlock, cr3, tlb, calls>>, panic' = panic
    PROVE  StepGood
<1>1. /\ ptable[p].state = "RUNNING" /\ k[p].pc = pc /\ Frame(k[p], ptable[p].brk)
      /\ SDir(p) \in Dirs /\ SDir(p)[3] = ptable[p].pgdir
      /\ k[p].d # 0 => CDir(p) \in Dirs /\ CDir(p)[3] = k[p].d
      /\ Sane(Stacks, Hands, Dirs, mem, free)
  BY CallFacts
<1> DEFINE forks == k[p].call = "fork"
           stack == IF forks THEN {ptable[k[p].np].kstack} ELSE {}
<1>2. /\ ptable' = IF forks THEN [ptable EXCEPT ![k[p].np].kstack = 0, ![k[p].np].state = "UNUSED",
                                                ![k[p].np].pgdir = 0] ELSE ptable
      /\ k' = [k EXCEPT ![p] = User]
  BY DEF Fails, Return
<1>3. PICK q \in Slots :
         /\ forks => /\ q = k[p].np /\ q # p /\ ptable[q].state = "EMBRYO" /\ ptable[q].kstack # 0
                     /\ StackOf(q) \in Stacks /\ StackOf(q)[3] = ptable[q].kstack /\ q \notin Alive
         /\ ~forks => q = p
  BY <1>1, ForkFacts
<1> DEFINE A == IF forks THEN {StackOf(q)} ELSE {}
           B == IF k[p].mem = 0 THEN {} ELSE {HandOf(p)}
           R == A \cup B
           X == {h[3] : h \in R}
<1>4. /\ ptable' \in [Slots -> Procs] /\ ptable'[p] = ptable[p]
      /\ \A s \in Slots \ {q} : ptable'[s] = ptable[s]
      /\ forks => ptable'[q].state = "UNUSED" /\ ptable'[q].kstack = 0
      /\ ~forks => ptable' = ptable
  <2>1. CASE forks
    BY <1>2, <1>3, <2>1, TypeParts DEF Procs
  <2>2. CASE ~forks
    BY <1>2, <2>2, TypeParts
  <2>q. QED
    BY <2>1, <2>2
<1>5. k' \in [Slots -> Frames] /\ k'[p] = User /\ \A s \in Slots \ {p} : k'[s] = k[s]
  BY <1>2, TypeParts, UserFrame
<1>6. R \in SUBSET (Stacks \cup Hands) /\ X = more \cup stack
  <2>1. k[p].mem # 0 => HandOf(p) \in Hands /\ HandOf(p)[3] = k[p].mem
    BY DEF Hands, HandOf
  <2>q. QED
    BY <1>3, <2>1
<1>7. Stacks' = Stacks \ R /\ Hands' = Hands \ R
  <2>1. Hands' = Hands \ {HandOf(p)}
    BY <1>5, UserFields, LosesHand
  <2>2. k[p].mem = 0 => HandOf(p) \notin Hands
    BY DEF HandOf, Hands
  <2>3. StackOf(q) \notin Hands /\ HandOf(p) \notin Stacks
    BY DEF StackOf, Hands, HandOf, Stacks
  <2>4. Hands' = Hands \ R
    BY <2>1, <2>2, <2>3
  <2>5. CASE forks
    <3>1. Stacks' = Stacks \ {StackOf(q)}
      BY <1>4, <2>5, LosesStack
    <3>q. QED
      BY <2>3, <2>4, <2>5, <3>1
  <2>6. CASE ~forks
    <3>1. Stacks' = Stacks
      BY <1>4, <2>6, SameStacks DEF StacksKept
    <3>q. QED
      BY <2>3, <2>4, <2>6, <3>1
  <2>q. QED
    BY <2>5, <2>6
<1>8. Dirs' = Dirs \ {CDir(p)}
  <2>1. SlotDirsKept
    BY <1>3, <1>4 DEF SlotDirsKept, Alive
  <2>q. QED
    BY <1>5, <2>1, UserFields, LosesCallDir
<1> HIDE DEF R, X
<1>9. Sane(Stacks', Hands', Dirs', mem', free') /\ \A e \in Dirs \ {CDir(p)} : Agree(mem, mem', e[3])
  <2>1. CASE k[p].d # 0
    <3> DEFINE Y == FreevmOf(mem, CDir(p)[3]) \cup {h[3] : h \in R}
    <3>1. mem' = Kfree(mem, Y) /\ free' = free \cup Y
      <4>1. FreevmPages(k[p].d) = FreevmOf(mem, CDir(p)[3])
        BY <1>1, <2>1 DEF FreevmPages, FreevmOf
      <4>2. Freevm(k[p].d, more \cup stack)
        BY <2>1 DEF Fails
      <4>3. Y = FreevmPages(k[p].d) \cup (more \cup stack)
        BY <1>6, <4>1 DEF X
      <4> HIDE DEF Y
      <4>q. QED
        BY <4>2, <4>3 DEF Freevm
    <3>2. /\ Sane(Stacks \ R, Hands \ R, Dirs \ {CDir(p)}, Kfree(mem, Y), free \cup Y)
          /\ \A e \in Dirs \ {CDir(p)} : Agree(mem, Kfree(mem, Y), e[3])
      BY <1>1, <1>6, <2>1, FreeDirAndSome
    <3> HIDE DEF Y
    <3>q. QED
      BY <1>7, <1>8, <3>1, <3>2
  <2>2. CASE k[p].d = 0
    <3>1. mem' = Kfree(mem, X) /\ free' = free \cup X
      <4>1. mem' = Kfree(mem, more \cup stack) /\ free' = free \cup more \cup stack
        BY <2>2 DEF Fails
      <4>q. QED
        BY <1>6, <4>1
    <3>2. /\ Sane(Stacks \ R, Hands \ R, Dirs, Kfree(mem, X), free \cup X)
          /\ \A e \in Dirs : Agree(mem, Kfree(mem, X), e[3])
      BY <1>1, <1>6, FreeSome DEF X
    <3>3. Dirs \ {CDir(p)} = Dirs
      BY <2>2 DEF Dirs, CDir, CallDirs, SlotDirs
    <3>q. QED
      BY <1>7, <1>8, <3>1, <3>2, <3>3
  <2>q. QED
    BY <2>1, <2>2
<1>10. (\A s \in Slots \ {p} : SeesSame(s)) /\ Agree(mem, mem', ptable[p].pgdir)
  <2>1. {CDir(p)} \subseteq {SDir(p), CDir(p)} /\ SDir(p) # CDir(p)
    BY DEF SDir, CDir
  <2>2. \A s \in Slots \ {p} : SeesSame(s)
    BY <1>9, <2>1, OthersSeeSame
  <2>q. QED
    BY <1>1, <1>9, <2>1, <2>2
<1>11. Frame(k'[p], ptable[p].brk) /\ ForkAt(p)' /\ ~Filling(p)'
  BY <1>5, UserFields DEF Frame, ForkAt, Filling
<1>q. QED
  BY <1>1, <1>3, <1>4, <1>5, <1>9, <1>10, <1>11, UserFields, CallStepOK

(* A directory without pages. *)
LEMMA EmptyLayout ==
    ASSUME NEW m, NEW d, \A va \in VAs : Pte(m, d, va) = 0
    PROVE  Layout(m, d, 0, FALSE)
<1>1. \A va \in VAs : ~(va < 0)
  BY Sizes DEF VAs
<1>q. QED
  BY <1>1 DEF Layout

(* setup_kernel_page_directory allocates the directory. *)
LEMMA SetupDirOK ==
    ASSUME IInv, NEW p \in Slots, SetupDir(p)
    PROVE  StepGood
<1>0. /\ At(p, "setup") /\ panic' = panic /\ UNCHANGED <<ptlock, cr3, tlb, calls>>
  BY DEF SetupDir
<1>1. /\ ptable[p].state = "RUNNING" /\ k[p].pc = "setup" /\ Frame(k[p], ptable[p].brk) /\ p \in Alive
      /\ SDir(p) \in Dirs /\ SDir(p)[3] = ptable[p].pgdir
      /\ Sane(Stacks, Hands, Dirs, mem, free) /\ ForkAt(p)
  BY <1>0, CallFacts
<1>2. k[p].call \in {"fork", "exec"} /\ k[p].d = 0 /\ k[p].mem = 0 /\ k[p].a = 0
  BY <1>1 DEF Frame
<1>3. CASE CanAlloc
  <2>0. PICK pg \in free : pg = Page /\ pg \in Pages /\ pg # 0
    BY <1>3, TypeParts, PageIsFree
  <2>1. /\ free' = free \ {pg} /\ mem' = [mem EXCEPT ![pg] = EmptyDir]
        /\ ptable' = ptable /\ k' = [k EXCEPT ![p].d = pg, ![p].pc = "setup_kmap"]
    BY <1>3, <2>0 DEF SetupDir
  <2>3. /\ k' \in [Slots -> Frames] /\ \A s \in Slots \ {p} : k'[s] = k[s]
        /\ k'[p].pc = "setup_kmap" /\ k'[p].call = k[p].call /\ k'[p].np = k[p].np /\ k'[p].d = pg
        /\ k'[p].mem = 0 /\ k'[p].a = 0 /\ k'[p].end = k[p].end
    <3>1. k \in [Slots -> Frames] /\ k[p] \in Frames
      BY TypeParts
    <3>2. k' = [k EXCEPT ![p] = GetsDir(k[p], pg, "setup_kmap")]
      BY <2>1, <3>1 DEF GetsDir
    <3>3. k'[p] = GetsDir(k[p], pg, "setup_kmap") /\ \A s \in Slots \ {p} : k'[s] = k[s]
      BY <3>1, <3>2
    <3>4. /\ k'[p] \in Frames
          /\ k'[p].pc = "setup_kmap" /\ k'[p].call = k[p].call /\ k'[p].np = k[p].np /\ k'[p].d = pg
          /\ k'[p].mem = k[p].mem /\ k'[p].a = k[p].a /\ k'[p].end = k[p].end
      BY <2>0, <3>1, <3>3, GetsDirFields
    <3>q. QED
      BY <1>2, <3>1, <3>2, <3>3, <3>4
  <2> DEFINE x == CDir(p)'
  <2>4. Stacks' = Stacks /\ Hands' = Hands /\ Dirs' = Dirs \cup {x}
    <3>1. HandsKept /\ StacksKept /\ SlotDirsKept
      BY <1>2, <2>1, <2>3 DEF HandsKept, StacksKept, SlotDirsKept, Alive
    <3>q. QED
      BY <1>1, <1>2, <2>0, <2>3, <3>1, SameHands, SameStacks, GetsCallDir
  <2>5. x[1] \in {"call", "slot"} /\ x[3] = pg
    BY <2>3 DEF CDir
  <2> HIDE DEF x
  <2>6. /\ Sane(Stacks, Hands, Dirs \cup {x}, mem', free \ {pg})
        /\ \A d \in Dirs : Agree(mem, mem', d[3])
        /\ \A va \in VAs : Pte(mem', pg, va) = 0
    <3>1. Sane(Stacks, Hands, Dirs, mem, free)
      BY <1>1
    <3>2. mem' = Put(mem, pg, EmptyDir)
      BY <2>1 DEF Put
    <3>q. QED
      BY <2>5, <3>1, <3>2, NewDir
  <2>7. Sane(Stacks', Hands', Dirs', mem', free')
    BY <2>1, <2>4, <2>6
  <2>8. (\A s \in Slots : SeesSame(s)) /\ Agree(mem, mem', ptable[p].pgdir)
    BY <1>1, <2>6, DirsSeeSame
  <2>9. Frame(k'[p], ptable[p].brk) /\ ForkAt(p)'
    BY <1>1, <1>2, <2>0, <2>1, <2>3 DEF Frame, ForkAt
  <2>10. mem'[pg] = EmptyDir /\ mem'[pg][UserTables] = 0
    <3>1. mem'[pg] = EmptyDir
      BY <2>0, <2>1, TypeParts
    <3>2. UserTables \in Pdes
      BY Sizes DEF Pdes, HeapPde
    <3>q. QED
      BY <3>1, <3>2 DEF EmptyDir
  <2>11. Layout(mem', pg, 0, FALSE)
    BY <2>6, EmptyLayout
  <2>q. QED
    BY <1>0, <1>1, <1>2, <2>1, <2>3, <2>7, <2>8, <2>9, <2>10, <2>11, TypeParts, CallStepOK
<1>4. CASE ~CanAlloc
  <2>1. Fails(p, {})
    BY <1>4 DEF SetupDir
  <2>q. QED
    BY <1>0, <1>2, <2>1, FailsOK
<1>q. QED
  BY <1>3, <1>4

(* setup_kernel_page_directory allocates the table of the direct map. *)
LEMMA SetupKmapOK ==
    ASSUME IInv, NEW p \in Slots, SetupKmap(p)
    PROVE  StepGood
<1>0. /\ At(p, "setup_kmap") /\ panic' = panic /\ UNCHANGED <<ptlock, cr3, tlb, calls>>
  BY DEF SetupKmap
<1>1. /\ ptable[p].state = "RUNNING" /\ k[p].pc = "setup_kmap" /\ Frame(k[p], ptable[p].brk) /\ p \in Alive
      /\ SDir(p) \in Dirs /\ SDir(p)[3] = ptable[p].pgdir
      /\ k[p].d # 0 => CDir(p) \in Dirs /\ CDir(p)[3] = k[p].d
      /\ Sane(Stacks, Hands, Dirs, mem, free) /\ ForkAt(p) /\ LayoutAt(p)
  BY <1>0, CallFacts
<1>2. /\ k[p].call \in {"fork", "exec"} /\ k[p].d # 0 /\ k[p].mem = 0 /\ k[p].a = 0
      /\ mem[k[p].d] = EmptyDir
  BY <1>1 DEF Frame, LayoutAt
<1>3. CASE CanAlloc
  <2> DEFINE new == IF k[p].call = "fork" THEN "copyuvm" ELSE "allocvm"
  <2>0. PICK pg \in free : pg = Page /\ pg \in Pages /\ pg # 0
    BY <1>3, TypeParts, PageIsFree
  <2>1. /\ free' = free \ {pg}
        /\ mem' = [mem EXCEPT ![pg] = data,
                              ![k[p].d] = [EmptyDir EXCEPT ![DirectPde] = pg,
                                                           ![HeapPde] = mem[kpgdir][HeapPde]]]
        /\ ptable' = ptable /\ k' = [k EXCEPT ![p].pc = new]
    BY <1>3, <2>0 DEF SetupKmap, Goto
  <2>2. new \in {"copyuvm", "allocvm"}
    OBVIOUS
  <2>3. /\ k' \in [Slots -> Frames] /\ \A s \in Slots \ {p} : k'[s] = k[s]
        /\ k'[p].pc = new /\ k'[p].call = k[p].call /\ k'[p].np = k[p].np /\ k'[p].d = k[p].d
        /\ k'[p].mem = 0 /\ k'[p].a = 0 /\ k'[p].end = k[p].end
    <3> HIDE DEF new
    <3>q. QED
      BY <1>2, <2>1, <2>2, TypeParts DEF Frames
  <2>4. Stacks' = Stacks /\ Hands' = Hands /\ Dirs' = Dirs
    <3>1. HandsKept /\ StacksKept /\ SlotDirsKept /\ CallDirsKept
      BY <1>2, <2>1, <2>3 DEF HandsKept, StacksKept, SlotDirsKept, CallDirsKept, Alive
    <3>q. QED
      BY <3>1, SameHands, SameStacks, SameDirs
  <2>5. CDir(p) \in Dirs /\ CDir(p)[3] = k[p].d /\ mem[CDir(p)[3]] = EmptyDir
    BY <1>1, <1>2
  <2>7. /\ Sane(Stacks, Hands, Dirs, mem', free \ {pg})
        /\ \A e \in Dirs \ {CDir(p)} : Agree(mem, mem', e[3])
        /\ \A i \in UserPdes : mem'[CDir(p)[3]][i] = 0
        /\ \A va \in VAs : Pte(mem', CDir(p)[3], va) = 0
    <3>1. Sane(Stacks, Hands, Dirs, mem, free)
      BY <1>1
    <3>2. GetsKmap(mem, mem', CDir(p)[3], pg)
      BY <2>1, <2>5 DEF Put, KmapDir, GetsKmap
    <3>3. /\ Sane(Stacks, Hands, Dirs, mem', free \ {pg})
          /\ \A e \in Dirs \ {CDir(p)} : Agree(mem, mem', e[3])
          /\ Blank(mem', CDir(p)[3])
      BY <2>5, <3>1, <3>2, NewKmap
    <3>q. QED
      BY <3>3 DEF Blank
  <2>8. Sane(Stacks', Hands', Dirs', mem', free')
    BY <2>1, <2>4, <2>7
  <2>9. (\A s \in Slots \ {p} : SeesSame(s)) /\ Agree(mem, mem', ptable[p].pgdir)
    <3>1. {CDir(p)} \subseteq {SDir(p), CDir(p)} /\ SDir(p) # CDir(p)
      BY DEF SDir, CDir
    <3>2. \A s \in Slots \ {p} : SeesSame(s)
      BY <2>7, <3>1, OthersSeeSame
    <3>q. QED
      BY <1>1, <2>7, <3>1, <3>2
  <2>10. Frame(k'[p], ptable[p].brk) /\ ForkAt(p)'
    <3>1. ptable[p].brk \in Nat /\ k[p].end \in Nat
      BY TypeParts, Types, Sizes
    <3>2. Frame(k'[p], ptable[p].brk)
      BY <1>1, <1>2, <2>3, <3>1 DEF Frame
    <3>3. ForkAt(p)'
      BY <1>1, <2>1, <2>3 DEF ForkAt
    <3>q. QED
      BY <3>2, <3>3
  <2>11. mem'[k[p].d][UserTables] = 0
    <3>1. UserTables \in UserPdes
      BY Sizes DEF UserPdes
    <3>q. QED
      BY <2>5, <2>7, <3>1
  <2>12. Layout(mem', k[p].d, 0, FALSE)
    BY <2>5, <2>7, EmptyLayout
  <2>q. QED
    BY <1>0, <1>1, <1>2, <2>1, <2>2, <2>3, <2>8, <2>9, <2>10, <2>11, <2>12, TypeParts, CallStepOK
<1>4. CASE ~CanAlloc
  <2>1. Fails(p, {})
    BY <1>4 DEF SetupKmap
  <2>q. QED
    BY <1>0, <1>2, <2>1, FailsOK
<1>q. QED
  BY <1>3, <1>4

(* A step of a process that is not forking and changes its own directories. *)
LEMMA OwnStepOK ==
    ASSUME IInv, NEW p \in Slots, ptable[p].state = "RUNNING",
           Sane(Stacks', Hands', Dirs', mem', free'), panic' = panic, ptlock' = ptlock,
           ptable' \in [Slots -> Procs], k' \in [Slots -> Frames],
           cr3' \in [Slots -> Pages], tlb' \in [Slots -> SUBSET Pages], calls' \in 0..MaxCalls,
           \A s \in Slots \ {p} : ptable'[s] = ptable[s] /\ k'[s] = k[s] /\ cr3'[s] = cr3[s] /\ tlb'[s] = tlb[s],
           \A s \in Slots \ {p} : SeesSame(s),
           k'[p].call # "fork", SlotInv(p)', FbKept(p)
    PROVE  StepGood
<1>1. panic' = FALSE
  BY DEF IInv, TypeOK
<1>2. TypeOK'
  BY <1>1, TypeParts, TypeStep
<1>3. NpUnique'
  BY DEF IInv, NpUnique
<1>4. \A s \in Slots \ {p} : Kept(s) /\ SeesSame(s)
  BY DEF Kept
<1>q. QED
  BY <1>1, <1>2, <1>3, <1>4, RunningFacts, StepOne

(* copyuvm and allocvm take a page. *)
TakesPage(p) ==
    /\ free' = free \ {Page}
    /\ mem' = [mem EXCEPT ![Page] = data]
    /\ k' = [k EXCEPT ![p].mem = Page, ![p].pc = "mappages"]
    /\ ptable' = ptable

MorePages(p, pc) == k[p].a < IF pc = "copyuvm" THEN ptable[p].brk ELSE k[p].end

InHand(f, pg) == [f EXCEPT !.mem = pg, !.pc = "mappages"]

(* A frame that has allocated a page. *)
LEMMA FrameGetsHand ==
    ASSUME NEW f \in Frames, NEW pg \in Pages, NEW g, g = InHand(f, pg)
    PROVE  /\ g \in Frames /\ g.pc = "mappages" /\ g.call = f.call /\ g.np = f.np /\ g.d = f.d
           /\ g.mem = pg /\ g.a = f.a /\ g.end = f.end
BY DEF Frames, InHand

(* copyuvm or allocvm allocates one page, which is mapped in the next      *)
(* step.                                                                   *)
LEMMA TakesPageOK ==
    ASSUME IInv, NEW p \in Slots, NEW pc \in {"copyuvm", "allocvm"}, At(p, pc), CanAlloc,
           MorePages(p, pc),
           TakesPage(p), UNCHANGED <<ptlock, cr3, tlb, calls>>, panic' = panic
    PROVE  StepGood
<1>1. /\ ptable[p].state = "RUNNING" /\ k[p].pc = pc /\ Frame(k[p], ptable[p].brk) /\ p \in Alive
      /\ SDir(p) \in Dirs /\ SDir(p)[3] = ptable[p].pgdir
      /\ k[p].d # 0 => CDir(p) \in Dirs /\ CDir(p)[3] = k[p].d
      /\ Sane(Stacks, Hands, Dirs, mem, free) /\ ForkAt(p) /\ LayoutAt(p)
  BY CallFacts
<1>2. /\ pc = "copyuvm" <=> k[p].call = "fork"
      /\ k[p].call \in {"fork", "exec", "exec_stack", "sbrk"}
      /\ k[p].d = 0 <=> k[p].call = "sbrk"
      /\ k[p].mem = 0
  BY <1>1 DEF Frame
<1>3. PICK pg \in free : pg = Page /\ pg \in Pages /\ pg # 0
  BY TypeParts, PageIsFree
<1>0. /\ free' = free \ {pg} /\ mem' = [mem EXCEPT ![pg] = data] /\ ptable' = ptable
      /\ k' = [k EXCEPT ![p].mem = pg, ![p].pc = "mappages"]
  BY <1>3 DEF TakesPage
<1>4. /\ k' \in [Slots -> Frames] /\ \A s \in Slots \ {p} : k'[s] = k[s]
      /\ k'[p].pc = "mappages" /\ k'[p].call = k[p].call /\ k'[p].np = k[p].np /\ k'[p].d = k[p].d
      /\ k'[p].mem = pg /\ k'[p].a = k[p].a /\ k'[p].end = k[p].end
  <2>1. k \in [Slots -> Frames] /\ k[p] \in Frames
    BY TypeParts
  <2>2. k' = [k EXCEPT ![p] = InHand(k[p], pg)]
    BY <1>0, <2>1 DEF InHand
  <2>3. k'[p] = InHand(k[p], pg) /\ \A s \in Slots \ {p} : k'[s] = k[s]
    BY <2>1, <2>2
  <2>4. /\ k'[p] \in Frames
        /\ k'[p].pc = "mappages" /\ k'[p].call = k[p].call /\ k'[p].np = k[p].np /\ k'[p].d = k[p].d
        /\ k'[p].mem = pg /\ k'[p].a = k[p].a /\ k'[p].end = k[p].end
    BY <1>3, <2>1, <2>3, FrameGetsHand
  <2>q. QED
    BY <2>1, <2>2, <2>3, <2>4
<1> DEFINE x == HandOf(p)'
<1>5. Stacks' = Stacks /\ Hands' = Hands \cup {x} /\ Dirs' = Dirs
  <2>1. StacksKept /\ SlotDirsKept /\ CallDirsKept
    BY <1>0, <1>4 DEF StacksKept, SlotDirsKept, CallDirsKept, Alive
  <2>q. QED
    BY <1>2, <1>3, <1>4, <2>1, SameStacks, SameDirs, GetsHand
<1>6. x[1] = "hand" /\ x[3] = pg
  BY <1>4 DEF HandOf
<1> HIDE DEF x
<1>7. /\ Sane(Stacks, Hands \cup {x}, Dirs, mem', free \ {pg})
      /\ \A d \in Dirs : Agree(mem, mem', d[3])
  <2>1. Sane(Stacks, Hands, Dirs, mem, free) /\ mem' = Put(mem, pg, data)
    BY <1>0, <1>1 DEF Put
  <2>q. QED
    BY <1>6, <2>1, NewHand
<1>8. Sane(Stacks', Hands', Dirs', mem', free')
  BY <1>0, <1>5, <1>7
<1>9. (\A s \in Slots : SeesSame(s)) /\ Agree(mem, mem', ptable[p].pgdir)
  BY <1>1, <1>7, DirsSeeSame
<1>10. ptable[p].brk \in Nat /\ k[p].a \in Nat /\ k[p].end \in Nat
  BY TypeParts, Types, Sizes
<1>11. Frame(k'[p], ptable[p].brk) /\ ForkAt(p)'
  <2>1. Frame(k'[p], ptable[p].brk)
    BY <1>1, <1>2, <1>3, <1>4, <1>10 DEF Frame, MorePages
  <2>2. ForkAt(p)'
    BY <1>0, <1>1, <1>2, <1>4 DEF ForkAt
  <2>q. QED
    BY <2>1, <2>2
<1>12. k[p].call = "sbrk" => ptable[p].brk <= k[p].end
  BY <1>1, <1>2, <1>10 DEF Frame, MorePages
<1>13. Filling(p)' => Layout(mem', k'[p].d, k'[p].a, FALSE) /\ mem'[k'[p].d][UserTables] = 0
  <2> SUFFICES ASSUME k[p].call # "sbrk"
               PROVE  Layout(mem', k'[p].d, k'[p].a, FALSE) /\ mem'[k'[p].d][UserTables] = 0
    BY <1>4 DEF Filling
  <2>1. Layout(mem, k[p].d, k[p].a, FALSE) /\ mem[k[p].d][UserTables] = 0
    BY <1>1 DEF LayoutAt, Filling
  <2>2. Agree(mem, mem', k[p].d)
    BY <1>1, <1>2, <1>7
  <2>3. Layout(mem', k[p].d, k[p].a, FALSE)
    BY <2>1, <2>2, AgreeLayout
  <2>4. mem'[k[p].d][UserTables] = 0
    BY <2>1, <2>2 DEF Agree
  <2>q. QED
    BY <1>4, <2>3, <2>4
<1>q. QED
  BY <1>0, <1>1, <1>2, <1>4, <1>8, <1>9, <1>11, <1>12, <1>13, TypeParts, CallStepOK

(* copyuvm finds every page of the parent present. *)
LEMMA CopyuvmOK ==
    ASSUME IInv, NEW p \in Slots, Copyuvm(p)
    PROVE  StepGood
<1>0. At(p, "copyuvm") /\ k[p].a < ptable[p].brk /\ UNCHANGED <<ptlock, cr3, tlb, calls>>
  BY DEF Copyuvm
<1>1. /\ ptable[p].state = "RUNNING" /\ k[p].pc = "copyuvm" /\ k[p].call = "fork" /\ k[p].mem = 0
      /\ Layout(mem, ptable[p].pgdir, Top(p), ptable[p].fb)
  <2>1. ptable[p].state = "RUNNING" /\ k[p].pc = "copyuvm" /\ Frame(k[p], ptable[p].brk) /\ LayoutAt(p)
    BY <1>0, CallFacts
  <2>q. QED
    BY <2>1 DEF Frame, LayoutAt
<1>2. Pte(mem, ptable[p].pgdir, k[p].a) # 0
  <2>1. k[p].a \in VAs /\ Top(p) = ptable[p].brk /\ 0 \notin Pages
    BY <1>0, <1>1, TypeParts, Types, Sizes DEF VAs, Top, Pages
  <2>2. Pte(mem, ptable[p].pgdir, k[p].a) \in Pages
    BY <1>0, <1>1, <2>1 DEF Layout
  <2>q. QED
    BY <2>1, <2>2
<1>3. panic' = panic
  BY <1>2 DEF Copyuvm
<1>4. CASE CanAlloc
  <2>1. TakesPage(p)
    BY <1>2, <1>4 DEF Copyuvm, TakesPage
  <2>2. MorePages(p, "copyuvm")
    BY <1>0 DEF MorePages
  <2>q. QED
    BY <1>0, <1>3, <1>4, <2>1, <2>2, TakesPageOK
<1>5. CASE ~CanAlloc
  <2>1. Fails(p, {})
    BY <1>2, <1>5 DEF Copyuvm
  <2>q. QED
    BY <1>0, <1>1, <1>3, <2>1, FailsOK
<1>q. QED
  BY <1>4, <1>5

(* A process that fails or leaves sbrk is back in user mode with the pages *)
(* below brk, when its own directory lost the ones above.                  *)
LEMMA UndoAllocvmOK ==
    ASSUME IInv, NEW p \in Slots, NEW pc \in {"mappages", "allocvm"}, At(p, pc), NEW more,
           k[p].call = "sbrk", k[p].a < k[p].end,
           more = IF k[p].mem = 0 THEN {} ELSE {k[p].mem},
           UndoAllocvm(p, more), UNCHANGED <<ptlock, cr3, tlb, calls>>, panic' = panic
    PROVE  StepGood
<1> DEFINE d == ptable[p].pgdir
           lo == ptable[p].brk
           hi == k[p].end
           n == Deallocvm(mem, SDir(p)[3], hi, lo)
           B == IF k[p].mem = 0 THEN {} ELSE {HandOf(p)}
           X == {h[3] : h \in B}
<1>1. /\ ptable[p].state = "RUNNING" /\ k[p].pc = pc /\ Frame(k[p], ptable[p].brk) /\ p \in Alive
      /\ SDir(p) \in Dirs /\ SDir(p)[3] = d
      /\ Sane(Stacks, Hands, Dirs, mem, free)
      /\ Layout(mem, d, Top(p), ptable[p].fb)
  BY CallFacts DEF LayoutAt
<1>2. lo \in Nat /\ hi \in Nat /\ k[p].a \in Nat /\ lo <= k[p].a /\ k[p].a < hi
      /\ hi <= KERNBASE /\ Top(p) = k[p].a /\ k[p].d = 0
  BY <1>1, TypeParts, Types, Sizes DEF Frame, Top
<1>3. /\ mem' = Kfree(n, more) /\ free' = free \cup more \cup Mapped(mem, SDir(p)[3], lo, hi)
      /\ k' = [k EXCEPT ![p] = User] /\ ptable' = ptable
  BY <1>1 DEF UndoAllocvm, Return
<1>4. k' \in [Slots -> Frames] /\ k'[p] = User /\ \A s \in Slots \ {p} : k'[s] = k[s]
  BY <1>3, TypeParts, UserFrame
<1>5. Stacks' = Stacks /\ Hands' = Hands \ B /\ Dirs' = Dirs
  <2>1. StacksKept /\ SlotDirsKept /\ CallDirsKept
    BY <1>2, <1>3, <1>4, UserFields DEF StacksKept, SlotDirsKept, CallDirsKept, Alive
  <2>2. Hands' = Hands \ {HandOf(p)}
    BY <1>4, UserFields, LosesHand
  <2>3. k[p].mem = 0 => HandOf(p) \notin Hands
    BY DEF HandOf, Hands
  <2>q. QED
    BY <2>1, <2>2, <2>3, SameStacks, SameDirs
<1>6. B \in SUBSET (Stacks \cup Hands) /\ X = more /\ Stacks \ B = Stacks
  <2>1. k[p].mem # 0 => HandOf(p) \in Hands /\ HandOf(p)[3] = k[p].mem
    BY DEF Hands, HandOf
  <2>2. HandOf(p) \notin Stacks
    BY DEF HandOf, Stacks
  <2>q. QED
    BY <2>1, <2>2
<1> HIDE DEF B, X
<1>7. /\ Sane(Stacks, Hands, Dirs, n, free \cup Mapped(mem, SDir(p)[3], lo, hi))
      /\ \A e \in Dirs \ {SDir(p)} : Agree(mem, n, e[3])
      /\ ClearsPtes(mem, n, SDir(p)[3], lo, hi)
  <2> HIDE DEF d, lo, hi
  <2>q. QED
    BY <1>1, <1>2, Unmap
<1> HIDE DEF n, d, lo, hi
<1>8. /\ Sane(Stacks, Hands \ B, Dirs, Kfree(n, X), (free \cup Mapped(mem, SDir(p)[3], lo, hi)) \cup X)
      /\ \A e \in Dirs : Agree(n, Kfree(n, X), e[3])
  <2> DEFINE F == free \cup Mapped(mem, SDir(p)[3], lo, hi)
  <2>1. Sane(Stacks, Hands, Dirs, n, F) /\ B \in SUBSET (Stacks \cup Hands)
    BY <1>6, <1>7
  <2> HIDE DEF F
  <2>2. /\ Sane(Stacks \ B, Hands \ B, Dirs, Kfree(n, X), F \cup X)
        /\ \A e \in Dirs : Agree(n, Kfree(n, X), e[3])
    BY <2>1, FreeSome DEF X
  <2>q. QED
    BY <1>6, <2>2 DEF F
<1>9. Sane(Stacks', Hands', Dirs', mem', free')
  <2>1. free' = (free \cup Mapped(mem, SDir(p)[3], lo, hi)) \cup X
    BY <1>3, <1>6
  <2>q. QED
    BY <1>3, <1>5, <1>6, <1>8, <2>1
<1>10. \A s \in Slots \ {p} : SeesSame(s)
  <2>1. \A e \in Dirs \ {SDir(p)} : Agree(mem, mem', e[3])
    BY <1>3, <1>6, <1>7, <1>8, AgreeTwice
  <2>2. {SDir(p)} \subseteq {SDir(p), CDir(p)}
    OBVIOUS
  <2>q. QED
    BY <2>1, <2>2, OthersSeeSame
<1>11. \A va \in VAs : Pte(mem', d, va) = IF va \in lo..(hi - 1) THEN 0 ELSE Pte(mem, d, va)
  <2>1. Agree(n, mem', d)
    BY <1>1, <1>3, <1>6, <1>8
  <2>q. QED
    BY <1>1, <1>7, <2>1, AgreePte DEF ClearsPtes
<1>12. Layout(mem', d, lo, ptable[p].fb)
  <2>1. \A va \in VAs : va \in Int
    BY Sizes DEF VAs
  <2>2. Layout(mem, d, k[p].a, ptable[p].fb)
    BY <1>1, <1>2
  <2>q. QED
    BY <1>2, <1>11, <2>1, <2>2, Sizes DEF Layout
<1>13. Mapped(mem', d, 0, lo) = Mapped(mem, d, 0, lo)
  <2>1. \A va \in 0..(lo - 1) : va \in VAs /\ va \notin lo..(hi - 1)
    BY <1>2, Sizes DEF VAs
  <2>2. \A va \in 0..(lo - 1) : Pte(mem', d, va) = Pte(mem, d, va)
    BY <2>1, <1>11
  <2>q. QED
    BY <2>2 DEF Mapped
<1>14. tlb[p] \subseteq Mapped(mem, d, 0, lo)
  <2>1. TlbAt(p)
    BY DEF IInv, SlotInv
  <2>2. ~(k[p].end < ptable[p].brk) /\ k[p].pc # "activate"
    BY <1>1, <1>2 DEF hi, lo
  <2>q. QED
    BY <1>1, <2>1, <2>2 DEF TlbAt, lo, d
<1>15. SlotInv(p)'
  <2>1. FrameAt(p)' /\ ForkAt(p)' /\ SlotAt(p)'
    <3>1. SlotAt(p) /\ FrameAt(p)
      BY DEF IInv, SlotInv
    <3>q. QED
      BY <1>1, <1>3, <1>4, <3>1, UserFields DEF FrameAt, ForkAt, SlotAt, Frame, Alive
  <2>2. LayoutAt(p)'
    BY <1>3, <1>4, <1>12, UserFields DEF LayoutAt, Top, Filling, lo, d
  <2>3. Cr3At(p)'
    <3>1. Cr3At(p) /\ ptlock # p
      BY <1>1, RunningFacts DEF IInv, SlotInv
    <3>q. QED
      BY <1>1, <1>3, <1>4, <3>1, UserFields DEF Cr3At
  <2>4. TlbAt(p)'
    BY <1>3, <1>4, <1>13, <1>14, UserFields DEF TlbAt, lo, d
  <2>q. QED
    BY <2>1, <2>2, <2>3, <2>4 DEF SlotInv
<1>16. FbKept(p)
  <2> SUFFICES ASSUME NEW va \in FbMissing(p)' \ FbMissing(p)
               PROVE  va < k[p].end
    BY <1>4 DEF FbKept
  <2>1. va \in VAs /\ va \in Int
    BY Sizes DEF FbMissing, FbRange, VAs
  <2>2. Pte(mem', d, va) # Pte(mem, d, va)
    BY <1>1, <1>3 DEF FbMissing, d
  <2>3. va \in lo..(hi - 1)
    BY <1>11, <2>1, <2>2
  <2>q. QED
    BY <1>2, <2>1, <2>3 DEF hi
<1>q. QED
  BY <1>1, <1>3, <1>4, <1>9, <1>10, <1>15, <1>16, UserFields, TypeParts, OwnStepOK

(* allocvm allocates a page. *)
LEMMA AllocvmOK ==
    ASSUME IInv, NEW p \in Slots, Allocvm(p)
    PROVE  StepGood
<1>0. /\ At(p, "allocvm") /\ k[p].a < k[p].end /\ panic' = panic
      /\ UNCHANGED <<ptlock, cr3, tlb, calls>>
  BY DEF Allocvm
<1>1. k[p].mem = 0 /\ k[p].pc = "allocvm"
  BY <1>0, CallFacts DEF Frame
<1>2. CASE CanAlloc
  <2>1. TakesPage(p)
    BY <1>2 DEF Allocvm, TakesPage
  <2>2. MorePages(p, "allocvm")
    BY <1>0 DEF MorePages
  <2>q. QED
    BY <1>0, <1>2, <2>1, <2>2, TakesPageOK
<1>3. CASE ~CanAlloc /\ k[p].call = "sbrk"
  <2>1. UndoAllocvm(p, {})
    BY <1>3 DEF Allocvm
  <2>q. QED
    BY <1>0, <1>1, <1>3, <2>1, UndoAllocvmOK
<1>4. CASE ~CanAlloc /\ k[p].call # "sbrk"
  <2>1. Fails(p, {})
    BY <1>4 DEF Allocvm
  <2>q. QED
    BY <1>0, <1>1, <1>4, <2>1, FailsOK
<1>q. QED
  BY <1>2, <1>3, <1>4

(* exec() goes on from the program's pages to its stack. *)
LEMMA ExecStackOK ==
    ASSUME IInv, NEW p \in Slots, ExecStack(p)
    PROVE  StepGood
<1>0. /\ At(p, "allocvm") /\ k[p].call = "exec" /\ k[p].a = k[p].end /\ panic' = panic
      /\ UNCHANGED <<ptlock, cr3, tlb, calls>>
  BY DEF ExecStack
<1>1. k[p].mem = 0
  BY <1>0, CallFacts DEF Frame
<1>2. CASE Fails(p, {})
  BY <1>0, <1>1, <1>2, FailsOK
<1>3. CASE /\ k' = [k EXCEPT ![p].end = @ + 2, ![p].call = "exec_stack"]
           /\ UNCHANGED <<free, mem, ptable>>
  BY <1>0, <1>3, ExecStackGoesOn
<1>q. QED
  BY <1>2, <1>3 DEF ExecStack
-----------------------------------------------------------------------------
(* mappages *)

(* The table of va is there, or a free page becomes it. *)
FindsTable(m, o, F, G, d, va) ==
    \/ m[d][PDX(va)] # 0 /\ o = m /\ G = F
    \/ m[d][PDX(va)] = 0 /\ \E t \in F : o = WithTable(m, d, va, t) /\ G = F \ {t}

SameButTable(m, o, d, va) ==
    /\ \A w \in VAs : Pte(o, d, w) = Pte(m, d, w)
    /\ o[d][PDX(va)] # 0
    /\ \A i \in UserPdes \ {PDX(va)} : o[d][i] = m[d][i]

(* walkpgdir finds the table or allocates one; either way only d changes,  *)
(* and only where it had no table.                                         *)
LEMMA TableFound ==
    ASSUME NEW st, NEW ha, NEW dd, NEW m, NEW F, Sane(st, ha, dd, m, F), NEW d \in dd,
           NEW va \in VAs, NEW o, NEW G, FindsTable(m, o, F, G, d[3], va)
    PROVE  /\ Sane(st, ha, dd, o, G)
           /\ \A e \in dd \ {d} : Agree(m, o, e[3])
           /\ SameButTable(m, o, d[3], va)
<1>1. CASE m[d[3]][PDX(va)] # 0 /\ o = m /\ G = F
  BY <1>1 DEF Agree, SameButTable
<1>2. CASE m[d[3]][PDX(va)] = 0 /\ \E t \in F : o = WithTable(m, d[3], va, t) /\ G = F \ {t}
  <2>1. PICK t \in F : o = WithTable(m, d[3], va, t) /\ G = F \ {t}
    BY <1>2
  <2>2. PICK i \in UserPdes : i = PDX(va)
    BY TableOf
  <2>3. PutsTable(m, o, d[3], i, t)
    BY <1>2, <2>1, <2>2 DEF PutsTable, WithTable
  <2>4. /\ Sane(st, ha, dd, o, F \ {t})
        /\ \A e \in dd \ {d} : Agree(m, o, e[3])
        /\ HasNewTable(m, o, d[3], i, t)
    BY <2>3, NewTable
  <2>5. t # 0 /\ i \in Pdes /\ m[d[3]] \in [Pdes -> Pages \cup {0}]
    <3>1. t \in Pages /\ DirShape(m, d[3]) /\ KernelDir(m)
      BY DEF Sane
    <3>q. QED
      BY <3>1, KernelEntries DEF Pages, DirShape
  <2>q. QED
    BY <2>1, <2>2, <2>4, <2>5 DEF HasNewTable, SameButTable
<1>q. QED
  BY <1>1, <1>2 DEF FindsTable

MapsOne(m, n, d, va, e) ==
    /\ \A w \in VAs : Pte(n, d, w) = IF w = va THEN e ELSE Pte(m, d, w)
    /\ n[d][UserTables] = m[d][UserTables]

FillsPte(m, n, d, va, e) == n = SetPtes(m, d, va, va + 1, e)

(* mappages moves the page in hand into an empty entry: the accounts stay  *)
(* right and no other directory sees it.                                   *)
LEMMA MapOne ==
    ASSUME NEW st, NEW ha, NEW dd, NEW m, NEW F, Sane(st, ha, dd, m, F), NEW d \in dd,
           NEW h \in ha, NEW va \in VAs, va < FB_MMAP_BASE, Pte(m, d[3], va) = 0,
           NEW o, NEW G, FindsTable(m, o, F, G, d[3], va),
           NEW n, FillsPte(o, n, d[3], va, h[3])
    PROVE  /\ Sane(st, ha \ {h}, dd, n, G)
           /\ \A e \in dd \ {d} : Agree(m, n, e[3])
           /\ h[3] \in Pages /\ MapsOne(m, n, d[3], va, h[3])
<1>0. /\ Sane(st, ha, dd, o, G)
      /\ \A e \in dd \ {d} : Agree(m, o, e[3])
      /\ SameButTable(m, o, d[3], va)
  BY TableFound
<1>1. /\ Sane(st, ha, dd, o, G)
      /\ \A e \in dd \ {d} : Agree(m, o, e[3])
      /\ \A w \in VAs : Pte(o, d[3], w) = Pte(m, d[3], w)
      /\ o[d[3]][PDX(va)] # 0
      /\ \A i \in UserPdes \ {PDX(va)} : o[d[3]][i] = m[d[3]][i]
  BY <1>0 DEF SameButTable
<1>2. Pte(o, d[3], va) = 0
  BY <1>1
<1>3. /\ Sane(st, ha \ {h}, dd, n, G)
      /\ \A e \in dd \ {d} : Agree(o, n, e[3])
      /\ h[3] \in Pages /\ SetsPte(o, n, d[3], va, h[3])
  <2>1. Sane(st, ha, dd, o, G) /\ o[d[3]][PDX(va)] # 0
    BY <1>1
  <2>q. QED
    BY <1>2, <2>1, MapHand DEF FillsPte
<1>4. \A e \in dd \ {d} : Agree(m, n, e[3])
  BY <1>1, <1>3, AgreeTwice
<1>5. n[d[3]][UserTables] = m[d[3]][UserTables]
  <2>1. UserTables \in UserPdes \ {PDX(va)}
    BY TableOf, Sizes DEF UserPdes
  <2>q. QED
    BY <1>1, <1>3, <2>1 DEF SetsPte
<1>6. MapsOne(m, n, d[3], va, h[3])
  BY <1>1, <1>3, <1>5 DEF SetsPte, MapsOne
<1>q. QED
  BY <1>3, <1>4, <1>6

(* After it the process maps one page more, and the same pages below. *)
LEMMA MapOneLayout ==
    ASSUME NEW m, NEW n, NEW d, NEW va \in VAs, va < FB_MMAP_BASE, NEW e \in Pages,
           NEW fb, Layout(m, d, va, fb), MapsOne(m, n, d, va, e)
    PROVE  /\ Layout(n, d, va + 1, fb)
           /\ \A top \in Nat : top <= va => Mapped(n, d, 0, top) = Mapped(m, d, 0, top)
<1>1. \A w \in VAs : w \in Int
  BY Sizes DEF VAs
<1>2. Layout(n, d, va + 1, fb)
  BY <1>1, Sizes DEF Layout, MapsOne
<1>3. ASSUME NEW top \in Nat, top <= va PROVE Mapped(n, d, 0, top) = Mapped(m, d, 0, top)
  <2>1. \A w \in 0..(top - 1) : w \in VAs /\ w # va
    BY <1>1, <1>3, Sizes DEF VAs
  <2>2. \A w \in 0..(top - 1) : Pte(n, d, w) = Pte(m, d, w)
    BY <2>1 DEF MapsOne
  <2>q. QED
    BY <2>2 DEF Mapped
<1>q. QED
  BY <1>2, <1>3

(* A directory maps fewer pages than there are: each address below top has *)
(* one of its own, and the kernel's directory is none of them.             *)
LEMMA PagesFit ==
    ASSUME NEW st, NEW ha, NEW dd, NEW m, NEW F, Sane(st, ha, dd, m, F), NEW d \in dd,
           NEW top \in Nat, top <= KERNBASE, NEW fb, Layout(m, d[3], top, fb)
    PROVE  top < NPAGES
<1> DEFINE S == 0..(top - 1)
           T == 2..NPAGES
           pte == [va \in S |-> Pte(m, d[3], va)]
<1>1. \A va \in S : va \in VAs /\ Pte(m, d[3], va) \in Pages
  <2>1. \A va \in S : va \in VAs /\ va < top
    BY Sizes DEF VAs
  <2>q. QED
    BY <2>1 DEF Layout
<1>2. \A va \in S : Pte(m, d[3], va) \notin {0, DEV}
  BY <1>1, AddressSpaceAssumption, Sizes DEF Pages
<1>3. \A va \in S : Pte(m, d[3], va) # kpgdir
  BY <1>1, <1>2, Apart
<1>4. \A va, w \in S : Pte(m, d[3], va) = Pte(m, d[3], w) => va = w
  BY <1>1, <1>2, Apart
<1>5. \A va \in S : Pte(m, d[3], va) \in T
  BY <1>1, <1>3, Sizes DEF Pages, kpgdir
<1>6. pte \in Injection(S, T)
  BY <1>4, <1>5 DEF Injection, IsInjective
<1>7. /\ IsFiniteSet(T) /\ Cardinality(T) = NPAGES - 1
      /\ Cardinality(S) = top
  <2>1. 2 \in Int /\ NPAGES \in Int /\ 0 \in Int /\ top - 1 \in Int /\ ~(2 > NPAGES)
    BY Sizes
  <2>2. IsFiniteSet(T) /\ Cardinality(T) = NPAGES - 2 + 1
    BY <2>1, FS_Interval
  <2>3. Cardinality(S) = IF 0 > top - 1 THEN 0 ELSE (top - 1) - 0 + 1
    BY <2>1, FS_Interval
  <2>q. QED
    BY <2>2, <2>3, Sizes
<1> HIDE DEF pte, S, T
<1>8. Cardinality(S) <= Cardinality(T)
  BY <1>6, <1>7, FS_Injection
<1>q. QED
  BY <1>7, <1>8, Sizes

Onward(f, pc) == [f EXCEPT !.a = f.a + 1, !.mem = 0, !.pc = pc]

(* A frame that goes on to the next page. *)
LEMMA FrameGoesOn ==
    ASSUME NEW f \in Frames, NEW pc \in {"copyuvm", "allocvm"}, f.a + 1 \in 0..FB_MMAP_BASE,
           NEW g, g = Onward(f, pc)
    PROVE  /\ g \in Frames /\ g.pc = pc /\ g.call = f.call /\ g.np = f.np /\ g.d = f.d
           /\ g.mem = 0 /\ g.a = f.a + 1 /\ g.end = f.end
BY DEF Frames, Onward

(* The directory that a call is filling, as a holding. *)
FDir(p) == IF k[p].call = "sbrk" THEN SDir(p) ELSE CDir(p)
NextPc(p) == IF k[p].call = "fork" THEN "copyuvm" ELSE "allocvm"

(* What is true when mappages is called: the directory and the page are    *)
(* held, and the entry is empty.                                           *)
LEMMA MappagesFacts ==
    ASSUME IInv, NEW p \in Slots, At(p, "mappages")
    PROVE  /\ FDir(p) \in Dirs /\ FDir(p)[3] = Dir(p) /\ FDir(p) \in {SDir(p), CDir(p)}
           /\ HandOf(p) \in Hands /\ HandOf(p)[3] = k[p].mem
           /\ k[p].a \in VAs /\ k[p].a + 1 \in 0..FB_MMAP_BASE /\ k[p].a < FB_MMAP_BASE
           /\ k[p].call # "sbrk" => Layout(mem, k[p].d, k[p].a, FALSE) /\ mem[k[p].d][UserTables] = 0
           /\ k[p].call = "sbrk" => Layout(mem, ptable[p].pgdir, k[p].a, ptable[p].fb)
           /\ Pte(mem, Dir(p), k[p].a) = 0
           /\ k[p].call \in {"fork", "exec", "exec_stack", "sbrk"}
           /\ k[p].d = 0 <=> k[p].call = "sbrk"
           /\ k[p].mem # 0
<1>1. /\ ptable[p].state = "RUNNING" /\ k[p].pc = "mappages" /\ Frame(k[p], ptable[p].brk)
      /\ SDir(p) \in Dirs /\ SDir(p)[3] = ptable[p].pgdir
      /\ k[p].d # 0 => CDir(p) \in Dirs /\ CDir(p)[3] = k[p].d
      /\ LayoutAt(p)
  BY CallFacts
<1>2. /\ k[p].call \in {"fork", "exec", "exec_stack", "sbrk"}
      /\ k[p].d = 0 <=> k[p].call = "sbrk"
      /\ k[p].mem # 0
      /\ k[p].a < IF k[p].call = "fork" THEN ptable[p].brk ELSE k[p].end
  BY <1>1 DEF Frame
<1>3. FDir(p) \in Dirs /\ FDir(p)[3] = Dir(p) /\ FDir(p) \in {SDir(p), CDir(p)}
  BY <1>1, <1>2 DEF FDir, Dir
<1>4. HandOf(p) \in Hands /\ HandOf(p)[3] = k[p].mem
  BY <1>2 DEF Hands, HandOf
<1>5. /\ k[p].call # "sbrk" => Layout(mem, k[p].d, k[p].a, FALSE) /\ mem[k[p].d][UserTables] = 0
      /\ k[p].call = "sbrk" => Layout(mem, ptable[p].pgdir, k[p].a, ptable[p].fb)
  BY <1>1 DEF LayoutAt, Filling, Top
<1>6. k[p].a \in VAs /\ k[p].a + 1 \in 0..FB_MMAP_BASE /\ k[p].a < FB_MMAP_BASE
  <2>1. k[p].a \in Nat /\ k[p].a <= KERNBASE
    BY TypeParts, Types, Sizes
  <2>2. PICK fb : Layout(mem, FDir(p)[3], k[p].a, fb)
    BY <1>3, <1>5 DEF Dir
  <2>3. Sane(Stacks, Hands, Dirs, mem, free)
    BY DEF IInv
  <2>4. k[p].a < NPAGES
    BY <1>3, <2>1, <2>2, <2>3, PagesFit
  <2>q. QED
    BY <2>1, <2>4, Sizes DEF VAs
<1>7. \A d, fb : Layout(mem, d, k[p].a, fb) => Pte(mem, d, k[p].a) = 0
  BY <1>6, Sizes DEF Layout, FbRange, VAs
<1>8. Pte(mem, Dir(p), k[p].a) = 0
  BY <1>5, <1>7 DEF Dir
<1>q. QED
  BY <1>2, <1>3, <1>4, <1>5, <1>6, <1>8

MapsPage(p) ==
    LET d == Dir(p)
        va == k[p].a
        m == IF HasTable(d, va) THEN mem ELSE WithTable(mem, d, va, Page)
    IN /\ mem' = SetPtes(m, d, va, va + 1, k[p].mem)
       /\ free' = IF HasTable(d, va) THEN free ELSE free \ {Page}
       /\ k' = [k EXCEPT ![p].a = va + 1, ![p].mem = 0, ![p].pc = NextPc(p)]
       /\ ptable' = ptable

(* The new entry as the invariants see it. *)
LEMMA MapsPageMemory ==
    ASSUME IInv, NEW p \in Slots, At(p, "mappages"), HasTable(Dir(p), k[p].a) \/ CanAlloc, MapsPage(p)
    PROVE  /\ Sane(Stacks, Hands \ {HandOf(p)}, Dirs, mem', free')
           /\ \A e \in Dirs \ {FDir(p)} : Agree(mem, mem', e[3])
           /\ k[p].mem \in Pages /\ MapsOne(mem, mem', Dir(p), k[p].a, k[p].mem)
<1> DEFINE d == Dir(p)
           va == k[p].a
           has == HasTable(d, va)
<1>1. /\ FDir(p) \in Dirs /\ FDir(p)[3] = d
      /\ HandOf(p) \in Hands /\ HandOf(p)[3] = k[p].mem
      /\ va \in VAs /\ va < FB_MMAP_BASE /\ Pte(mem, FDir(p)[3], va) = 0
  BY MappagesFacts
<1>2. Sane(Stacks, Hands, Dirs, mem, free)
  BY DEF IInv
<1>3. PICK o : /\ o = IF has THEN mem ELSE WithTable(mem, d, va, Page)
               /\ mem' = SetPtes(o, d, va, va + 1, k[p].mem)
               /\ free' = IF has THEN free ELSE free \ {Page}
  BY DEF MapsPage
<1>4. FindsTable(mem, o, free, free', FDir(p)[3], va)
  <2>1. CASE has
    BY <1>1, <1>3, <2>1 DEF FindsTable, HasTable
  <2>2. CASE ~has
    <3>1. Page \in free
      BY <2>2, TypeParts, PageIsFree
    <3>2. o = WithTable(mem, d, va, Page) /\ free' = free \ {Page} /\ mem[d][PDX(va)] = 0
      BY <1>3, <2>2 DEF HasTable
    <3>q. QED
      BY <1>1, <3>1, <3>2 DEF FindsTable
  <2>q. QED
    BY <2>1, <2>2
<1>5. mem' = SetPtes(o, FDir(p)[3], va, va + 1, HandOf(p)[3])
  BY <1>1, <1>3
<1> HIDE DEF d, va, has
<1>6. /\ Sane(Stacks, Hands \ {HandOf(p)}, Dirs, mem', free')
      /\ \A e \in Dirs \ {FDir(p)} : Agree(mem, mem', e[3])
      /\ HandOf(p)[3] \in Pages /\ MapsOne(mem, mem', FDir(p)[3], va, HandOf(p)[3])
  <2>1. PICK D \in Dirs : D = FDir(p)
    BY <1>1
  <2>2. PICK h \in Hands : h = HandOf(p)
    BY <1>1
  <2>3. va \in VAs /\ va < FB_MMAP_BASE /\ Pte(mem, D[3], va) = 0
        /\ FindsTable(mem, o, free, free', D[3], va) /\ FillsPte(o, mem', D[3], va, h[3])
    BY <1>1, <1>4, <1>5, <2>1, <2>2 DEF FillsPte
  <2>4. /\ Sane(Stacks, Hands \ {h}, Dirs, mem', free')
        /\ \A e \in Dirs \ {D} : Agree(mem, mem', e[3])
        /\ h[3] \in Pages /\ MapsOne(mem, mem', D[3], va, h[3])
    BY <1>2, <2>3, MapOne
  <2>q. QED
    BY <2>1, <2>2, <2>4
<1>q. QED
  BY <1>1, <1>6 DEF d, va

(* mappages in fork, exec and sbrk. *)
LEMMA MapsPageOK ==
    ASSUME IInv, NEW p \in Slots, At(p, "mappages"), HasTable(Dir(p), k[p].a) \/ CanAlloc, MapsPage(p),
           UNCHANGED <<ptlock, cr3, tlb, calls>>, panic' = panic
    PROVE  StepGood
<1>1. /\ ptable[p].state = "RUNNING" /\ k[p].pc = "mappages" /\ Frame(k[p], ptable[p].brk) /\ p \in Alive
      /\ SDir(p) \in Dirs /\ SDir(p)[3] = ptable[p].pgdir /\ ForkAt(p)
  BY CallFacts
<1>2. /\ FDir(p) \in {SDir(p), CDir(p)} /\ k[p].a \in VAs /\ k[p].a + 1 \in 0..FB_MMAP_BASE /\ k[p].a < FB_MMAP_BASE
      /\ k[p].call # "sbrk" => Layout(mem, k[p].d, k[p].a, FALSE) /\ mem[k[p].d][UserTables] = 0
      /\ k[p].call = "sbrk" => Layout(mem, ptable[p].pgdir, k[p].a, ptable[p].fb)
      /\ k[p].call \in {"fork", "exec", "exec_stack", "sbrk"}
      /\ k[p].d = 0 <=> k[p].call = "sbrk"
  BY MappagesFacts
<1>3. /\ Sane(Stacks, Hands \ {HandOf(p)}, Dirs, mem', free')
      /\ \A e \in Dirs \ {FDir(p)} : Agree(mem, mem', e[3])
      /\ k[p].mem \in Pages /\ MapsOne(mem, mem', Dir(p), k[p].a, k[p].mem)
  BY MapsPageMemory
<1>4. ptable' = ptable /\ k' = [k EXCEPT ![p] = Onward(k[p], NextPc(p))]
  <2>1. ptable' = ptable /\ k' = [k EXCEPT ![p].a = k[p].a + 1, ![p].mem = 0, ![p].pc = NextPc(p)]
    BY DEF MapsPage
  <2>2. k \in [Slots -> Frames]
    BY TypeParts
  <2>q. QED
    BY <2>1, <2>2 DEF Onward
<1>5. /\ k' \in [Slots -> Frames] /\ \A s \in Slots \ {p} : k'[s] = k[s]
      /\ k'[p].pc = NextPc(p) /\ k'[p].call = k[p].call /\ k'[p].np = k[p].np /\ k'[p].d = k[p].d
      /\ k'[p].mem = 0 /\ k'[p].a = k[p].a + 1 /\ k'[p].end = k[p].end
  <2>1. k \in [Slots -> Frames] /\ k[p] \in Frames
    BY TypeParts
  <2>2. k'[p] = Onward(k[p], NextPc(p)) /\ \A s \in Slots \ {p} : k'[s] = k[s]
    BY <1>4, <2>1
  <2>3. PICK pc \in {"copyuvm", "allocvm"} : pc = NextPc(p)
    BY DEF NextPc
  <2>4. /\ k'[p] \in Frames
        /\ k'[p].pc = pc /\ k'[p].call = k[p].call /\ k'[p].np = k[p].np /\ k'[p].d = k[p].d
        /\ k'[p].mem = 0 /\ k'[p].a = k[p].a + 1 /\ k'[p].end = k[p].end
    BY <1>2, <2>1, <2>2, <2>3, FrameGoesOn
  <2>q. QED
    BY <1>4, <2>1, <2>2, <2>3, <2>4
<1>6. Sane(Stacks', Hands', Dirs', mem', free')
  <2>1. StacksKept /\ SlotDirsKept /\ CallDirsKept
    BY <1>4, <1>5 DEF StacksKept, SlotDirsKept, CallDirsKept, Alive
  <2>2. Stacks' = Stacks /\ Dirs' = Dirs /\ Hands' = Hands \ {HandOf(p)}
    BY <1>5, <2>1, SameStacks, SameDirs, LosesHand
  <2>q. QED
    BY <1>3, <2>2
<1>7. \A s \in Slots \ {p} : SeesSame(s)
  <2>1. {FDir(p)} \subseteq {SDir(p), CDir(p)}
    BY <1>2
  <2>q. QED
    BY <1>3, <2>1, OthersSeeSame
<1>8. ptable[p].brk \in Nat /\ k[p].a \in Nat /\ k[p].end \in Nat
  BY TypeParts, Types, Sizes
<1>9. k[p].a < IF k[p].call = "fork" THEN ptable[p].brk ELSE k[p].end
  BY <1>1 DEF Frame
<1>10. Frame(k'[p], ptable[p].brk)
  BY <1>1, <1>2, <1>5, <1>8, <1>9 DEF Frame, NextPc
<1>11. CASE k[p].call # "sbrk"
  <2>1. Dir(p) = k[p].d /\ SDir(p) # FDir(p)
    BY <1>11 DEF Dir, FDir, SDir, CDir
  <2>2. Agree(mem, mem', ptable[p].pgdir)
    BY <1>1, <1>3, <2>1
  <2>3. Layout(mem', k[p].d, k[p].a + 1, FALSE)
    <3>1. Layout(mem, k[p].d, k[p].a, FALSE) /\ MapsOne(mem, mem', k[p].d, k[p].a, k[p].mem)
      BY <1>2, <1>3, <1>11, <2>1
    <3>q. QED
      BY <1>2, <1>3, <3>1, MapOneLayout
  <2>4. mem'[k[p].d][UserTables] = 0
    BY <1>2, <1>3, <1>11, <2>1 DEF MapsOne
  <2>5. ForkAt(p)'
    BY <1>1, <1>4, <1>5 DEF ForkAt, NextPc
  <2>6. k'[p].pc \in {"copyuvm", "allocvm"}
    BY <1>5 DEF NextPc
  <2>q. QED
    BY <1>1, <1>4, <1>5, <1>6, <1>7, <1>10, <1>11, <2>2, <2>3, <2>4, <2>5, <2>6, TypeParts, CallStepOK
<1>12. CASE k[p].call = "sbrk"
  <2>1. Dir(p) = ptable[p].pgdir
    BY <1>12 DEF Dir
  <2>2. /\ Layout(mem', ptable[p].pgdir, k[p].a + 1, ptable[p].fb)
        /\ Mapped(mem', ptable[p].pgdir, 0, ptable[p].brk) = Mapped(mem, ptable[p].pgdir, 0, ptable[p].brk)
    <3>1. /\ Layout(mem, ptable[p].pgdir, k[p].a, ptable[p].fb)
          /\ MapsOne(mem, mem', ptable[p].pgdir, k[p].a, k[p].mem)
      BY <1>2, <1>3, <1>12, <2>1
    <3>2. ptable[p].brk <= k[p].a
      BY <1>1, <1>12 DEF Frame
    <3>q. QED
      BY <1>2, <1>3, <1>8, <3>1, <3>2, MapOneLayout
  <2>3. k'[p].pc = "allocvm"
    BY <1>5, <1>12 DEF NextPc
  <2>4. ptlock # p /\ SlotAt(p) /\ Cr3At(p) /\ TlbAt(p)
    BY <1>1, RunningFacts DEF IInv, SlotInv
  <2>5. FrameAt(p)' /\ ForkAt(p)' /\ SlotAt(p)'
    BY <1>1, <1>4, <1>5, <1>10, <1>12, <2>3, <2>4 DEF FrameAt, ForkAt, SlotAt, Alive
  <2>6. LayoutAt(p)'
    BY <1>1, <1>4, <1>5, <1>12, <2>2, <2>3 DEF LayoutAt, Top, Filling
  <2>7. Cr3At(p)'
    BY <1>1, <1>4, <1>5, <2>4 DEF Cr3At
  <2>8. TlbAt(p)'
    BY <1>1, <1>4, <1>5, <1>8, <2>2, <2>4 DEF TlbAt
  <2>9. SlotInv(p)'
    BY <2>5, <2>6, <2>7, <2>8 DEF SlotInv
  <2>10. k'[p].call # "fork"
    BY <1>5, <1>12
  <2>11. FbKept(p)
    <3>1. \A va \in FbRange : va \in VAs /\ va # k[p].a
      BY <1>2, <1>8, Sizes DEF FbRange, VAs
    <3>2. \A va \in FbRange : Pte(mem', ptable[p].pgdir, va) = Pte(mem, ptable[p].pgdir, va)
      BY <1>3, <2>1, <3>1 DEF MapsOne
    <3>q. QED
      BY <1>4, <3>2 DEF FbKept, FbMissing
  <2>q. QED
    BY <1>1, <1>4, <1>5, <1>6, <1>7, <2>9, <2>10, <2>11, TypeParts, OwnStepOK
<1>q. QED
  BY <1>11, <1>12

(* mappages finds no entry present, so it never panics. *)
LEMMA MappagesOK ==
    ASSUME IInv, NEW p \in Slots, Mappages(p)
    PROVE  StepGood
<1>0. At(p, "mappages") /\ panic' = Remap(Dir(p), k[p].a) /\ UNCHANGED <<ptlock, cr3, tlb, calls>>
  BY DEF Mappages
<1>1. /\ k[p].pc = "mappages" /\ Pte(mem, Dir(p), k[p].a) = 0 /\ k[p].mem # 0
      /\ Frame(k[p], ptable[p].brk)
  BY <1>0, CallFacts, MappagesFacts
<1>2. panic' = panic
  BY <1>0, <1>1 DEF Remap, IInv, TypeOK
<1>3. CASE HasTable(Dir(p), k[p].a) \/ CanAlloc
  <2>1. MapsPage(p)
    BY <1>3 DEF Mappages, MapsPage, NextPc
  <2>q. QED
    BY <1>0, <1>2, <1>3, <2>1, MapsPageOK
<1>4. CASE ~(HasTable(Dir(p), k[p].a) \/ CanAlloc) /\ k[p].call = "sbrk"
  <2>1. UndoAllocvm(p, {k[p].mem}) /\ k[p].a < k[p].end
    BY <1>1, <1>4 DEF Mappages, Frame
  <2>q. QED
    BY <1>0, <1>1, <1>2, <1>4, <2>1, UndoAllocvmOK
<1>5. CASE ~(HasTable(Dir(p), k[p].a) \/ CanAlloc) /\ k[p].call # "sbrk"
  <2>1. Fails(p, {k[p].mem})
    BY <1>5 DEF Mappages
  <2>q. QED
    BY <1>0, <1>1, <1>2, <1>5, <2>1, FailsOK
<1>q. QED
  BY <1>3, <1>4, <1>5
-----------------------------------------------------------------------------
(* The framebuffer *)

SameBelow(m, n, d, top) == Mapped(n, d, 0, top) = Mapped(m, d, 0, top)

(* A directory whose entries below the framebuffer are the same maps the   *)
(* same pages there.                                                       *)
LEMMA PtesBelow ==
    ASSUME NEW m, NEW n, NEW d, NEW top \in Nat, top <= FB_MMAP_BASE,
           \A va \in VAs : va < FB_MMAP_BASE => Pte(n, d, va) = Pte(m, d, va)
    PROVE  SameBelow(m, n, d, top)
<1>1. \A va \in 0..(top - 1) : va \in VAs /\ va < FB_MMAP_BASE
  BY Sizes DEF VAs
<1>2. \A va \in 0..(top - 1) : Pte(n, d, va) = Pte(m, d, va)
  BY <1>1
<1>q. QED
  BY <1>2 DEF Mapped, SameBelow

WithFb(m, d, top) == Layout(m, d, top, TRUE)
WithoutFb(m, d, top) == Layout(m, d, top, FALSE)

DropsDevice(m, n, d, top) == WithFb(m, d, top) /\ n = Unmapped(m, d)

(* proc_free_vmas: the loop of unmap_vm_range ends within the same table. *)
LEMMA DropDevice ==
    ASSUME NEW st, NEW ha, NEW dd, NEW m, NEW F, Sane(st, ha, dd, m, F), NEW d \in dd,
           NEW top \in Nat, top <= FB_MMAP_BASE, NEW n, DropsDevice(m, n, d[3], top)
    PROVE  /\ Sane(st, ha, dd, n, F)
           /\ \A e \in dd \ {d} : Agree(m, n, e[3])
           /\ WithoutFb(n, d[3], top) /\ SameBelow(m, n, d[3], top)
<1> DEFINE lo == FB_MMAP_BASE
           hi == FB_MMAP_BASE + FbPages + 1
<1>0. \A va \in VAs : va \in Int
  BY Sizes DEF VAs
<1>1. /\ lo \in Nat /\ hi \in Nat /\ hi <= KERNBASE
      /\ n = SetPtes(m, d[3], lo, hi, 0) /\ WithFb(m, d[3], top)
  BY Sizes DEF DropsDevice, Unmapped
<1>2. MapsNoPage(m, d[3], lo, hi)
  <2>1. \A va \in lo..(hi - 1) : va \in VAs /\ ~(va < top)
    BY Sizes DEF VAs
  <2>q. QED
    BY <1>1, <2>1 DEF MapsNoPage, Layout, WithFb, WithoutFb
<1> HIDE DEF hi
<1>3. /\ Sane(st, ha, dd, n, F)
      /\ \A e \in dd \ {d} : Agree(m, n, e[3])
      /\ SetsPtes(m, n, d[3], lo, hi, 0)
  BY <1>1, <1>2, MapDevice
<1>4. \A va \in VAs : Pte(n, d[3], va) = IF va \in lo..(hi - 1) THEN 0 ELSE Pte(m, d[3], va)
  BY <1>3 DEF SetsPtes, Pte
<1>5. WithoutFb(n, d[3], top)
  BY <1>0, <1>1, <1>4, Sizes DEF Layout, WithFb, WithoutFb, FbRange, hi
<1>6. SameBelow(m, n, d[3], top)
  BY <1>0, <1>4, PtesBelow, Sizes
<1>q. QED
  BY <1>3, <1>5, <1>6

AddsDevice(m, n, d) == n = SetPtes(m, d, FB_MMAP_BASE, FB_MMAP_BASE + FbPages, DEV)

MapsDevice(m, n, F, G, d, top) ==
    /\ WithoutFb(m, d, top)
    /\ \E o : FindsTable(m, o, F, G, d, FB_MMAP_BASE) /\ AddsDevice(o, n, d)

(* map_vm_range of the framebuffer *)
LEMMA AddDevice ==
    ASSUME NEW st, NEW ha, NEW dd, NEW m, NEW F, Sane(st, ha, dd, m, F), NEW d \in dd,
           NEW top \in Nat, top <= FB_MMAP_BASE, NEW n, NEW G, MapsDevice(m, n, F, G, d[3], top)
    PROVE  /\ Sane(st, ha, dd, n, G)
           /\ \A e \in dd \ {d} : Agree(m, n, e[3])
           /\ WithFb(n, d[3], top) /\ FbMapped(n, d[3]) /\ SameBelow(m, n, d[3], top)
<1> DEFINE lo == FB_MMAP_BASE
           hi == FB_MMAP_BASE + FbPages
<1>a. PICK o : FindsTable(m, o, F, G, d[3], lo) /\ AddsDevice(o, n, d[3])
  BY DEF MapsDevice
<1>0. (\A va \in VAs : va \in Int) /\ lo \in VAs
  BY Sizes DEF VAs
<1>1. lo \in Nat /\ hi \in Nat /\ hi <= KERNBASE /\ n = SetPtes(o, d[3], lo, hi, DEV)
  BY <1>a, Sizes DEF AddsDevice
<1>2. /\ Sane(st, ha, dd, o, G)
      /\ \A e \in dd \ {d} : Agree(m, o, e[3])
      /\ SameButTable(m, o, d[3], lo)
  BY <1>a, <1>0, TableFound
<1>3. (\A va \in VAs : Pte(o, d[3], va) = Pte(m, d[3], va)) /\ o[d[3]][PDX(lo)] # 0
  BY <1>2 DEF SameButTable
<1>4. MapsNoPage(o, d[3], lo, hi)
  <2>1. \A va \in lo..(hi - 1) : va \in VAs /\ ~(va < top)
    BY Sizes DEF VAs
  <2>q. QED
    BY <1>3, <2>1 DEF MapsNoPage, Layout, MapsDevice, WithoutFb
<1> HIDE DEF hi
<1>5. /\ Sane(st, ha, dd, n, G)
      /\ \A e \in dd \ {d} : Agree(o, n, e[3])
      /\ SetsPtes(o, n, d[3], lo, hi, DEV)
  <2>1. Sane(st, ha, dd, o, G)
    BY <1>2
  <2>q. QED
    BY <1>1, <1>4, <2>1, MapDevice
<1>6. \A va \in VAs : Pte(n, d[3], va) = IF va \in lo..(hi - 1) THEN DEV ELSE Pte(m, d[3], va)
  <2>1. \A va \in VAs : va >= lo => PDX(va) = PDX(lo)
    BY <1>0, TableOf, Sizes
  <2>q. QED
    BY <1>0, <1>1, <1>3, <1>5, <2>1 DEF SetsPtes
<1>7. WithFb(n, d[3], top)
  BY <1>0, <1>6, Sizes DEF Layout, MapsDevice, WithFb, WithoutFb, FbRange, hi
<1>8. SameBelow(m, n, d[3], top)
  BY <1>0, <1>6, PtesBelow, Sizes
<1>9. \A e \in dd \ {d} : Agree(m, n, e[3])
  BY <1>2, <1>5, AgreeTwice
<1>10. FbMapped(n, d[3])
  <2>1. \A va \in FbRange : va \in VAs /\ va \in lo..(hi - 1)
    BY Sizes DEF FbRange, VAs, hi
  <2>q. QED
    BY <1>6, <2>1 DEF FbMapped
<1>q. QED
  BY <1>5, <1>7, <1>8, <1>9, <1>10

(* The entries of the framebuffer are what they were. *)
SameDevice(m, n, d) == \A va \in FbRange : Pte(n, d, va) = Pte(m, d, va)

WithArea(r, fb) == [r EXCEPT !.fb = fb]

(* The slot of a process that gains or loses the area. *)
LEMMA WithAreaFields ==
    ASSUME NEW r \in Procs, NEW fb \in BOOLEAN, NEW q, q = WithArea(r, fb)
    PROVE  /\ q \in Procs /\ q.state = r.state /\ q.pgdir = r.pgdir /\ q.kstack = r.kstack
           /\ q.brk = r.brk /\ q.fb = fb
BY DEF Procs, WithArea

(* A call that begins and changes only the directory of its process. *)
LEMMA EntersOwnOK ==
    ASSUME IInv, NEW p \in Slots, NEW f \in Frames, Enter(p, f), Frame(f, ptable[p].brk),
           f.call \in {"none", "sbrk"}, f.pc \in {"user", "exiting", "allocvm"}, f.mem = 0,
           Sane(Stacks, Hands, Dirs, mem', free'), \A e \in Dirs \ {SDir(p)} : Agree(mem, mem', e[3]),
           panic' = panic, ptlock' = ptlock, cr3' = cr3, calls' \in 0..MaxCalls,
           NEW fb \in BOOLEAN, ptable' = [ptable EXCEPT ![p].fb = fb], f.pc = "exiting" => ~fb,
           Layout(mem', ptable[p].pgdir, IF f.call = "sbrk" THEN f.a ELSE ptable[p].brk, fb),
           (f.call = "sbrk" /\ f.end < ptable[p].brk) \/ SameBelow(mem, mem', ptable[p].pgdir, ptable[p].brk),
           \/ ~fb \/ FbMapped(mem', ptable[p].pgdir)
           \/ ptable[p].fb /\ SameDevice(mem, mem', ptable[p].pgdir)
    PROVE  StepGood
<1>1. /\ ptable[p].state = "RUNNING" /\ k[p] = User /\ cr3[p] = ptable[p].pgdir
      /\ tlb' \in [Slots -> SUBSET Pages]
      /\ tlb'[p] \subseteq Mapped(mem, ptable[p].pgdir, 0, ptable[p].brk)
      /\ k'[p] = f
      /\ \A s \in Slots \ {p} : tlb'[s] = tlb[s] /\ k'[s] = k[s]
  BY EnterFacts
<1>2. k' \in [Slots -> Frames]
  <2>1. k' = [k EXCEPT ![p] = f]
    BY DEF Enter
  <2>q. QED
    BY <2>1, TypeParts
<1>3. /\ ptable' \in [Slots -> Procs] /\ \A s \in Slots \ {p} : ptable'[s] = ptable[s]
      /\ ptable'[p].state = ptable[p].state /\ ptable'[p].pgdir = ptable[p].pgdir
      /\ ptable'[p].kstack = ptable[p].kstack /\ ptable'[p].brk = ptable[p].brk /\ ptable'[p].fb = fb
  <2>1. ptable \in [Slots -> Procs] /\ ptable[p] \in Procs
    BY TypeParts
  <2>2. ptable' = [ptable EXCEPT ![p] = WithArea(ptable[p], fb)]
    BY <2>1 DEF WithArea
  <2>3. ptable'[p] = WithArea(ptable[p], fb) /\ \A s \in Slots \ {p} : ptable'[s] = ptable[s]
    BY <2>1, <2>2
  <2>4. /\ ptable'[p] \in Procs /\ ptable'[p].state = ptable[p].state
        /\ ptable'[p].pgdir = ptable[p].pgdir /\ ptable'[p].kstack = ptable[p].kstack
        /\ ptable'[p].brk = ptable[p].brk /\ ptable'[p].fb = fb
    BY <2>1, <2>3, WithAreaFields
  <2>q. QED
    BY <2>1, <2>2, <2>3, <2>4
<1>4. f.d = 0
  BY DEF Frame
<1>5. Sane(Stacks', Hands', Dirs', mem', free')
  <2>1. StacksKept /\ HandsKept /\ SlotDirsKept /\ CallDirsKept
    BY <1>1, <1>3, <1>4, UserFields DEF StacksKept, HandsKept, SlotDirsKept, CallDirsKept, Alive
  <2>2. Stacks' = Stacks /\ Hands' = Hands /\ Dirs' = Dirs
    BY <2>1, SameStacks, SameHands, SameDirs
  <2>q. QED
    BY <2>2
<1>6. \A s \in Slots \ {p} : SeesSame(s)
  <2>1. {SDir(p)} \subseteq {SDir(p), CDir(p)}
    OBVIOUS
  <2>q. QED
    BY <2>1, OthersSeeSame
<1>7. SlotInv(p)'
  <2>1. ptlock # p /\ SlotAt(p)
    BY <1>1, RunningFacts DEF IInv, SlotInv
  <2>2. FrameAt(p)' /\ ForkAt(p)'
    BY <1>1, <1>3, <2>1 DEF FrameAt, ForkAt
  <2>3. SlotAt(p)'
    BY <1>1, <1>3, <2>1 DEF SlotAt, Alive
  <2>4. LayoutAt(p)'
    <3>1. Top(p)' = IF f.call = "sbrk" THEN f.a ELSE ptable[p].brk
      BY <1>1, <1>3 DEF Top
    <3>2. ~Filling(p)'
      BY <1>1 DEF Filling, Frame
    <3>q. QED
      BY <1>1, <1>3, <3>1, <3>2 DEF LayoutAt
  <2>5. Cr3At(p)'
    BY <1>1, <1>3, <2>1 DEF Cr3At
  <2>6. TlbAt(p)'
    BY <1>1, <1>3 DEF TlbAt, SameBelow
  <2>q. QED
    BY <2>2, <2>3, <2>4, <2>5, <2>6 DEF SlotInv
<1>8. FbKept(p)
  <2>1. CASE ~fb \/ FbMapped(mem', ptable[p].pgdir)
    BY <1>3, <2>1, SameFb
  <2>2. CASE ptable[p].fb /\ SameDevice(mem, mem', ptable[p].pgdir)
    BY <1>1, <1>3, <2>2 DEF SameDevice, FbKept, FbMissing
  <2>q. QED
    BY <2>1, <2>2
<1>q. QED
  BY <1>1, <1>2, <1>3, <1>5, <1>6, <1>7, <1>8, TypeParts, OwnStepOK

(* proc_free_vmas *)
LEMMA VmasFreed ==
    ASSUME IInv, NEW p \in Slots, ptable[p].state = "RUNNING", k[p].call # "sbrk",
           NEW n, n = ProcFreeVmas(mem, p)
    PROVE  /\ Sane(Stacks, Hands, Dirs, n, free)
           /\ \A e \in Dirs \ {SDir(p)} : Agree(mem, n, e[3])
           /\ Layout(n, ptable[p].pgdir, ptable[p].brk, FALSE)
           /\ SameBelow(mem, n, ptable[p].pgdir, ptable[p].brk)
<1>1. /\ SDir(p) \in Dirs /\ SDir(p)[3] = ptable[p].pgdir
      /\ Layout(mem, ptable[p].pgdir, ptable[p].brk, ptable[p].fb)
      /\ ptable[p].brk \in Nat /\ ptable[p].brk <= FB_MMAP_BASE
  BY RunningFacts, Sizes DEF Top
<1>2. Sane(Stacks, Hands, Dirs, mem, free) /\ ptable[p].fb \in BOOLEAN
  BY TypeParts, Types DEF IInv
<1>3. CASE ~ptable[p].fb
  <2>1. n = mem /\ ptable[p].fb = FALSE
    BY <1>2, <1>3 DEF ProcFreeVmas
  <2>q. QED
    BY <1>1, <1>2, <2>1 DEF Agree, SameBelow
<1>4. CASE ptable[p].fb
  <2>0. ptable[p].fb = TRUE
    BY <1>2, <1>4
  <2>1. DropsDevice(mem, n, SDir(p)[3], ptable[p].brk)
    BY <1>1, <1>4, <2>0 DEF ProcFreeVmas, DropsDevice, WithFb
  <2>2. /\ Sane(Stacks, Hands, Dirs, n, free)
        /\ \A e \in Dirs \ {SDir(p)} : Agree(mem, n, e[3])
        /\ WithoutFb(n, SDir(p)[3], ptable[p].brk) /\ SameBelow(mem, n, SDir(p)[3], ptable[p].brk)
    <3>1. PICK D \in Dirs : D = SDir(p)
      BY <1>1
    <3>2. PICK top \in Nat : top = ptable[p].brk /\ top <= FB_MMAP_BASE
      BY <1>1
    <3>3. DropsDevice(mem, n, D[3], top) /\ Sane(Stacks, Hands, Dirs, mem, free)
      BY <1>2, <2>1, <3>1, <3>2
    <3>4. /\ Sane(Stacks, Hands, Dirs, n, free)
          /\ \A e \in Dirs \ {D} : Agree(mem, n, e[3])
          /\ WithoutFb(n, D[3], top) /\ SameBelow(mem, n, D[3], top)
      BY <3>2, <3>3, DropDevice
    <3>q. QED
      BY <3>1, <3>2, <3>4
  <2>q. QED
    BY <1>1, <2>2 DEF WithoutFb
<1>q. QED
  BY <1>3, <1>4

(* munmap() clears the framebuffer's entries; the table stays. *)
LEMMA MunmapOK ==
    ASSUME IInv, NEW p \in Slots, Munmap(p)
    PROVE  StepGood
<1>1. /\ Enter(p, User) /\ mem' = ProcFreeVmas(mem, p) /\ ptable' = [ptable EXCEPT ![p].fb = FALSE]
      /\ UNCHANGED <<free, ptlock, cr3, panic, calls>>
  BY DEF Munmap
<1>2. ptable[p].state = "RUNNING" /\ k[p].call # "sbrk"
  BY <1>1, EnterFacts, UserFields
<1>3. /\ Sane(Stacks, Hands, Dirs, mem', free)
      /\ \A e \in Dirs \ {SDir(p)} : Agree(mem, mem', e[3])
      /\ Layout(mem', ptable[p].pgdir, ptable[p].brk, FALSE)
      /\ SameBelow(mem, mem', ptable[p].pgdir, ptable[p].brk)
  BY <1>1, <1>2, VmasFreed
<1>4. Frame(User, ptable[p].brk)
  BY UserFields DEF Frame
<1>q. QED
  BY <1>1, <1>3, <1>4, UserFields, UserFrame, TypeParts, EntersOwnOK

(* exit() drops its areas before it takes ptable.lock. *)
LEMMA ExitOK ==
    ASSUME IInv, NEW p \in Slots, Exit(p)
    PROVE  StepGood
<1>0. PICK f : f = [User EXCEPT !.pc = "exiting"]
  OBVIOUS
<1>1. /\ Enter(p, f) /\ mem' = ProcFreeVmas(mem, p) /\ ptable' = [ptable EXCEPT ![p].fb = FALSE]
      /\ UNCHANGED <<free, ptlock, cr3, panic, calls>>
  BY <1>0 DEF Exit
<1>2. ptable[p].state = "RUNNING" /\ k[p].call # "sbrk"
  BY <1>1, EnterFacts, UserFields
<1>3. /\ Sane(Stacks, Hands, Dirs, mem', free)
      /\ \A e \in Dirs \ {SDir(p)} : Agree(mem, mem', e[3])
      /\ Layout(mem', ptable[p].pgdir, ptable[p].brk, FALSE)
      /\ SameBelow(mem, mem', ptable[p].pgdir, ptable[p].brk)
  BY <1>1, <1>2, VmasFreed
<1>4. /\ f \in Frames /\ f.call = "none" /\ f.pc = "exiting" /\ f.mem = 0 /\ f.d = 0
      /\ Frame(f, ptable[p].brk)
  <2>1. f \in Frames /\ f.call = "none" /\ f.pc = "exiting" /\ f.mem = 0 /\ f.d = 0 /\ f.a = 0
    BY <1>0, UserFrame, UserFields DEF Frames
  <2>q. QED
    BY <1>0, <2>1 DEF Frame
<1>q. QED
  BY <1>1, <1>3, <1>4, TypeParts, EntersOwnOK

(* mmap meets no present entry: without the area nothing is mapped there. *)
LEMMA MmapOK ==
    ASSUME IInv, NEW p \in Slots, Mmap(p)
    PROVE  StepGood
<1> DEFINE d == ptable[p].pgdir
           has == HasTable(d, FB_MMAP_BASE)
<1>0. PICK o : o = IF has THEN mem ELSE WithTable(mem, d, FB_MMAP_BASE, Page)
  OBVIOUS
<1>1. /\ Enter(p, User) /\ calls < MaxCalls /\ calls' = calls + 1
      /\ ~ptable[p].fb /\ (has \/ CanAlloc)
      /\ panic' = \E va \in FbRange : Remap(d, va)
      /\ mem' = SetPtes(o, d, FB_MMAP_BASE, FB_MMAP_BASE + FbPages, DEV)
      /\ free' = IF has THEN free ELSE free \ {Page}
      /\ ptable' = [ptable EXCEPT ![p].fb = TRUE]
      /\ ptlock' = ptlock /\ cr3' = cr3
  BY <1>0 DEF Mmap, Call
<1>2. ptable[p].state = "RUNNING" /\ Layout(mem, d, ptable[p].brk, ptable[p].fb)
  BY <1>1, EnterFacts
<1>3. /\ SDir(p) \in Dirs /\ SDir(p)[3] = d /\ ptable[p].fb = FALSE
      /\ ptable[p].brk \in Nat /\ ptable[p].brk <= FB_MMAP_BASE
  BY <1>1, <1>2, RunningFacts, Sizes, TypeParts, Types
<1>4. panic' = panic
  <2>1. \A va \in FbRange : va \in VAs /\ ~(va < ptable[p].brk)
    BY <1>3, Sizes DEF FbRange, VAs
  <2>2. \A va \in FbRange : ~Remap(d, va)
    BY <1>2, <1>3, <2>1 DEF Layout, Remap
  <2>q. QED
    BY <1>1, <2>2 DEF IInv, TypeOK
<1>5. FindsTable(mem, o, free, free', SDir(p)[3], FB_MMAP_BASE)
  <2>1. CASE has
    BY <1>0, <1>1, <1>3, <2>1 DEF FindsTable, HasTable
  <2>2. CASE ~has
    <3>1. Page \in free
      BY <1>1, <2>2, TypeParts, PageIsFree
    <3>2. o = WithTable(mem, d, FB_MMAP_BASE, Page) /\ free' = free \ {Page} /\ mem[d][PDX(FB_MMAP_BASE)] = 0
      BY <1>0, <1>1, <2>2 DEF HasTable
    <3>q. QED
      BY <1>3, <3>1, <3>2 DEF FindsTable
  <2>q. QED
    BY <2>1, <2>2
<1>6. AddsDevice(o, mem', SDir(p)[3]) /\ WithoutFb(mem, SDir(p)[3], ptable[p].brk)
  BY <1>1, <1>2, <1>3 DEF AddsDevice, WithoutFb
<1>7. Sane(Stacks, Hands, Dirs, mem, free)
  BY DEF IInv
<1> HIDE DEF d, has
<1>8. /\ Sane(Stacks, Hands, Dirs, mem', free')
      /\ \A e \in Dirs \ {SDir(p)} : Agree(mem, mem', e[3])
      /\ WithFb(mem', SDir(p)[3], ptable[p].brk) /\ SameBelow(mem, mem', SDir(p)[3], ptable[p].brk)
      /\ FbMapped(mem', SDir(p)[3])
  <2>1. PICK D \in Dirs : D = SDir(p)
    BY <1>3
  <2>2. PICK top \in Nat : top = ptable[p].brk /\ top <= FB_MMAP_BASE
    BY <1>3
  <2>3. /\ Sane(Stacks, Hands, Dirs, mem, free) /\ MapsDevice(mem, mem', free, free', D[3], top)
        /\ top <= FB_MMAP_BASE
    BY <1>5, <1>6, <1>7, <2>1, <2>2 DEF MapsDevice
  <2>4. /\ Sane(Stacks, Hands, Dirs, mem', free')
        /\ \A e \in Dirs \ {D} : Agree(mem, mem', e[3])
        /\ WithFb(mem', D[3], top) /\ FbMapped(mem', D[3]) /\ SameBelow(mem, mem', D[3], top)
    BY <2>3, AddDevice
  <2>q. QED
    BY <2>1, <2>2, <2>4
<1>9. Frame(User, ptable[p].brk) /\ calls' \in 0..MaxCalls
  <2>1. calls' \in 0..MaxCalls
    BY <1>1, TypeParts, AddressSpaceAssumption
  <2>q. QED
    BY <2>1, UserFields DEF Frame
<1>q. QED
  BY <1>1, <1>3, <1>4, <1>8, <1>9, UserFields, UserFrame, EntersOwnOK DEF d, WithFb

(* sbrk() with a negative argument frees the pages above the new end. *)
LEMMA SbrkShrinkOK ==
    ASSUME IInv, NEW p \in Slots, NEW n \in Deltas, SbrkShrink(p, n)
    PROVE  StepGood
<1> DEFINE d == ptable[p].pgdir
           brk == ptable[p].brk
           sz == ptable[p].brk - n
<1>0. PICK f : f = [User EXCEPT !.pc = "allocvm", !.call = "sbrk", !.a = sz, !.end = sz]
  OBVIOUS
<1>1. /\ sz > 0 /\ Enter(p, f)
      /\ mem' = Deallocvm(mem, d, brk, sz) /\ free' = free \cup Mapped(mem, d, sz, brk)
      /\ UNCHANGED <<ptable, ptlock, cr3, panic, calls>>
  BY <1>0 DEF SbrkShrink
<1>2. ptable[p].state = "RUNNING" /\ Layout(mem, d, brk, ptable[p].fb)
  BY <1>1, EnterFacts
<1>3. /\ SDir(p) \in Dirs /\ SDir(p)[3] = d /\ ptable[p].fb \in BOOLEAN
      /\ brk \in Nat /\ brk <= FB_MMAP_BASE /\ brk <= KERNBASE
  BY <1>2, RunningFacts, Sizes, TypeParts, Types
<1>4. sz \in Nat /\ sz < brk
  BY <1>1, <1>3, AddressSpaceAssumption
<1>5. Sane(Stacks, Hands, Dirs, mem, free)
  BY DEF IInv
<1>6. /\ f \in Frames /\ f.call = "sbrk" /\ f.pc = "allocvm" /\ f.mem = 0 /\ f.d = 0
      /\ f.a = sz /\ f.end = sz
  <2>1. sz \in 0..FB_MMAP_BASE /\ sz \in 0..KERNBASE
    BY <1>3, <1>4, Sizes
  <2> HIDE DEF sz
  <2>q. QED
    BY <1>0, <2>1, UserFrame, UserFields DEF Frames
<1>7. mem' = Deallocvm(mem, SDir(p)[3], brk, sz) /\ free' = free \cup Mapped(mem, SDir(p)[3], sz, brk)
  BY <1>1, <1>3
<1>8. ptable' = [ptable EXCEPT ![p].fb = ptable[p].fb]
  BY <1>1, TypeParts DEF Procs
<1> HIDE DEF d, brk, sz
<1>9. /\ Sane(Stacks, Hands, Dirs, mem', free')
      /\ \A e \in Dirs \ {SDir(p)} : Agree(mem, mem', e[3])
      /\ ClearsPtes(mem, mem', SDir(p)[3], sz, brk)
  BY <1>3, <1>4, <1>5, <1>7, Unmap
<1>10. Layout(mem', d, sz, ptable[p].fb)
  <2>1. \A va \in VAs : va \in Int
    BY Sizes DEF VAs
  <2>q. QED
    BY <1>2, <1>3, <1>4, <1>9, <2>1, Sizes DEF Layout, ClearsPtes
<1>11. Frame(f, brk) /\ f.end < brk
  BY <1>4, <1>6 DEF Frame
<1>12. SameDevice(mem, mem', d)
  <2>1. \A va \in FbRange : va \in VAs /\ va \notin sz..(brk - 1)
    BY <1>3, <1>4, Sizes DEF FbRange, VAs
  <2>q. QED
    BY <1>3, <1>9, <2>1 DEF ClearsPtes, SameDevice
<1>q. QED
  BY <1>1, <1>3, <1>6, <1>8, <1>9, <1>10, <1>11, <1>12, TypeParts, EntersOwnOK DEF d, brk
-----------------------------------------------------------------------------
(* exec's end, fork's end and wait *)

(* exec() frees the directory it has left. *)
LEMMA ExecFreeOldOK ==
    ASSUME IInv, NEW p \in Slots, ExecFreeOld(p)
    PROVE  StepGood
<1>0. /\ At(p, "freeold") /\ Freevm(k[p].d, {}) /\ k' = [k EXCEPT ![p] = User]
      /\ UNCHANGED <<ptable, ptlock, cr3, tlb, panic, calls>>
  BY DEF ExecFreeOld, Return
<1>1. /\ ptable[p].state = "RUNNING" /\ k[p].pc = "freeold" /\ Frame(k[p], ptable[p].brk)
      /\ SDir(p) \in Dirs /\ SDir(p)[3] = ptable[p].pgdir
      /\ k[p].d # 0 => CDir(p) \in Dirs /\ CDir(p)[3] = k[p].d
      /\ Sane(Stacks, Hands, Dirs, mem, free)
  BY <1>0, CallFacts
<1>2. k[p].call = "exec_stack" /\ k[p].d # 0 /\ k[p].mem = 0
  BY <1>1 DEF Frame
<1>3. k' \in [Slots -> Frames] /\ k'[p] = User /\ \A s \in Slots \ {p} : k'[s] = k[s]
  BY <1>0, TypeParts, UserFrame
<1>4. Stacks' = Stacks /\ Hands' = Hands /\ Dirs' = Dirs \ {CDir(p)}
  <2>1. StacksKept /\ HandsKept /\ SlotDirsKept
    BY <1>0, <1>2, <1>3, UserFields DEF StacksKept, HandsKept, SlotDirsKept, Alive
  <2>q. QED
    BY <1>3, <2>1, UserFields, SameStacks, SameHands, LosesCallDir
<1>5. mem' = Kfree(mem, FreevmOf(mem, CDir(p)[3])) /\ free' = free \cup FreevmOf(mem, CDir(p)[3])
  <2>1. FreevmPages(k[p].d) \cup {} = FreevmOf(mem, CDir(p)[3])
    BY <1>1, <1>2 DEF FreevmPages, FreevmOf
  <2>q. QED
    BY <1>0, <2>1 DEF Freevm
<1>6. /\ Sane(Stacks, Hands, Dirs \ {CDir(p)}, mem', free')
      /\ \A e \in Dirs \ {CDir(p)} : Agree(mem, mem', e[3])
  BY <1>1, <1>2, <1>5, FreeDir
<1>7. (\A s \in Slots \ {p} : SeesSame(s)) /\ Agree(mem, mem', ptable[p].pgdir)
  <2>1. {CDir(p)} \subseteq {SDir(p), CDir(p)} /\ SDir(p) # CDir(p)
    BY DEF SDir, CDir
  <2>2. \A s \in Slots \ {p} : SeesSame(s)
    BY <1>6, <2>1, OthersSeeSame
  <2>q. QED
    BY <1>1, <1>6, <2>1, <2>2
<1>8. Frame(k'[p], ptable[p].brk) /\ ForkAt(p)' /\ ~Filling(p)'
  BY <1>3, UserFields DEF Frame, ForkAt, Filling
<1>q. QED
  BY <1>0, <1>1, <1>2, <1>3, <1>4, <1>6, <1>7, <1>8, UserFields, TypeParts, CallStepOK

(* exec swaps the directory of the process with the one it built. *)
LEMMA SwapsDirs ==
    ASSUME NEW q \in Alive, k[q].d # 0, ptable[q].pgdir # 0, ptable[q].pgdir # k[q].d,
           Alive' = Alive, ptable'[q].pgdir = k[q].d, k'[q].d = ptable[q].pgdir,
           \A s \in Slots \ {q} : ptable'[s].pgdir = ptable[s].pgdir /\ k'[s].d = k[s].d
    PROVE  Dirs' = (((Dirs \ {SDir(q)}) \cup {CDir(q)'}) \ {CDir(q)}) \cup {SDir(q)'}
<1>1. CallDirs' = (CallDirs \ {CDir(q)}) \cup {CDir(q)'}
  BY DEF CallDirs, CDir, Alive
<1>2. SlotDirs' = (SlotDirs \ {SDir(q)}) \cup {SDir(q)'}
  BY DEF SlotDirs, SDir, Alive
<1>3. /\ CDir(q) \notin SlotDirs /\ CDir(q)' \notin SlotDirs /\ CDir(q)' # CDir(q)
      /\ SDir(q) \notin CallDirs /\ SDir(q)' \notin CallDirs /\ SDir(q) # CDir(q)' /\ SDir(q)' # CDir(q)
  BY DEF SlotDirs, CallDirs, SDir, CDir
<1>q. QED
  BY <1>1, <1>2, <1>3 DEF Dirs

ExecCommits(p) ==
    /\ mem' = ProcFreeVmas(mem, p)
    /\ ptable' = [ptable EXCEPT ![p].pgdir = k[p].d, ![p].brk = k[p].end, ![p].fb = FALSE]
    /\ k' = [k EXCEPT ![p].d = ptable[p].pgdir, ![p].pc = "activate"]
    /\ free' = free

NewImage(r, d, sz) == [r EXCEPT !.pgdir = d, !.brk = sz, !.fb = FALSE]

(* The slot of a process whose exec has succeeded. *)
LEMMA NewImageFields ==
    ASSUME NEW r \in Procs, NEW d \in Pages, NEW sz \in 0..FB_MMAP_BASE, NEW q, q = NewImage(r, d, sz)
    PROVE  /\ q \in Procs /\ q.state = r.state /\ q.pgdir = d /\ q.brk = sz
           /\ ~q.fb /\ q.kstack = r.kstack
BY DEF Procs, NewImage

(* The directory that exec filled becomes the slot's, and the old one the  *)
(* call's.                                                                 *)
LEMMA ExecCommitsOK ==
    ASSUME IInv, NEW p \in Slots, At(p, "allocvm"), k[p].call = "exec_stack", k[p].a = k[p].end,
           ExecCommits(p), UNCHANGED <<ptlock, cr3, tlb, panic, calls>>
    PROVE  StepGood
<1>1. /\ ptable[p].state = "RUNNING" /\ k[p].pc = "allocvm" /\ Frame(k[p], ptable[p].brk) /\ p \in Alive
      /\ SDir(p) \in Dirs /\ SDir(p)[3] = ptable[p].pgdir
      /\ k[p].d # 0 => CDir(p) \in Dirs /\ CDir(p)[3] = k[p].d /\ k[p].d \in Pages
      /\ Sane(Stacks, Hands, Dirs, mem, free) /\ LayoutAt(p)
  BY CallFacts
<1>2. k[p].d # 0 /\ k[p].mem = 0 /\ k[p].end \in 0..FB_MMAP_BASE /\ ptable[p].pgdir \in Pages /\ ptable[p].pgdir # 0
  <2>1. ptable[p].pgdir \in Pages /\ ptable[p].pgdir # 0
    BY <1>1, PgdirIsPage, RunningFacts
  <2>2. k[p].a \in 0..FB_MMAP_BASE
    BY TypeParts, Types
  <2>q. QED
    BY <1>1, <2>1, <2>2 DEF Frame
<1>3. /\ ptable' \in [Slots -> Procs] /\ \A s \in Slots \ {p} : ptable'[s] = ptable[s]
      /\ ptable'[p].state = "RUNNING" /\ ptable'[p].pgdir = k[p].d /\ ptable'[p].brk = k[p].end
      /\ ptable'[p].fb = FALSE /\ ptable'[p].kstack = ptable[p].kstack
  <2>1. ptable \in [Slots -> Procs] /\ ptable[p] \in Procs
    BY TypeParts
  <2>2. ptable' = [ptable EXCEPT ![p] = NewImage(ptable[p], k[p].d, k[p].end)]
    BY <2>1 DEF ExecCommits, NewImage
  <2>3. /\ ptable'[p] = NewImage(ptable[p], k[p].d, k[p].end)
        /\ \A s \in Slots \ {p} : ptable'[s] = ptable[s]
    BY <2>1, <2>2
  <2>4. /\ ptable'[p] \in Procs
        /\ ptable'[p].state = "RUNNING" /\ ptable'[p].pgdir = k[p].d /\ ptable'[p].brk = k[p].end
        /\ ~ptable'[p].fb /\ ptable'[p].kstack = ptable[p].kstack
    <3>1. k[p].d \in Pages /\ ptable[p].state = "RUNNING"
      BY <1>1, <1>2
    <3>q. QED
      BY <1>2, <2>1, <2>3, <3>1, NewImageFields
  <2>5. ptable'[p].fb = FALSE
    BY <2>4 DEF Procs
  <2>q. QED
    BY <2>1, <2>2, <2>3, <2>4, <2>5
<1>4. /\ k' \in [Slots -> Frames] /\ \A s \in Slots \ {p} : k'[s] = k[s]
      /\ k'[p].pc = "activate" /\ k'[p].call = "exec_stack" /\ k'[p].d = ptable[p].pgdir
      /\ k'[p].mem = 0 /\ k'[p].a = k[p].a /\ k'[p].end = k[p].end
  <2>1. k \in [Slots -> Frames] /\ k[p] \in Frames
    BY TypeParts
  <2>2. k' = [k EXCEPT ![p] = GetsDir(k[p], ptable[p].pgdir, "activate")]
    BY <2>1 DEF ExecCommits, GetsDir
  <2>3. k'[p] = GetsDir(k[p], ptable[p].pgdir, "activate") /\ \A s \in Slots \ {p} : k'[s] = k[s]
    BY <2>1, <2>2
  <2>4. /\ k'[p] \in Frames
        /\ k'[p].pc = "activate" /\ k'[p].call = "exec_stack" /\ k'[p].d = ptable[p].pgdir
        /\ k'[p].mem = 0 /\ k'[p].a = k[p].a /\ k'[p].end = k[p].end
    BY <1>2, <2>1, <2>3, GetsDirFields
  <2>q. QED
    BY <2>1, <2>2, <2>3, <2>4
<1>5. /\ Sane(Stacks, Hands, Dirs, mem', free)
      /\ \A e \in Dirs \ {SDir(p)} : Agree(mem, mem', e[3])
  <2>1. ptable[p].state = "RUNNING" /\ k[p].call # "sbrk" /\ mem' = ProcFreeVmas(mem, p)
    BY <1>1 DEF ExecCommits
  <2>q. QED
    BY <2>1, VmasFreed
<1>6. CDir(p) \in Dirs \ {SDir(p)} /\ ptable[p].pgdir # k[p].d
  <2>1. CDir(p) # SDir(p)
    BY DEF CDir, SDir
  <2>2. \A e \in Dirs : e[3] = SDir(p)[3] => e = SDir(p)
    <3>1. Sane(Stacks, Hands, Dirs, mem, free) /\ SDir(p) \in Dirs
      BY <1>1
    <3>q. QED
      BY <3>1, Apart
  <2>q. QED
    BY <1>1, <1>2, <2>1, <2>2
<1>7. Sane(Stacks', Hands', Dirs', mem', free')
  <2>1. StacksKept /\ HandsKept /\ Alive' = Alive
    BY <1>1, <1>2, <1>3, <1>4 DEF StacksKept, HandsKept, Alive
  <2>2. Stacks' = Stacks /\ Hands' = Hands
    BY <2>1, SameStacks, SameHands
  <2>3. PICK x, y : /\ x = CDir(p)' /\ y = SDir(p)'
                    /\ x[1] \in {"call", "slot"} /\ x[3] = SDir(p)[3]
                    /\ y[1] \in {"call", "slot"} /\ y[3] = CDir(p)[3]
    <3>1. CDir(p)' = <<"call", <<p, 0>>, ptable[p].pgdir>> /\ SDir(p)' = <<"slot", <<p, 0>>, k[p].d>>
      BY <1>3, <1>4 DEF CDir, SDir
    <3>q. QED
      BY <1>1, <1>2, <3>1
  <2>4. Dirs' = (((Dirs \ {SDir(p)}) \cup {x}) \ {CDir(p)}) \cup {y}
    BY <1>1, <1>2, <1>3, <1>4, <1>6, <2>1, <2>3, SwapsDirs
  <2>5. Sane(Stacks, Hands, (Dirs \ {SDir(p)}) \cup {x}, mem', free)
    BY <1>1, <1>5, <2>3, MoveDir
  <2>6. CDir(p) \in (Dirs \ {SDir(p)}) \cup {x}
    BY <1>6
  <2> DEFINE E == (Dirs \ {SDir(p)}) \cup {x}
  <2>7. Sane(Stacks, Hands, (E \ {CDir(p)}) \cup {y}, mem', free)
    <3>1. Sane(Stacks, Hands, E, mem', free) /\ CDir(p) \in E
      BY <2>5, <2>6
    <3> HIDE DEF E
    <3>q. QED
      BY <2>3, <3>1, MoveDir
  <2>q. QED
    BY <2>2, <2>4, <2>7 DEF ExecCommits
<1>8. \A s \in Slots \ {p} : SeesSame(s)
  <2>1. {SDir(p)} \subseteq {SDir(p), CDir(p)}
    OBVIOUS
  <2>q. QED
    BY <1>5, <2>1, OthersSeeSame
<1>9. Layout(mem', k[p].d, k[p].end, FALSE)
  <2>1. Layout(mem, k[p].d, k[p].end, FALSE)
    BY <1>1 DEF LayoutAt, Filling
  <2>2. Agree(mem, mem', k[p].d)
    BY <1>1, <1>2, <1>5, <1>6
  <2>q. QED
    BY <2>1, <2>2, AgreeLayout
<1>10. SlotInv(p)'
  <2>1. SlotAt(p) /\ Cr3At(p) /\ ptlock # p
    BY <1>1, RunningFacts DEF IInv, SlotInv
  <2>2. FrameAt(p)' /\ ForkAt(p)'
    BY <1>2, <1>3, <1>4, <2>1 DEF FrameAt, ForkAt, Frame
  <2>3. SlotAt(p)'
    BY <1>1, <1>2, <1>3, <1>4, <2>1 DEF SlotAt, Alive
  <2>4. LayoutAt(p)'
    BY <1>3, <1>4, <1>9 DEF LayoutAt, Filling, Top
  <2>5. Cr3At(p)'
    BY <1>1, <1>3, <1>4, <2>1 DEF Cr3At
  <2>6. TlbAt(p)'
    BY <1>4 DEF TlbAt
  <2>q. QED
    BY <2>2, <2>3, <2>4, <2>5, <2>6 DEF SlotInv
<1>11. FbKept(p)
  BY <1>3, SameFb
<1>q. QED
  BY <1>1, <1>3, <1>4, <1>7, <1>8, <1>10, <1>11, TypeParts, OwnStepOK

(* exec() reaches its commit. *)
LEMMA ExecCommitOK ==
    ASSUME IInv, NEW p \in Slots, ExecCommit(p)
    PROVE  StepGood
<1>0. /\ At(p, "allocvm") /\ k[p].call = "exec_stack" /\ k[p].a = k[p].end
      /\ UNCHANGED <<ptlock, cr3, tlb, panic, calls>>
  BY DEF ExecCommit
<1>1. k[p].mem = 0
  BY <1>0, CallFacts DEF Frame
<1>2. CASE Fails(p, {})
  BY <1>0, <1>1, <1>2, FailsOK
<1>3. CASE ExecCommits(p)
  BY <1>0, <1>3, ExecCommitsOK
<1>q. QED
  BY <1>2, <1>3 DEF ExecCommit, ExecCommits

(* A parent reaps a zombie that has left its stack and its directory. *)
LEMMA WaitOK ==
    ASSUME IInv, NEW p \in Slots, NEW c \in Slots, Wait(p, c)
    PROVE  StepGood
<1>0. /\ ptlock = 0 /\ ptable[c].state = "ZOMBIE" /\ Enter(p, User)
      /\ Freevm(ptable[c].pgdir, {ptable[c].kstack})
      /\ ptable' = [ptable EXCEPT ![c] = UNUSED]
      /\ UNCHANGED <<ptlock, cr3, panic, calls>>
  BY DEF Wait
<1>1. /\ ptable[p].state = "RUNNING" /\ k[p] = User /\ cr3[p] = ptable[p].pgdir
      /\ Layout(mem, ptable[p].pgdir, ptable[p].brk, ptable[p].fb)
      /\ tlb' \in [Slots -> SUBSET Pages]
      /\ tlb'[p] \subseteq Mapped(mem, ptable[p].pgdir, 0, ptable[p].brk)
      /\ k'[p] = User
      /\ \A s \in Slots \ {p} : tlb'[s] = tlb[s] /\ k'[s] = k[s]
  BY <1>0, EnterFacts
<1>2. c # p /\ c \in Alive /\ p \in Alive
  BY <1>0, <1>1 DEF Alive
<1>3. k[c] = User /\ cr3[c] = kpgdir /\ tlb[c] = {} /\ 0 \notin Slots
  <2>1. FrameAt(c) /\ Cr3At(c) /\ 0 \notin Slots
    BY DEF IInv, SlotInv, Slots
  <2>q. QED
    BY <1>0, <2>1 DEF FrameAt, Frame, Cr3At
<1>4. k' \in [Slots -> Frames]
  <2>1. k' = [k EXCEPT ![p] = User]
    BY <1>0 DEF Enter
  <2>q. QED
    BY <2>1, TypeParts, UserFrame
<1>5. /\ ptable' \in [Slots -> Procs] /\ \A s \in Slots \ {c} : ptable'[s] = ptable[s]
      /\ ptable'[c].state = "UNUSED" /\ ptable'[c].kstack = 0
  <2>1. UNUSED \in Procs /\ UNUSED.state = "UNUSED" /\ UNUSED.kstack = 0
    BY Sizes DEF UNUSED, Procs
  <2>q. QED
    BY <1>0, <2>1, TypeParts
<1>6. /\ SDir(c) \in Dirs /\ SDir(c)[3] = ptable[c].pgdir
      /\ SDir(p) \in Dirs \ {SDir(c)} /\ SDir(p)[3] = ptable[p].pgdir
      /\ StackOf(c) \in Stacks /\ StackOf(c)[3] = ptable[c].kstack /\ ptable[c].kstack # 0
  <2>1. /\ SDir(c) \in Dirs /\ SDir(c)[3] = ptable[c].pgdir
        /\ SDir(p) \in Dirs /\ SDir(p)[3] = ptable[p].pgdir
    BY <1>2, OwnDirs
  <2>2. SDir(p) # SDir(c)
    BY <1>2 DEF SDir
  <2>3. ptable[c].kstack # 0
    BY <1>2 DEF IInv, SlotInv, SlotAt
  <2>4. StackOf(c) \in Stacks /\ StackOf(c)[3] = ptable[c].kstack
    BY <2>3 DEF StackOf, Stacks
  <2>q. QED
    BY <2>1, <2>2, <2>3, <2>4
<1>7. Stacks' = Stacks \ {StackOf(c)} /\ Hands' = Hands /\ Dirs' = Dirs \ {SDir(c)}
  <2>1. Stacks' = Stacks \ {StackOf(c)}
    BY <1>5, LosesStack
  <2>2. HandsKept /\ CallDirsKept
    BY <1>1 DEF HandsKept, CallDirsKept
  <2>3. c \notin Alive' /\ \A s \in Slots \ {c} : (s \in Alive' <=> s \in Alive)
                              /\ (s \in Alive => ptable'[s].pgdir = ptable[s].pgdir)
    BY <1>5 DEF Alive
  <2>4. k[c].d = 0
    BY <1>3, UserFields
  <2>q. QED
    BY <2>1, <2>2, <2>3, <2>4, SameHands, LosesSlotDir
<1> DEFINE R == {StackOf(c)}
           Y == FreevmOf(mem, SDir(c)[3]) \cup {h[3] : h \in R}
<1>8. mem' = Kfree(mem, Y) /\ free' = free \cup Y
  <2>1. FreevmPages(ptable[c].pgdir) = FreevmOf(mem, SDir(c)[3])
    BY <1>6 DEF FreevmPages, FreevmOf
  <2>2. Y = FreevmPages(ptable[c].pgdir) \cup {ptable[c].kstack}
    BY <1>6, <2>1
  <2> HIDE DEF Y
  <2>q. QED
    BY <1>0, <2>2 DEF Freevm
<1>9. R \in SUBSET (Stacks \cup Hands) /\ Hands \ R = Hands
  <2>1. StackOf(c) \notin Hands
    BY DEF StackOf, Hands
  <2>q. QED
    BY <1>6, <2>1
<1>10. /\ Sane(Stacks \ R, Hands \ R, Dirs \ {SDir(c)}, Kfree(mem, Y), free \cup Y)
       /\ \A e \in Dirs \ {SDir(c)} : Agree(mem, Kfree(mem, Y), e[3])
  <2>1. Sane(Stacks, Hands, Dirs, mem, free)
    BY DEF IInv
  <2> HIDE DEF R
  <2>q. QED
    BY <1>6, <1>9, <2>1, FreeDirAndSome
<1> HIDE DEF Y
<1>11. Sane(Stacks', Hands', Dirs', mem', free') /\ \A e \in Dirs \ {SDir(c)} : Agree(mem, mem', e[3])
  BY <1>7, <1>8, <1>9, <1>10
<1>12. \A s \in Slots \ {c} : SeesSame(s)
  <2>1. {SDir(c)} \subseteq {SDir(c), CDir(c)}
    OBVIOUS
  <2>q. QED
    BY <1>11, <2>1, OthersSeeSame
<1>13. panic' = FALSE
  BY <1>0 DEF IInv, TypeOK
<1>14. TypeOK'
  BY <1>0, <1>1, <1>4, <1>5, <1>11, <1>13, TypeParts, TypeStep
<1>15. NpUnique'
  <2>1. \A s \in Slots : k'[s].call = "fork" => k[s].call = "fork" /\ k'[s].np = k[s].np
    BY <1>1, UserFields
  <2>q. QED
    BY <2>1 DEF IInv, NpUnique
<1>16. \A s \in Slots \ {p, c} : Kept(s) /\ SeesSame(s)
  BY <1>0, <1>1, <1>5, <1>12 DEF Kept
<1>17. \A s \in Slots \ {p, c} : k[s].call = "fork" => k[s].np \notin {p, c}
  BY <1>0, <1>1 DEF IInv, SlotInv, ForkAt
<1>18. SlotInv(c)'
  BY <1>0, <1>1, <1>2, <1>3, <1>5, IdleOK
<1>19. SlotInv(p)'
  <2>1. ptable'[p] = ptable[p] /\ ptlock # p /\ SlotAt(p) /\ Agree(mem, mem', ptable[p].pgdir)
        /\ ptable[p].brk \in Nat /\ ptable[p].brk <= KERNBASE
    BY <1>1, <1>2, <1>5, <1>6, <1>11, RunningFacts, Sizes DEF IInv, SlotInv
  <2>2. FrameAt(p)' /\ ForkAt(p)'
    BY <1>0, <1>1, <2>1, UserFields DEF FrameAt, ForkAt, Frame
  <2>3. SlotAt(p)' /\ Cr3At(p)'
    BY <1>0, <1>1, <2>1, UserFields DEF SlotAt, Cr3At, Alive
  <2>4. Layout(mem', ptable[p].pgdir, ptable[p].brk, ptable[p].fb)
    BY <1>1, <2>1, AgreeLayout
  <2>5. LayoutAt(p)'
    BY <1>1, <2>1, <2>4, UserFields DEF LayoutAt, Top, Filling
  <2>6. Mapped(mem', ptable[p].pgdir, 0, ptable[p].brk) = Mapped(mem, ptable[p].pgdir, 0, ptable[p].brk)
    BY <2>1, AgreeMapped
  <2>7. TlbAt(p)'
    BY <1>1, <2>1, <2>6 DEF TlbAt
  <2>q. QED
    BY <2>2, <2>3, <2>5, <2>7 DEF SlotInv
<1>20. FbKept(c)
  BY <1>5, SameFb
<1>21. FbKept(p)
  BY <1>1, <1>2, <1>5, <1>6, <1>11, SameFb
<1>q. QED
  BY <1>11, <1>13, <1>14, <1>15, <1>16, <1>17, <1>18, <1>19, <1>20, <1>21, StepOK

Child(r, d, brk, fb) == [r EXCEPT !.pgdir = d, !.brk = brk, !.fb = fb]
LostChild(r) == [r EXCEPT !.kstack = 0, !.fb = FALSE, !.state = "UNUSED"]

(* The slot of a child whose memory has been copied. *)
LEMMA ChildFields ==
    ASSUME NEW r \in Procs, NEW d \in Pages, NEW brk \in 0..FB_MMAP_BASE, NEW fb \in BOOLEAN,
           NEW q, q = Child(r, d, brk, fb)
    PROVE  /\ q \in Procs /\ q.state = r.state /\ q.pgdir = d /\ q.brk = brk
           /\ q.kstack = r.kstack /\ q.fb = fb
BY DEF Procs, Child

(* The slot of a child whose fork failed. *)
LEMMA LostChildFields ==
    ASSUME NEW r \in Procs, NEW q, q = LostChild(r)
    PROVE  q \in Procs /\ q.state = "UNUSED" /\ q.kstack = 0
BY DEF Procs, LostChild

(* fork with no page for the framebuffer's table *)
LEMMA CloneVmasFails ==
    ASSUME IInv, NEW p \in Slots, At(p, "copyuvm"), NEW np \in Slots, np = k[p].np,
           NEW r \in Procs, r.state = "UNUSED", r.kstack = 0,
           Freevm(k[p].d, {ptable[np].kstack}), ptable' = [ptable EXCEPT ![np] = r], Return(p),
           UNCHANGED <<ptlock, cr3, tlb, panic, calls>>
    PROVE  StepGood
<1>1. /\ ptable[p].state = "RUNNING" /\ k[p].pc = "copyuvm" /\ Frame(k[p], ptable[p].brk)
      /\ SDir(p) \in Dirs /\ SDir(p)[3] = ptable[p].pgdir
      /\ k[p].d # 0 => CDir(p) \in Dirs /\ CDir(p)[3] = k[p].d
      /\ Sane(Stacks, Hands, Dirs, mem, free)
  BY CallFacts
<1>2. k[p].call = "fork" /\ k[p].d # 0 /\ k[p].mem = 0
  BY <1>1 DEF Frame
<1>3. /\ np # p /\ np \notin Alive /\ ptable[np].state = "EMBRYO" /\ ptable[np].kstack # 0
      /\ StackOf(np) \in Stacks /\ StackOf(np)[3] = ptable[np].kstack
  BY <1>1, <1>2, ForkFacts
<1>4. k' \in [Slots -> Frames] /\ k'[p] = User /\ \A s \in Slots \ {p} : k'[s] = k[s]
  BY TypeParts, UserFrame DEF Return
<1>5. /\ ptable' \in [Slots -> Procs] /\ ptable'[np] = r /\ ptable'[p] = ptable[p]
      /\ \A s \in Slots \ {np} : ptable'[s] = ptable[s]
  BY <1>3, TypeParts
<1>6. Stacks' = Stacks \ {StackOf(np)} /\ Hands' = Hands /\ Dirs' = Dirs \ {CDir(p)}
  <2>1. HandsKept /\ SlotDirsKept
    BY <1>2, <1>3, <1>4, <1>5, UserFields DEF HandsKept, SlotDirsKept, Alive
  <2>q. QED
    BY <1>4, <1>5, <2>1, UserFields, LosesStack, SameHands, LosesCallDir
<1> DEFINE R == {StackOf(np)}
           Y == FreevmOf(mem, CDir(p)[3]) \cup {h[3] : h \in R}
<1>7. mem' = Kfree(mem, Y) /\ free' = free \cup Y
  <2>1. FreevmPages(k[p].d) = FreevmOf(mem, CDir(p)[3])
    BY <1>1, <1>2 DEF FreevmPages, FreevmOf
  <2>2. Y = FreevmPages(k[p].d) \cup {ptable[np].kstack}
    BY <1>3, <2>1
  <2> HIDE DEF Y
  <2>q. QED
    BY <2>2 DEF Freevm
<1>8. R \in SUBSET (Stacks \cup Hands) /\ Hands \ R = Hands
  <2>1. StackOf(np) \notin Hands
    BY DEF StackOf, Hands
  <2>q. QED
    BY <1>3, <2>1
<1>9. /\ Sane(Stacks \ R, Hands \ R, Dirs \ {CDir(p)}, Kfree(mem, Y), free \cup Y)
      /\ \A e \in Dirs \ {CDir(p)} : Agree(mem, Kfree(mem, Y), e[3])
  <2>1. Sane(Stacks, Hands, Dirs, mem, free) /\ CDir(p) \in Dirs
    BY <1>1, <1>2
  <2> HIDE DEF R
  <2>q. QED
    BY <1>8, <2>1, FreeDirAndSome
<1> HIDE DEF Y
<1>10. Sane(Stacks', Hands', Dirs', mem', free') /\ \A e \in Dirs \ {CDir(p)} : Agree(mem, mem', e[3])
  BY <1>6, <1>7, <1>8, <1>9
<1>11. (\A s \in Slots \ {p} : SeesSame(s)) /\ Agree(mem, mem', ptable[p].pgdir)
  <2>1. {CDir(p)} \subseteq {SDir(p), CDir(p)} /\ SDir(p) # CDir(p)
    BY DEF SDir, CDir
  <2>2. \A s \in Slots \ {p} : SeesSame(s)
    BY <1>10, <2>1, OthersSeeSame
  <2>q. QED
    BY <1>1, <1>10, <2>1, <2>2
<1>12. Frame(k'[p], ptable[p].brk) /\ ForkAt(p)' /\ ~Filling(p)'
  BY <1>4, UserFields DEF Frame, ForkAt, Filling
<1>q. QED
  BY <1>1, <1>2, <1>4, <1>5, <1>10, <1>11, <1>12, UserFields, CallStepOK

(* fork gives the child its memory, with the framebuffer if it has it. *)
LEMMA CloneVmasGoesOn ==
    ASSUME IInv, NEW p \in Slots, At(p, "copyuvm"), k[p].a = ptable[p].brk, NEW np \in Slots, np = k[p].np,
           ptable' = [ptable EXCEPT ![np] = Child(ptable[np], k[p].d, ptable[p].brk, ptable[p].fb)],
           Goto(p, "forked"), UNCHANGED <<ptlock, cr3, tlb, panic, calls>>,
           Sane(Stacks, Hands, Dirs, mem', free'), \A e \in Dirs \ {CDir(p)} : Agree(mem, mem', e[3]),
           Layout(mem', k[p].d, ptable[p].brk, ptable[p].fb),
           ptable[p].fb => FbMapped(mem', k[p].d)
    PROVE  StepGood
<1>1. /\ ptable[p].state = "RUNNING" /\ k[p].pc = "copyuvm" /\ Frame(k[p], ptable[p].brk)
      /\ SDir(p) \in Dirs /\ SDir(p)[3] = ptable[p].pgdir
      /\ k[p].d # 0 => k[p].d \in Pages
  BY CallFacts
<1>2. k[p].call = "fork" /\ k[p].d # 0 /\ k[p].mem = 0
  BY <1>1 DEF Frame
<1>3. np # p /\ np \notin Alive /\ ptable[np].state = "EMBRYO" /\ ptable[np].kstack # 0
  BY <1>1, <1>2, ForkFacts
<1>4. /\ k' \in [Slots -> Frames] /\ \A s \in Slots \ {p} : k'[s] = k[s]
      /\ k'[p].pc = "forked" /\ k'[p].call = "fork" /\ k'[p].np = np /\ k'[p].d = k[p].d
      /\ k'[p].mem = 0 /\ k'[p].a = k[p].a /\ k'[p].end = k[p].end
  <2>1. k \in [Slots -> Frames] /\ k[p] \in Frames
    BY TypeParts
  <2>2. k' = [k EXCEPT ![p] = Goes(k[p], "forked")]
    BY <2>1 DEF Goto, Goes
  <2>3. k'[p] = Goes(k[p], "forked") /\ \A s \in Slots \ {p} : k'[s] = k[s]
    BY <2>1, <2>2
  <2>4. /\ k'[p] \in Frames
        /\ k'[p].pc = "forked" /\ k'[p].call = k[p].call /\ k'[p].np = k[p].np /\ k'[p].d = k[p].d
        /\ k'[p].mem = k[p].mem /\ k'[p].a = k[p].a /\ k'[p].end = k[p].end
    BY <2>1, <2>3, GoesFields
  <2>q. QED
    BY <1>2, <2>1, <2>2, <2>3, <2>4
<1>5. /\ ptable' \in [Slots -> Procs] /\ ptable'[p] = ptable[p]
      /\ \A s \in Slots \ {np} : ptable'[s] = ptable[s]
      /\ ptable'[np].state = "EMBRYO" /\ ptable'[np].kstack = ptable[np].kstack
      /\ ptable'[np].pgdir = k[p].d /\ ptable'[np].brk = ptable[p].brk /\ ptable'[np].fb = ptable[p].fb
  <2>1. /\ ptable \in [Slots -> Procs] /\ ptable[np] \in Procs /\ k[p].d \in Pages
        /\ ptable[p].brk \in 0..FB_MMAP_BASE /\ ptable[p].fb \in BOOLEAN
    BY <1>1, <1>2, TypeParts, Types
  <2>2. /\ ptable'[np] = Child(ptable[np], k[p].d, ptable[p].brk, ptable[p].fb)
        /\ \A s \in Slots \ {np} : ptable'[s] = ptable[s]
    BY <2>1
  <2>3. /\ ptable'[np] \in Procs /\ ptable'[np].state = ptable[np].state /\ ptable'[np].kstack = ptable[np].kstack
        /\ ptable'[np].pgdir = k[p].d /\ ptable'[np].brk = ptable[p].brk /\ ptable'[np].fb = ptable[p].fb
    BY <2>1, <2>2, ChildFields
  <2>q. QED
    BY <1>3, <2>1, <2>2, <2>3
<1>6. Sane(Stacks', Hands', Dirs', mem', free')
  <2>1. StacksKept /\ HandsKept /\ SlotDirsKept /\ CallDirsKept
    BY <1>2, <1>3, <1>4, <1>5 DEF StacksKept, HandsKept, SlotDirsKept, CallDirsKept, Alive
  <2>2. Stacks' = Stacks /\ Hands' = Hands /\ Dirs' = Dirs
    BY <2>1, SameStacks, SameHands, SameDirs
  <2>q. QED
    BY <2>2
<1>7. (\A s \in Slots \ {p} : SeesSame(s)) /\ Agree(mem, mem', ptable[p].pgdir)
  <2>1. {CDir(p)} \subseteq {SDir(p), CDir(p)} /\ SDir(p) # CDir(p)
    BY DEF SDir, CDir
  <2>2. \A s \in Slots \ {p} : SeesSame(s)
    BY <2>1, OthersSeeSame
  <2>q. QED
    BY <1>1, <2>1, <2>2
<1>8. Frame(k'[p], ptable[p].brk) /\ ~Filling(p)'
  BY <1>2, <1>4 DEF Frame, Filling
<1>9. ForkAt(p)'
  BY <1>3, <1>4, <1>5 DEF ForkAt
<1>q. QED
  BY <1>1, <1>2, <1>4, <1>5, <1>6, <1>7, <1>8, <1>9, CallStepOK

(* fork() copies the areas, and with them the framebuffer's entries, or    *)
(* fails and frees the child.                                              *)
LEMMA CloneVmasOK ==
    ASSUME IInv, NEW p \in Slots, CloneVmas(p)
    PROVE  StepGood
<1>0. At(p, "copyuvm") /\ k[p].a = ptable[p].brk /\ UNCHANGED <<ptlock, cr3, tlb, panic, calls>>
  BY DEF CloneVmas
<1>1. /\ ptable[p].state = "RUNNING" /\ k[p].pc = "copyuvm" /\ Frame(k[p], ptable[p].brk)
      /\ k[p].d # 0 => CDir(p) \in Dirs /\ CDir(p)[3] = k[p].d /\ k[p].d \in Pages
      /\ Sane(Stacks, Hands, Dirs, mem, free) /\ LayoutAt(p)
  BY <1>0, CallFacts
<1>2. k[p].call = "fork" /\ k[p].d # 0 /\ k[p].mem = 0
  BY <1>1 DEF Frame
<1>3. PICK np \in Slots : np = k[p].np
  BY <1>1, <1>2, ForkFacts
<1>4. Layout(mem, k[p].d, ptable[p].brk, FALSE) /\ mem[k[p].d][UserTables] = 0
  BY <1>0, <1>1, <1>2 DEF LayoutAt, Filling
<1>5. ptable[p].brk \in Nat /\ ptable[p].brk <= FB_MMAP_BASE /\ ptable[p].fb \in BOOLEAN
  BY <1>1, RunningFacts, Sizes, TypeParts, Types
<1> DEFINE child == Child(ptable[np], k[p].d, ptable[p].brk, ptable[p].fb)
<1>6. CASE ptable[p].fb /\ ~CanAlloc
  <2>1. /\ Freevm(k[p].d, {ptable[np].kstack}) /\ Return(p)
        /\ ptable' = [ptable EXCEPT ![np] = LostChild(child)]
    BY <1>3, <1>6 DEF CloneVmas, Child, LostChild
  <2>2. child \in Procs
    <3>1. ptable[np] \in Procs /\ ptable[p].brk \in 0..FB_MMAP_BASE /\ k[p].d \in Pages
      BY <1>1, <1>2, TypeParts, Types
    <3>q. QED
      BY <1>5, <3>1, ChildFields
  <2>3. PICK r \in Procs : r = LostChild(child) /\ r.state = "UNUSED" /\ r.kstack = 0
    BY <2>2, LostChildFields
  <2> HIDE DEF child
  <2>4. ptable' = [ptable EXCEPT ![np] = r]
    BY <2>1, <2>3
  <2>q. QED
    BY <1>0, <1>3, <2>1, <2>3, <2>4, CloneVmasFails
<1>7. CASE ~ptable[p].fb
  <2>1. /\ ptable' = [ptable EXCEPT ![np] = child] /\ Goto(p, "forked") /\ mem' = mem /\ free' = free
    BY <1>3, <1>7 DEF CloneVmas, Child
  <2>2. ptable[p].fb = FALSE
    BY <1>5, <1>7
  <2>3. \A e \in Dirs : Agree(mem, mem', e[3])
    BY <2>1 DEF Agree
  <2>q. QED
    BY <1>0, <1>1, <1>3, <1>4, <2>1, <2>2, <2>3, CloneVmasGoesOn
<1>8. CASE ptable[p].fb /\ CanAlloc
  <2>0. ptable[p].fb = TRUE
    BY <1>5, <1>8
  <2>1. PICK o : o = WithTable(mem, k[p].d, FB_MMAP_BASE, Page)
    OBVIOUS
  <2>2. /\ ptable' = [ptable EXCEPT ![np] = child] /\ Goto(p, "forked")
        /\ mem' = SetPtes(o, k[p].d, FB_MMAP_BASE, FB_MMAP_BASE + FbPages, DEV) /\ free' = free \ {Page}
    BY <1>3, <1>8, <2>1 DEF CloneVmas, Child
  <2>3. FindsTable(mem, o, free, free', CDir(p)[3], FB_MMAP_BASE)
    <3>1. Page \in free
      BY <1>8, TypeParts, PageIsFree
    <3>2. PDX(FB_MMAP_BASE) = UserTables
      <4>1. FB_MMAP_BASE \in VAs
        BY Sizes DEF VAs
      <4>q. QED
        BY <4>1, TableOf, Sizes
    <3>q. QED
      BY <1>1, <1>2, <1>4, <2>1, <2>2, <3>1, <3>2 DEF FindsTable
  <2>4. AddsDevice(o, mem', CDir(p)[3]) /\ WithoutFb(mem, CDir(p)[3], ptable[p].brk)
    BY <1>1, <1>2, <1>4, <2>2 DEF AddsDevice, WithoutFb
  <2>5. /\ Sane(Stacks, Hands, Dirs, mem', free')
        /\ \A e \in Dirs \ {CDir(p)} : Agree(mem, mem', e[3])
        /\ WithFb(mem', CDir(p)[3], ptable[p].brk) /\ FbMapped(mem', CDir(p)[3])
    <3>1. PICK D \in Dirs : D = CDir(p)
      BY <1>1, <1>2
    <3>2. PICK top \in Nat : top = ptable[p].brk /\ top <= FB_MMAP_BASE
      BY <1>5
    <3>3. /\ Sane(Stacks, Hands, Dirs, mem, free) /\ MapsDevice(mem, mem', free, free', D[3], top)
          /\ top <= FB_MMAP_BASE
      BY <1>1, <2>3, <2>4, <3>1, <3>2 DEF MapsDevice
    <3>4. /\ Sane(Stacks, Hands, Dirs, mem', free')
          /\ \A e \in Dirs \ {D} : Agree(mem, mem', e[3])
          /\ WithFb(mem', D[3], top) /\ FbMapped(mem', D[3])
      BY <3>3, AddDevice
    <3>q. QED
      BY <3>1, <3>2, <3>4
  <2>6. Layout(mem', k[p].d, ptable[p].brk, ptable[p].fb) /\ FbMapped(mem', k[p].d)
    BY <1>1, <1>2, <2>0, <2>5 DEF WithFb
  <2>q. QED
    BY <1>0, <1>3, <2>2, <2>5, <2>6, CloneVmasGoesOn
<1>q. QED
  BY <1>6, <1>7, <1>8
-----------------------------------------------------------------------------
(* The invariant and what follows from it *)

(* A step that changes nothing. *)
LEMMA StutterOK ==
    ASSUME IInv, UNCHANGED vars
    PROVE  StepGood
<1>1. /\ free' = free /\ mem' = mem /\ ptable' = ptable /\ ptlock' = ptlock /\ k' = k
      /\ cr3' = cr3 /\ tlb' = tlb /\ panic' = panic /\ calls' = calls
  BY DEF vars
<1>2. initproc \in Slots
  BY Sizes DEF Slots, initproc
<1>3. PICK p \in Slots : TRUE
  BY <1>2
<1>4. \A s \in Slots : Kept(s) /\ SeesSame(s)
  BY <1>1, AllSeeSame DEF Kept
<1>5. Sane(Stacks', Hands', Dirs', mem', free')
  BY <1>1, SaneSame DEF StacksKept, HandsKept, SlotDirsKept, CallDirsKept, Alive
<1>6. panic' = FALSE
  BY <1>1 DEF IInv, TypeOK
<1>7. TypeOK'
  BY <1>1, <1>5, <1>6, TypeParts, TypeStep
<1>8. NpUnique'
  BY <1>1 DEF IInv, NpUnique
<1>9. \A s \in Slots : SlotInv(s)'
  <2>1. ASSUME NEW s \in Slots PROVE SlotInv(s)'
    <3>1. FrameAt(s)' /\ SlotAt(s)' /\ LayoutAt(s)' /\ Cr3At(s)' /\ TlbAt(s)'
      BY <1>4, KeptOK
    <3>2. ForkAt(s)'
      BY <1>1 DEF IInv, SlotInv, ForkAt
    <3>q. QED
      BY <3>1, <3>2 DEF SlotInv
  <2>q. QED
    BY <2>1
<1>10. \A s \in Slots : FbKept(s)
  BY <1>4, KeptFb
<1>q. QED
  BY <1>5, <1>6, <1>7, <1>8, <1>9, <1>10 DEF IInv, StepGood

(* Every step preserves the invariant and keeps the framebuffer. *)
LEMMA NextInv == IInv /\ [Next]_vars => StepGood
<1> SUFFICES ASSUME IInv, [Next]_vars PROVE StepGood
  OBVIOUS
<1>1. ASSUME NEW p \in Slots, Step(p) PROVE StepGood
  <2>1. CASE Fork(p)
    BY <2>1, ForkOK
  <2>2. CASE InitProc(p)
    BY <2>2, InitProcOK
  <2>3. CASE Copyuvm(p)
    BY <2>3, CopyuvmOK
  <2>4. CASE CloneVmas(p)
    BY <2>4, CloneVmasOK
  <2>5. CASE ForkDone(p)
    BY <2>5, ForkDoneOK
  <2>6. CASE SetupDir(p)
    BY <2>6, SetupDirOK
  <2>7. CASE SetupKmap(p)
    BY <2>7, SetupKmapOK
  <2>8. CASE Mappages(p)
    BY <2>8, MappagesOK
  <2>9. CASE Allocvm(p)
    BY <2>9, AllocvmOK
  <2>10. CASE Exec(p)
    BY <2>10, ExecOK
  <2>11. CASE ExecStack(p)
    BY <2>11, ExecStackOK
  <2>12. CASE ExecCommit(p)
    BY <2>12, ExecCommitOK
  <2>13. CASE ExecActivate(p)
    BY <2>13, ExecActivateOK
  <2>14. CASE ExecFreeOld(p)
    BY <2>14, ExecFreeOldOK
  <2>15. ASSUME NEW n \in Deltas, SbrkGrow(p, n) PROVE StepGood
    BY <2>15, SbrkGrowOK
  <2>16. ASSUME NEW n \in Deltas, SbrkShrink(p, n) PROVE StepGood
    BY <2>16, SbrkShrinkOK
  <2>17. CASE SbrkDone(p)
    BY <2>17, SbrkDoneOK
  <2>18. CASE Mmap(p)
    BY <2>18, MmapOK
  <2>19. CASE Munmap(p)
    BY <2>19, MunmapOK
  <2>20. CASE Exit(p)
    BY <2>20, ExitOK
  <2>21. CASE ExitZombie(p)
    BY <2>21, ExitZombieOK
  <2>22. CASE SchedulerResumes(p)
    BY <2>22, SchedulerResumesOK
  <2>23. ASSUME NEW c \in Slots, Wait(p, c) PROVE StepGood
    BY <2>23, WaitOK
  <2>24. CASE Preempt(p)
    BY <2>24, PreemptOK
  <2>q. QED
    BY <1>1, <2>1, <2>2, <2>3, <2>4, <2>5, <2>6, <2>7, <2>8, <2>9, <2>10, <2>11, <2>12, <2>13,
       <2>14, <2>15, <2>16, <2>17, <2>18, <2>19, <2>20, <2>21, <2>22, <2>23, <2>24 DEF Step
<1>2. CASE Next
  BY <1>1, <1>2 DEF Next
<1>3. CASE UNCHANGED vars
  BY <1>3, StutterOK
<1>q. QED
  BY <1>2, <1>3

(* The inductive invariant holds in every reachable state of every         *)
(* instance.                                                               *)
THEOREM Invariance == Spec => []IInv
<1>1. IInv /\ [Next]_vars => IInv'
  BY NextInv DEF StepGood
<1>q. QED
  BY <1>1, InitInv, PTL DEF Spec

(* Every variable keeps its type: directories and tables hold page numbers *)
(* that exist, no process passes FB_MMAP_BASE whatever it asks for, and no *)
(* request passes KERNBASE.                                                *)
THEOREM TypeCorrect == Spec => []TypeOK
<1>1. IInv => TypeOK
  BY DEF IInv
<1>q. QED
  BY <1>1, Invariance, PTL

(* Every page is free or has exactly one holder, whichever kalloc_page of  *)
(* fork, exec, sbrk or mmap fails and however the calls of the processes   *)
(* interleave.                                                             *)
THEOREM NoPageLost == Spec => []PagesAccountedFor
<1>1. IInv => PagesAccountedFor
  BY DEF IInv, Sane, Accounted, PagesAccountedFor, Holdings, Dirs
<1>q. QED
  BY <1>1, Invariance, PTL

(* No CPU runs on a directory or a kernel stack that has been freed. *)
THEOREM LiveMemory == Spec => []RunsOnLiveMemory
<1>1. IInv => RunsOnLiveMemory
  <2> SUFFICES ASSUME IInv, NEW s \in Slots
               PROVE  cr3[s] \notin free /\ (cr3[s] # kpgdir => ptable[s].kstack \in Pages \ free)
    BY DEF RunsOnLiveMemory
  <2>1. Sane(Stacks, Hands, Dirs, mem, free) /\ Cr3At(s) /\ FrameAt(s) /\ SlotAt(s)
    BY DEF IInv, SlotInv
  <2>2. \A d \in Dirs : d[3] \notin free
    BY <2>1, Apart
  <2>3. /\ s \in Alive => ptable[s].pgdir \notin free
        /\ k[s].d # 0 => k[s].d \notin free
    BY <2>2, OwnDirs
  <2>4. s \in Alive => ptable[s].kstack \in Pages \ free
    <3> SUFFICES ASSUME s \in Alive PROVE ptable[s].kstack \in Pages \ free
      OBVIOUS
    <3>1. ptable[s].kstack # 0
      BY <2>1 DEF SlotAt
    <3>2. StackOf(s) \in Held(Stacks, Hands, Dirs, mem) /\ StackOf(s)[3] = ptable[s].kstack
      BY <3>1 DEF StackOf, Stacks, Held
    <3>q. QED
      BY <2>1, <3>2 DEF Sane, Accounted
  <2>5. CASE ptable[s].state = "RUNNING"
    <3>1. s \in Alive
      BY <2>5 DEF Alive
    <3>2. k[s].pc = "activate" => k[s].d # 0
      BY <2>1 DEF FrameAt, Frame
    <3>q. QED
      BY <2>1, <2>3, <2>4, <2>5, <3>1, <3>2 DEF Cr3At
  <2>6. CASE ptlock = s
    <3>1. s \in Alive
      BY <2>1, <2>6 DEF Alive, FrameAt
    <3>q. QED
      BY <2>1, <2>3, <2>4, <2>6, <3>1 DEF Cr3At
  <2>7. CASE ptable[s].state # "RUNNING" /\ ptlock # s
    <3>1. cr3[s] = kpgdir
      BY <2>1, <2>7 DEF Cr3At
    <3>q. QED
      BY <2>1, <3>1, KernelPagesHeld
  <2>q. QED
    BY <2>5, <2>6, <2>7
<1>q. QED
  BY <1>1, Invariance, PTL

(* In user mode the pages of a process are those below brk and no other,   *)
(* after failed calls too, and beyond brk it maps at most the framebuffer  *)
(* it asked for, at its address.                                           *)
THEOREM MappedIsBrk == Spec => []BrkIsWhatIsMapped
<1>1. IInv => BrkIsWhatIsMapped
  <2> SUFFICES ASSUME IInv, NEW s \in Slots, ptable[s].state = "RUNNING", k[s].pc = "user"
               PROVE  Layout(mem, ptable[s].pgdir, ptable[s].brk, ptable[s].fb)
    BY DEF BrkIsWhatIsMapped, Layout, VAs
  <2>1. LayoutAt(s) /\ FrameAt(s)
    BY DEF IInv, SlotInv
  <2>2. k[s].call = "none"
    BY <2>1, UserFields DEF FrameAt, Frame
  <2>q. QED
    BY <2>1, <2>2 DEF LayoutAt, Top
<1>q. QED
  BY <1>1, Invariance, PTL

(* mmap and fork map the framebuffer's area in full, and a process that    *)
(* has it loses an entry to nothing but its own failed sbrk that asked for *)
(* memory beyond that entry.                                               *)
THEOREM FramebufferKept == Spec => FramebufferStays
<1> DEFINE Keeps == \A s \in Slots : \A va \in FbMissing(s)' \ FbMissing(s) :
                        k[s].call = "sbrk" /\ va < k[s].end /\ k'[s] = User
<1>1. IInv /\ [Next]_vars => [Keeps]_vars
  BY NextInv DEF StepGood, FbKept
<1>q. QED
  BY <1>1, Invariance, PTL DEF Spec, FramebufferStays

(* In user mode the TLB reaches only pages of the process: activate_process *)
(* runs before a page that sbrk or exec freed can be used through it.       *)
THEOREM TlbIsFlushed == Spec => []TlbHoldsOnlyMapped
<1>1. IInv => TlbHoldsOnlyMapped
  <2> SUFFICES ASSUME IInv, NEW s \in Slots, ptable[s].state = "RUNNING", k[s].pc = "user"
               PROVE  tlb[s] \subseteq Mapped(mem, ptable[s].pgdir, 0, FB_MMAP_BASE)
    BY DEF TlbHoldsOnlyMapped
  <2>1. LayoutAt(s) /\ FrameAt(s) /\ TlbAt(s)
    BY DEF IInv, SlotInv
  <2>2. k[s].call = "none"
    BY <2>1, UserFields DEF FrameAt, Frame
  <2>3. tlb[s] \subseteq Mapped(mem, ptable[s].pgdir, 0, ptable[s].brk)
    BY <2>1, <2>2 DEF TlbAt
  <2>4. Layout(mem, ptable[s].pgdir, ptable[s].brk, ptable[s].fb)
    BY <2>1, <2>2 DEF LayoutAt, Top
  <2>5. ptable[s].brk \in Nat /\ ptable[s].brk <= FB_MMAP_BASE
    BY RunningFacts, Sizes
  <2>q. QED
    BY <2>3, <2>4, <2>5, MappedBelow
<1>q. QED
  BY <1>1, Invariance, PTL

(* mappages never meets a present entry and copyuvm never a missing one. *)
THEOREM NeverPanics == Spec => []NoPanic
<1>1. IInv => NoPanic
  BY DEF IInv, NoPanic
<1>q. QED
  BY <1>1, Invariance, PTL
=============================================================================
