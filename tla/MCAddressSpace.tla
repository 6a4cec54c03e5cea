--------------------------- MODULE MCAddressSpace ---------------------------
(* Init and two more slots.  A table maps two pages, so growing from one   *)
(* page to three fills one table and needs another: sbrk may fail at each  *)
(* of three allocations.  Of the 19 pages the kernel has 3, init 5 and a   *)
(* child of init 5: a second child, an exec or an sbrk beside each other   *)
(* run out, each at every one of its allocations.  FB_MMAP_BASE is page 20 *)
(* and KERNBASE page 22: growing by 20 is a request past the framebuffer   *)
(* that begins and finds too little memory, sooner or later.               *)
EXTENDS AddressSpace

MCImages == {1}
MCDeltas == {2, 20}
=============================================================================
