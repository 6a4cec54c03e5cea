-------------------------------- MODULE Pipe --------------------------------
(***************************************************************************)
(* kernel/syscalls/pipe.c with the last file_close() of each end, the      *)
(* sleep()/wakeup() it uses and the kill() that may interrupt it.          *)
(*                                                                         *)
(* p->lock is explicit and every step between two accesses another process *)
(* can observe is an action.  sleep() gives up p->lock and becomes         *)
(* SLEEPING in one step (it holds ptable.lock); kill() takes ptable.lock   *)
(* only, so it fits between the test of killed and the sleep.  nread and   *)
(* nwrite are u32: they count modulo Wrap.                                 *)
(***************************************************************************)
EXTENDS Naturals, Sequences

CONSTANTS Writers, Readers,   \* processes with the write or read end open
          Bytes,
          PIPESIZE,
          Wrap,               \* stands for 2^32
          ReadCounts, WriteCounts,  \* the n of a read or write
          nullptr

Procs == Writers \cup Readers
Counts == ReadCounts \cup WriteCounts

ASSUME PipeAssumption ==
    /\ Writers \cap Readers = {}
    /\ PIPESIZE \in Nat \ {0}
    /\ Wrap \in Nat /\ Wrap > PIPESIZE
    /\ Wrap % PIPESIZE = 0
    /\ Counts \subseteq Nat
    /\ nullptr \notin Procs \cup {"nread", "nwrite"}

VARIABLES
    lock,                   \* the process inside p->lock
    data, nread, nwrite, readopen, writeopen,
    freed,                  \* kfree_page(p) has happened
    fds,                    \* processes whose descriptor is still open
    pc, n, i,               \* arguments and locals of pipe_read / pipe_write
    asleep,                 \* the channel a SLEEPING process waits on
    killed

pipeVars == <<data, nread, nwrite, readopen, writeopen, freed>>
vars == <<lock, pipeVars, fds, pc, n, i, asleep, killed>>

PCs == {"idle", "enter", "loop", "copy", "sleep", "close"}

TypeOK ==
    /\ lock \in Procs \cup {nullptr}
    /\ data \in [0..PIPESIZE-1 -> Bytes]
    /\ nread \in 0..Wrap-1
    /\ nwrite \in 0..Wrap-1
    /\ readopen \in BOOLEAN
    /\ writeopen \in BOOLEAN
    /\ freed \in BOOLEAN
    /\ fds \in SUBSET Procs
    /\ pc \in [Procs -> PCs]
    /\ n \in [Procs -> Counts \cup {0}]
    /\ i \in [Procs -> Nat]
    /\ \A p \in Procs : i[p] <= n[p]
    /\ asleep \in [Procs -> {"nread", "nwrite", nullptr}]
    /\ killed \in [Procs -> BOOLEAN]

(* pipe_alloc, on a page whose contents are arbitrary. *)
Init ==
    /\ lock = nullptr
    /\ data \in [0..PIPESIZE-1 -> Bytes]
    /\ nread = 0
    /\ nwrite = 0
    /\ readopen = TRUE
    /\ writeopen = TRUE
    /\ freed = FALSE
    /\ fds = Procs
    /\ pc = [p \in Procs |-> "idle"]
    /\ n = [p \in Procs |-> 0]
    /\ i = [p \in Procs |-> 0]
    /\ asleep = [p \in Procs |-> nullptr]
    /\ killed = [p \in Procs |-> FALSE]

Empty == nread = nwrite
Full == nwrite = (nread + PIPESIZE) % Wrap
Goto(p, where) == pc' = [pc EXCEPT ![p] = where]

(* wakeup(&p->nread), wakeup(&p->nwrite) *)
Wakeup(ch) ==
    asleep' = [p \in Procs |-> IF asleep[p] = ch THEN nullptr ELSE asleep[p]]

(* The call returns to the caller: locals are gone. *)
Return(p) ==
    /\ Goto(p, "idle")
    /\ n' = [n EXCEPT ![p] = 0]
    /\ i' = [i EXCEPT ![p] = 0]

-----------------------------------------------------------------------------
(* file_read / file_write; a killed process does not come back for more. *)
Call(p, count) ==
    /\ pc[p] = "idle"
    /\ p \in fds
    /\ ~killed[p]
    /\ n' = [n EXCEPT ![p] = count]
    /\ Goto(p, "enter")
    /\ UNCHANGED <<lock, pipeVars, fds, i, asleep, killed>>

(* acquire(&p->lock), on entry and at the end of sleep(). *)
Acquire(p) ==
    /\ pc[p] = "enter"
    /\ asleep[p] = nullptr
    /\ lock = nullptr
    /\ lock' = p
    /\ Goto(p, "loop")
    /\ UNCHANGED <<pipeVars, fds, n, i, asleep, killed>>

(* sleep(chan, &p->lock), up to the switch. *)
Sleep(p) ==
    /\ pc[p] = "sleep"
    /\ asleep' = [asleep EXCEPT ![p] = IF p \in Writers THEN "nwrite" ELSE "nread"]
    /\ lock' = nullptr
    /\ Goto(p, "enter")
    /\ UNCHANGED <<pipeVars, fds, n, i, killed>>

-----------------------------------------------------------------------------
(* Mutant of PutByte: no test for a full ring. *)
PutByteOverruns(p, b) ==
    /\ p \in Writers
    /\ pc[p] = "loop"
    /\ i[p] < n[p]
    /\ data' = [data EXCEPT ![nwrite % PIPESIZE] = b]
    /\ nwrite' = (nwrite + 1) % Wrap
    /\ i' = [i EXCEPT ![p] = @ + 1]
    /\ UNCHANGED <<lock, nread, readopen, writeopen, freed, fds, pc, n, asleep, killed>>

(* pipe_write: one byte, or the buffer is full, or done. *)
PutByte(p, b) ==
    /\ p \in Writers
    /\ pc[p] = "loop"
    /\ i[p] < n[p]
    /\ ~Full
    /\ data' = [data EXCEPT ![nwrite % PIPESIZE] = b]
    /\ nwrite' = (nwrite + 1) % Wrap
    /\ i' = [i EXCEPT ![p] = @ + 1]
    /\ UNCHANGED <<lock, nread, readopen, writeopen, freed, fds, pc, n, asleep, killed>>

WriteFails(p) ==
    /\ p \in Writers
    /\ pc[p] = "loop"
    /\ i[p] < n[p]
    /\ Full
    /\ ~readopen \/ killed[p]
    /\ lock' = nullptr
    /\ Return(p)
    /\ UNCHANGED <<pipeVars, fds, asleep, killed>>

WriteBlocks(p) ==
    /\ p \in Writers
    /\ pc[p] = "loop"
    /\ i[p] < n[p]
    /\ Full
    /\ readopen
    /\ ~killed[p]
    /\ Wakeup("nread")
    /\ Goto(p, "sleep")
    /\ UNCHANGED <<lock, pipeVars, fds, n, i, killed>>

WriteReturns(p) ==
    /\ p \in Writers
    /\ pc[p] = "loop"
    /\ i[p] = n[p]
    /\ Wakeup("nread")
    /\ lock' = nullptr
    /\ Return(p)
    /\ UNCHANGED <<pipeVars, fds, killed>>

-----------------------------------------------------------------------------
(* pipe_read: wait while the pipe is empty and somebody may still write. *)
ReadFails(p) ==
    /\ p \in Readers
    /\ pc[p] = "loop"
    /\ Empty
    /\ writeopen
    /\ killed[p]
    /\ lock' = nullptr
    /\ Return(p)
    /\ UNCHANGED <<pipeVars, fds, asleep, killed>>

ReadBlocks(p) ==
    /\ p \in Readers
    /\ pc[p] = "loop"
    /\ Empty
    /\ writeopen
    /\ ~killed[p]
    /\ Goto(p, "sleep")
    /\ UNCHANGED <<lock, pipeVars, fds, n, i, asleep, killed>>

(* Mutant of ReadReady: does not wait for data. *)
ReadReadyAtOnce(p) ==
    /\ p \in Readers
    /\ pc[p] = "loop"
    /\ Goto(p, "copy")
    /\ UNCHANGED <<lock, pipeVars, fds, n, i, asleep, killed>>

ReadReady(p) ==
    /\ p \in Readers
    /\ pc[p] = "loop"
    /\ ~Empty \/ ~writeopen
    /\ Goto(p, "copy")
    /\ UNCHANGED <<lock, pipeVars, fds, n, i, asleep, killed>>

GetByte(p) ==
    /\ pc[p] = "copy"
    /\ i[p] < n[p]
    /\ ~Empty
    /\ nread' = (nread + 1) % Wrap
    /\ i' = [i EXCEPT ![p] = @ + 1]
    /\ UNCHANGED <<lock, data, nwrite, readopen, writeopen, freed, fds, pc, n, asleep, killed>>

(* Mutant of ReadReturns: no wakeup of writers. *)
ReadReturnsQuietly(p) ==
    /\ pc[p] = "copy"
    /\ i[p] = n[p] \/ Empty
    /\ lock' = nullptr
    /\ Return(p)
    /\ UNCHANGED <<pipeVars, fds, asleep, killed>>

ReadReturns(p) ==
    /\ pc[p] = "copy"
    /\ i[p] = n[p] \/ Empty
    /\ Wakeup("nwrite")
    /\ lock' = nullptr
    /\ Return(p)
    /\ UNCHANGED <<pipeVars, fds, killed>>

-----------------------------------------------------------------------------
(* file_close: the last descriptor of an end goes on to pipe_close. *)
Close(p) ==
    LET end == IF p \in Writers THEN Writers ELSE Readers IN
    /\ pc[p] = "idle"
    /\ p \in fds
    /\ fds' = fds \ {p}
    /\ Goto(p, IF fds' \cap end = {} THEN "close" ELSE "idle")
    /\ UNCHANGED <<lock, pipeVars, n, i, asleep, killed>>

(* Mutant of PipeClose: frees with one end still open. *)
PipeCloseFreesEarly(p) ==
    /\ pc[p] = "close"
    /\ lock = nullptr
    /\ writeopen' = (writeopen /\ p \notin Writers)
    /\ readopen' = (readopen /\ p \notin Readers)
    /\ Wakeup(IF p \in Writers THEN "nread" ELSE "nwrite")
    /\ freed' = (~readopen' \/ ~writeopen')
    /\ Goto(p, "idle")
    /\ UNCHANGED <<lock, data, nread, nwrite, fds, n, i, killed>>

(* Mutant of PipeClose: no wakeup of the other end. *)
PipeCloseQuietly(p) ==
    /\ pc[p] = "close"
    /\ lock = nullptr
    /\ writeopen' = (writeopen /\ p \notin Writers)
    /\ readopen' = (readopen /\ p \notin Readers)
    /\ freed' = (~readopen' /\ ~writeopen')
    /\ Goto(p, "idle")
    /\ UNCHANGED <<lock, data, nread, nwrite, fds, n, i, asleep, killed>>

PipeClose(p) ==
    /\ pc[p] = "close"
    /\ lock = nullptr
    /\ writeopen' = (writeopen /\ p \notin Writers)
    /\ readopen' = (readopen /\ p \notin Readers)
    /\ Wakeup(IF p \in Writers THEN "nread" ELSE "nwrite")
    /\ freed' = (~readopen' /\ ~writeopen')
    /\ Goto(p, "idle")
    /\ UNCHANGED <<lock, data, nread, nwrite, fds, n, i, killed>>

(* kill(): sets the flag and makes a SLEEPING process RUNNABLE. *)
Kill(p) ==
    /\ ~killed[p]
    /\ killed' = [killed EXCEPT ![p] = TRUE]
    /\ asleep' = [asleep EXCEPT ![p] = nullptr]
    /\ UNCHANGED <<lock, pipeVars, fds, pc, n, i>>

-----------------------------------------------------------------------------
(* The rest of a call that has begun. *)
Continue(p) ==
    \/ Sleep(p)
    \/ \E b \in Bytes : PutByte(p, b)
    \/ WriteFails(p) \/ WriteBlocks(p) \/ WriteReturns(p)
    \/ ReadFails(p) \/ ReadBlocks(p) \/ ReadReady(p)
    \/ GetByte(p) \/ ReadReturns(p)

Next ==
    \E p \in Procs :
        \/ \E count \in (IF p \in Writers THEN WriteCounts ELSE ReadCounts) : Call(p, count)
        \/ Acquire(p)
        \/ Continue(p)
        \/ Close(p)
        \/ PipeClose(p)
        \/ Kill(p)

Spec == Init /\ [][Next]_vars

(* A process inside a call keeps running, and one that spins on p->lock    *)
(* gets it in the end.  Nothing obliges a process to read, write or close. *)
FairSpec ==
    Spec /\ \A p \in Procs : /\ WF_vars(Continue(p))
                             /\ SF_vars(Acquire(p) \/ PipeClose(p))

-----------------------------------------------------------------------------
Count == (nwrite + Wrap - nread) % Wrap

Stream == INSTANCE ByteStream WITH
    Capacity <- PIPESIZE,
    stream <- [k \in 1..Count |-> data[(nread + k - 1) % PIPESIZE]],
    readable <- readopen,
    writable <- writeopen

(* pipe_read, pipe_write and pipe_close implement a bounded FIFO of bytes: *)
(* every byte read is the oldest one written and not yet read, also when   *)
(* the indices run around the ring and the u32 counters wrap to 0.         *)
ImplementsByteStream == Stream!Spec

(* Bytes a killed writer left without wakeup(&p->nread): it fills the ring *)
(* and returns -1.  Another reader than p may have taken some of them.     *)
LeftBehind(p) ==
    /\ \E w \in Writers : killed[w]
    /\ Full \/ Readers # {p}

(* No lost wakeup: while p->lock is free, a writer sleeps only if the ring *)
(* is full and somebody may still read, a reader only if it is empty and   *)
(* somebody may still write.  The exception is what a killed writer left.  *)
NoLostWakeup ==
    lock = nullptr =>
        \A p \in Procs :
            /\ asleep[p] = "nwrite" => Full /\ readopen
            /\ asleep[p] = "nread" => writeopen /\ (Empty \/ LeftBehind(p))

(* "blocking until data or closure": no reader sleeps on a pipe that has   *)
(* data for it.                                                            *)
ReaderSleepsOnlyIfEmpty ==
    lock = nullptr => \A p \in Readers : asleep[p] = "nread" => Empty

(* pipe_close frees the page only when no process can still use it: a      *)
(* process inside pipe_read or pipe_write keeps its own end open.          *)
NoUseAfterFree ==
    freed => \A p \in Procs : pc[p] = "idle" /\ p \notin fds

(* pipe_read returns 0 for a non-empty request only at end of file: all    *)
(* bytes have been read and the write end is closed for good.              *)
ShortReadMeansEof ==
    [][\A p \in Readers :
          pc[p] = "copy" /\ pc'[p] = "idle" /\ n[p] > 0 /\ i[p] = 0
              => Empty /\ ~writeopen]_vars

(* Closing one end releases whoever is blocked on the other: a writer is   *)
(* not left asleep without readers, nor a reader without writers.          *)
CloseReleasesPeers ==
    \A p \in Procs :
        (IF p \in Writers THEN ~readopen ELSE ~writeopen) ~> pc[p] = "idle"
=============================================================================
