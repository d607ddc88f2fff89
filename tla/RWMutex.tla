------------------------------ MODULE RWMutex -------------------------------
(***************************************************************************)
(* sync.RWMutex of the Go library, as its callers use it: readers share    *)
(* the lock, a writer that has announced itself keeps new readers out and  *)
(* enters when the readers have left, and other writers wait for it.       *)
(***************************************************************************)
EXTENDS Naturals

CONSTANTS
  Procs,     \* the goroutines that use the lock
  NoProc     \* none of them

RWMutexAssumption == NoProc \notin Procs

\* How often each goroutine holds the lock for reading, the writer that has
\* announced itself, and whether it is in.
Unlocked == [r |-> [p \in Procs |-> 0], w |-> NoProc, in |-> FALSE]

CanRLock(m) == m.w = NoProc
RLocked(m, p) == [m EXCEPT !.r[p] = @ + 1]
RUnlocked(m, p) == [m EXCEPT !.r[p] = @ - 1]

CanAnnounce(m) == m.w = NoProc
Announced(m, p) == [m EXCEPT !.w = p]
CanEnter(m, p) == m.w = p /\ ~m.in /\ \A q \in Procs : m.r[q] = 0
Entered(m) == [m EXCEPT !.in = TRUE]
WUnlocked(m) == [m EXCEPT !.w = NoProc, !.in = FALSE]
==============================================================================
