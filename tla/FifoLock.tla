------------------------------ MODULE FifoLock ------------------------------
(***************************************************************************)
(* What gmsec5/internal/TicketMutex promises its users: the lock is held   *)
(* by at most one thread, and it is granted in the order in which the      *)
(* threads asked for it.  `line` is the queue of the threads that asked    *)
(* and have not left yet; the first of them may be inside.                 *)
(***************************************************************************)
EXTENDS Sequences, Naturals

CONSTANT Thread

VARIABLES line, inside

lockVars == <<line, inside>>

LockInit == line = <<>> /\ inside = {}

Ask(p) == /\ \A i \in DOMAIN line : line[i] # p
          /\ line' = Append(line, p)
          /\ UNCHANGED inside

\* A thread that finds nobody in line asks and is granted in one step.
AskAndGrant(p) == line = <<>> /\ line' = <<p>> /\ inside' = {p}

Grant(p) == /\ line # <<>>
            /\ Head(line) = p
            /\ inside = {}
            /\ inside' = {p}
            /\ UNCHANGED line

Release(p) == /\ inside = {p}
              /\ line' = Tail(line)
              /\ inside' = {}

LockNext == \E p \in Thread : Ask(p) \/ AskAndGrant(p) \/ Grant(p) \/ Release(p)

LockSpec == LockInit /\ [][LockNext]_lockVars
=============================================================================
