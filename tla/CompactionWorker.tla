-------------------------- MODULE CompactionWorker --------------------------
(***************************************************************************)
(* The background compaction worker and its condition variable             *)
(* (lsm.rs compaction_worker, signal_compaction, wait_for_compaction,      *)
(* compact and Drop for LsmTree).                                          *)
(*                                                                         *)
(* Each owner is a thread with a strong reference to the tree.  It may     *)
(* signal work, wait for the worker to be idle, compact by itself, and     *)
(* finally drop its reference; the last reference to go runs the           *)
(* destructor.  The worker holds a weak reference that it upgrades for the *)
(* length of one merge.  Every critical section of the condition           *)
(* variable's mutex is one step; a parked thread is in `parked`, and a     *)
(* notification takes it out.                                              *)
(***************************************************************************)
EXTENDS Integers, FiniteSets

CONSTANTS
    Owner,      \* threads holding the tree
    Worker,     \* the worker thread
    None,       \* nobody
    MaxSignal   \* bound on signals


VARIABLES
    pending, running, shutdown, \* CompactionState
    parked,         \* threads waiting on the condition variable
    pc,             \* Owner \cup {Worker} -> where the thread is
    strong,         \* threads holding a strong reference
    merge_lock,     \* holder of compaction_mutex, or None
    signals         \* signals sent so far

vars == <<pending, running, shutdown, parked, pc, strong, merge_lock, signals>>

Init ==
    /\ pending = FALSE
    /\ running = FALSE
    /\ shutdown = FALSE
    /\ parked = {}
    /\ pc = [t \in Owner \cup {Worker} |-> IF t = Worker THEN "check" ELSE "idle"]
    /\ strong = Owner
    /\ merge_lock = None
    /\ signals = 0

Goto(t, p) == pc' = [pc EXCEPT ![t] = p]

NotifyAll == parked' = {}

NotifyOne ==
    \/ parked = {} /\ UNCHANGED parked
    \/ \E t \in parked : parked' = parked \ {t}

-----------------------------------------------------------------------------
(* Owners                                                                  *)

\* maybe_flush found enough SSTs.
SignalCompaction(t) ==
    /\ pc[t] = "idle"
    /\ signals < MaxSignal
    /\ signals' = signals + 1
    /\ pending' = TRUE
    /\ NotifyOne
    /\ UNCHANGED <<running, shutdown, pc, strong, merge_lock>>

\* One evaluation of wait_for_compaction's loop condition.
WaitForCompaction(t) ==
    /\ pc[t] \in {"idle", "waiting"}
    /\ t \notin parked
    /\ IF pending \/ running
       THEN parked' = parked \cup {t} /\ Goto(t, "waiting")
       ELSE parked' = parked /\ Goto(t, "idle")
    /\ UNCHANGED <<pending, running, shutdown, strong, merge_lock, signals>>

CompactLock(t) ==
    /\ pc[t] = "idle"
    /\ merge_lock = None
    /\ merge_lock' = t
    /\ Goto(t, "compacting")
    /\ UNCHANGED <<pending, running, shutdown, parked, strong, signals>>

CompactDone(t) ==
    /\ pc[t] = "compacting"
    /\ merge_lock' = None
    /\ Goto(t, "idle")
    /\ UNCHANGED <<pending, running, shutdown, parked, strong, signals>>

\* Dropping the last strong reference runs the destructor: set shutdown, wake
\* everyone, then join the worker.
DropTree(t) ==
    /\ pc[t] = "idle"
    /\ strong' = strong \ {t}
    /\ IF strong = {t}
       THEN shutdown' = TRUE /\ NotifyAll /\ Goto(t, "joining")
       ELSE UNCHANGED <<shutdown, parked>> /\ Goto(t, "gone")
    /\ UNCHANGED <<pending, running, merge_lock, signals>>

Join(t) ==
    /\ pc[t] = "joining"
    /\ pc[Worker] = "exited"
    /\ Goto(t, "gone")
    /\ UNCHANGED <<pending, running, shutdown, parked, strong, merge_lock,
                   signals>>

-----------------------------------------------------------------------------
(* The worker                                                              *)

\* Mutant: the flag is not reset when the work is taken.
WorkerCheckKeepsPending ==
    /\ pc[Worker] = "check"
    /\ Worker \notin parked
    /\ CASE shutdown -> Goto(Worker, "exiting") /\ UNCHANGED <<running, parked>>
         [] pending /\ ~ shutdown -> /\ running' = TRUE
                                     /\ Goto(Worker, "upgrade")
                                     /\ UNCHANGED parked
         [] OTHER -> /\ parked' = parked \cup {Worker}
                     /\ UNCHANGED <<running, pc>>
    /\ UNCHANGED <<pending, shutdown, strong, merge_lock, signals>>

WorkerCheck ==
    /\ pc[Worker] = "check"
    /\ Worker \notin parked
    /\ CASE shutdown -> /\ Goto(Worker, "exiting")
                        /\ UNCHANGED <<pending, running, parked>>
         [] pending /\ ~ shutdown -> /\ pending' = FALSE
                                     /\ running' = TRUE
                                     /\ Goto(Worker, "upgrade")
                                     /\ UNCHANGED parked
         [] OTHER -> /\ parked' = parked \cup {Worker}
                     /\ UNCHANGED <<pending, running, pc>>
    /\ UNCHANGED <<shutdown, strong, merge_lock, signals>>

\* The weak reference upgrades while any strong one is left.
WorkerUpgrade ==
    /\ pc[Worker] = "upgrade"
    /\ IF strong = {}
       THEN strong' = strong /\ Goto(Worker, "mark_idle")
       ELSE strong' = strong \cup {Worker} /\ Goto(Worker, "lock")
    /\ UNCHANGED <<pending, running, shutdown, parked, merge_lock, signals>>

WorkerLock ==
    /\ pc[Worker] = "lock"
    /\ merge_lock = None
    /\ merge_lock' = Worker
    /\ Goto(Worker, "merge")
    /\ UNCHANGED <<pending, running, shutdown, parked, strong, signals>>

\* compact_inner returns, with or without an error; the lock and then the
\* reference are dropped.  If it was the last one the destructor runs here,
\* on the worker's own thread, and does not join.
WorkerMerged ==
    /\ pc[Worker] = "merge"
    /\ merge_lock' = None
    /\ strong' = strong \ {Worker}
    /\ IF strong = {Worker}
       THEN shutdown' = TRUE /\ NotifyAll
       ELSE UNCHANGED <<shutdown, parked>>
    /\ Goto(Worker, "mark_idle")
    /\ UNCHANGED <<pending, running, signals>>

WorkerMarkIdle ==
    /\ pc[Worker] = "mark_idle"
    /\ running' = FALSE
    /\ NotifyAll
    /\ Goto(Worker, "check")
    /\ UNCHANGED <<pending, shutdown, strong, merge_lock, signals>>

WorkerExit ==
    /\ pc[Worker] = "exiting"
    /\ pending' = FALSE
    /\ running' = FALSE
    /\ NotifyAll
    /\ Goto(Worker, "exited")
    /\ UNCHANGED <<shutdown, strong, merge_lock, signals>>

WorkerStep ==
    \/ WorkerCheck \/ WorkerUpgrade \/ WorkerLock \/ WorkerMerged
    \/ WorkerMarkIdle \/ WorkerExit

OwnerStep(t) ==
    \/ SignalCompaction(t) \/ WaitForCompaction(t) \/ CompactLock(t)
    \/ CompactDone(t) \/ DropTree(t) \/ Join(t)

Terminated == /\ \A t \in Owner : pc[t] = "gone"
              /\ pc[Worker] = "exited"
              /\ UNCHANGED vars

Next == WorkerStep \/ (\E t \in Owner : OwnerStep(t)) \/ Terminated

\* The threads are scheduled by the OS: one that can run eventually does.
\* An owner is free never to call anything; inside a call it goes on.
\* compaction_mutex is a parking_lot mutex, which is eventually fair.
Fairness ==
    /\ WF_vars(WorkerStep)
    /\ SF_vars(WorkerLock)
    /\ \A t \in Owner :
          /\ WF_vars(pc[t] = "waiting" /\ WaitForCompaction(t))
          /\ WF_vars(CompactDone(t))
          /\ WF_vars(Join(t))

Spec == Init /\ [][Next]_vars /\ Fairness

-----------------------------------------------------------------------------

TypeOK ==
    /\ {pending, running, shutdown} \subseteq BOOLEAN
    /\ parked \subseteq Owner \cup {Worker}
    /\ \A t \in Owner :
          pc[t] \in {"idle", "waiting", "compacting", "joining", "gone"}
    /\ pc[Worker] \in {"check", "upgrade", "lock", "merge", "mark_idle",
                       "exiting", "exited"}
    /\ strong \subseteq Owner \cup {Worker}
    /\ merge_lock \in Owner \cup {Worker, None}
    /\ signals \in 0 .. MaxSignal

\* No wake-up is lost: the worker is never parked while there is work or a
\* shutdown for it, although signal_compaction wakes only one thread and
\* callers of wait_for_compaction park on the same condition variable.
NoLostWakeup == Worker \in parked => ~ pending /\ ~ shutdown

\* A caller of wait_for_compaction is never parked when there is nothing left
\* to wait for.
NoStrandedWaiter == \A t \in Owner \cap parked : pending \/ running

\* A signal is served, one that arrives during a merge too: the worker takes
\* it, or the tree is being torn down.
SignalServed == pending ~> ~ pending \/ shutdown

\* The destructor's join returns, whichever thread ran the destructor: no
\* thread ever waits for itself and the worker always exits.
DropReturns == \A t \in Owner : pc[t] = "joining" ~> pc[t] = "gone"
=============================================================================
