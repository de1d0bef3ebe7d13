-------------------------------- MODULE DbTask --------------------------------
(***************************************************************************)
(* The queue of database tasks of one server process                       *)
(* (src/src/server/redis/dbtask.cpp): the I/O threads push, one detached   *)
(* worker thread pops and executes.  The mutex dbMtx, the condition        *)
(* variable _cv with its predicate, and every point where the two sides    *)
(* can interleave are kept; what a task does to the database is not (see   *)
(* ChatService).                                                           *)
(***************************************************************************)
EXTENDS Naturals, Sequences

CONSTANTS Threads,    \* the I/O threads that run handlers
          Worker,     \* the thread started by start_db_thread
          Task,       \* the values of DbTaskArgs
          MaxPush     \* bound: tasks pushed in a behaviour

Free == "free"        \* dbMtx is unlocked

ASSUME DbTaskAssumption ==
    /\ Worker \notin Threads
    /\ Free \notin Threads \cup {Worker}
    /\ MaxPush \in Nat
    /\ Task # {}

VARIABLES dbMtx,      \* the thread that holds the mutex, or Free
          dbQueue,    \* the std::queue
          pc,         \* per I/O thread: where it is in push()
          worker,     \* where the worker is in dbWork() and pop()
          inHand,     \* the task popped and not finished (none or one)
          pushed,     \* history: the tasks pushed, in order
          executed,   \* history: the tasks whose switch arm has returned
          failed      \* how many of them threw or reported failure

vars == <<dbMtx, dbQueue, pc, worker, inHand, pushed, executed, failed>>

(***************************************************************************)
(* The constructor of ChatService starts the worker only when Redis was    *)
(* reached; otherwise the server runs without one ("none").                *)
(***************************************************************************)
Init ==
    /\ dbMtx = Free
    /\ dbQueue = <<>>
    /\ pc = [t \in Threads |-> "idle"]
    /\ worker \in {"lock", "none"}
    /\ inHand = <<>>
    /\ pushed = <<>>
    /\ executed = <<>>
    /\ failed = 0

-----------------------------------------------------------------------------
(* push(): lock_guard, queue.push and notify_one under the lock, unlock.   *)

PushLock(t) ==
    /\ pc[t] = "idle"
    /\ Len(pushed) < MaxPush
    /\ dbMtx = Free
    /\ dbMtx' = t
    /\ pc' = [pc EXCEPT ![t] = "locked"]
    /\ UNCHANGED <<dbQueue, worker, inHand, pushed, executed, failed>>

\* Mutant of NotifyOne: the call is forgotten.
NotifyOne_Dropped == UNCHANGED worker

\* _cv.notify_one(): a waiting worker leaves the wait set and contends for
\* the mutex; with nobody waiting the notification is lost.
NotifyOne == worker' = IF worker = "wait" THEN "relock" ELSE worker

\* Mutant of Enqueue: the new task overtakes the ones already queued.
Enqueue_Front(k) == dbQueue' = <<k>> \o dbQueue

\* dbQueue.push(task): at the end.
Enqueue(k) == dbQueue' = Append(dbQueue, k)

PushTask(t, k) ==
    /\ pc[t] = "locked"
    /\ Enqueue(k)
    /\ pushed' = Append(pushed, k)
    /\ NotifyOne
    /\ pc' = [pc EXCEPT ![t] = "pushed"]
    /\ UNCHANGED <<dbMtx, inHand, executed, failed>>

PushUnlock(t) ==
    /\ pc[t] = "pushed"
    /\ dbMtx' = Free
    /\ pc' = [pc EXCEPT ![t] = "idle"]
    /\ UNCHANGED <<dbQueue, worker, inHand, pushed, executed, failed>>

-----------------------------------------------------------------------------
(* pop(): unique_lock, _cv.wait with the predicate, front, pop, unlock.    *)

\* The lock at the head of pop(), or the one cv.wait takes when it returns.
PopLock ==
    /\ worker \in {"lock", "relock"}
    /\ dbMtx = Free
    /\ dbMtx' = Worker
    /\ worker' = "check"
    /\ UNCHANGED <<dbQueue, pc, inHand, pushed, executed, failed>>

\* Predicate false: unlock and join the wait set, in one atomic step.
PopWait ==
    /\ worker = "check"
    /\ dbQueue = <<>>
    /\ dbMtx' = Free
    /\ worker' = "wait"
    /\ UNCHANGED <<dbQueue, pc, inHand, pushed, executed, failed>>

\* A condition variable may wake its waiter for no reason.
SpuriousWakeup ==
    /\ worker = "wait"
    /\ worker' = "relock"
    /\ UNCHANGED <<dbMtx, dbQueue, pc, inHand, pushed, executed, failed>>

\* std::move(dbQueue.front()), read before dbQueue.pop().
FrontTask == Head(dbQueue)

\* Predicate true: take the front task and unlock on return.
PopTask ==
    /\ worker = "check"
    /\ dbQueue # <<>>
    /\ inHand' = <<FrontTask>>
    /\ dbQueue' = Tail(dbQueue)
    /\ dbMtx' = Free
    /\ worker' = "work"
    /\ UNCHANGED <<pc, pushed, executed, failed>>

\* Mutant of Execute: no catch, an exception ends the thread.
Execute_Uncaught(ok) ==
    /\ worker = "work"
    /\ executed' = executed \o inHand
    /\ failed' = IF ok THEN failed ELSE failed + 1
    /\ inHand' = <<>>
    /\ worker' = IF ok THEN "lock" ELSE "none"
    /\ UNCHANGED <<dbMtx, dbQueue, pc, pushed>>

(***************************************************************************)
(* The switch of dbWork.  A task that throws, or whose model returns       *)
(* false, is reported on cerr and dropped: the loop goes on either way.    *)
(***************************************************************************)
Execute(ok) ==
    /\ worker = "work"
    /\ executed' = executed \o inHand
    /\ failed' = IF ok THEN failed ELSE failed + 1
    /\ inHand' = <<>>
    /\ worker' = "lock"
    /\ UNCHANGED <<dbMtx, dbQueue, pc, pushed>>

InPush(t) == PushUnlock(t) \/ \E k \in Task : PushTask(t, k)

Push(t) == PushLock(t) \/ InPush(t)

WorkerStep == PopLock \/ PopWait \/ PopTask \/ \E ok \in BOOLEAN : Execute(ok)

Next == \/ \E t \in Threads : Push(t)
        \/ WorkerStep
        \/ SpuriousWakeup

Spec == Init /\ [][Next]_vars

(***************************************************************************)
(* The scheduler runs a thread that can run.  Nothing makes a thread start *)
(* a push, and nothing causes a spurious wake-up.  The mutex need not be   *)
(* fair: MaxPush makes the load a finite burst.                            *)
(***************************************************************************)
Fairness == (\A t \in Threads : WF_vars(InPush(t))) /\ WF_vars(WorkerStep)

FairSpec == Spec /\ Fairness

-----------------------------------------------------------------------------
(* Types of the variables. *)
TypeOK ==
    /\ dbMtx \in Threads \cup {Worker, Free}
    /\ dbQueue \in Seq(Task)
    /\ pc \in [Threads -> {"idle", "locked", "pushed"}]
    /\ worker \in {"none", "lock", "check", "wait", "relock", "work"}
    /\ inHand \in Seq(Task)
    /\ pushed \in Seq(Task)
    /\ executed \in Seq(Task)
    /\ failed \in Nat

(* Who is inside the critical section holds the mutex, and nobody else is  *)
(* inside: two I/O threads in push(), or a push() and a pop(), never touch *)
(* the std::queue at the same time.                                        *)
MutualExclusion ==
    /\ \A t \in Threads : pc[t] # "idle" <=> dbMtx = t
    /\ worker = "check" <=> dbMtx = Worker

(* The tasks executed, the one being executed and the ones queued are,     *)
(* end to end, the tasks pushed: none is lost, repeated or overtaken, even *)
(* when tasks fail and the worker is woken for nothing.                    *)
InOrderOnce == executed \o inHand \o dbQueue = pushed

(* No lost wake-up: the worker never sleeps on a non-empty queue.  It is   *)
(* what holding the lock across the predicate and the wait is for.         *)
NoLostWakeup == worker = "wait" => dbQueue = <<>>

(* The queue implements the abstract log: a push is one Submit, the end of *)
(* a task one Perform, everything else invisible.                          *)
Log == INSTANCE TaskLog WITH todo <- inHand \o dbQueue, done <- executed
LogSpec == Log!Spec

(* When the worker exists every task pushed is executed some day, whatever *)
(* the other threads do and although failed tasks are not retried.         *)
EveryTaskExecuted ==
    worker # "none" =>
        \A n \in 1..MaxPush : (Len(pushed) >= n) ~> (Len(executed) >= n)
=============================================================================
