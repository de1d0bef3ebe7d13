------------------------------- MODULE TaskLog -------------------------------
(***************************************************************************)
(* What the handlers of the chat server rely on when they hand a database  *)
(* write to the queue of src/src/server/redis/dbtask.cpp: a log with one   *)
(* reader.  A task joins the log once, at the end; the reader performs     *)
(* the oldest task not performed yet, exactly once.  How the queue is      *)
(* shared between threads is DbTask's business.                            *)
(***************************************************************************)
EXTENDS Sequences

CONSTANT Task   \* the tasks that can be submitted

VARIABLES todo, \* submitted, not performed yet, oldest first
          done  \* performed, in the order of performance

Init == todo = <<>> /\ done = <<>>

Submit(t) == todo' = Append(todo, t) /\ UNCHANGED done

Perform == /\ todo # <<>>
           /\ todo' = Tail(todo)
           /\ done' = Append(done, Head(todo))

Next == Perform \/ \E t \in Task : Submit(t)

Spec == Init /\ [][Next]_<<todo, done>>
=============================================================================
