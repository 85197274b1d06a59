---------------------------- MODULE TaskExecutor ----------------------------
(***************************************************************************)
(* What an EventLoop promises to the threads that hand it functors: it     *)
(* runs them one at a time and in the order they were handed over.  A stop *)
(* is a functor of the same queue; from the moment it is taken the order   *)
(* is no longer promised, but the executor only halts when every functor   *)
(* that was queued by then has been run.                                   *)
(***************************************************************************)
EXTENDS Naturals, Sequences

CONSTANTS Task,      \* the functors of the users
          StopTask,  \* the functor that stops the executor
          None       \* no functor

VARIABLES queue,     \* the functors handed over and not yet started
          current,   \* the functor being run
          stopping,  \* the stop functor has been taken
          late,      \* the functors handed over since then
          halted     \* the executor has ended

vars == <<queue, current, stopping, late, halted>>

Init ==
  /\ queue = <<>> /\ current = None
  /\ stopping = FALSE /\ late = {} /\ halted = FALSE

\* A functor is handed over, at any time, by any thread.
Submit(f) ==
  /\ queue' = Append(queue, f)
  /\ late' = IF stopping THEN late \cup {f} ELSE late
  /\ UNCHANGED <<current, stopping, halted>>

\* The functor that has waited longest is started.
StartNext ==
  /\ ~stopping /\ current = None
  /\ queue # <<>> /\ Head(queue) # StopTask
  /\ current' = Head(queue)
  /\ queue' = Tail(queue)
  /\ UNCHANGED <<stopping, late, halted>>

\* The stop functor is taken in its turn.
Stop ==
  /\ ~stopping /\ current = None
  /\ queue # <<>> /\ Head(queue) = StopTask
  /\ stopping' = TRUE
  /\ queue' = Tail(queue)
  /\ UNCHANGED <<current, late, halted>>

Without(i) == SubSeq(queue, 1, i - 1) \o SubSeq(queue, i + 1, Len(queue))

\* While stopping, any functor may be the next.
StartAny(i) ==
  /\ stopping /\ ~halted /\ current = None
  /\ queue[i] # StopTask
  /\ current' = queue[i]
  /\ queue' = Without(i)
  /\ UNCHANGED <<stopping, late, halted>>

\* A second stop changes nothing.
StopAgain(i) ==
  /\ stopping /\ ~halted /\ current = None
  /\ queue[i] = StopTask
  /\ queue' = Without(i)
  /\ UNCHANGED <<current, stopping, late, halted>>

Finish ==
  /\ current # None
  /\ current' = None
  /\ UNCHANGED <<queue, stopping, late, halted>>

\* Nothing that was queued when the stop was taken is left behind.
Halt ==
  /\ stopping /\ ~halted /\ current = None
  /\ \A i \in 1..Len(queue) : queue[i] \in late
  /\ halted' = TRUE
  /\ UNCHANGED <<queue, current, stopping, late>>

Next ==
  \/ \E f \in Task \cup {StopTask} : Submit(f)
  \/ StartNext \/ Stop \/ Finish \/ Halt
  \/ \E i \in 1..Len(queue) : StartAny(i) \/ StopAgain(i)

Spec == Init /\ [][Next]_vars
=============================================================================
