------------------------------ MODULE EventLoop ------------------------------
(***************************************************************************)
(* EventLoop (event_loop.cpp) and the PipeEventWatcher that wakes it       *)
(* (event_watcher.cpp): functors handed over by any thread are queued      *)
(* under mutex_ and run by the one thread inside event_base_dispatch.      *)
(*                                                                         *)
(* A step of a thread ends where another thread could see or change what   *)
(* it does next: it reads or stores status_ or tid_, takes or releases     *)
(* mutex_, writes or reads the pipe, or creates or destroys watcher_.      *)
(* The body of a functor is whatever API calls its thread makes between    *)
(* BeginFunctor and EndFunctor.  libevent is modelled by what the code     *)
(* sees of it: a readable pipe calls HandlerFn, and the dispatch returns   *)
(* once event_base_loopexit was called and the handler has returned.       *)
(***************************************************************************)
EXTENDS Naturals, Sequences

CONSTANTS
  Task,      \* the functors users hand over, each one once
  StopTask,  \* the functor bound to StopInLoop
  None,      \* no functor, or no thread
  Thread,    \* the threads that use the loop
  Loop,      \* the thread that calls Run
  Ctor,      \* the thread that constructed the EventLoop
  OwnBase,   \* EventLoop(), otherwise EventLoop(event_base*)
  MaxStops,  \* how many calls of Stop the users make
  MayCancel  \* whether a user calls Cancel

ASSUME LoopAssumption ==
  /\ Loop \in Thread /\ Ctor \in Thread
  /\ None \notin Task \cup Thread
  /\ StopTask \notin Task \cup {None}
  /\ OwnBase \in BOOLEAN /\ MayCancel \in BOOLEAN
  /\ MaxStops \in Nat

VARIABLES
  status,    \* status_
  tid,       \* tid_
  mutex,     \* the thread that holds mutex_, or None
  watcher,   \* watcher_ is not null
  watching,  \* the watcher's event is in the event base
  notified,  \* notified_
  pending,   \* *pending_functors_
  pipe,      \* bytes sent by Notify and not yet received
  exit,      \* event_base_loopexit was called
  lpc,       \* where the loop thread is in Run
  batches,   \* the DoPendingFunctors calls on its stack, the innermost last
  drain,     \* which of its two drain loops StopInLoop is in, 0 outside it
  running,   \* the functor it is running, or None
  pc,        \* where each thread is in a call of RunInLoop, QueueInLoop, Stop
  arg,       \* the functor of that call
  fresh,     \* (bound) the functors no user has handed over yet
  stops,     \* (bound) the calls of Stop that are left
  late       \* (history) what was queued since StopInLoop began

loopVars == <<lpc, batches, drain, running, exit>>
callVars == <<pc, arg, fresh, stops>>
vars == <<status, tid, mutex, watcher, watching, notified, pending, pipe,
          loopVars, callVars, late>>

Functor == Task \cup {StopTask}

Status == {"kInitialized", "kStarting", "kRunning", "kStopping", "kStopped"}

\* A call of DoPendingFunctors: what is left of its functors vector, and
\* which drain loop it was called from.
Batch == [todo : Seq(Functor), drain : 0..2]

Innermost == batches[Len(batches)]
Outer == SubSeq(batches, 1, Len(batches) - 1)

\* StopInLoop has begun.
Stopping == drain # 0 \/ exit

-----------------------------------------------------------------------------
(* The constructors: Init(), and for an existing base also AsyncWait.      *)

Init ==
  /\ status = IF OwnBase THEN "kInitialized" ELSE "kRunning"
  /\ tid = Ctor
  /\ mutex = None
  /\ watcher = TRUE
  /\ watching = ~OwnBase
  /\ notified = FALSE /\ pending = <<>> /\ pipe = 0 /\ exit = FALSE
  /\ lpc = "new" /\ batches = <<>> /\ drain = 0 /\ running = None
  /\ pc = [p \in Thread |-> "idle"] /\ arg = [p \in Thread |-> None]
  /\ fresh = Task /\ stops = MaxStops /\ late = {}

-----------------------------------------------------------------------------
(* Calls of the users.                                                     *)

\* The loop thread makes calls before Run, and from the functors it runs.
CanCall(p) == pc[p] = "idle" /\ (p = Loop => lpc = "new" \/ running # None)

Goto(p, l) == pc' = [pc EXCEPT ![p] = l]

\* A user enters RunInLoop or QueueInLoop with a new functor.
Call(p, t, l) ==
  /\ CanCall(p)
  /\ Goto(p, l) /\ arg' = [arg EXCEPT ![p] = t] /\ fresh' = fresh \ {t}
  /\ UNCHANGED <<status, tid, mutex, watcher, watching, notified, pending,
                 pipe, loopVars, stops, late>>

RunInLoop(p, t) == Call(p, t, "status")
QueueInLoop(p, t) == Call(p, t, "lock")

\* IsRunning(), the first conjunct of RunInLoop's condition.
ReadStatus(p) ==
  /\ pc[p] = "status"
  /\ Goto(p, IF status = "kRunning" THEN "tid" ELSE "lock")
  /\ UNCHANGED <<status, tid, mutex, watcher, watching, notified, pending,
                 pipe, loopVars, arg, fresh, stops, late>>

\* RunInLoop that queues a functor it has moved from.
ReadTidMoved(p) ==
  /\ pc[p] = "tid"
  /\ Goto(p, IF tid = p THEN "inline" ELSE "lock")
  /\ arg' = [arg EXCEPT ![p] = IF tid = p THEN @ ELSE None]
  /\ UNCHANGED <<status, tid, mutex, watcher, watching, notified, pending,
                 pipe, loopVars, fresh, stops, late>>

\* IsInLoopThread(), the second one.
ReadTid(p) ==
  /\ pc[p] = "tid"
  /\ Goto(p, IF tid = p THEN "inline" ELSE "lock")
  /\ UNCHANGED <<status, tid, mutex, watcher, watching, notified, pending,
                 pipe, loopVars, arg, fresh, stops, late>>

\* RunInLoop runs the functor itself and returns.
RunInline(p) ==
  /\ pc[p] = "inline"
  /\ Goto(p, "idle") /\ arg' = [arg EXCEPT ![p] = None]
  /\ UNCHANGED <<status, tid, mutex, watcher, watching, notified, pending,
                 pipe, loopVars, fresh, stops, late>>

\* QueueInLoop takes mutex_.
Lock(p) ==
  /\ pc[p] = "lock" /\ mutex = None
  /\ mutex' = p /\ Goto(p, "push")
  /\ UNCHANGED <<status, tid, watcher, watching, notified, pending, pipe,
                 loopVars, arg, fresh, stops, late>>

\* QueueInLoop that does not look at notified_.
PushAlwaysNotifies(p) ==
  /\ pc[p] = "push"
  /\ pending' = Append(pending, arg[p])
  /\ late' = IF Stopping THEN late \cup {arg[p]} ELSE late
  /\ notified' = TRUE
  /\ IF watcher
       THEN Goto(p, "notify") /\ UNCHANGED <<mutex, arg>>
       ELSE Goto(p, "idle") /\ mutex' = None /\ arg' = [arg EXCEPT ![p] = None]
  /\ UNCHANGED <<status, tid, watcher, watching, pipe, loopVars, fresh, stops>>

\* QueueInLoop up to the test of watcher_; unless it has to call Notify it
\* returns and releases mutex_.  Where QueueAssertion does not hold, a build
\* without NDEBUG ends here and one with it goes on.
Push(p) ==
  /\ pc[p] = "push"
  /\ pending' = Append(pending, arg[p])
  /\ late' = IF Stopping THEN late \cup {arg[p]} ELSE late
  /\ notified' = TRUE
  /\ IF ~notified /\ watcher
       THEN Goto(p, "notify") /\ UNCHANGED <<mutex, arg>>
       ELSE Goto(p, "idle") /\ mutex' = None /\ arg' = [arg EXCEPT ![p] = None]
  /\ UNCHANGED <<status, tid, watcher, watching, pipe, loopVars, fresh, stops>>

\* Notify sends a byte and QueueInLoop returns.  A watcher destroyed since
\* Push has closed its pipe.
Notify(p) ==
  /\ pc[p] = "notify"
  /\ pipe' = IF watcher THEN pipe + 1 ELSE pipe
  /\ Goto(p, "idle") /\ mutex' = None /\ arg' = [arg EXCEPT ![p] = None]
  /\ UNCHANGED <<status, tid, watcher, watching, notified, pending, loopVars,
                 fresh, stops, late>>

\* Stop up to its assertion, which a build without NDEBUG enforces.
CallStop(p) ==
  /\ CanCall(p) /\ stops > 0
  /\ status = "kRunning"
  /\ Goto(p, "stop") /\ stops' = stops - 1
  /\ UNCHANGED <<status, tid, mutex, watcher, watching, notified, pending,
                 pipe, loopVars, arg, fresh, late>>

\* Stop that only enters QueueInLoop.
StopWithoutStatus(p) ==
  /\ pc[p] = "stop"
  /\ Goto(p, "lock") /\ arg' = [arg EXCEPT ![p] = StopTask]
  /\ UNCHANGED <<status, tid, mutex, watcher, watching, notified, pending, pipe,
                 loopVars, fresh, stops, late>>

\* Stop stores kStopping and enters QueueInLoop with StopInLoop.
StoreStopping(p) ==
  /\ pc[p] = "stop"
  /\ status' = "kStopping"
  /\ Goto(p, "lock") /\ arg' = [arg EXCEPT ![p] = StopTask]
  /\ UNCHANGED <<tid, mutex, watcher, watching, notified, pending, pipe,
                 loopVars, fresh, stops, late>>

\* ~PipeEventWatcher: the event leaves the base and the pipe is closed.
DestroyWatcher == watcher' = FALSE /\ watching' = FALSE /\ pipe' = 0

Cancel(p) ==
  /\ MayCancel /\ CanCall(p) /\ watcher
  /\ DestroyWatcher
  /\ UNCHANGED <<status, tid, mutex, notified, pending, loopVars, callVars, late>>

-----------------------------------------------------------------------------
(* The loop thread.                                                        *)

\* The loop thread is in Run and in no call of a functor.
At(l) == lpc = l /\ pc[Loop] = "idle"

\* Run that stores kRunning before everything has initialized.
StoreRunningAtOnce ==
  /\ At("new")
  /\ status' = "kRunning" /\ lpc' = "starting"
  /\ UNCHANGED <<tid, mutex, watcher, watching, notified, pending, pipe,
                 batches, drain, running, exit, callVars, late>>

\* Run stores kStarting ...
StoreStarting ==
  /\ At("new")
  /\ status' = "kStarting" /\ lpc' = "starting"
  /\ UNCHANGED <<tid, mutex, watcher, watching, notified, pending, pipe,
                 batches, drain, running, exit, callVars, late>>

\* ... then tid_, and puts the watcher's event into the base.
SetTid ==
  /\ At("starting")
  /\ tid' = Loop /\ watching' = watcher /\ lpc' = "ready"
  /\ UNCHANGED <<status, mutex, watcher, notified, pending, pipe,
                 batches, drain, running, exit, callVars, late>>

\* "After everything have initialized, we set the status to kRunning".
StoreRunning ==
  /\ At("ready")
  /\ status' = "kRunning" /\ lpc' = "dispatch"
  /\ UNCHANGED <<tid, mutex, watcher, watching, notified, pending, pipe,
                 batches, drain, running, exit, callVars, late>>

\* HandlerFn empties the pipe (it receives up to 128 bytes) ...
Receive ==
  /\ At("dispatch") /\ ~exit
  /\ watching /\ pipe > 0
  /\ pipe' = 0 /\ lpc' = "swap"
  /\ UNCHANGED <<status, tid, mutex, watcher, watching, notified, pending,
                 batches, drain, running, exit, callVars, late>>

\* DoPendingFunctors that leaves notified_ set.
SwapKeepsNotified ==
  /\ At("swap") /\ mutex = None
  /\ batches' = Append(batches, [todo |-> pending, drain |-> drain])
  /\ pending' = <<>>
  /\ lpc' = "batch"
  /\ UNCHANGED <<status, tid, mutex, watcher, watching, notified, pipe, drain,
                 running, exit, callVars, late>>

\* DoPendingFunctors that copies the queue without emptying it.
SwapCopies ==
  /\ At("swap") /\ mutex = None
  /\ notified' = FALSE
  /\ batches' = Append(batches, [todo |-> pending, drain |-> drain])
  /\ lpc' = "batch"
  /\ UNCHANGED <<status, tid, mutex, watcher, watching, pending, pipe, drain,
                 running, exit, callVars, late>>

\* ... and DoPendingFunctors takes the queued functors under mutex_.
Swap ==
  /\ At("swap") /\ mutex = None
  /\ notified' = FALSE
  /\ batches' = Append(batches, [todo |-> pending, drain |-> drain])
  /\ pending' = <<>>
  /\ lpc' = "batch"
  /\ UNCHANGED <<status, tid, mutex, watcher, watching, pipe, drain, running,
                 exit, callVars, late>>

\* The head of the innermost batch is taken.
TakeFunctor ==
  /\ At("batch") /\ running = None
  /\ Innermost.todo # <<>>
  /\ batches' = [batches EXCEPT ![Len(batches)].todo = Tail(@)]

\* DoPendingFunctors calls a functor of a user.
BeginFunctor ==
  /\ TakeFunctor
  /\ Head(Innermost.todo) # StopTask
  /\ running' = Head(Innermost.todo)
  /\ UNCHANGED <<status, tid, mutex, watcher, watching, notified, pending,
                 pipe, lpc, drain, exit, callVars, late>>

\* It returns.
EndFunctor ==
  /\ At("batch") /\ running # None
  /\ running' = None
  /\ UNCHANGED <<status, tid, mutex, watcher, watching, notified, pending,
                 pipe, lpc, batches, drain, exit, callVars, late>>

\* StopInLoop that gives up the batch it is part of.
StopInLoopDropsBatch ==
  /\ At("batch") /\ running = None
  /\ Innermost.todo # <<>> /\ Head(Innermost.todo) = StopTask
  /\ batches' = [batches EXCEPT ![Len(batches)].todo = <<>>]
  /\ drain' = 1 /\ lpc' = "swap"
  /\ UNCHANGED <<status, tid, mutex, watcher, watching, notified, pending,
                 pipe, running, exit, callVars, late>>

\* DoPendingFunctors calls StopInLoop, which starts its first drain loop.
BeginStopInLoop ==
  /\ TakeFunctor
  /\ Head(Innermost.todo) = StopTask
  /\ drain' = 1 /\ lpc' = "swap"
  /\ UNCHANGED <<status, tid, mutex, watcher, watching, notified, pending,
                 pipe, running, exit, callVars, late>>

\* DoPendingFunctors returns, to HandlerFn or to a drain loop.
EndBatch ==
  /\ At("batch") /\ running = None
  /\ Innermost.todo = <<>>
  /\ batches' = Outer
  /\ lpc' = IF Innermost.drain = 0 THEN "dispatch" ELSE "empty"
  /\ UNCHANGED <<status, tid, mutex, watcher, watching, notified, pending,
                 pipe, drain, running, exit, callVars, late>>

\* What IsPendingQueueEmpty can return: it reads the vector without mutex_,
\* so that a push in progress may or may not be seen.
SeenEmpty ==
  IF \E p \in Thread : pc[p] = "push" THEN BOOLEAN ELSE {pending = <<>>}

\* Another round of a drain loop.
DrainAgain ==
  /\ At("empty") /\ FALSE \in SeenEmpty
  /\ lpc' = "swap"
  /\ UNCHANGED <<status, tid, mutex, watcher, watching, notified, pending,
                 pipe, batches, drain, running, exit, callVars, late>>

\* StopInLoop that forgets event_base_loopexit.
NoRequestExit ==
  /\ At("empty") /\ drain = 1 /\ TRUE \in SeenEmpty
  /\ drain' = 2 /\ lpc' = "swap"
  /\ UNCHANGED <<status, tid, mutex, watcher, watching, notified, pending,
                 pipe, batches, running, exit, callVars, late>>

\* The first drain loop ends: event_base_loopexit, and the second one.
RequestExit ==
  /\ At("empty") /\ drain = 1 /\ TRUE \in SeenEmpty
  /\ exit' = TRUE /\ drain' = 2 /\ lpc' = "swap"
  /\ UNCHANGED <<status, tid, mutex, watcher, watching, notified, pending,
                 pipe, batches, running, callVars, late>>

\* The second one ends and StopInLoop returns to the batch it was part of.
EndStopInLoop ==
  /\ At("empty") /\ drain = 2 /\ TRUE \in SeenEmpty
  /\ drain' = Innermost.drain /\ lpc' = "batch"
  /\ UNCHANGED <<status, tid, mutex, watcher, watching, notified, pending,
                 pipe, batches, running, exit, callVars, late>>

\* event_base_dispatch returns: an exit was requested, or the base has no
\* event left.
DispatchReturns ==
  /\ At("dispatch") /\ (exit \/ ~watching)
  /\ lpc' = "leave"
  /\ UNCHANGED <<status, tid, mutex, watcher, watching, notified, pending,
                 pipe, batches, drain, running, exit, callVars, late>>

\* Run destroys the watcher, without mutex_ ...
ResetWatcher ==
  /\ At("leave")
  /\ DestroyWatcher /\ lpc' = "reset"
  /\ UNCHANGED <<status, tid, mutex, notified, pending, batches, drain,
                 running, exit, callVars, late>>

\* ... and stores kStopped.
StoreStopped ==
  /\ At("reset")
  /\ status' = "kStopped" /\ lpc' = "done"
  /\ UNCHANGED <<tid, mutex, watcher, watching, notified, pending, pipe,
                 batches, drain, running, exit, callVars, late>>

-----------------------------------------------------------------------------
\* The steps a thread takes inside a call it has entered.
Proceed(p) ==
  \/ ReadStatus(p) \/ ReadTid(p) \/ RunInline(p)
  \/ Lock(p) \/ Push(p) \/ Notify(p) \/ StoreStopping(p)

User(p) ==
  \/ \E t \in fresh : RunInLoop(p, t) \/ QueueInLoop(p, t)
  \/ CallStop(p) \/ Cancel(p)

Run ==
  \/ StoreStarting \/ SetTid \/ StoreRunning
  \/ Receive \/ Swap \/ BeginFunctor \/ EndFunctor \/ EndBatch
  \/ BeginStopInLoop \/ DrainAgain \/ RequestExit \/ EndStopInLoop
  \/ DispatchReturns \/ ResetWatcher \/ StoreStopped

Next == Run \/ \E p \in Thread : User(p) \/ Proceed(p)

Spec == Init /\ [][Next]_vars

(***************************************************************************)
(* Fairness: the operating system schedules every thread that can go on,   *)
(* the functors return, and somebody calls Run.  No user has to make a     *)
(* call.  Weak fairness is enough for mutex_, which is held for a bounded  *)
(* time by as many calls as there are functors.                            *)
(***************************************************************************)
FairSpec == Spec /\ WF_vars(Run) /\ \A p \in Thread : WF_vars(Proceed(p))

-----------------------------------------------------------------------------
TypeOK ==
  /\ status \in Status
  /\ tid \in Thread
  /\ mutex \in Thread \cup {None}
  /\ watcher \in BOOLEAN /\ watching \in BOOLEAN
  /\ notified \in BOOLEAN /\ exit \in BOOLEAN
  /\ pending \in Seq(Functor)
  /\ pipe \in Nat
  /\ lpc \in {"new", "starting", "ready", "dispatch", "swap", "batch",
              "empty", "leave", "reset", "done"}
  /\ batches \in Seq(Batch)
  /\ drain \in 0..2
  /\ running \in Task \cup {None}
  /\ pc \in [Thread -> {"idle", "status", "tid", "inline", "lock", "push",
                        "notify", "stop"}]
  /\ arg \in [Thread -> Functor \cup {None}]
  /\ fresh \subseteq Task /\ stops \in 0..MaxStops /\ late \subseteq Functor

(***************************************************************************)
(* No lost wakeup: while functors are queued and the loop is not about to  *)
(* take them, a byte is in the pipe or a thread inside QueueInLoop is      *)
(* about to send it.  notified_ may suppress a byte only when another one  *)
(* is still to be received.                                                *)
(***************************************************************************)
NoLostWakeup ==
  pending # <<>> /\ watcher /\ ~Stopping /\ lpc # "swap"
    => pipe > 0 \/ \E p \in Thread : pc[p] = "notify"

(***************************************************************************)
(* Until StopInLoop drains the queue without receiving, at most one byte   *)
(* is on its way: Notify ignores a failed send, and HandlerFn receives at  *)
(* most 128 bytes, and neither can matter.                                 *)
(***************************************************************************)
OneWakeup ==
  ~Stopping => /\ pipe <= 1
               /\ (\E p \in Thread : pc[p] = "notify") => pipe = 0

(***************************************************************************)
(* Functors run on the loop thread only: RunInLoop may take the short cut  *)
(* only there, although the constructing thread's id is in tid_ until Run  *)
(* replaces it.                                                            *)
(***************************************************************************)
RunsOnLoopThread == \A p \in Thread : pc[p] = "inline" => p = Loop

\* assert(status_.load() == kStopping) in StopInLoop.
StopInLoopAssertion == drain # 0 => status = "kStopping"

(***************************************************************************)
(* assert(!IsRunning()) in QueueInLoop: whoever has to wake the loop and   *)
(* finds no watcher_, which Run resets without mutex_, finds a loop that   *)
(* was told to stop.                                                       *)
(***************************************************************************)
QueueAssertion ==
  ~watcher /\ ~notified /\ (\E p \in Thread : pc[p] = "push")
    => status # "kRunning"

(***************************************************************************)
(* "@Guarded By mutex_" (event_loop.hpp:56): no thread reads               *)
(* pending_functors_ while another one, which holds mutex_, changes it.    *)
(***************************************************************************)
PendingGuarded ==
  lpc = "empty" => ~ \E p \in Thread : pc[p] = "push"

-----------------------------------------------------------------------------
(***************************************************************************)
(* The loop thread's stack: HandlerFn's DoPendingFunctors at the bottom,   *)
(* above it one for each drain loop that is being run, and a functor in    *)
(* the hands of every thread inside RunInLoop or QueueInLoop.              *)
(***************************************************************************)
CallStack ==
  /\ lpc \in {"batch", "empty"} => batches # <<>>
  /\ lpc = "swap" => (drain = 0 <=> batches = <<>>)
  /\ lpc = "batch" => drain = Innermost.drain
  /\ lpc = "empty" => drain # 0
  /\ lpc \notin {"swap", "batch", "empty"} => batches = <<>> /\ drain = 0
  /\ \A i \in 1..Len(batches) : batches[i].drain = 0 <=> i = 1
  /\ \A p \in Thread :
       pc[p] \in {"status", "tid", "inline", "lock", "push", "notify"}
         => arg[p] \in Functor

\* A thread is about to send a byte.
Sending == \E p \in Thread : pc[p] = "notify"

\* mutex_ is held exactly by a thread inside QueueInLoop's critical section.
MutexHeld == \A p \in Thread : mutex = p <=> pc[p] \in {"push", "notify"}

\* StopInLoop, once begun, is never forgotten.
StopRemembered ==
  /\ drain = 2 => exit
  /\ lpc = "empty" => Stopping
  /\ \A i \in 1..Len(batches) : batches[i].drain # 0 => Stopping

\* notified_ is set exactly while one wakeup is on its way: about to be sent,
\* in the pipe, or received by a loop that has not taken the queue yet.
OneOnItsWay ==
  /\ ~watcher => pipe = 0
  /\ watcher /\ ~Stopping =>
       /\ pending # <<>> => notified
       /\ notified <=> (pipe = 1 \/ Sending \/ lpc = "swap")
       /\ pipe \in 0..1
       /\ pipe = 1 => ~Sending /\ lpc # "swap"
       /\ Sending => lpc # "swap"

(***************************************************************************)
(* Why no wakeup is lost: the inductive strengthening of NoLostWakeup.     *)
(***************************************************************************)
WakeupInv == MutexHeld /\ StopRemembered /\ OneOnItsWay

(***************************************************************************)
(* Why functors run on the loop thread only: whoever saw kRunning finds    *)
(* the loop thread's id in tid_.                                           *)
(***************************************************************************)
TidInv ==
  /\ ~OwnBase \/ lpc \notin {"new", "starting"} => tid = Loop
  /\ OwnBase /\ lpc \in {"new", "starting", "ready"} =>
       /\ status \in {"kInitialized", "kStarting"}
       /\ \A p \in Thread : pc[p] # "stop"
  /\ \A p \in Thread : pc[p] = "tid" => tid = Loop
  /\ \A p \in Thread : pc[p] = "inline" => p = Loop

(***************************************************************************)
(* Why StopInLoop finds kStopping: a loop of its own says kRunning only    *)
(* when Run is ready, Stop stores kStopping before it hands StopInLoop     *)
(* over, and from then on Run stores nothing until it ends.                *)
(***************************************************************************)
StopHandedOver ==
  \/ drain # 0
  \/ \E p \in Thread : arg[p] = StopTask
  \/ \E i \in 1..Len(pending) : pending[i] = StopTask
  \/ \E n \in 1..Len(batches) :
       \E i \in 1..Len(batches[n].todo) : batches[n].todo[i] = StopTask

StopInv ==
  /\ lpc \in {"new", "starting", "ready"} =>
       /\ status \in {"kInitialized", "kStarting"}
       /\ \A p \in Thread : pc[p] # "stop"
  /\ lpc # "done" /\ StopHandedOver => status = "kStopping"

(***************************************************************************)
(* Why a loop that was stopped leaves nothing behind: whatever StopInLoop  *)
(* finds in the queue it drains, before it looks for more.                 *)
(***************************************************************************)
DrainInv ==
  /\ Stopping /\ lpc # "swap" =>
       \A i \in 1..Len(pending) : pending[i] \in late
  /\ running # None => lpc = "batch"

-----------------------------------------------------------------------------
\* What is left of the batches of a stack, from the outermost on.
Left(stack) ==
  LET todo[n \in 0..Len(stack)] ==
        IF n = 0 THEN <<>> ELSE todo[n - 1] \o stack[n].todo
  IN  todo[Len(stack)]

\* What is queued and not started, in the order it was handed over: the
\* batches, then the queue.
Waiting == Left(batches) \o pending

E == INSTANCE TaskExecutor
       WITH queue <- Waiting, current <- running, stopping <- Stopping,
            halted <- lpc = "done" /\ exit

(***************************************************************************)
(* Every functor handed over is started once, in order until StopInLoop    *)
(* begins, and a Run that was stopped returns only when everything queued  *)
(* by then has run.                                                        *)
(***************************************************************************)
ImplementsTaskExecutor == E!Spec

IsWaiting(t) == \E i \in 1..Len(Waiting) : Waiting[i] = t

(***************************************************************************)
(* A functor queued before StopInLoop begins is run, however the bytes,    *)
(* the flag and the queue interleave.                                      *)
(***************************************************************************)
QueuedRuns ==
  \A t \in Task : (IsWaiting(t) /\ ~Stopping) ~> running = t

\* A loop that was told to stop, by however many calls of Stop, comes to the
\* end of Run.
StopEnds == status = "kStopping" ~> lpc = "done"
=============================================================================
