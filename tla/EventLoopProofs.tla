--------------------------- MODULE EventLoopProofs ---------------------------
(***************************************************************************)
(* Proofs about EventLoop for any number of threads, functors and calls of *)
(* Stop, with or without Cancel: its invariants, and that it implements    *)
(* TaskExecutor.                                                           *)
(***************************************************************************)
EXTENDS EventLoop, ProofLemmas

TypeInv == TypeOK /\ CallStack

\* What the steps of the users and of the loop thread have in common: the
\* case analysis of every proof below.
Action(p) == User(p) \/ Proceed(p)

-----------------------------------------------------------------------------
(* The stack of batches.                                                   *)

\* The innermost batch is a batch and its tail a tail of functors.
LEMMA InnermostIsBatch ==
  ASSUME TypeInv, batches # <<>>
  PROVE  /\ Len(batches) \in 1..Len(batches)
         /\ Innermost \in Batch
         /\ Innermost.todo \in Seq(Functor) /\ Innermost.drain \in 0..2
<1>1. batches \in Seq(Batch)
  BY DEF TypeInv, TypeOK
<1>2. Len(batches) \in 1..Len(batches)
  BY <1>1
<1>3. batches[Len(batches)] \in Batch
  BY <1>1, <1>2
<1> QED
  BY <1>2, <1>3 DEF Innermost, Batch

\* A step that leaves the stack alone leaves its innermost batch alone.
LEMMA SameInnermost ==
  ASSUME UNCHANGED batches
  PROVE  UNCHANGED Innermost
  BY DEF Innermost

\* Taking a functor leaves the shape of the stack alone.
LEMMA TakeFunctorStack ==
  ASSUME TypeInv, TakeFunctor
  PROVE  /\ Head(Innermost.todo) \in Functor
         /\ batches # <<>>
         /\ batches' \in Seq(Batch)
         /\ Len(batches') = Len(batches)
         /\ \A i \in 1..Len(batches) : batches'[i].drain = batches[i].drain
<1>1. batches # <<>>
  BY DEF TypeInv, CallStack, TakeFunctor, At
<1>2. batches \in Seq(Batch) /\ Len(batches) \in 1..Len(batches)
  BY <1>1, InnermostIsBatch DEF TypeInv, TypeOK
<1> DEFINE todo == Innermost.todo
<1>3. todo \in Seq(Functor) /\ todo # <<>>
  BY <1>1, InnermostIsBatch DEF TakeFunctor
<1>4. Head(todo) \in Functor /\ Tail(todo) \in Seq(Functor)
  BY <1>3
<1> DEFINE top == [Innermost EXCEPT !.todo = Tail(todo)]
<1>5. top \in Batch /\ top.drain = Innermost.drain
  BY <1>1, <1>4, InnermostIsBatch DEF Batch
<1>6. batches' = [batches EXCEPT ![Len(batches)] = top]
  BY DEF TakeFunctor, Innermost
<1> HIDE DEF top, todo
<1>7. /\ batches' \in Seq(Batch)
      /\ Len(batches') = Len(batches)
      /\ \A i \in 1..Len(batches) : batches'[i].drain = batches[i].drain
  BY <1>2, <1>5, <1>6 DEF Innermost
<1> QED
  BY <1>1, <1>4, <1>7 DEF todo

\* A call of DoPendingFunctors puts a batch on top.
LEMMA SwapStack ==
  ASSUME TypeInv, Swap
  PROVE  /\ batches' \in Seq(Batch)
         /\ Len(batches') = Len(batches) + 1
         /\ \A i \in 1..Len(batches) : batches'[i] = batches[i]
         /\ batches'[Len(batches')].drain = drain
<1> DEFINE top == [todo |-> pending, drain |-> drain]
<1>1. top \in Batch /\ top.drain = drain
  BY DEF Batch, TypeInv, TypeOK
<1>2. batches' = Append(batches, top) /\ batches \in Seq(Batch)
  BY DEF Swap, TypeInv, TypeOK
<1> HIDE DEF top
<1> QED
  BY <1>1, <1>2

\* Its return removes the innermost one.
LEMMA EndBatchStack ==
  ASSUME TypeInv, EndBatch
  PROVE  /\ batches # <<>>
         /\ batches' \in Seq(Batch)
         /\ Len(batches') = Len(batches) - 1
         /\ \A i \in 1..Len(batches') : batches'[i] = batches[i]
<1>1. batches # <<>> /\ batches \in Seq(Batch)
  BY DEF TypeInv, TypeOK, CallStack, EndBatch, At
<1>2. batches' = SubSeq(batches, 1, Len(batches) - 1)
  BY DEF EndBatch, Outer
<1> DEFINE n == Len(batches) - 1
<1>3. n \in Nat /\ \A i \in 1 .. n : batches[i] \in Batch
  BY <1>1
<1>4. batches' = SubSeq(batches, 1, n)
  BY <1>2
<1> HIDE DEF n
<1>5. /\ batches' \in Seq(Batch)
      /\ Len(batches') = IF 1 <= n THEN n - 1 + 1 ELSE 0
      /\ \A i \in 1 .. n - 1 + 1 : batches'[i] = batches[1 + i - 1]
  BY <1>3, <1>4, SubSeqProperties
<1>6. Len(batches') = n
  BY <1>3, <1>5
<1>7. \A i \in 1 .. n : batches'[i] = batches[i]
  BY <1>3, <1>5
<1> QED
  BY <1>1, <1>5, <1>6, <1>7 DEF n
-----------------------------------------------------------------------------
(* Types.                                                                  *)

LEMMA TypeInit == Init => TypeInv
<1> SUFFICES ASSUME Init PROVE TypeInv
  OBVIOUS
<1>1. pending \in Seq(Functor) /\ batches \in Seq(Batch) /\ Len(batches) = 0
  BY DEF Init
<1>2. watching \in BOOLEAN
  BY Zenon DEF Init
<1>3. status \in Status
  BY DEF Init, Status
<1>4. TypeOK
  <2>1. /\ watcher \in BOOLEAN /\ notified \in BOOLEAN /\ exit \in BOOLEAN
        /\ mutex \in Thread \cup {None} /\ running \in Task \cup {None}
    BY Zenon DEF Init
  <2>2. /\ tid \in Thread /\ stops \in 0..MaxStops /\ drain \in 0..2
        /\ pipe \in Nat
    BY LoopAssumption DEF Init
  <2>3. fresh \subseteq Task /\ late \subseteq Functor
    BY DEF Init
  <2>4. arg \in [Thread -> Functor \cup {None}]
    BY DEF Init
  <2>5. pc \in [Thread -> {"idle", "status", "tid", "inline", "lock", "push",
                          "notify", "stop"}]
    BY DEF Init
  <2>6. lpc = "new"
    BY DEF Init
  <2> QED
    BY <1>1, <1>2, <1>3, <2>1, <2>2, <2>3, <2>4, <2>5, <2>6 DEF TypeOK
<1>5. CallStack
  BY <1>1 DEF Init, CallStack
<1> QED
  BY <1>4, <1>5 DEF TypeInv

\* The steps of the users' threads.
LEMMA TypeAction ==
  ASSUME TypeInv, NEW p \in Thread, Action(p)
  PROVE  TypeInv'
<1> USE LoopAssumption DEF TypeInv, Functor, Status, Goto, loopVars, callVars
<1>1. CASE \E t \in fresh : RunInLoop(p, t) \/ QueueInLoop(p, t)
  <2> PICK t \in fresh, l \in {"status", "lock"} : Call(p, t, l)
    BY <1>1 DEF RunInLoop, QueueInLoop
  <2>1. t \in Task
    BY DEF TypeOK
  <2>2. TypeOK'
    BY <2>1 DEF TypeOK, Call
  <2>3. CallStack'
    BY <2>1 DEF TypeOK, CallStack, Call, Innermost
  <2> QED
    BY <2>2, <2>3
<1>2. CASE CallStop(p)
  <2>1. TypeOK'
    BY <1>2 DEF TypeOK, CallStop
  <2>2. CallStack'
    BY <1>2 DEF TypeOK, CallStack, CallStop, Innermost
  <2> QED
    BY <2>1, <2>2
<1>3. CASE Cancel(p)
  <2>1. TypeOK'
    BY <1>3, ZenonT(60) DEF TypeOK, Cancel, DestroyWatcher
  <2>2. CallStack'
    BY <1>3 DEF TypeOK, CallStack, Cancel, Innermost
  <2> QED
    BY <2>1, <2>2
<1>4. CASE ReadStatus(p) \/ ReadTid(p)
  <2>1. TypeOK'
    BY <1>4 DEF TypeOK, ReadStatus, ReadTid
  <2>2. CallStack'
    BY <1>4 DEF TypeOK, CallStack, ReadStatus, ReadTid, Innermost
  <2> QED
    BY <2>1, <2>2
<1>5. CASE RunInline(p)
  <2>1. TypeOK'
    BY <1>5 DEF TypeOK, RunInline
  <2>2. CallStack'
    BY <1>5 DEF TypeOK, CallStack, RunInline, Innermost
  <2> QED
    BY <2>1, <2>2
<1>6. CASE Lock(p)
  <2>1. TypeOK'
    BY <1>6 DEF TypeOK, Lock
  <2>2. CallStack'
    BY <1>6 DEF TypeOK, CallStack, Lock, Innermost
  <2> QED
    BY <2>1, <2>2
<1>7. CASE Push(p)
  <2>1. arg[p] \in Functor
    BY <1>7 DEF CallStack, Push
  <2>2. pending' \in Seq(Functor) /\ late' \subseteq Functor
    BY <1>7, <2>1 DEF TypeOK, Push
  <2>3. TypeOK'
    BY <1>7, <2>2, ZenonT(60) DEF TypeOK, Push
  <2>4. CallStack'
    BY <1>7 DEF TypeOK, CallStack, Push, Innermost
  <2> QED
    BY <2>3, <2>4
<1>8. CASE Notify(p)
  <2>1. TypeOK'
    BY <1>8 DEF TypeOK, Notify
  <2>2. CallStack'
    BY <1>8 DEF TypeOK, CallStack, Notify, Innermost
  <2> QED
    BY <2>1, <2>2
<1>9. CASE StoreStopping(p)
  <2>1. TypeOK'
    BY <1>9 DEF TypeOK, StoreStopping
  <2>2. CallStack'
    BY <1>9 DEF TypeOK, CallStack, StoreStopping, Innermost
  <2> QED
    BY <2>1, <2>2
<1> QED
  BY <1>1, <1>2, <1>3, <1>4, <1>5, <1>6, <1>7, <1>8, <1>9
  DEF Action, User, Proceed

\* The steps of the loop thread.
LEMMA TypeRun ==
  ASSUME TypeInv, Run
  PROVE  TypeInv'
<1> USE LoopAssumption DEF Status, callVars
<1>1. CASE StoreStarting \/ SetTid \/ StoreRunning
  <2>1. TypeOK'
    BY <1>1 DEF TypeInv, TypeOK, StoreStarting, SetTid, StoreRunning
  <2>2. CallStack'
    BY <1>1 DEF TypeInv, CallStack, StoreStarting, SetTid, StoreRunning,
                At, Innermost
  <2> QED
    BY <2>1, <2>2 DEF TypeInv
<1>2. CASE Receive \/ DispatchReturns \/ ResetWatcher \/ StoreStopped
  <2>1. TypeOK'
    <3>1. CASE Receive \/ DispatchReturns
      BY <3>1 DEF TypeInv, TypeOK, Receive, DispatchReturns
    <3>2. CASE ResetWatcher
      BY <3>2 DEF TypeInv, TypeOK, ResetWatcher, DestroyWatcher
    <3>3. CASE StoreStopped
      BY <3>3 DEF TypeInv, TypeOK, StoreStopped
    <3> QED
      BY <1>2, <3>1, <3>2, <3>3
  <2>2. CallStack'
    BY <1>2 DEF TypeInv, CallStack, Receive, DispatchReturns, ResetWatcher,
                StoreStopped, At, Innermost
  <2> QED
    BY <2>1, <2>2 DEF TypeInv
<1>3. CASE Swap
  <2>0. <<>> \in Seq(Functor)
    OBVIOUS
  <2>1. TypeOK'
    BY <1>3, <2>0, SwapStack DEF TypeInv, TypeOK, Swap
  <2>2. lpc = "swap" /\ lpc' = "batch"
    BY <1>3 DEF Swap, At
  <2>3. batches' # <<>> /\ drain' = Innermost'.drain
    BY <1>3, SwapStack, SMTT(60) DEF Swap, Innermost, TypeInv, TypeOK
  <2>4. \A i \in 1..Len(batches') : batches'[i].drain = 0 <=> i = 1
    <3> SUFFICES ASSUME NEW i \in 1..Len(batches')
                 PROVE  batches'[i].drain = 0 <=> i = 1
      OBVIOUS
    <3>0. Len(batches) \in Nat /\ Len(batches') = Len(batches) + 1
      BY <1>3, SwapStack DEF TypeInv, TypeOK
    <3>1. CASE i \in 1..Len(batches)
      BY <1>3, <3>1, SwapStack DEF TypeInv, CallStack
    <3>2. CASE i = Len(batches')
      <4>1. batches'[i].drain = drain
        BY <1>3, <3>2, SwapStack
      <4>2. drain = 0 <=> Len(batches) = 0
        BY <2>2 DEF TypeInv, TypeOK, CallStack
      <4> QED
        BY <3>0, <3>2, <4>1, <4>2
    <3> QED
      BY <3>0, <3>1, <3>2
  <2>5. UNCHANGED <<pc, arg>>
    BY <1>3 DEF Swap
  <2>6. CallStack'
    BY <2>2, <2>3, <2>4, <2>5 DEF TypeInv, CallStack
  <2> QED
    BY <2>1, <2>6 DEF TypeInv
<1>4. CASE BeginFunctor \/ BeginStopInLoop
  <2>1. TakeFunctor
    BY <1>4 DEF BeginFunctor, BeginStopInLoop
  <2>2. TypeOK'
    BY <1>4, <2>1, TakeFunctorStack
    DEF TypeInv, TypeOK, BeginFunctor, BeginStopInLoop, Functor
  <2>3. batches' # <<>>
    BY <2>1, TakeFunctorStack DEF TypeInv, TypeOK
  <2>4. \A i \in 1..Len(batches') : batches'[i].drain = 0 <=> i = 1
    BY <2>1, TakeFunctorStack DEF TypeInv, CallStack
  <2>5. Innermost'.drain = Innermost.drain
    BY <2>1, TakeFunctorStack, InnermostIsBatch DEF Innermost
  <2>6. lpc = "batch" /\ UNCHANGED <<pc, arg>>
    BY <1>4, <2>1 DEF BeginFunctor, BeginStopInLoop, TakeFunctor, At
  <2>7. \/ lpc' = "batch" /\ drain' = drain
        \/ lpc' = "swap" /\ drain' = 1
    <3>1. CASE BeginFunctor
      BY <3>1, <2>6 DEF BeginFunctor
    <3>2. CASE BeginStopInLoop
      BY <3>2, Zenon DEF BeginStopInLoop
    <3> QED
      BY <1>4, <3>1, <3>2
  <2>8. CallStack'
    BY <2>3, <2>4, <2>5, <2>6, <2>7 DEF TypeInv, CallStack
  <2> QED
    BY <2>2, <2>8 DEF TypeInv
<1>5. CASE EndFunctor
  <2>1. TypeOK'
    BY <1>5 DEF TypeInv, TypeOK, EndFunctor
  <2>2. CallStack'
    BY <1>5 DEF TypeInv, CallStack, EndFunctor, Innermost
  <2> QED
    BY <2>1, <2>2 DEF TypeInv
<1>6. CASE EndBatch
  <2>1. TypeOK'
    BY <1>6, EndBatchStack DEF TypeInv, TypeOK, EndBatch
  <2>2. lpc = "batch" /\ UNCHANGED <<pc, arg, drain>> /\ drain = Innermost.drain
    BY <1>6 DEF EndBatch, At, TypeInv, CallStack
  <2>3. \A i \in 1..Len(batches') : batches'[i].drain = 0 <=> i = 1
    BY <1>6, EndBatchStack DEF TypeInv, TypeOK, CallStack
  <2>4. drain = 0 <=> Len(batches) = 1
    BY <1>6, <2>2, EndBatchStack, InnermostIsBatch
    DEF Innermost, TypeInv, CallStack
  <2>5. drain = 0 <=> batches' = <<>>
    <3>1. /\ Len(batches) \in Nat /\ Len(batches') = Len(batches) - 1
          /\ batches' \in Seq(Batch)
      BY <1>6, EndBatchStack DEF TypeInv, TypeOK
    <3>2. batches' = <<>> <=> Len(batches') = 0
      BY <3>1, EmptySeq
    <3> QED
      BY <2>4, <3>1, <3>2
  <2>6. lpc' = IF drain = 0 THEN "dispatch" ELSE "empty"
    BY <1>6, <2>2 DEF EndBatch
  <2>7. CallStack'
    BY <2>2, <2>3, <2>5, <2>6 DEF TypeInv, CallStack
  <2> QED
    BY <2>1, <2>7 DEF TypeInv
<1>7. CASE DrainAgain \/ RequestExit
  <2>1. /\ UNCHANGED <<status, tid, mutex, watcher, watching, notified, pending>>
        /\ UNCHANGED <<pipe, batches, running, callVars, late>>
        /\ lpc = "empty" /\ lpc' = "swap"
        /\ \/ exit' = exit /\ drain' = drain
           \/ exit' = TRUE /\ drain' = 2
    <3>1. CASE DrainAgain
      BY <3>1, Zenon DEF DrainAgain, At
    <3>2. CASE RequestExit
      BY <3>2, Zenon DEF RequestExit, At
    <3> QED
      BY <1>7, <3>1, <3>2
  <2>2. TypeOK'
    <3>1. exit' \in BOOLEAN
      BY <2>1, Zenon DEF TypeInv, TypeOK
    <3>2. drain' \in 0..2
      BY <2>1 DEF TypeInv, TypeOK
    <3> QED
      BY <2>1, <3>1, <3>2 DEF TypeInv, TypeOK
  <2>3. CallStack'
    BY <2>1 DEF TypeInv, CallStack, Innermost
  <2> QED
    BY <2>2, <2>3 DEF TypeInv
<1>8. CASE EndStopInLoop
  <2>1. batches # <<>>
    BY <1>8 DEF EndStopInLoop, At, TypeInv, CallStack
  <2>2. TypeOK'
    BY <1>8, <2>1, InnermostIsBatch DEF TypeInv, TypeOK, EndStopInLoop
  <2>3. CallStack'
    BY <1>8, <2>1 DEF TypeInv, CallStack, EndStopInLoop, At, Innermost
  <2> QED
    BY <2>2, <2>3 DEF TypeInv
<1> QED
  BY <1>1, <1>2, <1>3, <1>4, <1>5, <1>6, <1>7, <1>8 DEF Run

LEMMA TypeNext == TypeInv /\ [Next]_vars => TypeInv'
<1> SUFFICES ASSUME TypeInv, [Next]_vars PROVE TypeInv'
  OBVIOUS
<1>1. CASE Run
  BY <1>1, TypeRun
<1>2. CASE \E p \in Thread : User(p) \/ Proceed(p)
  BY <1>2, TypeAction DEF Action
<1>3. CASE UNCHANGED vars
  BY <1>3 DEF vars, loopVars, callVars, TypeInv, TypeOK, CallStack, Innermost
<1> QED
  BY <1>1, <1>2, <1>3 DEF Next

LEMMA TypeInvariance == Spec => []TypeInv
  BY TypeInit, TypeNext, PTL DEF Spec

(***************************************************************************)
(* Every variable keeps its type; in particular what is queued is always a *)
(* functor, and DoPendingFunctors never runs StopInLoop for a user's.      *)
(***************************************************************************)
THEOREM TypeCorrect == Spec => []TypeOK
<1>1. TypeInv => TypeOK
  BY DEF TypeInv
<1> QED
  BY <1>1, TypeInvariance, PTL

-----------------------------------------------------------------------------
(* Wakeups.                                                                *)

\* A step of p that neither enters nor leaves Notify.
LEMMA SendingUnchanged ==
  ASSUME TypeInv, NEW p \in Thread, NEW l,
         pc' = [pc EXCEPT ![p] = l], l # "notify", pc[p] # "notify"
  PROVE  Sending' <=> Sending
<1>1. \A q \in Thread : pc'[q] = "notify" <=> pc[q] = "notify"
  BY DEF TypeInv, TypeOK
<1> QED
  BY <1>1 DEF Sending

\* A step of p that neither enters nor leaves the critical section.
LEMMA MutexUnchanged ==
  ASSUME TypeInv, MutexHeld, NEW p \in Thread, NEW l,
         pc' = [pc EXCEPT ![p] = l], mutex' = mutex,
         l \notin {"push", "notify"}, pc[p] \notin {"push", "notify"}
  PROVE  MutexHeld'
  BY DEF TypeInv, TypeOK, MutexHeld

LEMMA WakeupInit == Init => WakeupInv
<1> SUFFICES ASSUME Init PROVE WakeupInv
  OBVIOUS
<1>1. MutexHeld
  BY LoopAssumption DEF Init, MutexHeld
<1>2. StopRemembered
  BY DEF Init, StopRemembered
<1>3. ~Sending
  BY DEF Init, Sending
<1>4. OneOnItsWay
  BY <1>3 DEF Init, OneOnItsWay
<1> QED
  BY <1>1, <1>2, <1>4 DEF WakeupInv

\* The steps that change neither the loop thread's variables, nor the
\* wakeup's, and do not enter or leave Notify or the critical section.
LEMMA WakeupQuiet ==
  ASSUME TypeInv, WakeupInv, NEW p \in Thread,
         NEW l \in {"idle", "status", "tid", "inline", "lock", "stop"},
         pc' = [pc EXCEPT ![p] = l], pc[p] \notin {"push", "notify"},
         UNCHANGED <<mutex, watcher, notified, pending, pipe, loopVars>>
  PROVE  WakeupInv'
<1>1. UNCHANGED <<mutex, watcher, notified, pending, pipe>>
  OBVIOUS
<1>2. UNCHANGED <<lpc, batches, drain, running, exit>>
  BY DEF loopVars
<1>3. MutexHeld'
  BY <1>1, MutexUnchanged DEF WakeupInv
<1>4. StopRemembered'
  BY <1>2 DEF WakeupInv, StopRemembered, Stopping
<1>5. Sending' <=> Sending
  BY SendingUnchanged
<1>6. OneOnItsWay'
  BY <1>1, <1>2, <1>5 DEF WakeupInv, OneOnItsWay, Stopping
<1> QED
  BY <1>3, <1>4, <1>6 DEF WakeupInv

\* The steps of the users' threads.
LEMMA WakeupAction ==
  ASSUME TypeInv, WakeupInv, NEW p \in Thread, Action(p)
  PROVE  WakeupInv'
<1>1. CASE \E t \in fresh : RunInLoop(p, t) \/ QueueInLoop(p, t)
  <2> PICK t \in fresh, l \in {"status", "lock"} : Call(p, t, l)
    BY <1>1 DEF RunInLoop, QueueInLoop
  <2>1. pc[p] = "idle" /\ pc' = [pc EXCEPT ![p] = l]
    BY DEF Call, CanCall, Goto
  <2>2. UNCHANGED <<mutex, watcher, notified, pending, pipe, loopVars>>
    BY DEF Call
  <2> QED
    BY <2>1, <2>2, WakeupQuiet
<1>2. CASE CallStop(p)
  <2>1. pc[p] = "idle" /\ pc' = [pc EXCEPT ![p] = "stop"]
    BY <1>2 DEF CallStop, CanCall, Goto
  <2>2. UNCHANGED <<mutex, watcher, notified, pending, pipe, loopVars>>
    BY <1>2 DEF CallStop
  <2> QED
    BY <2>1, <2>2, WakeupQuiet
<1>3. CASE Cancel(p)
  <2>1. /\ UNCHANGED <<pc, mutex, lpc, batches, drain, exit>>
        /\ watcher' = FALSE /\ pipe' = 0
    BY <1>3 DEF Cancel, DestroyWatcher, loopVars, callVars
  <2>2. MutexHeld' /\ StopRemembered'
    BY <2>1 DEF WakeupInv, MutexHeld, StopRemembered, Stopping
  <2>3. OneOnItsWay'
    BY <2>1 DEF OneOnItsWay
  <2> QED
    BY <2>2, <2>3 DEF WakeupInv
<1>4. CASE ReadStatus(p)
  <2>1. PICK l \in {"tid", "lock"} : pc' = [pc EXCEPT ![p] = l]
    BY <1>4 DEF ReadStatus, Goto
  <2>2. /\ pc[p] = "status"
        /\ UNCHANGED <<mutex, watcher, notified, pending, pipe, loopVars>>
    BY <1>4 DEF ReadStatus
  <2> QED
    BY <2>1, <2>2, WakeupQuiet
<1>5. CASE ReadTid(p)
  <2>1. PICK l \in {"inline", "lock"} : pc' = [pc EXCEPT ![p] = l]
    BY <1>5 DEF ReadTid, Goto
  <2>2. /\ pc[p] = "tid"
        /\ UNCHANGED <<mutex, watcher, notified, pending, pipe, loopVars>>
    BY <1>5 DEF ReadTid
  <2> QED
    BY <2>1, <2>2, WakeupQuiet
<1>6. CASE RunInline(p)
  <2>1. pc[p] = "inline" /\ pc' = [pc EXCEPT ![p] = "idle"]
    BY <1>6 DEF RunInline, Goto
  <2>2. UNCHANGED <<mutex, watcher, notified, pending, pipe, loopVars>>
    BY <1>6 DEF RunInline
  <2> QED
    BY <2>1, <2>2, WakeupQuiet
<1>7. CASE StoreStopping(p)
  <2>1. pc[p] = "stop" /\ pc' = [pc EXCEPT ![p] = "lock"]
    BY <1>7 DEF StoreStopping, Goto
  <2>2. UNCHANGED <<mutex, watcher, notified, pending, pipe, loopVars>>
    BY <1>7 DEF StoreStopping
  <2> QED
    BY <2>1, <2>2, WakeupQuiet
<1>8. CASE Lock(p)
  <2>1. /\ pc[p] = "lock" /\ pc' = [pc EXCEPT ![p] = "push"]
        /\ mutex = None /\ mutex' = p
        /\ UNCHANGED <<watcher, notified, pending, pipe>>
        /\ UNCHANGED <<lpc, batches, drain, exit>>
    BY <1>8 DEF Lock, Goto, loopVars
  <2>2. MutexHeld'
    BY <2>1, LoopAssumption DEF TypeInv, TypeOK, WakeupInv, MutexHeld
  <2>3. StopRemembered'
    BY <2>1 DEF WakeupInv, StopRemembered, Stopping
  <2>4. Sending' <=> Sending
    <3>1. "push" # "notify" /\ pc[p] # "notify"
      BY <2>1
    <3> QED
      BY <2>1, <3>1, SendingUnchanged, Zenon
  <2>5. OneOnItsWay'
    BY <2>1, <2>4 DEF WakeupInv, OneOnItsWay, Stopping
  <2> QED
    BY <2>2, <2>3, <2>5 DEF WakeupInv
<1>9. CASE Push(p)
  <2>1. /\ pc[p] = "push" /\ notified' = TRUE
        /\ UNCHANGED <<watcher, pipe>>
        /\ UNCHANGED <<lpc, batches, drain, exit>>
    BY <1>9 DEF Push, loopVars
  <2>2. \A q \in Thread \ {p} : pc[q] \notin {"push", "notify"}
    BY <2>1 DEF WakeupInv, MutexHeld
  <2>3. mutex = p /\ ~Sending
    BY <2>1, <2>2 DEF WakeupInv, MutexHeld, Sending
  <2>4. CASE ~notified /\ watcher
    <3>1. pc' = [pc EXCEPT ![p] = "notify"] /\ mutex' = mutex
      BY <1>9, <2>4 DEF Push, Goto
    <3>2. MutexHeld'
      BY <2>1, <3>1 DEF TypeInv, TypeOK, WakeupInv, MutexHeld
    <3>3. Sending'
      BY <3>1 DEF TypeInv, TypeOK, Sending
    <3>4. StopRemembered'
      BY <2>1 DEF WakeupInv, StopRemembered, Stopping
    <3>5. OneOnItsWay'
      BY <2>1, <2>3, <2>4, <3>3
      DEF WakeupInv, OneOnItsWay, Stopping, TypeInv, TypeOK
    <3> QED
      BY <3>2, <3>4, <3>5 DEF WakeupInv
  <2>5. CASE ~(~notified /\ watcher)
    <3>1. pc' = [pc EXCEPT ![p] = "idle"] /\ mutex' = None
      BY <1>9, <2>5 DEF Push, Goto
    <3>2. \A q \in Thread : pc'[q] \notin {"push", "notify"}
      BY <2>2, <3>1 DEF TypeInv, TypeOK
    <3>3. MutexHeld' /\ ~Sending'
      BY <3>1, <3>2, LoopAssumption DEF MutexHeld, Sending
    <3>4. StopRemembered'
      BY <2>1 DEF WakeupInv, StopRemembered, Stopping
    <3>5. OneOnItsWay'
      BY <2>1, <2>3, <2>5, <3>3
      DEF WakeupInv, OneOnItsWay, Stopping, TypeInv, TypeOK
    <3> QED
      BY <3>3, <3>4, <3>5 DEF WakeupInv
  <2> QED
    BY <2>4, <2>5
<1>10. CASE Notify(p)
  <2>1. /\ pc[p] = "notify" /\ pc' = [pc EXCEPT ![p] = "idle"]
        /\ mutex' = None
        /\ pipe' = IF watcher THEN pipe + 1 ELSE pipe
        /\ UNCHANGED <<watcher, notified, pending>>
        /\ UNCHANGED <<lpc, batches, drain, exit>>
    BY <1>10 DEF Notify, Goto, loopVars
  <2>2. \A q \in Thread \ {p} : pc[q] \notin {"push", "notify"}
    BY <2>1 DEF WakeupInv, MutexHeld
  <2>3. \A q \in Thread : pc'[q] \notin {"push", "notify"}
    BY <2>1, <2>2 DEF TypeInv, TypeOK
  <2>4. MutexHeld' /\ ~Sending'
    BY <2>1, <2>3, LoopAssumption DEF MutexHeld, Sending
  <2>5. StopRemembered'
    BY <2>1 DEF WakeupInv, StopRemembered, Stopping
  <2>6. Sending
    BY <2>1 DEF Sending
  <2>7. OneOnItsWay'
    BY <2>1, <2>4, <2>6
    DEF WakeupInv, OneOnItsWay, Stopping, TypeInv, TypeOK
  <2> QED
    BY <2>4, <2>5, <2>7 DEF WakeupInv
<1> QED
  BY <1>1, <1>2, <1>3, <1>4, <1>5, <1>6, <1>7, <1>8, <1>9, <1>10
  DEF Action, User, Proceed

\* The steps of the loop thread that leave lpc outside "swap", and the
\* wakeup and the stack alone.
LEMMA WakeupSameRun ==
  ASSUME WakeupInv,
         UNCHANGED <<mutex, pc, watcher, notified, pending, pipe>>,
         UNCHANGED <<batches, drain, exit>>,
         lpc # "swap", lpc' \notin {"swap", "empty"}
  PROVE  WakeupInv'
<1>1. MutexHeld'
  BY DEF WakeupInv, MutexHeld
<1>2. StopRemembered'
  BY DEF WakeupInv, StopRemembered, Stopping
<1>3. OneOnItsWay'
  BY DEF WakeupInv, OneOnItsWay, Stopping, Sending
<1> QED
  BY <1>1, <1>2, <1>3 DEF WakeupInv

\* Once StopInLoop has begun nothing is claimed about the wakeups.
LEMMA WakeupWhileStopping ==
  ASSUME WakeupInv, Stopping',
         UNCHANGED <<mutex, pc, watcher, pipe>>, StopRemembered'
  PROVE  WakeupInv'
<1>1. MutexHeld'
  BY DEF WakeupInv, MutexHeld
<1>2. OneOnItsWay'
  BY DEF WakeupInv, OneOnItsWay
<1> QED
  BY <1>1, <1>2 DEF WakeupInv

LEMMA WakeupRun ==
  ASSUME TypeInv, WakeupInv, Run
  PROVE  WakeupInv'
<1> USE DEF callVars
<1>1. CASE StoreStarting \/ SetTid \/ StoreRunning
  <2>1. /\ UNCHANGED <<mutex, pc, watcher, notified, pending, pipe>>
        /\ UNCHANGED <<batches, drain, exit>>
        /\ lpc # "swap" /\ lpc' \notin {"swap", "empty"}
    BY <1>1 DEF StoreStarting, SetTid, StoreRunning, At
  <2> QED
    BY <2>1, WakeupSameRun
<1>2. CASE DispatchReturns \/ StoreStopped \/ EndFunctor
  <2>1. /\ UNCHANGED <<mutex, pc, watcher, notified, pending, pipe>>
        /\ UNCHANGED <<batches, drain, exit>>
        /\ lpc # "swap" /\ lpc' \notin {"swap", "empty"}
    BY <1>2 DEF DispatchReturns, StoreStopped, EndFunctor, At
  <2> QED
    BY <2>1, WakeupSameRun
<1>3. CASE Receive
  <2>1. /\ UNCHANGED <<mutex, pc, watcher, notified, pending>>
        /\ UNCHANGED <<batches, drain, exit>>
        /\ lpc = "dispatch" /\ lpc' = "swap" /\ pipe > 0 /\ pipe' = 0
    BY <1>3 DEF Receive, At
  <2>2. MutexHeld'
    BY <2>1 DEF WakeupInv, MutexHeld
  <2>3. StopRemembered'
    BY <2>1 DEF WakeupInv, StopRemembered, Stopping
  <2>4. OneOnItsWay'
    BY <2>1 DEF WakeupInv, OneOnItsWay, Stopping, Sending
  <2> QED
    BY <2>2, <2>3, <2>4 DEF WakeupInv
<1>4. CASE Swap
  <2>1. /\ UNCHANGED <<mutex, pc, watcher, pipe, drain, exit>>
        /\ lpc = "swap" /\ lpc' = "batch" /\ mutex = None
        /\ notified' = FALSE /\ pending' = <<>>
    BY <1>4 DEF Swap, At
  <2>2. MutexHeld'
    BY <2>1 DEF WakeupInv, MutexHeld
  <2>3. StopRemembered'
    <3>1. \A i \in 1..Len(batches') :
            i \in 1..Len(batches) \/ i = Len(batches')
      BY <1>4, SwapStack DEF TypeInv, TypeOK
    <3>2. \A i \in 1..Len(batches') : batches'[i].drain # 0 => Stopping
      BY <1>4, <3>1, SwapStack DEF WakeupInv, StopRemembered, Stopping
    <3> QED
      BY <2>1, <3>2 DEF WakeupInv, StopRemembered, Stopping
  <2>4. \A q \in Thread : pc'[q] # "notify"
    BY <2>1, LoopAssumption DEF WakeupInv, MutexHeld
  <2>5. ~Sending'
    BY <2>4 DEF Sending
  <2>6. OneOnItsWay'
    BY <2>1, <2>5 DEF WakeupInv, OneOnItsWay, Stopping
  <2> QED
    BY <2>2, <2>3, <2>6 DEF WakeupInv
<1>5. CASE BeginFunctor
  <2>1. /\ UNCHANGED <<mutex, pc, watcher, notified, pending, pipe>>
        /\ UNCHANGED <<lpc, drain, exit>>
        /\ lpc = "batch" /\ TakeFunctor
    BY <1>5 DEF BeginFunctor, TakeFunctor, At
  <2>2. MutexHeld'
    BY <2>1 DEF WakeupInv, MutexHeld
  <2>3. StopRemembered'
    BY <2>1, TakeFunctorStack DEF WakeupInv, StopRemembered, Stopping
  <2>4. OneOnItsWay'
    BY <2>1 DEF WakeupInv, OneOnItsWay, Stopping, Sending
  <2> QED
    BY <2>2, <2>3, <2>4 DEF WakeupInv
<1>6. CASE BeginStopInLoop
  <2>1. /\ UNCHANGED <<mutex, pc, watcher, pipe, exit>>
        /\ drain' = 1 /\ lpc' = "swap" /\ TakeFunctor
    BY <1>6 DEF BeginStopInLoop
  <2>2. Stopping' /\ StopRemembered'
    BY <2>1 DEF StopRemembered, Stopping
  <2> QED
    BY <2>1, <2>2, WakeupWhileStopping
<1>7. CASE EndBatch
  <2>1. /\ UNCHANGED <<mutex, pc, watcher, notified, pending, pipe>>
        /\ UNCHANGED <<drain, exit>>
        /\ lpc = "batch" /\ drain = Innermost.drain
        /\ lpc' = IF Innermost.drain = 0 THEN "dispatch" ELSE "empty"
    BY <1>7 DEF EndBatch, At, TypeInv, CallStack
  <2>2. MutexHeld'
    BY <2>1 DEF WakeupInv, MutexHeld
  <2>3. \A i \in 1..Len(batches') : i \in 1..Len(batches)
    BY <1>7, EndBatchStack DEF TypeInv, TypeOK
  <2>4. \A i \in 1..Len(batches') : batches'[i].drain # 0 => Stopping
    BY <1>7, <2>3, EndBatchStack DEF WakeupInv, StopRemembered
  <2>5. StopRemembered'
    BY <2>1, <2>4 DEF WakeupInv, StopRemembered, Stopping
  <2>6. OneOnItsWay'
    BY <2>1 DEF WakeupInv, OneOnItsWay, Stopping, Sending
  <2> QED
    BY <2>2, <2>5, <2>6 DEF WakeupInv
<1>8. CASE DrainAgain
  <2>1. /\ UNCHANGED <<mutex, pc, watcher, pipe, batches, drain, exit>>
        /\ lpc = "empty" /\ lpc' = "swap"
    BY <1>8, Zenon DEF DrainAgain, At
  <2>2. Stopping' /\ StopRemembered'
    BY <2>1 DEF WakeupInv, StopRemembered, Stopping
  <2> QED
    BY <2>1, <2>2, WakeupWhileStopping
<1>9. CASE RequestExit
  <2>1. /\ UNCHANGED <<mutex, pc, watcher, pipe, batches>>
        /\ exit' = TRUE /\ lpc' = "swap"
    BY <1>9, Zenon DEF RequestExit
  <2>2. Stopping' /\ StopRemembered'
    BY <2>1 DEF StopRemembered, Stopping
  <2> QED
    BY <2>1, <2>2, WakeupWhileStopping
<1>10. CASE EndStopInLoop
  <2>1. /\ UNCHANGED <<mutex, pc, watcher, pipe, batches, exit>>
        /\ drain = 2 /\ lpc' = "batch"
    BY <1>10, Zenon DEF EndStopInLoop
  <2>2. exit
    BY <2>1 DEF WakeupInv, StopRemembered
  <2>3. Stopping' /\ StopRemembered'
    BY <2>1, <2>2 DEF StopRemembered, Stopping
  <2> QED
    BY <2>1, <2>3, WakeupWhileStopping
<1>11. CASE ResetWatcher
  <2>1. /\ UNCHANGED <<mutex, pc, batches, drain, exit>>
        /\ watcher' = FALSE /\ pipe' = 0 /\ lpc' = "reset"
    BY <1>11 DEF ResetWatcher, DestroyWatcher
  <2>2. MutexHeld'
    BY <2>1 DEF WakeupInv, MutexHeld
  <2>3. StopRemembered'
    BY <2>1 DEF WakeupInv, StopRemembered, Stopping
  <2>4. OneOnItsWay'
    BY <2>1 DEF OneOnItsWay
  <2> QED
    BY <2>2, <2>3, <2>4 DEF WakeupInv
<1> QED
  BY <1>1, <1>2, <1>3, <1>4, <1>5, <1>6, <1>7, <1>8, <1>9, <1>10, <1>11
  DEF Run

LEMMA WakeupNext == TypeInv /\ WakeupInv /\ [Next]_vars => WakeupInv'
<1> SUFFICES ASSUME TypeInv, WakeupInv, [Next]_vars PROVE WakeupInv'
  OBVIOUS
<1>1. CASE Run
  BY <1>1, WakeupRun
<1>2. CASE \E p \in Thread : User(p) \/ Proceed(p)
  BY <1>2, WakeupAction DEF Action
<1>3. CASE UNCHANGED vars
  BY <1>3 DEF vars, loopVars, callVars, WakeupInv, MutexHeld, StopRemembered,
              OneOnItsWay, Stopping, Sending
<1> QED
  BY <1>1, <1>2, <1>3 DEF Next

(***************************************************************************)
(* The wakeup protocol: mutex_, notified_, the pipe and the queue stay in  *)
(* step for any number of threads calling QueueInLoop.                     *)
(***************************************************************************)
THEOREM WakeupProtocol == Spec => []WakeupInv
  BY WakeupInit, WakeupNext, TypeInvariance, PTL DEF Spec

(***************************************************************************)
(* No wakeup is lost: a queued functor always has a byte on its way to the *)
(* loop, although most calls of QueueInLoop send none.                     *)
(***************************************************************************)
THEOREM WakeupNeverLost == Spec => []NoLostWakeup
<1>1. TypeInv /\ WakeupInv => NoLostWakeup
  BY DEF TypeInv, TypeOK, WakeupInv, OneOnItsWay, NoLostWakeup, Sending
<1> QED
  BY <1>1, TypeInvariance, WakeupProtocol, PTL

(***************************************************************************)
(* At most one byte is on its way, so that the 128 bytes HandlerFn         *)
(* receives are always all of them.                                        *)
(***************************************************************************)
THEOREM AtMostOneWakeup == Spec => []OneWakeup
<1>1. TypeInv /\ WakeupInv => OneWakeup
  BY DEF TypeInv, TypeOK, WakeupInv, OneOnItsWay, OneWakeup, Sending
<1> QED
  BY <1>1, TypeInvariance, WakeupProtocol, PTL

-----------------------------------------------------------------------------
(* Threads.                                                                *)

LEMMA TidInit == (OwnBase \/ Ctor = Loop) /\ Init => TidInv
  BY DEF Init, TidInv

LEMMA TidNext == TypeInv /\ TidInv /\ [Next]_vars => TidInv'
<1> SUFFICES ASSUME TypeInv, TidInv, [Next]_vars PROVE TidInv'
  OBVIOUS
<1> USE LoopAssumption DEF callVars, loopVars, Goto
<1>1. CASE \E p \in Thread : User(p)
  <2> PICK p \in Thread : User(p)
    BY <1>1
  <2>1. CASE \E t \in fresh : RunInLoop(p, t) \/ QueueInLoop(p, t)
    <3> PICK t \in fresh, l \in {"status", "lock"} : Call(p, t, l)
      BY <2>1 DEF RunInLoop, QueueInLoop
    <3> QED
      BY DEF TypeInv, TypeOK, TidInv, Call
  <2>2. CASE CallStop(p)
    BY <2>2 DEF TypeInv, TypeOK, TidInv, CallStop
  <2>3. CASE Cancel(p)
    BY <2>3 DEF TidInv, Cancel
  <2> QED
    BY <2>1, <2>2, <2>3 DEF User
<1>2. CASE \E p \in Thread : Proceed(p)
  <2> PICK p \in Thread : Proceed(p)
    BY <1>2
  <2>1. CASE ReadStatus(p)
    <3>1. status = "kRunning" => tid = Loop
      BY DEF TidInv
    <3> QED
      BY <2>1, <3>1 DEF TypeInv, TypeOK, TidInv, ReadStatus
  <2>2. CASE ReadTid(p)
    BY <2>2 DEF TypeInv, TypeOK, TidInv, ReadTid
  <2>3. CASE RunInline(p)
    BY <2>3 DEF TypeInv, TypeOK, TidInv, RunInline
  <2>4. CASE Lock(p)
    BY <2>4 DEF TypeInv, TypeOK, TidInv, Lock
  <2>5. CASE Push(p)
    <3>1. PICK l \in {"notify", "idle"} : pc' = [pc EXCEPT ![p] = l]
      BY <2>5 DEF Push
    <3>2. UNCHANGED <<status, tid, lpc>>
      BY <2>5 DEF Push
    <3> QED
      BY <3>1, <3>2 DEF TypeInv, TypeOK, TidInv
  <2>6. CASE Notify(p)
    BY <2>6 DEF TypeInv, TypeOK, TidInv, Notify
  <2>7. CASE StoreStopping(p)
    BY <2>7 DEF TypeInv, TypeOK, TidInv, StoreStopping
  <2> QED
    BY <2>1, <2>2, <2>3, <2>4, <2>5, <2>6, <2>7 DEF Proceed
<1>3. CASE StoreStarting
  BY <1>3 DEF TidInv, StoreStarting, At
<1>4. CASE SetTid
  BY <1>4 DEF TidInv, SetTid, At
<1>5. CASE StoreRunning
  BY <1>5 DEF TidInv, StoreRunning, At
<1>6. CASE \/ Receive \/ Swap \/ BeginFunctor \/ EndFunctor \/ EndBatch
           \/ BeginStopInLoop \/ DrainAgain \/ RequestExit \/ EndStopInLoop
           \/ DispatchReturns \/ ResetWatcher
  <2>1. UNCHANGED <<status, tid, pc>>
    BY <1>6, Zenon
    DEF Receive, Swap, BeginFunctor, EndFunctor, EndBatch, BeginStopInLoop,
        DrainAgain, RequestExit, EndStopInLoop, DispatchReturns, ResetWatcher
  <2>2. lpc \notin {"new", "starting", "ready"}
    BY <1>6
    DEF Receive, Swap, BeginFunctor, EndFunctor, EndBatch, BeginStopInLoop,
        DrainAgain, RequestExit, EndStopInLoop, DispatchReturns, ResetWatcher,
        TakeFunctor, At
  <2>3. lpc' \notin {"new", "starting", "ready"}
    BY <1>6, <2>2
    DEF Receive, Swap, BeginFunctor, EndFunctor, EndBatch, BeginStopInLoop,
        DrainAgain, RequestExit, EndStopInLoop, DispatchReturns, ResetWatcher
  <2> QED
    BY <2>1, <2>2, <2>3 DEF TidInv
<1>7. CASE StoreStopped
  BY <1>7 DEF TidInv, StoreStopped, At
<1>8. CASE UNCHANGED vars
  BY <1>8 DEF vars, TidInv
<1> QED
  BY <1>1, <1>2, <1>3, <1>4, <1>5, <1>6, <1>7, <1>8 DEF Next, Run

(***************************************************************************)
(* RunInLoop takes its short cut on the loop thread only, provided that a  *)
(* loop on an existing base was constructed there: status_ and tid_ are    *)
(* read one after the other while Run and Stop store them.                 *)
(***************************************************************************)
THEOREM FunctorsStayOnLoopThread ==
  ASSUME OwnBase \/ Ctor = Loop
  PROVE  Spec => []RunsOnLoopThread
<1>1. Init => TidInv
  BY TidInit
<1>2. TidInv => RunsOnLoopThread
  BY DEF TidInv, RunsOnLoopThread
<1> QED
  BY <1>1, <1>2, TidNext, TypeInvariance, PTL DEF Spec

\* What taking a functor leaves of each batch.
LEMMA TakenFunctors ==
  ASSUME TypeInv, TakeFunctor
  PROVE  \A n \in 1..Len(batches') :
           \A i \in 1..Len(batches'[n].todo) :
             /\ n \in 1..Len(batches)
             /\ \E j \in 1..Len(batches[n].todo) :
                  batches'[n].todo[i] = batches[n].todo[j]
<1>1. /\ Len(batches') = Len(batches) /\ batches # <<>>
      /\ batches \in Seq(Batch)
  BY TakeFunctorStack DEF TypeInv, TypeOK
<1>2. /\ batches'[Len(batches)].todo = Tail(Innermost.todo)
      /\ \A n \in 1..Len(batches) \ {Len(batches)} : batches'[n] = batches[n]
  BY <1>1, InnermostIsBatch DEF TakeFunctor, Innermost, Batch
<1>3. Innermost.todo \in Seq(Functor) /\ Innermost.todo # <<>>
  BY <1>1, InnermostIsBatch DEF TakeFunctor
<1>4. \A i \in 1..Len(Tail(Innermost.todo)) :
        /\ i + 1 \in 1..Len(Innermost.todo)
        /\ Tail(Innermost.todo)[i] = Innermost.todo[i + 1]
  BY <1>3
<1> QED
  BY <1>1, <1>2, <1>4, ZenonT(60) DEF Innermost

-----------------------------------------------------------------------------
(* The assertion of StopInLoop.                                            *)

LEMMA StopInit == OwnBase /\ Init => StopInv
  BY LoopAssumption DEF Init, StopInv, StopHandedOver

\* Steps after which StopInLoop is nowhere that it was not before.
LEMMA StopQuiet ==
  ASSUME StopInv, StopHandedOver' => StopHandedOver, UNCHANGED <<status, lpc>>,
         \A p \in Thread : pc'[p] = "stop" => pc[p] = "stop"
  PROVE  StopInv'
  BY DEF StopInv

\* The steps of the users' threads.
LEMMA StopAction ==
  ASSUME TypeInv, StopInv, NEW p \in Thread, Action(p)
  PROVE  StopInv'
<1> USE LoopAssumption DEF Goto, loopVars, callVars
<1>1. CASE \E t \in fresh : RunInLoop(p, t) \/ QueueInLoop(p, t)
  <2> PICK t \in fresh, l \in {"status", "lock"} : Call(p, t, l)
    BY <1>1 DEF RunInLoop, QueueInLoop
  <2>1. t # StopTask
    BY DEF TypeInv, TypeOK
  <2>2. StopHandedOver' => StopHandedOver
    BY <2>1 DEF Call, StopHandedOver, TypeInv, TypeOK
  <2> QED
    BY <2>2, StopQuiet DEF Call, TypeInv, TypeOK
<1>2. CASE CallStop(p)
  <2>1. StopHandedOver' => StopHandedOver
    BY <1>2 DEF CallStop, StopHandedOver
  <2> QED
    BY <1>2, <2>1 DEF CallStop, StopInv, TypeInv, TypeOK
<1>3. CASE Cancel(p)
  <2>1. StopHandedOver' => StopHandedOver
    BY <1>3 DEF Cancel, StopHandedOver
  <2> QED
    BY <1>3, <2>1, StopQuiet DEF Cancel
<1>4. CASE ReadStatus(p) \/ ReadTid(p) \/ Lock(p)
  <2>1. StopHandedOver' => StopHandedOver
    BY <1>4 DEF ReadStatus, ReadTid, Lock, StopHandedOver
  <2> QED
    BY <1>4, <2>1, StopQuiet DEF ReadStatus, ReadTid, Lock, TypeInv, TypeOK
<1>5. CASE RunInline(p) \/ Notify(p)
  <2>1. StopHandedOver' => StopHandedOver
    BY <1>5 DEF RunInline, Notify, StopHandedOver, TypeInv, TypeOK
  <2> QED
    BY <1>5, <2>1, StopQuiet DEF RunInline, Notify, TypeInv, TypeOK
<1>6. CASE Push(p)
  <2>1. /\ pending' = Append(pending, arg[p]) /\ pending \in Seq(Functor)
        /\ UNCHANGED <<drain, batches, status, lpc>>
    BY <1>6 DEF Push, TypeInv, TypeOK
  <2>2. \A q \in Thread : arg'[q] = StopTask => arg[q] = StopTask
    BY <1>6 DEF Push, TypeInv, TypeOK
  <2>3. \A i \in 1..Len(pending') :
          pending'[i] = IF i <= Len(pending) THEN pending[i] ELSE arg[p]
    BY <2>1
  <2>4. \A i \in 1..Len(pending') : i <= Len(pending) => i \in 1..Len(pending)
    BY <2>1
  <2>5. StopHandedOver' => StopHandedOver
    BY <2>1, <2>2, <2>3, <2>4 DEF StopHandedOver
  <2>6. \A q \in Thread : pc'[q] = "stop" => pc[q] = "stop"
    BY <1>6 DEF Push, TypeInv, TypeOK
  <2> QED
    BY <2>1, <2>5, <2>6, StopQuiet
<1>7. CASE StoreStopping(p)
  BY <1>7 DEF StoreStopping, StopInv, TypeInv, TypeOK
<1> QED
  BY <1>1, <1>2, <1>3, <1>4, <1>5, <1>6, <1>7 DEF Action, User, Proceed

\* The steps of the loop thread.
LEMMA StopRun ==
  ASSUME TypeInv, StopInv, Run
  PROVE  StopInv'
<1> USE DEF callVars
<1>1. CASE StoreStarting \/ SetTid \/ StoreRunning
  <2>1. /\ StopHandedOver' <=> StopHandedOver
        /\ lpc \in {"new", "starting", "ready"} /\ UNCHANGED pc
    BY <1>1 DEF StoreStarting, SetTid, StoreRunning, At, StopHandedOver
  <2>2. ~StopHandedOver'
    BY <2>1 DEF StopInv
  <2> QED
    BY <1>1, <2>1, <2>2
    DEF StoreStarting, SetTid, StoreRunning, At, StopInv
<1>2. CASE Receive \/ EndFunctor \/ DispatchReturns \/ ResetWatcher
  <2>1. /\ UNCHANGED <<drain, arg, pending, batches, status, pc>>
        /\ lpc \notin {"new", "starting", "ready", "done"}
        /\ lpc' \notin {"new", "starting", "ready"}
    BY <1>2 DEF Receive, EndFunctor, DispatchReturns, ResetWatcher, At
  <2> QED
    BY <2>1 DEF StopInv, StopHandedOver
<1>3. CASE DrainAgain \/ RequestExit \/ EndStopInLoop
  <2>1. /\ UNCHANGED <<arg, pending, batches, status, pc>>
        /\ lpc = "empty" /\ lpc' \in {"swap", "batch"}
    BY <1>3, Zenon DEF DrainAgain, RequestExit, EndStopInLoop, At
  <2>2. StopHandedOver
    BY <2>1 DEF TypeInv, CallStack, StopHandedOver
  <2> QED
    BY <2>1, <2>2 DEF StopInv
<1>4. CASE Swap
  <2>1. /\ UNCHANGED <<drain, arg, status, pc>>
        /\ lpc = "swap" /\ lpc' = "batch" /\ pending' = <<>>
    BY <1>4 DEF Swap, At
  <2>2. \A n \in 1..Len(batches') :
          \/ n \in 1..Len(batches) /\ batches'[n] = batches[n]
          \/ batches'[n].todo = pending
    BY <1>4 DEF Swap, TypeInv, TypeOK
  <2>3. StopHandedOver' => StopHandedOver
    BY <2>1, <2>2 DEF StopHandedOver
  <2> QED
    BY <2>1, <2>3 DEF StopInv
<1>5. CASE BeginFunctor \/ BeginStopInLoop
  <2>1. TakeFunctor /\ UNCHANGED <<arg, pending, status, pc>>
    BY <1>5 DEF BeginFunctor, BeginStopInLoop
  <2>2. lpc = "batch" /\ lpc' \in {"batch", "swap"}
    BY <1>5, <2>1 DEF BeginFunctor, BeginStopInLoop, TakeFunctor, At
  <2>3. batches # <<>>
    BY <2>1, TakeFunctorStack
  <2>4. \A n \in 1..Len(batches') :
          \A i \in 1..Len(batches'[n].todo) :
            /\ n \in 1..Len(batches)
            /\ \E j \in 1..Len(batches[n].todo) :
                 batches'[n].todo[i] = batches[n].todo[j]
    BY <2>1, <2>3, TakenFunctors
  <2>5. CASE BeginFunctor
    <3>1. UNCHANGED drain
      BY <2>5 DEF BeginFunctor
    <3>2. ASSUME NEW n \in 1..Len(batches'),
                 NEW i \in 1..Len(batches'[n].todo),
                 batches'[n].todo[i] = StopTask
          PROVE  StopHandedOver
      BY <2>4, <3>2 DEF StopHandedOver
    <3>3. StopHandedOver' => StopHandedOver
      BY <2>1, <3>1, <3>2 DEF StopHandedOver
    <3> QED
      BY <2>1, <2>2, <3>3 DEF StopInv
  <2>6. CASE BeginStopInLoop
    <3>1. 1 \in 1..Len(Innermost.todo) /\ Innermost.todo[1] = StopTask
      BY <2>3, <2>6, InnermostIsBatch DEF BeginStopInLoop, TakeFunctor
    <3>2. StopHandedOver
      BY <2>3, <3>1, InnermostIsBatch DEF StopHandedOver, Innermost
    <3> QED
      BY <2>1, <2>2, <3>2 DEF StopInv
  <2> QED
    BY <1>5, <2>5, <2>6
<1>6. CASE EndBatch
  <2>1. /\ UNCHANGED <<drain, arg, pending, status, pc>>
        /\ lpc = "batch" /\ lpc' \in {"dispatch", "empty"}
    BY <1>6 DEF EndBatch, At
  <2>2. \A n \in 1..Len(batches') :
          n \in 1..Len(batches) /\ batches'[n] = batches[n]
    BY <1>6, EndBatchStack DEF TypeInv, TypeOK
  <2>3. StopHandedOver' => StopHandedOver
    BY <2>1, <2>2 DEF StopHandedOver
  <2> QED
    BY <2>1, <2>3 DEF StopInv
<1>7. CASE StoreStopped
  BY <1>7 DEF StoreStopped, StopInv
<1> QED
  BY <1>1, <1>2, <1>3, <1>4, <1>5, <1>6, <1>7 DEF Run

LEMMA StopNext == TypeInv /\ StopInv /\ [Next]_vars => StopInv'
<1> SUFFICES ASSUME TypeInv, StopInv, [Next]_vars PROVE StopInv'
  OBVIOUS
<1>1. CASE Run
  BY <1>1, StopRun
<1>2. CASE \E p \in Thread : User(p) \/ Proceed(p)
  BY <1>2, StopAction DEF Action
<1>3. CASE UNCHANGED vars
  BY <1>3 DEF vars, loopVars, callVars, StopInv, StopHandedOver
<1> QED
  BY <1>1, <1>2, <1>3 DEF Next

(***************************************************************************)
(* assert(status_.load() == kStopping) in StopInLoop holds for a loop that *)
(* made its own event base, however many threads call Stop.                *)
(***************************************************************************)
THEOREM StopFindsKStopping ==
  ASSUME OwnBase
  PROVE  Spec => []StopInLoopAssertion
<1>1. Init => StopInv
  BY StopInit
<1>2. TypeInv /\ StopInv => StopInLoopAssertion
  BY DEF TypeInv, CallStack, StopInv, StopHandedOver, StopInLoopAssertion
<1> QED
  BY <1>1, <1>2, StopNext, TypeInvariance, PTL DEF Spec

-----------------------------------------------------------------------------
(* What is left of a stack of batches.                                     *)

\* The function that Left defines by recursion, and what it should be.
LeftFcn(b) ==
  CHOOSE todo : todo = [n \in 0..Len(b) |->
    IF n = 0 THEN <<>> ELSE todo[n - 1] \o b[n].todo]

IsLeft(f, b, m) ==
  /\ f = [n \in 0..m |-> f[n]] /\ f[0] = <<>>
  /\ \A n \in 0..m : n < m => f[n + 1] = f[n] \o b[n + 1].todo

\* The recursion defines a function on a stack of any height.
LEMMA LeftExists ==
  ASSUME NEW b \in Seq(Batch)
  PROVE  \E f : IsLeft(f, b, Len(b))
<1> DEFINE S == {m \in 0..Len(b) : \E f : IsLeft(f, b, m)}
<1>0. Len(b) \in Nat
  OBVIOUS
<1>1. 0 \in S
  <2>1. IsLeft([n \in 0..0 |-> <<>>], b, 0)
    BY DEF IsLeft
  <2> QED
    BY <2>1
<1>2. ASSUME NEW m \in 0..Len(b), m \in S, m < Len(b)
      PROVE  m + 1 \in S
  <2>1. PICK f : IsLeft(f, b, m)
    BY <1>2
  <2> DEFINE g == [n \in 0..(m + 1) |->
                     IF n = m + 1 THEN f[m] \o b[m + 1].todo ELSE f[n]]
  <2>2. ASSUME NEW n \in 0..(m + 1), n < m + 1
        PROVE  g[n + 1] = g[n] \o b[n + 1].todo
    <3>1. n \in 0..m /\ n + 1 \in 0..(m + 1) /\ g[n] = f[n]
      BY <2>2
    <3>2. CASE n = m
      BY <3>1, <3>2
    <3>3. CASE n < m
      <4>1. f[n + 1] = f[n] \o b[n + 1].todo
        BY <2>1, <3>1, <3>3 DEF IsLeft
      <4>2. g[n + 1] = f[n + 1]
        BY <3>1, <3>3
      <4> QED
        BY <3>1, <4>1, <4>2
    <3>4. n = m \/ n < m
      BY <1>0, <3>1
    <3> QED
      BY <3>2, <3>3, <3>4, Zenon
  <2>3. g[0] = <<>> /\ g = [n \in 0..(m + 1) |-> g[n]]
    BY <2>1 DEF IsLeft
  <2> HIDE DEF g
  <2>4. IsLeft(g, b, m + 1)
    BY <2>2, <2>3 DEF IsLeft
  <2> QED
    BY <1>2, <2>4
<1> HIDE DEF S
<1>4. \A m \in 0..Len(b) : m \in S
  BY <1>0, <1>1, <1>2, InductionUpTo
<1> QED
  BY <1>0, <1>4 DEF S

LEMMA LeftIsFcn ==
  ASSUME NEW b \in Seq(Batch)
  PROVE  IsLeft(LeftFcn(b), b, Len(b)) /\ Left(b) = LeftFcn(b)[Len(b)]
<1>1. PICK f : IsLeft(f, b, Len(b))
  BY LeftExists
<1>2. f = [n \in 0..Len(b) |-> IF n = 0 THEN <<>> ELSE f[n - 1] \o b[n].todo]
  <2> DEFINE g == [n \in 0..Len(b) |->
                     IF n = 0 THEN <<>> ELSE f[n - 1] \o b[n].todo]
  <2>0. Len(b) \in Nat
    OBVIOUS
  <2>1. f = [n \in 0..Len(b) |-> f[n]]
    BY <1>1 DEF IsLeft
  <2>2. ASSUME NEW n \in 0..Len(b)
        PROVE  f[n] = g[n]
    <3>1. CASE n = 0
      BY <1>1, <3>1 DEF IsLeft
    <3>2. CASE n # 0
      <4>1. n - 1 \in 0..Len(b) /\ n - 1 < Len(b) /\ (n - 1) + 1 = n
        BY <2>0, <3>2
      <4>2. f[(n - 1) + 1] = f[n - 1] \o b[(n - 1) + 1].todo
        BY <1>1, <4>1 DEF IsLeft
      <4> QED
        BY <3>2, <4>1, <4>2
    <3> QED
      BY <3>1, <3>2
  <2> QED
    BY <2>1, <2>2
<1> DEFINE g == LeftFcn(b)
<1>3. g = [n \in 0..Len(b) |-> IF n = 0 THEN <<>> ELSE g[n - 1] \o b[n].todo]
  BY <1>2, Zenon DEF LeftFcn
<1> HIDE DEF g
<1>4. IsLeft(g, b, Len(b))
  <2>0. Len(b) \in Nat
    OBVIOUS
  <2>1. ASSUME NEW n \in 0..Len(b), n < Len(b)
        PROVE  g[n + 1] = g[n] \o b[n + 1].todo
    <3>1. n + 1 \in 0..Len(b) /\ n + 1 # 0 /\ (n + 1) - 1 = n
      BY <2>0, <2>1
    <3>2. g[n + 1] = g[(n + 1) - 1] \o b[n + 1].todo
      BY <1>3, <3>1
    <3> QED
      BY <3>1, <3>2
  <2> QED
    BY <1>3, <2>0, <2>1, SMTT(60) DEF IsLeft
<1>5. Left(b) = g[Len(b)]
  BY Zenon DEF Left, LeftFcn, g
<1> QED
  BY <1>4, <1>5 DEF g

\* It is a sequence of functors at every height.
LEMMA LeftType ==
  ASSUME NEW b \in Seq(Batch)
  PROVE  \A n \in 0..Len(b) : LeftFcn(b)[n] \in Seq(Functor)
<1> DEFINE f == LeftFcn(b)
           S == {n \in 0..Len(b) : f[n] \in Seq(Functor)}
<1>1. IsLeft(f, b, Len(b)) /\ Len(b) \in Nat
  BY LeftIsFcn
<1> HIDE DEF f
<1>2. 0 \in S
  <2>1. f[0] = <<>>
    BY <1>1, Zenon DEF IsLeft
  <2>2. <<>> \in Seq(Functor) /\ 0 \in 0..Len(b)
    BY <1>1
  <2> QED
    BY <2>1, <2>2, Zenon
<1>3. ASSUME NEW n \in 0..Len(b), n \in S, n < Len(b)
      PROVE  n + 1 \in S
  <2>1. /\ n + 1 \in 1..Len(b) /\ n + 1 \in 0..Len(b)
        /\ f[n] \in Seq(Functor)
    BY <1>1, <1>3
  <2>2. f[n + 1] = f[n] \o b[n + 1].todo
    BY <1>1, <1>3, <2>1, Zenon DEF IsLeft
  <2>3. b[n + 1].todo \in Seq(Functor)
    <3>1. b[n + 1] \in Batch
      BY <2>1, ElementOfSeq
    <3> QED
      BY <3>1 DEF Batch
  <2>4. f[n + 1] \in Seq(Functor)
    BY <2>1, <2>2, <2>3
  <2> QED
    BY <2>1, <2>4
<1> HIDE DEF S
<1>4. \A n \in 0..Len(b) : n \in S
  BY <1>1, <1>2, <1>3, InductionUpTo
<1> QED
  BY <1>4 DEF S, f

\* Stacks that agree up to a height have the same left up to it.
LEMMA LeftAgree ==
  ASSUME NEW b \in Seq(Batch), NEW c \in Seq(Batch), NEW m \in Nat,
         m <= Len(b), m <= Len(c),
         \A n \in 1..m : b[n].todo = c[n].todo
  PROVE  LeftFcn(b)[m] = LeftFcn(c)[m]
<1> DEFINE f == LeftFcn(b)
           g == LeftFcn(c)
           S == {n \in 0..m : f[n] = g[n]}
<1>1. /\ IsLeft(f, b, Len(b)) /\ Len(b) \in Nat
      /\ IsLeft(g, c, Len(c)) /\ Len(c) \in Nat
  BY LeftIsFcn
<1> HIDE DEF f, g
<1>2. 0 \in S
  BY <1>1 DEF IsLeft
<1>3. ASSUME NEW n \in 0..m, n \in S, n < m
      PROVE  n + 1 \in S
  <2>1. /\ n + 1 \in 1..m /\ n + 1 \in 0..m
        /\ n \in 0..Len(b) /\ n < Len(b) /\ n \in 0..Len(c) /\ n < Len(c)
        /\ f[n] = g[n]
    BY <1>1, <1>3
  <2>2. f[n + 1] = f[n] \o b[n + 1].todo
    BY <1>1, <1>3, <2>1, Zenon DEF IsLeft
  <2>3. g[n + 1] = g[n] \o c[n + 1].todo
    BY <1>1, <1>3, <2>1, Zenon DEF IsLeft
  <2> QED
    BY <2>1, <2>2, <2>3
<1> HIDE DEF S
<1>4. \A n \in 0..m : n \in S
  BY <1>2, <1>3, InductionUpTo
<1> QED
  BY <1>4 DEF S, f, g

\* What is below the innermost batch, and that batch.
Below(b) == LeftFcn(b)[Len(b) - 1]

LEMMA LeftSplit ==
  ASSUME NEW b \in Seq(Batch), b # <<>>
  PROVE  /\ Below(b) \in Seq(Functor)
         /\ Left(b) = Below(b) \o b[Len(b)].todo
<1>1. Len(b) \in 1..Len(b) /\ Len(b) - 1 \in 0..Len(b)
  OBVIOUS
<1>2. IsLeft(LeftFcn(b), b, Len(b)) /\ Left(b) = LeftFcn(b)[Len(b)]
  BY LeftIsFcn
<1>3. LeftFcn(b)[Len(b)] = LeftFcn(b)[Len(b) - 1] \o b[Len(b)].todo
  <2> DEFINE k == Len(b) - 1
  <2>1. k \in 0..Len(b) /\ k < Len(b) /\ k + 1 = Len(b)
    BY <1>1
  <2> HIDE DEF k
  <2>2. LeftFcn(b)[k + 1] = LeftFcn(b)[k] \o b[k + 1].todo
    BY <1>2, <2>1 DEF IsLeft
  <2> QED
    BY <2>1, <2>2 DEF k
<1> QED
  BY <1>1, <1>2, <1>3, LeftType DEF Below

LEMMA LeftOfEmpty == Left(<<>>) = <<>>
<1>1. <<>> \in Seq(Batch) /\ Len(<<>>) = 0
  OBVIOUS
<1>2. IsLeft(LeftFcn(<<>>), <<>>, Len(<<>>)) /\ Left(<<>>) = LeftFcn(<<>>)[Len(<<>>)]
  BY <1>1, LeftIsFcn
<1>3. LeftFcn(<<>>)[0] = <<>>
  BY <1>2 DEF IsLeft
<1> QED
  BY <1>1, <1>2, <1>3

LEMMA LeftInFunctors ==
  ASSUME NEW b \in Seq(Batch)
  PROVE  Left(b) \in Seq(Functor)
<1>1. Len(b) \in 0..Len(b)
  OBVIOUS
<1> QED
  BY <1>1, LeftIsFcn, LeftType

\* Another batch on top adds what it holds.
LEMMA LeftPlusOne ==
  ASSUME NEW b \in Seq(Batch), NEW c \in Seq(Batch),
         Len(c) = Len(b) + 1,
         \A n \in 1..Len(b) : c[n].todo = b[n].todo
  PROVE  Left(c) = Left(b) \o c[Len(c)].todo
<1>1. c # <<>> /\ Len(c) - 1 = Len(b) /\ Len(b) \in Nat
  OBVIOUS
<1>2. Below(c) = LeftFcn(b)[Len(b)]
  BY <1>1, LeftAgree DEF Below
<1> QED
  BY <1>1, <1>2, LeftSplit, LeftIsFcn

-----------------------------------------------------------------------------
(* The loop is a TaskExecutor.                                             *)

LEMMA DrainInit == Init => DrainInv
  BY DEF Init, DrainInv, Stopping

\* Steps that leave what DrainInv is about alone.
LEMMA DrainSame ==
  ASSUME DrainInv, UNCHANGED <<drain, exit, pending, late, running, lpc>>
  PROVE  DrainInv'
  BY DEF DrainInv, Stopping

LEMMA DrainNext == TypeInv /\ WakeupInv /\ DrainInv /\ [Next]_vars => DrainInv'
<1> SUFFICES ASSUME TypeInv, WakeupInv, DrainInv, [Next]_vars PROVE DrainInv'
  OBVIOUS
<1> USE DEF callVars, loopVars
<1>1. ASSUME NEW p \in Thread, Action(p)
      PROVE  DrainInv'
  <2>1. CASE Push(p)
    <3>1. /\ UNCHANGED <<drain, exit, running, lpc>>
          /\ pending' = Append(pending, arg[p])
          /\ late' = IF Stopping THEN late \cup {arg[p]} ELSE late
      BY <2>1 DEF Push
    <3>2. arg[p] \in Functor /\ pending \in Seq(Functor)
      BY <2>1 DEF Push, TypeInv, TypeOK, CallStack
    <3>3. \A i \in 1..Len(pending') :
            \/ i \in 1..Len(pending) /\ pending'[i] = pending[i]
            \/ pending'[i] = arg[p]
      BY <3>1, <3>2
    <3>4. Stopping => late' = late \cup {arg[p]}
      BY <3>1
    <3> QED
      BY <3>1, <3>3, <3>4 DEF DrainInv, Stopping
  <2>2. CASE \E t \in fresh : RunInLoop(p, t) \/ QueueInLoop(p, t)
    BY <2>2, DrainSame DEF RunInLoop, QueueInLoop, Call
  <2>3. CASE ReadStatus(p) \/ ReadTid(p) \/ RunInline(p) \/ Lock(p)
    BY <2>3, DrainSame DEF ReadStatus, ReadTid, RunInline, Lock
  <2>4. CASE CallStop(p) \/ Cancel(p) \/ Notify(p) \/ StoreStopping(p)
    BY <2>4, DrainSame DEF CallStop, Cancel, Notify, StoreStopping
  <2> QED
    BY <1>1, <2>1, <2>2, <2>3, <2>4 DEF Action, User, Proceed
<1>2. CASE \/ StoreStarting \/ SetTid \/ StoreRunning \/ DispatchReturns
           \/ ResetWatcher \/ StoreStopped
  <2>1. /\ UNCHANGED <<drain, exit, pending, late, running>>
        /\ lpc \notin {"swap", "batch"} /\ lpc' # "swap"
    BY <1>2 DEF StoreStarting, SetTid, StoreRunning, DispatchReturns,
                ResetWatcher, StoreStopped, At
  <2> QED
    BY <2>1 DEF DrainInv, Stopping
<1>3. CASE Receive
  <2>1. /\ UNCHANGED <<drain, exit, running>> /\ lpc' = "swap"
        /\ lpc = "dispatch"
    BY <1>3 DEF Receive, At
  <2> QED
    BY <2>1 DEF DrainInv
<1>4. CASE Swap
  <2>1. /\ UNCHANGED <<running, late>> /\ lpc = "swap" /\ lpc' = "batch"
        /\ pending' = <<>>
    BY <1>4 DEF Swap, At
  <2> QED
    BY <2>1 DEF DrainInv
<1>5. CASE BeginFunctor
  <2>1. UNCHANGED <<drain, exit, pending, late, lpc>> /\ lpc = "batch"
    BY <1>5 DEF BeginFunctor, TakeFunctor, At
  <2> QED
    BY <2>1 DEF DrainInv, Stopping
<1>6. CASE EndFunctor
  <2>1. UNCHANGED <<drain, exit, pending, late, lpc>> /\ running' = None
    BY <1>6 DEF EndFunctor
  <2> QED
    BY <2>1 DEF DrainInv, Stopping
<1>7. CASE BeginStopInLoop
  <2>1. lpc' = "swap" /\ running' = None
    BY <1>7 DEF BeginStopInLoop, TakeFunctor
  <2> QED
    BY <2>1 DEF DrainInv
<1>8. CASE EndBatch
  <2>1. /\ UNCHANGED <<drain, exit, pending, late, running>>
        /\ running = None /\ lpc = "batch"
    BY <1>8 DEF EndBatch, At
  <2> QED
    BY <2>1 DEF DrainInv, Stopping
<1>9. CASE DrainAgain \/ RequestExit
  <2>1. lpc = "empty" /\ lpc' = "swap" /\ UNCHANGED running
    BY <1>9, Zenon DEF DrainAgain, RequestExit, At
  <2> QED
    BY <2>1 DEF DrainInv
<1>10. CASE EndStopInLoop
  <2>1. /\ UNCHANGED <<exit, pending, late, running>>
        /\ drain = 2 /\ lpc = "empty" /\ lpc' = "batch"
    BY <1>10, Zenon DEF EndStopInLoop, At
  <2>2. Stopping
    BY <2>1 DEF Stopping
  <2> QED
    BY <2>1, <2>2 DEF DrainInv
<1>11. CASE UNCHANGED vars
  BY <1>11, DrainSame DEF vars
<1> QED
  BY <1>1, <1>2, <1>3, <1>4, <1>5, <1>6, <1>7, <1>8, <1>9, <1>10, <1>11
  DEF Next, Run, Action

LEMMA DrainInvariance == Spec => []DrainInv
  BY DrainInit, DrainNext, TypeInvariance, WakeupProtocol, PTL DEF Spec

LEMMA WaitingType ==
  ASSUME TypeInv
  PROVE  Waiting \in Seq(Functor) /\ Left(batches) \in Seq(Functor)
  BY LeftInFunctors DEF TypeInv, TypeOK, Waiting

\* The functor that is taken is the first of the innermost batch; until
\* StopInLoop begins that is the only one.
LEMMA WaitingTake ==
  ASSUME TypeInv, WakeupInv, TakeFunctor, UNCHANGED pending
  PROVE  \E i \in 1..Len(Waiting) :
           /\ Waiting[i] = Head(Innermost.todo)
           /\ Waiting' = SubSeq(Waiting, 1, i - 1)
                           \o SubSeq(Waiting, i + 1, Len(Waiting))
           /\ ~Stopping => i = 1
<1> DEFINE s == Below(batches)
           t == Innermost.todo
           i == Len(s) + 1
<1>1. /\ batches \in Seq(Batch) /\ batches # <<>> /\ pending \in Seq(Functor)
      /\ batches' \in Seq(Batch) /\ Len(batches') = Len(batches)
  BY TakeFunctorStack DEF TypeInv, TypeOK
<1>2. t \in Seq(Functor) /\ t # <<>>
  BY <1>1, InnermostIsBatch DEF TakeFunctor
<1>3. s \in Seq(Functor) /\ Left(batches) = s \o t
  BY <1>1, LeftSplit DEF Innermost
<1>4. /\ batches'[Len(batches)].todo = Tail(t)
      /\ \A n \in 1..(Len(batches) - 1) : batches'[n] = batches[n]
  BY <1>1, InnermostIsBatch DEF TakeFunctor, Innermost, Batch
<1>5. Left(batches') = s \o Tail(t)
  <2>1. batches' # <<>>
    BY <1>1
  <2>2. Left(batches') = Below(batches') \o batches'[Len(batches')].todo
    BY <1>1, <2>1, LeftSplit
  <2>3. Below(batches') = s
    <3>1. Len(batches) - 1 \in Nat /\ Len(batches) - 1 <= Len(batches)
      BY <1>1
    <3>2. \A n \in 1..(Len(batches) - 1) : batches[n].todo = batches'[n].todo
      BY <1>4
    <3>3. LeftFcn(batches)[Len(batches) - 1] = LeftFcn(batches')[Len(batches) - 1]
      BY <1>1, <3>1, <3>2, LeftAgree
    <3> QED
      BY <1>1, <3>3 DEF Below
  <2> QED
    BY <1>1, <1>4, <2>2, <2>3
<1>6. /\ Waiting = Joined(s, t, pending)
      /\ Waiting' = Joined(s, Tail(t), pending)
  BY <1>3, <1>5 DEF Waiting, Joined
<1> HIDE DEF s, t
<1>7. /\ i \in 1..Len(Waiting) /\ Waiting[i] = Head(t)
      /\ Waiting' = WithoutAt(Waiting, i)
  BY <1>1, <1>2, <1>3, <1>6, RemoveMiddle, ZenonT(60)
<1>0. i = Len(s) + 1
  OBVIOUS
<1> HIDE DEF i
<1>8. ~Stopping => i = 1
  <2> SUFFICES ASSUME ~Stopping PROVE i = 1
    OBVIOUS
  <2>1. Len(batches) \in 1..Len(batches)
    BY <1>1
  <2>2. Len(batches) = 1
    BY <2>1 DEF WakeupInv, StopRemembered, TypeInv, CallStack
  <2>3. s = <<>>
    <3>1. IsLeft(LeftFcn(batches), batches, Len(batches))
      BY <1>1, LeftIsFcn
    <3>2. LeftFcn(batches)[0] = <<>>
      BY <3>1, Zenon DEF IsLeft
    <3> QED
      BY <2>2, <3>2 DEF s, Below
  <2> QED
    BY <1>0, <2>3
<1> QED
  BY <1>7, <1>8, Zenon DEF t, WithoutAt

\* Swapping the queue into a batch, and the end of an empty batch, leave what
\* is waiting alone.
LEMMA WaitingSwap ==
  ASSUME TypeInv, Swap
  PROVE  UNCHANGED Waiting
<1> DEFINE b == batches
           c == batches'
<1>1. /\ b \in Seq(Batch) /\ c \in Seq(Batch) /\ Len(c) = Len(b) + 1
      /\ \A n \in 1..Len(b) : c[n] = b[n]
      /\ pending \in Seq(Functor)
  BY SwapStack DEF TypeInv, TypeOK
<1>2. c[Len(c)].todo = pending /\ pending' = <<>>
  BY <1>1 DEF Swap
<1> HIDE DEF b, c
<1>3. Left(c) = Left(b) \o pending
  BY <1>1, <1>2, LeftPlusOne
<1>4. Left(b) \o pending \in Seq(Functor)
  BY <1>1, LeftInFunctors
<1>5. Left(c) \o <<>> = Left(c)
  BY <1>3, <1>4, ConcatEmptySeq
<1> QED
  BY <1>2, <1>3, <1>5 DEF Waiting, b, c

LEMMA WaitingEndBatch ==
  ASSUME TypeInv, EndBatch
  PROVE  UNCHANGED Waiting
<1> DEFINE b == batches
           c == batches'
<1>1. /\ b \in Seq(Batch) /\ c \in Seq(Batch) /\ Len(b) = Len(c) + 1
      /\ \A n \in 1..Len(c) : b[n] = c[n]
  BY EndBatchStack DEF TypeInv, TypeOK
<1>2. b[Len(b)].todo = <<>> /\ pending' = pending
  BY <1>1 DEF EndBatch, Innermost
<1> HIDE DEF b, c
<1>3. Left(b) = Left(c) \o <<>>
  BY <1>1, <1>2, LeftPlusOne
<1>4. Left(c) \o <<>> = Left(c)
  BY <1>1, LeftInFunctors, ConcatEmptySeq
<1> QED
  BY <1>2, <1>3, <1>4 DEF Waiting, b, c

\* Without its first element a sequence is its tail.
LEMMA FirstTaken ==
  ASSUME NEW w \in Seq(Functor), 1 \in 1..Len(w)
  PROVE  /\ w # <<>> /\ Head(w) = w[1]
         /\ SubSeq(w, 1, 1 - 1) \o SubSeq(w, 1 + 1, Len(w)) = Tail(w)
<1>1. w # <<>> /\ Head(w) = w[1] /\ Tail(w) \in Seq(Functor)
  OBVIOUS
<1>2. SubSeq(w, 1, 0) = <<>>
  BY SubSeqEmpty
<1>3. Tail(w) = SubSeq(w, 2, Len(w))
  BY <1>1, TailIsSubSeq
<1>4. <<>> \o Tail(w) = Tail(w)
  BY <1>1, ConcatEmptySeq
<1> QED
  BY <1>1, <1>2, <1>3, <1>4

\* Steps that the executor does not see.
LEMMA ExecutorSame ==
  ASSUME UNCHANGED <<batches, pending, running, drain, exit, late, lpc>>
  PROVE  UNCHANGED E!vars
  BY DEF E!vars, Waiting, Stopping

\* A push hands a functor over.
LEMMA ExecutorPush ==
  ASSUME TypeInv, NEW p \in Thread, Push(p)
  PROVE  E!Next
<1>1. arg[p] \in Functor
  BY DEF Push, TypeInv, CallStack
<1>2. Waiting' = Append(Waiting, arg[p])
  <2>1. /\ pending' = Append(pending, arg[p]) /\ batches' = batches
        /\ pending \in Seq(Functor)
    BY DEF Push, loopVars, TypeInv, TypeOK
  <2>2. Left(batches) \in Seq(Functor)
    BY WaitingType
  <2> DEFINE l == Left(batches)
  <2> HIDE DEF l
  <2>3. l \o Append(pending, arg[p]) = Append(l \o pending, arg[p])
    BY <1>1, <2>1, <2>2 DEF l
  <2> QED
    BY <2>1, <2>3 DEF Waiting, l
<1>3. UNCHANGED <<running, drain, exit, lpc>>
  BY DEF Push, loopVars
<1>4. late' = IF Stopping THEN late \cup {arg[p]} ELSE late
  BY DEF Push
<1>5. E!Submit(arg[p])
  BY <1>2, <1>3, <1>4 DEF E!Submit, Stopping
<1> QED
  BY <1>1, <1>5 DEF E!Next, Functor

\* A functor of a user is started, in its turn until StopInLoop has begun.
LEMMA ExecutorStart ==
  ASSUME TypeInv, WakeupInv, BeginFunctor
  PROVE  E!Next
<1>1. /\ UNCHANGED <<pending, drain, exit, late, lpc>> /\ TakeFunctor
      /\ lpc = "batch" /\ running = None
      /\ running' = Head(Innermost.todo) /\ running' # StopTask
  BY DEF BeginFunctor, TakeFunctor, At
<1>2. PICK i \in 1..Len(Waiting) :
        /\ Waiting[i] = Head(Innermost.todo)
        /\ Waiting' = SubSeq(Waiting, 1, i - 1)
                        \o SubSeq(Waiting, i + 1, Len(Waiting))
        /\ ~Stopping => i = 1
  BY <1>1, WaitingTake
<1>3. CASE Stopping
  <2>1. E!StartAny(i)
    BY <1>1, <1>2, <1>3 DEF E!StartAny, E!Without, Stopping
  <2> QED
    BY <2>1 DEF E!Next
<1>4. CASE ~Stopping
  <2>1. Waiting \in Seq(Functor) /\ i = 1
    BY <1>2, <1>4, WaitingType
  <2>2. Waiting # <<>> /\ Head(Waiting) = running' /\ Waiting' = Tail(Waiting)
    BY <1>1, <1>2, <2>1, FirstTaken
  <2>3. E!StartNext
    BY <1>1, <1>4, <2>2 DEF E!StartNext, Stopping
  <2> QED
    BY <2>3 DEF E!Next
<1> QED
  BY <1>3, <1>4

\* StopInLoop is begun, for the first time or again.
LEMMA ExecutorStop ==
  ASSUME TypeInv, WakeupInv, BeginStopInLoop
  PROVE  E!Next
<1>1. /\ UNCHANGED <<pending, exit, late, running>> /\ TakeFunctor
      /\ lpc = "batch" /\ lpc' = "swap" /\ running = None /\ drain' = 1
      /\ Head(Innermost.todo) = StopTask
  BY DEF BeginStopInLoop, TakeFunctor, At
<1>2. PICK i \in 1..Len(Waiting) :
        /\ Waiting[i] = Head(Innermost.todo)
        /\ Waiting' = SubSeq(Waiting, 1, i - 1)
                        \o SubSeq(Waiting, i + 1, Len(Waiting))
        /\ ~Stopping => i = 1
  BY <1>1, WaitingTake
<1>3. Stopping' = TRUE
  BY <1>1 DEF Stopping
<1>4. CASE Stopping
  <2>1. Stopping' = Stopping
    BY <1>3, <1>4
  <2>2. E!StopAgain(i)
    BY <1>1, <1>2, <1>4, <2>1 DEF E!StopAgain, E!Without
  <2> QED
    BY <2>2 DEF E!Next
<1>5. CASE ~Stopping
  <2>1. Waiting \in Seq(Functor) /\ i = 1
    BY <1>2, <1>5, WaitingType
  <2>2. Waiting # <<>> /\ Head(Waiting) = StopTask /\ Waiting' = Tail(Waiting)
    BY <1>1, <1>2, <2>1, FirstTaken
  <2>3. E!Stop
    BY <1>1, <1>3, <1>5, <2>2 DEF E!Stop
  <2> QED
    BY <2>3 DEF E!Next
<1> QED
  BY <1>4, <1>5

\* Run ends; a loop that was told to exit has halted.
LEMMA ExecutorHalt ==
  ASSUME TypeInv, DrainInv, StoreStopped
  PROVE  E!Next \/ UNCHANGED E!vars
<1>1. /\ lpc = "reset" /\ lpc' = "done"
      /\ UNCHANGED <<batches, pending, running, drain, exit, late>>
  BY DEF StoreStopped, At
<1>2. UNCHANGED <<Waiting, Stopping>>
  BY <1>1 DEF Waiting, Stopping
<1>3. CASE ~exit
  BY <1>1, <1>2, <1>3 DEF E!vars
<1>4. CASE exit
  <2>1. batches = <<>> /\ running = None /\ Stopping
    BY <1>1, <1>4 DEF TypeInv, CallStack, DrainInv, Stopping
  <2>2. Waiting = pending
    BY <2>1, LeftOfEmpty, ConcatEmptySeq DEF Waiting, TypeInv, TypeOK
  <2>3. \A i \in 1..Len(Waiting) : Waiting[i] \in late
    BY <1>1, <2>1, <2>2 DEF DrainInv
  <2>4. E!Halt
    BY <1>1, <1>2, <1>4, <2>1, <2>3 DEF E!Halt
  <2> QED
    BY <2>4 DEF E!Next
<1> QED
  BY <1>3, <1>4

LEMMA ExecutorInit == Init => E!Init
<1> SUFFICES ASSUME Init PROVE E!Init
  OBVIOUS
<1>1. Waiting = <<>>
  <2>1. <<>> \o <<>> = <<>>
    OBVIOUS
  <2> QED
    BY <2>1, LeftOfEmpty DEF Init, Waiting
<1>2. Stopping = FALSE /\ (lpc = "done" /\ exit) = FALSE
  BY DEF Init, Stopping
<1> QED
  BY <1>1, <1>2 DEF Init, E!Init

LEMMA ExecutorNext ==
  ASSUME TypeInv, WakeupInv, DrainInv, [Next]_vars
  PROVE  [E!Next]_E!vars
<1> USE DEF callVars, loopVars
<1>1. ASSUME NEW p \in Thread, Action(p)
      PROVE  E!Next \/ UNCHANGED E!vars
  <2>1. CASE Push(p)
    BY <2>1, ExecutorPush
  <2>2. CASE \E t \in fresh : RunInLoop(p, t) \/ QueueInLoop(p, t)
    BY <2>2, ExecutorSame DEF RunInLoop, QueueInLoop, Call
  <2>3. CASE ReadStatus(p) \/ ReadTid(p) \/ RunInline(p) \/ Lock(p)
    BY <2>3, ExecutorSame DEF ReadStatus, ReadTid, RunInline, Lock
  <2>4. CASE CallStop(p) \/ Cancel(p) \/ Notify(p) \/ StoreStopping(p)
    BY <2>4, ExecutorSame DEF CallStop, Cancel, Notify, StoreStopping
  <2> QED
    BY <1>1, <2>1, <2>2, <2>3, <2>4 DEF Action, User, Proceed
<1>2. CASE \/ StoreStarting \/ SetTid \/ StoreRunning \/ DispatchReturns
           \/ ResetWatcher \/ Receive
  <2>1. /\ UNCHANGED <<batches, pending, running, drain, exit, late>>
        /\ lpc # "done" /\ lpc' # "done"
    BY <1>2 DEF StoreStarting, SetTid, StoreRunning, DispatchReturns,
                ResetWatcher, Receive, At
  <2> QED
    BY <2>1 DEF E!vars, Waiting, Stopping
<1>3. CASE Swap
  <2>1. /\ UNCHANGED <<running, drain, exit, late>>
        /\ lpc # "done" /\ lpc' # "done"
    BY <1>3 DEF Swap, At
  <2>2. UNCHANGED Waiting
    BY <1>3, WaitingSwap
  <2> QED
    BY <2>1, <2>2 DEF E!vars, Stopping
<1>4. CASE EndBatch
  <2>1. /\ UNCHANGED <<running, drain, exit, late>>
        /\ lpc # "done" /\ lpc' # "done"
    BY <1>4 DEF EndBatch, At
  <2>2. UNCHANGED Waiting
    BY <1>4, WaitingEndBatch
  <2> QED
    BY <2>1, <2>2 DEF E!vars, Stopping
<1>5. CASE BeginFunctor
  BY <1>5, ExecutorStart
<1>6. CASE BeginStopInLoop
  BY <1>6, ExecutorStop
<1>7. CASE EndFunctor
  <2>1. /\ UNCHANGED <<batches, pending, drain, exit, late, lpc>>
        /\ running # None /\ running' = None
    BY <1>7 DEF EndFunctor
  <2>2. E!Finish
    BY <2>1 DEF E!Finish, Waiting, Stopping
  <2> QED
    BY <2>2 DEF E!Next
<1>8. CASE DrainAgain \/ RequestExit \/ EndStopInLoop
  <2>1. /\ UNCHANGED <<batches, pending, running, late>>
        /\ lpc = "empty" /\ lpc' \in {"swap", "batch"}
    BY <1>8, Zenon DEF DrainAgain, RequestExit, EndStopInLoop, At
  <2>2. Stopping
    BY <2>1 DEF WakeupInv, StopRemembered
  <2>3. Stopping'
    <3>1. CASE DrainAgain
      BY <2>2, <3>1, Zenon DEF DrainAgain, Stopping
    <3>2. CASE RequestExit
      BY <3>2, Zenon DEF RequestExit, Stopping
    <3>3. CASE EndStopInLoop
      <4>1. drain = 2 /\ UNCHANGED exit
        BY <3>3, Zenon DEF EndStopInLoop
      <4>2. exit
        BY <4>1 DEF WakeupInv, StopRemembered
      <4> QED
        BY <4>1, <4>2 DEF Stopping
    <3> QED
      BY <1>8, <3>1, <3>2, <3>3
  <2>4. UNCHANGED <<Waiting, Stopping>>
    BY <2>1, <2>2, <2>3 DEF Waiting
  <2> QED
    BY <2>1, <2>4 DEF E!vars
<1>9. CASE StoreStopped
  BY <1>9, ExecutorHalt
<1>10. CASE UNCHANGED vars
  BY <1>10, ExecutorSame DEF vars
<1> QED
  BY <1>1, <1>2, <1>3, <1>4, <1>5, <1>6, <1>7, <1>8, <1>9, <1>10
  DEF Next, Run, Action

(***************************************************************************)
(* The loop is a TaskExecutor: what any thread hands over is started once  *)
(* and, until StopInLoop begins, in order; and a loop that was stopped     *)
(* ends only when everything queued before has run, although StopInLoop    *)
(* drains the queue from inside a batch, and may itself be in the queue    *)
(* again.                                                                  *)
(***************************************************************************)
THEOREM ExecutorRefinement == Spec => ImplementsTaskExecutor
<1>1. TypeInv /\ WakeupInv /\ DrainInv /\ [Next]_vars => [E!Next]_E!vars
  BY ExecutorNext
<1> QED
  BY <1>1, ExecutorInit, TypeInvariance, WakeupProtocol, DrainInvariance, PTL
  DEF Spec, ImplementsTaskExecutor, E!Spec
=============================================================================
