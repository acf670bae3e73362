--------------------------- MODULE ListenerProofs ---------------------------
(***************************************************************************)
(* Safety of Listener for a pool of any size.                              *)
(*                                                                         *)
(* The slots can only be counted if whoever may hold one is known: that    *)
(* the connection, a running _connect and close() exclude each other, and  *)
(* that a cancelled reconnection, even one that lost its cancellation,     *)
(* never gets as far as a connection.                                      *)
(***************************************************************************)
EXTENDS Listener, TLAPS

\* Before listen() has returned, and when it has raised, there is only start().
NotOpenYet ==
  phase \in {"starting", "failed"} =>
    /\ conn = "none" /\ timer = "none" /\ notice = FALSE
    /\ phase = "failed" => task = "none"
    /\ phase = "starting" => task \in {"acquiring", "listening", "releasing"}

\* A task connects only while there is no connection, and in an open listener nobody
\* has cancelled it.
Connecting ==
  /\ conn # "none" => task = "none"
  /\ phase = "open" => cancelled = FALSE

\* close() has the timer stopped, waits for a task that is cancelled, or was and will
\* find the listener closed, and then has the connection for itself.
Closing ==
  /\ closer = "none" <=> phase # "closed"
  /\ phase = "closed" => timer = "none" /\ conn # "up"
  /\ closer = "joining" => conn = "none" /\ (cancelled \/ task \in {"sleeping", "none"})
  /\ closer \in {"resetting", "done"} => task = "none"
  /\ closer = "resetting" => conn = "none"

\* The inductive invariant.
ListenerInv == TypeOK /\ SlotsAccounted /\ NotOpenYet /\ Connecting /\ Closing

\* Every step of the listener, its relay and its pool preserves the invariant.
LEMMA ListenerStep ==
  ASSUME ListenerInv, [Next]_vars
  PROVE  ListenerInv'
<1> USE PoolAssumption DEF ListenerInv, TypeOK, SlotsAccounted, NotOpenYet, Connecting, Closing, One
<1>1. CASE Loop
  BY <1>1 DEF Loop, GoOn
<1>2. CASE Acquired
  BY <1>2 DEF Acquired
<1>3. CASE AcquireFails
  BY <1>3 DEF AcquireFails, Raise, Retry, NoStart
<1>4. CASE Listening
  BY <1>4 DEF Listening
<1>5. CASE ListenFails
  BY <1>5 DEF ListenFails, ExceptClause
<1>6. CASE Released
  BY <1>6 DEF Released, Raise, Retry, NoStart
<1>7. CASE ReleaseRaises
  <2>1. task' \in {"none", "sleeping"} /\ phase' \in {phase, "failed"}
    BY <1>7 DEF ReleaseRaises, Retry, NoStart
  <2>2. cancelled' \in BOOLEAN
    BY <1>7 DEF ReleaseRaises
  <2>3. used' \in 0..PoolSize
    BY <1>7 DEF ReleaseRaises
  <2>4. TypeOK'
    BY <1>7, <2>1, <2>2, <2>3 DEF ReleaseRaises
  <2>5. SlotsAccounted'
    BY <1>7, <2>1 DEF ReleaseRaises
  <2>6. NotOpenYet' /\ Connecting'
    BY <1>7 DEF ReleaseRaises, Retry, NoStart
  <2>7. Closing'
    BY <1>7 DEF ReleaseRaises, Retry, NoStart
  <2> QED
    BY <2>4, <2>5, <2>6, <2>7
<1>8. CASE Cancelled
  BY <1>8 DEF Cancelled, NoStart
<1>9. CASE CancelStart
  BY <1>9 DEF CancelStart
<1>10. CASE Lose
  BY <1>10 DEF Lose, Watched, Raise, Retry, NoStart
<1>11. CASE OnTerminated
  BY <1>11 DEF OnTerminated, Reconnects
<1>12. CASE Notify
  BY <1>12 DEF Notify, listener
<1>13. CASE OnNotify
  BY <1>13 DEF OnNotify, listener, Heard
<1>14. CASE Fire
  BY <1>14 DEF Fire, listener, TimerAfterFire
<1>15. CASE Close
  <2>1. TypeOK' /\ SlotsAccounted'
    BY <1>15 DEF Close, Joins, TakeConn
  <2>2. NotOpenYet' /\ Connecting'
    BY <1>15 DEF Close, Joins, TakeConn
  <2>3. Closing'
    BY <1>15 DEF Close, Joins, TakeConn
  <2> QED
    BY <2>1, <2>2, <2>3
<1>16. CASE Joined
  BY <1>16 DEF Joined, TakeConn
<1>17. CASE CloseReleases
  BY <1>17 DEF CloseReleases, SlotsAfterClose
<1>18. CASE Ask
  BY <1>18 DEF Ask, listener
<1>19. CASE Claim
  BY <1>19 DEF Claim, listener
<1>20. CASE ClaimFails
  BY <1>20 DEF ClaimFails, listener
<1>21. CASE ClaimEnds
  BY <1>21 DEF ClaimEnds, listener
<1>22. CASE ClosePool
  BY <1>22 DEF ClosePool, listener
<1>23. CASE UNCHANGED vars
  BY <1>23 DEF vars
<1> QED
  BY <1>1, <1>2, <1>3, <1>4, <1>5, <1>6, <1>7, <1>8, <1>9, <1>10, <1>11, <1>12, <1>13, <1>14, <1>15, <1>16, <1>17, <1>18, <1>19, <1>20, <1>21, <1>22, <1>23 DEF Next, TaskStep, ClaimStep

\* The inductive invariant holds of every behaviour.
LEMMA ListenerInvariant == Spec => []ListenerInv
<1>1. ASSUME Init
      PROVE  ListenerInv
  <2>1. SlotsAccounted /\ used \in 0..PoolSize
    BY <1>1, PoolAssumption DEF Init, SlotsAccounted, One
  <2>2. TypeOK
    BY <1>1, <2>1 DEF Init, TypeOK
  <2>3. NotOpenYet /\ Connecting /\ Closing
    BY <1>1 DEF Init, NotOpenYet, Connecting, Closing
  <2> QED
    BY <2>1, <2>2, <2>3 DEF ListenerInv
<1>2. ListenerInv /\ [Next]_vars => ListenerInv'
  BY ListenerStep
<1> QED
  BY <1>1, <1>2, PTL DEF Spec

\* Type correctness; in particular the slots in use never exceed the pool, and none is
\* freed that is not in use.
THEOREM ListenerTypes == Spec => []TypeOK
<1>1. ListenerInv => TypeOK
  BY DEF ListenerInv
<1> QED
  BY <1>1, ListenerInvariant, PTL

\* Whatever is lost, cancelled or raised between acquire, LISTEN and release, no slot of
\* the pool is leaked or freed twice.
THEOREM SlotsAreAccounted == Spec => []SlotsAccounted
<1>1. ListenerInv => SlotsAccounted
  BY DEF ListenerInv
<1> QED
  BY <1>1, ListenerInvariant, PTL

\* close() leaves no task, connection or timer, even if the task it cancelled lost its
\* cancellation to an error of release, or the connection dropped meanwhile.
THEOREM NothingIsLeft == Spec => []CloseLeavesNothing
<1>1. ListenerInv => CloseLeavesNothing
  BY DEF ListenerInv, Closing, CloseLeavesNothing
<1> QED
  BY <1>1, ListenerInvariant, PTL

\* _on_terminated finds no _reconnect_task that still runs.
THEOREM OneReconnectionAtATime == Spec => []OneReconnection
<1>1. ListenerInv => OneReconnection
  BY DEF ListenerInv, Connecting, OneReconnection
<1> QED
  BY <1>1, ListenerInvariant, PTL

\* Neither a notification nor a timer on its way wakes the relay of a closed listener.
THEOREM ClosedIsQuiet == Spec => QuietOnceClosed
<1> DEFINE Quiet == phase = "closed" /\ ~woken => ~woken'
<1>1. ASSUME ListenerInv, [Next]_vars
      PROVE  [Quiet]_vars
  <2> USE DEF ListenerInv, Closing
  <2> SUFFICES ASSUME phase = "closed", ~woken
               PROVE  ~woken'
    OBVIOUS
  <2>1. timer # "set"
    BY <1>1
  <2>2. CASE OnNotify
    BY <2>2 DEF OnNotify, Heard
  <2>3. CASE TaskStep \/ ClaimStep \/ Lose \/ OnTerminated \/ Notify \/ CancelStart
    BY <2>3 DEF TaskStep, Loop, Acquired, AcquireFails, Listening, ListenFails, Released,
                ReleaseRaises, Cancelled, ClaimStep, Claim, ClaimFails, ClaimEnds, Lose,
                OnTerminated, Notify, CancelStart
  <2>4. CASE Close \/ Joined \/ CloseReleases \/ Ask \/ ClosePool
    BY <2>4 DEF Close, Joined, CloseReleases, Ask, ClosePool
  <2>5. CASE Fire
    BY <2>1, <2>5 DEF Fire
  <2>6. CASE UNCHANGED vars
    BY <2>6 DEF vars
  <2> QED
    BY <1>1, <2>2, <2>3, <2>4, <2>5, <2>6 DEF Next
<1> QED
  BY <1>1, ListenerInvariant, PTL DEF Spec, QuietOnceClosed

=============================================================================
