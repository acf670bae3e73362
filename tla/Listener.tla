------------------------------ MODULE Listener ------------------------------
(***************************************************************************)
(* Listener (adapters/postgres.py): LISTEN on a pooled connection, wakes   *)
(* the relay on NOTIFY, reconnects when the connection drops, until it is  *)
(* closed.  It shares the pool with the claims of the relay.               *)
(*                                                                         *)
(* An action goes from one await of the listener's coroutines to the next, *)
(* or is one callback of the event loop.  The pool is asyncpg's: acquire   *)
(* waits for a slot and gives it back when cancelled, release frees the    *)
(* slot even if it raises, a dropped connection frees its slot by itself   *)
(* and has its termination listeners called later by the event loop, as    *)
(* are the callbacks of a notification.                                    *)
(***************************************************************************)
EXTENDS Integers

CONSTANT PoolSize   \* max_size of the pool

ASSUME PoolAssumption == PoolSize \in Nat \ {0}

VARIABLES
  delayed,    \* whether _delay is set
  phase,      \* "starting", "failed" (listen raised), "open", "closed" (_closed)
  task,       \* where start() or _reconnect_task is
  cancelled,  \* whether it was cancelled
  conn,       \* _conn; "lost" while _on_terminated is still to be called
  timer,      \* _timer: None, set, or fired but still there
  notice,     \* whether _on_notify is to be called
  closer,     \* where close() is
  closing,    \* Pool.is_closing()
  used,       \* slots of the pool in use
  woken,      \* whether the relay was woken since it last asked for a batch
  relay       \* where the relay's claim is

vars == <<delayed, phase, task, cancelled, conn, timer, notice, closer, closing, used, woken, relay>>

listener == <<phase, task, cancelled, conn, closer>>

Init ==
  /\ delayed \in BOOLEAN
  /\ phase = "starting" /\ task = "acquiring" /\ cancelled = FALSE
  /\ conn = "none"
  /\ timer = "none" /\ notice = FALSE
  /\ closer = "none" /\ closing = FALSE
  /\ used = 0
  /\ woken = FALSE /\ relay = "idle"

-----------------------------------------------------------------------------
(* _connect, called by start() and by _reconnect.                          *)

\* Seeded bug: gives up after a failure.
RetryNever == "none"

\* Where an error of _connect leads: start() raises it, _reconnect sleeps.
Retry == IF phase = "starting" THEN "none" ELSE "sleeping"

NoStart == phase' = IF phase = "starting" THEN "failed" ELSE phase

\* An error, or CancelledError, is raised out of _connect.
Raise ==
  /\ task' = IF cancelled THEN "none" ELSE Retry
  /\ NoStart

\* Seeded bug: while True.
GoOnAlways == "acquiring"

\* while not self._closed and not self._pool.is_closing()
GoOn == IF phase = "closed" \/ closing THEN "none" ELSE "acquiring"

Loop ==
  /\ task \in {"created", "sleeping"} /\ ~cancelled
  /\ task' = GoOn
  /\ UNCHANGED <<delayed, phase, cancelled, conn, timer, notice, closer, closing, used, woken, relay>>

Acquired ==
  /\ task = "acquiring" /\ ~cancelled
  /\ used < PoolSize
  /\ task' = "listening"
  /\ used' = used + 1
  /\ UNCHANGED <<delayed, phase, cancelled, conn, timer, notice, closer, closing, woken, relay>>

AcquireFails ==
  /\ task = "acquiring" /\ ~cancelled
  /\ Raise
  /\ UNCHANGED <<delayed, cancelled, conn, timer, notice, closer, closing, used, woken, relay>>

\* add_listener returned; nothing is awaited after it.
Listening ==
  /\ task = "listening" /\ ~cancelled
  /\ task' = "none"
  /\ conn' = "up"
  /\ phase' = IF phase = "starting" THEN "open" ELSE phase
  /\ UNCHANGED <<delayed, cancelled, timer, notice, closer, closing, used, woken, relay>>

\* Seeded bug: except Exception, which lets a cancellation pass.
Releasing == IF cancelled THEN "none" ELSE "releasing"

\* except BaseException: await self._pool.release(conn)
ExceptClause == "releasing"

\* add_listener raised, or was cancelled.
ListenFails ==
  /\ task = "listening"
  /\ task' = ExceptClause
  /\ UNCHANGED <<delayed, phase, cancelled, conn, timer, notice, closer, closing, used, woken, relay>>

Released ==
  /\ task = "releasing"
  /\ used' = used - 1
  /\ Raise
  /\ UNCHANGED <<delayed, cancelled, conn, timer, notice, closer, closing, woken, relay>>

\* The error takes the place of the one being handled, CancelledError too.
ReleaseRaises ==
  /\ task = "releasing"
  /\ used' = used - 1
  /\ task' = Retry
  /\ NoStart
  /\ cancelled' = FALSE
  /\ UNCHANGED <<delayed, conn, timer, notice, closer, closing, woken, relay>>

\* CancelledError where there is nothing to release.
Cancelled ==
  /\ cancelled /\ task \in {"created", "acquiring", "sleeping"}
  /\ task' = "none"
  /\ NoStart
  /\ UNCHANGED <<delayed, cancelled, conn, timer, notice, closer, closing, used, woken, relay>>

\* Whoever awaits listen() is cancelled.
CancelStart ==
  /\ phase = "starting"
  /\ cancelled' = TRUE
  /\ UNCHANGED <<delayed, phase, task, conn, timer, notice, closer, closing, used, woken, relay>>

-----------------------------------------------------------------------------
(* The connection.                                                         *)

\* Seeded bug: add_termination_listener before add_listener.
WatchedEarly == conn = "up" \/ task = "listening"

\* The connections that have _on_terminated as a termination listener.
Watched == conn = "up" \/ closer = "resetting"

\* The connection drops: in use, during LISTEN, or in the reset of close().
Lose ==
  /\ used' = used - 1
  /\ conn' = IF Watched THEN "lost" ELSE conn
  /\ \/ conn = "up" /\ UNCHANGED <<phase, task, closer>>
     \/ task = "listening" /\ Raise /\ UNCHANGED closer
     \/ closer = "resetting" /\ closer' = "done" /\ UNCHANGED <<phase, task>>
  /\ UNCHANGED <<delayed, cancelled, timer, notice, closing, woken, relay>>

\* Seeded bug: without the look at _closed.
ReconnectsIfPool == ~closing

\* _on_terminated returns early if closed, or if the pool is closing.
Reconnects == phase # "closed" /\ ~closing

OnTerminated ==
  /\ conn = "lost"
  /\ conn' = "none"
  /\ task' = IF Reconnects THEN "created" ELSE task
  /\ UNCHANGED <<delayed, phase, cancelled, timer, notice, closer, closing, used, woken, relay>>

\* Several notifications that wait for the event loop count as one.
Notify ==
  /\ conn = "up"
  /\ notice' = TRUE
  /\ UNCHANGED <<delayed, listener, timer, closing, used, woken, relay>>

\* Seeded bug: without the look at _closed.
HeardAlways == TRUE

Heard == phase # "closed"

OnNotify ==
  /\ notice
  /\ notice' = FALSE
  /\ woken' = (woken \/ (Heard /\ ~delayed))
  /\ timer' = IF Heard /\ delayed /\ timer = "none" THEN "set" ELSE timer
  /\ UNCHANGED <<delayed, listener, closing, used, relay>>

\* Seeded bug: without self._timer = None.
TimerKept == "fired"

TimerAfterFire == "none"

Fire ==
  /\ timer = "set"
  /\ timer' = TimerAfterFire
  /\ woken' = (woken \/ phase # "closed")
  /\ UNCHANGED <<delayed, listener, notice, closing, used, relay>>

-----------------------------------------------------------------------------
(* close                                                                   *)

\* Resets the connection, if there is one.
TakeConn ==
  /\ closer' = IF conn = "up" THEN "resetting" ELSE "done"
  /\ conn' = IF conn = "up" THEN "none" ELSE conn

\* Seeded bug: cancels the task without awaiting it.
JoinsNobody == FALSE

\* await self._reconnect_task
Joins == task # "none"

Close ==
  /\ phase = "open"
  /\ phase' = "closed"
  /\ timer' = "none"
  /\ cancelled' = (task # "none")
  /\ IF Joins THEN closer' = "joining" /\ UNCHANGED conn ELSE TakeConn
  /\ UNCHANGED <<delayed, task, notice, closing, used, woken, relay>>

Joined ==
  /\ closer = "joining" /\ task = "none"
  /\ TakeConn
  /\ UNCHANGED <<delayed, phase, task, cancelled, timer, notice, closing, used, woken, relay>>

\* Seeded bug: the slot is freed twice.
SlotsFreedTwice == used - 2

\* finally: await self._pool.release(conn)
SlotsAfterClose == used - 1

CloseReleases ==
  /\ closer = "resetting"
  /\ closer' = "done"
  /\ used' = SlotsAfterClose
  /\ UNCHANGED <<delayed, phase, task, cancelled, conn, timer, notice, closing, woken, relay>>

-----------------------------------------------------------------------------
(* The relay, and the application that closes the pool.                    *)

\* The poller was woken or timed out.
Ask ==
  /\ relay = "idle" /\ ~closing
  /\ relay' = "waiting" /\ woken' = FALSE
  /\ UNCHANGED <<delayed, listener, timer, notice, closing, used>>

Claim ==
  /\ relay = "waiting" /\ used < PoolSize
  /\ relay' = "in" /\ used' = used + 1
  /\ UNCHANGED <<delayed, listener, timer, notice, closing, woken>>

\* A closing pool refuses.
ClaimFails ==
  /\ relay = "waiting" /\ closing
  /\ relay' = "idle"
  /\ UNCHANGED <<delayed, listener, timer, notice, closing, used, woken>>

ClaimEnds ==
  /\ relay = "in"
  /\ relay' = "idle" /\ used' = used - 1
  /\ UNCHANGED <<delayed, listener, timer, notice, closing, woken>>

\* PostgresStorage.close, or the owner of the pool.
ClosePool ==
  /\ closing' = TRUE
  /\ UNCHANGED <<delayed, listener, timer, notice, used, woken, relay>>

-----------------------------------------------------------------------------

TaskStep == \/ Loop \/ Acquired \/ AcquireFails \/ Listening \/ ListenFails
            \/ Released \/ ReleaseRaises \/ Cancelled

ClaimStep == Claim \/ ClaimFails \/ ClaimEnds

Next == \/ TaskStep \/ Lose \/ OnTerminated \/ Notify \/ OnNotify \/ Fire
        \/ CancelStart \/ Close \/ Joined \/ CloseReleases \/ Ask \/ ClaimStep \/ ClosePool

Spec == Init /\ [][Next]_vars

(***************************************************************************)
(* The event loop goes on, calls to the pool and the database end, be it   *)
(* with an error, and so does a claim.  Nobody has to close, notify or     *)
(* ask, and nothing is said of the database being there.                   *)
(***************************************************************************)
FairSpec ==
  /\ Spec
  /\ WF_vars(TaskStep) /\ WF_vars(OnTerminated) /\ WF_vars(OnNotify) /\ WF_vars(Fire)
  /\ WF_vars(Joined) /\ WF_vars(CloseReleases) /\ WF_vars(ClaimStep)

-----------------------------------------------------------------------------
(* Properties.                                                             *)

TypeOK ==
  /\ delayed \in BOOLEAN
  /\ phase \in {"starting", "failed", "open", "closed"}
  /\ task \in {"none", "created", "acquiring", "listening", "releasing", "sleeping"}
  /\ cancelled \in BOOLEAN
  /\ conn \in {"none", "up", "lost"}
  /\ timer \in {"none", "set", "fired"} /\ notice \in BOOLEAN
  /\ closer \in {"none", "joining", "resetting", "done"}
  /\ closing \in BOOLEAN
  /\ used \in 0..PoolSize
  /\ woken \in BOOLEAN
  /\ relay \in {"idle", "waiting", "in"}

One(holds) == IF holds THEN 1 ELSE 0

(***************************************************************************)
(* No slot of the pool is leaked or freed twice: those in use are held by  *)
(* the connection, by a _connect that has acquired one, by close() or by   *)
(* a claim, whatever was lost, cancelled or raised in between.  So with    *)
(* two slots a claim never waits for good, and a pool that is closed after *)
(* the listener has nothing to wait for.                                   *)
(***************************************************************************)
SlotsAccounted ==
  used = One(conn = "up") + One(task \in {"listening", "releasing"})
         + One(closer = "resetting") + One(relay = "in")

(***************************************************************************)
(* When close() returns nothing is left behind: no task, no connection, no *)
(* timer, whichever reconnection or late _on_terminated it raced with.     *)
(***************************************************************************)
CloseLeavesNothing ==
  closer = "done" => task = "none" /\ conn # "up" /\ timer = "none"

(***************************************************************************)
(* The relay is not woken by a listener that has been closed, although     *)
(* notifications and timers were on their way.                             *)
(***************************************************************************)
QuietOnceClosed == [][phase = "closed" /\ ~woken => ~woken']_vars

(***************************************************************************)
(* There is one reconnection at a time: _on_terminated never replaces a    *)
(* _reconnect_task that still runs, which close() could not cancel.        *)
(***************************************************************************)
OneReconnection == conn = "lost" /\ phase = "open" => task = "none"

(***************************************************************************)
(* A notification wakes the relay, unless the listener is closed: those    *)
(* that arrive during the deferred wake-up of an earlier one share it, and *)
(* the timer is free again when it has fired.                              *)
(***************************************************************************)
NotifiedWakes == notice ~> woken \/ phase = "closed"

(***************************************************************************)
(* A listener that lost its connection is connected again in the end, if a *)
(* database that is tried again and again answers some day.                *)
(***************************************************************************)
ConnectedAgain ==
  SF_vars(Acquired) /\ SF_vars(Listening) =>
    (phase = "open" /\ conn # "up" ~> conn = "up" \/ phase = "closed" \/ closing)

(***************************************************************************)
(* close() returns, also if it caught the reconnection at a moment where   *)
(* the cancellation is lost, and if the database never comes back.         *)
(***************************************************************************)
CloseEnds == phase = "closed" ~> closer = "done"

=============================================================================
