--------------------------- MODULE RelayLifecycle ---------------------------
(***************************************************************************)
(* The life of Relay.run (relay.py) and its poller (poller.py): the loop   *)
(* of rounds and pauses, stop, wake, signals, cancellation and the context *)
(* manager, on one event loop.  Several tasks may run the same relay; they *)
(* share the stop flag and the wake-up event.                              *)
(*                                                                         *)
(* A task is always suspended at an await, and each action is what happens *)
(* from there to the next one.  What a round does to the table is in       *)
(* OutboxRelay; here it claims nothing, some or a full batch, and fails.   *)
(***************************************************************************)
EXTENDS Naturals, FiniteSets

CONSTANTS
  Loops,           \* tasks that may execute Relay.run
  NULL,            \* no task
  PollMin, PollMax, PollFactor,  \* RelayConfig.poll_min, poll_max, poll_factor
  MaxRuns,         \* bound: calls of run
  MaxSignals       \* bound: signals per call of run

ASSUME LifecycleAssumption ==
  /\ NULL \notin Loops
  /\ PollMin \in Nat \ {0} /\ PollMax \in Nat /\ PollMin <= PollMax
  /\ PollFactor \in Nat \ {0}
  /\ MaxRuns \in Nat
  /\ MaxSignals \in Nat

VARIABLES
  stopping,  \* Relay._stopping
  wakeup,    \* AdaptivePoller._wakeup
  interval,  \* AdaptivePoller._current
  handler,   \* the call of run whose on_signal the event loop calls, or NULL
  loop,      \* loop[l]: the call of run in task l
  manager,   \* the async with block around the relay
  news,      \* history: wake was called and no claim has begun since
  runs       \* number of calls of run so far

vars == <<stopping, wakeup, interval, handler, loop, manager, news, runs>>

Place == {"out",         \* not started, or ended
          "created",     \* the task exists and has not run yet
          "claiming",    \* awaits storage.claim, or the hook on_claimed after it
          "publishing",  \* awaits the TaskGroup
          "acking",      \* in the finally clause: awaits the shielded ack or the hook on_round
          "yield",       \* awaits sleep(0) after a full batch
          "pause"}       \* awaits poller.wait

Run == [pc        : Place,
        claimed   : {"some", "full"},  \* result.claimed, once the claim has answered
        woken     : BOOLEAN,           \* the event was set since, or before, it began to wait
        cancel    : BOOLEAN,           \* task.cancel() was called and has not been noticed yet
        afterwake : BOOLEAN,           \* it found the pause already woken
        unwinding : BOOLEAN,           \* the finally clause runs because of a cancellation
        handles   : BOOLEAN,           \* handle_signals
        signals   : Nat,               \* signals_seen
        bysignal  : BOOLEAN,           \* cancelled_by_signal
        outcome   : {"none", "returned", "cancelled"},
        asked     : BOOLEAN,           \* history: somebody else cancelled the task
        dropped   : BOOLEAN]           \* history: and that was lost: an error, or the result of
                                       \* wait_for, took the place of CancelledError

NewRun(h) == [pc |-> "created", claimed |-> "some", woken |-> FALSE, cancel |-> FALSE,
              afterwake |-> FALSE, unwinding |-> FALSE, handles |-> h, signals |-> 0,
              bysignal |-> FALSE, outcome |-> "none", asked |-> FALSE, dropped |-> FALSE]

Manager == [st      : {"out", "body", "leaving"},
            task    : Loops \cup {NULL},
            cancel  : BOOLEAN,    \* the task in __aexit__ was cancelled
            late    : BOOLEAN,    \* it was when there was nothing to pass it on to
            outcome : {"none", "normal", "cancelled"}]

Outside == [st |-> "out", task |-> NULL, cancel |-> FALSE, late |-> FALSE, outcome |-> "none"]

Init ==
  /\ stopping = FALSE
  /\ wakeup = FALSE
  /\ interval = PollMin
  /\ handler = NULL
  /\ loop = [l \in Loops |-> [NewRun(FALSE) EXCEPT !.pc = "out"]]
  /\ manager = Outside
  /\ news = FALSE
  /\ runs = 0

Running(l) == loop[l].pc \notin {"out", "created"}

\* The task waits and nothing but its timeout, a wake-up or a cancellation will end that.
Asleep(l) == loop[l].pc = "pause" /\ ~loop[l].woken /\ ~loop[l].cancel

\* The task l goes on as r.
Goes(l, r) == loop' = [loop EXCEPT ![l] = r]

-----------------------------------------------------------------------------
(* The event of the poller.                                                *)

\* Event.set: whoever waits has been woken, even if the event is cleared before it runs.
Notify(to) ==
  /\ wakeup' = TRUE
  /\ loop' = [l \in Loops |-> [to[l] EXCEPT !.woken = to[l].woken \/ to[l].pc = "pause"]]

\* Seeded bug: wait clears the event on the way in.
PauseDeaf(l, r) == Goes(l, [r EXCEPT !.pc = "pause", !.woken = FALSE])

Pause(l, r) == Goes(l, [r EXCEPT !.pc = "pause", !.woken = wakeup])

Min2(a, b) == IF a <= b THEN a ELSE b

\* Seeded bug: the interval grows without its cap.
IdleUncapped == interval' = interval * PollFactor

Idle == interval' = Min2(interval * PollFactor, PollMax)

Busy == interval' = PollMin

-----------------------------------------------------------------------------
(* The loop.                                                               *)

\* Seeded bug: the handlers are removed only when run returns normally.
EndsKeepingHandler(l, r, how) ==
  /\ Goes(l, [r EXCEPT !.pc = "out", !.outcome = how])
  /\ handler' = IF r.handles /\ how = "returned" THEN NULL ELSE handler

\* run ends: its finally clause removes the handlers it installed, whoever owns them now.
Ends(l, r, how) ==
  /\ Goes(l, [r EXCEPT !.pc = "out", !.outcome = how])
  /\ handler' = IF r.handles THEN NULL ELSE handler

\* while not self._stopping
LoopHead(l, r) ==
  \/ stopping /\ Ends(l, r, "returned") /\ UNCHANGED news
  \/ /\ ~stopping
     /\ Goes(l, [r EXCEPT !.pc = "claiming"])
     /\ news' = FALSE
     /\ UNCHANGED handler

\* What _loop_step does after a round that claimed n.
AfterRound(l, r, n) ==
  \/ stopping /\ Ends(l, r, "returned") /\ UNCHANGED interval
  \/ ~stopping /\ n = "none" /\ Idle /\ Pause(l, r) /\ UNCHANGED handler
  \/ ~stopping /\ n = "some" /\ Busy /\ Pause(l, r) /\ UNCHANGED handler
  \/ ~stopping /\ n = "full" /\ Busy /\ Goes(l, [r EXCEPT !.pc = "yield"]) /\ UNCHANGED handler

\* CancelledError arrives in run.
Cancelled(l, r) == Ends(l, r, IF r.bysignal THEN "returned" ELSE "cancelled")

\* Task l is resumed at p, not to be cancelled.
At(l, p) == loop[l].pc = p /\ ~loop[l].cancel

Begin(l) ==
  /\ At(l, "created")
  /\ stopping' = FALSE
  /\ handler' = IF loop[l].handles THEN l ELSE handler
  /\ Goes(l, [loop[l] EXCEPT !.pc = "claiming"])
  /\ news' = FALSE
  /\ UNCHANGED <<wakeup, interval, manager, runs>>

ClaimEmpty(l) ==
  /\ At(l, "claiming")
  /\ AfterRound(l, loop[l], "none")
  /\ UNCHANGED <<stopping, wakeup, manager, news, runs>>

ClaimSome(l, n) ==
  /\ At(l, "claiming")
  /\ Goes(l, [loop[l] EXCEPT !.pc = "publishing", !.claimed = n])
  /\ UNCHANGED <<stopping, wakeup, interval, handler, manager, news, runs>>

\* The storage fails: _loop_step pauses for storage_error_delay.
ClaimRaises(l) ==
  /\ At(l, "claiming")
  /\ Pause(l, loop[l])
  /\ UNCHANGED <<stopping, wakeup, interval, handler, manager, news, runs>>

\* Every group has ended; there is an ack unless the list acked is empty.
PublishEnds(l) ==
  /\ At(l, "publishing")
  /\ \/ Goes(l, [loop[l] EXCEPT !.pc = "acking"]) /\ UNCHANGED <<interval, handler>>
     \/ AfterRound(l, loop[l], loop[l].claimed)
  /\ UNCHANGED <<stopping, wakeup, manager, news, runs>>

\* Seeded bug: the finally clause returns, which discards the cancellation.
AckOkForgetful(l) ==
  /\ At(l, "acking")
  /\ AfterRound(l, [loop[l] EXCEPT !.unwinding = FALSE], loop[l].claimed)
  /\ UNCHANGED <<stopping, wakeup, manager, news, runs>>

AckOk(l) ==
  /\ At(l, "acking")
  /\ \/ loop[l].unwinding /\ Cancelled(l, loop[l]) /\ UNCHANGED interval
     \/ ~loop[l].unwinding /\ AfterRound(l, loop[l], loop[l].claimed)
  /\ UNCHANGED <<stopping, wakeup, manager, news, runs>>

\* The error of the ack is what leaves run_once, also in place of a CancelledError.
AckRaises(l) ==
  /\ At(l, "acking")
  /\ Pause(l, [loop[l] EXCEPT !.unwinding = FALSE,
                              !.dropped = @ \/ loop[l].unwinding])
  /\ UNCHANGED <<stopping, wakeup, interval, handler, manager, news, runs>>

YieldEnds(l) ==
  /\ At(l, "yield")
  /\ LoopHead(l, loop[l])
  /\ UNCHANGED <<stopping, wakeup, interval, manager, runs>>

\* Woken or timed out; wait clears the event.
PauseEnds(l) ==
  /\ At(l, "pause")
  /\ wakeup' = FALSE
  /\ LoopHead(l, loop[l])
  /\ UNCHANGED <<stopping, interval, manager, runs>>

\* The cancellation pending in r is delivered.
Delivered(r) == [r EXCEPT !.cancel = FALSE, !.afterwake = FALSE]

\* It is delivered, and lost.
Lost(r) == [Delivered(r) EXCEPT !.dropped = TRUE]

\* CancelledError is raised where the task waits, and goes up through run.
Unwind(l, r) ==
  \/ r.pc = "created" /\ Ends(l, [r EXCEPT !.handles = FALSE], "cancelled") /\ UNCHANGED wakeup
  \/ r.pc \in {"claiming", "yield", "publishing", "acking"} /\ Cancelled(l, r) /\ UNCHANGED wakeup
  \/ /\ r.pc = "publishing"
     /\ Goes(l, [r EXCEPT !.pc = "acking", !.unwinding = TRUE])
     /\ UNCHANGED <<wakeup, handler>>
  \/ r.pc = "pause" /\ wakeup' = FALSE /\ Cancelled(l, r)

\* Seeded bug: the guard of the second signal covers run_once and not the pauses.
NoticeLeaky(l) ==
  /\ loop[l].cancel
  /\ \/ loop[l].pc # "pause" /\ Unwind(l, Delivered(loop[l]))
     \/ /\ loop[l].pc = "pause"
        /\ wakeup' = FALSE
        /\ Ends(l, Delivered(loop[l]), "cancelled")
  /\ UNCHANGED <<stopping, interval, manager, news, runs>>

Notice(l) ==
  /\ loop[l].cancel
  /\ Unwind(l, Delivered(loop[l]))
  /\ UNCHANGED <<stopping, interval, manager, news, runs>>

(***************************************************************************)
(* CancelledError was raised, and something else comes out of the await:   *)
(*   - a claim whose clean-up fails in its turn raises that error, and     *)
(*     _loop_step pauses as after any other;                               *)
(*   - a hook that raises in place of CancelledError has its error logged, *)
(*     and the round goes on from there;                                   *)
(*   - wait_for of Python 3.11 returns normally if what it waits for is    *)
(*     done, which the wake-up event is when the pause was woken first.    *)
(*     From 3.12 on it raises; the code supports both.                     *)
(***************************************************************************)
Swallow(l) ==
  /\ loop[l].cancel
  /\ LET r == Lost(loop[l])
     IN  \/ /\ r.pc = "claiming"
            /\ \/ Pause(l, r) /\ UNCHANGED <<interval, handler>>
               \/ AfterRound(l, r, "none")
               \/ /\ \E n \in {"some", "full"} :
                       Goes(l, [r EXCEPT !.pc = "publishing", !.claimed = n])
                  /\ UNCHANGED <<interval, handler>>
            /\ UNCHANGED <<wakeup, news>>
         \/ /\ r.pc = "acking" /\ ~r.unwinding
            /\ AfterRound(l, r, r.claimed)
            /\ UNCHANGED <<wakeup, news>>
         \/ /\ r.pc = "pause" /\ loop[l].afterwake
            /\ wakeup' = FALSE
            /\ LoopHead(l, r)
            /\ UNCHANGED interval
  /\ UNCHANGED <<stopping, manager, runs>>

-----------------------------------------------------------------------------
(* What others do to the relay.                                            *)

Start(l, h) ==
  /\ loop[l].pc = "out"
  /\ manager.task # l
  /\ runs < MaxRuns
  /\ runs' = runs + 1
  /\ Goes(l, NewRun(h))
  /\ UNCHANGED <<stopping, wakeup, interval, handler, manager, news>>

Wake ==
  /\ Notify(loop)
  /\ news' = TRUE
  /\ UNCHANGED <<stopping, interval, handler, manager, runs>>

\* Seeded bug: stop sets the flag and leaves the sleepers asleep.
StopSilently(to) == stopping' = TRUE /\ loop' = to /\ UNCHANGED wakeup

StopAnd(to) == stopping' = TRUE /\ Notify(to)

Stop ==
  /\ StopAnd(loop)
  /\ UNCHANGED <<interval, handler, manager, news, runs>>

\* Seeded bug: the task is never cancelled.
CancelOfNobody(r) == r

\* task.cancel(): a second one before the first is delivered adds nothing.
CancelOf(r) ==
  [r EXCEPT !.cancel = TRUE,
            !.afterwake = IF r.cancel THEN @ ELSE r.pc = "pause" /\ r.woken]

\* task.cancel() by somebody who counts on it.
AskOf(r) == [CancelOf(r) EXCEPT !.asked = TRUE, !.dropped = FALSE]

\* on_signal of the call that owns the handlers.
Signal(l) ==
  /\ handler = l
  /\ loop[l].signals < MaxSignals
  /\ LET r == [loop[l] EXCEPT !.signals = @ + 1]
     IN  \/ r.signals = 1 /\ StopAnd([loop EXCEPT ![l] = r])
         \/ /\ r.signals > 1
            /\ Goes(l, IF r.bysignal THEN r ELSE [CancelOf(r) EXCEPT !.bysignal = TRUE])
            /\ UNCHANGED <<stopping, wakeup>>
  /\ UNCHANGED <<interval, handler, manager, news, runs>>

\* Somebody cancels the task.
CancelRun(l) ==
  /\ loop[l].pc # "out"
  /\ Goes(l, AskOf(loop[l]))
  /\ UNCHANGED <<stopping, wakeup, interval, handler, manager, news, runs>>

-----------------------------------------------------------------------------
(* async with Relay(...).                                                  *)

Enter(l) ==
  /\ manager.st = "out"
  /\ loop[l].pc = "out"
  /\ runs < MaxRuns
  /\ runs' = runs + 1
  /\ Goes(l, NewRun(FALSE))
  /\ manager' = [Outside EXCEPT !.st = "body", !.task = l]
  /\ UNCHANGED <<stopping, wakeup, interval, handler, news>>

\* Seeded bug: a task that has not begun is left to reset the stop flag.
LeaveTrusting ==
  /\ manager.st = "body"
  /\ StopAnd(loop)
  /\ manager' = [manager EXCEPT !.st = "leaving"]
  /\ UNCHANGED <<interval, handler, news, runs>>

\* __aexit__ up to its await: a task that has not begun is cancelled instead.
Leave ==
  /\ manager.st = "body"
  /\ LET l == manager.task
     IN  StopAnd(IF loop[l].pc = "created"
                 THEN [loop EXCEPT ![l] = CancelOf(loop[l])] ELSE loop)
  /\ manager' = [manager EXCEPT !.st = "leaving"]
  /\ UNCHANGED <<interval, handler, news, runs>>

\* The task that awaits in __aexit__ is cancelled: its await passes that on to the relay task.
CancelLeave ==
  /\ manager.st = "leaving"
  /\ LET l == manager.task
     IN  /\ loop' = IF loop[l].pc = "out" THEN loop
                    ELSE [loop EXCEPT ![l] = AskOf(loop[l])]
         /\ manager' = [manager EXCEPT !.cancel = TRUE, !.late = @ \/ loop[l].pc = "out"]
  /\ UNCHANGED <<stopping, wakeup, interval, handler, news, runs>>

\* Seeded bug: __aexit__ suppresses every CancelledError.
LeftQuietly == "normal"

\* What __aexit__ does with a CancelledError from its await.
Left == IF manager.late \/ (loop[manager.task].outcome = "cancelled" /\ manager.cancel)
        THEN "cancelled" ELSE "normal"

LeaveEnds ==
  /\ manager.st = "leaving"
  /\ loop[manager.task].pc = "out"
  /\ manager' = [manager EXCEPT !.st = "out", !.outcome = Left, !.task = NULL]
  /\ UNCHANGED <<stopping, wakeup, interval, handler, loop, news, runs>>

-----------------------------------------------------------------------------

\* A step the event loop or the storage owes to task l.
Step(l) ==
  \/ Begin(l)
  \/ ClaimEmpty(l) \/ ClaimRaises(l) \/ \E n \in {"some", "full"} : ClaimSome(l, n)
  \/ AckOk(l) \/ AckRaises(l)
  \/ YieldEnds(l)
  \/ loop[l].woken /\ PauseEnds(l)
  \/ Notice(l) \/ Swallow(l)

Next ==
  \/ \E l \in Loops : \/ Step(l) \/ PublishEnds(l) \/ PauseEnds(l)
                      \/ \E h \in BOOLEAN : Start(l, h)
                      \/ Signal(l) \/ CancelRun(l) \/ Enter(l)
  \/ Wake \/ Stop
  \/ Leave \/ CancelLeave \/ LeaveEnds

Spec == Init /\ [][Next]_vars

(***************************************************************************)
(* The event loop resumes a task that is ready and the storage answers.    *)
(* A publish ends, by its timeout if need be, but a call that was sent a   *)
(* second signal does not count on it: the publisher may hang, timeout or  *)
(* not.  Only a call whose cancellation was lost has nothing else to end   *)
(* its round.  No property relies on a pause timing out.                   *)
(***************************************************************************)
PublishOwed(l) == (loop[l].bysignal => loop[l].dropped) /\ PublishEnds(l)

FairSpec ==
  /\ Spec
  /\ \A l \in Loops : WF_vars(Step(l)) /\ WF_vars(PublishOwed(l))
  /\ WF_vars(LeaveEnds)

-----------------------------------------------------------------------------
(* Properties.                                                             *)

TypeOK ==
  /\ stopping \in BOOLEAN
  /\ wakeup \in BOOLEAN
  /\ interval \in PollMin..PollMax
  /\ handler \in Loops \cup {NULL}
  /\ loop \in [Loops -> Run]
  /\ manager \in Manager
  /\ news \in BOOLEAN
  /\ runs \in 0..MaxRuns

(***************************************************************************)
(* wake is not lost, whenever it comes: before the pause, during it, with  *)
(* its timeout or while a round is publishing.  Until a claim has begun    *)
(* after it, a relay that runs is not asleep (poller.wait).                *)
(***************************************************************************)
WakeNotLost ==
  news /\ (\E l \in Loops : Running(l)) => \E l \in Loops : Running(l) /\ ~Asleep(l)

(***************************************************************************)
(* "Every pause is cut short by stop" (_loop_step): nobody is asleep while *)
(* the relay is stopping, also after a round that failed since.            *)
(***************************************************************************)
StopCutsPauses == stopping => \A l \in Loops : ~Asleep(l)

(***************************************************************************)
(* A second signal makes run return, it does not leak CancelledError: not  *)
(* in a round, in the ack of one, in a pause, or if somebody else cancels  *)
(* the task too.                                                           *)
(***************************************************************************)
SecondSignalQuiet ==
  \A l \in Loops : loop[l].bysignal /\ loop[l].pc = "out" => loop[l].outcome = "returned"

(***************************************************************************)
(* The handlers of run never outlive it, whichever way it ends and however *)
(* the calls that share a relay overlap: a signal is not swallowed by a    *)
(* call that is over.                                                      *)
(***************************************************************************)
HandlerAlive == handler # NULL => Running(handler)

(***************************************************************************)
(* A cancelled run claims nothing more, unless the cancellation was lost   *)
(* where the code cannot keep it: in a claim whose clean-up raises, in a   *)
(* hook or an ack that raises, or in wait_for of Python 3.11.  A round     *)
(* that publishes, the yield after a full batch and a pause that was not   *)
(* woken first never lose one, and neither does an ack that succeeds.      *)
(***************************************************************************)
CancelHonoured ==
  [][\A l \in Loops :
       loop[l].asked /\ ~loop'[l].dropped /\ loop'[l].pc = "claiming" =>
         loop[l].pc = "claiming"]_vars

(***************************************************************************)
(* Leaving the context manager raises CancelledError if the task that      *)
(* leaves was cancelled meanwhile, unless the relay task lost that         *)
(* cancellation in one of those ways.                                      *)
(***************************************************************************)
LeaveHonoursCancel ==
  [][manager.st = "leaving" /\ manager'.st = "out" /\ manager.cancel =>
       manager'.outcome = "cancelled" \/ loop[manager.task].dropped]_vars

(***************************************************************************)
(* stop ends every call of run that has begun, unless a later call resets  *)
(* the flag: no pause has to time out for it.                              *)
(***************************************************************************)
StopEnds ==
  \A l \in Loops : stopping /\ Running(l) ~> loop[l].pc = "out" \/ ~stopping

(***************************************************************************)
(* Leaving the context manager comes to an end, also if the relay task had *)
(* not begun when the body returned.                                       *)
(***************************************************************************)
LeavingEnds == manager.st = "leaving" ~> manager.st = "out"

(***************************************************************************)
(* The second signal ends run even if the publisher hangs; where its       *)
(* cancellation is lost (Swallow, AckRaises), once that round ends.        *)
(***************************************************************************)
SecondSignalEnds ==
  \A l \in Loops : loop[l].bysignal ~> loop[l].pc \in {"out", "created"}

(***************************************************************************)
(* What the tests on cancellation say of run: cancelling it ends it.  Not  *)
(* so if, for one, the ack of the round raises.                            *)
(***************************************************************************)
CancelEndsRun ==
  [][\A l \in Loops :
       loop[l].asked /\ loop'[l].pc = "claiming" => loop[l].pc = "claiming"]_vars

=============================================================================
