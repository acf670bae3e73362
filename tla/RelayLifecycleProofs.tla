------------------------ MODULE RelayLifecycleProofs ------------------------
(***************************************************************************)
(* Proofs about RelayLifecycle, for any number of calls of run sharing the *)
(* relay where nothing else is said.                                       *)
(***************************************************************************)
EXTENDS RelayLifecycle, TLAPS

(***************************************************************************)
(* The growth of the poller's interval stays within its bounds.            *)
(***************************************************************************)
LEMMA IdleBounded ==
  ASSUME NEW n \in PollMin..PollMax
  PROVE  Min2(n * PollFactor, PollMax) \in PollMin..PollMax
<1> DEFINE m == n * PollFactor
<1>1. m \in Nat /\ m >= n
  BY LifecycleAssumption DEF m
<1> HIDE DEF m
<1> QED BY <1>1, LifecycleAssumption DEF Min2

(***************************************************************************)
(* The updates of a record of Run that the actions make.                   *)
(***************************************************************************)
LEMMA RunUpdates ==
  ASSUME NEW r \in Run, NEW p \in Place, NEW b \in BOOLEAN,
         NEW n \in {"some", "full"}, NEW how \in {"returned", "cancelled"}
  PROVE  /\ [r EXCEPT !.pc = p] \in Run
         /\ [r EXCEPT !.pc = p, !.claimed = n] \in Run
         /\ [r EXCEPT !.pc = p, !.woken = b] \in Run
         /\ [r EXCEPT !.woken = b] \in Run
         /\ [r EXCEPT !.pc = p, !.unwinding = b] \in Run
         /\ [r EXCEPT !.pc = p, !.outcome = how] \in Run
         /\ [r EXCEPT !.cancel = b] \in Run
         /\ [r EXCEPT !.handles = b] \in Run
         /\ [r EXCEPT !.signals = @ + 1] \in Run
         /\ [r EXCEPT !.bysignal = b] \in Run
         /\ [r EXCEPT !.asked = b] \in Run
<1>1. [r EXCEPT !.pc = p] \in Run
  BY DEF Run
<1>2. [r EXCEPT !.pc = p, !.claimed = n] \in Run
  BY DEF Run
<1>3. [r EXCEPT !.pc = p, !.woken = b] \in Run
  BY DEF Run
<1>4. [r EXCEPT !.woken = b] \in Run
  BY DEF Run
<1>5. [r EXCEPT !.pc = p, !.unwinding = b] \in Run
  BY DEF Run
<1>6. [r EXCEPT !.pc = p, !.outcome = how] \in Run
  BY DEF Run
<1>7. [r EXCEPT !.cancel = b] \in Run
  BY DEF Run
<1>8. [r EXCEPT !.handles = b] \in Run
  BY DEF Run
<1>9. [r EXCEPT !.signals = @ + 1] \in Run
  BY DEF Run
<1>10. [r EXCEPT !.bysignal = b] \in Run
  BY DEF Run
<1>11. [r EXCEPT !.asked = b] \in Run
  BY DEF Run
<1> QED BY <1>1, <1>2, <1>3, <1>4, <1>5, <1>6, <1>7, <1>8, <1>9, <1>10, <1>11

(***************************************************************************)
(* What task.cancel() and its delivery make of a call.                     *)
(***************************************************************************)
LEMMA Cancelling ==
  ASSUME NEW r \in Run
  PROVE  LET c == CancelOf(r)
             a == AskOf(r)
         IN  /\ c \in Run /\ c.pc = r.pc /\ c.handles = r.handles
             /\ c.cancel /\ (c.woken <=> r.woken) /\ (c.bysignal <=> r.bysignal)
             /\ (c.asked <=> r.asked) /\ c.outcome = r.outcome
             /\ a \in Run /\ a.pc = r.pc /\ a.handles = r.handles
             /\ a.cancel /\ (a.woken <=> r.woken) /\ (a.bysignal <=> r.bysignal)
             /\ a.asked /\ a.outcome = r.outcome
<1> DEFINE b == IF r.cancel THEN r.afterwake ELSE r.pc = "pause" /\ r.woken
           c == [r EXCEPT !.cancel = TRUE, !.afterwake = b]
           a == [c EXCEPT !.asked = TRUE, !.dropped = FALSE]
<1>1. b \in BOOLEAN
  BY DEF Run
<1>2. CancelOf(r) = c /\ AskOf(r) = a
  BY DEF CancelOf, AskOf, Run
<1> HIDE DEF b
<1>3. /\ c \in Run /\ c.pc = r.pc /\ c.handles = r.handles
      /\ c.cancel /\ (c.woken <=> r.woken) /\ (c.bysignal <=> r.bysignal)
      /\ (c.asked <=> r.asked) /\ c.outcome = r.outcome
  BY <1>1 DEF Run
<1> HIDE DEF c
<1>4. /\ a \in Run /\ a.pc = c.pc /\ a.handles = c.handles
      /\ a.asked /\ a.outcome = c.outcome
      /\ a.cancel = c.cancel /\ a.woken = c.woken /\ a.bysignal = c.bysignal
  BY <1>3 DEF Run
<1> QED BY <1>2, <1>3, <1>4

\* A cancellation is delivered to r.
LEMMA Delivering ==
  ASSUME NEW r \in Run
  PROVE  LET d == Delivered(r)
         IN  /\ d \in Run /\ d.pc = r.pc /\ d.handles = r.handles
             /\ (d.woken <=> r.woken) /\ (d.bysignal <=> r.bysignal)
             /\ (d.asked <=> r.asked) /\ d.outcome = r.outcome
BY DEF Delivered, Run

\* And is lost.
LEMMA Losing ==
  ASSUME NEW r \in Run
  PROVE  LET x == Lost(r)
         IN  /\ x \in Run /\ x.pc = r.pc /\ x.handles = r.handles
             /\ (x.woken <=> r.woken) /\ (x.bysignal <=> r.bysignal)
             /\ (x.asked <=> r.asked) /\ x.outcome = r.outcome
             /\ x.dropped
<1> DEFINE d == Delivered(r)
<1>1. d \in Run
  BY Delivering
<1>2. Lost(r) = [d EXCEPT !.dropped = TRUE]
  BY DEF Lost
<1> HIDE DEF d
<1>3. LET x == Lost(r)
      IN  /\ x \in Run /\ x.pc = d.pc /\ x.handles = d.handles
          /\ (x.woken <=> d.woken) /\ (x.bysignal <=> d.bysignal)
          /\ (x.asked <=> d.asked) /\ x.outcome = d.outcome
          /\ x.dropped
  BY <1>1, <1>2 DEF Run
<1> QED BY <1>3, Delivering DEF d

\* The ways a call goes on after it lost a cancellation.
LEMMA Swallowing ==
  ASSUME NEW l, Swallow(l)
  PROVE  LET r == Lost(loop[l])
         IN  /\ UNCHANGED <<stopping, manager, runs>>
             /\ \/ Pause(l, r) /\ UNCHANGED <<interval, handler, wakeup, news>> /\ r.pc = "claiming"
                \/ /\ \E n : AfterRound(l, r, n)
                   /\ UNCHANGED <<wakeup, news>> /\ r.pc \in {"claiming", "acking"}
                \/ /\ \E n \in {"some", "full"} :
                        Goes(l, [r EXCEPT !.pc = "publishing", !.claimed = n])
                   /\ UNCHANGED <<interval, handler, wakeup, news>> /\ r.pc = "claiming"
                \/ /\ LoopHead(l, r) /\ wakeup' = FALSE
                   /\ UNCHANGED interval /\ r.pc = "pause"
BY DEF Swallow

\* A new call of run is typed.
LEMMA NewRunType == ASSUME NEW h \in BOOLEAN PROVE NewRun(h) \in Run
BY DEF NewRun, Run, Place

(***************************************************************************)
(* A task that goes on, ends, pauses or enters the loop keeps the types.   *)
(***************************************************************************)
LEMMA GoesType ==
  ASSUME TypeOK, NEW l \in Loops, NEW r \in Run, Goes(l, r)
  PROVE  loop' \in [Loops -> Run]
BY DEF Goes, TypeOK

\* Ends keeps the types.
LEMMA EndsType ==
  ASSUME TypeOK, NEW l \in Loops, NEW r \in Run, NEW how \in {"returned", "cancelled"},
         Ends(l, r, how)
  PROVE  loop' \in [Loops -> Run] /\ handler' \in Loops \cup {NULL}
<1>1. "out" \in Place
  BY DEF Place
<1>2. [r EXCEPT !.pc = "out", !.outcome = how] \in Run
  BY <1>1, RunUpdates
<1> QED BY <1>2, GoesType DEF Ends, TypeOK

\* Pause keeps the types.
LEMMA PauseType ==
  ASSUME TypeOK, NEW l \in Loops, NEW r \in Run, Pause(l, r)
  PROVE  loop' \in [Loops -> Run]
<1>1. "pause" \in Place /\ wakeup \in BOOLEAN
  BY DEF Place, TypeOK
<1>2. [r EXCEPT !.pc = "pause", !.woken = wakeup] \in Run
  BY <1>1, RunUpdates
<1> QED BY <1>2, GoesType DEF Pause

\* LoopHead keeps the types.
LEMMA LoopHeadType ==
  ASSUME TypeOK, NEW l \in Loops, NEW r \in Run, LoopHead(l, r)
  PROVE  /\ loop' \in [Loops -> Run]
         /\ handler' \in Loops \cup {NULL}
         /\ news' \in BOOLEAN
<1>1. CASE Ends(l, r, "returned") /\ UNCHANGED news
  BY <1>1, EndsType DEF TypeOK
<1>2. CASE Goes(l, [r EXCEPT !.pc = "claiming"]) /\ news' = FALSE /\ UNCHANGED handler
  <2>1. [r EXCEPT !.pc = "claiming"] \in Run
    BY RunUpdates DEF Place
  <2> QED BY <1>2, <2>1, GoesType DEF TypeOK
<1> QED BY <1>1, <1>2 DEF LoopHead

\* AfterRound keeps the types.
LEMMA AfterRoundType ==
  ASSUME TypeOK, NEW l \in Loops, NEW r \in Run, NEW n, AfterRound(l, r, n)
  PROVE  /\ loop' \in [Loops -> Run]
         /\ interval' \in PollMin..PollMax
         /\ handler' \in Loops \cup {NULL}
<1>1. PollMin \in PollMin..PollMax
  BY LifecycleAssumption
<1>2. Min2(interval * PollFactor, PollMax) \in PollMin..PollMax
  BY IdleBounded DEF TypeOK
<1>3. Idle \/ Busy \/ UNCHANGED interval => interval' \in PollMin..PollMax
  BY <1>1, <1>2 DEF Idle, Busy, TypeOK
<1>4. CASE Ends(l, r, "returned") /\ UNCHANGED interval
  BY <1>3, <1>4, EndsType
<1>5. CASE (Idle \/ Busy) /\ Pause(l, r) /\ UNCHANGED handler
  BY <1>3, <1>5, PauseType DEF TypeOK
<1>6. CASE Busy /\ Goes(l, [r EXCEPT !.pc = "yield"]) /\ UNCHANGED handler
  <2>1. [r EXCEPT !.pc = "yield"] \in Run
    BY RunUpdates DEF Place
  <2> QED BY <1>3, <1>6, <2>1, GoesType DEF TypeOK
<1> QED BY <1>4, <1>5, <1>6 DEF AfterRound

\* Setting the event keeps the types.
LEMMA NotifyType ==
  ASSUME NEW to \in [Loops -> Run], Notify(to)
  PROVE  loop' \in [Loops -> Run] /\ wakeup' \in BOOLEAN
<1>1. ASSUME NEW l \in Loops
      PROVE  [to[l] EXCEPT !.woken = to[l].woken \/ to[l].pc = "pause"] \in Run
  <2>1. (to[l].woken \/ to[l].pc = "pause") \in BOOLEAN
    OBVIOUS
  <2> QED BY <2>1, RunUpdates DEF Place
<1> QED BY <1>1 DEF Notify

(***************************************************************************)
(* Types are kept by every step.                                           *)
(***************************************************************************)
LEMMA TypeStep == TypeOK /\ [Next]_vars => TypeOK'
<1> SUFFICES ASSUME TypeOK, [Next]_vars PROVE TypeOK'
  OBVIOUS
<1>a. \A l \in Loops : loop[l] \in Run
  BY DEF TypeOK
<1>1. ASSUME NEW l \in Loops, Begin(l) PROVE TypeOK'
  <2>1. [loop[l] EXCEPT !.pc = "claiming"] \in Run
    BY <1>a, RunUpdates DEF Place
  <2> QED BY <1>1, <2>1, GoesType DEF Begin, TypeOK
<1>2. ASSUME NEW l \in Loops, ClaimEmpty(l) PROVE TypeOK'
  BY <1>2, <1>a, AfterRoundType DEF ClaimEmpty, TypeOK
<1>3. ASSUME NEW l \in Loops, NEW n \in {"some", "full"}, ClaimSome(l, n) PROVE TypeOK'
  <2>1. [loop[l] EXCEPT !.pc = "publishing", !.claimed = n] \in Run
    BY <1>a, RunUpdates DEF Place
  <2> QED BY <1>3, <2>1, GoesType DEF ClaimSome, TypeOK
<1>4. ASSUME NEW l \in Loops, ClaimRaises(l) PROVE TypeOK'
  BY <1>4, <1>a, PauseType DEF ClaimRaises, TypeOK
<1>5. ASSUME NEW l \in Loops, PublishEnds(l) PROVE TypeOK'
  <2>1. [loop[l] EXCEPT !.pc = "acking"] \in Run
    BY <1>a, RunUpdates DEF Place
  <2> QED BY <1>5, <1>a, <2>1, GoesType, AfterRoundType DEF PublishEnds, TypeOK
<1>6. ASSUME NEW l \in Loops, AckOk(l) PROVE TypeOK'
  BY <1>6, <1>a, AfterRoundType, EndsType DEF AckOk, Cancelled, TypeOK
<1>7. ASSUME NEW l \in Loops, AckRaises(l) PROVE TypeOK'
  <2>1. [loop[l] EXCEPT !.unwinding = FALSE, !.dropped = @ \/ loop[l].unwinding] \in Run
    BY <1>a DEF Run
  <2> QED BY <1>7, <2>1, PauseType DEF AckRaises, TypeOK
<1>8. ASSUME NEW l \in Loops, YieldEnds(l) PROVE TypeOK'
  BY <1>8, <1>a, LoopHeadType DEF YieldEnds, TypeOK
<1>9. ASSUME NEW l \in Loops, PauseEnds(l) PROVE TypeOK'
  BY <1>9, <1>a, LoopHeadType DEF PauseEnds, TypeOK
<1>s. ASSUME NEW l \in Loops, Swallow(l) PROVE TypeOK'
  <2> DEFINE r == Lost(loop[l])
  <2>1. r \in Run
    BY <1>a, Losing
  <2>2. UNCHANGED <<stopping, manager, runs>>
    BY <1>s, Swallowing
  <2>3. \/ Pause(l, r) /\ UNCHANGED <<interval, handler, wakeup, news>>
        \/ (\E n : AfterRound(l, r, n)) /\ UNCHANGED <<wakeup, news>>
        \/ /\ \E n \in {"some", "full"} :
                 Goes(l, [r EXCEPT !.pc = "publishing", !.claimed = n])
           /\ UNCHANGED <<interval, handler, wakeup, news>>
        \/ LoopHead(l, r) /\ wakeup' = FALSE /\ UNCHANGED interval
    BY <1>s, Swallowing
  <2> HIDE DEF r
  <2>4. CASE Pause(l, r) /\ UNCHANGED <<interval, handler, wakeup, news>>
    BY <2>1, <2>2, <2>4, PauseType DEF TypeOK
  <2>5. CASE (\E n : AfterRound(l, r, n)) /\ UNCHANGED <<wakeup, news>>
    BY <2>1, <2>2, <2>5, AfterRoundType DEF TypeOK
  <2>6. CASE /\ \E n \in {"some", "full"} :
                  Goes(l, [r EXCEPT !.pc = "publishing", !.claimed = n])
             /\ UNCHANGED <<interval, handler, wakeup, news>>
    <3>1. \A n \in {"some", "full"} : [r EXCEPT !.pc = "publishing", !.claimed = n] \in Run
      BY <2>1, RunUpdates DEF Place
    <3> QED BY <2>2, <2>6, <3>1, GoesType DEF TypeOK
  <2>7. CASE LoopHead(l, r) /\ wakeup' = FALSE /\ UNCHANGED interval
    BY <2>1, <2>2, <2>7, LoopHeadType DEF TypeOK
  <2> QED BY <2>3, <2>4, <2>5, <2>6, <2>7
<1>10. ASSUME NEW l \in Loops, Notice(l) PROVE TypeOK'
  <2> DEFINE r == Delivered(loop[l])
  <2>1. r \in Run
    BY <1>a, Delivering
  <2>2. [r EXCEPT !.handles = FALSE] \in Run
    BY <2>1, RunUpdates DEF Place
  <2>3. [r EXCEPT !.pc = "acking", !.unwinding = TRUE] \in Run
    BY <2>1, RunUpdates DEF Place
  <2>4. Unwind(l, r)
    BY <1>10 DEF Notice
  <2> HIDE DEF r
  <2>5. loop' \in [Loops -> Run] /\ handler' \in Loops \cup {NULL} /\ wakeup' \in BOOLEAN
    BY <2>1, <2>2, <2>3, <2>4, EndsType, GoesType DEF Unwind, Cancelled, TypeOK
  <2> QED BY <1>10, <2>5 DEF Notice, TypeOK
<1>11. ASSUME NEW l \in Loops, NEW h \in BOOLEAN, Start(l, h) PROVE TypeOK'
  BY <1>11, NewRunType, GoesType, LifecycleAssumption DEF Start, TypeOK
<1>12. ASSUME NEW l \in Loops, Enter(l) PROVE TypeOK'
  <2>1. manager' \in Manager
    BY <1>12 DEF Enter, Outside, Manager
  <2>2. NewRun(FALSE) \in Run
    BY NewRunType, FALSE \in BOOLEAN
  <2>3. loop' \in [Loops -> Run]
    BY <1>12, <2>2, GoesType DEF Enter
  <2> QED BY <1>12, <2>1, <2>3, LifecycleAssumption DEF Enter, TypeOK
<1>13. CASE Wake
  BY <1>13, NotifyType DEF Wake, TypeOK
<1>14. CASE Stop
  BY <1>14, NotifyType DEF Stop, StopAnd, TypeOK
<1>15. ASSUME NEW l \in Loops, Signal(l) PROVE TypeOK'
  <2> DEFINE r == [loop[l] EXCEPT !.signals = @ + 1]
  <2>1. r \in Run
    BY <1>a, RunUpdates DEF Place
  <2>2. CASE StopAnd([loop EXCEPT ![l] = r])
    <3>1. [loop EXCEPT ![l] = r] \in [Loops -> Run]
      BY <2>1 DEF TypeOK
    <3> HIDE DEF r
    <3> QED BY <1>15, <2>2, <3>1, NotifyType DEF Signal, StopAnd, TypeOK
  <2>3. CASE /\ Goes(l, IF r.bysignal THEN r ELSE [CancelOf(r) EXCEPT !.bysignal = TRUE])
             /\ UNCHANGED <<stopping, wakeup>>
    <3> HIDE DEF r
    <3>1. [CancelOf(r) EXCEPT !.bysignal = TRUE] \in Run
      <4>1. CancelOf(r) \in Run
        BY <2>1, Cancelling
      <4> QED BY <4>1, RunUpdates DEF Place
    <3>2. loop' \in [Loops -> Run]
      BY <2>1, <2>3, <3>1, GoesType
    <3> QED BY <1>15, <2>3, <3>2 DEF Signal, TypeOK
  <2> QED BY <1>15, <2>2, <2>3 DEF Signal
<1>b. \A l \in Loops : /\ CancelOf(loop[l]) \in Run
                       /\ AskOf(loop[l]) \in Run
  BY <1>a, Cancelling
<1>16. ASSUME NEW l \in Loops, CancelRun(l) PROVE TypeOK'
  BY <1>16, <1>b, GoesType DEF CancelRun, TypeOK
<1>17. CASE Leave
  <2> DEFINE l == manager.task
             to == IF loop[l].pc = "created" THEN [loop EXCEPT ![l] = CancelOf(loop[l])] ELSE loop
  <2>1. to \in [Loops -> Run]
    BY <1>b DEF TypeOK
  <2>2. Notify(to) /\ stopping' = TRUE
    BY <1>17 DEF Leave, StopAnd
  <2>3. manager' \in Manager
    BY <1>17 DEF Leave, Manager, TypeOK
  <2> HIDE DEF to
  <2> QED BY <1>17, <2>1, <2>2, <2>3, NotifyType DEF Leave, TypeOK
<1>18. CASE CancelLeave
  <2>1. manager' \in Manager
    BY <1>18 DEF CancelLeave, Manager, TypeOK
  <2>2. loop' \in [Loops -> Run]
    BY <1>18, <1>b DEF CancelLeave, TypeOK
  <2> QED BY <1>18, <2>1, <2>2 DEF CancelLeave, TypeOK
<1>19. CASE LeaveEnds
  <2>1. manager' \in Manager
    BY <1>19 DEF LeaveEnds, Left, TypeOK, Manager
  <2> QED BY <1>19, <2>1 DEF LeaveEnds, TypeOK
<1>20. CASE UNCHANGED vars
  BY <1>20 DEF vars, TypeOK
<1> QED BY <1>1, <1>2, <1>3, <1>4, <1>5, <1>6, <1>7, <1>8, <1>9, <1>10, <1>11, <1>12, <1>13,
           <1>14, <1>15, <1>16, <1>17, <1>18, <1>19, <1>20, <1>s DEF Next, Step

(***************************************************************************)
(* Type correctness of RelayLifecycle: in particular the poller's interval *)
(* stays between poll_min and poll_max.                                    *)
(***************************************************************************)
THEOREM LifecycleTypes == Spec => []TypeOK
<1>1. Init => TypeOK
  <2> SUFFICES ASSUME Init PROVE TypeOK
    OBVIOUS
  <2>1. [NewRun(FALSE) EXCEPT !.pc = "out"] \in Run
    <3>1. NewRun(FALSE) \in Run
      BY NewRunType, FALSE \in BOOLEAN
    <3> QED BY <3>1, RunUpdates DEF Place
  <2>2. manager \in Manager
    BY DEF Init, Outside, Manager
  <2>3. loop \in [Loops -> Run]
    <3> DEFINE r == [NewRun(FALSE) EXCEPT !.pc = "out"]
    <3>1. loop = [l \in Loops |-> r]
      BY DEF Init
    <3> HIDE DEF r
    <3> QED BY <2>1, <3>1 DEF r
  <2>4. interval \in PollMin..PollMax /\ runs \in 0..MaxRuns
    BY LifecycleAssumption DEF Init
  <2> QED BY <2>2, <2>3, <2>4 DEF Init, TypeOK
<1> QED BY <1>1, TypeStep, PTL DEF Spec

(***************************************************************************)
(* What is true of one call of run, r.  A call that a second signal        *)
(* cancelled has begun, and has returned if it is over.  One that somebody *)
(* else cancelled still has that before it, is in the finally clause       *)
(* because of it, has raised it, or has lost it.                            *)
(***************************************************************************)
Quiet(r) == r.bysignal => r.pc # "created" /\ (r.pc = "out" => r.outcome = "returned")

Heeds(r) == r.asked /\ ~r.dropped /\ r.pc # "out" =>
              r.cancel \/ (r.pc = "acking" /\ r.unwinding)

Obeys(r) == r.asked /\ ~r.dropped /\ ~r.bysignal /\ r.pc = "out" => r.outcome = "cancelled"

Good(r) == Quiet(r) /\ Heeds(r) /\ Obeys(r)

(***************************************************************************)
(* The handlers belong to a call that has begun, is not over and will      *)
(* remove them.                                                            *)
(***************************************************************************)
HandlerInv == handler # NULL => Running(handler) /\ loop[handler].handles

CallGood == HandlerInv /\ \A l \in Loops : Good(loop[l])

CallInv == TypeOK /\ CallGood

(***************************************************************************)
(* How the updates of a call bear on Good.                                 *)
(***************************************************************************)
LEMMA GoodEnds ==
  ASSUME NEW r \in Run, NEW how, Quiet(r), r.bysignal => how = "returned",
         r.asked /\ ~r.dropped /\ ~r.bysignal => how = "cancelled"
  PROVE  Good([r EXCEPT !.pc = "out", !.outcome = how])
BY DEF Good, Quiet, Heeds, Obeys, Run

\* A call without a cancellation to heed may go on anywhere.
LEMMA GoodMoves ==
  ASSUME NEW r \in Run, NEW p \in Place \ {"out", "created"}, NEW b \in BOOLEAN,
         NEW n \in {"some", "full"},
         Quiet(r), r.asked /\ ~r.dropped => r.cancel
  PROVE  /\ Good([r EXCEPT !.pc = p])
         /\ Good([r EXCEPT !.pc = p, !.woken = b])
         /\ Good([r EXCEPT !.pc = p, !.claimed = n])
<1>1. Good([r EXCEPT !.pc = p])
  BY DEF Good, Quiet, Heeds, Obeys, Run
<1>2. Good([r EXCEPT !.pc = p, !.woken = b])
  BY DEF Good, Quiet, Heeds, Obeys, Run
<1>3. Good([r EXCEPT !.pc = p, !.claimed = n])
  BY DEF Good, Quiet, Heeds, Obeys, Run
<1> QED BY <1>1, <1>2, <1>3

\* Waking, cancelling or counting a signal does no harm.
LEMMA GoodStays ==
  ASSUME NEW r \in Run, NEW b \in BOOLEAN, Good(r)
  PROVE  /\ Good([r EXCEPT !.woken = b])
         /\ Good(CancelOf(r))
         /\ r.pc # "out" => Good(AskOf(r))
         /\ Good([r EXCEPT !.signals = @ + 1])
<1>1. Good([r EXCEPT !.woken = b])
  BY DEF Good, Quiet, Heeds, Obeys, Run
<1>2. Good(CancelOf(r))
  <2> DEFINE c == CancelOf(r)
  <2>1. /\ c.pc = r.pc /\ c.cancel /\ (c.bysignal <=> r.bysignal)
        /\ (c.asked <=> r.asked) /\ c.outcome = r.outcome
    BY Cancelling
  <2>2. c.dropped <=> r.dropped
    BY DEF CancelOf, Run
  <2> QED BY <2>1, <2>2 DEF Good, Quiet, Heeds, Obeys
<1>3. r.pc # "out" => Good(AskOf(r))
  <2> DEFINE a == AskOf(r)
  <2>1. /\ a.pc = r.pc /\ a.cancel /\ (a.bysignal <=> r.bysignal) /\ a.outcome = r.outcome
    BY Cancelling
  <2> QED BY <2>1 DEF Good, Quiet, Heeds, Obeys
<1>4. Good([r EXCEPT !.signals = @ + 1])
  BY DEF Good, Quiet, Heeds, Obeys, Run
<1> QED BY <1>1, <1>2, <1>3, <1>4

\* A new call is good.
LEMMA GoodNew == ASSUME NEW h \in BOOLEAN PROVE Good(NewRun(h))
BY DEF Good, Quiet, Heeds, Obeys, NewRun

(***************************************************************************)
(* The same for the whole state, one lemma per operator of the loop.       *)
(***************************************************************************)
LEMMA CallGoes ==
  ASSUME CallInv, NEW l \in Loops, NEW r, Goes(l, r), UNCHANGED handler, Good(r),
         handler = l => r.pc \notin {"out", "created"} /\ r.handles
  PROVE  CallGood'
<1>1. loop' = [loop EXCEPT ![l] = r] /\ loop \in [Loops -> Run]
  BY DEF Goes, CallInv, TypeOK
<1>2. \A m \in Loops : Good(loop'[m])
  BY <1>1 DEF CallInv, CallGood
<1>3. HandlerInv'
  BY <1>1, LifecycleAssumption DEF CallInv, TypeOK, CallGood, HandlerInv, Running
<1> QED BY <1>2, <1>3 DEF CallGood

\* A call ends: quietly, if a second signal cancelled it.
LEMMA CallEnds ==
  ASSUME CallInv, NEW l \in Loops, NEW r \in Run, NEW how, Ends(l, r, how), Quiet(r),
         r.bysignal => how = "returned", r.asked /\ ~r.dropped /\ ~r.bysignal => how = "cancelled",
         handler = l => r.handles
  PROVE  CallGood'
<1> DEFINE x == [r EXCEPT !.pc = "out", !.outcome = how]
<1>1. Good(x)
  BY GoodEnds
<1> HIDE DEF x
<1>2. loop' = [loop EXCEPT ![l] = x] /\ loop \in [Loops -> Run]
  BY DEF Goes, Ends, CallInv, TypeOK, x
<1>3. \A m \in Loops : Good(loop'[m])
  BY <1>1, <1>2 DEF CallInv, CallGood
<1>4. handler' # NULL => handler' = handler /\ handler # l
  BY DEF Ends
<1>5. HandlerInv'
  BY <1>2, <1>4, LifecycleAssumption DEF CallInv, TypeOK, CallGood, HandlerInv, Running
<1> QED BY <1>3, <1>5 DEF CallGood

\* A call pauses.
LEMMA CallPause ==
  ASSUME CallInv, NEW l \in Loops, NEW r \in Run, Pause(l, r), UNCHANGED handler, Quiet(r),
         r.asked /\ ~r.dropped => r.cancel, handler = l => r.handles
  PROVE  CallGood'
<1> DEFINE x == [r EXCEPT !.pc = "pause", !.woken = wakeup]
<1>1. wakeup \in BOOLEAN /\ "pause" \in Place \ {"out", "created"}
  BY DEF CallInv, TypeOK, Place
<1>2. Good(x)
  BY <1>1, GoodMoves
<1>3. x.pc = "pause" /\ x.handles = r.handles
  BY DEF Run
<1>4. Goes(l, x)
  BY DEF Pause
<1> HIDE DEF x
<1> QED BY <1>2, <1>3, <1>4, CallGoes

\* A call goes on to another await.
LEMMA CallMoves ==
  ASSUME CallInv, NEW l \in Loops, NEW r \in Run, NEW p \in Place \ {"out", "created"},
         Goes(l, [r EXCEPT !.pc = p]), UNCHANGED handler, Quiet(r),
         r.asked /\ ~r.dropped => r.cancel, handler = l => r.handles
  PROVE  CallGood'
<1> DEFINE x == [r EXCEPT !.pc = p]
<1>1. Good(x)
  BY GoodMoves
<1>2. x.pc = p /\ x.handles = r.handles
  BY DEF Run
<1> HIDE DEF x
<1> QED BY <1>1, <1>2, CallGoes DEF x

\* A call comes to the head of the loop.
LEMMA CallLoopHead ==
  ASSUME CallInv, NEW l \in Loops, NEW r \in Run, LoopHead(l, r), Quiet(r),
         ~(r.asked /\ ~r.dropped), handler = l => r.handles
  PROVE  CallGood'
BY CallEnds, CallMoves DEF LoopHead, Place

\* A call has finished a round.
LEMMA CallAfterRound ==
  ASSUME CallInv, NEW l \in Loops, NEW r \in Run, NEW n, AfterRound(l, r, n), Quiet(r),
         ~(r.asked /\ ~r.dropped), handler = l => r.handles
  PROVE  CallGood'
<1>1. CASE Ends(l, r, "returned")
  BY <1>1, CallEnds
<1>2. CASE Pause(l, r) /\ UNCHANGED handler
  BY <1>2, CallPause
<1>3. CASE Goes(l, [r EXCEPT !.pc = "yield"]) /\ UNCHANGED handler
  BY <1>3, CallMoves DEF Place
<1> QED BY <1>1, <1>2, <1>3 DEF AfterRound

\* The event is set.
LEMMA CallNotify ==
  ASSUME NEW to \in [Loops -> Run], Notify(to), UNCHANGED handler, handler \in Loops \cup {NULL},
         \A l \in Loops : Good(to[l]),
         handler # NULL => to[handler].pc \notin {"out", "created"} /\ to[handler].handles
  PROVE  CallGood'
<1> DEFINE x(l) == [to[l] EXCEPT !.woken = to[l].woken \/ to[l].pc = "pause"]
<1>1. ASSUME NEW l \in Loops
      PROVE  Good(x(l)) /\ x(l).pc = to[l].pc /\ x(l).handles = to[l].handles
  <2>1. (to[l].woken \/ to[l].pc = "pause") \in BOOLEAN /\ to[l] \in Run
    OBVIOUS
  <2>2. Good(x(l))
    BY <2>1, GoodStays
  <2>3. x(l).pc = to[l].pc /\ x(l).handles = to[l].handles
    BY <2>1 DEF Run
  <2> QED BY <2>2, <2>3
<1>2. \A l \in Loops : loop'[l] = x(l)
  BY DEF Notify
<1> HIDE DEF x
<1> QED BY <1>1, <1>2 DEF CallGood, HandlerInv, Running

(***************************************************************************)
(* CallInv is kept by every step.                                          *)
(***************************************************************************)
LEMMA CallStep == CallInv /\ [Next]_vars => CallInv'
<1> SUFFICES ASSUME CallInv, [Next]_vars PROVE CallGood'
  BY TypeStep DEF CallInv
<1>a. ASSUME NEW l \in Loops
      PROVE  loop[l] \in Run /\ Good(loop[l]) /\ Quiet(loop[l])
  BY DEF CallInv, CallGood, TypeOK, Good
<1>b. ASSUME NEW l \in Loops PROVE handler = l => Running(l) /\ loop[l].handles
  BY LifecycleAssumption DEF CallInv, CallGood, HandlerInv
<1>c. ASSUME NEW l \in Loops, ~loop[l].cancel, ~(loop[l].pc = "acking" /\ loop[l].unwinding),
             loop[l].pc # "out"
      PROVE  ~(loop[l].asked /\ ~loop[l].dropped)
  BY <1>a, <1>c DEF Good, Heeds
<1>1. ASSUME NEW l \in Loops, Begin(l) PROVE CallGood'
  <2> DEFINE x == [loop[l] EXCEPT !.pc = "claiming"]
  <2>1. Good(x)
    BY <1>1, <1>a, <1>c, GoodMoves DEF Begin, At, Place
  <2>2. x.pc = "claiming" /\ x.handles = loop[l].handles
    BY <1>a DEF Run
  <2>3. loop' = [loop EXCEPT ![l] = x] /\ loop \in [Loops -> Run]
    BY <1>1 DEF Begin, Goes, CallInv, TypeOK
  <2> HIDE DEF x
  <2>4. \A m \in Loops : Good(loop'[m])
    BY <2>1, <2>3, <1>a
  <2>5. (handler' = l /\ loop[l].handles) \/ handler' = handler
    BY <1>1 DEF Begin
  <2>6. HandlerInv'
    BY <2>2, <2>3, <2>5, LifecycleAssumption DEF CallInv, CallGood, TypeOK, HandlerInv, Running
  <2> QED BY <2>4, <2>6 DEF CallGood
<1>2. ASSUME NEW l \in Loops, ClaimEmpty(l) PROVE CallGood'
  BY <1>2, <1>a, <1>b, <1>c, CallAfterRound DEF ClaimEmpty, At
<1>3. ASSUME NEW l \in Loops, NEW n \in {"some", "full"}, ClaimSome(l, n) PROVE CallGood'
  <2> DEFINE x == [loop[l] EXCEPT !.pc = "publishing", !.claimed = n]
  <2>1. Good(x)
    BY <1>3, <1>a, <1>c, GoodMoves DEF ClaimSome, At, Place
  <2>2. x.pc = "publishing" /\ x.handles = loop[l].handles
    BY <1>a DEF Run
  <2>3. Goes(l, x) /\ UNCHANGED handler
    BY <1>3 DEF ClaimSome
  <2> HIDE DEF x
  <2> QED BY <2>1, <2>2, <2>3, <1>b, CallGoes
<1>4. ASSUME NEW l \in Loops, ClaimRaises(l) PROVE CallGood'
  BY <1>4, <1>a, <1>b, <1>c, CallPause DEF ClaimRaises, At
<1>5. ASSUME NEW l \in Loops, PublishEnds(l) PROVE CallGood'
  <2>1. CASE Goes(l, [loop[l] EXCEPT !.pc = "acking"]) /\ UNCHANGED handler
    BY <1>5, <2>1, <1>a, <1>b, <1>c, CallMoves DEF PublishEnds, At, Place
  <2>2. CASE AfterRound(l, loop[l], loop[l].claimed)
    BY <1>5, <2>2, <1>a, <1>b, <1>c, CallAfterRound DEF PublishEnds, At
  <2> QED BY <1>5, <2>1, <2>2 DEF PublishEnds
<1>6. ASSUME NEW l \in Loops, AckOk(l) PROVE CallGood'
  <2>1. CASE Cancelled(l, loop[l])
    BY <2>1, <1>a, <1>b, CallEnds DEF Cancelled
  <2>2. CASE ~loop[l].unwinding /\ AfterRound(l, loop[l], loop[l].claimed)
    BY <1>6, <2>2, <1>a, <1>b, <1>c, CallAfterRound DEF AckOk, At
  <2> QED BY <1>6, <2>1, <2>2 DEF AckOk
<1>7. ASSUME NEW l \in Loops, AckRaises(l) PROVE CallGood'
  <2> DEFINE x == [loop[l] EXCEPT !.unwinding = FALSE, !.dropped = @ \/ loop[l].unwinding]
  <2>1. x \in Run
    BY <1>a DEF Run
  <2>2. x.handles = loop[l].handles /\ (x.asked <=> loop[l].asked)
    BY <1>a DEF Run
  <2>3. Quiet(x)
    BY <1>a DEF Run, Quiet
  <2>4. x.dropped <=> loop[l].dropped \/ loop[l].unwinding
    BY <1>a DEF Run
  <2>5. ~(x.asked /\ ~x.dropped)
    BY <1>7, <1>c, <2>2, <2>4 DEF AckRaises, At
  <2>6. Pause(l, x) /\ UNCHANGED handler
    BY <1>7 DEF AckRaises
  <2> HIDE DEF x
  <2> QED BY <2>1, <2>2, <2>3, <2>5, <2>6, <1>b, CallPause
<1>8. ASSUME NEW l \in Loops, YieldEnds(l) PROVE CallGood'
  BY <1>8, <1>a, <1>b, <1>c, CallLoopHead DEF YieldEnds, At
<1>9. ASSUME NEW l \in Loops, PauseEnds(l) PROVE CallGood'
  BY <1>9, <1>a, <1>b, <1>c, CallLoopHead DEF PauseEnds, At
<1>s. ASSUME NEW l \in Loops, Swallow(l) PROVE CallGood'
  <2> DEFINE r == Lost(loop[l])
  <2>1. /\ r \in Run /\ r.pc = loop[l].pc /\ r.handles = loop[l].handles
        /\ (r.bysignal <=> loop[l].bysignal) /\ r.outcome = loop[l].outcome /\ r.dropped
    BY <1>a, Losing
  <2>2. \/ Pause(l, r) /\ UNCHANGED handler
        \/ \E n : AfterRound(l, r, n)
        \/ /\ \E n \in {"some", "full"} :
                 Goes(l, [r EXCEPT !.pc = "publishing", !.claimed = n])
           /\ UNCHANGED handler
        \/ LoopHead(l, r)
    BY <1>s, Swallowing
  <2> HIDE DEF r
  <2>3. Quiet(r)
    BY <2>1, <1>a DEF Quiet
  <2>4. ASSUME NEW n \in {"some", "full"}, UNCHANGED handler,
               Goes(l, [r EXCEPT !.pc = "publishing", !.claimed = n])
        PROVE  CallGood'
    <3> DEFINE x == [r EXCEPT !.pc = "publishing", !.claimed = n]
    <3>1. Good(x)
      BY <2>1, <2>3, GoodMoves DEF Place
    <3>2. x.pc = "publishing" /\ x.handles = r.handles
      BY <2>1 DEF Run
    <3> HIDE DEF x
    <3> QED BY <2>1, <2>4, <3>1, <3>2, <1>b, CallGoes DEF x
  <2> QED BY <2>1, <2>2, <2>3, <2>4, <1>b, CallPause, CallAfterRound, CallLoopHead
<1>10. ASSUME NEW l \in Loops, Notice(l) PROVE CallGood'
  <2> DEFINE r == Delivered(loop[l])
  <2>1. r \in Run
    BY <1>a, Delivering
  <2>2. /\ r.pc = loop[l].pc /\ r.handles = loop[l].handles /\ r.outcome = loop[l].outcome
        /\ (r.bysignal <=> loop[l].bysignal)
    BY <1>a, Delivering
  <2>3. Quiet(r)
    BY <2>2, <1>a DEF Quiet
  <2>4. Unwind(l, r)
    BY <1>10 DEF Notice
  <2> HIDE DEF r
  <2>5. CASE r.pc = "created" /\ Ends(l, [r EXCEPT !.handles = FALSE], "cancelled")
    <3> DEFINE x == [r EXCEPT !.handles = FALSE]
    <3>1. x \in Run
      BY <2>1, RunUpdates DEF Place
    <3>2. Quiet(x) /\ ~x.bysignal
      BY <2>1, <2>3, <2>5 DEF Run, Quiet
    <3>3. handler # l
      BY <2>2, <2>5, <1>b DEF Running
    <3> HIDE DEF x
    <3> QED BY <2>5, <3>1, <3>2, <3>3, CallEnds DEF x
  <2>6. CASE Cancelled(l, r)
    BY <2>1, <2>2, <2>3, <2>6, <1>b, CallEnds DEF Cancelled
  <2>7. CASE Goes(l, [r EXCEPT !.pc = "acking", !.unwinding = TRUE]) /\ UNCHANGED handler
    <3> DEFINE x == [r EXCEPT !.pc = "acking", !.unwinding = TRUE]
    <3>1. Good(x)
      BY <2>1, <2>3 DEF Run, Good, Quiet, Heeds, Obeys
    <3>2. x.pc = "acking" /\ x.handles = r.handles
      BY <2>1 DEF Run
    <3> HIDE DEF x
    <3> QED BY <2>2, <2>7, <3>1, <3>2, <1>b, CallGoes DEF x
  <2> QED BY <2>4, <2>5, <2>6, <2>7 DEF Unwind
<1>d. ASSUME NEW l \in Loops, NEW h \in BOOLEAN, loop[l].pc = "out", Goes(l, NewRun(h)),
             UNCHANGED handler
      PROVE  CallGood'
  BY <1>d, <1>b, GoodNew, CallGoes DEF Running
<1>11. ASSUME NEW l \in Loops, NEW h \in BOOLEAN, Start(l, h) PROVE CallGood'
  BY <1>11, <1>d DEF Start
<1>12. ASSUME NEW l \in Loops, Enter(l) PROVE CallGood'
  BY <1>12, <1>d, FALSE \in BOOLEAN DEF Enter
<1>e. /\ loop \in [Loops -> Run]
      /\ handler \in Loops \cup {NULL}
      /\ handler # NULL => loop[handler].pc \notin {"out", "created"} /\ loop[handler].handles
  BY DEF CallInv, CallGood, TypeOK, HandlerInv, Running
<1>13. CASE Wake
  BY <1>13, <1>a, <1>e, CallNotify DEF Wake
<1>14. CASE Stop
  BY <1>14, <1>a, <1>e, CallNotify DEF Stop, StopAnd
<1>15. ASSUME NEW l \in Loops, Signal(l) PROVE CallGood'
  <2> DEFINE r == [loop[l] EXCEPT !.signals = @ + 1]
             to == [loop EXCEPT ![l] = r]
             x == IF r.bysignal THEN r ELSE [CancelOf(r) EXCEPT !.bysignal = TRUE]
  <2>1. r \in Run /\ Good(r)
    BY <1>a, RunUpdates, GoodStays DEF Place
  <2>2. r.pc = loop[l].pc /\ r.handles = loop[l].handles
    BY <1>a DEF Run
  <2>3. handler = l /\ Running(l) /\ UNCHANGED handler
    BY <1>15, <1>b DEF Signal
  <2>4. CASE StopAnd(to)
    <3>1. to \in [Loops -> Run] /\ (\A m \in Loops : Good(to[m])) /\ to[l] = r
      BY <2>1, <1>a, <1>e
    <3>2. Notify(to)
      BY <2>4 DEF StopAnd
    <3> HIDE DEF to, r
    <3> QED BY <2>2, <2>3, <3>1, <3>2, <1>b, <1>e, CallNotify DEF Running
  <2>5. CASE Goes(l, x)
    <3> HIDE DEF r
    <3> DEFINE c == CancelOf(r)
    <3>1. c \in Run /\ Good(c) /\ c.pc = r.pc /\ c.handles = r.handles
      BY <2>1, Cancelling, GoodStays
    <3> HIDE DEF c
    <3>2. Good([c EXCEPT !.bysignal = TRUE])
      BY <3>1, <2>2, <2>3 DEF Run, Good, Quiet, Heeds, Obeys, Running
    <3>3. [c EXCEPT !.bysignal = TRUE].pc = r.pc /\ [c EXCEPT !.bysignal = TRUE].handles = r.handles
      BY <3>1 DEF Run
    <3>4. Good(x) /\ x.pc = r.pc /\ x.handles = r.handles
      BY <2>1, <3>2, <3>3 DEF c
    <3> HIDE DEF x
    <3> QED BY <2>2, <2>3, <2>5, <3>4, <1>b, CallGoes DEF Running
  <2> QED BY <1>15, <2>4, <2>5 DEF Signal
<1>f. ASSUME NEW l \in Loops
      PROVE  LET c == CancelOf(loop[l])
                 a == AskOf(loop[l])
             IN  /\ c \in Run /\ c.pc = loop[l].pc /\ c.handles = loop[l].handles /\ Good(c)
                 /\ a \in Run /\ a.pc = loop[l].pc /\ a.handles = loop[l].handles
                 /\ loop[l].pc # "out" => Good(a)
  BY <1>a, Cancelling, GoodStays
<1>16. ASSUME NEW l \in Loops, CancelRun(l) PROVE CallGood'
  <2> DEFINE x == AskOf(loop[l])
  <2>1. Good(x) /\ x.pc = loop[l].pc /\ x.handles = loop[l].handles
    BY <1>16, <1>f DEF CancelRun
  <2>2. Goes(l, x) /\ UNCHANGED handler
    BY <1>16 DEF CancelRun
  <2> HIDE DEF x
  <2> QED BY <2>1, <2>2, <1>b, CallGoes DEF Running
<1>17. CASE Leave
  <2> DEFINE l == manager.task
             c == CancelOf(loop[l])
             to == IF loop[l].pc = "created" THEN [loop EXCEPT ![l] = c] ELSE loop
  <2>1. l \in Loops => c \in Run /\ c.pc = loop[l].pc /\ c.handles = loop[l].handles /\ Good(c)
    BY <1>f
  <2>2. StopAnd(to) /\ UNCHANGED handler
    BY <1>17 DEF Leave
  <2> HIDE DEF c
  <2>3. to \in [Loops -> Run] /\ \A m \in Loops : Good(to[m])
    BY <2>1, <1>a, <1>e
  <2>4. handler # NULL => to[handler].pc \notin {"out", "created"} /\ to[handler].handles
    BY <2>1, <1>e
  <2> HIDE DEF to
  <2> QED BY <2>2, <2>3, <2>4, <1>e, CallNotify DEF StopAnd
<1>18. CASE CancelLeave
  <2> DEFINE l == manager.task
             x == AskOf(loop[l])
  <2>1. l \in Loops => /\ loop[l].pc # "out" => Good(x)
                       /\ x.pc = loop[l].pc /\ x.handles = loop[l].handles
    BY <1>f
  <2>2. loop' = (IF loop[l].pc = "out" THEN loop ELSE [loop EXCEPT ![l] = x]) /\ UNCHANGED handler
    BY <1>18 DEF CancelLeave
  <2> HIDE DEF x
  <2>3. \A m \in Loops : Good(loop'[m])
    BY <2>1, <2>2, <1>a, <1>e
  <2>4. HandlerInv'
    BY <2>1, <2>2, <1>e, LifecycleAssumption DEF HandlerInv, Running
  <2> QED BY <2>3, <2>4 DEF CallGood
<1>19. CASE LeaveEnds
  BY <1>19 DEF LeaveEnds, CallInv, CallGood, HandlerInv, Running
<1>20. CASE UNCHANGED vars
  BY <1>20 DEF vars, CallInv, CallGood, HandlerInv, Running
<1> QED BY <1>1, <1>2, <1>3, <1>4, <1>5, <1>6, <1>7, <1>8, <1>9, <1>10, <1>11, <1>12, <1>13,
           <1>14, <1>15, <1>16, <1>17, <1>18, <1>19, <1>20, <1>s DEF Next, Step

(***************************************************************************)
(* CallInv holds in every behaviour.                                       *)
(***************************************************************************)
THEOREM CallInvariant == Spec => []CallInv
<1>1. Init => CallGood
  <2> SUFFICES ASSUME Init PROVE CallGood
    OBVIOUS
  <2>1. \A l \in Loops : Good(loop[l])
    BY DEF Init, NewRun, Good, Quiet, Heeds, Obeys
  <2> QED BY <2>1 DEF Init, CallGood, HandlerInv
<1>2. Spec => []TypeOK
  BY LifecycleTypes
<1>3. TypeOK /\ CallGood => CallInv
  BY DEF CallInv
<1> QED BY <1>1, <1>2, <1>3, CallStep, PTL DEF Spec

(***************************************************************************)
(* A second signal never leaks CancelledError out of run.                  *)
(***************************************************************************)
THEOREM SecondSignalIsQuiet == Spec => []SecondSignalQuiet
<1>1. CallInv => SecondSignalQuiet
  BY DEF CallInv, CallGood, Good, Quiet, SecondSignalQuiet
<1> QED BY <1>1, CallInvariant, PTL

(***************************************************************************)
(* The signal handlers never outlive the call of run they belong to.       *)
(***************************************************************************)
THEOREM HandlerIsAlive == Spec => []HandlerAlive
<1>1. CallInv => HandlerAlive
  BY DEF CallInv, CallGood, HandlerInv, HandlerAlive
<1> QED BY <1>1, CallInvariant, PTL

(***************************************************************************)
(* Where a call is after it was updated.                                   *)
(***************************************************************************)
LEMMA PlaceAfter ==
  ASSUME TypeOK, NEW l \in Loops, NEW m \in Loops, NEW x, Goes(m, x)
  PROVE  loop'[l].pc = IF l = m THEN x.pc ELSE loop[l].pc
BY DEF Goes, TypeOK

\* Setting the event moves nobody.
LEMMA PlaceNotified ==
  ASSUME NEW to \in [Loops -> Run], Notify(to), NEW l \in Loops
  PROVE  loop'[l].pc = to[l].pc
<1>1. to[l] \in Run
  OBVIOUS
<1>2. loop'[l] = [to[l] EXCEPT !.woken = to[l].woken \/ to[l].pc = "pause"]
  BY DEF Notify
<1> QED BY <1>1, <1>2 DEF Run

\* Ends moves its call out.
LEMMA PlaceEnds ==
  ASSUME TypeOK, NEW l \in Loops, NEW m \in Loops, NEW r \in Run, NEW how, Ends(m, r, how)
  PROVE  loop'[l].pc = IF l = m THEN "out" ELSE loop[l].pc
<1>1. [r EXCEPT !.pc = "out", !.outcome = how].pc = "out"
  BY DEF Run
<1> QED BY <1>1, PlaceAfter DEF Ends

\* A move moves its call only.
LEMMA PlaceMoves ==
  ASSUME TypeOK, NEW l \in Loops, NEW m \in Loops, NEW r \in Run, NEW p,
         Goes(m, [r EXCEPT !.pc = p])
  PROVE  loop'[l].pc = IF l = m THEN p ELSE loop[l].pc
<1>1. [r EXCEPT !.pc = p].pc = p
  BY DEF Run
<1> QED BY <1>1, PlaceAfter

\* Pause moves its call only.
LEMMA PlacePause ==
  ASSUME TypeOK, NEW l \in Loops, NEW m \in Loops, NEW r \in Run, Pause(m, r)
  PROVE  loop'[l].pc = IF l = m THEN "pause" ELSE loop[l].pc
<1>1. [r EXCEPT !.pc = "pause", !.woken = wakeup].pc = "pause"
  BY DEF Run
<1> QED BY <1>1, PlaceAfter DEF Pause

\* Nobody comes to claim right after a round.
LEMMA PlaceAfterRound ==
  ASSUME TypeOK, NEW l \in Loops, NEW m \in Loops, NEW r \in Run, NEW n, AfterRound(m, r, n),
         loop'[l].pc = "claiming"
  PROVE  loop[l].pc = "claiming"
BY PlaceEnds, PlaceMoves, PlacePause DEF AfterRound

\* A call that goes on has lost a cancellation if it had when it went on.
LEMMA LostAfter ==
  ASSUME TypeOK, NEW l \in Loops, NEW m \in Loops, NEW r \in Run, NEW p,
         Goes(m, [r EXCEPT !.pc = p])
  PROVE  loop'[l].dropped <=> IF l = m THEN r.dropped ELSE loop[l].dropped
<1>1. [r EXCEPT !.pc = p].dropped <=> r.dropped
  BY DEF Run
<1>2. loop'[l] = IF l = m THEN [r EXCEPT !.pc = p] ELSE loop[l]
  BY DEF Goes, TypeOK
<1> QED BY <1>1, <1>2

(***************************************************************************)
(* A call that comes to claim has lost a cancellation, or was created,     *)
(* yielded or paused before, and was not to be cancelled.                  *)
(***************************************************************************)
LEMMA ComesToClaim ==
  ASSUME TypeOK, [Next]_vars, NEW l \in Loops, loop[l].pc # "claiming", loop'[l].pc = "claiming"
  PROVE  \/ loop'[l].dropped
         \/ ~loop[l].dropped /\ ~loop[l].cancel /\ loop[l].pc \in {"created", "yield", "pause"}
<1>a. \A m \in Loops : loop[m] \in Run
  BY DEF TypeOK
<1>s. ASSUME NEW m \in Loops, Swallow(m) PROVE loop'[l].dropped
  <2> DEFINE r == Lost(loop[m])
  <2>1. r \in Run /\ r.dropped
    BY <1>a, Losing
  <2>2. \/ Pause(m, r)
        \/ \E n : AfterRound(m, r, n)
        \/ \E n \in {"some", "full"} : Goes(m, [r EXCEPT !.pc = "publishing", !.claimed = n])
        \/ LoopHead(m, r)
    BY <1>s, Swallowing
  <2> HIDE DEF r
  <2>3. ~Pause(m, r) /\ ~(\E n : AfterRound(m, r, n))
    BY <2>1, PlacePause, PlaceAfterRound
  <2>4. ASSUME NEW n \in {"some", "full"} PROVE ~Goes(m, [r EXCEPT !.pc = "publishing", !.claimed = n])
    <3>1. [r EXCEPT !.pc = "publishing", !.claimed = n].pc = "publishing"
      BY <2>1 DEF Run
    <3> QED BY <3>1, PlaceAfter
  <2>5. LoopHead(m, r)
    BY <2>2, <2>3, <2>4
  <2>6. ~Ends(m, r, "returned")
    BY <2>1, PlaceEnds
  <2>7. Goes(m, [r EXCEPT !.pc = "claiming"])
    BY <2>5, <2>6 DEF LoopHead
  <2>8. l = m
    BY <2>1, <2>7, PlaceMoves
  <2> QED BY <2>1, <2>7, <2>8, LostAfter
<1>1. ASSUME NEW m \in Loops, Begin(m) \/ YieldEnds(m) \/ PauseEnds(m)
      PROVE  /\ ~loop[l].cancel /\ loop[l].pc \in {"created", "yield", "pause"}
             /\ loop'[l].dropped <=> loop[l].dropped
  <2>1. CASE Begin(m)
    BY <2>1, <1>a, PlaceMoves, LostAfter DEF Begin, At
  <2>2. CASE YieldEnds(m)
    BY <2>2, <1>a, PlaceMoves, PlaceEnds, LostAfter DEF YieldEnds, LoopHead, At
  <2>3. CASE PauseEnds(m)
    BY <2>3, <1>a, PlaceMoves, PlaceEnds, LostAfter DEF PauseEnds, LoopHead, At
  <2> QED BY <1>1, <2>1, <2>2, <2>3
<1>2. ASSUME NEW m \in Loops, ClaimEmpty(m) \/ PublishEnds(m) \/ AckOk(m) PROVE FALSE
  <2>1. ~AfterRound(m, loop[m], "none") /\ ~AfterRound(m, loop[m], loop[m].claimed)
    BY <1>a, PlaceAfterRound
  <2>2. ~Goes(m, [loop[m] EXCEPT !.pc = "acking"])
    BY <1>a, PlaceMoves
  <2>3. ~Cancelled(m, loop[m])
    BY <1>a, PlaceEnds DEF Cancelled
  <2> QED BY <1>2, <2>1, <2>2, <2>3 DEF ClaimEmpty, PublishEnds, AckOk
<1>3. ASSUME NEW m \in Loops, ClaimRaises(m) \/ AckRaises(m) PROVE FALSE
  <2> DEFINE x == [loop[m] EXCEPT !.unwinding = FALSE, !.dropped = @ \/ loop[m].unwinding]
  <2>1. x \in Run
    BY <1>a DEF Run
  <2>2. Pause(m, loop[m]) \/ Pause(m, x)
    BY <1>3 DEF ClaimRaises, AckRaises
  <2> HIDE DEF x
  <2> QED BY <1>a, <2>1, <2>2, PlacePause
<1>4. ASSUME NEW m \in Loops, NEW n \in {"some", "full"}, ClaimSome(m, n) PROVE FALSE
  <2>1. [loop[m] EXCEPT !.pc = "publishing", !.claimed = n].pc = "publishing"
    BY <1>a DEF Run
  <2> QED BY <1>4, <2>1, PlaceAfter DEF ClaimSome
<1>5. ASSUME NEW m \in Loops, Notice(m) PROVE FALSE
  <2> DEFINE r == Delivered(loop[m])
  <2>1. r \in Run
    BY <1>a, Delivering
  <2>2. [r EXCEPT !.handles = FALSE] \in Run
    BY <2>1 DEF Run
  <2>3. [r EXCEPT !.pc = "acking", !.unwinding = TRUE].pc = "acking"
    BY <2>1 DEF Run
  <2>4. Unwind(m, r)
    BY <1>5 DEF Notice
  <2> HIDE DEF r
  <2>5. ~Cancelled(m, r) /\ ~Ends(m, [r EXCEPT !.handles = FALSE], "cancelled")
    BY <2>1, <2>2, PlaceEnds DEF Cancelled
  <2>6. ~Goes(m, [r EXCEPT !.pc = "acking", !.unwinding = TRUE])
    BY <2>3, PlaceAfter
  <2> QED BY <2>4, <2>5, <2>6 DEF Unwind
<1>6. ASSUME NEW m \in Loops, NEW h \in BOOLEAN, Start(m, h) \/ Enter(m) PROVE FALSE
  <2>1. NewRun(h).pc = "created" /\ NewRun(FALSE).pc = "created"
    BY DEF NewRun
  <2>2. Goes(m, NewRun(h)) \/ Goes(m, NewRun(FALSE))
    BY <1>6 DEF Start, Enter
  <2> QED BY <2>1, <2>2, PlaceAfter
<1>7. ASSUME Wake \/ Stop PROVE FALSE
  <2>1. Notify(loop) /\ loop \in [Loops -> Run]
    BY <1>7 DEF Wake, Stop, StopAnd, TypeOK
  <2> QED BY <2>1, PlaceNotified
<1>8. ASSUME NEW m \in Loops, Signal(m) PROVE FALSE
  <2> DEFINE r == [loop[m] EXCEPT !.signals = @ + 1]
             to == [loop EXCEPT ![m] = r]
             x == IF r.bysignal THEN r ELSE [CancelOf(r) EXCEPT !.bysignal = TRUE]
  <2>1. r \in Run /\ r.pc = loop[m].pc
    BY <1>a DEF Run
  <2>2. CASE StopAnd(to)
    <3>1. to \in [Loops -> Run] /\ to[l].pc = loop[l].pc
      BY <2>1 DEF TypeOK
    <3> HIDE DEF to
    <3> QED BY <2>2, <3>1, PlaceNotified DEF StopAnd
  <2>3. CASE Goes(m, x)
    <3> HIDE DEF r
    <3> DEFINE c == CancelOf(r)
    <3>c. c \in Run /\ c.pc = r.pc
      BY <2>1, Cancelling
    <3> HIDE DEF c
    <3>b. [c EXCEPT !.bysignal = TRUE].pc = r.pc
      BY <3>c DEF Run
    <3>1. x.pc = r.pc
      BY <3>b DEF c
    <3> HIDE DEF x
    <3> QED BY <2>1, <2>3, <3>1, PlaceAfter
  <2> QED BY <1>8, <2>2, <2>3 DEF Signal
<1>b. \A m \in Loops : /\ CancelOf(loop[m]) \in Run
                       /\ CancelOf(loop[m]).pc = loop[m].pc
                       /\ AskOf(loop[m]).pc = loop[m].pc
  BY <1>a, Cancelling
<1>9. ASSUME NEW m \in Loops, CancelRun(m) PROVE FALSE
  BY <1>9, <1>b, PlaceAfter DEF CancelRun
<1>10. ASSUME Leave PROVE FALSE
  <2> DEFINE m == manager.task
             to == IF loop[m].pc = "created" THEN [loop EXCEPT ![m] = CancelOf(loop[m])] ELSE loop
  <2>1. to \in [Loops -> Run] /\ to[l].pc = loop[l].pc
    BY <1>b DEF TypeOK
  <2>2. Notify(to)
    BY <1>10 DEF Leave, StopAnd
  <2> HIDE DEF to
  <2> QED BY <2>1, <2>2, PlaceNotified
<1>11. ASSUME CancelLeave PROVE FALSE
  BY <1>11, <1>b DEF CancelLeave, TypeOK
<1>12. ASSUME LeaveEnds \/ UNCHANGED vars PROVE FALSE
  BY <1>12 DEF LeaveEnds, vars
<1> QED BY <1>1, <1>2, <1>3, <1>4, <1>5, <1>6, <1>7, <1>8, <1>9, <1>10, <1>11, <1>12,
           <1>s DEF Next, Step

(***************************************************************************)
(* Cancelling run ends its claims, unless the cancellation is lost in a    *)
(* claim, a hook, an ack or a wait_for that put something in its place.    *)
(***************************************************************************)
THEOREM CancelIsHonoured == Spec => CancelHonoured
<1> DEFINE A(l) == loop[l].asked /\ ~loop'[l].dropped /\ loop'[l].pc = "claiming" =>
                     loop[l].pc = "claiming"
<1>1. ASSUME CallInv, [Next]_vars, NEW l \in Loops PROVE A(l)
  <2>1. Heeds(loop[l]) /\ TypeOK
    BY <1>1 DEF CallInv, CallGood, Good
  <2> QED BY <1>1, <2>1, ComesToClaim DEF Heeds
<1>2. CallInv /\ [Next]_vars => [\A l \in Loops : A(l)]_vars
  BY <1>1
<1> QED BY <1>2, CallInvariant, PTL DEF Spec, CancelHonoured

(***************************************************************************)
(* x is a call like r, seen from outside: still asked to end, without      *)
(* handlers and without a second signal if r had none.                     *)
(***************************************************************************)
Like(x, r) == /\ r.asked => x.asked
              /\ x.handles => r.handles
              /\ x.bysignal => r.bysignal

\* The updates of a call that do not change what Like looks at.
LEMMA LikeUpdates ==
  ASSUME NEW r \in Run, NEW p, NEW b, NEW how, NEW n
  PROVE  /\ Like(r, r)
         /\ Like([r EXCEPT !.pc = p, !.outcome = how], r)
         /\ Like([r EXCEPT !.pc = p, !.woken = b], r)
         /\ Like([r EXCEPT !.pc = p, !.claimed = n], r)
         /\ Like([r EXCEPT !.pc = p], r)
         /\ Like([r EXCEPT !.woken = b], r)
         /\ Like(Delivered(r), r)
         /\ Like(Lost(r), r)
         /\ Like([r EXCEPT !.pc = p, !.unwinding = b], r)
         /\ Like([r EXCEPT !.handles = FALSE], r)
         /\ Like(CancelOf(r), r)
         /\ Like(AskOf(r), r)
<1>1. /\ Like(r, r)
      /\ Like([r EXCEPT !.pc = p, !.outcome = how], r)
      /\ Like([r EXCEPT !.pc = p, !.woken = b], r)
  BY DEF Like, Run
<1>2. /\ Like([r EXCEPT !.pc = p, !.claimed = n], r)
      /\ Like([r EXCEPT !.pc = p], r)
      /\ Like([r EXCEPT !.woken = b], r)
  BY DEF Like, Run
<1>3. /\ Like([r EXCEPT !.pc = p, !.unwinding = b], r)
      /\ Like([r EXCEPT !.handles = FALSE], r)
  BY DEF Like, Run
<1>4. Like(CancelOf(r), r) /\ Like(AskOf(r), r)
  BY Cancelling DEF Like
<1>5. Like(Delivered(r), r) /\ Like(Lost(r), r)
  BY Delivering, Losing DEF Like
<1> QED BY <1>1, <1>2, <1>3, <1>4, <1>5

\* A call that goes on as x, like the call r it was; the others stay.
LEMMA LikeGoes ==
  ASSUME TypeOK, NEW l \in Loops, NEW m \in Loops, NEW x, Goes(m, x), Like(x, loop[m])
  PROVE  Like(loop'[l], loop[l])
<1>1. loop'[l] = IF l = m THEN x ELSE loop[l]
  BY DEF Goes, TypeOK
<1>2. loop[l] \in Run
  BY DEF TypeOK
<1> QED BY <1>1, <1>2, LikeUpdates

\* The operators of the loop, for a call r that is like the call of m.
LEMMA LikeLoop ==
  ASSUME TypeOK, NEW l \in Loops, NEW m \in Loops, NEW r \in Run, Like(r, loop[m]),
         NEW how, NEW n,
         Ends(m, r, how) \/ Pause(m, r) \/ LoopHead(m, r) \/ AfterRound(m, r, n) \/ Cancelled(m, r)
  PROVE  Like(loop'[l], loop[l])
<1>1. ASSUME NEW x, Like(x, r) PROVE Like(x, loop[m])
  BY <1>1 DEF Like
<1>2. ASSUME NEW h, Ends(m, r, h) PROVE Like(loop'[l], loop[l])
  BY <1>1, <1>2, LikeUpdates, LikeGoes DEF Ends
<1>3. ASSUME Pause(m, r) PROVE Like(loop'[l], loop[l])
  BY <1>1, <1>3, LikeUpdates, LikeGoes DEF Pause
<1>4. ASSUME NEW p, Goes(m, [r EXCEPT !.pc = p]) PROVE Like(loop'[l], loop[l])
  BY <1>1, <1>4, LikeUpdates, LikeGoes
<1>5. CASE LoopHead(m, r)
  BY <1>2, <1>4, <1>5 DEF LoopHead
<1>6. CASE AfterRound(m, r, n)
  BY <1>2, <1>3, <1>4, <1>6 DEF AfterRound
<1>7. CASE Cancelled(m, r)
  BY <1>2, <1>7 DEF Cancelled
<1> QED BY <1>2, <1>3, <1>5, <1>6, <1>7

\* Setting the event.
LEMMA LikeNotify ==
  ASSUME NEW to \in [Loops -> Run], Notify(to), NEW l \in Loops, Like(to[l], loop[l])
  PROVE  Like(loop'[l], loop[l])
<1>1. to[l] \in Run
  OBVIOUS
<1>2. loop'[l] = [to[l] EXCEPT !.woken = to[l].woken \/ to[l].pc = "pause"]
  BY DEF Notify
<1>3. Like(loop'[l], to[l])
  <2> DEFINE b == to[l].woken \/ to[l].pc = "pause"
  <2>1. Like([to[l] EXCEPT !.woken = b], to[l])
    BY <1>1 DEF Like, Run
  <2> QED BY <1>2, <2>1
<1> QED BY <1>3 DEF Like

(***************************************************************************)
(* A call without the handlers stays like itself in every step that does   *)
(* not put a new call in its place.                                        *)
(***************************************************************************)
LEMMA StaysLike ==
  ASSUME TypeOK, [Next]_vars, NEW l \in Loops, handler # l, ~Enter(l),
         \A h \in BOOLEAN : ~Start(l, h)
  PROVE  Like(loop'[l], loop[l])
<1>a. \A m \in Loops : loop[m] \in Run /\ Like(loop[m], loop[m])
  BY LikeUpdates DEF TypeOK
<1>1. ASSUME NEW m \in Loops, Begin(m) \/ YieldEnds(m) \/ PauseEnds(m) \/ ClaimRaises(m)
      PROVE  Like(loop'[l], loop[l])
  <2>1. CASE Begin(m)
    BY <2>1, <1>a, LikeUpdates, LikeGoes DEF Begin
  <2>2. CASE YieldEnds(m) \/ PauseEnds(m) \/ ClaimRaises(m)
    BY <2>2, <1>a, LikeLoop DEF YieldEnds, PauseEnds, ClaimRaises
  <2> QED BY <1>1, <2>1, <2>2
<1>2. ASSUME NEW m \in Loops, ClaimEmpty(m) \/ PublishEnds(m) \/ AckOk(m)
      PROVE  Like(loop'[l], loop[l])
  <2>1. CASE AfterRound(m, loop[m], "none") \/ AfterRound(m, loop[m], loop[m].claimed)
    BY <2>1, <1>a, LikeLoop
  <2>2. CASE Goes(m, [loop[m] EXCEPT !.pc = "acking"])
    BY <2>2, <1>a, LikeUpdates, LikeGoes
  <2>3. CASE Cancelled(m, loop[m])
    BY <2>3, <1>a, LikeLoop
  <2> QED BY <1>2, <2>1, <2>2, <2>3 DEF ClaimEmpty, PublishEnds, AckOk
<1>3. ASSUME NEW m \in Loops, AckRaises(m) PROVE Like(loop'[l], loop[l])
  <2> DEFINE x == [loop[m] EXCEPT !.unwinding = FALSE, !.dropped = @ \/ loop[m].unwinding]
  <2>1. x \in Run /\ Like(x, loop[m])
    BY <1>a DEF Run, Like
  <2>2. Pause(m, x)
    BY <1>3 DEF AckRaises
  <2> HIDE DEF x
  <2> QED BY <2>1, <2>2, LikeLoop
<1>4. ASSUME NEW m \in Loops, NEW n \in {"some", "full"}, ClaimSome(m, n)
      PROVE  Like(loop'[l], loop[l])
  BY <1>4, <1>a, LikeUpdates, LikeGoes DEF ClaimSome
<1>s. ASSUME NEW m \in Loops, Swallow(m) PROVE Like(loop'[l], loop[l])
  <2> DEFINE r == Lost(loop[m])
             y(n) == [r EXCEPT !.pc = "publishing", !.claimed = n]
  <2>1. r \in Run /\ Like(r, loop[m])
    BY <1>a, LikeUpdates, Losing
  <2>2. \/ Pause(m, r) \/ (\E n : AfterRound(m, r, n)) \/ LoopHead(m, r)
        \/ \E n \in {"some", "full"} : Goes(m, y(n))
    BY <1>s, Swallowing
  <2> HIDE DEF r
  <2>3. \A n : Like(y(n), r)
    BY <2>1, LikeUpdates
  <2> HIDE DEF y
  <2>4. \A n : Like(y(n), loop[m])
    BY <2>1, <2>3 DEF Like
  <2> QED BY <2>1, <2>2, <2>4, LikeLoop, LikeGoes
<1>5. ASSUME NEW m \in Loops, Notice(m) PROVE Like(loop'[l], loop[l])
  <2> DEFINE r == Delivered(loop[m])
             x == [r EXCEPT !.handles = FALSE]
             y == [r EXCEPT !.pc = "acking", !.unwinding = TRUE]
  <2>1. r \in Run /\ Like(r, loop[m])
    BY <1>a, LikeUpdates, Delivering
  <2>2. Unwind(m, r)
    BY <1>5 DEF Notice
  <2> HIDE DEF r
  <2>3. x \in Run /\ Like(x, r) /\ Like(y, r)
    BY <2>1, LikeUpdates DEF Run
  <2>4. Ends(m, x, "cancelled") \/ Cancelled(m, r) \/ Goes(m, y)
    BY <2>2 DEF Unwind
  <2> HIDE DEF x, y
  <2>5. Like(x, loop[m]) /\ Like(y, loop[m])
    BY <2>1, <2>3 DEF Like
  <2> QED BY <2>1, <2>3, <2>4, <2>5, LikeLoop, LikeGoes
<1>6. ASSUME NEW m \in Loops, NEW h \in BOOLEAN, Start(m, h) \/ Enter(m)
      PROVE  Like(loop'[l], loop[l])
  <2>1. m # l
    BY <1>6
  <2>2. loop'[l] = loop[l]
    BY <1>6, <2>1 DEF Start, Enter, Goes, TypeOK
  <2> QED BY <2>2, <1>a
<1>7. ASSUME Wake \/ Stop PROVE Like(loop'[l], loop[l])
  <2>1. Notify(loop) /\ loop \in [Loops -> Run]
    BY <1>7 DEF Wake, Stop, StopAnd, TypeOK
  <2> QED BY <2>1, <1>a, LikeNotify
<1>8. ASSUME NEW m \in Loops, Signal(m) PROVE Like(loop'[l], loop[l])
  <2> DEFINE r == [loop[m] EXCEPT !.signals = @ + 1]
             to == [loop EXCEPT ![m] = r]
  <2>1. r \in Run /\ m # l
    BY <1>8, <1>a DEF Run, Signal
  <2>2. CASE StopAnd(to)
    <3>1. to \in [Loops -> Run] /\ to[l] = loop[l]
      BY <2>1 DEF TypeOK
    <3> HIDE DEF to
    <3> QED BY <2>2, <3>1, <1>a, LikeNotify DEF StopAnd
  <2>3. CASE Goes(m, IF r.bysignal THEN r ELSE [CancelOf(r) EXCEPT !.bysignal = TRUE])
    <3>1. loop'[l] = loop[l]
      BY <2>1, <2>3 DEF Goes, TypeOK
    <3> QED BY <3>1, <1>a
  <2> QED BY <1>8, <2>2, <2>3 DEF Signal
<1>9. ASSUME NEW m \in Loops, CancelRun(m) PROVE Like(loop'[l], loop[l])
  BY <1>9, <1>a, LikeUpdates, LikeGoes DEF CancelRun
<1>10. ASSUME Leave PROVE Like(loop'[l], loop[l])
  <2> DEFINE m == manager.task
             c == CancelOf(loop[m])
             to == IF loop[m].pc = "created" THEN [loop EXCEPT ![m] = c] ELSE loop
  <2>1. m \in Loops => c \in Run /\ Like(c, loop[m])
    BY <1>a, LikeUpdates, Cancelling
  <2>2. Notify(to)
    BY <1>10 DEF Leave, StopAnd
  <2> HIDE DEF c
  <2>3. to \in [Loops -> Run] /\ Like(to[l], loop[l])
    BY <2>1, <1>a DEF TypeOK
  <2> HIDE DEF to
  <2> QED BY <2>2, <2>3, LikeNotify
<1>11. ASSUME CancelLeave PROVE Like(loop'[l], loop[l])
  <2> DEFINE m == manager.task
             a == AskOf(loop[m])
  <2>1. m \in Loops => Like(a, loop[m])
    BY <1>a, LikeUpdates
  <2>2. loop' = IF loop[m].pc = "out" THEN loop ELSE [loop EXCEPT ![m] = a]
    BY <1>11 DEF CancelLeave
  <2> HIDE DEF a
  <2>3. loop'[l] = loop[l] \/ (l = m /\ loop'[l] = a)
    BY <2>2 DEF TypeOK
  <2> QED BY <2>1, <2>3, <1>a
<1>12. ASSUME LeaveEnds \/ UNCHANGED vars PROVE Like(loop'[l], loop[l])
  BY <1>12, <1>a DEF LeaveEnds, vars
<1> QED BY <1>1, <1>2, <1>3, <1>4, <1>5, <1>6, <1>7, <1>8, <1>9, <1>10, <1>11, <1>12,
           <1>s DEF Next, Step

(***************************************************************************)
(* The relay task of the context manager never has the handlers, no signal *)
(* cancels it, and it was asked to end if the task that leaves was         *)
(* cancelled while there was something to pass that on to.                 *)
(***************************************************************************)
ManagerInv ==
  /\ manager.st = "body" => ~manager.cancel
  /\ manager.st # "out" =>
       /\ manager.task \in Loops
       /\ ~loop[manager.task].handles /\ ~loop[manager.task].bysignal
       /\ manager.cancel /\ ~manager.late => loop[manager.task].asked

\* A step of the relay or the application, with the manager as it is.
LEMMA ManagerStays ==
  ASSUME CallInv, ManagerInv, [Next]_vars, UNCHANGED manager
  PROVE  ManagerInv'
<1> SUFFICES ASSUME manager.st # "out" PROVE ManagerInv'
  BY DEF ManagerInv
<1> DEFINE l == manager.task
<1>1. l \in Loops /\ ~loop[l].handles /\ handler # l /\ TypeOK
  BY LifecycleAssumption DEF ManagerInv, CallInv, CallGood, HandlerInv
<1>2. ~Enter(l) /\ \A h \in BOOLEAN : ~Start(l, h)
  BY DEF Enter, Start
<1>3. Like(loop'[l], loop[l])
  BY <1>1, <1>2, StaysLike
<1> QED BY <1>3 DEF ManagerInv, Like

\* ManagerInv is kept by every step.
LEMMA ManagerStep == CallInv /\ ManagerInv /\ [Next]_vars => ManagerInv'
<1> SUFFICES ASSUME CallInv, ManagerInv, [Next]_vars PROVE ManagerInv'
  OBVIOUS
<1> DEFINE l == manager.task
<1>1. TypeOK /\ manager \in Manager
  BY DEF CallInv, TypeOK
<1>2. ASSUME NEW m \in Loops, Enter(m) PROVE ManagerInv'
  <2>1. /\ manager'.st = "body" /\ manager'.task = m
        /\ ~manager'.cancel
    BY <1>2 DEF Enter, Outside
  <2>2. loop'[m] = NewRun(FALSE)
    BY <1>1, <1>2 DEF Enter, Goes, TypeOK
  <2> QED BY <2>1, <2>2 DEF ManagerInv, NewRun
<1>3. ASSUME Leave \/ CancelLeave PROVE ManagerInv'
  <2>1. l \in Loops /\ ~loop[l].handles /\ handler # l
    BY <1>3, LifecycleAssumption DEF Leave, CancelLeave, ManagerInv, CallInv, CallGood, HandlerInv
  <2>2. ~Enter(l) /\ \A h \in BOOLEAN : ~Start(l, h)
    BY <1>3 DEF Leave, CancelLeave, Enter, Start
  <2>3. Like(loop'[l], loop[l])
    BY <1>1, <2>1, <2>2, StaysLike
  <2>4. CASE Leave
    <3>1. manager'.st = "leaving" /\ manager'.task = l /\ manager'.cancel = manager.cancel /\ ~manager.cancel
      BY <1>1, <2>4 DEF Leave, Manager, ManagerInv
    <3> QED BY <2>1, <2>3, <2>4, <3>1 DEF ManagerInv, Like, Leave
  <2>5. CASE CancelLeave
    <3>1. /\ manager'.st = "leaving" /\ manager'.task = l
          /\ loop[l].pc = "out" => manager'.late
      BY <1>1, <2>5 DEF CancelLeave, Manager
    <3>2. loop[l].pc # "out" => loop'[l].asked
      <4> DEFINE a == AskOf(loop[l])
      <4>1. loop[l] \in Run
        BY <1>1, <2>1 DEF TypeOK
      <4>2. a.asked = TRUE
        BY <4>1, Cancelling
      <4>3. loop[l].pc # "out" => loop'[l] = a
        BY <1>1, <2>1, <2>5 DEF CancelLeave, TypeOK
      <4> HIDE DEF a
      <4> QED BY <4>2, <4>3
    <3> QED BY <2>1, <2>3, <2>5, <3>1, <3>2 DEF ManagerInv, Like, CancelLeave
  <2> QED BY <1>3, <2>4, <2>5
<1>4. CASE LeaveEnds
  <2>1. manager'.st = "out"
    BY <1>1, <1>4 DEF LeaveEnds, Manager
  <2> QED BY <2>1 DEF ManagerInv
<1>5. CASE UNCHANGED manager
  BY <1>5, ManagerStays
<1>6. (\E m \in Loops : Enter(m)) \/ Leave \/ CancelLeave \/ LeaveEnds \/ UNCHANGED manager
  BY DEF Next, Step, Begin, ClaimEmpty, ClaimSome, ClaimRaises, PublishEnds, AckOk, AckRaises,
         YieldEnds, PauseEnds, Notice, Swallow, Start, Wake, Stop, Signal, CancelRun, vars
<1> QED BY <1>2, <1>3, <1>4, <1>5, <1>6

(***************************************************************************)
(* Leaving the context manager raises CancelledError if the task that      *)
(* leaves was cancelled, unless the relay task lost that cancellation.     *)
(***************************************************************************)
THEOREM LeavingHonoursCancel == Spec => LeaveHonoursCancel
<1> DEFINE A == manager.st = "leaving" /\ manager'.st = "out" /\ manager.cancel =>
                  manager'.outcome = "cancelled" \/ loop[manager.task].dropped
<1>1. ASSUME CallInv, ManagerInv, [Next]_vars PROVE A
  <2> SUFFICES ASSUME manager.st = "leaving", manager'.st = "out", manager.cancel PROVE A
    OBVIOUS
  <2>1. manager \in Manager /\ manager.task \in Loops /\ ~loop[manager.task].bysignal
    BY <1>1 DEF CallInv, TypeOK, ManagerInv
  <2>2. LeaveEnds
    BY <1>1, <2>1 DEF Next, Step, Begin, ClaimEmpty, ClaimSome, ClaimRaises, PublishEnds, AckOk,
       AckRaises, YieldEnds, PauseEnds, Notice, Swallow, Start, Wake, Stop, Signal, CancelRun, vars,
       Enter, Leave, CancelLeave, Manager
  <2>3. Obeys(loop[manager.task]) /\ (manager.late \/ loop[manager.task].asked)
    BY <1>1, <2>1 DEF CallInv, CallGood, Good, ManagerInv
  <2>4. manager'.outcome = Left /\ loop[manager.task].pc = "out"
    BY <2>1, <2>2 DEF LeaveEnds, Manager
  <2> QED BY <2>1, <2>3, <2>4 DEF Obeys, Left
<1>2. CallInv /\ ManagerInv /\ [Next]_vars => [A]_vars
  BY <1>1
<1>3. Init => ManagerInv
  BY DEF Init, Outside, ManagerInv
<1>4. Spec => []ManagerInv
  BY <1>3, ManagerStep, CallInvariant, PTL DEF Spec
<1> QED BY <1>2, <1>4, CallInvariant, PTL DEF Spec, LeaveHonoursCancel

(***************************************************************************)
(* When one call has the relay to itself: as long as a stop or a wake has  *)
(* not been answered, the event is set, or the pause has been woken.       *)
(***************************************************************************)
Alerted(r, w) == r.pc \notin {"out", "created"} => IF r.pc = "pause" THEN r.woken ELSE w

Alert == stopping \/ news => \A l \in Loops : Alerted(loop[l], wakeup)

AloneInv == TypeOK /\ Alert

\* The only call goes on, alerted if need be.
LEMMA AlertGoes ==
  ASSUME TypeOK, NEW l, Loops = {l}, NEW x, Goes(l, x), stopping' \/ news' => Alerted(x, wakeup')
  PROVE  Alert'
<1>1. loop'[l] = x
  BY DEF Goes, TypeOK
<1> QED BY <1>1 DEF Alert

\* The only call ends.
LEMMA AlertEnds ==
  ASSUME TypeOK, NEW l, Loops = {l}, NEW r \in Run, NEW how, Ends(l, r, how)
  PROVE  Alert'
<1>1. [r EXCEPT !.pc = "out", !.outcome = how].pc = "out"
  BY DEF Run
<1> QED BY <1>1, AlertGoes DEF Ends, Alerted

\* The only call goes on with the event set.
LEMMA AlertMoves ==
  ASSUME TypeOK, NEW l, Loops = {l}, NEW r \in Run, NEW p, Goes(l, [r EXCEPT !.pc = p]),
         stopping' \/ news' => p # "pause" /\ wakeup'
  PROVE  Alert'
<1>1. [r EXCEPT !.pc = p].pc = p
  BY DEF Run
<1> QED BY <1>1, AlertGoes DEF Alerted

\* The only call pauses: wait returns at once if the event is set.
LEMMA AlertPause ==
  ASSUME TypeOK, NEW l, Loops = {l}, NEW r \in Run, Pause(l, r), stopping' \/ news' => wakeup
  PROVE  Alert'
<1>1. [r EXCEPT !.pc = "pause", !.woken = wakeup].pc = "pause"
  BY DEF Run
<1>2. wakeup => [r EXCEPT !.pc = "pause", !.woken = wakeup].woken
  BY DEF Run
<1> QED BY <1>1, <1>2, AlertGoes DEF Pause, Alerted

\* The only call answers a stop by ending and a wake by claiming.
LEMMA AlertLoopHead ==
  ASSUME TypeOK, NEW l, Loops = {l}, NEW r \in Run, LoopHead(l, r), UNCHANGED stopping
  PROVE  Alert'
BY AlertEnds, AlertMoves DEF LoopHead

\* The only call has finished a round.
LEMMA AlertAfterRound ==
  ASSUME TypeOK, NEW l, Loops = {l}, NEW r \in Run, NEW n, AfterRound(l, r, n),
         UNCHANGED <<stopping, wakeup, news>>, stopping \/ news => wakeup
  PROVE  Alert'
<1>1. CASE Ends(l, r, "returned")
  BY <1>1, AlertEnds
<1>2. CASE Pause(l, r)
  BY <1>2, AlertPause
<1>3. CASE Goes(l, [r EXCEPT !.pc = "yield"])
  BY <1>3, AlertMoves
<1> QED BY <1>1, <1>2, <1>3 DEF AfterRound

\* Setting the event alerts everybody.
LEMMA AlertNotify ==
  ASSUME NEW to \in [Loops -> Run], Notify(to)
  PROVE  Alert'
<1>1. ASSUME NEW l \in Loops PROVE Alerted(loop'[l], wakeup')
  <2>1. to[l] \in Run
    OBVIOUS
  <2>2. loop'[l] = [to[l] EXCEPT !.woken = to[l].woken \/ to[l].pc = "pause"] /\ wakeup'
    BY DEF Notify
  <2>3. loop'[l].pc = "pause" => loop'[l].woken
    BY <2>1, <2>2 DEF Run
  <2> QED BY <2>2, <2>3 DEF Alerted
<1> QED BY <1>1 DEF Alert

(***************************************************************************)
(* AloneInv is kept by every step of a call that is alone.                 *)
(***************************************************************************)
LEMMA AloneStep == ASSUME NEW l, Loops = {l} PROVE AloneInv /\ [Next]_vars => AloneInv'
<1> SUFFICES ASSUME AloneInv, [Next]_vars PROVE Alert'
  BY TypeStep DEF AloneInv
<1>a. TypeOK /\ l \in Loops /\ loop[l] \in Run
  BY DEF AloneInv, TypeOK
<1>b. stopping \/ news => Alerted(loop[l], wakeup)
  BY DEF AloneInv, Alert
<1>1. CASE Begin(l)
  BY <1>1, <1>a, AlertMoves DEF Begin
<1>2. CASE ClaimEmpty(l)
  BY <1>2, <1>a, <1>b, AlertAfterRound DEF ClaimEmpty, At, Alerted
<1>3. ASSUME NEW n \in {"some", "full"}, ClaimSome(l, n) PROVE Alert'
  <2>1. [loop[l] EXCEPT !.pc = "publishing", !.claimed = n].pc = "publishing"
    BY <1>a DEF Run
  <2> QED BY <1>3, <2>1, <1>a, <1>b, AlertGoes DEF ClaimSome, At, Alerted
<1>4. CASE ClaimRaises(l)
  BY <1>4, <1>a, <1>b, AlertPause DEF ClaimRaises, At, Alerted
<1>5. CASE PublishEnds(l)
  <2>1. CASE Goes(l, [loop[l] EXCEPT !.pc = "acking"])
    BY <1>5, <2>1, <1>a, <1>b, AlertMoves DEF PublishEnds, At, Alerted
  <2>2. CASE AfterRound(l, loop[l], loop[l].claimed)
    BY <1>5, <2>2, <1>a, <1>b, AlertAfterRound DEF PublishEnds, At, Alerted
  <2> QED BY <1>5, <2>1, <2>2 DEF PublishEnds
<1>6. CASE AckOk(l)
  <2>1. CASE Cancelled(l, loop[l])
    BY <2>1, <1>a, AlertEnds DEF Cancelled
  <2>2. CASE AfterRound(l, loop[l], loop[l].claimed)
    BY <1>6, <2>2, <1>a, <1>b, AlertAfterRound DEF AckOk, At, Alerted
  <2> QED BY <1>6, <2>1, <2>2 DEF AckOk
<1>7. CASE AckRaises(l)
  <2> DEFINE x == [loop[l] EXCEPT !.unwinding = FALSE, !.dropped = @ \/ loop[l].unwinding]
  <2>1. x \in Run
    BY <1>a DEF Run
  <2>2. Pause(l, x)
    BY <1>7 DEF AckRaises
  <2> HIDE DEF x
  <2> QED BY <1>7, <2>1, <2>2, <1>a, <1>b, AlertPause DEF AckRaises, At, Alerted
<1>8. CASE YieldEnds(l)
  <2>1. CASE stopping
    BY <1>8, <2>1, <1>a, AlertEnds DEF YieldEnds, LoopHead
  <2>2. CASE ~stopping
    BY <1>8, <2>2, <1>a, AlertMoves DEF YieldEnds, LoopHead
  <2> QED BY <2>1, <2>2
<1>9. CASE PauseEnds(l)
  BY <1>9, <1>a, AlertLoopHead DEF PauseEnds
<1>s. CASE Swallow(l)
  <2> DEFINE r == Lost(loop[l])
             y(n) == [r EXCEPT !.pc = "publishing", !.claimed = n]
  <2>1. r \in Run /\ r.pc = loop[l].pc
    BY <1>a, Losing
  <2>2. /\ UNCHANGED stopping
        /\ \/ Pause(l, r) /\ UNCHANGED <<wakeup, news>> /\ r.pc = "claiming"
           \/ (\E n : AfterRound(l, r, n)) /\ UNCHANGED <<wakeup, news>> /\ r.pc \in {"claiming", "acking"}
           \/ /\ \E n \in {"some", "full"} : Goes(l, y(n))
              /\ UNCHANGED <<wakeup, news>> /\ r.pc = "claiming"
           \/ LoopHead(l, r)
    BY <1>s, Swallowing
  <2> HIDE DEF r
  <2>3. \A n \in {"some", "full"} : y(n).pc = "publishing"
    BY <2>1 DEF Run
  <2> HIDE DEF y
  <2>4. CASE Pause(l, r) /\ UNCHANGED <<wakeup, news>> /\ r.pc = "claiming"
    BY <2>1, <2>2, <2>4, <1>a, <1>b, AlertPause DEF Alerted
  <2>5. CASE (\E n : AfterRound(l, r, n)) /\ UNCHANGED <<wakeup, news>> /\ r.pc \in {"claiming", "acking"}
    BY <2>1, <2>2, <2>5, <1>a, <1>b, AlertAfterRound DEF Alerted
  <2>6. CASE /\ \E n \in {"some", "full"} : Goes(l, y(n))
             /\ UNCHANGED <<wakeup, news>> /\ r.pc = "claiming"
    BY <2>1, <2>2, <2>3, <2>6, <1>a, <1>b, AlertGoes DEF Alerted
  <2>7. CASE LoopHead(l, r)
    BY <2>1, <2>2, <2>7, <1>a, AlertLoopHead
  <2> QED BY <2>2, <2>4, <2>5, <2>6, <2>7
<1>10. CASE Notice(l)
  <2> DEFINE r == Delivered(loop[l])
  <2>1. r \in Run /\ r.pc = loop[l].pc
    BY <1>a, Delivering
  <2>2. [r EXCEPT !.handles = FALSE] \in Run
    BY <2>1 DEF Run
  <2>3. [r EXCEPT !.pc = "acking", !.unwinding = TRUE].pc = "acking"
    BY <2>1 DEF Run
  <2>4. Unwind(l, r) /\ UNCHANGED <<stopping, news>>
    BY <1>10 DEF Notice
  <2> HIDE DEF r
  <2>5. CASE Cancelled(l, r) \/ Ends(l, [r EXCEPT !.handles = FALSE], "cancelled")
    BY <2>1, <2>2, <2>5, <1>a, AlertEnds DEF Cancelled
  <2>6. CASE /\ r.pc = "publishing" /\ UNCHANGED wakeup
             /\ Goes(l, [r EXCEPT !.pc = "acking", !.unwinding = TRUE])
    BY <2>1, <2>3, <2>4, <2>6, <1>a, <1>b, AlertGoes DEF Alerted
  <2> QED BY <2>4, <2>5, <2>6 DEF Unwind
<1>11. ASSUME NEW h \in BOOLEAN, Start(l, h) \/ Enter(l) PROVE Alert'
  <2>1. NewRun(h).pc = "created" /\ NewRun(FALSE).pc = "created"
    BY DEF NewRun
  <2>2. Goes(l, NewRun(h)) \/ Goes(l, NewRun(FALSE))
    BY <1>11 DEF Start, Enter
  <2> QED BY <2>1, <2>2, <1>a, AlertGoes DEF Alerted
<1>12. CASE Wake \/ Stop
  BY <1>12, <1>a, AlertNotify DEF Wake, Stop, StopAnd, TypeOK
<1>13. CASE Signal(l)
  <2> DEFINE r == [loop[l] EXCEPT !.signals = @ + 1]
             to == [loop EXCEPT ![l] = r]
             x == IF r.bysignal THEN r ELSE [CancelOf(r) EXCEPT !.bysignal = TRUE]
  <2>1. r \in Run /\ r.pc = loop[l].pc /\ (r.woken <=> loop[l].woken)
    BY <1>a DEF Run
  <2>2. CASE StopAnd(to)
    <3>1. to \in [Loops -> Run]
      BY <2>1, <1>a DEF TypeOK
    <3> HIDE DEF to
    <3> QED BY <2>2, <3>1, AlertNotify DEF StopAnd
  <2>3. CASE Goes(l, x) /\ UNCHANGED <<stopping, wakeup>>
    <3> HIDE DEF r
    <3> DEFINE c == CancelOf(r)
    <3>c. c \in Run /\ c.pc = r.pc /\ (c.woken <=> r.woken)
      BY <2>1, Cancelling
    <3> HIDE DEF c
    <3>b. LET y == [c EXCEPT !.bysignal = TRUE] IN y.pc = r.pc /\ (y.woken <=> r.woken)
      BY <3>c DEF Run
    <3>1. x.pc = r.pc /\ (x.woken <=> r.woken)
      BY <3>b DEF c
    <3> HIDE DEF x
    <3> QED BY <1>13, <2>1, <2>3, <3>1, <1>a, <1>b, AlertGoes DEF Signal, Alerted
  <2> QED BY <1>13, <2>2, <2>3 DEF Signal
<1>c. LET c == CancelOf(loop[l])
          a == AskOf(loop[l])
      IN  c \in Run /\ a.pc = loop[l].pc /\ (a.woken <=> loop[l].woken)
  BY <1>a, Cancelling
<1>14. CASE CancelRun(l)
  BY <1>14, <1>a, <1>b, <1>c, AlertGoes DEF CancelRun, Alerted
<1>15. CASE Leave
  <2> DEFINE m == manager.task
             to == IF loop[m].pc = "created" THEN [loop EXCEPT ![m] = CancelOf(loop[m])] ELSE loop
  <2>1. to \in [Loops -> Run]
    BY <1>a, <1>c DEF TypeOK
  <2>2. Notify(to)
    BY <1>15 DEF Leave, StopAnd
  <2> HIDE DEF to
  <2> QED BY <2>1, <2>2, AlertNotify
<1>16. CASE CancelLeave
  <2>1. loop' = loop \/ loop'[l] = AskOf(loop[l]) \/ loop'[l] = loop[l]
    BY <1>16, <1>a DEF CancelLeave, TypeOK
  <2> QED BY <1>16, <2>1, <1>b, <1>c DEF CancelLeave, Alert, Alerted
<1>17. CASE LeaveEnds \/ UNCHANGED vars
  BY <1>17 DEF LeaveEnds, vars, AloneInv, Alert, Alerted
<1> QED BY <1>1, <1>2, <1>3, <1>4, <1>5, <1>6, <1>7, <1>8, <1>9, <1>10, <1>11, <1>12, <1>13,
           <1>14, <1>15, <1>16, <1>17, <1>s DEF Next, Step

(***************************************************************************)
(* With one call of run at a time, every pause is cut short by stop.       *)
(***************************************************************************)
THEOREM StopCutsPausesAlone ==
  ASSUME NEW CONSTANT l, Loops = {l}
  PROVE  Spec => []StopCutsPauses
<1>1. Init => Alert
  BY DEF Init, Alert
<1>2. AloneInv /\ [Next]_vars => AloneInv'
  BY AloneStep
<1>3. AloneInv => StopCutsPauses
  BY DEF AloneInv, Alert, Alerted, StopCutsPauses, Asleep
<1>4. TypeOK /\ Alert => AloneInv
  BY DEF AloneInv
<1> QED BY <1>1, <1>2, <1>3, <1>4, LifecycleTypes, PTL DEF Spec

(***************************************************************************)
(* With one call of run at a time, no wake is lost.                        *)
(***************************************************************************)
THEOREM WakeNotLostAlone ==
  ASSUME NEW CONSTANT l, Loops = {l}
  PROVE  Spec => []WakeNotLost
<1>1. Init => Alert
  BY DEF Init, Alert
<1>2. AloneInv /\ [Next]_vars => AloneInv'
  BY AloneStep
<1>3. AloneInv => WakeNotLost
  BY DEF AloneInv, Alert, Alerted, WakeNotLost, Asleep, Running
<1>4. TypeOK /\ Alert => AloneInv
  BY DEF AloneInv
<1> QED BY <1>1, <1>2, <1>3, <1>4, LifecycleTypes, PTL DEF Spec

=============================================================================
