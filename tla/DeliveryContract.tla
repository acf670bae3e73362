-------------------------- MODULE DeliveryContract --------------------------
(***************************************************************************)
(* What the outbox promises to an application, without workers, leases,    *)
(* retries or time (protocols.py, README.md): a message is delivered at    *)
(* least once before it counts as delivered, or it is parked; verdicts are *)
(* final; and with strict ordering a message reaches the broker only after *)
(* every earlier message of its key did or was parked.                     *)
(***************************************************************************)
EXTENDS Naturals

CONSTANTS MaxId, Keys, NULL, StrictOrdering

Ids == 1..MaxId

VARIABLES key,       \* the ordering key of every message
          verdict,   \* what has become of it
          accepted   \* the messages the broker has accepted

vars == <<key, verdict, accepted>>

Init ==
  /\ key = [i \in Ids |-> NULL]
  /\ verdict = [i \in Ids |-> "absent"]
  /\ accepted = {}

\* Messages enter in the order of their ids.
Submit(i, k) ==
  /\ verdict[i] = "absent"
  /\ \A j \in Ids : j < i => verdict[j] # "absent"
  /\ key' = [key EXCEPT ![i] = k]
  /\ verdict' = [verdict EXCEPT ![i] = "pending"]
  /\ UNCHANGED accepted

\* The broker gets message i, for the first time or again, even after a verdict on it.
Deliver(i) ==
  /\ verdict[i] # "absent"
  /\ StrictOrdering =>
       \A j \in Ids : j < i /\ key[j] # NULL /\ key[j] = key[i] =>
                        j \in accepted \/ verdict[j] = "dead"
  /\ accepted' = accepted \cup {i}
  /\ UNCHANGED <<key, verdict>>

Settle(S, v) ==
  /\ \A i \in S : verdict[i] = "pending"
  /\ verdict' = [i \in Ids |-> IF i \in S THEN v ELSE verdict[i]]
  /\ UNCHANGED <<key, accepted>>

Confirm(S) == S \subseteq accepted /\ Settle(S, "delivered")

Park(S) == Settle(S, "dead")

Next ==
  \/ \E i \in Ids : Deliver(i) \/ \E k \in Keys \cup {NULL} : Submit(i, k)
  \/ \E S \in SUBSET Ids : Confirm(S) \/ Park(S)

Spec == Init /\ [][Next]_vars

=============================================================================
