-------------------------- MODULE MCPostgresStorage --------------------------
(* PostgresStorage for TLC: workers are interchangeable model values.        *)
EXTENDS PostgresStorage, TLC

Symmetry == Permutations(Workers)

StrictNow   == [strict_ordering |-> TRUE, delete_on_ack |-> FALSE, visibility_delay |-> 0]
StrictLater == [strict_ordering |-> TRUE, delete_on_ack |-> TRUE, visibility_delay |-> SlowestTx + 1]
Unordered   == [strict_ordering |-> FALSE, delete_on_ack |-> TRUE, visibility_delay |-> 0]

MCOptions == {StrictNow, StrictLater, Unordered}

=============================================================================
