--------------------------- MODULE MCMemoryClaim ---------------------------
(* Rows as the operations of OutboxTable leave them, for TLC.              *)
EXTENDS MemoryClaim

\* A row of key k: new, waiting, under a lease or with one that ran out, or settled.
RowsOf(k) ==
  LET new == [Absent EXCEPT !.status = "pending", !.key = k]
  IN  {new,
       [new EXCEPT !.attempts = 1, !.retry_at = 1, !.last_error = TRUE],
       [new EXCEPT !.retry_at = 1],
       [new EXCEPT !.status = "done", !.attempts = 1]}
      \cup {[new EXCEPT !.attempts = 1, !.leased_by = w, !.lease_until = n] :
              w \in Workers, n \in {0, Lease}}

MCTables == [Ids -> UNION {RowsOf(k) : k \in Keys \cup {NULL}}]

=============================================================================
