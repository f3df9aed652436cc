------------------------- MODULE FetchesProperties --------------------------
(* What the callers of fetcher.go, and the RPC provider, rely on.            *)
EXTENDS Fetches

\* The longest a call may wait for its token: the other calls of the batch have
\* at most one reservation each.
LongestWait == Cardinality(Batch) * Interval

\* Two requests of backfill are never closer than the limiter allows, whichever
\* calls send them, retries included.
RateKept ==
    [][\A c \in Batch :
           attempts'[c] > attempts[c] => now - lastSent >= Interval]_fetchVars

\* A call is over within its budget, the last wait for a token and the last
\* request; and a call of forwardfill does not pay for backfill's queue.
EndsInTime ==
    \A c \in Call :
        pc[c] \notin {"idle", "done"} =>
            now - start[c] <= Budget + MaxRequest
                              + (IF c \in Batch THEN LongestWait ELSE 0)

\* Time that passes in the limiter counts.  Where the batch is small enough for
\* the rate, an error that may pass is never final at the first attempt.
Roomy(c) ==
    \A pause \in Pauses :
        (IF c \in Batch THEN LongestWait ELSE 0) + MaxRequest + pause
            <= Budget

RetriedInBudget ==
    \A c \in Call : Roomy(c) /\ outcome[c] = "spent" => attempts[c] > 1

\* However a batch fails or is cancelled, every call of it, in the limiter, in
\* flight or pausing, returns: g.Wait does.
CallsEnd == \A c \in Call : (pc[c] # "idle") ~> (pc[c] = "done")
=============================================================================
