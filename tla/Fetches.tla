------------------------------- MODULE Fetches ------------------------------
(* The calls of fetcher.go from inside, where Fetcher shows them from         *)
(* outside: attempts, the pauses between them, the time they may take, and   *)
(* the rate limiter that backfill's calls share and forwardfill's pass by.   *)
(* Time is counted in ticks.  The RPC node, backoff.Retry and rate.Limiter   *)
(* are modelled from how fetcher.go uses them.                               *)
EXTENDS Integers, FiniteSets

CONSTANTS
    Batch,      \* FetchBlock calls of one batch of backfill
    Priority,   \* FetchBlockPriority calls of forwardfill
    Interval,   \* ticks between two tokens of the limiter, 1 / rpcRateLimit
    Budget,     \* WithMaxElapsedTime of FetchBlock, 30 s
    Pauses,     \* what NextBackOff may return
    MaxRequest, \* the longest a request takes
    Latest,     \* bound on when forwardfill makes a call
    Horizon     \* bound on time

Call == Batch \cup Priority

ASSUME FetchesAssumption ==
    /\ IsFiniteSet(Batch)
    /\ Batch \cap Priority = {}
    /\ {Interval, Budget, MaxRequest, Latest, Horizon} \subseteq Nat
    /\ Pauses \subseteq Nat \ {0}

VARIABLES
    now,        \* the time
    pc,         \* what each call does, see FetchPc
    start,      \* when it was made
    wake,       \* when its wait, request or pause is over
    attempts,   \* requests it sent
    outcome,    \* how it ended
    slot,       \* the limiter's next token
    lastSent,   \* when a request last went through the limiter
    cancelled   \* contexts cancelled: "batch" is that of the batch's errgroup,
                \* "group" that of Run's, which it derives from

callVars == <<pc, start, wake, attempts, outcome>>
fetchVars == <<now, callVars, slot, lastSent, cancelled>>

\* idle    not made yet        flight  a request is on its way
\* wait    in the limiter      pause   between two attempts
\* done    returned
FetchPc == {"idle", "wait", "flight", "pause", "done"}

FetchesInit ==
    /\ now = 0
    /\ pc = [c \in Call |-> "idle"]
    /\ start = [c \in Call |-> 0]
    /\ wake = [c \in Call |-> 0]
    /\ attempts = [c \in Call |-> 0]
    /\ outcome = [c \in Call |-> "none"]
    /\ slot = 0
    /\ lastSent = -Interval
    /\ cancelled = {}

Cancelled(c) ==
    \/ c \in Batch /\ "batch" \in cancelled
    \/ c \in Priority /\ "group" \in cancelled

-----------------------------------------------------------------------------
(* An attempt.                                                               *)

\* Mutant of Reserve: the token is counted from now, not from the one before.
ReserveFromNow(c) ==
    /\ pc' = [pc EXCEPT ![c] = "wait"]
    /\ wake' = [wake EXCEPT ![c] = IF slot > now THEN slot ELSE now]
    /\ slot' = now + Interval
    /\ UNCHANGED <<attempts, lastSent>>

\* rateLimiter.Wait, with a burst of 1, reserves the next token.
Reserve(c) ==
    /\ pc' = [pc EXCEPT ![c] = "wait"]
    /\ \E at \in {IF slot > now THEN slot ELSE now} :
          /\ wake' = [wake EXCEPT ![c] = at]
          /\ slot' = at + Interval
    /\ UNCHANGED <<attempts, lastSent>>

\* BatchCallContext, or BlockNumber.
Request(c) ==
    /\ pc' = [pc EXCEPT ![c] = "flight"]
    /\ wake' = [wake EXCEPT ![c] = now + MaxRequest]
    /\ attempts' = [attempts EXCEPT ![c] = @ + 1]
    /\ lastSent' = IF c \in Batch THEN now ELSE lastSent
    /\ UNCHANGED slot

\* The operation that is retried: only backfill's calls take a token.
Attempt(c) == IF c \in Batch THEN Reserve(c) ELSE Request(c)

\* backfill makes the calls of its batch at once, forwardfill whenever it has
\* a header.
Make(c) ==
    /\ pc[c] = "idle" /\ ~Cancelled(c)
    /\ now <= (IF c \in Batch THEN 0 ELSE Latest)
    /\ start' = [start EXCEPT ![c] = now]
    /\ Attempt(c)
    /\ UNCHANGED <<now, outcome, cancelled>>

TokenComes(c) ==
    /\ pc[c] = "wait" /\ wake[c] <= now /\ ~Cancelled(c)
    /\ Request(c)
    /\ UNCHANGED <<now, start, outcome, cancelled>>

PauseEnds(c) ==
    /\ pc[c] = "pause" /\ wake[c] <= now /\ ~Cancelled(c)
    /\ Attempt(c)
    /\ UNCHANGED <<now, start, outcome, cancelled>>

-----------------------------------------------------------------------------
(* Its outcome.                                                              *)

Return(c, o) ==
    /\ pc' = [pc EXCEPT ![c] = "done"]
    /\ outcome' = [outcome EXCEPT ![c] = o]
    /\ start' = [start EXCEPT ![c] = 0]
    /\ wake' = [wake EXCEPT ![c] = 0]
    /\ UNCHANGED <<now, attempts, slot, lastSent>>

\* A call of the batch that fails cancels the others: errgroup.WithContext.
\* Run's group follows when all of them have returned.
ReturnsError(c, o) ==
    /\ Return(c, o)
    /\ cancelled' = cancelled
           \cup (IF c \in Batch THEN {"batch"} ELSE {"batch", "group"})

Succeed(c) ==
    /\ pc[c] = "flight" /\ ~Cancelled(c)
    /\ Return(c, "ok")
    /\ UNCHANGED cancelled

\* wrapRetryError: codes -32602 to -32600 are permanent.
FailForGood(c) ==
    /\ pc[c] = "flight" /\ ~Cancelled(c)
    /\ ReturnsError(c, "permanent")

\* Mutant of Spent: the pause to come is not counted.
SpentAlready(c, pause) == now - start[c] > Budget

\* Would the call last too long with another pause?
Spent(c, pause) == now - start[c] + pause > Budget

\* Mutant of FailAndPause: every error is permanent.
FailOnce(c) ==
    /\ pc[c] = "flight" /\ ~Cancelled(c)
    /\ ReturnsError(c, "spent")

\* Any other error: pause and try again, while there is time.
FailAndPause(c) ==
    /\ pc[c] = "flight" /\ ~Cancelled(c)
    /\ \E pause \in Pauses :
          IF Spent(c, pause)
          THEN ReturnsError(c, "spent")
          ELSE /\ pc' = [pc EXCEPT ![c] = "pause"]
               /\ wake' = [wake EXCEPT ![c] = now + pause]
               /\ UNCHANGED <<now, start, attempts, outcome, slot, lastSent,
                              cancelled>>

\* Mutant of Abort: the limiter waits on another context.
AbortUnlessWaiting(c) ==
    /\ pc[c] \in {"flight", "pause"} /\ Cancelled(c)
    /\ Return(c, "cancelled")
    /\ UNCHANGED cancelled

\* The context ends the wait for a token, a request, and a pause.
Abort(c) ==
    /\ pc[c] \in {"wait", "flight", "pause"} /\ Cancelled(c)
    /\ Return(c, "cancelled")
    /\ UNCHANGED cancelled

-----------------------------------------------------------------------------
\* g.Wait has returned an error to backfill, which returns it to Run's group.
BatchFailed ==
    /\ cancelled = {"batch"} /\ \A c \in Batch : pc[c] \in {"idle", "done"}
    /\ cancelled' = {"batch", "group"}
    /\ UNCHANGED <<now, callVars, slot, lastSent>>

\* The process is told to stop.
Shutdown ==
    /\ cancelled = {}
    /\ cancelled' = {"batch", "group"}
    /\ UNCHANGED <<now, callVars, slot, lastSent>>

\* Timers and the node are on time: no call is past the end of its wait.
Urgent(c) ==
    pc[c] \in {"wait", "flight", "pause"} /\ (wake[c] <= now \/ Cancelled(c))

Tick ==
    /\ now < Horizon
    /\ \A c \in Call : ~Urgent(c)
    /\ \A c \in Batch : pc[c] = "idle" => Cancelled(c)
    /\ now' = now + 1
    /\ UNCHANGED <<callVars, slot, lastSent, cancelled>>

Progress(c) ==
    \/ TokenComes(c) \/ PauseEnds(c)
    \/ Succeed(c) \/ FailForGood(c) \/ FailAndPause(c) \/ Abort(c)

FetchesNext ==
    \/ \E c \in Call : Make(c) \/ Progress(c)
    \/ BatchFailed \/ Shutdown \/ Tick

\* Time goes on, a batch is launched as a whole, and a call whose wait is over
\* goes on.
FetchesSpec ==
    /\ FetchesInit /\ [][FetchesNext]_fetchVars
    /\ WF_fetchVars(Tick)
    /\ \A c \in Batch : WF_fetchVars(Make(c))
    /\ \A c \in Call : WF_fetchVars(Urgent(c) /\ Progress(c))
=============================================================================
