------------------------------- MODULE Group --------------------------------
(* The process of cmd/indexer and the errgroup of IndexerService.Run: the    *)
(* process is up or down; the first goroutine that returns an error cancels  *)
(* the context all of them use.  Every call that leaves the process (RPC,    *)
(* Postgres, Redis) may fail, at most MaxFaults times in a behaviour; a      *)
(* crash, a signal and a lost subscription count as well.                    *)
(*                                                                           *)
(* Calls on a cancelled context fail.  A call that was in flight when the    *)
(* context was cancelled either took effect, which is the behaviour where it *)
(* returned first, or did not, which is the behaviour where it fails.  In    *)
(* the same way a call that took effect and reports an error is a call that  *)
(* returns, followed by a failure of the next one.                           *)
EXTENDS Integers

CONSTANT MaxFaults      \* bound on injected failures

ASSUME GroupAssumption == MaxFaults \in Nat

VARIABLES
    up,         \* is the process running?
    cancelled,  \* is the context of the group cancelled?
    faults      \* failures injected so far

groupVars == <<up, cancelled, faults>>

GroupTypeOK ==
    /\ up \in BOOLEAN
    /\ cancelled \in BOOLEAN
    /\ faults \in 0..MaxFaults

GroupInit == up = FALSE /\ cancelled = FALSE /\ faults = 0

\* A call on the group's context returns without an error.
CallReturns == up /\ ~cancelled /\ UNCHANGED groupVars

\* Something outside the process goes wrong.
Fault == faults < MaxFaults /\ faults' = faults + 1

\* A call fails: the goroutine returns the error and the group is cancelled.
CallFails ==
    /\ up
    /\ \/ cancelled /\ UNCHANGED faults
       \/ ~cancelled /\ Fault
    /\ cancelled' = TRUE
    /\ UNCHANGED up

\* A goroutine returns an error that no fault was needed for.
ReturnError == up /\ cancelled' = TRUE /\ UNCHANGED <<up, faults>>

\* SIGINT or SIGTERM: signal.NotifyContext cancels the root context.
Signal == up /\ ~cancelled /\ Fault /\ cancelled' = TRUE /\ UNCHANGED up
=============================================================================
