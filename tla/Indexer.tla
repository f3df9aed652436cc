------------------------------ MODULE Indexer -------------------------------
(* cmd/indexer: IndexerService.Run (core/services/indexer.go) launches       *)
(* forwardfill, asks for the height of the chain, then launches backfill and *)
(* balancefill; the three share the database and one errgroup.  When all     *)
(* have returned the process exits with an error and is started again.       *)
EXTENDS Backfill, Forwardfill, Balancefill

\* Is the chain quiet while the indexer starts?  Then no block is mined between
\* GetLastBlockId and the subscription, and no block is replaced before
\* backfill has returned.
CONSTANT QuietStart

ASSUME IndexerAssumption == QuietStart \in BOOLEAN

vars == <<groupVars, fetcherVars, databaseVars, backfillVars, forwardfillVars,
          balancefillVars>>

TypeOK ==
    /\ GroupTypeOK
    /\ RepositoryTypeOK
    /\ TransactionsTypeOK
    /\ FetcherTypeOK
    /\ BackfillTypeOK
    /\ ForwardfillTypeOK
    /\ BalancefillTypeOK

Init ==
    /\ GroupInit
    /\ RepositoryInit
    /\ TransactionsInit
    /\ FetcherInit
    /\ BackfillInit
    /\ ForwardfillInit
    /\ BalancefillInit

-----------------------------------------------------------------------------
(* The process.                                                              *)

\* Mutant of Start: -reindex resets the cursor of balancefill, too, and not the
\* balances.
StartAfresh(reindex) ==
    /\ ~up
    /\ up' = TRUE
    /\ backfillCursor' = IF reindex THEN 0 ELSE backfillCursor
    /\ balancefillCursor' = IF reindex THEN 0 ELSE balancefillCursor
    /\ sub' = "dial"
    /\ ffpc' = "select"
    /\ bfpc' = "target"
    /\ UNCHANGED <<cancelled, faults, chainVars, headers, missed, databaseVars,
                   backfillLocals, backfillChan, forwardfillLocals, stream,
                   balpc, logs, ledger>>

\* main, then Run up to GetLastBlockId; forwardfill is launched first and
\* launches Subscribe.  With -reindex the backfill cursor, and nothing else,
\* is reset.
Start(reindex) ==
    /\ ~up
    /\ up' = TRUE
    /\ backfillCursor' = IF reindex THEN 0 ELSE backfillCursor
    /\ sub' = "dial"
    /\ ffpc' = "select"
    /\ bfpc' = "target"
    /\ UNCHANGED <<cancelled, faults, chainVars, headers, missed, databaseVars,
                   backfillLocals, backfillChan, forwardfillLocals, stream,
                   balancefillVars>>

\* GetLastBlockId does not use the context of the group.
GetLastBlockId ==
    /\ up /\ bfpc = "target"
    /\ targetId' = head
    /\ bfpc' = "cursor"
    /\ balpc' = "signal"
    /\ UNCHANGED <<groupVars, fetcherVars, databaseVars, curr, pending,
                   results, backfillCursor, backfillChan, forwardfillVars, logs,
                   balancefillCursor, ledger>>

\* Run cancels the group and waits for forwardfill.
GetLastBlockIdFails ==
    /\ up /\ bfpc = "target" /\ Fault
    /\ cancelled' = TRUE
    /\ bfpc' = "done"
    /\ UNCHANGED <<up, fetcherVars, databaseVars, backfillLocals,
                   backfillCursor, backfillChan, forwardfillVars, balancefillVars>>

\* balancefill's goroutine receives the signal of a completed backfill.
BackfillSignal ==
    /\ up /\ balpc = "signal" /\ backfillChan
    /\ backfillChan' = FALSE
    /\ balpc' = "cursor"
    /\ UNCHANGED <<groupVars, fetcherVars, databaseVars, bfpc,
                   backfillLocals, backfillCursor, forwardfillVars, logs,
                   balancefillCursor, ledger>>

\* The process is gone, with everything it had in memory and with its
\* connections.
ProcessEnds ==
    /\ up' = FALSE
    /\ cancelled' = FALSE
    /\ sub' = "off" /\ headers' = <<>> /\ missed' = FALSE
    /\ RollBack
    /\ BackfillStops
    /\ ForwardfillStops
    /\ BalancefillStops
    /\ UNCHANGED <<chainVars, db>>

\* g.Wait returns in Run, and main exits.
Exit ==
    /\ up
    /\ bfpc = "done" /\ ffpc = "done" /\ balpc \in {"off", "done"}
    /\ ProcessEnds
    /\ UNCHANGED faults

\* A log with too few topics: the goroutine panics, and the process with it.
ExtractPanics ==
    /\ up
    /\ balpc = "upsert" /\ ~Extractable
    /\ ProcessEnds
    /\ UNCHANGED faults

\* The process is killed.
Crash == up /\ Fault /\ ProcessEnds

Process ==
    \/ \E reindex \in BOOLEAN : Start(reindex)
    \/ GetLastBlockId \/ GetLastBlockIdFails \/ BackfillSignal
    \/ Exit \/ ExtractPanics \/ Crash

-----------------------------------------------------------------------------
(* The whole.                                                                *)

Node ==
    /\ \/ /\ Mine
          /\ QuietStart => \/ sub = "on"
                           \/ bfpc \in {"off", "target"}
       \/ /\ \E n, m \in Height : Reorg(n, m)
          /\ QuietStart => sub = "on" /\ bfpc = "done"
    /\ UNCHANGED <<groupVars, databaseVars, backfillVars, forwardfillVars,
                   balancefillVars>>

Interrupt ==
    Signal /\ UNCHANGED <<fetcherVars, databaseVars, backfillVars,
                          forwardfillVars, balancefillVars>>

SubscribeGoroutine ==
    Subscribe /\ UNCHANGED <<databaseVars, backfillVars, forwardfillVars,
                             balancefillVars>>

BackfillGoroutine ==
    /\ BackfillStep
    /\ UNCHANGED <<fetcherVars, deleted, forwardfillVars, balancefillVars>>

ForwardfillGoroutine ==
    /\ ForwardfillStep
    /\ UNCHANGED <<chainVars, missed, inserted, backfillVars, balancefillVars>>

BalancefillGoroutine ==
    /\ BalancefillStep
    /\ UNCHANGED <<fetcherVars, inserted, deleted, backfillVars,
                   forwardfillVars>>

Next ==
    \/ Process
    \/ Node
    \/ Interrupt
    \/ SubscribeGoroutine
    \/ BackfillGoroutine
    \/ ForwardfillGoroutine
    \/ BalancefillGoroutine

\* A runnable goroutine runs, and a process that exited is started again
\* (restart: on-failure).  Go's select picks among the ready cases at random,
\* so a case that is ready again and again is picked.  Nothing obliges the
\* chain to grow or a fault to happen.
SubscribeProgress ==
    SubscribeNewHead \/ SubscribeNewHeadFails \/ Resubscribe \/ SubscribeReturns

Fairness ==
    /\ WF_vars(\E reindex \in BOOLEAN : Start(reindex))
    /\ WF_vars(GetLastBlockId \/ GetLastBlockIdFails)
    /\ WF_vars(BackfillSignal)
    /\ WF_vars(Exit)
    /\ WF_vars(ExtractPanics)
    /\ WF_vars(SubscribeGoroutine /\ SubscribeProgress)
    /\ WF_vars(BackfillGoroutine)
    /\ WF_vars(ForwardfillGoroutine)
    /\ SF_vars(ForwardfillGoroutine /\ (ReceiveError \/ ReceiveDone))
    /\ WF_vars(BalancefillGoroutine)

Safety == Init /\ [][Next]_vars

Spec == Safety /\ Fairness
=============================================================================
