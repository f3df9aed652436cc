---------------------------- MODULE Balancefill -----------------------------
(* The goroutine balancefill (core/services/balancefill.go): height by       *)
(* height, Lag blocks behind the newest stored one, it reads the stored      *)
(* transfer logs and adds what they move to table wallet_balance, then moves *)
(* its cursor on, in a statement of its own.                                 *)
(*                                                                           *)
(* Every amount a log moves is added to rows of wallet_balance, and addition *)
(* commutes; so the table is represented by how many times each transfer was *)
(* added, whatever the wallets and amounts.                                  *)
EXTENDS Repository, Group

CONSTANTS
    Lag,        \* lagFinalized, 96 in the code
    ShortTopics \* transfers with fewer topics than extraction indexes: a
                \* Transfer whose addresses are not indexed, for one

ASSUME BalancefillAssumption ==
    /\ Lag \in Nat
    /\ ShortTopics \subseteq Transfer

VARIABLES
    balpc,              \* what balancefill does next
    logs,               \* the transfers read for the current height
    balancefillCursor,  \* table balancefill_cursor, the next height; the
                        \* local blockCursor equals it up to "advance"
    ledger              \* how often each transfer was added to wallet_balance

balancefillVars == <<balpc, logs, balancefillCursor, ledger>>

\* off      not launched
\* signal   waiting for backfillChan
\* cursor   reading the cursor
\* wait     at the top of the loop: enough blocks, or 12 more seconds
\* read     reading the logs of the height
\* upsert   adding them up
\* advance  moving the cursor
\* done     returned
BalancefillPc == {"off", "signal", "cursor", "wait", "read", "upsert",
                  "advance", "done"}

BalancefillTypeOK ==
    /\ balpc \in BalancefillPc
    /\ logs \subseteq Transfer
    /\ balancefillCursor \in Height
    /\ ledger \in [Transfer -> Nat]

BalancefillInit ==
    /\ balpc = "off"
    /\ logs = {}
    /\ balancefillCursor = 0
    /\ ledger = [l \in Transfer |-> 0]

BalancefillStops ==
    /\ balpc' = "off"
    /\ logs' = {}
    /\ UNCHANGED <<balancefillCursor, ledger>>

-----------------------------------------------------------------------------
GetBalancefillCursor ==
    /\ balpc = "cursor" /\ CallReturns
    /\ balpc' = "wait"
    /\ UNCHANGED <<db, logs, balancefillCursor, ledger>>

\* Mutant of Finalized: every stored height is final.
FinalizedIfStored(n) == MaxIndexedBlockAbove(db, n - 1)

\* Mutant of Finalized: the newest height alone is not final.
FinalizedBelowMax(n) == MaxIndexedBlockAbove(db, n)

\* Is height n deep enough below the newest stored block?  The code's
\* maxBlock >= lag and n < maxBlock - lag: the first keeps the second, on
\* unsigned integers, from wrapping around.
Finalized(n) == MaxIndexedBlockAbove(db, n + Lag)

\* GetMaxIndexedBlock finds enough blocks.  While it does not, balancefill
\* sleeps 12 seconds and asks again, which changes nothing.
LeaveWait ==
    /\ balpc = "wait" /\ CallReturns
    /\ Finalized(balancefillCursor)
    /\ balpc' = "read"
    /\ UNCHANGED <<db, logs, balancefillCursor, ledger>>

\* Mutant of BalancefillDone: backfillChan is awaited without ctx.Done().
BalancefillDoneAwake ==
    /\ balpc = "wait" /\ cancelled /\ ReturnError
    /\ balpc' = "done"
    /\ UNCHANGED <<db, logs, balancefillCursor, ledger>>

\* ctx.Done(), on backfillChan's select, at the top of the loop or asleep.
BalancefillDone ==
    /\ balpc \in {"signal", "wait"} /\ cancelled /\ ReturnError
    /\ balpc' = "done"
    /\ UNCHANGED <<db, logs, balancefillCursor, ledger>>

GetLogs ==
    /\ balpc = "read" /\ CallReturns
    /\ logs' = GetLogsByTopic(db, balancefillCursor)
    /\ balpc' = IF logs' = {} THEN "advance" ELSE "upsert"
    /\ UNCHANGED <<db, balancefillCursor, ledger>>

\* extractBalanceEntriesFromLog gets through the logs of the height: event data
\* it cannot decode yields nothing, a missing topic an index out of range.
Extractable == logs \cap ShortTopics = {}

\* BatchUpsertBalance(aggregateSameEntries(entries)): amount + EXCLUDED.amount.
BatchUpsertBalance ==
    /\ balpc = "upsert" /\ Extractable /\ CallReturns
    /\ ledger' = [l \in Transfer |-> IF l \in logs THEN ledger[l] + 1
                                                   ELSE ledger[l]]
    /\ logs' = {}
    /\ balpc' = "advance"
    /\ UNCHANGED <<db, balancefillCursor>>

UpdateBalancefillCursor ==
    /\ balpc = "advance" /\ CallReturns
    /\ balancefillCursor' = balancefillCursor + 1
    /\ balpc' = "wait"
    /\ UNCHANGED <<db, logs, ledger>>

BalancefillFails ==
    /\ \/ balpc \in {"cursor", "wait", "read", "advance"}
       \/ balpc = "upsert" /\ Extractable
    /\ CallFails
    /\ balpc' = "done"
    /\ logs' = {}
    /\ UNCHANGED <<db, balancefillCursor, ledger>>

BalancefillStep ==
    \/ GetBalancefillCursor \/ LeaveWait \/ BalancefillDone
    \/ GetLogs \/ BatchUpsertBalance \/ UpdateBalancefillCursor
    \/ BalancefillFails
=============================================================================
