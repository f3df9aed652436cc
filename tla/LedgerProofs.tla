---------------------------- MODULE LedgerProofs ----------------------------
(* How often balancefill adds a transfer, whatever fails, on a chain that is *)
(* not reorganised.                                                          *)
EXTENDS StoreProofs

\* A key of table events is unique, counting the rows BulkCreate inserts.
UniqueLogs ==
    /\ \A r, s \in db.events : r.log = s.log => r = s
    /\ \A r \in inserted.events :
          /\ r.log \notin LogKeys(db)
          /\ \A s \in inserted.events : r.log = s.log => r = s

\* balancefill adds up what is stored at its cursor, not what was stored there.
LogsRead ==
    balpc = "upsert" =>
        \A l \in logs : [log |-> l, block_id |-> balancefillCursor] \in db.events

\* balancefill is launched once in the life of a process, with backfill.
LaunchInv ==
    /\ ~up => bfpc = "off"
    /\ bfpc \in {"off", "target"} => balpc = "off"

\* Something has gone wrong that ends the process: no goroutine gets there
\* without a fault.
Tainted == cancelled \/ sub \in {"lost", "closed", "err"}

\* The fault that will make balancefill return has been counted already.
Owed == IF Tainted /\ balpc # "done" THEN 1 ELSE 0

Passed(l) == \E r \in db.events : r.log = l /\ r.block_id < BalancedBelow

Credited(l) == IF Passed(l) THEN 1 ELSE 0

\* A transfer that was passed was added once; any addition more than that is
\* paid for by a fault of its own.
CreditInv == \A l \in Transfer : ledger[l] + Owed <= faults + Credited(l)

LInv == UniqueLogs /\ LogsRead /\ LaunchInv /\ CreditInv

-----------------------------------------------------------------------------
(* What the steps do to the parts of LInv.                                   *)

\* The rows an INSERT adds have keys that are new, and not two rows the same.
LEMMA NewLogsUnique ==
    ASSUME NEW d, NEW S
    PROVE  \A r \in NewLogRows(d, S) :
              /\ r.log \notin LogKeys(d)
              /\ \E b \in S : r.log \in LogsOf[b]
              /\ \A s \in NewLogRows(d, S) : r.log = s.log => r = s
<1> SUFFICES ASSUME NEW r \in NewLogRows(d, S), NEW s \in NewLogRows(d, S),
                    r.log = s.log
             PROVE  r = s
  BY DEF NewLogRows
<1>1. r \in LogRow /\ s \in LogRow
  BY DEF NewLogRows
<1>2. r.block_id <= s.block_id /\ s.block_id <= r.block_id
  BY DEF NewLogRows
<1>3. r.block_id = s.block_id
  BY <1>1, <1>2, DomainAssumption DEF LogRow, Height
<1> QED
  BY <1>1, <1>3 DEF LogRow

LEMMA UniqueLogsStep ==
    ASSUME IInv, DownIsOff, HInv, UniqueLogs, [Next]_vars
    PROVE  UniqueLogs'
<1>1. CASE db' = db /\ (BatchSame \/ BatchGone)
  BY <1>1 DEF UniqueLogs, BatchSame, BatchGone, EmptyStore, LogKeys
<1>2. CASE InsertBlocks \/ InsertTransactions
  <2>1. db' = db /\ inserted'.events = inserted.events
    BY <1>2 DEF InsertBlocks, InsertTransactions, IInv, TypeOK,
       TransactionsTypeOK, Store
  <2> QED
    BY <2>1 DEF UniqueLogs, LogKeys
<1>3. CASE InsertEvents
  <2>1. db' = db /\ inserted'.events = NewLogRows(db, results)
    BY <1>3 DEF InsertEvents, IInv, TypeOK, TransactionsTypeOK, Store
  <2> QED
    BY <2>1, NewLogsUnique DEF UniqueLogs, LogKeys
<1>4. CASE CommitBatch
  <2>1. db'.events = db.events \cup inserted.events /\ inserted'.events = {}
    BY <1>4 DEF CommitBatch, WithInserted, EmptyStore
  <2> QED
    BY <2>1 DEF UniqueLogs, LogKeys
<1>5. CASE DeleteBlock /\ BatchSame
  <2>1. db'.events \subseteq db.events /\ inserted' = inserted
    BY <1>5 DEF DeleteBlock, WithoutDeleted, BatchSame
  <2> QED
    BY <2>1 DEF UniqueLogs, LogKeys
<1>6. CASE Create /\ BatchSame
  <2>1. /\ db'.events = db.events \cup NewLogRows(db, {ffBlock})
        /\ inserted' = inserted
    BY <1>6 DEF Create, Insert, BatchSame
  <2>2. \A r \in inserted.events : r.log \notin LogsOf[ffBlock]
    BY <1>6 DEF Create, MeetsInserted, LogKeys
  <2>3. /\ \A r \in NewLogRows(db, {ffBlock}) : r.log \in LogsOf[ffBlock]
        /\ \A r \in NewLogRows(db, {ffBlock}) :
             /\ \A s \in db.events : s.log # r.log
             /\ \A s \in NewLogRows(db, {ffBlock}) : r.log = s.log => r = s
    BY NewLogsUnique DEF LogKeys
  <2>4. \A r, s \in db'.events : r.log = s.log => r = s
    BY <2>1, <2>3 DEF UniqueLogs
  <2>5. \A r \in inserted'.events :
           /\ \A s \in db'.events : s.log # r.log
           /\ \A s \in inserted'.events : r.log = s.log => r = s
    BY <2>1, <2>2, <2>3 DEF UniqueLogs, LogKeys
  <2> QED
    BY <2>4, <2>5 DEF UniqueLogs, LogKeys
<1>7. CASE (CheckReorg \/ DeleteEvents \/ DeleteTransactions) /\ BatchSame
  BY <1>1, <1>7 DEF CheckReorg, DeleteEvents, DeleteTransactions
<1> QED
  BY <1>1, <1>2, <1>3, <1>4, <1>5, <1>6, <1>7, StoreKinds

\* Nothing is deleted on a chain of one fork.
LEMMA EventsStay ==
    ASSUME IInv, DownIsOff, HInv, OneFork, [Next]_vars
    PROVE  db.events \subseteq db'.events
<1>1. ~DeleteBlock
  BY DEF DeleteBlock, OneFork
<1>2. db' = db \/ CommitBatch \/ Create
  BY <1>1, StoreKinds
     DEF InsertBlocks, InsertTransactions, InsertEvents, CheckReorg,
         DeleteEvents, DeleteTransactions
<1> QED
  BY <1>2 DEF CommitBatch, WithInserted, Create, Insert

\* Blocks of one fork do not conflict.
LEMMA OneForkAgrees ==
    ASSUME IInv, OneFork
    PROVE  /\ ~Conflict(db, results)
           /\ ffpc = "create" => ~Conflict(db, {ffBlock})
<1>1. \A b, c \in Block : b.fork = 0 /\ c.fork = 0 /\ b.id = c.id => b = c
  BY DEF Block, ZeroBlock
<1>2. /\ db.blocks \subseteq Block /\ results \subseteq Block /\ ffBlock \in Block
  BY DEF IInv, TypeOK, RepositoryTypeOK, Store, BackfillTypeOK,
         ForwardfillTypeOK
<1> QED
  BY <1>1, <1>2 DEF Conflict, OneFork

\* Only a fault taints.
LEMMA TaintStep ==
    ASSUME IInv, OneFork, [Next]_vars
    PROVE  /\ faults' \in {faults, faults + 1}
           /\ Tainted' => Tainted \/ faults' = faults + 1
<1> USE DEF Tainted
<1>1. CASE BackfillGoroutine
  <2>1. ~BulkCreateConflict
    BY OneForkAgrees DEF BulkCreateConflict
  <2>2. sub' = sub
    BY <1>1 DEF BackfillGoroutine, fetcherVars
  <2>3. CallReturns \/ CallFails
    BY <1>1, <2>1 DEF BackfillGoroutine, BackfillStep, GetBackfillCursor,
       UpToDate, FetchResult, InsertBlocks, InsertTransactions, InsertEvents,
       CommitBatch, UpdateBackfillCursor, BackfillFails
  <2> QED
    BY <2>2, <2>3 DEF CallReturns, CallFails, Fault, groupVars
<1>2. CASE ForwardfillGoroutine
  <2>1. ~CreateConflict
    BY OneForkAgrees DEF CreateConflict
  <2>2. sub' = sub
    BY <1>2 DEF ForwardfillGoroutine, ForwardfillStep, ReceiveHeader,
           ReceiveFromClosed, ReceiveError, ReceiveDone, ForwardfillReturns,
           FetchBlockPriority, CheckReorg, DeleteEvents, DeleteTransactions,
           DeleteBlock, PublishReorg, Create,
           CreateConflict, CreateNotCommitted, PublishBlock, PublishRows,
           ForwardfillFails
  <2>3. \/ CallReturns \/ CallFails \/ UNCHANGED groupVars
        \/ ReturnError /\ Tainted
        \/ Fault /\ UNCHANGED cancelled
    BY <1>2, <2>1 DEF ForwardfillGoroutine, ForwardfillStep, ReceiveHeader,
           ReceiveFromClosed, ReceiveError, ReceiveDone, ForwardfillReturns,
           FetchBlockPriority, CheckReorg, DeleteEvents, DeleteTransactions,
           DeleteBlock, PublishReorg, Create,
           CreateNotCommitted, PublishBlock, PublishRows, ForwardfillFails
  <2> QED
    BY <2>2, <2>3 DEF CallReturns, CallFails, ReturnError, Fault, groupVars
<1>3. CASE BalancefillGoroutine
  <2>1. sub' = sub
    BY <1>3 DEF BalancefillGoroutine, fetcherVars
  <2>2. CallReturns \/ CallFails \/ (ReturnError /\ cancelled)
    BY <1>3 DEF BalancefillGoroutine, BalancefillStep, GetBalancefillCursor,
       LeaveWait, BalancefillDone, GetLogs, BatchUpsertBalance,
       UpdateBalancefillCursor, BalancefillFails
  <2> QED
    BY <2>1, <2>2 DEF CallReturns, CallFails, ReturnError, Fault, groupVars
<1>4. CASE SubscribeGoroutine
  BY <1>4 DEF SubscribeGoroutine, Subscribe, SubscribeNewHead,
     SubscribeNewHeadFails, ConnectionLost, Resubscribe, SubscribeCancelled,
     SubscribeReturns, Fault
<1>5. CASE Process
  BY <1>5 DEF Process, Start, GetLastBlockId, GetLastBlockIdFails,
     BackfillSignal, Exit, ExtractPanics, Crash, ProcessEnds, Fault,
     groupVars, fetcherVars
<1>6. CASE Node
  BY <1>6 DEF Node, Mine, Reorg, groupVars
<1>7. CASE Interrupt \/ UNCHANGED vars
  BY <1>7 DEF Interrupt, Signal, Fault, vars, groupVars, fetcherVars
<1> QED
  BY <1>1, <1>2, <1>3, <1>4, <1>5, <1>6, <1>7 DEF Next

LEMMA LaunchStep ==
    ASSUME IInv, LaunchInv, [Next]_vars
    PROVE  LaunchInv'
<1> USE DEF LaunchInv
<1>1. CASE BackfillGoroutine
  BY <1>1 DEF BackfillGoroutine, BackfillStep, GetBackfillCursor,
     UpToDate, FetchResult, InsertBlocks, InsertTransactions, InsertEvents,
     CommitBatch, BulkCreateConflict,
     UpdateBackfillCursor, BackfillFails, StartBatch, CallReturns, CallFails,
     ReturnError, groupVars, balancefillVars
<1>2. CASE ForwardfillGoroutine
  <2>1. UNCHANGED <<bfpc, balpc>>
    BY <1>2 DEF ForwardfillGoroutine, backfillVars, balancefillVars
  <2>2. up' = up
    BY <1>2 DEF ForwardfillGoroutine, ForwardfillStep, ReceiveHeader,
           ReceiveFromClosed, ReceiveError, ReceiveDone, ForwardfillReturns,
           FetchBlockPriority, CheckReorg, DeleteEvents, DeleteTransactions,
           DeleteBlock, PublishReorg, Create,
           CreateConflict, CreateNotCommitted, PublishBlock, PublishRows,
           ForwardfillFails, CallReturns, CallFails, ReturnError, groupVars
  <2> QED
    BY <2>1, <2>2
<1>3. CASE BalancefillGoroutine
  <2>1. bfpc' = bfpc /\ balpc # "off"
    BY <1>3 DEF BalancefillGoroutine, backfillVars, BalancefillStep,
       GetBalancefillCursor, LeaveWait, BalancefillDone, GetLogs,
       BatchUpsertBalance, UpdateBalancefillCursor, BalancefillFails
  <2>2. up' = up
    BY <1>3 DEF BalancefillGoroutine, BalancefillStep, GetBalancefillCursor,
       LeaveWait, BalancefillDone, GetLogs, BatchUpsertBalance,
       UpdateBalancefillCursor, BalancefillFails, CallReturns, CallFails,
       ReturnError, groupVars
  <2> QED
    BY <2>1, <2>2
<1>4. CASE SubscribeGoroutine
  BY <1>4 DEF SubscribeGoroutine, Subscribe, SubscribeNewHead,
     SubscribeNewHeadFails, ConnectionLost, Resubscribe, SubscribeCancelled,
     SubscribeReturns, backfillVars, balancefillVars
<1>5. CASE Process
  BY <1>5 DEF Process, Start, GetLastBlockId, GetLastBlockIdFails,
     BackfillSignal, Exit, ExtractPanics, Crash, ProcessEnds, BackfillStops,
     BalancefillStops, balancefillVars, groupVars
<1>6. CASE Node \/ Interrupt \/ UNCHANGED vars
  BY <1>6 DEF Node, Interrupt, Signal, vars, groupVars, backfillVars,
     balancefillVars
<1> QED
  BY <1>1, <1>2, <1>3, <1>4, <1>5, <1>6 DEF Next

\* balancefill moves from its launch to its end, and starts anew only when the
\* process does.
LEMMA DoneStep ==
    ASSUME LaunchInv, [Next]_vars, balpc = "done"
    PROVE  balpc' = "done" \/ (balpc' = "off" /\ ~Tainted')
<1>1. bfpc \notin {"off", "target"}
  BY DEF LaunchInv
<1>2. CASE Process
  BY <1>1, <1>2 DEF Process, Start, GetLastBlockId, GetLastBlockIdFails,
     BackfillSignal, Exit, ExtractPanics, Crash, ProcessEnds, LaunchInv,
     BalancefillStops, balancefillVars, Tainted
<1>3. CASE BalancefillGoroutine
  BY <1>3 DEF BalancefillGoroutine, BalancefillStep, GetBalancefillCursor,
     LeaveWait, BalancefillDone, GetLogs, BatchUpsertBalance,
     UpdateBalancefillCursor, BalancefillFails
<1>4. CASE ~Process /\ ~BalancefillGoroutine
  BY <1>4 DEF Next, Node, Interrupt, SubscribeGoroutine, BackfillGoroutine,
     ForwardfillGoroutine, balancefillVars, vars
<1> QED
  BY <1>2, <1>3, <1>4

LEMMA OwedStep ==
    ASSUME IInv, OneFork, LaunchInv, [Next]_vars
    PROVE  /\ Owed \in {0, 1} /\ Owed' \in {0, 1}
           /\ Owed' > Owed => faults' = faults + 1
           /\ faults' \in {faults, faults + 1}
<1>1. balpc = "done" => Owed' = 0
  BY DoneStep DEF Owed
<1> QED
  BY <1>1, TaintStep DEF Owed

\* A step that adds nothing and passes no height backwards.
LEMMA CreditFrame ==
    ASSUME IInv, DownIsOff, HInv, OneFork, LaunchInv, CreditInv, [Next]_vars,
           UNCHANGED <<ledger, balpc, balancefillCursor>>
    PROVE  CreditInv'
<1> SUFFICES ASSUME NEW l \in Transfer
             PROVE  ledger[l] + Owed' <= faults' + Credited(l)'
  BY DEF CreditInv
<1>1. ledger[l] \in Nat /\ faults \in Nat
  BY GroupAssumption DEF IInv, TypeOK, BalancefillTypeOK, GroupTypeOK
<1>2. Passed(l) => Passed(l)'
  BY EventsStay DEF Passed, BalancedBelow
<1>3. Credited(l) \in {0, 1} /\ Credited(l)' \in {0, 1}
      /\ Credited(l) <= Credited(l)'
  BY <1>2 DEF Credited
<1>4. ledger[l] + Owed <= faults + Credited(l)
  BY DEF CreditInv
<1> QED
  BY <1>1, <1>3, <1>4, OwedStep

LEMMA BalancefillLInv ==
    ASSUME IInv, DownIsOff, HInv, OneFork, LInv, [Next]_vars, BalancefillGoroutine
    PROVE  LogsRead' /\ CreditInv'
<1> USE DEF LInv
<1>0. /\ db' = db /\ faults \in Nat /\ balancefillCursor \in Nat
      /\ \A l \in Transfer : ledger[l] \in Nat
      /\ \A r \in db.events : r.block_id \in Nat
  <2>1. db' = db
    BY DEF BalancefillGoroutine, BalancefillStep, GetBalancefillCursor,
       LeaveWait, BalancefillDone, GetLogs, BatchUpsertBalance,
       UpdateBalancefillCursor, BalancefillFails
  <2> QED
    BY <2>1, GroupAssumption, DomainAssumption
    DEF IInv, TypeOK, BalancefillTypeOK, GroupTypeOK, RepositoryTypeOK, Store,
        LogRow, Height
<1>1. \A l \in Transfer : Credited(l) \in {0, 1} /\ Credited(l)' \in {0, 1}
  BY DEF Credited
<1>2. CASE LeaveWait \/ GetBalancefillCursor \/ BalancefillDone
  <2>1. /\ UNCHANGED <<ledger, balancefillCursor, logs>>
        /\ balpc # "advance" /\ balpc' \notin {"advance", "upsert"}
    BY <1>2 DEF LeaveWait, GetBalancefillCursor, BalancefillDone
  <2>2. \A l \in Transfer : Credited(l)' = Credited(l)
    BY <1>0, <2>1 DEF Credited, Passed, BalancedBelow
  <2>3. CreditInv'
    BY <1>0, <1>1, <2>1, <2>2, OwedStep DEF CreditInv
  <2> QED
    BY <2>1, <2>3 DEF LogsRead
<1>3. CASE GetLogs
  <2>1. /\ UNCHANGED <<ledger, balancefillCursor>> /\ balpc = "read"
        /\ logs' = GetLogsByTopic(db, balancefillCursor)
        /\ balpc' \in {"upsert", "advance"}
    BY <1>3 DEF GetLogs
  <2>2. LogsRead'
    BY <1>0, <2>1 DEF LogsRead, GetLogsByTopic
  <2>3. \A l \in Transfer : Passed(l) => Passed(l)'
    BY <1>0, <2>1 DEF Passed, BalancedBelow
  <2>4. \A l \in Transfer : Credited(l) <= Credited(l)'
    BY <2>3 DEF Credited
  <2>5. CreditInv'
    BY <1>0, <1>1, <2>1, <2>4, OwedStep DEF CreditInv
  <2> QED
    BY <2>2, <2>5
<1>4. CASE BatchUpsertBalance
  <2>1. /\ ledger' = [l \in Transfer |-> IF l \in logs THEN ledger[l] + 1
                                                       ELSE ledger[l]]
        /\ UNCHANGED balancefillCursor
        /\ balpc = "upsert" /\ balpc' = "advance"
    BY <1>4 DEF BatchUpsertBalance
  <2>2. LogsRead'
    BY <2>1 DEF LogsRead
  <2>3. \A l \in Transfer : Passed(l) => Passed(l)'
    BY <1>0, <2>1 DEF Passed, BalancedBelow
  <2>4. ASSUME NEW l \in Transfer, l \in logs
        PROVE  ~Passed(l) /\ Passed(l)'
    <3> DEFINE r == [log |-> l, block_id |-> balancefillCursor]
    <3>1. r \in db.events /\ r.log = l /\ r.block_id = balancefillCursor
      BY <2>1, <2>4 DEF LogsRead
    <3>2. BalancedBelow = balancefillCursor
          /\ BalancedBelow' = balancefillCursor + 1
      BY <1>0, <2>1 DEF BalancedBelow
    <3>3. \A q \in db.events : q.log = l => q = r
      BY <3>1 DEF UniqueLogs
    <3>4. ~Passed(l)
      BY <1>0, <3>1, <3>2, <3>3 DEF Passed
    <3>5. Passed(l)'
      BY <1>0, <3>1, <3>2 DEF Passed
    <3> QED
      BY <3>4, <3>5
  <2>5. \A l \in Transfer :
          /\ Credited(l) <= Credited(l)'
          /\ l \in logs => Credited(l) + 1 <= Credited(l)'
    BY <2>3, <2>4 DEF Credited
  <2>6. CreditInv'
    BY <1>0, <1>1, <2>1, <2>5, OwedStep DEF CreditInv
  <2> QED
    BY <2>2, <2>6
<1>5. CASE UpdateBalancefillCursor
  <2>1. /\ UNCHANGED ledger /\ balpc = "advance" /\ balpc' = "wait"
        /\ balancefillCursor' = balancefillCursor + 1
    BY <1>5 DEF UpdateBalancefillCursor
  <2>2. BalancedBelow' = BalancedBelow
    BY <1>0, <2>1 DEF BalancedBelow
  <2>3. \A l \in Transfer : Credited(l)' = Credited(l)
    BY <1>0, <2>2 DEF Credited, Passed
  <2>4. CreditInv'
    BY <1>0, <1>1, <2>1, <2>3, OwedStep DEF CreditInv
  <2> QED
    BY <2>1, <2>4 DEF LogsRead
<1>6. CASE BalancefillFails
  <2>1. /\ UNCHANGED <<ledger, balancefillCursor>> /\ balpc' = "done"
        /\ balpc # "done" /\ Owed' = 0
        /\ cancelled \/ faults' = faults + 1
    BY <1>6 DEF BalancefillFails, CallFails, Fault, Owed
  <2>2. cancelled => Owed = 1
    BY <2>1 DEF Owed, Tainted
  <2>3. CreditInv'
    BY <1>0, <1>1, <2>1, <2>2, OwedStep DEF CreditInv
  <2> QED
    BY <2>1, <2>3 DEF LogsRead
<1> QED
  BY <1>2, <1>3, <1>4, <1>5, <1>6 DEF BalancefillGoroutine, BalancefillStep

LEMMA ProcessLInv ==
    ASSUME IInv, DownIsOff, HInv, OneFork, LInv, [Next]_vars, Process
    PROVE  LogsRead' /\ CreditInv'
<1> USE DEF LInv
<1>0. /\ db' = db /\ faults \in Nat /\ balancefillCursor \in Nat
      /\ \A l \in Transfer : ledger[l] \in Nat
      /\ UNCHANGED <<ledger, balancefillCursor>>
  <2>1. db' = db /\ UNCHANGED <<ledger, balancefillCursor>>
    BY DEF Process, Start, GetLastBlockId, GetLastBlockIdFails, BackfillSignal,
       Exit, ExtractPanics, Crash, ProcessEnds, BalancefillStops, databaseVars,
       balancefillVars
  <2> QED
    BY <2>1, GroupAssumption, DomainAssumption
    DEF IInv, TypeOK, BalancefillTypeOK, GroupTypeOK, Height
<1>1. \A l \in Transfer : Credited(l) \in {0, 1} /\ Credited(l)' \in {0, 1}
  BY DEF Credited
<1>2. CASE balpc = "advance"
  <2>1. CASE balpc' = "advance"
    BY <1>0, <1>2, <2>1, CreditFrame DEF LogsRead
  <2>2. CASE balpc' # "advance"
    <3>1. /\ balpc' = "off" /\ ~Tainted' /\ faults' = faults + 1
      BY <1>2, <2>2 DEF Process, Start, GetLastBlockId, GetLastBlockIdFails,
         BackfillSignal, Exit, ExtractPanics, Crash, ProcessEnds, Fault,
         BalancefillStops, balancefillVars, LaunchInv, Tainted
    <3>2. Owed' = 0
      BY <3>1 DEF Owed
    <3>3. CreditInv'
      BY <1>0, <1>1, <3>1, <3>2, OwedStep DEF CreditInv
    <3> QED
      BY <3>1, <3>3 DEF LogsRead
  <2> QED
    BY <2>1, <2>2
<1>3. CASE balpc # "advance"
  <2>1. balpc' # "advance" /\ (balpc' = "upsert" => balpc = "upsert" /\ logs' = logs)
    BY <1>3 DEF Process, Start, GetLastBlockId, GetLastBlockIdFails,
       BackfillSignal, Exit, ExtractPanics, Crash, ProcessEnds,
       BalancefillStops, balancefillVars
  <2>2. \A l \in Transfer : Credited(l)' = Credited(l)
    BY <1>0, <1>3, <2>1 DEF Credited, Passed, BalancedBelow
  <2>3. CreditInv'
    BY <1>0, <1>1, <2>2, OwedStep DEF CreditInv
  <2> QED
    BY <1>0, <2>1, <2>3 DEF LogsRead
<1> QED
  BY <1>2, <1>3

LEMMA LInvStep ==
    ASSUME IInv, DownIsOff, HInv, OneFork, LInv, [Next]_vars
    PROVE  LInv'
<1>1. CASE BalancefillGoroutine \/ Process
  BY <1>1, BalancefillLInv, ProcessLInv, UniqueLogsStep, LaunchStep DEF LInv
<1>2. CASE ~BalancefillGoroutine /\ ~Process
  <2>1. UNCHANGED balancefillVars
    BY <1>2 DEF Next, Node, Interrupt, SubscribeGoroutine, BackfillGoroutine,
       ForwardfillGoroutine, vars
  <2>2. LogsRead'
    BY <2>1, EventsStay DEF LInv, LogsRead, balancefillVars
  <2>3. CreditInv'
    BY <2>1, CreditFrame DEF LInv, balancefillVars
  <2> QED
    BY <2>2, <2>3, UniqueLogsStep, LaunchStep DEF LInv
<1> QED
  BY <1>1, <1>2

\* On a chain that is never reorganised, no transfer is added more than once for
\* nothing: every further time there was a failure, a crash, a lost
\* subscription or a signal of its own between the addition and the cursor.
THEOREM CreditsAreBounded ==
    ASSUME MaxReorgs = 0, Lagging = FALSE
    PROVE  Safety => []CreditsBounded
<1>1. Init => CInv
  BY InitCInv
<1>2. Init => LInv
  <2> SUFFICES ASSUME Init PROVE LInv
    OBVIOUS
  <2>1. UniqueLogs /\ LogsRead /\ LaunchInv
    BY DEF Init, RepositoryInit, TransactionsInit, EmptyStore,
       BalancefillInit, BackfillInit, UniqueLogs, LogsRead, LaunchInv
  <2>2. \A l \in Transfer : ledger[l] = 0 /\ Owed = 0 /\ faults = 0
    BY DEF Init, GroupInit, FetcherInit, BalancefillInit, Owed, Tainted
  <2>3. CreditInv
    BY <2>2 DEF CreditInv, Credited
  <2> QED
    BY <2>1, <2>3 DEF LInv
<1>3. IInv /\ CInv /\ [Next]_vars => CInv'
  BY NextCInv
<1>4. IInv /\ DownIsOff /\ HInv /\ CInv /\ LInv /\ [Next]_vars => LInv'
  BY LInvStep DEF CInv
<1>5. IInv /\ LInv => CreditsBounded
  <2> SUFFICES ASSUME IInv, LInv, NEW l \in Transfer
               PROVE  ledger[l] <= 1 + faults
    BY DEF CreditsBounded
  <2>1. ledger[l] \in Nat /\ faults \in Nat
    BY GroupAssumption DEF IInv, TypeOK, BalancefillTypeOK, GroupTypeOK
  <2>2. Owed \in {0, 1} /\ Credited(l) \in {0, 1}
    BY DEF Owed, Credited
  <2> QED
    BY <2>1, <2>2 DEF LInv, CreditInv
<1> QED
  BY <1>1, <1>2, <1>3, <1>4, <1>5, InitIInv, NextIInv, InitDown, NextDown,
     InitHInv, NextHInv, PTL DEF Safety
=============================================================================
