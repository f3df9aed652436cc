--------------------------- MODULE IndexerProofs ----------------------------
(* Theorems about Indexer, for every value of its constants.                 *)
EXTENDS IndexerProperties, TLAPS

\* The type invariant is not inductive: that the balancefill cursor stays a
\* height rests on the check made before the height was read.
BalancefillBelowMax ==
    balpc \in {"read", "upsert", "advance"} => balancefillCursor < MaxId

IInv == TypeOK /\ BalancefillBelowMax

-----------------------------------------------------------------------------
(* Types of the values the steps compute.                                    *)

\* A canonical block and a null answer are blocks.
LEMMA FetchBlockType ==
    ASSUME FetcherTypeOK, NEW n \in Height
    PROVE  FetchBlock(n) \subseteq Block
<1>1. NodeBlock(n) \in Block
  BY DEF NodeBlock, FetcherTypeOK, Block
<1>2. ZeroBlock \in Block
  BY DEF Block
<1> QED
  BY <1>1, <1>2 DEF FetchBlock

\* Block ids are heights.
LEMMA BlockId ==
    ASSUME NEW b \in Block
    PROVE  b.id \in Height
BY DomainAssumption DEF Block, ZeroBlock, Height

\* What is inserted and what is left after a deletion are tables.
LEMMA InsertType ==
    ASSUME NEW d \in Store, NEW S \in SUBSET Block
    PROVE  Insert(d, S) \in Store
BY DEF Store, Insert, NewTxRows, NewLogRows

LEMMA CommitType ==
    ASSUME RepositoryTypeOK, TransactionsTypeOK, NEW n
    PROVE  /\ EmptyStore \in Store
           /\ NothingDeleted \in [txs: SUBSET TxRow, events: SUBSET LogRow]
           /\ WithInserted \in Store
           /\ WithoutDeleted(n) \in Store
BY DEF RepositoryTypeOK, TransactionsTypeOK, Store, EmptyStore, NothingDeleted,
       WithInserted, WithoutDeleted

\* A batch lies between its first height and the target.
LEMMA BatchType ==
    ASSUME BackfillTypeOK, NEW first \in Nat, first <= targetId
    PROVE  /\ first \in Height
           /\ BatchEnd(first) \in Height
           /\ first <= BatchEnd(first)
           /\ BatchEnd(first) <= targetId
           /\ first..BatchEnd(first) \subseteq Height
BY BackfillAssumption, DomainAssumption DEF BackfillTypeOK, BatchEnd, Height

-----------------------------------------------------------------------------
(* IInv is inductive: one lemma per goroutine.                               *)

LEMMA InitIInv == Init => IInv
<1> SUFFICES ASSUME Init PROVE IInv
  OBVIOUS
<1> USE DomainAssumption, FetcherAssumption DEF Init, Height
<1>1. GroupTypeOK
  <2>1. up \in BOOLEAN /\ cancelled \in BOOLEAN
    BY DEF GroupInit
  <2>2. faults \in 0..MaxFaults
    BY GroupAssumption DEF GroupInit
  <2> QED
    BY <2>1, <2>2 DEF GroupTypeOK
<1>2. RepositoryTypeOK /\ TransactionsTypeOK
  BY DEF RepositoryInit, EmptyStore, RepositoryTypeOK, Store,
         TransactionsInit, TransactionsTypeOK, NothingDeleted
<1>3. FetcherTypeOK
  <2>1. missed \in BOOLEAN
    BY DEF FetcherInit
  <2> QED
    BY <2>1 DEF FetcherInit, FetcherTypeOK, Fork, SubState
<1>4. BackfillTypeOK
  <2>1. backfillChan \in BOOLEAN
    BY DEF BackfillInit
  <2> QED
    BY <2>1 DEF BackfillInit, BackfillTypeOK, BackfillPc
<1>5. ForwardfillTypeOK
  <2>1. committed \in BOOLEAN
    BY DEF ForwardfillInit
  <2> QED
    BY <2>1 DEF ForwardfillInit, ForwardfillTypeOK, ForwardfillPc, Block
<1>6. BalancefillTypeOK /\ BalancefillBelowMax
  BY DEF BalancefillInit, BalancefillTypeOK, BalancefillPc, BalancefillBelowMax
<1> QED
  BY <1>1, <1>2, <1>3, <1>4, <1>5, <1>6 DEF IInv, TypeOK

\* The group, whatever the calls do to it.
LEMMA CallType ==
    ASSUME GroupTypeOK, CallReturns \/ CallFails \/ ReturnError \/ Signal
    PROVE  GroupTypeOK'
<1>1. up' \in BOOLEAN /\ cancelled' \in BOOLEAN
  BY DEF GroupTypeOK, CallReturns, CallFails, ReturnError, Signal, groupVars
<1>2. faults' \in 0..MaxFaults
  BY GroupAssumption
     DEF GroupTypeOK, CallReturns, CallFails, ReturnError, Signal, Fault,
         groupVars
<1> QED
  BY <1>1, <1>2 DEF GroupTypeOK

LEMMA BackfillIInv ==
    ASSUME IInv, BackfillGoroutine
    PROVE  IInv'
<1> USE DEF IInv, TypeOK, BackfillGoroutine
<1>1. FetcherTypeOK' /\ ForwardfillTypeOK' /\ BalancefillTypeOK'
      /\ BalancefillBelowMax'
  BY DEF fetcherVars, forwardfillVars, forwardfillLocals, balancefillVars,
         FetcherTypeOK, ForwardfillTypeOK, BalancefillTypeOK,
         BalancefillBelowMax
<1>2. GroupTypeOK'
  BY CallType DEF BackfillStep, GetBackfillCursor, UpToDate, FetchResult,
         InsertBlocks, InsertTransactions, InsertEvents, CommitBatch,
         BulkCreateConflict, UpdateBackfillCursor, BackfillFails
<1>3. RepositoryTypeOK' /\ TransactionsTypeOK'
  <2>1. CASE CommitBatch
    BY <2>1, CommitType DEF CommitBatch, RepositoryTypeOK, TransactionsTypeOK
  <2>2. CASE InsertBlocks \/ InsertTransactions \/ InsertEvents
    BY <2>2 DEF InsertBlocks, InsertTransactions, InsertEvents,
       RepositoryTypeOK, TransactionsTypeOK, Store, NewTxRows, NewLogRows,
       BackfillTypeOK
  <2>3. CASE ~(CommitBatch \/ InsertBlocks \/ InsertTransactions
               \/ InsertEvents)
    <3>1. db' = db /\ inserted' \in {inserted, EmptyStore}
      BY <2>3 DEF BackfillStep, GetBackfillCursor, UpToDate, FetchResult,
         BulkCreateConflict, UpdateBackfillCursor, BackfillFails
    <3> QED
      BY <3>1, CommitType DEF RepositoryTypeOK, TransactionsTypeOK
  <2> QED
    BY <2>1, <2>2, <2>3
<1>4. BackfillTypeOK'
  <2>1. CASE GetBackfillCursor
    <3>1. ResumeAt \in Nat
      BY BackfillAssumption, DomainAssumption
         DEF ResumeAt, BackfillTypeOK, Height
    <3> QED
      BY <2>1, <3>1, BatchType
         DEF GetBackfillCursor, StartBatch, BackfillTypeOK, BackfillPc
  <2>2. CASE UpToDate
    BY <2>2 DEF UpToDate, backfillLocals, BackfillTypeOK, BackfillPc
  <2>3. ASSUME NEW n \in Height, FetchResult(n)
        PROVE  BackfillTypeOK'
    BY <2>3, FetchBlockType
       DEF FetchResult, BackfillTypeOK
  <2>4. CASE InsertBlocks \/ InsertTransactions \/ InsertEvents
             \/ CommitBatch
    BY <2>4 DEF InsertBlocks, InsertTransactions, InsertEvents, CommitBatch,
       backfillLocals, BackfillTypeOK, BackfillPc
  <2>5. CASE BulkCreateConflict
    BY <2>5 DEF BulkCreateConflict, BackfillTypeOK, BackfillPc
  <2>6. CASE UpdateBackfillCursor
    <3>1. BatchEnd(curr) \in Height
      BY BackfillAssumption, DomainAssumption
         DEF BatchEnd, BackfillTypeOK, Height
    <3>2. CASE BatchEnd(curr) < targetId
      <4>1. BatchEnd(curr) + 1 \in Nat /\ BatchEnd(curr) + 1 <= targetId
        BY <3>1, <3>2, DomainAssumption DEF Height, BackfillTypeOK
      <4> QED
        BY <2>6, <3>1, <3>2, <4>1, BatchType
           DEF UpdateBackfillCursor, StartBatch, BackfillTypeOK, BackfillPc
    <3>3. CASE ~(BatchEnd(curr) < targetId)
      BY <2>6, <3>1, <3>3
         DEF UpdateBackfillCursor, BackfillTypeOK, BackfillPc
    <3> QED
      BY <3>2, <3>3
  <2>7. CASE BackfillFails
    BY <2>7 DEF BackfillFails, BackfillTypeOK, BackfillPc
  <2> QED
    BY <2>1, <2>2, <2>3, <2>4, <2>5, <2>6, <2>7 DEF BackfillStep
<1> QED
  BY <1>1, <1>2, <1>3, <1>4

LEMMA ForwardfillIInv ==
    ASSUME IInv, ForwardfillGoroutine
    PROVE  IInv'
<1> USE DEF IInv, TypeOK, ForwardfillGoroutine
<1>1. BackfillTypeOK' /\ BalancefillTypeOK' /\ BalancefillBelowMax'
  BY DEF backfillVars, backfillLocals, balancefillVars, BackfillTypeOK,
         BalancefillTypeOK, BalancefillBelowMax
<1>2. GroupTypeOK'
  <2>1. CASE ReceiveHeader \/ ReceiveFromClosed
    BY <2>1 DEF ReceiveHeader, ReceiveFromClosed, groupVars, GroupTypeOK
  <2>2. CASE CreateNotCommitted
    <3>1. up' \in BOOLEAN /\ cancelled' \in BOOLEAN
      BY <2>2 DEF CreateNotCommitted, GroupTypeOK
    <3>2. faults' \in 0..MaxFaults
      BY <2>2, GroupAssumption DEF CreateNotCommitted, Fault, GroupTypeOK
    <3> QED
      BY <3>1, <3>2 DEF GroupTypeOK
  <2>3. CASE ~(ReceiveHeader \/ ReceiveFromClosed \/ CreateNotCommitted)
    BY <2>3, CallType
       DEF ForwardfillStep, ReceiveError, ReceiveDone, ForwardfillReturns,
           FetchBlockPriority, CheckReorg, DeleteEvents, DeleteTransactions,
           DeleteBlock, PublishReorg, Create, CreateConflict, PublishBlock,
           PublishRows, ForwardfillFails
  <2> QED
    BY <2>1, <2>2, <2>3
<1>3. FetcherTypeOK'
  <2>1. headers' \in Seq(Height)
    <3>1. CASE ReceiveHeader
      BY <3>1 DEF ReceiveHeader, FetcherTypeOK
    <3>2. CASE ~ReceiveHeader
      BY <3>2 DEF ForwardfillStep, ReceiveFromClosed, ReceiveError,
         ReceiveDone, ForwardfillReturns, FetchBlockPriority, CheckReorg,
         DeleteEvents, DeleteTransactions, DeleteBlock, PublishReorg, Create,
         CreateConflict, CreateNotCommitted, PublishBlock, PublishRows,
         ForwardfillFails, FetcherTypeOK
    <3> QED
      BY <3>1, <3>2
  <2>2. sub' = sub
    BY DEF ForwardfillStep, ReceiveHeader, ReceiveFromClosed, ReceiveError,
       ReceiveDone, ForwardfillReturns, FetchBlockPriority, CheckReorg,
       DeleteEvents, DeleteTransactions, DeleteBlock, PublishReorg, Create,
       CreateConflict, CreateNotCommitted, PublishBlock, PublishRows,
       ForwardfillFails
  <2> QED
    BY <2>1, <2>2 DEF FetcherTypeOK, chainVars
<1>4. RepositoryTypeOK' /\ TransactionsTypeOK'
  <2>1. CASE DeleteBlock
    BY <2>1, CommitType DEF DeleteBlock, RepositoryTypeOK, TransactionsTypeOK
  <2>2. CASE Create
    BY <2>2, InsertType
       DEF Create, RepositoryTypeOK, TransactionsTypeOK, ForwardfillTypeOK
  <2>3. CASE DeleteEvents \/ DeleteTransactions
    BY <2>3 DEF DeleteEvents, DeleteTransactions, EventsAt, TxsAt,
       RepositoryTypeOK, TransactionsTypeOK, Store
  <2>4. CASE ~(DeleteBlock \/ Create \/ DeleteEvents \/ DeleteTransactions)
    <3>1. db' = db /\ deleted' \in {deleted, NothingDeleted}
      BY <2>4 DEF ForwardfillStep, ReceiveHeader, ReceiveFromClosed,
         ReceiveError, ReceiveDone, ForwardfillReturns, FetchBlockPriority,
         CheckReorg, PublishReorg, CreateConflict, CreateNotCommitted,
         PublishBlock, PublishRows, ForwardfillFails
    <3> QED
      BY <3>1, CommitType DEF RepositoryTypeOK, TransactionsTypeOK
  <2> QED
    BY <2>1, <2>2, <2>3, <2>4
<1>5. ForwardfillTypeOK'
  <2>0. committed' \in BOOLEAN
    BY DEF ForwardfillStep, ReceiveHeader, ReceiveFromClosed, ReceiveError,
       ReceiveDone, ForwardfillReturns, FetchBlockPriority, CheckReorg,
       DeleteEvents, DeleteTransactions, DeleteBlock, PublishReorg, Create,
       CreateConflict, CreateNotCommitted, PublishBlock, PublishRows,
       ForwardfillFails, forwardfillLocals, ForwardfillTypeOK
  <2>1. CASE ReceiveHeader
    BY <2>0, <2>1
       DEF ReceiveHeader, ForwardfillTypeOK, ForwardfillPc, FetcherTypeOK
  <2>2. CASE ReceiveFromClosed
    BY <2>0, <2>2, DomainAssumption
       DEF ReceiveFromClosed, ForwardfillTypeOK, ForwardfillPc, Height
  <2>3. CASE FetchBlockPriority
    BY <2>0, <2>3, FetchBlockType
       DEF FetchBlockPriority, ForwardfillTypeOK, ForwardfillPc
  <2>4. CASE PublishReorg \/ PublishBlock
    BY <2>0, <2>4 DEF PublishReorg, PublishBlock, forwardfillLocals,
       ForwardfillTypeOK, ForwardfillPc
  <2>5. CASE PublishRows
    BY <2>0, <2>5, DomainAssumption
       DEF PublishRows, ForwardfillTypeOK, ForwardfillPc, Height, Block
  <2>6. CASE ReceiveError \/ ReceiveDone \/ CheckReorg \/ DeleteEvents
             \/ DeleteTransactions \/ DeleteBlock \/ Create
             \/ CreateConflict \/ CreateNotCommitted \/ ForwardfillFails
    BY <2>0, <2>6
       DEF ReceiveError, ReceiveDone, ForwardfillReturns, CheckReorg,
           DeleteEvents, DeleteTransactions, DeleteBlock, Create,
           CreateConflict, CreateNotCommitted, ForwardfillFails,
           forwardfillLocals, ForwardfillTypeOK, ForwardfillPc
  <2> QED
    BY <2>1, <2>2, <2>3, <2>4, <2>5, <2>6 DEF ForwardfillStep
<1> QED
  BY <1>1, <1>2, <1>3, <1>4, <1>5

LEMMA BalancefillIInv ==
    ASSUME IInv, BalancefillGoroutine
    PROVE  IInv'
<1> USE DEF IInv, TypeOK, BalancefillGoroutine
<1>1. FetcherTypeOK' /\ ForwardfillTypeOK' /\ BackfillTypeOK'
  BY DEF fetcherVars, forwardfillVars, forwardfillLocals, backfillVars,
         backfillLocals, FetcherTypeOK, ForwardfillTypeOK, BackfillTypeOK
<1>2. GroupTypeOK'
  BY CallType DEF BalancefillStep, GetBalancefillCursor, LeaveWait,
         BalancefillDone, GetLogs, BatchUpsertBalance,
         UpdateBalancefillCursor, BalancefillFails
<1>3. RepositoryTypeOK' /\ TransactionsTypeOK'
  BY DEF BalancefillStep, GetBalancefillCursor, LeaveWait, BalancefillDone,
     GetLogs, BatchUpsertBalance, UpdateBalancefillCursor, BalancefillFails,
     RepositoryTypeOK, TransactionsTypeOK
<1>4. BalancefillTypeOK' /\ BalancefillBelowMax'
  <2> USE DEF BalancefillTypeOK, BalancefillPc, BalancefillBelowMax
  <2>1. CASE LeaveWait
    <3>1. PICK b \in db.blocks : b.id > balancefillCursor + Lag
      BY <2>1 DEF LeaveWait, Finalized, MaxIndexedBlockAbove, Ids
    <3>2. b.id \in Height
      BY BlockId DEF RepositoryTypeOK, Store
    <3>3. balancefillCursor < MaxId
      BY <3>1, <3>2, BalancefillAssumption, DomainAssumption DEF Height
    <3> QED
      BY <2>1, <3>3 DEF LeaveWait
  <2>2. CASE GetLogs
    BY <2>2 DEF GetLogs, GetLogsByTopic
  <2>3. CASE BatchUpsertBalance
    BY <2>3 DEF BatchUpsertBalance
  <2>4. CASE UpdateBalancefillCursor
    BY <2>4, DomainAssumption DEF UpdateBalancefillCursor, Height
  <2>5. CASE GetBalancefillCursor \/ BalancefillDone \/ BalancefillFails
    BY <2>5 DEF GetBalancefillCursor, BalancefillDone, BalancefillFails
  <2> QED
    BY <2>1, <2>2, <2>3, <2>4, <2>5 DEF BalancefillStep
<1> QED
  BY <1>1, <1>2, <1>3, <1>4

LEMMA SubscribeIInv ==
    ASSUME IInv, SubscribeGoroutine
    PROVE  IInv'
<1> USE DEF IInv, TypeOK, SubscribeGoroutine
<1>1. /\ RepositoryTypeOK' /\ TransactionsTypeOK'
      /\ ForwardfillTypeOK' /\ BackfillTypeOK'
      /\ BalancefillTypeOK' /\ BalancefillBelowMax'
  BY DEF forwardfillVars, forwardfillLocals, backfillVars, backfillLocals,
         balancefillVars, databaseVars, RepositoryTypeOK, TransactionsTypeOK,
         ForwardfillTypeOK, BackfillTypeOK,
         BalancefillTypeOK, BalancefillBelowMax
<1>2. GroupTypeOK'
  <2>1. up' \in BOOLEAN /\ cancelled' \in BOOLEAN
    BY DEF Subscribe, SubscribeNewHead, SubscribeNewHeadFails, ConnectionLost,
           Resubscribe, SubscribeCancelled, SubscribeReturns, GroupTypeOK
  <2>2. faults' \in 0..MaxFaults
    BY GroupAssumption
       DEF Subscribe, SubscribeNewHead, SubscribeNewHeadFails, ConnectionLost,
           Resubscribe, SubscribeCancelled, SubscribeReturns, GroupTypeOK,
           Fault
  <2> QED
    BY <2>1, <2>2 DEF GroupTypeOK
<1>3. FetcherTypeOK'
  <2> USE DEF FetcherTypeOK, SubState
  <2>0. missed' \in BOOLEAN
    BY DEF Subscribe, SubscribeNewHead, SubscribeNewHeadFails, ConnectionLost,
           Resubscribe, SubscribeCancelled, SubscribeReturns
  <2>1. CASE ConnectionLost
    <3>1. headers' \in Seq(Height)
      <4>1. CASE headers' = <<>>
        BY <4>1
      <4>2. CASE headers # <<>> /\ headers' = <<Head(headers)>>
        BY <4>2
      <4> QED
        BY <2>1, <4>1, <4>2 DEF ConnectionLost
    <3> QED
      BY <2>0, <2>1, <3>1 DEF ConnectionLost
  <2>2. CASE SubscribeCancelled
    <3>1. headers' = <<>> /\ sub' = "closed"
      BY <2>2 DEF SubscribeCancelled
    <3> QED
      BY <2>0, <2>2, <3>1 DEF SubscribeCancelled
  <2>3. CASE SubscribeNewHead \/ SubscribeNewHeadFails \/ Resubscribe
             \/ SubscribeReturns
    BY <2>0, <2>3 DEF SubscribeNewHead, SubscribeNewHeadFails, Resubscribe,
                SubscribeReturns
  <2> QED
    BY <2>1, <2>2, <2>3 DEF Subscribe
<1> QED
  BY <1>1, <1>2, <1>3

\* Announcing the heights first..last keeps the queue a sequence of heights.
LEMMA AnnounceType ==
    ASSUME FetcherTypeOK, NEW first \in Height, NEW last \in Height,
           first <= last, Announce(first, last)
    PROVE  headers' \in Seq(Height)
<1>1. last - first + 1 \in Nat
  BY DomainAssumption DEF Height
<1>2. \A i \in 1..(last - first + 1) : first + i - 1 \in Height
  BY DomainAssumption DEF Height
<1>3. [i \in 1..(last - first + 1) |-> first + i - 1] \in Seq(Height)
  BY <1>1, <1>2
<1> QED
  BY <1>3 DEF Announce, FetcherTypeOK

LEMMA NodeIInv ==
    ASSUME IInv, Node
    PROVE  IInv'
<1> USE DEF IInv, TypeOK
<1>1. /\ GroupTypeOK' /\ RepositoryTypeOK' /\ TransactionsTypeOK'
      /\ ForwardfillTypeOK' /\ BackfillTypeOK' /\ BalancefillTypeOK' /\ BalancefillBelowMax'
  BY DEF Node, groupVars, forwardfillVars, forwardfillLocals, backfillVars,
         backfillLocals, balancefillVars, databaseVars, GroupTypeOK,
         RepositoryTypeOK, TransactionsTypeOK,
         ForwardfillTypeOK, BackfillTypeOK, BalancefillTypeOK,
         BalancefillBelowMax
<1>2. Tip \in Fork
  BY DEF Tip, FetcherTypeOK
<1>3. FetcherTypeOK'
  <2>1. CASE Mine
    <3>1. head + 1 \in Height
      BY <2>1, DomainAssumption DEF Mine, FetcherTypeOK, Height
    <3>2. headers' \in Seq(Height)
      BY <2>1, <3>1, AnnounceType DEF Mine
    <3> QED
      BY <2>1, <1>2, <3>1, <3>2 DEF Mine, FetcherTypeOK
  <2>2. ASSUME NEW n \in Height, NEW m \in Height, Reorg(n, m)
        PROVE  FetcherTypeOK'
    <3>1. n <= m
      BY <2>2, DomainAssumption DEF Reorg, FetcherTypeOK, Height
    <3>2. headers' \in Seq(Height)
      BY <2>2, <3>1, AnnounceType DEF Reorg
    <3>3. Tip + 1 \in Fork
      BY <2>2, <1>2, DomainAssumption DEF Reorg, Fork
    <3> QED
      BY <2>2, <3>2, <3>3 DEF Reorg, FetcherTypeOK
  <2> QED
    BY <2>1, <2>2 DEF Node
<1> QED
  BY <1>1, <1>3

LEMMA ProcessIInv ==
    ASSUME IInv, Process
    PROVE  IInv'
<1> USE DEF IInv, TypeOK
<1>1. /\ RepositoryTypeOK' /\ canon' = canon /\ head' = head
      /\ inserted' \in {inserted, EmptyStore}
      /\ deleted' \in {deleted, NothingDeleted}
  BY DEF Process, Start, GetLastBlockId, GetLastBlockIdFails, BackfillSignal,
         Exit, ExtractPanics, Crash, ProcessEnds, chainVars, fetcherVars,
         databaseVars, RollBack, RepositoryTypeOK
<1>0. TransactionsTypeOK' /\ missed' \in BOOLEAN /\ committed' \in BOOLEAN
  <2>1. TransactionsTypeOK'
    BY <1>1, CommitType DEF TransactionsTypeOK
  <2>2. missed' \in BOOLEAN /\ committed' \in BOOLEAN
    BY DEF Process, Start, GetLastBlockId, GetLastBlockIdFails,
       BackfillSignal, Exit, ExtractPanics, Crash, ProcessEnds, fetcherVars,
       forwardfillVars, forwardfillLocals, ForwardfillStops, FetcherTypeOK,
       ForwardfillTypeOK
  <2> QED
    BY <2>1, <2>2
<1>2. up' \in BOOLEAN /\ cancelled' \in BOOLEAN
  BY DEF Process, Start, GetLastBlockId, GetLastBlockIdFails, BackfillSignal,
         Exit, ExtractPanics, Crash, ProcessEnds, groupVars, GroupTypeOK
<1>3. faults' \in 0..MaxFaults
  BY GroupAssumption
     DEF Process, Start, GetLastBlockId, GetLastBlockIdFails, BackfillSignal,
         Exit, ExtractPanics, Crash, ProcessEnds, groupVars, Fault,
         GroupTypeOK
<1>4. FetcherTypeOK'
  <2>1. CASE ProcessEnds
    <3>1. sub' = "off" /\ headers' = <<>>
      BY <2>1 DEF ProcessEnds
    <3> QED
      BY <1>0, <1>1, <3>1 DEF FetcherTypeOK, SubState
  <2>2. CASE ~ProcessEnds
    BY <1>0, <1>1, <2>2
       DEF Process, Start, GetLastBlockId, GetLastBlockIdFails,
           BackfillSignal, Exit, ExtractPanics, Crash, fetcherVars,
           FetcherTypeOK, SubState
  <2> QED
    BY <2>1, <2>2
<1>5. BackfillTypeOK'
  <2> USE DEF BackfillTypeOK, BackfillPc
  <2>1. ASSUME NEW reindex \in BOOLEAN, Start(reindex)
        PROVE  BackfillTypeOK'
    BY <2>1, DomainAssumption DEF Start, backfillLocals, Height
  <2>2. CASE GetLastBlockId
    BY <2>2 DEF GetLastBlockId, FetcherTypeOK
  <2>3. CASE GetLastBlockIdFails
    BY <2>3 DEF GetLastBlockIdFails, backfillLocals
  <2>4. CASE BackfillSignal
    <3>1. backfillChan' \in BOOLEAN
      BY <2>4 DEF BackfillSignal
    <3> QED
      BY <2>4, <3>1 DEF BackfillSignal, backfillLocals
  <2>5. CASE ProcessEnds
    <3>1. backfillChan' \in BOOLEAN
      BY <2>5 DEF ProcessEnds, BackfillStops
    <3> QED
      BY <2>5, <3>1, DomainAssumption DEF ProcessEnds, BackfillStops, Height
  <2> QED
    BY <2>1, <2>2, <2>3, <2>4, <2>5 DEF Process, Exit, ExtractPanics, Crash
<1>6. ForwardfillTypeOK'
  <2> USE DEF ForwardfillTypeOK, ForwardfillPc
  <2>1. CASE ProcessEnds
    BY <1>0, <2>1, DomainAssumption
       DEF ProcessEnds, ForwardfillStops, Height, Block
  <2>2. CASE ~ProcessEnds
    BY <1>0, <2>2 DEF Process, Start, GetLastBlockId, GetLastBlockIdFails,
           BackfillSignal, Exit, ExtractPanics, Crash, forwardfillVars,
           forwardfillLocals
  <2> QED
    BY <2>1, <2>2
<1>7. BalancefillTypeOK' /\ BalancefillBelowMax'
  BY DEF Process, Start, GetLastBlockId, GetLastBlockIdFails, BackfillSignal,
         Exit, ExtractPanics, Crash, ProcessEnds, BalancefillStops,
         balancefillVars, BalancefillTypeOK, BalancefillPc,
         BalancefillBelowMax
<1> QED
  BY <1>0, <1>1, <1>2, <1>3, <1>4, <1>5, <1>6, <1>7 DEF GroupTypeOK

LEMMA StutterIInv ==
    ASSUME IInv, UNCHANGED vars
    PROVE  IInv'
BY DEF IInv, TypeOK, vars, groupVars, fetcherVars, backfillVars,
       backfillLocals, forwardfillVars, forwardfillLocals, balancefillVars,
       databaseVars, GroupTypeOK, RepositoryTypeOK, TransactionsTypeOK,
       FetcherTypeOK, BackfillTypeOK, ForwardfillTypeOK, BalancefillTypeOK,
       BalancefillBelowMax

LEMMA NextIInv == IInv /\ [Next]_vars => IInv'
<1> SUFFICES ASSUME IInv, [Next]_vars PROVE IInv'
  OBVIOUS
<1>1. CASE Interrupt
  <2>1. GroupTypeOK'
    BY <1>1, CallType DEF Interrupt, IInv, TypeOK
  <2>2. /\ FetcherTypeOK' /\ RepositoryTypeOK' /\ TransactionsTypeOK'
        /\ BackfillTypeOK'
        /\ ForwardfillTypeOK' /\ BalancefillTypeOK' /\ BalancefillBelowMax'
    BY <1>1 DEF Interrupt, IInv, TypeOK, fetcherVars, backfillVars,
           backfillLocals, forwardfillVars, forwardfillLocals,
           balancefillVars, databaseVars, RepositoryTypeOK,
           TransactionsTypeOK, FetcherTypeOK, BackfillTypeOK,
           ForwardfillTypeOK, BalancefillTypeOK, BalancefillBelowMax
  <2> QED
    BY <2>1, <2>2 DEF IInv, TypeOK
<1> QED
  BY <1>1, ProcessIInv, NodeIInv, SubscribeIInv, BackfillIInv,
     ForwardfillIInv, BalancefillIInv, StutterIInv DEF Next

\* Every variable keeps its type: heights stay heights (neither cursor runs past
\* the chain), what is stored stays a set of blocks and of their rows.
THEOREM TypeCorrect == Safety => []TypeOK
<1>1. IInv => TypeOK
  BY DEF IInv
<1> QED
  BY <1>1, InitIInv, NextIInv, PTL DEF Safety


-----------------------------------------------------------------------------
(* While the process is down, nothing of it is left.                         *)

DownIsOff ==
    ~up => /\ bfpc = "off" /\ ffpc = "off" /\ sub = "off"
           /\ headers = <<>> /\ cancelled = FALSE

LEMMA InitDown == Init => DownIsOff
BY DEF Init, GroupInit, FetcherInit, BackfillInit, ForwardfillInit,
       DownIsOff

LEMMA NextDown ==
    ASSUME DownIsOff, [Next]_vars
    PROVE  DownIsOff'
<1> USE DEF DownIsOff
<1>1. CASE Process
  BY <1>1 DEF Process, Start, GetLastBlockId, GetLastBlockIdFails,
     BackfillSignal, Exit, ExtractPanics, Crash, ProcessEnds,
     BackfillStops, ForwardfillStops, groupVars
<1>2. CASE Node
  BY <1>2 DEF Node, Mine, Reorg, Announce, groupVars, backfillVars,
     forwardfillVars
<1>3. CASE Interrupt \/ UNCHANGED vars
  BY <1>3 DEF Interrupt, Signal, vars, groupVars, fetcherVars,
     backfillVars, forwardfillVars
<1>4. CASE SubscribeGoroutine
  <2>1. up /\ up' = up
    BY <1>4 DEF SubscribeGoroutine, Subscribe, SubscribeNewHead,
       SubscribeNewHeadFails, ConnectionLost, Resubscribe,
       SubscribeCancelled, SubscribeReturns
  <2> QED
    BY <2>1
<1>5. CASE BackfillGoroutine
  <2>1. up /\ up' = up
    BY <1>5 DEF BackfillGoroutine, BackfillStep, GetBackfillCursor, UpToDate,
       FetchResult, InsertBlocks, InsertTransactions, InsertEvents,
       CommitBatch, BulkCreateConflict, UpdateBackfillCursor, BackfillFails,
       CallReturns, CallFails, ReturnError, groupVars
  <2> QED
    BY <2>1
<1>6. CASE ForwardfillGoroutine
  <2>1. up /\ up' = up
    BY <1>6
       DEF ForwardfillGoroutine, ForwardfillStep, ReceiveHeader,
           ReceiveFromClosed, ReceiveError, ReceiveDone, ForwardfillReturns,
           FetchBlockPriority, CheckReorg, DeleteEvents, DeleteTransactions,
           DeleteBlock, PublishReorg, Create, CreateConflict,
           CreateNotCommitted, PublishBlock, PublishRows, ForwardfillFails,
           CallReturns, CallFails, ReturnError, groupVars
  <2> QED
    BY <2>1
<1>7. CASE BalancefillGoroutine
  <2>1. up /\ up' = up
    BY <1>7 DEF BalancefillGoroutine, BalancefillStep, GetBalancefillCursor,
       LeaveWait, BalancefillDone, GetLogs, BatchUpsertBalance,
       UpdateBalancefillCursor, BalancefillFails, CallReturns, CallFails,
       ReturnError, groupVars
  <2> QED
    BY <2>1
<1> QED
  BY <1>1, <1>2, <1>3, <1>4, <1>5, <1>6, <1>7 DEF Next

-----------------------------------------------------------------------------
(* What is announced is stored.                                              *)

\* Only forwardfill deletes.
LEMMA OthersKeepBlocks ==
    ASSUME IInv, [Next]_vars, ~ForwardfillGoroutine
    PROVE  db.blocks \subseteq db'.blocks
<1>1. CASE BackfillGoroutine
  <2>1. CASE CommitBatch
    BY <2>1 DEF CommitBatch, WithInserted
  <2>2. CASE ~CommitBatch
    BY <1>1, <2>2 DEF BackfillGoroutine, BackfillStep, GetBackfillCursor,
       UpToDate, FetchResult, InsertBlocks, InsertTransactions, InsertEvents,
       BulkCreateConflict, UpdateBackfillCursor, BackfillFails
  <2> QED
    BY <2>1, <2>2
<1>2. CASE BalancefillGoroutine
  BY <1>2 DEF BalancefillGoroutine, BalancefillStep, GetBalancefillCursor,
         LeaveWait, BalancefillDone, GetLogs, BatchUpsertBalance,
         UpdateBalancefillCursor, BalancefillFails
<1>3. CASE Process
  BY <1>3 DEF Process, Start, GetLastBlockId, GetLastBlockIdFails,
     BackfillSignal, Exit, ExtractPanics, Crash, ProcessEnds, databaseVars
<1>4. CASE Node \/ Interrupt \/ SubscribeGoroutine \/ UNCHANGED vars
  BY <1>4 DEF Node, Interrupt, SubscribeGoroutine, databaseVars, vars
<1> QED
  BY <1>1, <1>2, <1>3, <1>4 DEF Next

\* The other steps leave forwardfill where it is, or end it.
LEMMA OthersKeepForwardfill ==
    ASSUME [Next]_vars, ~ForwardfillGoroutine
    PROVE  \/ UNCHANGED <<ffpc, ffBlock, committed, stream>>
           \/ ffpc' \in {"off", "select"} /\ UNCHANGED stream
BY DEF Next, Process, Start, GetLastBlockId, GetLastBlockIdFails,
       BackfillSignal, Exit, ExtractPanics, Crash, ProcessEnds,
       ForwardfillStops, Node, Interrupt, SubscribeGoroutine,
       BackfillGoroutine, BalancefillGoroutine, forwardfillVars,
       forwardfillLocals, vars

\* A block is in the database when it is published, with both writers at work
\* and whatever fails, if Create's COMMIT succeeded.
THEOREM PublishedBlocksAreStored == Safety => []PublishedIsStored
<1>1. Init => PublishedIsStored
  BY DEF Init, ForwardfillInit, PublishedIsStored
<1>2. IInv /\ PublishedIsStored /\ [Next]_vars => PublishedIsStored'
  <2> SUFFICES ASSUME IInv, PublishedIsStored, [Next]_vars
               PROVE  PublishedIsStored'
    OBVIOUS
  <2>1. CASE ForwardfillGoroutine
    <3>1. CASE Create
      BY <3>1 DEF Create, Insert, PublishedIsStored
    <3>2. CASE CreateNotCommitted
      BY <3>2 DEF CreateNotCommitted, PublishedIsStored
    <3>3. CASE ~(Create \/ CreateNotCommitted)
      <4>1. ffpc' # "publish"
        BY <2>1, <3>3 DEF ForwardfillGoroutine, ForwardfillStep,
           ReceiveHeader, ReceiveFromClosed, ReceiveError, ReceiveDone,
           ForwardfillReturns, FetchBlockPriority, CheckReorg, DeleteEvents,
           DeleteTransactions, DeleteBlock, PublishReorg, CreateConflict,
           PublishBlock, PublishRows, ForwardfillFails
      <4> QED
        BY <4>1 DEF PublishedIsStored
    <3> QED
      BY <3>1, <3>2, <3>3
  <2>2. CASE ~ForwardfillGoroutine
    BY <2>2, OthersKeepBlocks, OthersKeepForwardfill DEF PublishedIsStored
  <2> QED
    BY <2>1, <2>2
<1> QED
  BY <1>1, <1>2, InitIInv, NextIInv, PTL DEF Safety

\* What a step may do to what listeners believe in wrongly.
LEMMA MisledStep ==
    ASSUME IInv, DownIsOff, PublishedIsStored, [Next]_vars
    PROVE  \/ Misled' \subseteq Misled
           \/ ffpc = "pubreorg" /\ ffpc' \in {"done", "off"}
           \/ ffpc = "publish" /\ ~committed
<1> USE DEF Misled
<1>1. CASE ~ForwardfillGoroutine
  <2>1. db.blocks \subseteq db'.blocks
    BY <1>1, OthersKeepBlocks
  <2>2. CASE UNCHANGED <<ffpc, ffBlock, committed, stream>>
    BY <2>1, <2>2
  <2>3. CASE ffpc' \in {"off", "select"} /\ UNCHANGED stream
    <3>1. CASE ffpc = "pubreorg" /\ ffpc' = "select"
      <4>1. PICK reindex \in BOOLEAN : Start(reindex)
        BY <1>1, <3>1
           DEF Next, Process, GetLastBlockId, GetLastBlockIdFails,
               BackfillSignal, Exit, ExtractPanics, Crash, ProcessEnds,
               ForwardfillStops, Node, Interrupt, SubscribeGoroutine,
               BackfillGoroutine, BalancefillGoroutine, forwardfillVars, vars
      <4> QED
        BY <4>1, <3>1 DEF Start, DownIsOff
    <3> QED
      BY <2>1, <2>3, <3>1
  <2> QED
    BY <1>1, <2>2, <2>3, OthersKeepForwardfill
<1>2. CASE DeleteBlock
  <2>1. /\ stream' = stream /\ ffpc' = "pubreorg" /\ ffBlock' = ffBlock
        /\ db'.blocks = db.blocks \ GetBlockById(db, ffBlock.id)
    BY <1>2 DEF DeleteBlock, forwardfillLocals, WithoutDeleted
  <2> QED
    BY <1>2, <2>1 DEF DeleteBlock, GetBlockById
<1>3. CASE Create
  BY <1>3 DEF Create, Insert
<1>4. CASE PublishReorg
  BY <1>4 DEF PublishReorg
<1>5. CASE PublishBlock
  BY <1>5 DEF PublishBlock, PublishedIsStored
<1>6. CASE ForwardfillGoroutine /\ ~(DeleteBlock \/ Create \/ PublishReorg
                                     \/ PublishBlock)
  <2>1. /\ db' = db /\ stream' = stream
        /\ ffpc = "pubreorg" => ffpc' = "done"
    BY <1>6 DEF ForwardfillGoroutine, ForwardfillStep, ReceiveHeader,
       ReceiveFromClosed, ReceiveError, ReceiveDone, ForwardfillReturns,
       FetchBlockPriority, CheckReorg, DeleteEvents, DeleteTransactions,
       CreateConflict, CreateNotCommitted, PublishRows, ForwardfillFails
  <2> QED
    BY <2>1
<1> QED
  BY <1>1, <1>2, <1>3, <1>4, <1>5, <1>6

\* Listeners of the stream come to believe in a block that is not stored in the
\* two ways that StreamFaithful names and in no other, for any reorganisations,
\* failures and restarts.
THEOREM ListenersAreRight == Safety => StreamFaithful
<1>1. ASSUME IInv, DownIsOff, PublishedIsStored, [Next]_vars
      PROVE  [\/ Misled' \subseteq Misled
              \/ ffpc = "pubreorg" /\ ffpc' \in {"done", "off"}
              \/ ffpc = "publish" /\ ~committed]_vars
  BY <1>1, MisledStep
<1>2. DownIsOff /\ [Next]_vars => DownIsOff'
  BY NextDown
<1> QED
  BY <1>1, <1>2, InitIInv, NextIInv, InitDown, PublishedBlocksAreStored, PTL
     DEF Safety, StreamFaithful

-----------------------------------------------------------------------------
(* A restart misses nothing, on a chain without reorganisations.             *)

\* Every block the indexer ever holds is on fork 0, so nothing is deleted.
OneFork ==
    /\ \A b \in db.blocks \cup results \cup inserted.blocks : b.fork = 0
    /\ ffpc \in {"check", "create"} => ffBlock.fork = 0
    /\ ffpc \notin {"delete", "deletetxs", "deleteblock", "pubreorg"}

\* What lies below the batch is stored, and the batch is complete when written.
BatchCovered ==
    /\ bfpc \in {"fetch", "txs", "events", "commit", "advance"} =>
          \A n \in From..(curr - 1) : n \in Ids(db)
    /\ bfpc = "fetch" =>
          \A n \in curr..BatchEnd(curr) :
              n \in pending \/ \E b \in results : b.id = n
    /\ bfpc \in {"txs", "events", "commit"} =>
          \A n \in curr..BatchEnd(curr) : n \in Ids(db) \cup Ids(inserted)
    /\ bfpc = "advance" => \A n \in From..BatchEnd(curr) : n \in Ids(db)

ResumeCovered == \A n \in From..(ResumeAt - 1) : n \in Ids(db)

CInv == OneFork /\ BatchCovered /\ ResumeCovered

\* The blocks a node without forks answers with.
LEMMA FetchOneFork ==
    ASSUME MaxReorgs = 0, Lagging = FALSE, FetcherTypeOK, NEW n \in Height,
           NEW b \in FetchBlock(n)
    PROVE  b.fork = 0 /\ b.id = n
BY DEF FetchBlock, NodeBlock, FetcherTypeOK, Fork

\* A step that changes none of what CInv reads, and stores no less.
LEMMA CInvFrame ==
    ASSUME CInv, db' = db, inserted' = inserted,
           bfpc' = bfpc, targetId' = targetId, curr' = curr,
           pending' = pending, results' = results,
           backfillCursor' = backfillCursor, OneFork'
    PROVE  CInv'
BY DEF CInv, BatchCovered, ResumeCovered, ResumeAt, BatchEnd, Ids

\* backfill's own steps: a batch covers what it says it covers.
LEMMA BackfillCovered ==
    ASSUME Lagging = FALSE, IInv, BatchCovered, ResumeCovered,
           BackfillGoroutine
    PROVE  BatchCovered' /\ ResumeCovered'
<1> USE DEF IInv, TypeOK
<1>2. /\ targetId \in Int /\ curr \in Int /\ backfillCursor \in Int
      /\ From \in Int /\ BatchSize \in Int
  BY BackfillAssumption, DomainAssumption DEF BackfillTypeOK, Height
<1>3. CASE GetBackfillCursor
  <2>2. /\ db' = db /\ bfpc' = "fetch" /\ curr' = ResumeAt
        /\ pending' = ResumeAt..BatchEnd(ResumeAt)
        /\ targetId' = targetId /\ backfillCursor' = backfillCursor
    BY <1>3 DEF GetBackfillCursor, StartBatch
  <2>3. BatchCovered'
    BY <2>2 DEF ResumeCovered, BatchCovered, BatchEnd, Ids
  <2>4. ResumeCovered'
    BY <2>2 DEF ResumeCovered, ResumeAt, Ids
  <2> QED
    BY <2>3, <2>4
<1>4. CASE UpToDate \/ BulkCreateConflict \/ BackfillFails
  <2>1. db' = db /\ bfpc' = "done" /\ backfillCursor' = backfillCursor
    BY <1>4 DEF UpToDate, BulkCreateConflict, BackfillFails
  <2> QED
    BY <2>1 DEF BatchCovered, ResumeCovered, ResumeAt, Ids
<1>5. ASSUME NEW n \in Height, FetchResult(n)
      PROVE  BatchCovered' /\ ResumeCovered'
  <2>1. PICK b \in FetchBlock(n) : results' = results \cup {b}
    BY <1>5 DEF FetchResult
  <2>2. b.id = n
    BY DEF FetchBlock, NodeBlock
  <2>3. /\ db' = db /\ bfpc' = "fetch" /\ bfpc = "fetch" /\ curr' = curr
        /\ targetId' = targetId /\ pending' = pending \ {n}
        /\ backfillCursor' = backfillCursor
    BY <1>5 DEF FetchResult
  <2>5. BatchCovered'
    BY <2>1, <2>2, <2>3 DEF BatchCovered, BatchEnd, Ids
  <2> QED
    BY <2>3, <2>5 DEF ResumeCovered, ResumeAt, Ids
<1>6. CASE InsertBlocks
  <2>1. /\ db' = db /\ bfpc = "fetch" /\ bfpc' = "txs" /\ pending = {}
        /\ inserted'.blocks = results \ db.blocks
        /\ UNCHANGED <<curr, targetId, backfillCursor>>
    BY <1>6 DEF InsertBlocks, backfillLocals, TransactionsTypeOK, Store
  <2>2. \A n \in curr..BatchEnd(curr) : n \in Ids(db') \cup Ids(inserted')
    <3> SUFFICES ASSUME NEW n \in curr..BatchEnd(curr)
                 PROVE  n \in Ids(db') \cup Ids(inserted')
      OBVIOUS
    <3>1. PICK b \in results : b.id = n
      BY <2>1 DEF BatchCovered
    <3> QED
      BY <2>1, <3>1 DEF Ids
  <2> QED
    BY <2>1, <2>2 DEF BatchCovered, ResumeCovered, ResumeAt, BatchEnd
<1>7. CASE InsertTransactions \/ InsertEvents
  <2>1. /\ db' = db /\ inserted'.blocks = inserted.blocks
        /\ bfpc \in {"txs", "events"} /\ bfpc' \in {"events", "commit"}
        /\ UNCHANGED <<curr, targetId, backfillCursor>>
    BY <1>7 DEF InsertTransactions, InsertEvents, backfillLocals,
       TransactionsTypeOK, Store
  <2>2. Ids(inserted') = Ids(inserted)
    BY <2>1 DEF Ids
  <2> QED
    BY <2>1, <2>2 DEF BatchCovered, ResumeCovered, ResumeAt, BatchEnd
<1>8. CASE CommitBatch
  <2>1. /\ db' = WithInserted /\ bfpc = "commit" /\ bfpc' = "advance"
        /\ UNCHANGED <<curr, targetId, backfillCursor>>
    BY <1>8 DEF CommitBatch
  <2>2. db'.blocks = db.blocks \cup inserted.blocks
    BY <2>1 DEF WithInserted
  <2>4. Ids(db) \cup Ids(inserted) \subseteq Ids(db')
    BY <2>2 DEF Ids
  <2>5. \A n \in curr..BatchEnd(curr) : n \in Ids(db')
    BY <2>1, <2>4 DEF BatchCovered
  <2>6. BatchEnd(curr) \in Int /\ BatchEnd(curr)' = BatchEnd(curr)
    BY <1>2, <2>1 DEF BatchEnd
  <2>7. \A n \in From..BatchEnd(curr) : n \in Ids(db')
    BY <1>2, <2>1, <2>4, <2>5, <2>6 DEF BatchCovered
  <2>8. BatchCovered'
    BY <2>1, <2>4, <2>6, <2>7 DEF BatchCovered
  <2> QED
    BY <2>1, <2>4, <2>8 DEF ResumeCovered, ResumeAt
<1>9. CASE UpdateBackfillCursor
  <2>1. /\ db' = db /\ bfpc = "advance" /\ targetId' = targetId
        /\ backfillCursor' = BatchEnd(curr)
    BY <1>9 DEF UpdateBackfillCursor
  <2>2. \A n \in From..BatchEnd(curr) : n \in Ids(db')
    BY <2>1 DEF BatchCovered, Ids
  <2>5. BatchEnd(curr) \in Int
    BY <1>2 DEF BatchEnd
  <2>6. ResumeCovered'
    BY <1>2, <2>1, <2>2, <2>5 DEF ResumeCovered, ResumeAt
  <2>7. CASE BatchEnd(curr) < targetId
    <3>1. /\ bfpc' = "fetch" /\ curr' = BatchEnd(curr) + 1
          /\ pending' = curr'..BatchEnd(BatchEnd(curr) + 1)
      BY <1>9, <2>7 DEF UpdateBackfillCursor, StartBatch
    <3>2. BatchEnd(curr)' = BatchEnd(BatchEnd(curr) + 1)
      BY <2>1, <3>1 DEF BatchEnd
    <3>3. BatchCovered'
      BY <2>2, <2>5, <3>1, <3>2 DEF BatchCovered
    <3> QED
      BY <2>6, <3>3
  <2>8. CASE ~(BatchEnd(curr) < targetId)
    <3>1. bfpc' = "done"
      BY <1>9, <2>8 DEF UpdateBackfillCursor
    <3> QED
      BY <2>6, <3>1 DEF BatchCovered
  <2> QED
    BY <2>7, <2>8
<1> QED
  BY <1>3, <1>4, <1>5, <1>6, <1>7, <1>8, <1>9
     DEF BackfillGoroutine, BackfillStep

LEMMA BackfillCInv ==
    ASSUME MaxReorgs = 0, Lagging = FALSE, IInv, CInv, BackfillGoroutine
    PROVE  CInv'
<1>1. ffpc' = ffpc /\ ffBlock' = ffBlock
  BY DEF BackfillGoroutine, forwardfillVars, forwardfillLocals
<1>2. OneFork'
  <2>1. CASE CommitBatch
    BY <1>1, <2>1
       DEF CommitBatch, WithInserted, EmptyStore, CInv, OneFork
  <2>2. CASE InsertBlocks \/ InsertTransactions \/ InsertEvents
    <3>1. /\ db' = db /\ results' = results
          /\ inserted'.blocks \subseteq results \cup inserted.blocks
      BY <2>2 DEF InsertBlocks, InsertTransactions, InsertEvents,
         backfillLocals, IInv, TypeOK, TransactionsTypeOK, Store
    <3> QED
      BY <1>1, <3>1 DEF CInv, OneFork
  <2>3. CASE ~(CommitBatch \/ InsertBlocks \/ InsertTransactions
               \/ InsertEvents)
    <3>1. /\ db' = db /\ inserted' \in {inserted, EmptyStore}
          /\ inserted'.blocks \subseteq inserted.blocks
      BY <2>3 DEF BackfillGoroutine, BackfillStep, GetBackfillCursor,
         UpToDate, FetchResult, BulkCreateConflict, UpdateBackfillCursor,
         BackfillFails, EmptyStore
    <3>2. \A b \in results' : b.fork = 0
      <4>1. ASSUME NEW n \in Height, FetchResult(n)
            PROVE  \A b \in results' : b.fork = 0
        BY <4>1, FetchOneFork DEF FetchResult, CInv, OneFork, IInv, TypeOK
      <4>2. ASSUME \A n \in Height : ~FetchResult(n)
            PROVE  results' \in {{}, results}
        BY <2>3, <4>2
           DEF BackfillGoroutine, BackfillStep, GetBackfillCursor, StartBatch,
               UpToDate, BulkCreateConflict, UpdateBackfillCursor,
               BackfillFails, backfillLocals
      <4> QED
        BY <4>1, <4>2 DEF CInv, OneFork
    <3> QED
      BY <1>1, <3>1, <3>2 DEF CInv, OneFork
  <2> QED
    BY <2>1, <2>2, <2>3
<1> QED
  BY <1>2, BackfillCovered DEF CInv

\* Storing more, without touching backfill, keeps what is covered covered.
LEMMA CoveredGrow ==
    ASSUME BatchCovered, ResumeCovered, db.blocks \subseteq db'.blocks,
           inserted' = inserted, UNCHANGED backfillVars
    PROVE  BatchCovered' /\ ResumeCovered'
<1>1. Ids(db) \subseteq Ids(db')
  BY DEF Ids
<1>2. Ids(inserted') = Ids(inserted)
  OBVIOUS
<1> QED
  BY <1>1, <1>2
     DEF BatchCovered, ResumeCovered, ResumeAt, BatchEnd, backfillVars,
         backfillLocals

LEMMA CInvGrow ==
    ASSUME CInv, db.blocks \subseteq db'.blocks, OneFork',
           inserted' = inserted, UNCHANGED backfillVars
    PROVE  CInv'
BY CoveredGrow DEF CInv

LEMMA ForwardfillCInv ==
    ASSUME MaxReorgs = 0, Lagging = FALSE, IInv, CInv, ForwardfillGoroutine
    PROVE  CInv'
<1> USE DEF IInv, TypeOK
<1>1. UNCHANGED backfillVars /\ results' = results /\ inserted' = inserted
  BY DEF ForwardfillGoroutine, backfillVars, backfillLocals
<1>2. CASE FetchBlockPriority
  <2>1. ffBlock'.fork = 0
    BY <1>2, FetchOneFork DEF FetchBlockPriority, ForwardfillTypeOK
  <2> QED
    BY <1>1, <1>2, <2>1, CInvGrow DEF FetchBlockPriority, CInv, OneFork
<1>3. CASE CheckReorg
  <2>1. ffBlock \in Block /\ ffBlock.fork = 0
    BY <1>3 DEF CheckReorg, CInv, OneFork, ForwardfillTypeOK
  <2>2. ASSUME NEW c \in GetBlockById(db, ffBlock.id)
        PROVE  c = ffBlock
    <3>1. c \in Block /\ c.fork = 0 /\ c.id = ffBlock.id
      BY DEF GetBlockById, CInv, OneFork, RepositoryTypeOK, Store
    <3> QED
      BY <2>1, <3>1 DEF Block, ZeroBlock
  <2>3. ~ReorgDetected(GetBlockById(db, ffBlock.id))
    BY <2>2 DEF ReorgDetected
  <2> QED
    BY <1>1, <1>3, <2>1, <2>3, CInvGrow
       DEF CheckReorg, CInv, OneFork, forwardfillLocals
<1>4. CASE Create
  BY <1>1, <1>4, CInvGrow DEF Create, Insert, CInv, OneFork
<1>5. CASE DeleteEvents \/ DeleteTransactions \/ DeleteBlock \/ PublishReorg
  BY <1>5 DEF DeleteEvents, DeleteTransactions, DeleteBlock, PublishReorg,
     CInv, OneFork
<1>6. CASE ~(FetchBlockPriority \/ CheckReorg \/ Create \/ DeleteEvents
             \/ DeleteTransactions \/ DeleteBlock \/ PublishReorg)
  <2>1. db' = db /\ ffpc' \in {"fetch", "publish", "pubrows", "select", "done"}
    BY <1>6 DEF ForwardfillGoroutine, ForwardfillStep, ReceiveHeader,
           ReceiveFromClosed, ReceiveError, ReceiveDone, ForwardfillReturns,
           CreateConflict, CreateNotCommitted, PublishBlock, PublishRows,
           ForwardfillFails
  <2> QED
    BY <1>1, <2>1, CInvGrow DEF CInv, OneFork
<1> QED
  BY <1>2, <1>3, <1>4, <1>5, <1>6 DEF ForwardfillGoroutine, ForwardfillStep

LEMMA ProcessCInv ==
    ASSUME IInv, CInv, Process
    PROVE  CInv'
<1>1. db' = db /\ inserted' \in {inserted, EmptyStore}
  BY DEF Process, Start, GetLastBlockId, GetLastBlockIdFails, BackfillSignal,
     Exit, ExtractPanics, Crash, ProcessEnds, RollBack, databaseVars
<1>0. inserted'.blocks \subseteq inserted.blocks
  BY <1>1 DEF EmptyStore
<1>2. CASE ProcessEnds
  BY <1>0, <1>1, <1>2 DEF ProcessEnds, BackfillStops, ForwardfillStops, CInv,
         OneFork, BatchCovered, ResumeCovered, ResumeAt, Ids
<1>3. ASSUME NEW reindex \in BOOLEAN, Start(reindex)
      PROVE  CInv'
  <2>1. bfpc' = "target" /\ ffpc' = "select" /\ results' = results
    BY <1>3 DEF Start, backfillLocals
  <2>2. backfillCursor' \in {0, backfillCursor}
    BY <1>3 DEF Start
  <2>3. ResumeCovered'
    <3>1. CASE backfillCursor' = 0
      BY <3>1, BackfillAssumption, DomainAssumption
         DEF ResumeCovered, ResumeAt, Height
    <3>2. CASE backfillCursor' = backfillCursor
      BY <1>1, <3>2 DEF CInv, ResumeCovered, ResumeAt, Ids
    <3> QED
      BY <2>2, <3>1, <3>2
  <2> QED
    BY <1>0, <1>1, <2>1, <2>3 DEF CInv, OneFork, BatchCovered
<1>4. CASE GetLastBlockId \/ GetLastBlockIdFails
  <2>1. /\ bfpc' \in {"cursor", "done"} /\ ffpc' = ffpc /\ ffBlock' = ffBlock
        /\ results' = results /\ backfillCursor' = backfillCursor
    BY <1>4 DEF GetLastBlockId, GetLastBlockIdFails, forwardfillVars,
                forwardfillLocals, backfillLocals
  <2> QED
    BY <1>0, <1>1, <2>1
       DEF CInv, OneFork, BatchCovered, ResumeCovered, ResumeAt, Ids
<1>5. CASE BackfillSignal
  BY <1>1, <1>5, CInvFrame DEF BackfillSignal, CInv, OneFork, forwardfillVars,
     forwardfillLocals, backfillLocals, databaseVars
<1> QED
  BY <1>2, <1>3, <1>4, <1>5 DEF Process, Exit, ExtractPanics, Crash

LEMMA OthersCInv ==
    ASSUME CInv,
           \/ Node \/ Interrupt \/ SubscribeGoroutine \/ BalancefillGoroutine
           \/ UNCHANGED vars
    PROVE  CInv'
<1>1. db' = db /\ inserted' = inserted
  BY DEF Node, Interrupt, SubscribeGoroutine, BalancefillGoroutine,
         BalancefillStep, GetBalancefillCursor, LeaveWait, BalancefillDone,
         GetLogs, BatchUpsertBalance, UpdateBalancefillCursor,
         BalancefillFails, databaseVars, vars
<1>2. UNCHANGED <<backfillVars, forwardfillVars>>
  BY DEF Node, Interrupt, SubscribeGoroutine, BalancefillGoroutine, vars
<1> QED
  BY <1>1, <1>2, CInvGrow
     DEF CInv, OneFork, backfillVars, backfillLocals, forwardfillVars,
         forwardfillLocals

LEMMA InitCInv == Init => CInv
BY BackfillAssumption, DomainAssumption
   DEF Init, RepositoryInit, TransactionsInit, EmptyStore, BackfillInit,
       ForwardfillInit, CInv, OneFork, BatchCovered, ResumeCovered, ResumeAt,
       Height

LEMMA NextCInv ==
    ASSUME MaxReorgs = 0, Lagging = FALSE
    PROVE  IInv /\ CInv /\ [Next]_vars => CInv'
BY BackfillCInv, ForwardfillCInv, ProcessCInv, OthersCInv DEF Next

\* On a chain that is never reorganised, seen through nodes that know their
\* blocks, whatever lies below the height a restart resumes at is stored: no
\* crash, failure or signal, and no -reindex, makes backfill skip a height.
THEOREM RestartSkipsNothing ==
    ASSUME MaxReorgs = 0, Lagging = FALSE
    PROVE  Safety => []CursorCovered
<1>1. Init => CInv
  BY InitCInv
<1>2. IInv /\ CInv /\ [Next]_vars => CInv'
  BY NextCInv
<1>3. CInv => CursorCovered
  BY DEF CInv, ResumeCovered, CursorCovered
<1> QED
  BY <1>1, <1>2, <1>3, InitIInv, NextIInv, PTL DEF Safety


-----------------------------------------------------------------------------
(* A cancelled group runs down.                                              *)

LEMMA LeftIsNat ==
    ASSUME NEW pc
    PROVE  /\ BackfillLeft(pc) \in Nat /\ ForwardfillLeft(pc) \in Nat
           /\ BalancefillLeft(pc) \in Nat /\ SubscribeLeft(pc) \in Nat
  BY DEF BackfillLeft, ForwardfillLeft, BalancefillLeft, SubscribeLeft

\* In a cancelled group a goroutine only gets an error.
LEMMA BackfillRunsDown ==
    ASSUME cancelled, BackfillGoroutine
    PROVE  /\ BackfillLeft(bfpc') < BackfillLeft(bfpc)
           /\ UNCHANGED <<ffpc, balpc, sub>>
<1>1. /\ bfpc \in {"cursor", "fetch", "txs", "events", "commit", "advance"}
      /\ bfpc' = "done"
  BY DEF BackfillGoroutine, BackfillStep, GetBackfillCursor, UpToDate,
     FetchResult, InsertBlocks, InsertTransactions, InsertEvents,
     CommitBatch, BulkCreateConflict, UpdateBackfillCursor, BackfillFails,
     CallReturns
<1>2. UNCHANGED <<ffpc, balpc, sub>>
  BY DEF BackfillGoroutine, fetcherVars, forwardfillVars, balancefillVars
<1> QED
  BY <1>1, <1>2 DEF BackfillLeft

\* forwardfill may still take a header.
LEMMA ForwardfillRunsDown ==
    ASSUME cancelled, ForwardfillGoroutine
    PROVE  /\ ForwardfillLeft(ffpc') < ForwardfillLeft(ffpc)
           /\ UNCHANGED <<bfpc, balpc, sub>>
<1>1. \/ ffpc = "select" /\ ffpc' \in {"fetch", "done"}
      \/ /\ ffpc \in {"fetch", "check", "delete", "deletetxs", "deleteblock",
                       "pubreorg", "create", "publish", "pubrows"}
         /\ ffpc' = "done"
  BY DEF ForwardfillGoroutine, ForwardfillStep, ReceiveHeader,
     ReceiveFromClosed, ReceiveError, ReceiveDone, ForwardfillReturns,
     FetchBlockPriority, CheckReorg, DeleteEvents, DeleteTransactions,
     DeleteBlock, PublishReorg, Create, CreateConflict, CreateNotCommitted,
     PublishBlock, PublishRows, ForwardfillFails, Calling, CallReturns
<1>2. UNCHANGED <<bfpc, balpc, sub>>
  BY DEF ForwardfillGoroutine, ForwardfillStep, ReceiveHeader,
         ReceiveFromClosed, ReceiveError, ReceiveDone, ForwardfillReturns,
         FetchBlockPriority, CheckReorg, DeleteEvents, DeleteTransactions,
         DeleteBlock, PublishReorg, Create, CreateConflict,
         CreateNotCommitted, PublishBlock, PublishRows, ForwardfillFails,
         Calling, backfillVars, balancefillVars
<1> QED
  BY <1>1, <1>2 DEF ForwardfillLeft

LEMMA BalancefillRunsDown ==
    ASSUME cancelled, BalancefillGoroutine
    PROVE  /\ BalancefillLeft(balpc') < BalancefillLeft(balpc)
           /\ UNCHANGED <<bfpc, ffpc, sub>>
<1>1. /\ balpc \in {"signal", "cursor", "wait", "read", "upsert", "advance"}
      /\ balpc' = "done"
  BY DEF BalancefillGoroutine, BalancefillStep, GetBalancefillCursor,
     LeaveWait, BalancefillDone, GetLogs, BatchUpsertBalance,
     UpdateBalancefillCursor, BalancefillFails, CallReturns
<1>2. UNCHANGED <<bfpc, ffpc, sub>>
  BY DEF BalancefillGoroutine, fetcherVars, backfillVars, forwardfillVars
<1> QED
  BY <1>1, <1>2 DEF BalancefillLeft

\* Subscribe dials again at most once.
LEMMA SubscribeRunsDown ==
    ASSUME cancelled, SubscribeGoroutine
    PROVE  /\ SubscribeLeft(sub') < SubscribeLeft(sub)
           /\ UNCHANGED <<bfpc, ffpc, balpc>>
<1>1. \/ sub = "on" /\ sub' \in {"lost", "closed"}
      \/ sub = "lost" /\ sub' \in {"dial", "closed"}
      \/ sub = "dial" /\ sub' = "closed"
      \/ sub = "closed" /\ sub' = "err"
  BY DEF SubscribeGoroutine, Subscribe, SubscribeNewHead,
     SubscribeNewHeadFails, ConnectionLost, Resubscribe, SubscribeCancelled,
     SubscribeReturns
<1>2. UNCHANGED <<bfpc, ffpc, balpc>>
  BY DEF SubscribeGoroutine, backfillVars, forwardfillVars, balancefillVars
<1> QED
  BY <1>1, <1>2 DEF SubscribeLeft

\* The answer about the head launches balancefill, which counts for less.
LEMMA ProcessRunsDown ==
    ASSUME cancelled, DownIsOff, Process, up'
    PROVE  WorkLeft' < WorkLeft
<1>1. UNCHANGED <<ffpc, sub>>
  BY DEF DownIsOff, Process, Start, GetLastBlockId, GetLastBlockIdFails,
     BackfillSignal, Exit, ExtractPanics, Crash, ProcessEnds, fetcherVars,
     forwardfillVars
<1>2. \/ bfpc = "target" /\ bfpc' = "cursor" /\ balpc' = "signal"
      \/ bfpc = "target" /\ bfpc' = "done" /\ balpc' = balpc
      \/ balpc = "signal" /\ balpc' = "cursor" /\ bfpc' = bfpc
  BY DEF DownIsOff, Process, Start, GetLastBlockId, GetLastBlockIdFails,
     BackfillSignal, Exit, ExtractPanics, Crash, ProcessEnds, balancefillVars
<1>3. BackfillLeft(bfpc') + BalancefillLeft(balpc')
      < BackfillLeft(bfpc) + BalancefillLeft(balpc)
  BY <1>2, LeftIsNat DEF BackfillLeft, BalancefillLeft
<1> QED
  BY <1>1, <1>3, LeftIsNat DEF WorkLeft

\* However the group was cancelled, and wherever its goroutines are, each of
\* their steps brings the end of the process closer, for any number of faults,
\* any chain and any contents.  What keeps ShutdownCompletes from being proved
\* as well is that some step is always enabled.
THEOREM CancelledGroupsEnd == Safety => EndsInSteps
<1>1. Init => DownIsOff
  BY InitDown
<1>2. ASSUME DownIsOff, [Next]_vars
      PROVE  [cancelled =>
                \/ ~up'
                \/ WorkLeft' < WorkLeft
                \/ UNCHANGED <<groupVars, databaseVars, backfillVars,
                               forwardfillVars, balancefillVars, sub>>]_vars
  <2> SUFFICES ASSUME cancelled, up'
               PROVE  \/ WorkLeft' < WorkLeft
                      \/ UNCHANGED <<groupVars, databaseVars, backfillVars,
                                     forwardfillVars, balancefillVars, sub>>
    OBVIOUS
  <2>1. CASE Process
    BY <1>2, <2>1, ProcessRunsDown
  <2>2. CASE Node
    BY <2>2 DEF Node, Mine, Reorg
  <2>3. CASE Interrupt
    BY <2>3 DEF Interrupt, Signal
  <2>4. CASE SubscribeGoroutine
    BY <2>4, SubscribeRunsDown, LeftIsNat DEF WorkLeft
  <2>5. CASE BackfillGoroutine
    BY <2>5, BackfillRunsDown, LeftIsNat DEF WorkLeft
  <2>6. CASE ForwardfillGoroutine
    BY <2>6, ForwardfillRunsDown, LeftIsNat DEF WorkLeft
  <2>7. CASE BalancefillGoroutine
    BY <2>7, BalancefillRunsDown, LeftIsNat DEF WorkLeft
  <2>8. CASE UNCHANGED vars
    BY <2>8 DEF vars, fetcherVars
  <2> QED
    BY <1>2, <2>1, <2>2, <2>3, <2>4, <2>5, <2>6, <2>7, <2>8 DEF Next
<1>3. DownIsOff /\ [Next]_vars => DownIsOff'
  BY NextDown
<1> QED
  BY <1>1, <1>2, <1>3, PTL DEF Safety, EndsInSteps
=============================================================================
