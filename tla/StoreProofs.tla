---------------------------- MODULE StoreProofs -----------------------------
(* What backfill and forwardfill make of the tables, statement by statement, *)
(* for every value of the constants.                                         *)
EXTENDS IndexerProofs, SequenceTheorems

\* Where BulkCreate's transaction is open, and where Delete's is to run.
Open     == {"txs", "events", "commit"}
Deleting == {"delete", "deletetxs", "deleteblock"}

-----------------------------------------------------------------------------
(* What does not depend on the contents of blocks.                           *)

HeightsOnce == \A b, c \in db.blocks : b.id = c.id => b = c

\* The blocks BulkCreate inserts are of heights that nobody else stores before
\* it commits.
BatchBlocks ==
    /\ bfpc \notin Open => inserted = EmptyStore
    /\ bfpc \in Open => /\ inserted.blocks \subseteq results
                        /\ \A b, c \in results : b.id = c.id => b = c
    /\ \A b \in inserted.blocks : b.id \notin Ids(db)

\* Until Delete is done, the block that forwardfill found in the way is there.
InTheWay ==
    /\ ffpc \notin {"deletetxs", "deleteblock"} => deleted = NothingDeleted
    /\ ffpc \in Deleting => \E c \in db.blocks : c.id = ffBlock.id /\ c # ffBlock

HInv == HeightsOnce /\ BatchBlocks /\ InTheWay

\* A transaction, or its absence, that a step leaves alone, or that ends.
BatchSame   == UNCHANGED <<inserted, results, bfpc>>
BatchGone   == inserted' = EmptyStore /\ bfpc' \notin Open
DeleteSame  == UNCHANGED <<deleted, ffpc, ffBlock>>
DeleteGone  == deleted' = NothingDeleted /\ ffpc' \notin Deleting

LEMMA BackfillKinds ==
    ASSUME HInv, BackfillGoroutine
    PROVE  /\ DeleteSame
           /\ \/ InsertBlocks \/ InsertTransactions \/ InsertEvents
              \/ CommitBatch
              \/ db' = db /\ (BatchSame \/ BatchGone)
<1>1. DeleteSame
  BY DEF BackfillGoroutine, forwardfillVars, forwardfillLocals, DeleteSame
<1>2. ASSUME NEW n \in Height, FetchResult(n)
      PROVE  db' = db /\ BatchGone
  BY <1>2 DEF FetchResult, HInv, BatchBlocks, BatchGone, Open
<1>3. ASSUME \/ GetBackfillCursor \/ UpToDate \/ BulkCreateConflict
             \/ UpdateBackfillCursor \/ BackfillFails
      PROVE  db' = db /\ BatchGone
  BY <1>3 DEF GetBackfillCursor, StartBatch, UpToDate, BulkCreateConflict,
     UpdateBackfillCursor, BackfillFails, HInv, BatchBlocks, BatchGone, Open
<1> QED
  BY <1>1, <1>2, <1>3 DEF BackfillGoroutine, BackfillStep

LEMMA ForwardfillKinds ==
    ASSUME HInv, ForwardfillGoroutine
    PROVE  /\ BatchSame
           /\ \/ CheckReorg \/ DeleteEvents \/ DeleteTransactions \/ DeleteBlock
              \/ Create
              \/ db' = db /\ DeleteGone
<1>1. BatchSame
  BY DEF ForwardfillGoroutine, backfillVars, backfillLocals, BatchSame
<1>2. CASE ForwardfillFails
  BY <1>1, <1>2 DEF ForwardfillFails, DeleteGone, Deleting
<1>3. CASE \/ ReceiveHeader \/ ReceiveFromClosed \/ ReceiveError \/ ReceiveDone
           \/ FetchBlockPriority \/ PublishReorg \/ CreateConflict
           \/ CreateNotCommitted \/ PublishBlock \/ PublishRows
  BY <1>1, <1>3 DEF ReceiveHeader, ReceiveFromClosed, ReceiveError,
     ReceiveDone, ForwardfillReturns, FetchBlockPriority, PublishReorg,
     CreateConflict, CreateNotCommitted, PublishBlock, PublishRows, HInv,
     InTheWay, DeleteGone, Deleting
<1> QED
  BY <1>1, <1>2, <1>3 DEF ForwardfillGoroutine, ForwardfillStep

LEMMA OtherKinds ==
    ASSUME HInv, DownIsOff, [Next]_vars,
           ~BackfillGoroutine, ~ForwardfillGoroutine
    PROVE  /\ db' = db
           /\ BatchSame \/ BatchGone
           /\ DeleteSame \/ DeleteGone
<1>1. ASSUME NEW reindex \in BOOLEAN, Start(reindex)
      PROVE  db' = db /\ BatchGone /\ DeleteGone
  BY <1>1 DEF Start, databaseVars, backfillLocals, forwardfillLocals,
     DownIsOff, HInv, BatchBlocks, InTheWay, BatchGone, DeleteGone, Open,
     Deleting
<1>2. CASE GetLastBlockId \/ GetLastBlockIdFails
  BY <1>2 DEF GetLastBlockId, GetLastBlockIdFails, databaseVars,
     backfillLocals, forwardfillVars, forwardfillLocals, HInv, BatchBlocks,
     BatchGone, DeleteSame, Open
<1>3. CASE BackfillSignal
  BY <1>3 DEF BackfillSignal, databaseVars, backfillLocals, forwardfillVars,
     forwardfillLocals, BatchSame, DeleteSame
<1>4. CASE ProcessEnds
  BY <1>4 DEF ProcessEnds, RollBack, BackfillStops, ForwardfillStops,
     BatchGone, DeleteGone, Open, Deleting
<1>5. CASE \/ Node \/ Interrupt \/ SubscribeGoroutine \/ BalancefillGoroutine
           \/ UNCHANGED vars
  <2>1. UNCHANGED <<db, inserted, deleted, backfillVars, forwardfillVars>>
    BY <1>5 DEF Node, Interrupt, SubscribeGoroutine, BalancefillGoroutine,
       BalancefillStep, GetBalancefillCursor, LeaveWait, BalancefillDone,
       GetLogs, BatchUpsertBalance, UpdateBalancefillCursor,
       BalancefillFails, databaseVars, vars
  <2> QED
    BY <2>1 DEF backfillVars, backfillLocals, forwardfillVars,
       forwardfillLocals, BatchSame, DeleteSame
<1> QED
  BY <1>1, <1>2, <1>3, <1>4, <1>5
     DEF Next, Process, Exit, ExtractPanics, Crash

\* The steps, as far as the tables and the open transactions are concerned.
LEMMA StoreKinds ==
    ASSUME HInv, DownIsOff, [Next]_vars
    PROVE  \/ /\ db' = db
              /\ BatchSame \/ BatchGone
              /\ DeleteSame \/ DeleteGone
           \/ /\ DeleteSame
              /\ InsertBlocks \/ InsertTransactions \/ InsertEvents
                 \/ CommitBatch
           \/ /\ BatchSame
              /\ CheckReorg \/ DeleteEvents \/ DeleteTransactions
                 \/ DeleteBlock \/ Create
BY BackfillKinds, ForwardfillKinds, OtherKinds

LEMMA InitHInv == Init => HInv
BY DEF Init, RepositoryInit, TransactionsInit, BackfillInit, ForwardfillInit,
   EmptyStore, Ids, HInv, HeightsOnce, BatchBlocks, InTheWay, Open, Deleting

LEMMA NextHInv ==
    ASSUME IInv, DownIsOff, HInv, [Next]_vars
    PROVE  HInv'
<1> USE DEF HInv, Open, Deleting
<1>1. CASE db' = db /\ (BatchSame \/ BatchGone) /\ (DeleteSame \/ DeleteGone)
  <2>1. HeightsOnce'
    BY <1>1 DEF HeightsOnce
  <2>2. BatchBlocks'
    <3>1. CASE BatchSame
      BY <1>1, <3>1 DEF BatchSame, BatchBlocks, Ids
    <3>2. CASE BatchGone
      BY <1>1, <3>2 DEF BatchGone, BatchBlocks, EmptyStore
    <3> QED
      BY <1>1, <3>1, <3>2
  <2>3. InTheWay'
    BY <1>1 DEF DeleteSame, DeleteGone, InTheWay
  <2> QED
    BY <2>1, <2>2, <2>3
<1>2. CASE InsertBlocks /\ DeleteSame
  <2>1. /\ db' = db /\ results' = results /\ bfpc' = "txs"
        /\ inserted'.blocks = results \ db.blocks /\ ~Conflict(db, results)
    BY <1>2 DEF InsertBlocks, backfillLocals, IInv, TypeOK,
       TransactionsTypeOK, Store
  <2>2. BatchBlocks'
    BY <2>1 DEF BatchBlocks, Conflict, Ids
  <2> QED
    BY <1>2, <2>1, <2>2 DEF HeightsOnce, InTheWay, DeleteSame
<1>3. CASE (InsertTransactions \/ InsertEvents) /\ DeleteSame
  <2>1. /\ db' = db /\ results' = results /\ bfpc' \in Open /\ bfpc \in Open
        /\ inserted'.blocks = inserted.blocks
    BY <1>3 DEF InsertTransactions, InsertEvents, backfillLocals, IInv,
       TypeOK, TransactionsTypeOK, Store
  <2>2. BatchBlocks'
    BY <2>1 DEF BatchBlocks, Ids
  <2> QED
    BY <1>3, <2>1, <2>2 DEF HeightsOnce, InTheWay, DeleteSame
<1>4. CASE CommitBatch /\ DeleteSame
  <2>1. /\ db'.blocks = db.blocks \cup inserted.blocks
        /\ inserted' = EmptyStore /\ bfpc = "commit" /\ bfpc' = "advance"
    BY <1>4 DEF CommitBatch, WithInserted
  <2>2. HeightsOnce'
    BY <2>1 DEF HeightsOnce, BatchBlocks, Ids
  <2>3. BatchBlocks'
    BY <2>1 DEF BatchBlocks, EmptyStore
  <2> QED
    BY <1>4, <2>1, <2>2, <2>3 DEF InTheWay, DeleteSame
<1>5. CASE CheckReorg /\ BatchSame
  <2>1. /\ db' = db /\ deleted' = deleted /\ ffBlock' = ffBlock
        /\ ffpc = "check"
        /\ ffpc' = IF ReorgDetected(GetBlockById(db, ffBlock.id))
                   THEN "delete" ELSE "create"
    BY <1>5 DEF CheckReorg, forwardfillLocals
  <2>2. InTheWay'
    BY <2>1 DEF InTheWay, ReorgDetected, GetBlockById
  <2> QED
    BY <1>5, <2>1, <2>2 DEF HeightsOnce, BatchBlocks, BatchSame, Ids
<1>6. CASE (DeleteEvents \/ DeleteTransactions) /\ BatchSame
  <2>1. /\ db' = db /\ ffBlock' = ffBlock
        /\ ffpc \in {"delete", "deletetxs"}
        /\ ffpc' \in {"deletetxs", "deleteblock"}
    BY <1>6 DEF DeleteEvents, DeleteTransactions, forwardfillLocals
  <2> QED
    BY <1>6, <2>1 DEF InTheWay, HeightsOnce, BatchBlocks, BatchSame, Ids
<1>7. CASE DeleteBlock /\ BatchSame
  <2>1. /\ db'.blocks = db.blocks \ GetBlockById(db, ffBlock.id)
        /\ deleted' = NothingDeleted /\ ffpc' = "pubreorg"
    BY <1>7 DEF DeleteBlock, WithoutDeleted
  <2> QED
    BY <1>7, <2>1
       DEF InTheWay, HeightsOnce, BatchBlocks, BatchSame, Ids, GetBlockById
<1>8. CASE Create /\ BatchSame
  <2>1. /\ db'.blocks = db.blocks \cup {ffBlock}
        /\ ~MeetsInserted({ffBlock}) /\ ~Conflict(db, {ffBlock})
        /\ deleted' = deleted /\ ffpc = "create" /\ ffpc' = "publish"
    BY <1>8 DEF Create, Insert
  <2>2. ffBlock.id \notin Ids(inserted)
    BY <2>1 DEF MeetsInserted
  <2>3. HeightsOnce'
    BY <2>1 DEF HeightsOnce, Conflict
  <2>4. BatchBlocks'
    BY <1>8, <2>1, <2>2 DEF BatchBlocks, BatchSame, Ids
  <2> QED
    BY <2>1, <2>3, <2>4 DEF InTheWay
<1> QED
  BY <1>1, <1>2, <1>3, <1>4, <1>5, <1>6, <1>7, <1>8, StoreKinds

-----------------------------------------------------------------------------
(* What forwardfill deletes.                                                 *)

\* Queue r is queue q with the heights first..last behind it.
Announced(q, r, first, last) ==
    /\ Len(r) = Len(q) + (last - first + 1)
    /\ \A i \in 1..Len(q) : r[i] = q[i]
    /\ \A i \in (Len(q) + 1)..Len(r) : r[i] = first + (i - Len(q)) - 1

LEMMA AnnouncedQueue ==
    ASSUME NEW q \in Seq(Nat), NEW first \in Nat, NEW last \in Nat,
           first <= last, NEW r,
           r = q \o [i \in 1..(last - first + 1) |-> first + i - 1]
    PROVE  Announced(q, r, first, last)
<1> DEFINE k == last - first + 1
           new == [i \in 1..k |-> first + i - 1]
<1>1. k \in Nat /\ \A i \in 1..k : first + i - 1 \in Nat
  OBVIOUS
<1> HIDE DEF k
<1>2. new \in Seq(Nat)
  BY <1>1
<1>3. Len(new) = k
  BY <1>1
<1>4. \A i \in 1..k : new[i] = first + i - 1
  OBVIOUS
<1>5. r = q \o new
  BY DEF k
<1> HIDE DEF new
<1>6. /\ Len(r) = Len(q) + k
      /\ \A i \in 1..(Len(q) + k) :
            r[i] = IF i <= Len(q) THEN q[i] ELSE new[i - Len(q)]
  <2>1. /\ Len(q \o new) = Len(q) + Len(new)
        /\ \A i \in 1..(Len(q) + Len(new)) :
              (q \o new)[i] = IF i <= Len(q) THEN q[i] ELSE new[i - Len(q)]
    BY <1>2, ConcatProperties, Zenon
  <2> QED
    BY <1>3, <1>5, <2>1
<1>7. Len(q) \in Nat
  BY LenProperties
<1>8. ASSUME NEW i \in (Len(q) + 1)..Len(r)
      PROVE  r[i] = first + (i - Len(q)) - 1
  <2>1. i - Len(q) \in 1..k /\ i \in 1..(Len(q) + k) /\ ~(i <= Len(q))
    BY <1>1, <1>6, <1>7
  <2> QED
    BY <1>4, <1>6, <2>1
<1>9. \A i \in 1..Len(q) : r[i] = q[i]
  BY <1>1, <1>6, <1>7
<1> QED
  BY <1>6, <1>8, <1>9 DEF Announced, k

LEMMA AnnounceQueues ==
    ASSUME headers \in Seq(Nat), NEW first \in Nat, NEW last \in Nat,
           first <= last, sub = "on", Announce(first, last)
    PROVE  Announced(headers, headers', first, last)
BY AnnouncedQueue DEF Announce

\* What a step of the chain replaces is announced, unless Subscribe is not
\* subscribed.
LEMMA NodeMoves ==
    ASSUME IInv, Node
    PROVE  /\ UNCHANGED <<sub, missed, cancelled, ffpc, ffId, ffBlock>>
           /\ sub # "on" => headers' = headers
           /\ Range(headers) \subseteq Range(headers')
           /\ \A i \in Height :
                 canon'[i] = canon[i] \/ (i # 0 /\ (sub = "on" =>
                                                     i \in Range(headers')))
<1>0. /\ headers \in Seq(Nat) /\ canon \in [0..MaxId -> Fork]
      /\ Height = 0..MaxId /\ MaxId \in Nat /\ head \in Height
  BY DomainAssumption DEF IInv, TypeOK, FetcherTypeOK, Height
<1>1. UNCHANGED <<sub, missed, cancelled, ffpc, ffId, ffBlock>>
  BY DEF Node, Mine, Reorg, groupVars, forwardfillVars, forwardfillLocals
<1>2. ASSUME NEW first \in Nat, NEW last \in Nat, first <= last,
             Announce(first, last)
      PROVE  /\ sub # "on" => headers' = headers
             /\ Range(headers) \subseteq Range(headers')
             /\ sub = "on" => \A i \in first..last : i \in Range(headers')
  <2>1. CASE sub # "on"
    BY <1>2, <2>1 DEF Announce
  <2>2. CASE sub = "on"
    <3>1. Announced(headers, headers', first, last)
      BY <1>0, <1>2, <2>2, AnnounceQueues
    <3>2. headers' \in Seq(Height)
      BY NodeIInv DEF IInv, TypeOK, FetcherTypeOK
    <3>3. /\ Len(headers) \in Nat /\ DOMAIN headers = 1..Len(headers)
          /\ Len(headers') \in Nat /\ DOMAIN headers' = 1..Len(headers')
      BY <1>0, <3>2
    <3>4. ASSUME NEW i \in first..last
          PROVE  \E k \in DOMAIN headers' : headers'[k] = i
      <4>1. Len(headers) + (i - first + 1) \in (Len(headers) + 1)..Len(headers')
        BY <3>1, <3>3 DEF Announced
      <4>2. headers'[Len(headers) + (i - first + 1)] = i
        BY <3>1, <3>3, <4>1 DEF Announced
      <4> QED
        BY <3>3, <4>1, <4>2
    <3>5. \A k \in DOMAIN headers :
             k \in DOMAIN headers' /\ headers'[k] = headers[k]
      <4>1. Len(headers) <= Len(headers')
        BY <1>2, <3>1, <3>3 DEF Announced
      <4> QED
        BY <3>1, <3>3, <4>1 DEF Announced
    <3> QED
      BY <2>2, <3>4, <3>5 DEF Range
  <2> QED
    BY <2>1, <2>2
<1>3. CASE Mine
  <2>1. /\ head + 1 \in Nat /\ Announce(head + 1, head + 1)
        /\ canon' = [canon EXCEPT ![head + 1] = Tip]
    BY <1>0, <1>3 DEF Mine
  <2>2. PICK n \in Nat : n = head + 1
    BY <2>1
  <2>3. \A i \in Height : i # n => canon'[i] = canon[i]
    BY <1>0, <2>1, <2>2
  <2>4. Announce(n, n) /\ n <= n /\ n # 0
    BY <1>0, <2>1, <2>2
  <2>5. /\ sub # "on" => headers' = headers
        /\ Range(headers) \subseteq Range(headers')
        /\ sub = "on" => \A i \in n..n : i \in Range(headers')
    BY <1>2, <2>4
  <2> QED
    BY <1>1, <2>3, <2>4, <2>5
<1>4. CASE ~Mine
  <2>1. PICK n, m \in Height : Reorg(n, m)
    BY <1>4 DEF Node
  <2>2. /\ n \in Nat /\ m \in Nat /\ n <= m /\ n # 0 /\ Announce(n, m)
        /\ canon' = [i \in Height |-> IF i \in n..m THEN Tip + 1 ELSE canon[i]]
    BY <1>0, <2>1 DEF Reorg
  <2>3. \A i \in Height : i \notin n..m => canon'[i] = canon[i]
    BY <2>2
  <2>4. 0 \notin n..m
    BY <2>2
  <2>5. /\ sub # "on" => headers' = headers
        /\ Range(headers) \subseteq Range(headers')
        /\ sub = "on" => \A i \in n..m : i \in Range(headers')
    BY <1>2, <2>2
  <2> QED
    BY <1>1, <2>3, <2>4, <2>5
<1> QED
  BY <1>3, <1>4

\* forwardfill holds a block that it may delete another for.
Holding == {"check"} \cup Deleting

\* forwardfill works on headers that came over the connection, on the zero value
\* of the closed channel, or on nothing.
SubInv ==
    /\ sub = "off" => ffpc = "off" /\ headers = <<>>
    /\ sub = "lost" => missed
    /\ sub = "dial" /\ ~missed => ffpc \in {"select", "done"} /\ headers = <<>>
    /\ sub \in {"closed", "err"} /\ ~missed /\ ~cancelled =>
          /\ ffpc \in Holding => ffBlock.id = 0
          /\ ffpc = "fetch" => ffId = 0

\* The header that makes up for a stale block is on its way.
StaleInv ==
    /\ ffpc \in Holding
    /\ ffBlock # NodeBlock(ffBlock.id) /\ ffBlock # ZeroBlock
    => ffBlock.id \in Range(headers) \/ missed \/ cancelled

LEMMA InitHeaders == Init => SubInv /\ StaleInv
BY DEF Init, FetcherInit, ForwardfillInit, SubInv, StaleInv, Holding, Deleting

LEMMA ForwardfillHeaders ==
    ASSUME IInv, SubInv, StaleInv, ForwardfillGoroutine
    PROVE  SubInv' /\ StaleInv'
<1> USE DEF Holding, Deleting
<1>1. UNCHANGED <<canon, missed>>
  BY DEF ForwardfillGoroutine, chainVars
<1>2. CASE ReceiveHeader \/ ReceiveFromClosed
  BY <1>1, <1>2 DEF ReceiveHeader, ReceiveFromClosed, SubInv, StaleInv,
     groupVars
<1>3. CASE FetchBlockPriority
  <2>1. /\ UNCHANGED <<sub, headers, cancelled>> /\ ffpc = "fetch"
        /\ ffpc' = "check" /\ ffBlock' \in {NodeBlock(ffId), ZeroBlock}
    BY <1>3 DEF FetchBlockPriority, FetchBlock, CallReturns, groupVars
  <2>2. ffBlock'.id \in {ffId, 0}
    BY <2>1 DEF NodeBlock, ZeroBlock
  <2>3. SubInv'
    BY <1>1, <2>1, <2>2 DEF SubInv
  <2>4. StaleInv'
    BY <1>1, <2>1 DEF StaleInv, NodeBlock, ZeroBlock
  <2> QED
    BY <2>3, <2>4
<1>4. CASE CheckReorg \/ DeleteEvents \/ DeleteTransactions
  <2>1. /\ UNCHANGED <<sub, headers, cancelled, ffId, ffBlock>>
        /\ ffpc \in Holding
        /\ ffpc' \in Holding \cup {"create"}
    BY <1>4 DEF CheckReorg, DeleteEvents, DeleteTransactions, CallReturns,
       groupVars, forwardfillLocals
  <2> QED
    BY <1>1, <2>1 DEF SubInv, StaleInv, NodeBlock
<1>5. CASE DeleteBlock \/ PublishReorg \/ Create \/ CreateNotCommitted
           \/ PublishBlock \/ PublishRows
  <2>1. /\ UNCHANGED <<sub, headers, cancelled>>
        /\ ffpc' \in {"pubreorg", "create", "publish", "pubrows", "select"}
        /\ ffpc \notin {"off", "select", "done"}
    BY <1>5 DEF DeleteBlock, PublishReorg, Create, CreateNotCommitted,
       PublishBlock, PublishRows, CallReturns, groupVars, forwardfillLocals
  <2> QED
    BY <1>1, <2>1 DEF SubInv, StaleInv
<1>6. CASE ReceiveError \/ ReceiveDone \/ CreateConflict \/ ForwardfillFails
  <2>1. UNCHANGED <<sub, headers>> /\ ffpc' = "done" /\ ffpc # "off"
    BY <1>6 DEF ReceiveError, ReceiveDone, CreateConflict,
       ForwardfillReturns, ForwardfillFails, Calling, forwardfillLocals
  <2> QED
    BY <1>1, <2>1 DEF SubInv, StaleInv
<1> QED
  BY <1>2, <1>3, <1>4, <1>5, <1>6 DEF ForwardfillGoroutine, ForwardfillStep

LEMMA SubscribeHeaders ==
    ASSUME IInv, SubInv, StaleInv, SubscribeGoroutine
    PROVE  SubInv' /\ StaleInv'
<1> USE DEF Holding, Deleting
<1>1. UNCHANGED <<canon, ffpc, ffId, ffBlock>>
  BY DEF SubscribeGoroutine, Subscribe, SubscribeNewHead,
     SubscribeNewHeadFails, ConnectionLost, Resubscribe, SubscribeCancelled,
     SubscribeReturns, forwardfillVars, forwardfillLocals
<1>2. CASE ConnectionLost
  BY <1>1, <1>2 DEF ConnectionLost, SubInv, StaleInv
<1>3. CASE SubscribeCancelled
  BY <1>1, <1>3 DEF SubscribeCancelled, SubInv, StaleInv
<1>4. CASE SubscribeNewHead \/ SubscribeNewHeadFails \/ Resubscribe
           \/ SubscribeReturns
  <2>1. UNCHANGED <<cancelled, headers, missed>>
    BY <1>4 DEF SubscribeNewHead, SubscribeNewHeadFails, Resubscribe,
       SubscribeReturns
  <2>2. SubInv'
    BY <1>1, <1>4, <2>1 DEF SubscribeNewHead, SubscribeNewHeadFails,
       Resubscribe, SubscribeReturns, SubInv
  <2> QED
    BY <1>1, <2>1, <2>2 DEF StaleInv, NodeBlock
<1> QED
  BY <1>2, <1>3, <1>4 DEF SubscribeGoroutine, Subscribe

LEMMA NodeHeaders ==
    ASSUME IInv, SubInv, StaleInv, Node
    PROVE  SubInv' /\ StaleInv'
<1>1. SubInv'
  BY NodeMoves DEF SubInv
<1>2. StaleInv'
  <2> SUFFICES ASSUME ffpc \in Holding, ffBlock # NodeBlock(ffBlock.id)',
                      ffBlock # ZeroBlock, ~missed, ~cancelled
               PROVE  ffBlock.id \in Range(headers')
    BY NodeMoves DEF StaleInv
  <2>1. ffBlock.id \in Height
    BY BlockId DEF IInv, TypeOK, ForwardfillTypeOK
  <2>2. CASE canon'[ffBlock.id] = canon[ffBlock.id]
    BY <2>2, NodeMoves DEF StaleInv, NodeBlock
  <2>3. CASE canon'[ffBlock.id] # canon[ffBlock.id]
    <3>1. ffBlock.id # 0
      BY <2>1, <2>3, NodeMoves
    <3>2. sub = "on"
      BY <3>1 DEF SubInv, Holding, Deleting, IInv, TypeOK, FetcherTypeOK,
         SubState
    <3> QED
      BY <2>1, <2>3, <3>2, NodeMoves
  <2> QED
    BY <2>2, <2>3
<1> QED
  BY <1>1, <1>2

LEMMA OthersHeaders ==
    ASSUME IInv, DownIsOff, SubInv, StaleInv, [Next]_vars,
           ~ForwardfillGoroutine, ~SubscribeGoroutine, ~Node
    PROVE  SubInv' /\ StaleInv'
<1>1. ASSUME NEW reindex \in BOOLEAN, Start(reindex)
      PROVE  SubInv' /\ StaleInv'
  BY <1>1 DEF Start, DownIsOff, SubInv, StaleInv, Holding, Deleting
<1>2. CASE ProcessEnds
  BY <1>2 DEF ProcessEnds, ForwardfillStops, SubInv, StaleInv, Holding,
     Deleting
<1>3. CASE \/ GetLastBlockId \/ GetLastBlockIdFails \/ BackfillSignal
           \/ Interrupt \/ BackfillGoroutine \/ BalancefillGoroutine
           \/ UNCHANGED vars
  <2>1. UNCHANGED <<canon, sub, headers, missed, ffpc, ffId, ffBlock>>
    BY <1>3 DEF GetLastBlockId, GetLastBlockIdFails, BackfillSignal,
       Interrupt, BackfillGoroutine, BalancefillGoroutine, fetcherVars,
       forwardfillVars, forwardfillLocals, vars
  <2>2. cancelled => cancelled'
    BY <1>3 DEF GetLastBlockId, GetLastBlockIdFails, BackfillSignal,
       Interrupt, Signal, BackfillGoroutine, BackfillStep, GetBackfillCursor,
       UpToDate, FetchResult, InsertBlocks, InsertTransactions, InsertEvents,
       CommitBatch, BulkCreateConflict, UpdateBackfillCursor, BackfillFails,
       BalancefillGoroutine, BalancefillStep, GetBalancefillCursor,
       LeaveWait, BalancefillDone, GetLogs, BatchUpsertBalance,
       UpdateBalancefillCursor, BalancefillFails, CallReturns, CallFails,
       ReturnError, groupVars, vars
  <2> QED
    BY <2>1, <2>2 DEF SubInv, StaleInv, NodeBlock
<1> QED
  BY <1>1, <1>2, <1>3 DEF Next, Process, Exit, ExtractPanics, Crash

LEMMA NextHeaders == IInv /\ DownIsOff /\ SubInv /\ StaleInv /\ [Next]_vars
                        => SubInv' /\ StaleInv'
BY ForwardfillHeaders, SubscribeHeaders, NodeHeaders, OthersHeaders

\* Only a block that stands in the way of the one forwardfill holds is deleted.
LEMMA DeletedBlocks ==
    ASSUME HInv, DownIsOff, [Next]_vars,
           NEW b \in db.blocks, b \notin db'.blocks
    PROVE  /\ DeleteBlock
           /\ b.id = ffBlock.id /\ b # ffBlock
<1>1. CASE ~DeleteBlock
  <2>1. db' = db \/ CommitBatch \/ Create
    BY <1>1, StoreKinds DEF InsertBlocks, InsertTransactions, InsertEvents,
       CheckReorg, DeleteEvents, DeleteTransactions
  <2> QED
    BY <2>1 DEF CommitBatch, WithInserted, Create, Insert
<1>2. CASE DeleteBlock
  <2>1. b.id = ffBlock.id
    BY <1>2 DEF DeleteBlock, WithoutDeleted, GetBlockById
  <2> QED
    BY <1>2, <2>1 DEF DeleteBlock, HInv, HeightsOnce, InTheWay, Deleting
<1> QED
  BY <1>1, <1>2

\* A block of the chain is deleted only if the header that brings it back is on
\* its way, or the connection was lost, or the node did not know a block.
THEOREM OnlyStaleBlocksGo == Safety => DeletesOnlyStale
<1>1. IInv /\ DownIsOff /\ HInv /\ SubInv /\ StaleInv /\ [Next]_vars
         => [\A b \in db.blocks \ db'.blocks :
                b = NodeBlock(b.id) =>
                   b.id \in Range(headers) \/ missed \/ ffBlock = ZeroBlock]_vars
  <2> SUFFICES ASSUME IInv, DownIsOff, HInv, SubInv, StaleInv, [Next]_vars,
                      NEW b \in db.blocks \ db'.blocks, b = NodeBlock(b.id)
               PROVE  b.id \in Range(headers) \/ missed \/ ffBlock = ZeroBlock
    OBVIOUS
  <2>1. DeleteBlock /\ b.id = ffBlock.id /\ b # ffBlock
    BY DeletedBlocks
  <2>2. ffpc \in Holding /\ ~cancelled
    BY <2>1 DEF DeleteBlock, CallReturns, Holding, Deleting
  <2> QED
    BY <2>1, <2>2 DEF StaleInv
<1> QED
  BY <1>1, InitIInv, NextIInv, InitDown, NextDown, InitHInv, NextHInv,
     InitHeaders, NextHeaders, PTL DEF Safety, DeletesOnlyStale

-----------------------------------------------------------------------------
(* The rows, where no transaction is in blocks of two heights.               *)

\* A row is at the height of the blocks that have it.
RowsHome ==
    /\ \A r \in db.txs : \E c \in Block : c.id = r.block_id /\ r.hash \in TxsOf[c]
    /\ \A r \in db.events :
          \E c \in Block : c.id = r.block_id /\ r.log \in LogsOf[c]

\* The rows BulkCreate inserts are new until it commits, and those of its blocks.
BatchRows ==
    /\ \A r \in inserted.txs :
          /\ r.hash \notin TxHashes(db)
          /\ \E b \in results : b.id = r.block_id /\ r.hash \in TxsOf[b]
    /\ \A r \in inserted.events :
          /\ r.log \notin LogKeys(db)
          /\ \E b \in results : b.id = r.block_id /\ r.log \in LogsOf[b]

\* Once inserted, nothing is missing of the blocks it inserts.
BatchWhole ==
    /\ bfpc \in {"events", "commit"} =>
          \A b \in inserted.blocks :
             TxsOf[b] \subseteq TxHashes(db) \cup TxHashes(inserted)
    /\ bfpc = "commit" =>
          \A b \in inserted.blocks :
             LogsOf[b] \subseteq LogKeys(db) \cup LogKeys(inserted)

\* Nothing is missing of the blocks that are stored.
StoredWhole ==
    \A b \in db.blocks :
       TxsOf[b] \subseteq TxHashes(db) /\ LogsOf[b] \subseteq LogKeys(db)

\* Delete deletes rows of one height, and all those of the block stored there.
DeletedRows ==
    /\ \A r \in deleted.txs \cup deleted.events : r.block_id = ffBlock.id
    /\ ffpc \in {"deletetxs", "deleteblock"} =>
          \A c \in db.blocks, r \in db.events :
             c.id = ffBlock.id /\ r.log \in LogsOf[c] => r \in deleted.events
    /\ ffpc = "deleteblock" =>
          \A c \in db.blocks, r \in db.txs :
             c.id = ffBlock.id /\ r.hash \in TxsOf[c] => r \in deleted.txs

WInv == RowsHome /\ BatchRows /\ BatchWhole /\ StoredWhole /\ DeletedRows

LEMMA LogsStay ==
    ASSUME TxsStay, NEW b \in Block, NEW c \in Block, NEW l \in LogsOf[b],
           l \in LogsOf[c]
    PROVE  b.id = c.id
BY DomainAssumption DEF TxsStay

LEMMA RowAtHome ==
    ASSUME TxsStay, RowsHome, NEW b \in Block
    PROVE  /\ \A r \in db.txs : r.hash \in TxsOf[b] => r.block_id = b.id
           /\ \A r \in db.events : r.log \in LogsOf[b] => r.block_id = b.id
<1>1. \A r \in db.txs : r.hash \in TxsOf[b] => r.block_id = b.id
  BY DEF RowsHome, TxsStay
<1>2. \A r \in db.events : r.log \in LogsOf[b] => r.block_id = b.id
  BY LogsStay DEF RowsHome
<1> QED
  BY <1>1, <1>2

\* The blocks in the tables, the batch and the hands of forwardfill.
LEMMA Blocks ==
    ASSUME IInv
    PROVE  /\ db.blocks \subseteq Block /\ results \subseteq Block
           /\ inserted.blocks \subseteq Block /\ ffBlock \in Block
BY DEF IInv, TypeOK, RepositoryTypeOK, TransactionsTypeOK, Store,
       BackfillTypeOK, ForwardfillTypeOK

\* An INSERT of a batch adds what is missing of its blocks, and only that.
LEMMA NewRows ==
    ASSUME TxsStay, NEW d, NEW S \in SUBSET Block, NEW b \in S
    PROVE  /\ \A h \in TxsOf[b] :
                 h \in TxHashes(d) \/ h \in {r.hash : r \in NewTxRows(d, S)}
           /\ \A l \in LogsOf[b] :
                 l \in LogKeys(d) \/ l \in {r.log : r \in NewLogRows(d, S)}
<1>1. b \in Block /\ b.id \in Height /\ TxsOf[b] \subseteq Tx
      /\ LogsOf[b] \subseteq Log /\ b.id \in Nat /\ b.id <= b.id
  BY BlockId, DomainAssumption DEF Height
<1>2. ASSUME NEW h \in TxsOf[b], h \notin TxHashes(d)
      PROVE  h \in {r.hash : r \in NewTxRows(d, S)}
  <2> DEFINE r == [hash |-> h, block_id |-> b.id]
  <2>1. r \in TxRow /\ r.hash = h /\ r.block_id = b.id
    BY <1>1 DEF TxRow
  <2>2. \A c \in S : h \in TxsOf[c] => b.id <= c.id
    BY <1>1 DEF TxsStay
  <2> HIDE DEF r
  <2>3. r \in NewTxRows(d, S)
    BY <1>2, <2>1, <2>2 DEF NewTxRows
  <2> QED
    BY <2>1, <2>3
<1>3. ASSUME NEW l \in LogsOf[b], l \notin LogKeys(d)
      PROVE  l \in {r.log : r \in NewLogRows(d, S)}
  <2> DEFINE r == [log |-> l, block_id |-> b.id]
  <2>1. r \in LogRow /\ r.log = l /\ r.block_id = b.id
    BY <1>1 DEF LogRow
  <2>2. \A c \in S : l \in LogsOf[c] => b.id <= c.id
    BY <1>1, LogsStay
  <2> HIDE DEF r
  <2>3. r \in NewLogRows(d, S)
    BY <1>3, <2>1, <2>2 DEF NewLogRows
  <2> QED
    BY <2>1, <2>3
<1> QED
  BY <1>2, <1>3

LEMMA InitWInv == Init => WInv
BY DEF Init, RepositoryInit, TransactionsInit, BackfillInit, ForwardfillInit,
   EmptyStore, NothingDeleted, TxHashes, LogKeys, WInv, RowsHome, BatchRows,
   BatchWhole, StoredWhole, DeletedRows

LEMMA InsertsWInv ==
    ASSUME TxsStay, IInv, HInv, WInv, DeleteSame,
           InsertBlocks \/ InsertTransactions \/ InsertEvents
    PROVE  WInv'
<1>1. /\ db' = db /\ results' = results /\ bfpc' \in Open
      /\ RowsHome' /\ StoredWhole' /\ DeletedRows'
  BY DEF InsertBlocks, InsertTransactions, InsertEvents, backfillLocals,
     DeleteSame, WInv, RowsHome, StoredWhole, DeletedRows, Open, TxHashes,
     LogKeys
<1>2. inserted \in Store
  BY DEF IInv, TypeOK, TransactionsTypeOK
<1>3. CASE InsertBlocks
  <2>1. /\ inserted'.txs = {} /\ inserted'.events = {} /\ bfpc' = "txs"
    BY <1>2, <1>3 DEF InsertBlocks, HInv, BatchBlocks, EmptyStore, Open, Store
  <2> QED
    BY <1>1, <2>1 DEF WInv, BatchRows, BatchWhole
<1>4. CASE InsertTransactions
  <2>1. /\ inserted'.txs = NewTxRows(db, results)
        /\ inserted'.events = inserted.events
        /\ inserted'.blocks = inserted.blocks
        /\ bfpc = "txs" /\ bfpc' = "events"
    BY <1>2, <1>4 DEF InsertTransactions, Store
  <2>2. inserted'.blocks \subseteq results
    BY <2>1 DEF HInv, BatchBlocks, Open
  <2>3. BatchRows'
    BY <1>1, <2>1 DEF WInv, BatchRows, NewTxRows, TxHashes, LogKeys
  <2>4. \A b \in inserted'.blocks :
           TxsOf[b] \subseteq TxHashes(db)' \cup TxHashes(inserted)'
    BY <1>1, <2>1, <2>2, Blocks, NewRows DEF TxHashes
  <2> QED
    BY <1>1, <2>1, <2>3, <2>4 DEF WInv, BatchWhole
<1>5. CASE InsertEvents
  <2>1. /\ inserted'.events = NewLogRows(db, results)
        /\ inserted'.txs = inserted.txs
        /\ inserted'.blocks = inserted.blocks
        /\ bfpc = "events" /\ bfpc' = "commit"
    BY <1>2, <1>5 DEF InsertEvents, Store
  <2>2. inserted'.blocks \subseteq results
    BY <2>1 DEF HInv, BatchBlocks, Open
  <2>3. BatchRows'
    BY <1>1, <2>1 DEF WInv, BatchRows, NewLogRows, TxHashes, LogKeys
  <2>4. \A b \in inserted'.blocks :
           LogsOf[b] \subseteq LogKeys(db)' \cup LogKeys(inserted)'
    BY <1>1, <2>1, <2>2, Blocks, NewRows DEF LogKeys
  <2>5. \A b \in inserted'.blocks :
           TxsOf[b] \subseteq TxHashes(db)' \cup TxHashes(inserted)'
    BY <1>1, <2>1 DEF WInv, BatchWhole, TxHashes
  <2> QED
    BY <1>1, <2>1, <2>3, <2>4, <2>5 DEF WInv, BatchWhole
<1> QED
  BY <1>3, <1>4, <1>5

LEMMA CommitWInv ==
    ASSUME TxsStay, IInv, HInv, WInv, DeleteSame, CommitBatch
    PROVE  WInv'
<1>1. /\ db'.blocks = db.blocks \cup inserted.blocks
      /\ db'.txs = db.txs \cup inserted.txs
      /\ db'.events = db.events \cup inserted.events
      /\ inserted' = EmptyStore /\ bfpc = "commit" /\ bfpc' = "advance"
  BY DEF CommitBatch, WithInserted
<1>2. /\ TxHashes(db)' = TxHashes(db) \cup TxHashes(inserted)
      /\ LogKeys(db)' = LogKeys(db) \cup LogKeys(inserted)
  BY <1>1 DEF TxHashes, LogKeys
<1>3. RowsHome'
  BY <1>1, Blocks DEF WInv, RowsHome, BatchRows
<1>4. BatchRows' /\ BatchWhole'
  BY <1>1 DEF BatchRows, BatchWhole, EmptyStore
<1>5. StoredWhole'
  BY <1>1, <1>2 DEF WInv, StoredWhole, BatchWhole
<1>6. DeletedRows'
  <2>1. CASE ffpc \notin {"deletetxs", "deleteblock"}
    BY <2>1 DEF DeleteSame, DeletedRows, HInv, InTheWay, NothingDeleted
  <2>2. CASE ffpc \in {"deletetxs", "deleteblock"}
    <3>1. \A c \in db'.blocks : c.id = ffBlock.id => c \in db.blocks
      BY <1>1, <2>2 DEF HInv, BatchBlocks, InTheWay, Deleting, Ids
    <3>2. \A c \in db.blocks : /\ \A r \in inserted.txs : r.hash \notin TxsOf[c]
                               /\ \A r \in inserted.events :
                                     r.log \notin LogsOf[c]
      BY DEF WInv, StoredWhole, BatchRows
    <3> QED
      BY <1>1, <3>1, <3>2 DEF DeleteSame, WInv, DeletedRows
  <2> QED
    BY <2>1, <2>2
<1> QED
  BY <1>3, <1>4, <1>5, <1>6 DEF WInv

LEMMA DeletesWInv ==
    ASSUME TxsStay, IInv, HInv, WInv, BatchSame,
           CheckReorg \/ DeleteEvents \/ DeleteTransactions
    PROVE  WInv'
<1>1. /\ db' = db /\ ffBlock' = ffBlock
      /\ RowsHome' /\ StoredWhole' /\ BatchRows' /\ BatchWhole'
  BY DEF CheckReorg, DeleteEvents, DeleteTransactions, forwardfillLocals,
     BatchSame, WInv, RowsHome, StoredWhole, BatchRows, BatchWhole, TxHashes,
     LogKeys
<1>2. deleted \in [txs: SUBSET TxRow, events: SUBSET LogRow]
  BY DEF IInv, TypeOK, TransactionsTypeOK
<1>3. CASE CheckReorg
  BY <1>1, <1>3 DEF CheckReorg, HInv, InTheWay, NothingDeleted, WInv,
     DeletedRows
<1>4. CASE DeleteEvents
  <2>1. /\ deleted'.events = EventsAt(db, ffBlock.id)
        /\ deleted'.txs = {} /\ ffpc' = "deletetxs"
    BY <1>2, <1>4 DEF DeleteEvents, HInv, InTheWay, NothingDeleted
  <2>2. \A c \in db.blocks, r \in db.events :
           c.id = ffBlock.id /\ r.log \in LogsOf[c] => r \in deleted'.events
    BY <2>1, Blocks, RowAtHome DEF WInv, EventsAt
  <2> QED
    BY <1>1, <2>1, <2>2 DEF WInv, DeletedRows, EventsAt
<1>5. CASE DeleteTransactions
  <2>1. /\ deleted'.txs = TxsAt(db, ffBlock.id)
        /\ deleted'.events = deleted.events
        /\ ffpc = "deletetxs" /\ ffpc' = "deleteblock"
    BY <1>2, <1>5 DEF DeleteTransactions
  <2>2. \A c \in db.blocks, r \in db.txs :
           c.id = ffBlock.id /\ r.hash \in TxsOf[c] => r \in deleted'.txs
    BY <2>1, Blocks, RowAtHome DEF WInv, TxsAt
  <2> QED
    BY <1>1, <2>1, <2>2 DEF WInv, DeletedRows, TxsAt
<1> QED
  BY <1>3, <1>4, <1>5

LEMMA DeleteBlockWInv ==
    ASSUME TxsStay, IInv, HInv, WInv, BatchSame, DeleteBlock
    PROVE  WInv'
<1>1. /\ db'.blocks = db.blocks \ GetBlockById(db, ffBlock.id)
      /\ db'.txs = db.txs \ deleted.txs
      /\ db'.events = db.events \ deleted.events
      /\ deleted' = NothingDeleted
      /\ ffpc = "deleteblock" /\ ffpc' = "pubreorg"
  BY DEF DeleteBlock, WithoutDeleted
\* Whatever else is stored, or to be stored, keeps its rows.
<1>2. ASSUME NEW b \in Block, b.id # ffBlock.id
      PROVE  /\ \A h \in TxsOf[b] : h \in TxHashes(db) => h \in TxHashes(db)'
             /\ \A l \in LogsOf[b] : l \in LogKeys(db) => l \in LogKeys(db)'
  <2>1. \A r \in db.txs : r.hash \in TxsOf[b] => r \in db'.txs
    BY <1>1, <1>2, RowAtHome DEF WInv, DeletedRows
  <2>2. \A r \in db.events : r.log \in LogsOf[b] => r \in db'.events
    BY <1>1, <1>2, RowAtHome DEF WInv, DeletedRows
  <2> QED
    BY <2>1, <2>2 DEF TxHashes, LogKeys
<1>3. RowsHome'
  BY <1>1 DEF WInv, RowsHome
<1>4. BatchRows'
  BY <1>1 DEF WInv, BatchRows, BatchSame, TxHashes, LogKeys
<1>5. BatchWhole'
  <2>1. \A b \in inserted.blocks : b \in Block /\ b.id # ffBlock.id
    BY <1>1, Blocks DEF HInv, BatchBlocks, InTheWay, Deleting, Ids
  <2>2. UNCHANGED <<inserted, bfpc>>
    BY DEF BatchSame
  <2> QED
    BY <1>2, <2>1, <2>2 DEF WInv, BatchWhole, TxHashes, LogKeys
<1>6. StoredWhole'
  <2>1. \A b \in db'.blocks : b \in db.blocks /\ b.id # ffBlock.id /\ b \in Block
    BY <1>1, Blocks DEF GetBlockById
  <2> QED
    BY <1>2, <2>1 DEF WInv, StoredWhole
<1>7. DeletedRows'
  BY <1>1 DEF DeletedRows, NothingDeleted
<1> QED
  BY <1>3, <1>4, <1>5, <1>6, <1>7 DEF WInv

LEMMA CreateWInv ==
    ASSUME TxsStay, IInv, HInv, WInv, BatchSame, Create
    PROVE  WInv'
<1>1. /\ db'.blocks = db.blocks \cup {ffBlock}
      /\ db'.txs = db.txs \cup NewTxRows(db, {ffBlock})
      /\ db'.events = db.events \cup NewLogRows(db, {ffBlock})
      /\ ~MeetsInserted({ffBlock})
      /\ deleted = NothingDeleted /\ deleted' = deleted /\ ffpc' = "publish"
  BY DEF Create, Insert, HInv, InTheWay
<1>2. /\ TxHashes(db)' = TxHashes(db) \cup {r.hash : r \in NewTxRows(db, {ffBlock})}
      /\ LogKeys(db)' = LogKeys(db) \cup {r.log : r \in NewLogRows(db, {ffBlock})}
  BY <1>1 DEF TxHashes, LogKeys
<1>3. /\ \A r \in NewTxRows(db, {ffBlock}) :
            r.hash \in TxsOf[ffBlock] /\ r.block_id = ffBlock.id
      /\ \A r \in NewLogRows(db, {ffBlock}) :
            r.log \in LogsOf[ffBlock] /\ r.block_id = ffBlock.id
  BY DEF NewTxRows, NewLogRows
<1>4. RowsHome'
  BY <1>1, <1>3, Blocks DEF WInv, RowsHome
<1>5. BatchRows'
  <2>1. /\ TxsOf[ffBlock] \cap TxHashes(inserted) = {}
        /\ LogsOf[ffBlock] \cap LogKeys(inserted) = {}
    BY <1>1 DEF MeetsInserted
  <2>2. /\ \A r \in inserted.txs : r.hash \notin TxsOf[ffBlock]
        /\ \A r \in inserted.events : r.log \notin LogsOf[ffBlock]
    BY <2>1 DEF TxHashes, LogKeys
  <2> QED
    BY <1>2, <1>3, <2>2 DEF WInv, BatchRows, BatchSame
<1>6. BatchWhole'
  BY <1>2 DEF WInv, BatchWhole, BatchSame, TxHashes, LogKeys
<1>7. StoredWhole'
  <2>1. /\ TxsOf[ffBlock] \subseteq TxHashes(db)'
        /\ LogsOf[ffBlock] \subseteq LogKeys(db)'
    BY <1>2, Blocks, NewRows
  <2> QED
    BY <1>1, <1>2, <2>1 DEF WInv, StoredWhole
<1>8. DeletedRows'
  BY <1>1 DEF DeletedRows, NothingDeleted
<1> QED
  BY <1>4, <1>5, <1>6, <1>7, <1>8 DEF WInv

LEMMA NextWInv ==
    ASSUME TxsStay, IInv, DownIsOff, HInv, WInv, [Next]_vars
    PROVE  WInv'
<1>1. CASE db' = db /\ (BatchSame \/ BatchGone) /\ (DeleteSame \/ DeleteGone)
  <2>1. RowsHome' /\ StoredWhole'
    BY <1>1 DEF WInv, RowsHome, StoredWhole, TxHashes, LogKeys
  <2>2. BatchRows' /\ BatchWhole'
    <3>1. CASE BatchSame
      BY <1>1, <3>1 DEF BatchSame, WInv, BatchRows, BatchWhole, TxHashes,
         LogKeys
    <3>2. CASE BatchGone
      BY <1>1, <3>2 DEF BatchGone, BatchRows, BatchWhole, EmptyStore
    <3> QED
      BY <1>1, <3>1, <3>2
  <2>3. DeletedRows'
    <3>1. CASE DeleteSame
      BY <1>1, <3>1 DEF DeleteSame, WInv, DeletedRows
    <3>2. CASE DeleteGone
      BY <1>1, <3>2 DEF DeleteGone, DeletedRows, NothingDeleted, Deleting
    <3> QED
      BY <1>1, <3>1, <3>2
  <2> QED
    BY <2>1, <2>2, <2>3 DEF WInv
<1> QED
  BY <1>1, StoreKinds, InsertsWInv, CommitWInv, DeletesWInv, DeleteBlockWInv,
     CreateWInv

\* A stored block has all its rows.
LEMMA WholeComplete ==
    ASSUME TxsStay, IInv, WInv
    PROVE  StoredBlockComplete
BY Blocks, RowAtHome
   DEF StoredBlockComplete, WInv, StoredWhole, TxHashes, LogKeys, TxsAt,
       EventsAt

\* Stored blocks are whole, however statements of the two writers interleave,
\* whatever is deleted and stored again, and whatever fails: if no transaction
\* is in blocks of two heights.
THEOREM StoredBlocksAreComplete ==
    ASSUME TxsStay
    PROVE  Safety => []StoredBlockComplete
BY WholeComplete, InitIInv, NextIInv, InitDown, NextDown, InitHInv, NextHInv,
   InitWInv, NextWInv, PTL DEF Safety

-----------------------------------------------------------------------------
(* Rows of no stored block.                                                  *)

\* An INSERT of a block that is stored adds nothing.
LEMMA NothingNew ==
    ASSUME StoredWhole, NEW b \in db.blocks
    PROVE  NewTxRows(db, {b}) = {} /\ NewLogRows(db, {b}) = {}
BY DEF StoredWhole, NewTxRows, NewLogRows

\* Only a deletion that crosses a batch leaves rows of no stored block.
THEOREM StrayRowsHaveCrossed ==
    ASSUME TxsStay
    PROVE  Safety => StrayRowsCrossed
<1> DEFINE Step == \A r \in Stray(db') \ Stray(db) :
                      \E b \in results : b.id = r.block_id /\ Crossed(b)
<1>1. ASSUME IInv, DownIsOff, HInv, WInv, [Next]_vars PROVE Step
  <2>1. CASE db' = db
    BY <2>1
  <2>2. CASE Create
    <3>1. /\ db'.blocks = db.blocks \cup {ffBlock}
          /\ db'.txs = db.txs \cup NewTxRows(db, {ffBlock})
          /\ db'.events = db.events \cup NewLogRows(db, {ffBlock})
      BY <2>2 DEF Create, Insert
    <3>2. Stray(db') \subseteq Stray(db)
      BY <3>1 DEF Stray, StrayTxs, StrayEvents, GetBlockById, NewTxRows,
         NewLogRows
    <3> QED
      BY <3>2
  <2>3. CASE DeleteBlock
    <3>1. /\ db'.blocks = db.blocks \ GetBlockById(db, ffBlock.id)
          /\ db'.txs = db.txs \ deleted.txs
          /\ db'.events = db.events \ deleted.events
          /\ ffpc = "deleteblock"
      BY <2>3 DEF DeleteBlock, WithoutDeleted
    <3>2. \A r \in StrayTxs(db') : r \in StrayTxs(db)
      BY <1>1, <3>1 DEF StrayTxs, GetBlockById, WInv, DeletedRows
    <3>3. \A r \in StrayEvents(db') : r \in StrayEvents(db)
      BY <1>1, <3>1 DEF StrayEvents, GetBlockById, WInv, DeletedRows
    <3> QED
      BY <3>2, <3>3 DEF Stray
  <2>4. CASE CommitBatch
    <3>1. /\ db'.blocks = db.blocks \cup inserted.blocks
          /\ db'.txs = db.txs \cup inserted.txs
          /\ db'.events = db.events \cup inserted.events
          /\ bfpc = "commit"
      BY <2>4 DEF CommitBatch, WithInserted
    <3>2. ASSUME NEW r \in StrayTxs(db'), r \notin StrayTxs(db)
          PROVE  \E b \in results : b.id = r.block_id /\ Crossed(b)
      <4>1. r \in inserted.txs
        BY <3>1, <3>2 DEF StrayTxs, GetBlockById
      <4>2. PICK b \in results : b.id = r.block_id /\ r.hash \in TxsOf[b]
        BY <1>1, <4>1 DEF WInv, BatchRows
      <4>3. b \notin db'.blocks
        BY <3>2, <4>2 DEF StrayTxs, GetBlockById
      <4> QED
        BY <3>1, <4>2, <4>3 DEF Crossed
    <3>3. ASSUME NEW r \in StrayEvents(db'), r \notin StrayEvents(db)
          PROVE  \E b \in results : b.id = r.block_id /\ Crossed(b)
      <4>1. r \in inserted.events
        BY <3>1, <3>3 DEF StrayEvents, GetBlockById
      <4>2. PICK b \in results : b.id = r.block_id /\ r.log \in LogsOf[b]
        BY <1>1, <4>1 DEF WInv, BatchRows
      <4>3. b \notin db'.blocks
        BY <3>3, <4>2 DEF StrayEvents, GetBlockById
      <4> QED
        BY <3>1, <4>2, <4>3 DEF Crossed
    <3> QED
      BY <3>2, <3>3 DEF Stray
  <2> QED
    BY <1>1, <2>1, <2>2, <2>3, <2>4, StoreKinds
       DEF InsertBlocks, InsertTransactions, InsertEvents, CheckReorg,
           DeleteEvents, DeleteTransactions
<1>2. IInv /\ DownIsOff /\ HInv /\ WInv /\ [Next]_vars => [Step]_vars
  BY <1>1
<1> QED
  BY <1>2, InitIInv, NextIInv, InitDown, NextDown, InitHInv, NextHInv,
     InitWInv, NextWInv, PTL DEF Safety, StrayRowsCrossed

-----------------------------------------------------------------------------
(* The indexer implements BlockStore.                                        *)

LEMMA ContentAt ==
    ASSUME NEW n \in Height
    PROVE  /\ Content(db)[n].blocks = GetBlockById(db, n)
           /\ Content(db)[n].txs = {r.hash : r \in TxsAt(db, n)}
           /\ Content(db)[n].logs = {r.log : r \in EventsAt(db, n)}
           /\ Content(db)'[n].blocks = GetBlockById(db', n)
           /\ Content(db)'[n].txs = {r.hash : r \in TxsAt(db', n)}
           /\ Content(db)'[n].logs = {r.log : r \in EventsAt(db', n)}
BY DEF Content, TxHashes, LogKeys

LEMMA SameHeight ==
    ASSUME NEW n \in Height, GetBlockById(db', n) = GetBlockById(db, n),
           TxsAt(db', n) = TxsAt(db, n), EventsAt(db', n) = EventsAt(db, n)
    PROVE  Content(db)'[n] = Content(db)[n]
BY DEF Content

\* BlockStore's blocks and heights are the indexer's.
LEMMA SameDomain ==
    Abstract!Block = Block /\ Abstract!Height = Height
BY DEF Abstract!Block, Abstract!ZeroBlock, Abstract!Height, Abstract!Fork,
       Block, ZeroBlock, Height, Fork

LEMMA CommitImplements ==
    ASSUME TxsStay, IInv, HInv, WInv, DeleteSame, CommitBatch
    PROVE  Abstract!StoreRows
<1>1. /\ db'.blocks = db.blocks \cup inserted.blocks
      /\ db'.txs = db.txs \cup inserted.txs
      /\ db'.events = db.events \cup inserted.events
      /\ bfpc = "commit"
      /\ inserted.blocks \subseteq results
      /\ \A b, c \in results : b.id = c.id => b = c
  BY DEF CommitBatch, WithInserted, HInv, BatchBlocks, Open
<1>2. WInv'
  BY CommitWInv
<1>3. ASSUME NEW n \in Height
      PROVE  \/ Content(db)'[n] = Content(db)[n]
             \/ Abstract!Appears(n) \/ Abstract!ComesBack(n)
  <2>1. CASE \E b \in inserted.blocks : b.id = n
    <3>1. PICK b \in inserted.blocks : b.id = n
      BY <2>1
    <3>2. b \in results /\ b \in Block /\ b \in db'.blocks
      BY <1>1, <3>1, Blocks
    <3>3. GetBlockById(db, n) = {} /\ GetBlockById(db', n) = {b}
      BY <1>1, <3>1, <3>2 DEF HInv, BatchBlocks, Ids, GetBlockById
    <3>4. Content(db)'[n].txs = Content(db)[n].txs \cup TxsOf[b]
      <4>1. \A r \in inserted.txs : r.block_id = n => r.hash \in TxsOf[b]
        BY <1>1, <3>1, <3>2 DEF WInv, BatchRows
      <4>2. \A h \in TxsOf[b] : \E r \in db'.txs : r.hash = h
        BY <1>2, <3>2 DEF WInv, StoredWhole, TxHashes
      <4>3. \A r \in db'.txs : r.hash \in TxsOf[b] => r.block_id = n
        BY <1>2, <3>1, <3>2 DEF WInv, RowsHome, TxsStay
      <4> QED
        BY <1>1, <4>1, <4>2, <4>3, ContentAt DEF TxsAt
    <3>5. Content(db)'[n].logs = Content(db)[n].logs \cup LogsOf[b]
      <4>1. \A r \in inserted.events : r.block_id = n => r.log \in LogsOf[b]
        BY <1>1, <3>1, <3>2 DEF WInv, BatchRows
      <4>2. \A l \in LogsOf[b] : \E r \in db'.events : r.log = l
        BY <1>2, <3>2 DEF WInv, StoredWhole, LogKeys
      <4>3. \A r \in db'.events : r.log \in LogsOf[b] => r.block_id = n
        BY <1>2, <3>1, <3>2, LogsStay DEF WInv, RowsHome
      <4> QED
        BY <1>1, <4>1, <4>2, <4>3, ContentAt DEF EventsAt
    <3> QED
      BY <3>1, <3>2, <3>3, <3>4, <3>5, ContentAt, SameDomain
         DEF Abstract!Appears, Abstract!Joins
  <2>2. CASE ~\E b \in inserted.blocks : b.id = n
    <3>1. GetBlockById(db', n) = GetBlockById(db, n)
      BY <1>1, <2>2 DEF GetBlockById
    <3>2. CASE \E b \in results \ db.blocks : b.id = n
      <4>1. PICK b \in results \ db.blocks : b.id = n
        BY <3>2
      <4>2. /\ \A r \in inserted.txs : r.block_id = n => r.hash \in TxsOf[b]
            /\ \A r \in inserted.events : r.block_id = n => r.log \in LogsOf[b]
        BY <1>1, <4>1 DEF WInv, BatchRows
      <4>3. b \in Block \ Content(db)[n].blocks
        BY <4>1, Blocks, ContentAt DEF GetBlockById
      <4>4. /\ Content(db)[n].txs \subseteq Content(db)'[n].txs
            /\ Content(db)'[n].txs \subseteq Content(db)[n].txs \cup TxsOf[b]
        BY <1>1, <4>2, ContentAt DEF TxsAt
      <4>5. /\ Content(db)[n].logs \subseteq Content(db)'[n].logs
            /\ Content(db)'[n].logs \subseteq Content(db)[n].logs \cup LogsOf[b]
        BY <1>1, <4>2, ContentAt DEF EventsAt
      <4> QED
        BY <3>1, <4>1, <4>3, <4>4, <4>5, ContentAt, SameDomain
           DEF Abstract!ComesBack
    <3>3. CASE ~\E b \in results \ db.blocks : b.id = n
      <4>1. \A r \in inserted.txs : r.block_id # n
        BY <3>3 DEF WInv, BatchRows, StoredWhole
      <4>2. \A r \in inserted.events : r.block_id # n
        BY <3>3 DEF WInv, BatchRows, StoredWhole
      <4> QED
        BY <1>1, <3>1, <4>1, <4>2, SameHeight DEF TxsAt, EventsAt
    <3> QED
      BY <3>2, <3>3
  <2> QED
    BY <2>1, <2>2
<1>4. Content(db)' = [n \in Height |-> Content(db)'[n]]
  BY DEF Content
<1> QED
  BY <1>3, <1>4, SameDomain DEF Abstract!StoreRows

LEMMA CreateImplements ==
    ASSUME TxsStay, IInv, HInv, WInv, BatchSame, Create
    PROVE  db' = db \/ Abstract!StoreRows
<1>1. /\ db'.blocks = db.blocks \cup {ffBlock}
      /\ db'.txs = db.txs \cup NewTxRows(db, {ffBlock})
      /\ db'.events = db.events \cup NewLogRows(db, {ffBlock})
      /\ db' = Insert(db, {ffBlock}) /\ ~Conflict(db, {ffBlock})
  BY DEF Create, Insert
<1>2. WInv' /\ ffBlock \in Block /\ ffBlock \in db'.blocks
  BY <1>1, CreateWInv, Blocks
<1>3. /\ \A r \in NewTxRows(db, {ffBlock}) :
            r.hash \in TxsOf[ffBlock] /\ r.block_id = ffBlock.id
      /\ \A r \in NewLogRows(db, {ffBlock}) :
            r.log \in LogsOf[ffBlock] /\ r.block_id = ffBlock.id
  BY DEF NewTxRows, NewLogRows
<1>4. CASE ffBlock \in db.blocks
  <2>1. db \in Store
    BY DEF IInv, TypeOK, RepositoryTypeOK
  <2>2. Insert(db, {ffBlock}) = db
    BY <1>4, <2>1, NothingNew DEF Insert, Store, WInv
  <2> QED
    BY <1>1, <2>2
<1>5. CASE ffBlock \notin db.blocks
  <2>1. ASSUME NEW n \in Height, n # ffBlock.id
        PROVE  Content(db)'[n] = Content(db)[n]
    BY <1>1, <1>3, <2>1, SameHeight DEF TxsAt, EventsAt, GetBlockById
  <2>2. ASSUME NEW n \in Height, n = ffBlock.id
        PROVE  Abstract!Appears(n)
    <3>1. GetBlockById(db, n) = {} /\ GetBlockById(db', n) = {ffBlock}
      BY <1>1, <1>5, <2>2 DEF Conflict, GetBlockById
    <3>2. Content(db)'[n].txs = Content(db)[n].txs \cup TxsOf[ffBlock]
      <4>1. \A h \in TxsOf[ffBlock] : \E r \in db'.txs : r.hash = h
        BY <1>2 DEF WInv, StoredWhole, TxHashes
      <4>2. \A r \in db'.txs : r.hash \in TxsOf[ffBlock] => r.block_id = n
        BY <1>2, <2>2 DEF WInv, RowsHome, TxsStay
      <4>3. /\ db.txs \subseteq db'.txs
            /\ \A r \in db'.txs : r \in db.txs \/ r.hash \in TxsOf[ffBlock]
        BY <1>1, <1>3
      <4> QED
        BY <4>1, <4>2, <4>3, ContentAt DEF TxsAt
    <3>3. Content(db)'[n].logs = Content(db)[n].logs \cup LogsOf[ffBlock]
      <4>1. \A l \in LogsOf[ffBlock] : \E r \in db'.events : r.log = l
        BY <1>2 DEF WInv, StoredWhole, LogKeys
      <4>2. \A r \in db'.events : r.log \in LogsOf[ffBlock] => r.block_id = n
        BY <1>2, <2>2, LogsStay DEF WInv, RowsHome
      <4>3. /\ db.events \subseteq db'.events
            /\ \A r \in db'.events : r \in db.events \/ r.log \in LogsOf[ffBlock]
        BY <1>1, <1>3
      <4> QED
        BY <4>1, <4>2, <4>3, ContentAt DEF EventsAt
    <3> QED
      BY <1>2, <2>2, <3>1, <3>2, <3>3, ContentAt, SameDomain
         DEF Abstract!Appears, Abstract!Joins
  <2>3. Content(db)' = [n \in Height |-> Content(db)'[n]]
    BY DEF Content
  <2> QED
    BY <2>1, <2>2, <2>3, SameDomain DEF Abstract!StoreRows
<1> QED
  BY <1>4, <1>5

LEMMA DeleteImplements ==
    ASSUME TxsStay, IInv, HInv, WInv, BatchSame, DeleteBlock
    PROVE  \E n \in Height : Abstract!DropBlock(n)
<1> DEFINE n == ffBlock.id
<1>1. /\ db'.blocks = db.blocks \ GetBlockById(db, n)
      /\ db'.txs = db.txs \ deleted.txs
      /\ db'.events = db.events \ deleted.events
      /\ ffpc = "deleteblock"
  BY DEF DeleteBlock, WithoutDeleted
<1>2. n \in Height
  BY Blocks, BlockId
<1>3. PICK b \in db.blocks : b.id = n
  BY <1>1 DEF HInv, InTheWay, Deleting
<1>4. ASSUME NEW m \in Height, m # n
      PROVE  Content(db)'[m] = Content(db)[m]
  <2>1. \A r \in deleted.txs \cup deleted.events : r.block_id # m
    BY <1>4 DEF WInv, DeletedRows
  <2> QED
    BY <1>1, <1>4, <2>1, SameHeight DEF TxsAt, EventsAt, GetBlockById
<1>5. Content(db)'[n].blocks = {} /\ b \in Content(db)[n].blocks
  BY <1>1, <1>2, <1>3, ContentAt DEF GetBlockById
<1>6. Content(db)'[n].txs \subseteq Content(db)[n].txs \ TxsOf[b]
  <2>1. \A r \in db'.txs : r \in db.txs /\ r.hash \notin TxsOf[b]
    BY <1>1, <1>3 DEF WInv, DeletedRows
  <2> QED
    BY <1>2, <2>1, ContentAt DEF TxsAt
<1>7. Content(db)'[n].logs \subseteq Content(db)[n].logs \ LogsOf[b]
  <2>1. \A r \in db'.events : r \in db.events /\ r.log \notin LogsOf[b]
    BY <1>1, <1>3 DEF WInv, DeletedRows
  <2> QED
    BY <1>2, <2>1, ContentAt DEF EventsAt
<1>8. Content(db)' = [Content(db) EXCEPT ![n] = Content(db)'[n]]
  BY <1>2, <1>4 DEF Content
<1> QED
  BY <1>2, <1>5, <1>6, <1>7, <1>8 DEF Abstract!DropBlock

\* Whatever statements of the two writers run in whatever order, and whenever
\* they fail, the tables move as BlockStore allows.
THEOREM IndexerImplementsBlockStore ==
    ASSUME TxsStay
    PROVE  Safety => ImplementsBlockStore
<1>1. Init => Abstract!StoreInit
  BY SameDomain
     DEF Init, RepositoryInit, EmptyStore, Content, GetBlockById, TxsAt,
         EventsAt, TxHashes, LogKeys, Abstract!StoreInit, Abstract!Vacant
<1>2. IInv /\ DownIsOff /\ HInv /\ WInv /\ [Next]_vars
      => [Abstract!StoreNext]_(Content(db))
  <2> SUFFICES ASSUME IInv, DownIsOff, HInv, WInv, [Next]_vars
               PROVE  [Abstract!StoreNext]_(Content(db))
    OBVIOUS
  <2>1. CASE db' = db
    BY <2>1
  <2>2. CASE db' # db
    BY <2>2, StoreKinds, CommitImplements, CreateImplements, DeleteImplements,
       SameDomain, TxsStay
       DEF InsertBlocks, InsertTransactions, InsertEvents, CheckReorg,
           DeleteEvents, DeleteTransactions, Abstract!StoreNext
  <2> QED
    BY <2>1, <2>2
<1> QED
  BY <1>1, <1>2, InitIInv, NextIInv, InitDown, NextDown, InitHInv, NextHInv,
     InitWInv, NextWInv, PTL
     DEF Safety, ImplementsBlockStore, Abstract!BlockStoreSpec

-----------------------------------------------------------------------------
(* The changes of the tables are those that Api's readers meet.              *)

\* A batch that leaves no stray row inserts its new blocks, and their rows.
LEMMA CommitStores ==
    ASSUME TxsStay, IInv, HInv, WInv, DeleteSame, CommitBatch, db' # db,
           Stray(db') = {}
    PROVE  StoresNew(db'.blocks \ db.blocks)
<1>1. /\ db' = WithInserted
      /\ db'.blocks = db.blocks \cup inserted.blocks
      /\ db'.txs = db.txs \cup inserted.txs
      /\ db'.events = db.events \cup inserted.events
      /\ bfpc = "commit"
      /\ inserted.blocks \subseteq results
      /\ \A b, c \in results : b.id = c.id => b = c
  BY DEF CommitBatch, WithInserted, HInv, BatchBlocks, Open
<1>2. WInv'
  BY CommitWInv
<1>3. db'.blocks \ db.blocks = inserted.blocks
  BY <1>1 DEF HInv, BatchBlocks, Ids
<1>4. ~Conflict(db, inserted.blocks)
  BY <1>1 DEF Conflict, HInv, BatchBlocks, Ids
<1>5. inserted.txs \subseteq TxRow /\ inserted.events \subseteq LogRow
      /\ db \in Store
  BY DEF IInv, TypeOK, RepositoryTypeOK, TransactionsTypeOK, Store
<1>6. NewTxRows(db, inserted.blocks) = inserted.txs
  <2>1. ASSUME NEW r \in inserted.txs PROVE r \in NewTxRows(db, inserted.blocks)
    <3>1. PICK c \in db'.blocks : c.id = r.block_id /\ r.hash \in TxsOf[c]
      BY <1>1 DEF Stray, StrayTxs, GetBlockById
    <3>2. c \in inserted.blocks
      BY <1>1, <3>1 DEF WInv, BatchRows, StoredWhole
    <3>3. \A b \in inserted.blocks : r.hash \in TxsOf[b] => r.block_id <= b.id
      <4> SUFFICES ASSUME NEW b \in inserted.blocks, r.hash \in TxsOf[b]
                   PROVE  r.block_id <= b.id
        OBVIOUS
      <4>1. b.id = c.id /\ b.id \in Nat
        BY <3>1, <3>2, Blocks, BlockId DEF TxsStay, Height
      <4> QED
        BY <3>1, <4>1
    <3> QED
      BY <1>5, <3>1, <3>2, <3>3 DEF NewTxRows, WInv, BatchRows
  <2>2. ASSUME NEW r \in NewTxRows(db, inserted.blocks) PROVE r \in inserted.txs
    <3>1. PICK b \in inserted.blocks : r.block_id = b.id /\ r.hash \in TxsOf[b]
      BY DEF NewTxRows
    <3>2. PICK q \in inserted.txs : q.hash = r.hash
      BY <1>1, <3>1 DEF WInv, BatchWhole, NewTxRows, TxHashes
    <3>3. q.block_id = r.block_id
      BY <1>1, <1>2, <3>1, <3>2, Blocks DEF WInv, RowsHome, TxsStay
    <3> QED
      BY <1>5, <3>2, <3>3 DEF NewTxRows, TxRow
  <2> QED
    BY <2>1, <2>2
<1>7. NewLogRows(db, inserted.blocks) = inserted.events
  <2>1. ASSUME NEW r \in inserted.events
        PROVE  r \in NewLogRows(db, inserted.blocks)
    <3>1. PICK c \in db'.blocks : c.id = r.block_id /\ r.log \in LogsOf[c]
      BY <1>1 DEF Stray, StrayEvents, GetBlockById
    <3>2. c \in inserted.blocks
      BY <1>1, <3>1 DEF WInv, BatchRows, StoredWhole
    <3>3. \A b \in inserted.blocks : r.log \in LogsOf[b] => r.block_id <= b.id
      <4> SUFFICES ASSUME NEW b \in inserted.blocks, r.log \in LogsOf[b]
                   PROVE  r.block_id <= b.id
        OBVIOUS
      <4>1. b.id = c.id /\ b.id \in Nat
        BY <3>1, <3>2, Blocks, BlockId, LogsStay DEF Height
      <4> QED
        BY <3>1, <4>1
    <3> QED
      BY <1>5, <3>1, <3>2, <3>3 DEF NewLogRows, WInv, BatchRows
  <2>2. ASSUME NEW r \in NewLogRows(db, inserted.blocks)
        PROVE  r \in inserted.events
    <3>1. PICK b \in inserted.blocks : r.block_id = b.id /\ r.log \in LogsOf[b]
      BY DEF NewLogRows
    <3>2. PICK q \in inserted.events : q.log = r.log
      BY <1>1, <3>1 DEF WInv, BatchWhole, NewLogRows, LogKeys
    <3>3. q.block_id = r.block_id
      BY <1>1, <1>2, <3>1, <3>2, Blocks, LogsStay DEF WInv, RowsHome
    <3> QED
      BY <1>5, <3>2, <3>3 DEF NewLogRows, LogRow
  <2> QED
    BY <2>1, <2>2
<1>8. db' = Insert(db, inserted.blocks)
  BY <1>1, <1>6, <1>7 DEF WithInserted, Insert
<1>9. inserted.blocks # {}
  <2>1. SUFFICES ASSUME inserted.blocks = {} PROVE db' = db
    OBVIOUS
  <2>2. inserted.txs = {} /\ inserted.events = {}
    BY <1>6, <1>7, <2>1 DEF NewTxRows, NewLogRows
  <2> QED
    BY <1>1, <1>5, <2>1, <2>2 DEF WithInserted, Store
<1> QED
  BY <1>3, <1>4, <1>8, <1>9 DEF StoresNew

\* From tables without stray rows, a deletion takes all of a height.
LEMMA DeleteDrops ==
    ASSUME IInv, HInv, WInv, DeleteBlock, Stray(db) = {}
    PROVE  \E n \in Height : DropsHeight(n)
<1>1. db' = WithoutDeleted(ffBlock.id) /\ ffpc = "deleteblock"
  BY DEF DeleteBlock
<1>2. ffBlock.id \in Ids(db) /\ ffBlock.id \in Height
  BY <1>1, Blocks, BlockId DEF HInv, InTheWay, Deleting, Ids
<1>3. db.txs \ deleted.txs = db.txs \ TxsAt(db, ffBlock.id)
  BY <1>1 DEF Stray, StrayTxs, GetBlockById, TxsAt, WInv, DeletedRows
<1>4. db.events \ deleted.events = db.events \ EventsAt(db, ffBlock.id)
  BY <1>1 DEF Stray, StrayEvents, GetBlockById, EventsAt, WInv, DeletedRows
<1>5. db' = Delete(db, ffBlock.id)
  BY <1>1, <1>3, <1>4 DEF WithoutDeleted, Delete
<1> QED
  BY <1>2, <1>5 DEF DropsHeight

\* Between states without stray rows, the indexer changes the tables the way
\* the readers' model does: new blocks come with their rows, or a height goes.
THEOREM IndexerIsTheWriter ==
    ASSUME TxsStay
    PROVE  Safety => [][Stray(db) = {} /\ Stray(db') = {} =>
                           \/ StoresNew(db'.blocks \ db.blocks)
                           \/ \E n \in Height : DropsHeight(n)]_db
<1> DEFINE Step == Stray(db) = {} /\ Stray(db') = {} =>
                      \/ StoresNew(db'.blocks \ db.blocks)
                      \/ \E n \in Height : DropsHeight(n)
<1>1. ASSUME IInv, DownIsOff, HInv, WInv, [Next]_vars PROVE [Step]_db
  <2> SUFFICES ASSUME db' # db, Stray(db) = {}, Stray(db') = {} PROVE Step
    OBVIOUS
  <2>1. ASSUME BatchSame, Create PROVE StoresNew(db'.blocks \ db.blocks)
    <3>1. db' = Insert(db, {ffBlock}) /\ ~Conflict(db, {ffBlock})
      BY <2>1 DEF Create
    <3>2. ffBlock \notin db.blocks
      <4> SUFFICES ASSUME ffBlock \in db.blocks PROVE db' = db
        OBVIOUS
      <4>1. db \in Store
        BY <1>1 DEF IInv, TypeOK, RepositoryTypeOK
      <4> QED
        BY <1>1, <3>1, <4>1, NothingNew DEF Insert, Store, WInv
    <3>3. db'.blocks \ db.blocks = {ffBlock}
      BY <3>1, <3>2 DEF Insert
    <3> QED
      BY <3>1, <3>2, <3>3 DEF StoresNew
  <2> QED
    BY <1>1, <2>1, StoreKinds, CommitStores, DeleteDrops
       DEF InsertBlocks, InsertTransactions, InsertEvents, CheckReorg,
           DeleteEvents, DeleteTransactions
<1>2. IInv /\ DownIsOff /\ HInv /\ WInv /\ [Next]_vars => [Step]_db
  BY <1>1
<1> QED
  BY <1>2, InitIInv, NextIInv, InitDown, NextDown, InitHInv, NextHInv,
     InitWInv, NextWInv, PTL DEF Safety
=============================================================================
