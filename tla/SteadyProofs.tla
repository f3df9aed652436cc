---------------------------- MODULE SteadyProofs ----------------------------
(* The indexer on a chain that is quiet while it starts and is reorganised   *)
(* afterwards, and where nothing fails: what balancefill has added up.       *)
EXTENDS LedgerProofs, SequenceTheorems, WellFoundedInduction,
        FiniteSetTheorems

-----------------------------------------------------------------------------
(* Where the two writers stand relative to the chain.                        *)

\* The newest block is on the newest fork.
TipIsNewest == \A n \in 0..head : canon[n] <= Tip

\* Nothing the indexer holds is above the chain.
BelowHead ==
    /\ \A b \in db.blocks \cup results : b.id <= head
    /\ \A n \in pending : n <= head
    /\ targetId <= head
    /\ \A i \in DOMAIN headers : headers[i] <= head
    /\ ffId <= head

\* Nothing stored is on a fork newer than the chain's, and backfill holds
\* canonical blocks, as long as it holds any.
NotAhead ==
    /\ \A b \in db.blocks : b.fork <= canon[b.id]
    /\ \A b \in results : b = NodeBlock(b.id)
    /\ bfpc \notin {"fetch"} \cup Open => results = {}
    /\ ~up => bfpc = "off" /\ ffpc = "off"

\* forwardfill holds a block and has not stored it yet.
Candidate == {"check", "pubreorg", "create"} \cup Deleting

\* The block forwardfill holds was canonical when it was fetched, still is
\* while backfill runs, and is at least as new as the stored one.
CandidateInv ==
    ffpc \in Candidate =>
        /\ ffBlock.id = ffId
        /\ ffBlock.fork <= canon[ffId]
        /\ bfpc # "done" => ffBlock = NodeBlock(ffId)
        /\ \A c \in db.blocks : c.id = ffId => c.fork <= ffBlock.fork

DInv == TipIsNewest /\ BelowHead /\ NotAhead /\ CandidateInv

LEMMA SameBlock ==
    /\ \A b \in Block : b.id \in Nat /\ b.id \in Height /\ b.fork \in Int
    /\ \A b, c \in Block : b.id = c.id /\ b.fork = c.fork => b = c
BY DomainAssumption DEF Block, ZeroBlock, Height, Fork

LEMMA CanonicalBlock ==
    ASSUME IInv, NEW n \in Height
    PROVE  /\ NodeBlock(n) \in Block
           /\ NodeBlock(n).id = n /\ NodeBlock(n).fork = canon[n]
           /\ canon[n] \in Nat
BY DomainAssumption
   DEF NodeBlock, Block, Fork, IInv, TypeOK, FetcherTypeOK

\* A step of the chain: what it replaces is Depth deep at most, and announced,
\* and nothing is replaced while backfill runs.
NodeChange(first) ==
    /\ first \in Nat /\ first <= head' /\ first + Depth > head
    /\ \A n \in 0..head : n < first => canon'[n] = canon[n]
    /\ bfpc # "done" => first = head + 1 /\ first = head'
    /\ \/ Announced(headers, headers', first, head')
       \/ first = head + 1 /\ headers' = headers

LEMMA NodeAnnounces ==
    ASSUME QuietStart = TRUE, IInv, Node
    PROVE  \E first \in Nat : NodeChange(first)
<1>0. /\ head \in Nat /\ head <= MaxId /\ MaxId \in Nat /\ Depth \in Nat
      /\ headers \in Seq(Nat) /\ canon \in [0..MaxId -> Fork]
      /\ Height = 0..MaxId
  BY DomainAssumption, FetcherAssumption
     DEF IInv, TypeOK, FetcherTypeOK, Height
<1>1. CASE Mine
  <2>1. /\ head' = head + 1 /\ head + 1 \in Nat
        /\ canon' = [canon EXCEPT ![head + 1] = Tip]
        /\ Announce(head + 1, head + 1)
    BY <1>0, <1>1 DEF Mine
  <2>2. \A n \in 0..head : canon'[n] = canon[n]
    BY <1>0, <2>1
  <2>3. \/ headers' = headers
        \/ Announced(headers, headers', head + 1, head + 1)
    <3>1. CASE sub = "on"
      <4>1. PICK first \in Nat : first = head + 1
        BY <2>1
      <4>2. Announce(first, first)
        BY <2>1, <4>1 DEF Announce
      <4>3. Announced(headers, headers', first, first)
        BY <1>0, <3>1, <4>2, AnnounceQueues
      <4> QED
        BY <4>1, <4>3
    <3>2. CASE sub # "on"
      BY <2>1, <3>2 DEF Announce
    <3> QED
      BY <3>1, <3>2
  <2>4. NodeChange(head + 1)
    BY <1>0, <2>1, <2>2, <2>3 DEF NodeChange
  <2> QED
    BY <2>1, <2>4
<1>2. ASSUME NEW n \in Height, NEW m \in Height, Reorg(n, m),
             sub = "on", bfpc = "done"
      PROVE  NodeChange(n)
  <2>1. /\ n \in Nat /\ m \in Nat /\ n <= m /\ head' = m /\ head - n < Depth
        /\ canon' = [i \in 0..MaxId |-> IF i \in n..m THEN Tip + 1
                                                      ELSE canon[i]]
        /\ headers' = headers \o [i \in 1..(m - n + 1) |-> n + i - 1]
    BY <1>0, <1>2 DEF Reorg, Announce
  <2>2. \A i \in 0..head : i < n => canon'[i] = canon[i]
    <3> SUFFICES ASSUME NEW i \in 0..head, i < n PROVE canon'[i] = canon[i]
      OBVIOUS
    <3>1. i \in 0..MaxId /\ i \notin n..m
      BY <1>0, <2>1
    <3> QED
      BY <2>1, <3>1
  <2>3. Announced(headers, headers', n, m)
    BY <1>0, <2>1, AnnouncedQueue
  <2> QED
    BY <1>0, <1>2, <2>1, <2>2, <2>3 DEF NodeChange
<1>3. Mine \/ (sub = "on" /\ bfpc = "done" /\ \E n, m \in Height : Reorg(n, m))
  BY DEF Node
<1>4. Height \subseteq Nat
  BY <1>0
<1> QED
  BY <1>1, <1>2, <1>3, <1>4

\* What a step of the chain does to it.
LEMMA ChainStep ==
    ASSUME QuietStart = TRUE, IInv, TipIsNewest, Node
    PROVE  /\ TipIsNewest'
           /\ head \in Nat /\ head' \in Nat /\ head <= head'
           /\ \A n \in 0..head : canon[n] \in Nat /\ canon'[n] \in Nat
                                 /\ canon[n] <= canon'[n]
           /\ bfpc # "done" => \A n \in 0..head : canon'[n] = canon[n]
<1>0. /\ head \in Nat /\ head <= MaxId /\ MaxId \in Nat
      /\ \A n \in 0..MaxId : canon[n] \in Nat
      /\ canon \in [0..MaxId -> Fork]
  BY DomainAssumption DEF IInv, TypeOK, FetcherTypeOK, Height, Fork
<1>1. CASE Mine
  <2>1. /\ head' = head + 1 /\ head + 1 \in 0..MaxId
        /\ canon' = [canon EXCEPT ![head + 1] = Tip]
    BY <1>0, <1>1 DEF Mine
  <2>2. /\ canon'[head + 1] = Tip
        /\ \A n \in 0..head : canon'[n] = canon[n]
    BY <1>0, <2>1
  <2>3. Tip' = Tip /\ Tip \in Nat
    BY <1>0, <2>1, <2>2 DEF Tip
  <2> QED
    BY <1>0, <2>1, <2>2, <2>3 DEF TipIsNewest
<1>2. ASSUME NEW n \in Height, NEW m \in Height, Reorg(n, m), bfpc = "done"
      PROVE  /\ TipIsNewest'
             /\ head' \in Nat /\ head <= head'
             /\ \A i \in 0..head : canon'[i] \in Nat /\ canon[i] <= canon'[i]
  <2>1. /\ head' = m /\ head <= m /\ n <= head /\ n \in Nat /\ m \in 0..MaxId
        /\ canon' = [i \in 0..MaxId |-> IF i \in n..m THEN Tip + 1
                                                      ELSE canon[i]]
    BY <1>2, <1>0 DEF Reorg, Height
  <2>2. Tip' = Tip + 1 /\ Tip \in Nat
    BY <1>0, <2>1 DEF Tip
  <2>3. \A i \in 0..MaxId : canon'[i] \in {Tip + 1, canon[i]}
    BY <2>1
  <2>4. \A i \in 0..m : canon'[i] <= Tip + 1
    <3> SUFFICES ASSUME NEW i \in 0..m PROVE canon'[i] <= Tip + 1
      OBVIOUS
    <3>1. CASE i \in n..m
      BY <1>0, <2>1, <2>2, <3>1
    <3>2. CASE i \notin n..m
      <4>1. i \in 0..head /\ i \in 0..MaxId
        BY <1>0, <2>1, <3>2
      <4>2. canon'[i] = canon[i] /\ canon[i] \in Nat /\ canon[i] <= Tip
        BY <1>0, <2>1, <3>2, <4>1 DEF TipIsNewest
      <4> QED
        BY <2>2, <4>2
    <3> QED
      BY <3>1, <3>2
  <2>5. \A i \in 0..head : canon[i] <= Tip /\ i \in 0..MaxId
    BY <1>0 DEF TipIsNewest
  <2> QED
    BY <1>0, <2>1, <2>2, <2>3, <2>4, <2>5 DEF TipIsNewest
<1>3. Mine \/ (bfpc = "done" /\ \E n, m \in Height : Reorg(n, m))
  BY DEF Node
<1> QED
  BY <1>0, <1>1, <1>2, <1>3

LEMMA NodeDInv ==
    ASSUME QuietStart = TRUE, IInv, DInv, Node
    PROVE  DInv'
<1> USE DEF DInv
<1>1. /\ UNCHANGED <<db, bfpc, targetId, curr, pending, results, up, ffpc,
                     ffId, ffBlock>>
  BY DEF Node, databaseVars, backfillVars, backfillLocals, forwardfillVars,
         forwardfillLocals, groupVars
<1>2. /\ \A b \in db.blocks \cup results : b.id \in 0..head /\ b \in Block
                                           /\ b.fork \in Int
      /\ pending \subseteq Nat /\ targetId \in Nat
      /\ ffId \in 0..head /\ ffBlock \in Block /\ ffBlock.fork \in Int
      /\ headers \in Seq(Nat)
  BY SameBlock, DomainAssumption
     DEF IInv, TypeOK, RepositoryTypeOK, Store, BackfillTypeOK,
         ForwardfillTypeOK, FetcherTypeOK, BelowHead, Height
<1>3. BelowHead'
  <2>1. \A i \in DOMAIN headers' : headers'[i] <= head'
    <3>1. /\ Len(headers) \in Nat /\ DOMAIN headers = 1..Len(headers)
          /\ headers' \in Seq(Nat)
          /\ Len(headers') \in Nat /\ DOMAIN headers' = 1..Len(headers')
          /\ \A i \in 1..Len(headers) :
                headers[i] \in Nat /\ headers[i] <= head
      BY <1>2, NodeIInv, DomainAssumption
         DEF BelowHead, IInv, TypeOK, FetcherTypeOK, Height
    <3>2. PICK first \in Nat : NodeChange(first)
      BY NodeAnnounces
    <3>3. CASE headers' = headers
      BY <3>1, <3>3, ChainStep
    <3>4. CASE Announced(headers, headers', first, head')
      <4> SUFFICES ASSUME NEW i \in 1..Len(headers')
                   PROVE  headers'[i] <= head'
        BY <3>1
      <4>1. CASE i <= Len(headers)
        BY <3>1, <3>4, <4>1, ChainStep DEF Announced
      <4>2. CASE i > Len(headers)
        <5>1. i \in (Len(headers) + 1)..Len(headers')
          BY <3>1, <4>2
        <5>2. /\ headers'[i] = first + (i - Len(headers)) - 1
              /\ Len(headers') = Len(headers) + (head' - first + 1)
          BY <3>4, <5>1 DEF Announced
        <5> QED
          BY <3>1, <4>2, <5>2, ChainStep
      <4> QED
        BY <3>1, <4>1, <4>2
    <3> QED
      BY <3>2, <3>3, <3>4 DEF NodeChange
  <2> QED
    BY <1>1, <1>2, <2>1, ChainStep DEF BelowHead
<1>4. NotAhead'
  <2>1. \A b \in db.blocks : b.fork <= canon'[b.id]
    BY <1>2, ChainStep DEF NotAhead
  <2>2. \A b \in results : b = NodeBlock(b.id)'
    BY <1>2, ChainStep DEF NotAhead, NodeBlock, Open
  <2> QED
    BY <1>1, <2>1, <2>2 DEF NotAhead
<1>5. CandidateInv'
  <2>1. ffpc \in Candidate => ffBlock.fork <= canon'[ffId]
    BY <1>2, ChainStep DEF CandidateInv
  <2>2. bfpc # "done" => NodeBlock(ffId)' = NodeBlock(ffId)
    BY <1>1, <1>2, ChainStep DEF NodeBlock
  <2> QED
    BY <1>1, <2>1, <2>2 DEF CandidateInv
<1> QED
  BY <1>3, <1>4, <1>5, ChainStep

LEMMA BackfillDInv ==
    ASSUME Lagging = FALSE, IInv, HInv, DInv, BackfillGoroutine
    PROVE  BelowHead' /\ NotAhead' /\ CandidateInv'
<1> USE DEF DInv
<1>0. /\ UNCHANGED <<canon, head, headers, ffpc, ffId, ffBlock>>
      /\ ~up => bfpc = "off"
  BY DEF BackfillGoroutine, fetcherVars, forwardfillVars, forwardfillLocals,
         NotAhead
<1>1. up' = up
  BY DEF BackfillGoroutine, BackfillStep, GetBackfillCursor, UpToDate,
         FetchResult, InsertBlocks, InsertTransactions, InsertEvents,
         CommitBatch, BulkCreateConflict, UpdateBackfillCursor, BackfillFails,
         CallReturns, CallFails, ReturnError, groupVars
<1>2. bfpc \notin {"off", "target", "done"}
  BY DEF BackfillGoroutine, BackfillStep, GetBackfillCursor, UpToDate,
         FetchResult, InsertBlocks, InsertTransactions, InsertEvents,
         CommitBatch, BulkCreateConflict, UpdateBackfillCursor, BackfillFails
<1>3. \A n : NodeBlock(n)' = NodeBlock(n)
  BY <1>0 DEF NodeBlock
<1>4. CASE CommitBatch
  <2>1. /\ db'.blocks \subseteq db.blocks \cup results /\ results' = {}
        /\ bfpc = "commit" /\ bfpc' = "advance"
        /\ UNCHANGED <<targetId, pending>>
    BY <1>4 DEF CommitBatch, WithInserted, HInv, BatchBlocks, Open
  <2>2. BelowHead'
    BY <1>0, <2>1 DEF BelowHead
  <2>3. \A b \in results : b.fork = canon[b.id]
    BY DEF NotAhead, NodeBlock
  <2>4. \A b \in results : b.fork \in Int
    BY SameBlock DEF IInv, TypeOK, BackfillTypeOK
  <2>5. NotAhead'
    BY <1>0, <1>1, <1>2, <2>1, <2>3, <2>4 DEF NotAhead
  <2>6. ffpc \in Candidate => ffBlock.fork = canon[ffId]
    BY <1>2 DEF CandidateInv, NodeBlock
  <2>7. CandidateInv'
    BY <1>0, <1>2, <1>3, <2>1, <2>3, <2>4, <2>6 DEF CandidateInv
  <2> QED
    BY <2>2, <2>5, <2>7
<1>5. CASE ~CommitBatch
  <2>1. db' = db /\ targetId' = targetId
    BY <1>5 DEF BackfillGoroutine, BackfillStep, GetBackfillCursor, UpToDate,
           FetchResult, InsertBlocks, InsertTransactions, InsertEvents,
           BulkCreateConflict, UpdateBackfillCursor, BackfillFails,
           backfillLocals
  <2>2. CandidateInv'
    BY <1>0, <1>2, <1>3, <2>1 DEF CandidateInv
  <2>3. /\ \A n \in pending' : n <= head
        /\ \A b \in results' : b = NodeBlock(b.id) /\ b.id <= head
        /\ bfpc' \notin {"fetch"} \cup Open => results' = {}
    <3>0. head \in Nat /\ pending \subseteq Nat
      BY DomainAssumption
         DEF IInv, TypeOK, FetcherTypeOK, BackfillTypeOK, Height
    <3>1. ASSUME NEW first \in Nat, first <= targetId, StartBatch(first)
          PROVE  /\ \A n \in pending' : n <= head
                 /\ results' = {} /\ bfpc' = "fetch"
      <4>1. /\ BatchEnd(first) \in Nat /\ BatchEnd(first) <= targetId
            /\ targetId \in Nat /\ targetId <= head
        BY <3>1, BatchType, DomainAssumption
           DEF BelowHead, IInv, TypeOK, BackfillTypeOK, Height
      <4> QED
        BY <3>0, <3>1, <4>1 DEF StartBatch
    <3>2. CASE GetBackfillCursor
      <4>1. ResumeAt \in Nat
        BY BackfillAssumption, DomainAssumption
           DEF ResumeAt, IInv, TypeOK, BackfillTypeOK, Height
      <4> QED
        BY <3>1, <3>2, <4>1 DEF GetBackfillCursor
    <3>3. CASE UpdateBackfillCursor
      <4>1. /\ bfpc = "advance" /\ results = {}
            /\ BatchEnd(curr) \in Nat /\ targetId \in Nat
        BY <3>3, BackfillAssumption, DomainAssumption
           DEF UpdateBackfillCursor, NotAhead, Open, BatchEnd, IInv, TypeOK,
               BackfillTypeOK, Height
      <4>2. CASE BatchEnd(curr) < targetId
        BY <3>1, <3>3, <4>1, <4>2 DEF UpdateBackfillCursor
      <4>3. CASE ~(BatchEnd(curr) < targetId)
        BY <3>3, <4>1, <4>3 DEF UpdateBackfillCursor, BelowHead
      <4> QED
        BY <4>2, <4>3
    <3>4. ASSUME NEW n \in Height, FetchResult(n)
          PROVE  /\ \A m \in pending' : m <= head
                 /\ \A b \in results' : b = NodeBlock(b.id) /\ b.id <= head
                 /\ bfpc' = "fetch"
      <4>1. results' = results \cup {NodeBlock(n)} /\ NodeBlock(n).id = n
        BY <3>4, CanonicalBlock DEF FetchResult, FetchBlock
      <4> QED
        BY <3>4, <4>1 DEF FetchResult, BelowHead, NotAhead
    <3>5. CASE UpToDate \/ BulkCreateConflict \/ BackfillFails
      BY <3>5 DEF UpToDate, BulkCreateConflict, BackfillFails, backfillLocals,
         BelowHead, NotAhead, Open
    <3>6. CASE InsertBlocks \/ InsertTransactions \/ InsertEvents
      BY <3>6 DEF InsertBlocks, InsertTransactions, InsertEvents,
         backfillLocals, BelowHead, NotAhead, Open
    <3> QED
      BY <1>5, <3>2, <3>3, <3>4, <3>5, <3>6 DEF BackfillGoroutine, BackfillStep
  <2>4. BelowHead'
    BY <1>0, <2>1, <2>3 DEF BelowHead
  <2>5. NotAhead'
    BY <1>0, <1>1, <1>2, <1>3, <2>1, <2>3 DEF NotAhead
  <2> QED
    BY <2>2, <2>4, <2>5
<1> QED
  BY <1>4, <1>5

LEMMA ForwardfillDInv ==
    ASSUME Lagging = FALSE, IInv, HInv, DInv, ForwardfillGoroutine
    PROVE  BelowHead' /\ NotAhead' /\ CandidateInv'
<1> USE DEF DInv
<1>0. /\ UNCHANGED <<canon, head, bfpc, targetId, curr, pending, results>>
      /\ \A n : NodeBlock(n)' = NodeBlock(n)
  BY DEF ForwardfillGoroutine, chainVars, backfillVars, backfillLocals,
         NodeBlock
<1>1. /\ up /\ up' = up
      /\ head \in Nat /\ canon[0] \in Nat /\ ffId \in Height /\ ffId \in Nat
      /\ headers \in Seq(Nat)
  <2>1. up /\ up' = up
    BY DEF ForwardfillGoroutine, ForwardfillStep, ReceiveHeader,
           ReceiveFromClosed, ReceiveError, ReceiveDone, ForwardfillReturns,
           FetchBlockPriority, CheckReorg, DeleteEvents, DeleteTransactions,
           DeleteBlock, PublishReorg, Create, CreateConflict,
           CreateNotCommitted, PublishBlock, PublishRows, ForwardfillFails,
           CallReturns, CallFails, ReturnError, groupVars
  <2> QED
    BY <2>1, DomainAssumption
       DEF IInv, TypeOK, FetcherTypeOK, ForwardfillTypeOK, Height, Fork
<1>2. CASE ReceiveHeader
  <2>1. /\ headers # <<>> /\ ffId' = Head(headers) /\ headers' = Tail(headers)
        /\ ffpc' = "fetch" /\ db' = db
    BY <1>2 DEF ReceiveHeader
  <2>2. /\ Len(headers) \in Nat /\ Len(headers) > 0 /\ ffId' = headers[1]
        /\ DOMAIN headers = 1..Len(headers)
        /\ DOMAIN headers' = 1..(Len(headers) - 1)
        /\ \A i \in DOMAIN headers' : headers'[i] = headers[i + 1]
    BY <1>1, <2>1
  <2>3. BelowHead'
    BY <1>0, <2>1, <2>2 DEF BelowHead
  <2> QED
    BY <1>0, <1>1, <2>1, <2>3 DEF NotAhead, CandidateInv, Candidate, Deleting
<1>3. CASE FetchBlockPriority
  <2>1. /\ ffBlock' = NodeBlock(ffId) /\ ffpc' = "check"
        /\ UNCHANGED <<ffId, db, headers>>
        /\ NodeBlock(ffId).id = ffId /\ NodeBlock(ffId).fork = canon[ffId]
        /\ canon[ffId] \in Nat
    BY <1>1, <1>3, CanonicalBlock DEF FetchBlockPriority, FetchBlock
  <2> QED
    BY <1>0, <1>1, <2>1 DEF BelowHead, NotAhead, CandidateInv
<1>4. CASE CheckReorg
  <2>1. /\ ffpc' \in {"delete", "create"}
        /\ ffpc = "check" /\ UNCHANGED <<ffId, ffBlock, db, headers>>
    BY <1>4 DEF CheckReorg, forwardfillLocals
  <2> QED
    BY <1>0, <1>1, <2>1
       DEF BelowHead, NotAhead, CandidateInv, Candidate, Deleting
<1>5. CASE DeleteEvents \/ DeleteTransactions \/ DeleteBlock
  BY <1>0, <1>1, <1>5
     DEF DeleteEvents, DeleteTransactions, DeleteBlock, WithoutDeleted,
         BelowHead, NotAhead, CandidateInv, Candidate, Deleting,
         forwardfillLocals
<1>6. CASE Create
  <2>1. /\ db'.blocks = db.blocks \cup {ffBlock} /\ ffpc' = "publish"
        /\ ffpc = "create" /\ UNCHANGED <<ffId, ffBlock, headers>>
    BY <1>6 DEF Create, Insert, forwardfillLocals
  <2>2. ffBlock.id = ffId /\ ffBlock.fork <= canon[ffId]
    BY <2>1 DEF CandidateInv, Candidate, Deleting
  <2> QED
    BY <1>0, <1>1, <2>1, <2>2
       DEF BelowHead, NotAhead, CandidateInv, Candidate, Deleting
<1>7. CASE PublishReorg
  BY <1>0, <1>1, <1>7
     DEF PublishReorg, BelowHead, NotAhead, CandidateInv, Candidate, Deleting,
         forwardfillLocals
<1>8. CASE ~(ReceiveHeader \/ FetchBlockPriority \/ CheckReorg
             \/ DeleteEvents \/ DeleteTransactions \/ DeleteBlock
             \/ Create \/ PublishReorg)
  <2>1. /\ UNCHANGED <<db, headers>> /\ ffId' \in {0, ffId}
        /\ ffpc' \in {"fetch", "select", "publish", "pubrows", "done"}
    BY <1>8 DEF ForwardfillGoroutine, ForwardfillStep, ReceiveFromClosed,
       ReceiveError, ReceiveDone, ForwardfillReturns, CreateConflict,
       CreateNotCommitted, PublishBlock, PublishRows, ForwardfillFails,
       forwardfillLocals
  <2> QED
    BY <1>0, <1>1, <2>1
       DEF BelowHead, NotAhead, CandidateInv, Candidate, Deleting
<1> QED
  BY <1>2, <1>3, <1>4, <1>5, <1>6, <1>7, <1>8

LEMMA ProcessDInv ==
    ASSUME IInv, DInv, Process
    PROVE  BelowHead' /\ NotAhead' /\ CandidateInv'
<1> USE DEF DInv
<1>0. /\ UNCHANGED <<canon, head, db>> /\ head \in Nat
      /\ \A n : NodeBlock(n)' = NodeBlock(n)
  BY DomainAssumption
     DEF Process, Start, GetLastBlockId, GetLastBlockIdFails, BackfillSignal,
         Exit, ExtractPanics, Crash, ProcessEnds, chainVars, fetcherVars,
         databaseVars, NodeBlock, IInv, TypeOK, FetcherTypeOK, Height
<1>1. CASE ProcessEnds
  <2>1. /\ headers' = <<>> /\ DOMAIN headers' = {}
        /\ ffId' = 0 /\ ffpc' = "off" /\ bfpc' = "off"
        /\ targetId' = 0 /\ pending' = {} /\ results' = {}
    BY <1>1 DEF ProcessEnds, BackfillStops, ForwardfillStops
  <2> QED
    BY <1>0, <2>1 DEF BelowHead, NotAhead, CandidateInv, Candidate, Deleting
<1>2. ASSUME NEW reindex \in BOOLEAN, Start(reindex)
      PROVE  BelowHead' /\ NotAhead' /\ CandidateInv'
  BY <1>0, <1>2
     DEF Start, Open, backfillLocals, forwardfillLocals, BelowHead, NotAhead,
         CandidateInv, Candidate, Deleting
<1>3. CASE GetLastBlockId \/ GetLastBlockIdFails \/ BackfillSignal
  <2>1. /\ UNCHANGED <<headers, pending, results, ffpc, ffId, ffBlock, up>>
        /\ targetId' \in {targetId, head}
        /\ \/ bfpc = "target" /\ bfpc' \in {"cursor", "done"}
           \/ bfpc' = bfpc
        /\ bfpc' \in {"fetch"} \cup Open => bfpc' = bfpc
        /\ up
    BY <1>3 DEF GetLastBlockId, GetLastBlockIdFails, BackfillSignal,
       backfillLocals, forwardfillVars, forwardfillLocals, groupVars,
       fetcherVars, Open
  <2>2. NotAhead'
    BY <1>0, <2>1 DEF NotAhead, Open
  <2> QED
    BY <1>0, <2>1, <2>2 DEF BelowHead, CandidateInv
<1> QED
  BY <1>1, <1>2, <1>3 DEF Process, Exit, ExtractPanics, Crash

LEMMA OthersDInv ==
    ASSUME IInv, DInv,
           \/ Interrupt \/ SubscribeGoroutine \/ BalancefillGoroutine
           \/ UNCHANGED vars
    PROVE  BelowHead' /\ NotAhead' /\ CandidateInv'
<1> USE DEF DInv
<1>0. /\ UNCHANGED <<canon, head, db, bfpc, targetId, pending, results, ffpc,
                     ffId, ffBlock>>
      /\ \A n : NodeBlock(n)' = NodeBlock(n)
  BY DEF Interrupt, SubscribeGoroutine, BalancefillGoroutine,
         BalancefillStep, GetBalancefillCursor, LeaveWait, BalancefillDone,
         GetLogs, BatchUpsertBalance, UpdateBalancefillCursor,
         BalancefillFails, Subscribe, SubscribeNewHead, SubscribeNewHeadFails,
         ConnectionLost, Resubscribe, SubscribeCancelled, SubscribeReturns,
         backfillVars, backfillLocals, forwardfillVars, forwardfillLocals,
         fetcherVars, databaseVars, vars, NodeBlock
<1>1. up' = up
  BY DEF Interrupt, Signal, SubscribeGoroutine, BalancefillGoroutine,
         BalancefillStep, GetBalancefillCursor, LeaveWait, BalancefillDone,
         GetLogs, BatchUpsertBalance, UpdateBalancefillCursor,
         BalancefillFails, Subscribe, SubscribeNewHead, SubscribeNewHeadFails,
         ConnectionLost, Resubscribe, SubscribeCancelled, SubscribeReturns,
         CallReturns, CallFails, ReturnError, groupVars, vars
<1>2. \A i \in DOMAIN headers' : headers'[i] <= head
  <2>0. /\ headers \in Seq(Nat)
        /\ \A i \in 1..Len(headers) : headers[i] \in Nat /\ headers[i] <= head
    BY DomainAssumption
       DEF IInv, TypeOK, FetcherTypeOK, Height, BelowHead
  <2>1. CASE headers' = headers
    BY <2>1 DEF BelowHead
  <2>2. CASE headers' = <<>>
    BY <2>2
  <2>3. CASE headers # <<>> /\ headers' = <<Head(headers)>>
    BY <2>0, <2>3
  <2>4. headers' = headers \/ headers' = <<>>
        \/ (headers # <<>> /\ headers' = <<Head(headers)>>)
    BY DEF Interrupt, SubscribeGoroutine, BalancefillGoroutine, Subscribe,
       SubscribeNewHead, SubscribeNewHeadFails, ConnectionLost, Resubscribe,
       SubscribeCancelled, SubscribeReturns, fetcherVars, vars
  <2> QED
    BY <2>1, <2>2, <2>3, <2>4
<1> QED
  BY <1>0, <1>1, <1>2 DEF BelowHead, NotAhead, CandidateInv

LEMMA InitDInv == Init => DInv
<1> SUFFICES ASSUME Init PROVE DInv
  OBVIOUS
<1>1. /\ db.blocks = {} /\ results = {} /\ pending = {} /\ targetId = 0
      /\ headers = <<>> /\ ffId = 0 /\ ffpc = "off" /\ bfpc = "off"
      /\ canon = [n \in Height |-> 0] /\ head \in Nat /\ head <= MaxId
  BY FetcherAssumption, DomainAssumption
     DEF Init, RepositoryInit, EmptyStore, BackfillInit, FetcherInit,
         ForwardfillInit, Height
<1>2. TipIsNewest
  BY <1>1, DomainAssumption DEF TipIsNewest, Tip, Height
<1>3. BelowHead
  BY <1>1 DEF BelowHead
<1> QED
  BY <1>1, <1>2, <1>3
     DEF DInv, NotAhead, CandidateInv, Candidate, Deleting

LEMMA NextDInv ==
    ASSUME QuietStart = TRUE, Lagging = FALSE
    PROVE  IInv /\ HInv /\ DInv /\ [Next]_vars => DInv'
<1> SUFFICES ASSUME IInv, HInv, DInv, [Next]_vars PROVE DInv'
  OBVIOUS
<1>1. CASE Node
  BY <1>1, NodeDInv
<1>2. CASE ~Node
  <2>2. canon' = canon /\ head' = head
    BY <1>2
       DEF Next, Process, Start, GetLastBlockId, GetLastBlockIdFails,
           BackfillSignal, Exit, ExtractPanics, Crash, ProcessEnds, Interrupt,
           SubscribeGoroutine, Subscribe, SubscribeNewHead,
           SubscribeNewHeadFails, ConnectionLost, Resubscribe,
           SubscribeCancelled, SubscribeReturns, BackfillGoroutine,
           ForwardfillGoroutine, BalancefillGoroutine, fetcherVars, chainVars,
           vars
  <2>3. TipIsNewest'
    BY <2>2 DEF DInv, TipIsNewest, Tip
  <2>4. BelowHead' /\ NotAhead' /\ CandidateInv'
    BY <1>2, BackfillDInv, ForwardfillDInv, ProcessDInv, OthersDInv DEF Next
  <2> QED
    BY <2>3, <2>4 DEF DInv
<1> QED
  BY <1>1, <1>2

-----------------------------------------------------------------------------
(* Where nothing fails: the process that was started goes on for ever, and   *)
(* the two writers never conflict.                                           *)

Calm ==
    /\ ~cancelled
    /\ sub \in {"off", "dial", "on"}
    /\ ffpc # "done" /\ balpc # "done"
    /\ bfpc # "done" => \A b \in db.blocks : b = NodeBlock(b.id)
    /\ ffpc \in {"pubreorg", "create"} =>
          \A c \in db.blocks : c.id = ffId => c = ffBlock

\* No transfer that balancefill reads lacks a topic, and nothing fails.
Faultless == MaxFaults = 0 /\ ShortTopics = {}

LEMMA NothingFails ==
    ASSUME Faultless, IInv, Calm
    PROVE  ~Fault /\ ~CallFails /\ Extractable
<1>1. ~Fault
  BY DEF Fault, Faultless, IInv, TypeOK, GroupTypeOK
<1>2. Extractable
  BY DEF Extractable, Faultless
<1> QED
  BY <1>1, <1>2 DEF CallFails, Calm

LEMMA NoConflicts ==
    ASSUME DInv, Calm
    PROVE  /\ bfpc = "fetch" => ~Conflict(db, results)
           /\ ffpc = "create" => ~Conflict(db, {ffBlock})
<1>1. bfpc = "fetch" => ~Conflict(db, results)
  <2>1. bfpc = "fetch" => \A b \in db.blocks \cup results : b = NodeBlock(b.id)
    BY DEF Calm, DInv, NotAhead
  <2> QED
    BY <2>1 DEF Conflict
<1>2. ffpc = "create" => ~Conflict(db, {ffBlock})
  BY DEF Calm, DInv, CandidateInv, Candidate, Deleting, Conflict
<1> QED
  BY <1>1, <1>2

\* The steps that are left.
CalmBackfill ==
    \/ GetBackfillCursor \/ UpToDate \/ (\E n \in Height : FetchResult(n))
    \/ InsertBlocks \/ InsertTransactions \/ InsertEvents \/ CommitBatch
    \/ UpdateBackfillCursor

CalmForwardfill ==
    \/ ReceiveHeader \/ FetchBlockPriority \/ CheckReorg
    \/ DeleteEvents \/ DeleteTransactions \/ DeleteBlock
    \/ PublishReorg \/ Create \/ PublishBlock \/ PublishRows

CalmBalancefill ==
    \/ GetBalancefillCursor \/ LeaveWait \/ GetLogs \/ BatchUpsertBalance
    \/ UpdateBalancefillCursor

CalmProcess ==
    \/ \E reindex \in BOOLEAN : Start(reindex)
    \/ GetLastBlockId \/ BackfillSignal

CalmNext ==
    \/ CalmProcess
    \/ Node
    \/ SubscribeNewHead /\ SubscribeGoroutine
    \/ CalmBackfill /\ BackfillGoroutine
    \/ CalmForwardfill /\ ForwardfillGoroutine
    \/ CalmBalancefill /\ BalancefillGoroutine
    \/ UNCHANGED vars

LEMMA CalmSteps ==
    ASSUME Faultless, IInv, DInv, Calm, [Next]_vars
    PROVE  CalmNext
<1> USE DEF CalmNext
<1>1. CASE Process
  BY <1>1, NothingFails
     DEF Process, CalmProcess, GetLastBlockIdFails, Exit, ExtractPanics,
         Crash, Calm
<1>2. CASE SubscribeGoroutine
  BY <1>2, NothingFails
     DEF SubscribeGoroutine, Subscribe, SubscribeNewHeadFails, ConnectionLost,
         Resubscribe, SubscribeCancelled, SubscribeReturns, Calm
<1>3. CASE BackfillGoroutine
  BY <1>3, NothingFails, NoConflicts
     DEF BackfillGoroutine, BackfillStep, CalmBackfill, BulkCreateConflict,
         BackfillFails
<1>4. CASE ForwardfillGoroutine
  BY <1>4, NothingFails, NoConflicts
     DEF ForwardfillGoroutine, ForwardfillStep, CalmForwardfill,
         ReceiveFromClosed, ReceiveError, ReceiveDone, CreateConflict,
         CreateNotCommitted, ForwardfillFails, Calm
<1>5. CASE BalancefillGoroutine
  BY <1>5, NothingFails
     DEF BalancefillGoroutine, BalancefillStep, CalmBalancefill,
         BalancefillDone, BalancefillFails, Calm
<1>6. ~Interrupt
  BY NothingFails DEF Interrupt, Signal
<1> QED
  BY <1>1, <1>2, <1>3, <1>4, <1>5, <1>6 DEF Next

LEMMA CalmStep ==
    ASSUME QuietStart = TRUE, Lagging = FALSE, Faultless,
           IInv, HInv, DInv, Calm, [Next]_vars
    PROVE  Calm'
<1> USE DEF Calm
<1>0. CalmNext
  BY CalmSteps
<1>1. CASE CalmProcess
  <2>1. /\ UNCHANGED <<db, cancelled, ffId, ffBlock, canon>>
        /\ \A n : NodeBlock(n)' = NodeBlock(n)
    BY <1>1
       DEF CalmProcess, Start, GetLastBlockId, BackfillSignal, databaseVars,
           groupVars, fetcherVars, chainVars, forwardfillVars,
           forwardfillLocals, NodeBlock
  <2>2. /\ bfpc # "done" \/ bfpc' = bfpc
        /\ ffpc' = ffpc \/ ffpc' = "select"
        /\ sub' \in {"off", "dial", "on"} /\ balpc' # "done"
    BY <1>1 DEF CalmProcess, Start, GetLastBlockId, BackfillSignal,
       fetcherVars, forwardfillVars, balancefillVars, DInv, NotAhead
  <2> QED
    BY <2>1, <2>2
<1>2. CASE Node
  <2>1. /\ UNCHANGED <<db, cancelled, ffpc, ffId, ffBlock, sub, bfpc, balpc>>
    BY <1>2 DEF Node, Mine, Reorg, groupVars, databaseVars, forwardfillVars,
       forwardfillLocals, backfillVars, balancefillVars
  <2>2. \A b \in db.blocks : b.id \in 0..head
    BY SameBlock
       DEF DInv, BelowHead, IInv, TypeOK, RepositoryTypeOK, Store
  <2>3. bfpc # "done" => \A b \in db.blocks : b = NodeBlock(b.id)'
    BY <1>2, <2>2, ChainStep DEF NodeBlock, DInv
  <2> QED
    BY <2>1, <2>3
<1>3. CASE SubscribeNewHead /\ SubscribeGoroutine
  BY <1>3
     DEF SubscribeNewHead, SubscribeGoroutine, NodeBlock, databaseVars,
         backfillVars, forwardfillVars, forwardfillLocals, balancefillVars
<1>4. CASE CalmBackfill /\ BackfillGoroutine
  <2>1. /\ UNCHANGED <<canon, sub, ffpc, ffId, ffBlock, balpc, cancelled>>
        /\ \A n : NodeBlock(n)' = NodeBlock(n)
        /\ bfpc # "done"
    BY <1>4
       DEF CalmBackfill, BackfillGoroutine, GetBackfillCursor, UpToDate,
           FetchResult, InsertBlocks, InsertTransactions, InsertEvents,
           CommitBatch, UpdateBackfillCursor, CallReturns, groupVars,
           fetcherVars, forwardfillVars, forwardfillLocals, balancefillVars,
           NodeBlock
  <2>2. CASE CommitBatch
    <3>1. /\ db'.blocks \subseteq db.blocks \cup results
          /\ \A b \in results : b = NodeBlock(b.id)
      BY <2>2
         DEF CommitBatch, WithInserted, HInv, BatchBlocks, Open, DInv,
             NotAhead
    <3>2. ffpc \in {"pubreorg", "create"} => ffBlock = NodeBlock(ffId)
      BY <2>1 DEF DInv, CandidateInv, Candidate, Deleting
    <3> QED
      BY <2>1, <3>1, <3>2
  <2>3. CASE ~CommitBatch
    <3>1. db' = db
      BY <1>4, <2>3 DEF CalmBackfill, GetBackfillCursor, UpToDate,
         FetchResult, InsertBlocks, InsertTransactions, InsertEvents,
         UpdateBackfillCursor
    <3> QED
      BY <2>1, <3>1
  <2> QED
    BY <2>2, <2>3
<1>5. CASE CalmForwardfill /\ ForwardfillGoroutine
  <2>1. /\ UNCHANGED <<canon, sub, bfpc, balpc, cancelled>>
        /\ \A n : NodeBlock(n)' = NodeBlock(n)
        /\ ffpc' # "done"
    BY <1>5
       DEF CalmForwardfill, ForwardfillGoroutine, ReceiveHeader,
           FetchBlockPriority, CheckReorg, DeleteEvents, DeleteTransactions,
           DeleteBlock, PublishReorg, Create, PublishBlock, PublishRows,
           CallReturns, groupVars, chainVars, backfillVars, balancefillVars,
           NodeBlock
  <2>2. CASE CheckReorg
    BY <2>1, <2>2 DEF CheckReorg, ReorgDetected, GetBlockById, DInv,
       CandidateInv, Candidate, Deleting, forwardfillLocals
  <2>3. CASE DeleteBlock
    BY <2>1, <2>3 DEF DeleteBlock, WithoutDeleted, GetBlockById, DInv,
       CandidateInv, Candidate, Deleting, forwardfillLocals
  <2>4. CASE Create
    <3>1. /\ db'.blocks = db.blocks \cup {ffBlock} /\ ffpc' = "publish"
          /\ UNCHANGED <<ffId, ffBlock>>
      BY <2>4 DEF Create, Insert, forwardfillLocals
    <3>2. bfpc # "done" => ffBlock = NodeBlock(ffBlock.id)
      BY <2>4 DEF Create, DInv, CandidateInv, Candidate, Deleting
    <3> QED
      BY <2>1, <3>1, <3>2
  <2>5. CASE DeleteEvents \/ DeleteTransactions \/ PublishReorg
    BY <2>1, <2>5 DEF DeleteEvents, DeleteTransactions, PublishReorg,
       forwardfillLocals
  <2>6. CASE ReceiveHeader \/ FetchBlockPriority \/ PublishBlock \/ PublishRows
    BY <2>1, <2>6 DEF ReceiveHeader, FetchBlockPriority, PublishBlock,
       PublishRows
  <2> QED
    BY <1>5, <2>2, <2>3, <2>4, <2>5, <2>6 DEF CalmForwardfill
<1>6. CASE CalmBalancefill /\ BalancefillGoroutine
  <2>1. /\ UNCHANGED <<canon, sub, bfpc, db, ffpc, ffId, ffBlock, cancelled>>
        /\ \A n : NodeBlock(n)' = NodeBlock(n)
        /\ balpc' # "done"
    BY <1>6 DEF CalmBalancefill, BalancefillGoroutine, GetBalancefillCursor,
       LeaveWait, GetLogs, BatchUpsertBalance, UpdateBalancefillCursor,
       CallReturns, groupVars, fetcherVars, backfillVars, forwardfillVars,
       forwardfillLocals, NodeBlock
  <2> QED
    BY <2>1
<1>7. CASE UNCHANGED vars
  BY <1>7
     DEF vars, databaseVars, groupVars, fetcherVars, backfillVars,
         forwardfillVars, forwardfillLocals, balancefillVars, NodeBlock
<1> QED
  BY <1>0, <1>1, <1>2, <1>3, <1>4, <1>5, <1>6, <1>7 DEF CalmNext

LEMMA InitCalm == Init => Calm
BY DEF Init, GroupInit, RepositoryInit, EmptyStore, FetcherInit, BackfillInit,
       ForwardfillInit, BalancefillInit, Calm

LEMMA NextCalm ==
    ASSUME QuietStart = TRUE, Lagging = FALSE, Faultless
    PROVE  IInv /\ HInv /\ DInv /\ Calm /\ [Next]_vars => Calm'
BY CalmStep

-----------------------------------------------------------------------------
(* What the open transactions hold.                                          *)

\* All logs of a batch that is ready to be committed are there, or stored.
\* Forwardfill deletes when backfill is done, and the events that it deletes
\* are those that are there when it commits.
OpenInv ==
    /\ bfpc = "commit" =>
          \A b \in results :
              LogsOf[b] \subseteq LogKeys(db) \cup LogKeys(inserted)
    /\ ffpc \in {"deletetxs", "deleteblock"} =>
          bfpc = "done" /\ deleted.events = EventsAt(db, ffBlock.id)

\* A non-empty set of heights has a lowest one.
LEMMA LowestHeight ==
    ASSUME NEW T \in SUBSET Nat, T # {}
    PROVE  \E x \in T : \A y \in T : x <= y
<1>1. \E R : /\ IsWellFoundedOn(R, Nat)
             /\ \A x, y \in Nat : y < x => <<y, x>> \in R
  <2>1. \A x, y \in Nat : y < x => <<y, x>> \in OpToRel(<, Nat)
    BY Zenon DEF OpToRel
  <2> QED
    BY <2>1, NatLessThanWellFounded, Zenon
<1>2. PICK R : /\ IsWellFoundedOn(R, Nat)
               /\ \A x, y \in Nat : y < x => <<y, x>> \in R
  BY <1>1, Zenon
<1>3. \E x \in T : \A y \in T : ~(<<y, x>> \in R)
  BY <1>2, WFMin, Zenon
<1>4. PICK x \in T : \A y \in T : ~(<<y, x>> \in R)
  BY <1>3, Zenon
<1>5. \A y \in T : x \in Nat /\ y \in Nat /\ ~(y < x)
  BY <1>2, <1>4, Zenon
<1>6. \A y \in T : x <= y
  BY <1>5
<1> QED
  BY <1>6

\* An INSERT leaves no log of the blocks it stores out of the table: of the
\* rows with one key the lowest height's is kept.
LEMMA InsertStoresLogs ==
    ASSUME NEW d, NEW S \in SUBSET Block, NEW b \in S, NEW l \in LogsOf[b]
    PROVE  l \in LogKeys(Insert(d, S))
<1> DEFINE T == {c.id : c \in {a \in S : l \in LogsOf[a]}}
<1>0. l \in Log
  BY DomainAssumption
<1>1. CASE l \in LogKeys(d)
  BY <1>1 DEF LogKeys, Insert
<1>2. CASE l \notin LogKeys(d)
  <2>1. T \in SUBSET Nat /\ T # {}
    BY SameBlock
  <2>2. PICK n \in T : \A m \in T : n <= m
    BY <2>1, LowestHeight
  <2>3. PICK c \in S : l \in LogsOf[c] /\ c.id = n
    BY <2>2
  <2>4. PICK r : r = [log |-> l, block_id |-> n]
    OBVIOUS
  <2>5. r \in LogRow /\ r.log = l /\ r.block_id = n
    BY <1>0, <2>3, <2>4, SameBlock DEF LogRow
  <2>6. \A a \in S : l \in LogsOf[a] => n <= a.id
    BY <2>2
  <2>7. r \in NewLogRows(d, S)
    BY <1>2, <2>3, <2>5, <2>6 DEF NewLogRows
  <2> QED
    BY <2>5, <2>7 DEF LogKeys, Insert
<1> QED
  BY <1>1, <1>2

LEMMA DeletingDone ==
    ASSUME HInv, DInv, Calm, ffpc \in Deleting
    PROVE  bfpc = "done"
<1>1. PICK c \in db.blocks : c.id = ffBlock.id /\ c # ffBlock
  BY DEF HInv, InTheWay
<1>2. ffBlock.id = ffId /\ (bfpc # "done" => ffBlock = NodeBlock(ffId))
  BY DEF DInv, CandidateInv, Candidate
<1> QED
  BY <1>1, <1>2 DEF Calm

LEMMA DoneStays ==
    ASSUME DInv, CalmNext, bfpc = "done"
    PROVE  bfpc' = "done"
BY DEF CalmNext, CalmProcess, Start, GetLastBlockId, BackfillSignal, Node,
       SubscribeGoroutine, ForwardfillGoroutine, BalancefillGoroutine,
       CalmBackfill, GetBackfillCursor, UpToDate, FetchResult, InsertBlocks,
       InsertTransactions, InsertEvents, CommitBatch, UpdateBackfillCursor,
       backfillVars, vars, DInv, NotAhead

LEMMA OpenInvStep ==
    ASSUME Faultless, IInv, HInv, DownIsOff, DInv, Calm, OpenInv, [Next]_vars
    PROVE  OpenInv'
<1>0. CalmNext
  BY CalmSteps
<1>1. CASE db' = db /\ (BatchSame \/ BatchGone) /\ (DeleteSame \/ DeleteGone)
  <2>1. bfpc' = "commit" => UNCHANGED <<bfpc, results, inserted, db>>
    BY <1>1 DEF BatchSame, BatchGone, Open
  <2>2. ffpc' \in {"deletetxs", "deleteblock"}
        => UNCHANGED <<ffpc, deleted, ffBlock, db>>
    BY <1>1 DEF DeleteSame, DeleteGone, Deleting
  <2>3. ffpc' \in {"deletetxs", "deleteblock"} => bfpc' = "done"
    BY <1>0, <2>2, DoneStays DEF OpenInv
  <2> QED
    BY <2>1, <2>2, <2>3 DEF OpenInv
<1>2. CASE DeleteSame /\ (InsertBlocks \/ InsertTransactions \/ InsertEvents
                          \/ CommitBatch)
  <2>1. bfpc # "done" /\ ffpc' = ffpc
    BY <1>2 DEF DeleteSame, InsertBlocks, InsertTransactions, InsertEvents,
       CommitBatch
  <2>2. ffpc \notin {"deletetxs", "deleteblock"}
    BY <2>1, DeletingDone DEF Deleting
  <2>3. CASE InsertEvents
    <3>1. /\ db' = db /\ results' = results
          /\ inserted'.events = NewLogRows(db, results)
      BY <2>3 DEF InsertEvents, backfillLocals, IInv, TypeOK,
         TransactionsTypeOK, Store
    <3>2. PICK S \in SUBSET Block : S = results
      BY DEF IInv, TypeOK, BackfillTypeOK
    <3>3. \A b \in S : LogsOf[b] \subseteq LogKeys(Insert(db, S))
      BY InsertStoresLogs
    <3>4. LogKeys(Insert(db, results)) = LogKeys(db) \cup LogKeys(inserted')
      BY <3>1 DEF LogKeys, Insert
    <3> QED
      BY <2>1, <2>2, <3>1, <3>2, <3>3, <3>4 DEF OpenInv, LogKeys
  <2>4. CASE InsertBlocks \/ InsertTransactions \/ CommitBatch
    <3>1. bfpc' # "commit"
      BY <2>4 DEF InsertBlocks, InsertTransactions, CommitBatch
    <3> QED
      BY <2>1, <2>2, <3>1 DEF OpenInv
  <2> QED
    BY <1>2, <2>3, <2>4
<1>3. CASE BatchSame /\ (DeleteEvents \/ DeleteTransactions)
  <2>1. /\ db' = db /\ ffpc \in Deleting /\ ffBlock' = ffBlock
        /\ UNCHANGED <<bfpc, results, inserted>>
    BY <1>3 DEF BatchSame, DeleteEvents, DeleteTransactions, Deleting,
       forwardfillLocals
  <2>2. bfpc = "done"
    BY <2>1, DeletingDone
  <2>3. deleted'.events = EventsAt(db, ffBlock.id)
    BY <1>3 DEF DeleteEvents, DeleteTransactions, OpenInv, IInv, TypeOK,
       TransactionsTypeOK
  <2> QED
    BY <2>1, <2>2, <2>3 DEF OpenInv, EventsAt
<1>4. CASE BatchSame /\ DeleteBlock
  <2>1. ffpc' = "pubreorg" /\ ffpc \in Deleting /\ bfpc' = bfpc
    BY <1>4 DEF BatchSame, DeleteBlock, Deleting
  <2> QED
    BY <2>1, DeletingDone DEF OpenInv
<1>5. CASE BatchSame /\ Create
  <2>1. /\ ffpc' = "publish" /\ db.events \subseteq db'.events
        /\ UNCHANGED <<bfpc, results, inserted>>
    BY <1>5 DEF BatchSame, Create, Insert
  <2>2. LogKeys(db) \subseteq LogKeys(db')
    BY <2>1 DEF LogKeys
  <2> QED
    BY <2>1, <2>2 DEF OpenInv
<1>6. CASE BatchSame /\ CheckReorg
  <2>1. /\ ffpc' \in {"delete", "create"} /\ db' = db
        /\ UNCHANGED <<bfpc, results, inserted>>
    BY <1>6 DEF BatchSame, CheckReorg
  <2> QED
    BY <2>1 DEF OpenInv
<1> QED
  BY <1>1, <1>2, <1>3, <1>4, <1>5, <1>6, StoreKinds

-----------------------------------------------------------------------------
(* The heights forwardfill has yet to store, in their order.                 *)

Handling == ffpc \in Candidate \cup {"fetch"}

Line == IF Handling THEN <<ffId>> \o headers ELSE headers

\* Two queues with the same entries, and a queue without its first entry.
Same(q, r) == Len(r) = Len(q) /\ \A i \in 1..Len(q) : r[i] = q[i]

Dropped(q, r) ==
    Len(q) = Len(r) + 1 /\ \A i \in 1..Len(r) : r[i] = q[i + 1]

LineShape ==
    /\ Len(headers) \in Nat /\ Len(Line) \in Nat
    /\ ~Handling => Line = headers
    /\ Handling => /\ Len(Line) = Len(headers) + 1
                   /\ Line[1] = ffId
                   /\ \A i \in 1..Len(headers) : Line[i + 1] = headers[i]
    /\ \A i \in 1..Len(Line) : Line[i] \in Nat /\ Line[i] <= head

LEMMA LineType == IInv /\ BelowHead => LineShape
<1> SUFFICES ASSUME IInv, BelowHead PROVE LineShape
  OBVIOUS
<1>1. /\ headers \in Seq(Nat) /\ ffId \in Nat /\ ffId <= head
      /\ \A i \in 1..Len(headers) : headers[i] \in Nat /\ headers[i] <= head
  BY DomainAssumption
     DEF IInv, TypeOK, FetcherTypeOK, ForwardfillTypeOK, Height, BelowHead
<1>2. CASE ~Handling
  BY <1>1, <1>2 DEF Line, LineShape
<1>3. CASE Handling
  <2>1. Line = <<ffId>> \o headers /\ Len(<<ffId>>) = 1 /\ <<ffId>>[1] = ffId
        /\ <<ffId>> \in Seq(Nat)
    BY <1>1, <1>3 DEF Line
  <2>2. PICK q \in Seq(Nat) : q = <<ffId>>
    BY <2>1
  <2>3. /\ Len(q \o headers) = 1 + Len(headers)
        /\ \A i \in 1..(1 + Len(headers)) :
              (q \o headers)[i] = IF i <= 1 THEN ffId ELSE headers[i - 1]
    <3>1. /\ Len(q \o headers) = Len(q) + Len(headers)
          /\ \A i \in 1..(Len(q) + Len(headers)) :
                (q \o headers)[i] = IF i <= Len(q) THEN q[i]
                                    ELSE headers[i - Len(q)]
      BY <1>1, ConcatProperties, Zenon
    <3>2. Len(q) = 1 /\ q[1] = ffId /\ Len(headers) \in Nat
      BY <1>1, <2>1, <2>2
    <3>3. \A i \in 1..(1 + Len(headers)) : i <= 1 => q[i] = ffId
      BY <3>2
    <3> QED
      BY <3>1, <3>2, <3>3
  <2>4. Len(headers) \in Nat
    BY <1>1
  <2>5. Len(Line) = Len(headers) + 1 /\ Line[1] = ffId
    BY <2>1, <2>2, <2>3, <2>4
  <2>6. \A i \in 1..Len(headers) : Line[i + 1] = headers[i]
    <3> SUFFICES ASSUME NEW i \in 1..Len(headers)
                 PROVE  Line[i + 1] = headers[i]
      OBVIOUS
    <3>1. i + 1 \in 1..(1 + Len(headers)) /\ ~(i + 1 <= 1) /\ (i + 1) - 1 = i
      BY <2>4
    <3> QED
      BY <2>1, <2>2, <2>3, <3>1
  <2>7. ASSUME NEW i \in 1..Len(Line)
        PROVE  Line[i] \in Nat /\ Line[i] <= head
    <3>1. CASE i = 1
      BY <1>1, <2>5, <3>1
    <3>2. CASE i # 1
      <4>1. i - 1 \in 1..Len(headers) /\ (i - 1) + 1 = i
        BY <2>4, <2>5, <2>7, <3>2
      <4> QED
        BY <1>1, <2>6, <4>1
    <3> QED
      BY <3>1, <3>2
  <2> QED
    BY <1>3, <2>4, <2>5, <2>6, <2>7 DEF LineShape
<1> QED
  BY <1>2, <1>3

\* The line moves on when its first height is stored, and grows when the chain
\* does.
LineStep ==
    \/ /\ Node
       /\ \E first \in Nat :
             /\ NodeChange(first)
             /\ \/ Announced(Line, Line', first, head')
                \/ first = head + 1 /\ Same(Line, Line')
    \/ Create /\ ForwardfillGoroutine /\ Dropped(Line, Line')
    \/ ~Node /\ ~(Create /\ ForwardfillGoroutine) /\ Same(Line, Line')

LEMMA LineMoves ==
    ASSUME QuietStart = TRUE, Lagging = FALSE, Faultless,
           IInv, HInv, DInv, Calm, [Next]_vars
    PROVE  LineStep
<1>0. CalmNext
  BY CalmSteps
<1>1. /\ LineShape /\ LineShape'
      /\ headers \in Seq(Nat)
  <2>1. IInv' /\ DInv'
    BY NextIInv, NextDInv
  <2>2. BelowHead /\ BelowHead'
    BY <2>1 DEF DInv
  <2>3. headers \in Seq(Nat)
    BY DomainAssumption DEF IInv, TypeOK, FetcherTypeOK, Height
  <2>4. LineShape
    BY <2>2, LineType
  <2>5. LineShape'
    BY <2>1, <2>2, LineType, PTL
  <2> QED
    BY <2>3, <2>4, <2>5
<1>2. CASE /\ ~Node /\ ~(Create /\ ForwardfillGoroutine)
           /\ headers' = headers
           /\ \/ Handling /\ Handling' /\ ffId' = ffId
              \/ ~Handling /\ ~Handling'
  <2>1. Line' = Line
    BY <1>2 DEF Line
  <2> QED
    BY <1>2, <2>1 DEF LineStep, Same
<1>3. CASE Node
  <2>1. PICK first \in Nat : NodeChange(first)
    BY <1>3, NodeAnnounces
  <2>2. UNCHANGED <<ffpc, ffId>> /\ Handling' = Handling
    BY <1>3 DEF Node, forwardfillVars, forwardfillLocals, Handling
  <2>3. CASE first = head + 1 /\ headers' = headers
    <3>1. Line' = Line
      BY <2>2, <2>3 DEF Line
    <3> QED
      BY <1>3, <2>1, <2>3, <3>1 DEF LineStep, Same
  <2>4. CASE Announced(headers, headers', first, head')
    <3>1. CASE ~Handling
      BY <1>1, <1>3, <2>1, <2>2, <2>4, <3>1 DEF LineShape, LineStep
    <3>2. CASE Handling
      <4>1. Announced(Line, Line', first, head')
        <5>0. /\ head' \in Int /\ first \in Nat
              /\ Len(headers) \in Nat /\ Len(headers') \in Nat
              /\ Len(Line) = Len(headers) + 1 /\ Len(Line') = Len(headers') + 1
              /\ Len(headers') = Len(headers) + (head' - first + 1)
          BY <1>1, <2>2, <2>4, <3>2, NextIInv, DomainAssumption
             DEF LineShape, IInv, TypeOK, FetcherTypeOK, Height, Announced
        <5>1. \A i \in 1..Len(Line) : Line'[i] = Line[i]
          <6> SUFFICES ASSUME NEW i \in 1..Len(Line) PROVE Line'[i] = Line[i]
            OBVIOUS
          <6>1. CASE i = 1
            <7>1. Line[1] = ffId /\ ffId' = ffId
              BY <1>1, <2>2, <3>2 DEF LineShape
            <7>2. Handling'
              BY <2>2, <3>2
            <7>3. Line'[1] = ffId'
              <8>1. LineShape'
                BY <1>1
              <8> QED
                BY <7>2, <8>1, Zenon DEF LineShape
            <7> QED
              BY <6>1, <7>1, <7>3
          <6>2. CASE i # 1
            <7>1. PICK k \in 1..Len(headers) : i = k + 1
              <8>1. i - 1 \in 1..Len(headers) /\ i = (i - 1) + 1
                BY <5>0, <6>2
              <8> QED
                BY <8>1
            <7>2. /\ Line[k + 1] = headers[k] /\ headers'[k] = headers[k]
                  /\ k \in 1..Len(headers')
              <8>1. Line[k + 1] = headers[k]
                BY <1>1, <3>2 DEF LineShape
              <8>2. headers'[k] = headers[k]
                BY <2>4 DEF Announced
              <8>3. first <= head'
                BY <2>1 DEF NodeChange
              <8>4. k \in 1..Len(headers')
                BY <5>0, <8>3
              <8> QED
                BY <8>1, <8>2, <8>4
            <7>3. LineShape' /\ Handling'
              BY <1>1, <2>2, <3>2
            <7>4. Line'[k + 1] = headers'[k]
              BY <7>2, <7>3, Zenon DEF LineShape
            <7> QED
              BY <7>1, <7>2, <7>4
          <6> QED
            BY <6>1, <6>2
        <5>2. \A i \in (Len(Line) + 1)..Len(Line') :
                  Line'[i] = first + (i - Len(Line)) - 1
          <6> SUFFICES ASSUME NEW i \in (Len(Line) + 1)..Len(Line')
                       PROVE  Line'[i] = first + (i - Len(Line)) - 1
            OBVIOUS
          <6>1. PICK k \in (Len(headers) + 1)..Len(headers') : i = k + 1
            <7>1. /\ i - 1 \in (Len(headers) + 1)..Len(headers')
                  /\ i = (i - 1) + 1
              BY <5>0
            <7> QED
              BY <7>1
          <6>2. /\ k \in 1..Len(headers')
                /\ headers'[k] = first + (k - Len(headers)) - 1
            BY <2>4, <5>0 DEF Announced
          <6>3. Line'[k + 1] = headers'[k]
            BY <1>1, <2>2, <3>2, <6>2 DEF LineShape
          <6> QED
            BY <5>0, <6>1, <6>2, <6>3
        <5> QED
          BY <5>0, <5>1, <5>2 DEF Announced
      <4> QED
        BY <1>3, <2>1, <4>1 DEF LineStep
    <3> QED
      BY <3>1, <3>2
  <2> QED
    BY <2>1, <2>3, <2>4 DEF NodeChange
<1>4. CASE ~Node /\ CalmForwardfill /\ ForwardfillGoroutine
  <2> USE DEF Handling, Candidate, Deleting
  <2>1. CASE ReceiveHeader
    <3>1. /\ ~Handling /\ Handling'
          /\ headers # <<>>
          /\ ffId' = Head(headers) /\ headers' = Tail(headers)
      BY <2>1 DEF ReceiveHeader
    <3>2. /\ Len(headers') = Len(headers) - 1 /\ ffId' = headers[1]
          /\ \A i \in 1..Len(headers') : headers'[i] = headers[i + 1]
      <4>1. PICK q \in Seq(Nat) : q = headers
        BY <1>1
      <4>2. q # <<>>
        BY <3>1, <4>1
      <4>3. /\ Len(Tail(q)) = Len(q) - 1
            /\ \A i \in 1..Len(Tail(q)) : Tail(q)[i] = q[i + 1]
        BY <4>2, HeadTailProperties
      <4>4. Head(q) = q[1]
        BY <4>2
      <4> QED
        BY <3>1, <4>1, <4>3, <4>4
    <3>3. /\ Len(Line') = Len(Line) /\ Len(Line) \in Nat /\ Line = headers
          /\ Len(Line') = Len(headers') + 1 /\ Line'[1] = Line[1]
      <4>1. Line = headers /\ Len(Line) \in Nat /\ Len(headers) \in Nat
        BY <1>1, <3>1 DEF LineShape
      <4>2. LineShape' /\ Handling'
        BY <1>1, <3>1
      <4>3. Len(Line') = Len(headers') + 1 /\ Line'[1] = ffId'
        BY <4>2, Zenon DEF LineShape
      <4>4. Line[1] = headers[1]
        BY <4>1
      <4>5. Line'[1] = Line[1]
        BY <3>2, <4>3, <4>4
      <4>6. Len(headers') = Len(headers) - 1
        BY <3>2
      <4>7. Len(Line) = Len(headers)
        BY <4>1
      <4>8. Len(Line') = Len(Line)
        BY <4>1, <4>3, <4>6, <4>7
      <4> QED
        BY <4>1, <4>3, <4>5, <4>8
    <3>4. ASSUME NEW i \in 1..Len(Line), i # 1
          PROVE  Line'[i] = Line[i]
      <4>1. PICK k \in 1..Len(headers') : i = k + 1
        <5>1. i - 1 \in 1..Len(headers') /\ i = (i - 1) + 1
          BY <3>3, <3>4
        <5> QED
          BY <5>1
      <4>2. Line'[k + 1] = headers'[k] /\ headers'[k] = headers[k + 1]
        BY <1>1, <3>1, <3>2, <4>1 DEF LineShape
      <4> QED
        BY <3>3, <4>1, <4>2
    <3>5. Same(Line, Line')
      BY <3>3, <3>4 DEF Same
    <3>6. ~Create
      BY <2>1 DEF ReceiveHeader, Create
    <3> QED
      BY <1>4, <3>5, <3>6 DEF LineStep
  <2>2. CASE Create
    <3>1. Handling /\ ~Handling' /\ headers' = headers
      BY <2>2 DEF Create
    <3>2. /\ Line' = headers /\ Len(Line) = Len(Line') + 1
          /\ \A i \in 1..Len(Line') : Line'[i] = Line[i + 1]
      BY <1>1, <3>1 DEF LineShape
    <3>3. Dropped(Line, Line')
      BY <3>2 DEF Dropped
    <3> QED
      BY <1>4, <2>2, <3>3 DEF LineStep
  <2>3. CASE FetchBlockPriority \/ CheckReorg \/ DeleteEvents
             \/ DeleteTransactions \/ DeleteBlock \/ PublishReorg
    BY <1>2, <1>4, <2>3 DEF FetchBlockPriority, CheckReorg, DeleteEvents,
       DeleteTransactions, DeleteBlock,
       PublishReorg, Create, forwardfillLocals
  <2>4. CASE PublishBlock \/ PublishRows
    BY <1>2, <1>4, <2>4 DEF PublishBlock, PublishRows, Create
  <2> QED
    BY <1>4, <2>1, <2>2, <2>3, <2>4 DEF CalmForwardfill
<1>5. CASE ~Node /\ ~(CalmForwardfill /\ ForwardfillGoroutine)
  <2>1. headers' = headers
    BY <1>0, <1>5 DEF CalmNext, CalmProcess, Start, GetLastBlockId,
       BackfillSignal, SubscribeNewHead, BackfillGoroutine,
       BalancefillGoroutine, fetcherVars, vars
  <2>2. \/ ffpc' = ffpc /\ ffId' = ffId
        \/ ffpc = "off" /\ ffpc' = "select"
    BY <1>0, <1>5 DEF CalmNext, CalmProcess, Start, GetLastBlockId,
       BackfillSignal, SubscribeGoroutine, BackfillGoroutine,
       BalancefillGoroutine, forwardfillVars, forwardfillLocals, vars,
       DInv, NotAhead
  <2>3. ~(Create /\ ForwardfillGoroutine)
    BY <1>5 DEF CalmForwardfill
  <2> QED
    BY <1>2, <1>5, <2>1, <2>2, <2>3 DEF Handling, Candidate, Deleting
<1> QED
  BY <1>3, <1>4, <1>5
\* A block that is not, or no longer, on the canonical chain; a height that a
\* reorganisation may still have replaced when the newest stored block came.
Stale(b) == b # NodeBlock(b.id)

Fresh(h) == \A b \in db.blocks : h + Depth > b.id

\* What a step does to the tables, and to the line.
ChainMoves ==
    /\ Node
    /\ \E first \in Nat : /\ NodeChange(first)
                          /\ \/ Announced(Line, Line', first, head')
                             \/ first = head + 1 /\ Same(Line, Line')
    /\ UNCHANGED <<databaseVars, backfillVars, forwardfillVars,
                   balancefillVars>>

BlockStored ==
    /\ ffpc = "create" /\ ffpc' = "publish" /\ ffBlock.id = ffId
    /\ \A c \in db.blocks : c.id = ffId => c = ffBlock
    /\ db' = Insert(db, {ffBlock})
    /\ Len(Line) >= 1 /\ Line[1] = ffId /\ Dropped(Line, Line')
    /\ UNCHANGED <<chainVars, inserted, backfillVars, balancefillVars, ffId,
                   ffBlock>>

HeightVacated ==
    /\ ffpc = "deleteblock" /\ ffpc' = "pubreorg" /\ ffBlock.id = ffId
    /\ bfpc = "done"
    /\ \E c \in db.blocks : c.id = ffId /\ Stale(c)
    /\ db'.blocks = db.blocks \ GetBlockById(db, ffId)
    /\ db'.events = db.events \ EventsAt(db, ffId)
    /\ Len(Line) >= 1 /\ Line[1] = ffId /\ Same(Line, Line')
    /\ UNCHANGED <<chainVars, inserted, backfillVars, balancefillVars, ffId,
                   ffBlock>>

BatchStored ==
    /\ CommitBatch /\ BackfillGoroutine
    /\ inserted.blocks \subseteq results
    /\ \A b \in results :
           LogsOf[b] \subseteq LogKeys(db) \cup LogKeys(inserted)
    /\ Same(Line, Line')
    /\ UNCHANGED <<chainVars, forwardfillVars, balancefillVars>>

NothingStored ==
    /\ db' = db
    /\ Same(Line, Line')
    /\ UNCHANGED chainVars
    /\ ffpc' \in Candidate =>
          \/ ffpc \in Candidate /\ UNCHANGED <<ffId, ffBlock>>
          \/ ffBlock' = NodeBlock(ffId')
    /\ bfpc' # "done" => bfpc # "done"
    /\ UNCHANGED backfillVars => inserted' = inserted

LEMMA StepKinds ==
    ASSUME QuietStart = TRUE, Lagging = FALSE, Faultless,
           IInv, HInv, DownIsOff, DInv, Calm, OpenInv, [Next]_vars
    PROVE  \/ ChainMoves \/ BlockStored \/ HeightVacated \/ BatchStored
           \/ NothingStored
<1>0. CalmNext /\ LineStep /\ LineShape
  BY CalmSteps, LineMoves, LineType DEF DInv
<1>1. CASE Node
  <2>1. ~Create
    BY <1>1 DEF Node, forwardfillVars, Create
  <2> QED
    BY <1>0, <1>1, <2>1 DEF ChainMoves, Node, LineStep
<1>2. CASE ~Node /\ CalmForwardfill /\ ForwardfillGoroutine
  <2>1. UNCHANGED <<chainVars, inserted, backfillVars, balancefillVars>>
    BY <1>2 DEF ForwardfillGoroutine
  <2>2. CASE Create
    <3>1. /\ ffpc = "create" /\ ffpc' = "publish"
          /\ UNCHANGED <<ffId, ffBlock>>
          /\ db' = Insert(db, {ffBlock})
      BY <2>2 DEF Create, forwardfillLocals
    <3>2. Handling
      BY <3>1 DEF Handling, Candidate, Deleting
    <3>3. /\ ffBlock.id = ffId
          /\ \A c \in db.blocks : c.id = ffId => c = ffBlock
      BY <3>1 DEF DInv, CandidateInv, Candidate, Deleting, Calm
    <3>4. Len(Line) >= 1 /\ Line[1] = ffId
      BY <1>0, <3>2 DEF LineShape
    <3>5. Dropped(Line, Line')
      BY <1>0, <1>2, <2>2 DEF LineStep
    <3> QED
      BY <2>1, <3>1, <3>3, <3>4, <3>5 DEF BlockStored
  <2>3. CASE DeleteBlock
    <3>1. /\ ffpc = "deleteblock" /\ ffpc' = "pubreorg"
          /\ UNCHANGED <<ffId, ffBlock>>
          /\ db'.blocks = db.blocks \ GetBlockById(db, ffBlock.id)
          /\ db'.events = db.events \ EventsAt(db, ffBlock.id)
      BY <2>3 DEF DeleteBlock, WithoutDeleted, OpenInv, forwardfillLocals
    <3>2. Handling
      BY <3>1 DEF Handling, Candidate, Deleting
    <3>3. ffBlock.id = ffId /\ \E c \in db.blocks : c.id = ffId /\ c # ffBlock
      BY <3>1 DEF DInv, CandidateInv, Candidate, Deleting, HInv, InTheWay
    <3>4. PICK c \in db.blocks : c.id = ffId /\ c # ffBlock
      BY <3>3
    <3>5. Stale(c)
      <4>1. /\ c.fork <= ffBlock.fork /\ ffBlock.fork <= canon[ffId]
        BY <3>1, <3>4 DEF DInv, CandidateInv, Candidate, Deleting
      <4>2. c \in Block /\ ffBlock \in Block /\ canon[ffId] \in Int
        BY CanonicalBlock
           DEF IInv, TypeOK, RepositoryTypeOK, Store, ForwardfillTypeOK
      <4>3. c.fork # ffBlock.fork /\ c.fork \in Int /\ ffBlock.fork \in Int
        BY <3>3, <3>4, <4>2, SameBlock
      <4>4. c.fork # canon[ffId]
        BY <4>1, <4>2, <4>3
      <4> QED
        BY <3>4, <4>4 DEF Stale, NodeBlock
    <3>6. bfpc = "done"
      BY <3>4, <3>5 DEF Calm, Stale
    <3>7. Len(Line) >= 1 /\ Line[1] = ffId
      BY <1>0, <3>2 DEF LineShape
    <3>8. Same(Line, Line')
      BY <1>0, <1>2, <2>3 DEF LineStep, Create, DeleteBlock
    <3> QED
      BY <2>1, <3>1, <3>3, <3>4, <3>5, <3>6, <3>7, <3>8 DEF HeightVacated
  <2>4. CASE ~Create /\ ~DeleteBlock
    <3>1. db' = db
      BY <1>2, <2>4
         DEF CalmForwardfill, ReceiveHeader, FetchBlockPriority, CheckReorg,
             DeleteEvents, DeleteTransactions, PublishReorg, PublishBlock,
             PublishRows
    <3>2. Same(Line, Line')
      BY <1>0, <1>2, <2>4 DEF LineStep
    <3>3. ffpc' \in Candidate
          => \/ ffpc \in Candidate /\ UNCHANGED <<ffId, ffBlock>>
             \/ ffBlock' = NodeBlock(ffId')
      BY <1>2, <2>4
         DEF CalmForwardfill, ReceiveHeader, FetchBlockPriority, CheckReorg,
             DeleteEvents, DeleteTransactions, PublishReorg, PublishBlock,
             PublishRows, Candidate, Deleting, forwardfillLocals, FetchBlock
    <3>4. bfpc' = bfpc
      BY <2>1 DEF backfillVars
    <3> QED
      BY <2>1, <3>1, <3>2, <3>3, <3>4 DEF NothingStored
  <2> QED
    BY <2>2, <2>3, <2>4
<1>3. CASE ~Node /\ ~(CalmForwardfill /\ ForwardfillGoroutine)
  <2>1. Same(Line, Line')
    BY <1>0, <1>3 DEF LineStep, CalmForwardfill
  <2>2. CASE CommitBatch /\ BackfillGoroutine
    <3>1. bfpc = "commit"
      BY <2>2 DEF CommitBatch
    <3> QED
      BY <2>1, <2>2, <3>1 DEF BatchStored, BackfillGoroutine, fetcherVars,
         chainVars, HInv, BatchBlocks, Open, OpenInv
  <2>3. CASE ~(CommitBatch /\ BackfillGoroutine)
    <3>1. /\ db' = db /\ UNCHANGED chainVars
          /\ bfpc' # "done" => bfpc # "done"
      BY <1>0, <1>3, <2>3 DEF CalmNext, CalmProcess, Start, GetLastBlockId,
         BackfillSignal, SubscribeNewHead, SubscribeGoroutine,
         BackfillGoroutine, CalmBackfill, GetBackfillCursor, UpToDate,
         FetchResult, InsertBlocks, InsertTransactions, InsertEvents,
         UpdateBackfillCursor, BalancefillGoroutine, databaseVars,
         CalmBalancefill, GetBalancefillCursor, LeaveWait, GetLogs,
         BatchUpsertBalance, UpdateBalancefillCursor, fetcherVars, chainVars,
         backfillVars, vars, DInv, NotAhead
    <3>2. \/ UNCHANGED <<ffpc, ffId, ffBlock>>
          \/ ffpc' = "select"
      BY <1>0, <1>3 DEF CalmNext, CalmProcess, Start, GetLastBlockId,
         BackfillSignal, SubscribeGoroutine, BackfillGoroutine,
         BalancefillGoroutine, forwardfillVars, forwardfillLocals, vars
    <3>3. UNCHANGED backfillVars => inserted' = inserted
      BY <1>0, <1>3, <2>3 DEF CalmNext, CalmProcess, Start, GetLastBlockId,
         BackfillSignal, SubscribeGoroutine, CalmBackfill, GetBackfillCursor,
         UpToDate, FetchResult, InsertBlocks, InsertTransactions,
         InsertEvents, UpdateBackfillCursor, BalancefillGoroutine,
         databaseVars, backfillVars, vars
    <3> QED
      BY <2>1, <3>1, <3>2, <3>3 DEF NothingStored, Candidate, Deleting
  <2> QED
    BY <2>2, <2>3
<1> QED
  BY <1>1, <1>2, <1>3
-----------------------------------------------------------------------------
(* The line is in the order of the chain, as far as it matters, and every    *)
(* stale block is on it.                                                     *)

LineInv ==
    /\ \A i, j \in 1..Len(Line) : i < j =>
          /\ Line[j] + Depth > Line[i]
          /\ Line[j] > Line[i] \/ Fresh(Line[j])
    /\ bfpc # "done" =>
          \A i, j \in 1..Len(Line) : i < j => Line[j] > Line[i]

StaleOnLine ==
    /\ \A c \in db.blocks : Stale(c) =>
          Fresh(c.id) /\ \E i \in 1..Len(Line) : Line[i] = c.id
    /\ ffpc \in Candidate /\ Stale(ffBlock) =>
          Fresh(ffId) /\ \E i \in 2..Len(Line) : Line[i] = ffId

SteadyStep ==
    \/ ChainMoves \/ BlockStored \/ HeightVacated \/ BatchStored
    \/ NothingStored

LEMMA SteadyTypes ==
    ASSUME IInv, DInv
    PROVE  /\ head \in Nat /\ Depth \in Nat /\ Lag \in Nat
           /\ Len(Line) \in Nat
           /\ \A i \in 1..Len(Line) : Line[i] \in Nat /\ Line[i] <= head
           /\ \A b \in db.blocks : b \in Block /\ b.id \in Nat /\ b.id <= head
           /\ ffId \in Nat /\ ffId <= head /\ ffBlock \in Block
<1>1. LineShape
  BY LineType DEF DInv
<1>2. db.blocks \subseteq Block /\ ffId \in Nat /\ ffBlock \in Block
  BY DomainAssumption
     DEF IInv, TypeOK, RepositoryTypeOK, Store, ForwardfillTypeOK, Height
<1>3. head \in Nat /\ Depth \in Nat /\ Lag \in Nat
  BY DomainAssumption, FetcherAssumption, BalancefillAssumption
     DEF IInv, TypeOK, FetcherTypeOK, Height
<1> QED
  BY <1>1, <1>2, <1>3, SameBlock DEF LineShape, DInv, BelowHead

LEMMA ShapeNext ==
    ASSUME IInv', DInv'
    PROVE  Len(Line') \in Nat
<1>1. BelowHead'
  BY DEF DInv
<1>2. LineShape'
  BY <1>1, LineType, PTL
<1> QED
  BY <1>2 DEF LineShape

LEMMA LineInvStep ==
    ASSUME IInv, DInv, IInv', DInv', LineInv, SteadyStep
    PROVE  LineInv'
<1>0. /\ head \in Nat /\ Depth \in Nat /\ Len(Line) \in Nat
      /\ \A i \in 1..Len(Line) : Line[i] \in Nat /\ Line[i] <= head
      /\ \A b \in db.blocks : b.id \in Nat /\ b.id <= head
  BY SteadyTypes
<1>1. Len(Line') \in Nat /\ head' \in Nat
  BY ShapeNext, DomainAssumption DEF IInv, TypeOK, FetcherTypeOK, Height
<1>2. CASE ChainMoves
  <2>1. db' = db /\ bfpc' = bfpc
    BY <1>2 DEF ChainMoves, databaseVars, backfillVars
  <2>2. PICK first \in Nat : /\ NodeChange(first)
                             /\ \/ Announced(Line, Line', first, head')
                                \/ first = head + 1 /\ Same(Line, Line')
    BY <1>2 DEF ChainMoves
  <2>3. CASE Same(Line, Line')
    BY <1>0, <2>1, <2>3 DEF Same, LineInv, Fresh
  <2>4. CASE Announced(Line, Line', first, head')
    <3>1. /\ first + Depth > head /\ first <= head'
          /\ bfpc # "done" => first = head + 1
      BY <2>2 DEF NodeChange
    <3>2. ASSUME NEW j \in (Len(Line) + 1)..Len(Line')
          PROVE  /\ Line'[j] = first + (j - Len(Line)) - 1
                 /\ Line'[j] \in Nat /\ Line'[j] >= first
      BY <1>0, <1>1, <2>4 DEF Announced
    <3>3. ASSUME NEW i \in 1..Len(Line'), NEW j \in 1..Len(Line'), i < j
          PROVE  /\ Line'[j] + Depth > Line'[i]
                 /\ Line'[j] > Line'[i] \/ Fresh(Line[j])'
                 /\ bfpc' # "done" => Line'[j] > Line'[i]
      <4>1. CASE j <= Len(Line)
        <5>1. i \in 1..Len(Line) /\ j \in 1..Len(Line)
          BY <1>0, <1>1, <3>3, <4>1
        <5>2. Line'[i] = Line[i] /\ Line'[j] = Line[j]
          BY <2>4, <5>1 DEF Announced
        <5> QED
          BY <2>1, <3>3, <5>1, <5>2 DEF LineInv, Fresh
      <4>2. CASE i <= Len(Line) /\ j > Len(Line)
        <5>1. i \in 1..Len(Line) /\ j \in (Len(Line) + 1)..Len(Line')
          BY <1>0, <1>1, <3>3, <4>2
        <5>2. Line'[i] = Line[i] /\ Line[i] \in Nat /\ Line[i] <= head
          BY <1>0, <2>4, <5>1 DEF Announced
        <5>3. Line'[j] \in Nat /\ Line'[j] >= first
          BY <3>2, <5>1
        <5>4. Fresh(Line[j])'
          BY <1>0, <2>1, <3>1, <5>3 DEF Fresh
        <5> QED
          BY <1>0, <2>1, <3>1, <5>2, <5>3, <5>4
      <4>3. CASE i > Len(Line)
        <5>1. /\ i \in (Len(Line) + 1)..Len(Line')
              /\ j \in (Len(Line) + 1)..Len(Line')
          BY <1>0, <1>1, <3>3, <4>3
        <5>2. /\ Line'[i] = first + (i - Len(Line)) - 1
              /\ Line'[j] = first + (j - Len(Line)) - 1
          BY <3>2, <5>1
        <5> QED
          BY <1>0, <3>3, <5>2
      <4> QED
        BY <1>0, <4>1, <4>2, <4>3
    <3> QED
      BY <3>3 DEF LineInv
  <2> QED
    BY <2>2, <2>3, <2>4
<1>3. CASE BlockStored
  <2>1. /\ db'.blocks = db.blocks \cup {ffBlock} /\ ffBlock.id = ffId
        /\ Line[1] = ffId /\ Len(Line) >= 1 /\ bfpc' = bfpc
        /\ Dropped(Line, Line')
    BY <1>3 DEF BlockStored, Insert, backfillVars
  <2>2. ASSUME NEW i \in 1..Len(Line')
        PROVE  i + 1 \in 1..Len(Line) /\ Line'[i] = Line[i + 1] /\ 1 < i + 1
    BY <1>0, <1>1, <2>1 DEF Dropped
  <2>3. ASSUME NEW i \in 1..Len(Line'), Fresh(Line[i + 1])
        PROVE  Fresh(Line[i])'
    <3>1. Line[i + 1] + Depth > Line[1]
      BY <1>0, <2>1, <2>2 DEF LineInv
    <3> QED
      BY <2>1, <2>2, <2>3, <3>1 DEF Fresh
  <2>4. ASSUME NEW i \in 1..Len(Line'), NEW j \in 1..Len(Line'), i < j
        PROVE  /\ Line'[j] + Depth > Line'[i]
               /\ Line'[j] > Line'[i] \/ Fresh(Line[j])'
               /\ bfpc' # "done" => Line'[j] > Line'[i]
    <3>1. i + 1 < j + 1 /\ i + 1 \in 1..Len(Line) /\ j + 1 \in 1..Len(Line)
      BY <1>1, <2>2, <2>4
    <3>2. /\ Line[j + 1] + Depth > Line[i + 1]
          /\ Line[j + 1] > Line[i + 1] \/ Fresh(Line[j + 1])
          /\ bfpc # "done" => Line[j + 1] > Line[i + 1]
      BY <3>1 DEF LineInv
    <3> QED
      BY <2>1, <2>2, <2>3, <3>2
  <2> QED
    BY <2>4 DEF LineInv
<1>4. CASE HeightVacated
  <2>1. /\ db'.blocks \subseteq db.blocks /\ bfpc' = bfpc /\ Same(Line, Line')
    BY <1>4 DEF HeightVacated, backfillVars
  <2> QED
    BY <2>1 DEF Same, LineInv, Fresh
<1>5. CASE BatchStored
  <2>1. /\ bfpc = "commit" /\ bfpc' = "advance" /\ Same(Line, Line')
        /\ \A i, j \in 1..Len(Line) : i < j => Line[j] > Line[i]
    BY <1>5 DEF BatchStored, CommitBatch, LineInv
  <2>2. \A i, j \in 1..Len(Line) : i < j => Line[j] + Depth > Line[i]
    BY <1>5 DEF LineInv
  <2> QED
    BY <2>1, <2>2 DEF Same, LineInv
<1>6. CASE NothingStored
  BY <1>6 DEF NothingStored, Same, LineInv, Fresh
<1> QED
  BY <1>2, <1>3, <1>4, <1>5, <1>6 DEF SteadyStep

\* The line after a step of the chain, and after the first height was stored.
LEMMA LineAfterNode ==
    ASSUME QuietStart = TRUE, IInv, DInv, IInv', DInv', ChainMoves,
           NEW i \in 1..Len(Line')
    PROVE  \/ i \in 1..Len(Line) /\ Line'[i] = Line[i]
           \/ Line'[i] \in Nat /\ Line'[i] + Depth > head
<1>0. head \in Nat /\ Depth \in Nat /\ Len(Line) \in Nat /\ Len(Line') \in Nat
  BY SteadyTypes, ShapeNext
<1>1. PICK first \in Nat : /\ NodeChange(first)
                           /\ \/ Announced(Line, Line', first, head')
                              \/ first = head + 1 /\ Same(Line, Line')
  BY DEF ChainMoves
<1>2. first + Depth > head
  BY <1>1 DEF NodeChange
<1>3. CASE i <= Len(Line)
  <2>1. i \in 1..Len(Line)
    BY <1>0, <1>3
  <2>2. Line'[i] = Line[i]
    BY <1>1, <2>1 DEF Announced, Same
  <2> QED
    BY <2>1, <2>2
<1>4. CASE i > Len(Line)
  <2>1. Announced(Line, Line', first, head')
    BY <1>0, <1>1, <1>4 DEF Same
  <2>2. i \in (Len(Line) + 1)..Len(Line')
    BY <1>0, <1>4
  <2>3. Line'[i] = first + (i - Len(Line)) - 1
    BY <2>1, <2>2 DEF Announced
  <2>4. Line'[i] >= first /\ Line'[i] \in Nat
    BY <1>0, <2>2, <2>3
  <2> QED
    BY <1>0, <1>2, <2>4
<1> QED
  BY <1>0, <1>3, <1>4

LEMMA LineAfterCreate ==
    ASSUME IInv, DInv, IInv', DInv', LineInv, BlockStored,
           NEW i \in 1..Len(Line')
    PROVE  /\ i + 1 \in 1..Len(Line) /\ Line'[i] = Line[i + 1]
           /\ Line[i + 1] + Depth > ffId
           /\ bfpc # "done" => Line[i + 1] > ffId
<1>1. Len(Line) \in Nat /\ Len(Line') \in Nat
  BY SteadyTypes, ShapeNext
<1>2. Dropped(Line, Line') /\ Line[1] = ffId
  BY DEF BlockStored
<1>3. i + 1 \in 1..Len(Line) /\ Line'[i] = Line[i + 1]
      /\ 1 < i + 1 /\ 1 \in 1..Len(Line)
  BY <1>1, <1>2 DEF Dropped
<1> QED
  BY <1>2, <1>3 DEF LineInv

LEMMA StaleOnLineStep ==
    ASSUME QuietStart = TRUE, IInv, DInv, Calm, IInv', DInv',
           LineInv, StaleOnLine, SteadyStep
    PROVE  StaleOnLine'
<1>0. /\ head \in Nat /\ Depth \in Nat /\ Len(Line) \in Nat
      /\ \A i \in 1..Len(Line) : Line[i] \in Nat /\ Line[i] <= head
      /\ \A b \in db.blocks : b.id \in Nat /\ b.id <= head
      /\ ffId \in Nat /\ ffId <= head
  BY SteadyTypes
<1>1. CASE ChainMoves
  <2>1. UNCHANGED <<db, bfpc, ffpc, ffId, ffBlock>>
    BY <1>1
       DEF ChainMoves, databaseVars, backfillVars, forwardfillVars,
           forwardfillLocals
  <2>2. PICK first \in Nat : /\ NodeChange(first)
                             /\ \/ Announced(Line, Line', first, head')
                                \/ first = head + 1 /\ Same(Line, Line')
    BY <1>1 DEF ChainMoves
  <2>3. /\ head' \in Nat /\ head <= head' /\ first + Depth > head
        /\ \A n \in 0..head : n < first => canon'[n] = canon[n]
    BY <1>1, <2>2, ChainStep DEF ChainMoves, DInv, NodeChange
  <2>4. /\ Len(Line') \in Nat /\ Len(Line') >= Len(Line)
        /\ \A i \in 1..Len(Line) : Line'[i] = Line[i]
    <3>1. CASE Announced(Line, Line', first, head')
      <4>1. first \in Nat /\ first <= head'
        BY <2>2 DEF NodeChange
      <4> QED
        BY <1>0, <2>3, <3>1, <4>1 DEF Announced
    <3>2. CASE Same(Line, Line')
      BY <1>0, <3>2 DEF Same
    <3> QED
      BY <2>2, <3>1, <3>2
  <2>5. ASSUME NEW n \in 0..head, canon'[n] # canon[n]
        PROVE  /\ \A b \in db.blocks : n + Depth > b.id
               /\ \E j \in (Len(Line) + 1)..Len(Line') : Line'[j] = n
    <3>1. n >= first /\ n \in Nat
      BY <1>0, <2>3, <2>5
    <3>2. Announced(Line, Line', first, head')
      BY <1>0, <2>2, <3>1
    <3>3. PICK j \in Nat : j = Len(Line) + (n - first) + 1
      BY <1>0, <3>1
    <3>4. j \in (Len(Line) + 1)..Len(Line')
      BY <1>0, <2>3, <3>1, <3>2, <3>3 DEF Announced
    <3>5. Line'[j] = first + (j - Len(Line)) - 1
      BY <3>2, <3>4 DEF Announced
    <3>6. Line'[j] = n
      BY <1>0, <3>1, <3>3, <3>5
    <3> QED
      BY <1>0, <2>3, <3>1, <3>4, <3>6
  <2>6. ASSUME NEW c \in db.blocks, Stale(c)'
        PROVE  Fresh(c.id)' /\ \E i \in 1..Len(Line') : Line'[i] = c.id
    <3>1. CASE Stale(c)
      BY <1>0, <2>1, <2>4, <3>1 DEF StaleOnLine, Fresh
    <3>2. CASE ~Stale(c)
      <4>1. c.id \in 0..head /\ canon'[c.id] # canon[c.id]
        BY <1>0, <2>6, <3>2 DEF Stale, NodeBlock
      <4> QED
        BY <1>0, <2>1, <2>4, <2>5, <4>1 DEF Fresh
    <3> QED
      BY <3>1, <3>2
  <2>7. ASSUME ffpc \in Candidate, Stale(ffBlock)'
        PROVE  Fresh(ffId)' /\ \E i \in 2..Len(Line') : Line'[i] = ffId
    <3>1. CASE Stale(ffBlock)
      <4>1. PICK i \in 2..Len(Line) : Line[i] = ffId
        BY <2>7, <3>1 DEF StaleOnLine
      <4>2. i \in 2..Len(Line') /\ Line'[i] = ffId
        BY <1>0, <2>4, <4>1
      <4>3. Fresh(ffId)'
        BY <2>1, <2>7, <3>1 DEF StaleOnLine, Fresh
      <4> QED
        BY <4>2, <4>3
    <3>2. CASE ~Stale(ffBlock)
      <4>1. ffBlock.id = ffId /\ ffId \in 0..head /\ ffBlock' = ffBlock
        BY <1>0, <2>1, <2>7 DEF DInv, CandidateInv
      <4>2. canon'[ffId] # canon[ffId]
        BY <2>7, <3>2, <4>1 DEF Stale, NodeBlock
      <4>3. Len(Line) >= 1
        <5>1. Handling /\ LineShape /\ Len(headers) \in Nat
          BY <2>7, LineType DEF Handling, DInv, LineShape
        <5> QED
          BY <5>1 DEF LineShape
      <4>4. PICK j \in (Len(Line) + 1)..Len(Line') : Line'[j] = ffId
        BY <2>5, <4>1, <4>2
      <4>5. j \in 2..Len(Line')
        BY <1>0, <2>4, <4>3
      <4>6. Fresh(ffId)'
        BY <2>1, <2>5, <4>1, <4>2 DEF Fresh
      <4> QED
        BY <4>4, <4>5, <4>6
    <3> QED
      BY <3>1, <3>2
  <2> QED
    BY <2>1, <2>6, <2>7 DEF StaleOnLine
<1>2. CASE BlockStored
  <2>1. /\ db'.blocks = db.blocks \cup {ffBlock} /\ ffBlock.id = ffId
        /\ \A c \in db.blocks : c.id = ffId => c = ffBlock
        /\ Line[1] = ffId /\ Len(Line) >= 1 /\ canon' = canon
        /\ ffpc = "create" /\ ffpc' = "publish"
        /\ Dropped(Line, Line')
    BY <1>2 DEF BlockStored, Insert, chainVars
  <2>2. ASSUME NEW c \in db.blocks \cup {ffBlock}, Stale(c)
        PROVE  /\ \A b \in db.blocks : c.id + Depth > b.id
               /\ \E i \in 2..Len(Line) : Line[i] = c.id
    <3>1. CASE c = ffBlock
      BY <2>1, <2>2, <3>1 DEF StaleOnLine, Candidate, Deleting, Fresh
    <3>2. CASE c # ffBlock
      <4>1. c \in db.blocks /\ c.id # ffId
        BY <2>1, <3>2
      <4>2. PICK i \in 1..Len(Line) : Line[i] = c.id
        BY <2>2, <4>1 DEF StaleOnLine
      <4>3. i \in 2..Len(Line)
        BY <1>0, <2>1, <4>1, <4>2
      <4> QED
        BY <2>2, <4>1, <4>2, <4>3 DEF StaleOnLine, Fresh
    <3> QED
      BY <3>1, <3>2
  <2>3. ASSUME NEW c \in db.blocks \cup {ffBlock}, Stale(c)
        PROVE  Fresh(c.id)' /\ \E i \in 1..Len(Line') : Line'[i] = c.id
    <3>1. PICK i \in 2..Len(Line) : Line[i] = c.id
      BY <2>2, <2>3
    <3>2. Line[i] + Depth > Line[1]
      BY <1>0, <2>1, <3>1 DEF LineInv
    <3>3. Fresh(c.id)'
      BY <2>1, <2>2, <2>3, <3>1, <3>2 DEF Fresh
    <3>4. /\ Len(Line) = Len(Line') + 1 /\ Len(Line') \in Nat
          /\ \A k \in 1..Len(Line') : Line'[k] = Line[k + 1]
      BY <1>0, <2>1 DEF Dropped, DInv, LineShape
    <3>5. i - 1 \in 1..Len(Line') /\ (i - 1) + 1 = i
      BY <1>0, <3>4
    <3>6. Line'[i - 1] = c.id
      BY <3>1, <3>4, <3>5
    <3> QED
      BY <3>3, <3>5, <3>6
  <2>4. \A c : Stale(c)' <=> Stale(c)
    BY <2>1 DEF Stale, NodeBlock
  <2> QED
    BY <2>1, <2>3, <2>4 DEF StaleOnLine, Candidate, Deleting
<1>3. CASE HeightVacated
  <2>1. /\ db'.blocks \subseteq db.blocks /\ Same(Line, Line')
        /\ UNCHANGED <<canon, ffId, ffBlock>> /\ ffpc \in Candidate
    BY <1>3 DEF HeightVacated, chainVars, Candidate, Deleting
  <2> QED
    BY <2>1 DEF Same, StaleOnLine, Fresh, Stale, NodeBlock
<1>4. CASE BatchStored
  <2>1. /\ bfpc = "commit" /\ db'.blocks \subseteq db.blocks \cup results
        /\ canon' = canon /\ ffpc' = ffpc /\ ffBlock' = ffBlock
    BY <1>4 DEF BatchStored, CommitBatch, WithInserted, chainVars,
       forwardfillVars, forwardfillLocals
  <2>2. /\ \A b \in db.blocks \cup results : ~Stale(b)
        /\ ffpc \in Candidate => ~Stale(ffBlock)
    BY <2>1 DEF Calm, DInv, NotAhead, CandidateInv, Stale
  <2>3. \A c : Stale(c)' <=> Stale(c)
    BY <2>1 DEF Stale, NodeBlock
  <2> QED
    BY <2>1, <2>2, <2>3 DEF StaleOnLine, Stale, NodeBlock
<1>5. CASE NothingStored
  <2>1. /\ db' = db /\ canon' = canon /\ Same(Line, Line')
        /\ ffpc' \in Candidate =>
              \/ ffpc \in Candidate /\ UNCHANGED <<ffId, ffBlock>>
              \/ ffBlock' = NodeBlock(ffId')
    BY <1>5 DEF NothingStored, chainVars
  <2>2. \A c : Stale(c)' <=> Stale(c)
    BY <2>1 DEF Stale, NodeBlock
  <2>3. ffpc' \in Candidate /\ Stale(ffBlock)'
        => ffpc \in Candidate /\ Stale(ffBlock) /\ UNCHANGED <<ffId, ffBlock>>
    BY <2>1 DEF Stale, NodeBlock
  <2> QED
    BY <2>1, <2>2, <2>3 DEF Same, StaleOnLine, Fresh
<1> QED
  BY <1>1, <1>2, <1>3, <1>4, <1>5 DEF SteadyStep

\* When a height is vacated, every height of the line is fresh.
LEMMA VacatedFresh ==
    ASSUME IInv, DInv, LineInv, StaleOnLine, HeightVacated
    PROVE  \A i \in 1..Len(Line) : Fresh(Line[i])
<1>0. /\ Depth \in Nat /\ Len(Line) \in Nat
      /\ \A i \in 1..Len(Line) : Line[i] \in Nat
      /\ \A b \in db.blocks : b.id \in Nat
  BY SteadyTypes
<1>1. Line[1] = ffId /\ Fresh(ffId)
  BY DEF HeightVacated, StaleOnLine
<1>2. ASSUME NEW i \in 1..Len(Line)
      PROVE  Fresh(Line[i])
  <2>1. CASE i = 1
    BY <1>1, <2>1
  <2>2. CASE i # 1
    <3>1. 1 \in 1..Len(Line) /\ 1 < i
      BY <1>0, <1>2, <2>2
    <3>2. Line[i] > Line[1] \/ Fresh(Line[i])
      BY <3>1 DEF LineInv
    <3> QED
      BY <1>0, <1>1, <3>1, <3>2 DEF Fresh
  <2> QED
    BY <2>1, <2>2
<1> QED
  BY <1>2

-----------------------------------------------------------------------------
(* While backfill runs, the line is above everything stored that backfill    *)
(* will not get to; balancefill is launched when it has got there.           *)

\* The signal that backfill is complete was sent.
Launched == backfillChan \/ balpc \notin {"off", "signal"}

BackfillInv ==
    /\ InitHead <= head
    /\ Launched => bfpc = "done"
    /\ \A b \in results : b.id <= targetId
    /\ \A n \in pending : n <= targetId
    /\ bfpc # "done" =>
          /\ BatchCovered /\ ResumeCovered
          /\ \A i \in 1..Len(Line) :
                /\ Line[i] >= From
                /\ \A b \in db.blocks : b.id < Line[i] \/ b.id <= targetId

\* The steps of backfill and of the process that store nothing.
LEMMA BackfillQuiet ==
    ASSUME Lagging = FALSE, IInv, DInv, BackfillInv, NothingStored,
           CalmProcess \/ (CalmBackfill /\ BackfillGoroutine)
    PROVE  BackfillInv'
<1>0. /\ head \in Nat /\ targetId \in Nat /\ BatchSize \in Nat \ {0}
      /\ curr \in Nat /\ backfillCursor \in Nat /\ From \in Nat
      /\ \A b \in db.blocks : b.id \in Nat /\ b.id <= head
      /\ \A i \in 1..Len(Line) : Line[i] \in Nat
  BY SteadyTypes, DomainAssumption, BackfillAssumption
     DEF IInv, TypeOK, BackfillTypeOK, FetcherTypeOK, Height
<1>1. /\ db' = db /\ head' = head /\ Same(Line, Line')
  BY DEF NothingStored, chainVars
<1>2. InitHead <= head'
  BY <1>1 DEF BackfillInv
<1>3. ASSUME bfpc # "done", BatchCovered', ResumeCovered',
             targetId' = targetId \/ targetId' = head
      PROVE  bfpc' # "done" =>
                /\ BatchCovered' /\ ResumeCovered'
                /\ \A i \in 1..Len(Line') :
                      /\ Line'[i] >= From
                      /\ \A b \in db'.blocks :
                            b.id < Line'[i] \/ b.id <= targetId'
  BY <1>0, <1>1, <1>3 DEF BackfillInv, Same
<1>4. CASE CalmProcess
  <2>1. ASSUME NEW reindex \in BOOLEAN, Start(reindex)
        PROVE  BackfillInv'
    <3>1. /\ bfpc = "off" /\ bfpc' = "target"
          /\ UNCHANGED <<targetId, curr, pending, results, backfillChan,
                         balpc>>
          /\ backfillCursor' \in {0, backfillCursor}
      BY <2>1 DEF Start, backfillLocals, balancefillVars, DInv, NotAhead
    <3>2. ResumeCovered'
      <4>1. CASE backfillCursor' = 0
        BY <1>0, <4>1 DEF ResumeCovered, ResumeAt
      <4>2. CASE backfillCursor' = backfillCursor
        BY <1>1, <3>1, <4>2 DEF BackfillInv, ResumeCovered, ResumeAt, Ids
      <4> QED
        BY <3>1, <4>1, <4>2
    <3>3. BatchCovered'
      BY <3>1 DEF BatchCovered
    <3> QED
      BY <1>2, <1>3, <3>1, <3>2, <3>3 DEF BackfillInv, Launched
  <2>2. CASE GetLastBlockId
    <3>1. /\ bfpc = "target" /\ bfpc' = "cursor" /\ targetId' = head
          /\ UNCHANGED <<pending, results, backfillCursor, backfillChan>>
          /\ balpc' = "signal"
      BY <2>2 DEF GetLastBlockId
    <3>2. ResumeCovered' /\ BatchCovered'
      BY <1>0, <1>1, <3>1 DEF BackfillInv, ResumeCovered, BatchCovered,
         ResumeAt, Ids
    <3>3. /\ \A b \in results' : b.id <= targetId'
          /\ \A n \in pending' : n <= targetId'
      BY <3>1 DEF DInv, BelowHead
    <3> QED
      BY <1>2, <1>3, <3>1, <3>2, <3>3 DEF BackfillInv, Launched
  <2>3. CASE BackfillSignal
    <3>1. UNCHANGED <<bfpc, targetId, curr, pending, results, backfillCursor>>
          /\ backfillChan
      BY <2>3 DEF BackfillSignal, backfillLocals
    <3> QED
      BY <1>2, <3>1 DEF BackfillInv, Launched
  <2> QED
    BY <1>4, <2>1, <2>2, <2>3 DEF CalmProcess
<1>5. CASE CalmBackfill /\ BackfillGoroutine
  <2>1. balpc' = balpc /\ bfpc # "done"
    BY <1>5
       DEF BackfillGoroutine, balancefillVars, CalmBackfill,
           GetBackfillCursor, UpToDate, FetchResult, InsertBlocks,
           InsertTransactions, InsertEvents, CommitBatch, UpdateBackfillCursor
  <2>2. ResumeCovered' /\ BatchCovered'
    BY <1>5, <2>1, BackfillCovered DEF BackfillInv
  <2>3. targetId' = targetId
    BY <1>5
       DEF CalmBackfill, GetBackfillCursor, UpToDate, FetchResult,
           InsertBlocks, InsertTransactions, InsertEvents, CommitBatch,
           UpdateBackfillCursor, backfillLocals
  <2>4. Launched' => bfpc' = "done"
    BY <1>5, <2>1
       DEF CalmBackfill, GetBackfillCursor, UpToDate, FetchResult,
           InsertBlocks, InsertTransactions, InsertEvents, CommitBatch,
           UpdateBackfillCursor, BackfillInv, Launched
  <2>5. ASSUME NEW first \in Nat
        PROVE  \A n \in first..BatchEnd(first) : n <= targetId
    BY <1>0 DEF BatchEnd
  <2>6. /\ \A b \in results' : b.id <= targetId
        /\ \A n \in pending' : n <= targetId
    <3>1. CASE GetBackfillCursor
      <4>1. ResumeAt \in Nat
        BY <1>0 DEF ResumeAt
      <4> QED
        BY <2>5, <3>1, <4>1 DEF GetBackfillCursor, StartBatch
    <3>2. CASE UpToDate
      BY <3>2 DEF UpToDate, backfillLocals, BackfillInv
    <3>3. ASSUME NEW n \in Height, FetchResult(n)
          PROVE  /\ \A b \in results' : b.id <= targetId
                 /\ \A k \in pending' : k <= targetId
      BY <3>3 DEF FetchResult, FetchBlock, NodeBlock, BackfillInv
    <3>4. CASE InsertBlocks \/ InsertTransactions \/ InsertEvents
               \/ CommitBatch
      BY <3>4 DEF InsertBlocks, InsertTransactions, InsertEvents, CommitBatch,
         backfillLocals, BackfillInv
    <3>5. CASE UpdateBackfillCursor
      <4>1. BatchEnd(curr) + 1 \in Nat
        BY <1>0 DEF BatchEnd
      <4>2. CASE BatchEnd(curr) < targetId
        BY <2>5, <3>5, <4>1, <4>2 DEF UpdateBackfillCursor, StartBatch
      <4>3. CASE ~(BatchEnd(curr) < targetId)
        BY <3>5, <4>3 DEF UpdateBackfillCursor, BackfillInv
      <4> QED
        BY <4>2, <4>3
    <3> QED
      BY <1>5, <3>1, <3>2, <3>3, <3>4, <3>5 DEF CalmBackfill
  <2> QED
    BY <1>2, <1>3, <2>1, <2>2, <2>3, <2>4, <2>6 DEF BackfillInv
<1> QED
  BY <1>4, <1>5

\* The other steps leave backfill alone.
LEMMA LeftAlone ==
    ASSUME CalmNext, IInv, DInv, Calm
    PROVE  \/ CalmProcess
           \/ CalmBackfill /\ BackfillGoroutine
           \/ UNCHANGED backfillVars /\ (Launched' => Launched)
<1> USE DEF Launched
<1>1. CASE Node
  BY <1>1 DEF Node, backfillVars, balancefillVars
<1>2. CASE SubscribeNewHead /\ SubscribeGoroutine
  BY <1>2 DEF SubscribeGoroutine, backfillVars, balancefillVars
<1>3. CASE CalmForwardfill /\ ForwardfillGoroutine
  BY <1>3 DEF ForwardfillGoroutine, backfillVars, balancefillVars
<1>4. CASE CalmBalancefill /\ BalancefillGoroutine
  BY <1>4 DEF BalancefillGoroutine, backfillVars, CalmBalancefill,
     GetBalancefillCursor, LeaveWait, GetLogs, BatchUpsertBalance,
     UpdateBalancefillCursor
<1>5. CASE UNCHANGED vars
  BY <1>5 DEF vars, backfillVars, balancefillVars
<1> QED
  BY <1>1, <1>2, <1>3, <1>4, <1>5 DEF CalmNext

LEMMA BackfillInvStep ==
    ASSUME QuietStart = TRUE, Lagging = FALSE, From <= InitHead,
           CalmNext, IInv, DInv, Calm, IInv', DInv', LineInv, BackfillInv,
           SteadyStep
    PROVE  BackfillInv'
<1>0. /\ head \in Nat /\ From \in Nat /\ InitHead \in Nat
      /\ Len(Line) \in Nat
      /\ \A i \in 1..Len(Line) : Line[i] \in Nat /\ Line[i] <= head
      /\ \A b \in db.blocks : b.id \in Nat /\ b.id <= head
      /\ ffId \in Nat
  BY SteadyTypes, DomainAssumption, FetcherAssumption, BackfillAssumption
     DEF Height
<1>1. CASE ChainMoves
  <2>1. /\ UNCHANGED <<bfpc, targetId, curr, pending, results, backfillCursor,
                       backfillChan, balpc, db, inserted>>
    BY <1>1
       DEF ChainMoves, databaseVars, backfillVars, backfillLocals,
           balancefillVars
  <2>2. head <= head' /\ head' \in Nat
    BY <1>1, ChainStep DEF ChainMoves, DInv
  <2>3. InitHead <= head'
    BY <1>0, <2>2 DEF BackfillInv
  <2>4. PICK first \in Nat : /\ NodeChange(first)
                             /\ \/ Announced(Line, Line', first, head')
                                \/ first = head + 1 /\ Same(Line, Line')
    BY <1>1 DEF ChainMoves
  <2>5. ASSUME bfpc # "done", NEW i \in 1..Len(Line')
        PROVE  /\ Line'[i] >= From
               /\ \A b \in db.blocks : b.id < Line'[i] \/ b.id <= targetId
    <3>1. first = head + 1 /\ first = head'
      BY <2>4, <2>5 DEF NodeChange
    <3>2. Len(Line') \in Nat
      BY <1>0, <2>4, <3>1 DEF Announced, Same
    <3>3. CASE i <= Len(Line)
      <4>1. i \in 1..Len(Line)
        BY <1>0, <3>2, <3>3
      <4>2. Line'[i] = Line[i]
        BY <2>4, <4>1 DEF Announced, Same
      <4> QED
        BY <2>5, <4>1, <4>2 DEF BackfillInv
    <3>4. CASE i > Len(Line)
      <4>1. Announced(Line, Line', first, head')
        BY <1>0, <2>4, <3>2, <3>4 DEF Same
      <4>2. i \in (Len(Line) + 1)..Len(Line') /\ Len(Line') = Len(Line) + 1
        BY <1>0, <3>1, <3>2, <3>4, <4>1 DEF Announced
      <4>3. Line'[i] = first + (i - Len(Line)) - 1
        BY <4>1, <4>2 DEF Announced
      <4>4. i = Len(Line) + 1 /\ i \in Nat
        BY <1>0, <4>2
      <4>5. Line'[i] = head + 1
        <5>1. head \in Nat /\ Len(Line) \in Nat
          BY <1>0
        <5>2. first + (i - Len(Line)) - 1 = first
          BY <4>4, <5>1
        <5> QED
          BY <3>1, <4>3, <5>2
      <4> QED
        BY <1>0, <4>5 DEF BackfillInv
    <3> QED
      BY <1>0, <3>2, <3>3, <3>4
  <2>6. (BatchCovered /\ ResumeCovered) => BatchCovered' /\ ResumeCovered'
    BY <2>1 DEF BatchCovered, ResumeCovered, ResumeAt, BatchEnd, Ids
  <2> QED
    BY <2>1, <2>3, <2>5, <2>6 DEF BackfillInv, Launched
<1>2. CASE BlockStored
  <2>1. /\ UNCHANGED backfillVars /\ head' = head /\ inserted' = inserted
        /\ UNCHANGED <<bfpc, targetId, pending, results, backfillChan, balpc>>
        /\ db'.blocks = db.blocks \cup {ffBlock} /\ ffBlock.id = ffId
    BY <1>2 DEF BlockStored, Insert, backfillVars, backfillLocals,
       balancefillVars, chainVars
  <2>2. ASSUME bfpc # "done"
        PROVE  BatchCovered' /\ ResumeCovered'
    BY <2>1, <2>2, CoveredGrow DEF BackfillInv
  <2>3. ASSUME bfpc # "done", NEW i \in 1..Len(Line')
        PROVE  /\ Line'[i] >= From
               /\ \A b \in db'.blocks : b.id < Line'[i] \/ b.id <= targetId
    <3>1. /\ i + 1 \in 1..Len(Line) /\ Line'[i] = Line[i + 1]
          /\ Line[i + 1] > ffId
      BY <1>2, <2>3, LineAfterCreate
    <3> QED
      BY <1>0, <2>1, <2>3, <3>1 DEF BackfillInv
  <2> QED
    BY <2>1, <2>2, <2>3 DEF BackfillInv, Launched
<1>3. CASE HeightVacated
  BY <1>3 DEF HeightVacated, BackfillInv, Launched, backfillVars,
     backfillLocals, balancefillVars, chainVars
<1>4. CASE BatchStored
  <2>1. /\ bfpc = "commit" /\ bfpc' = "advance" /\ head' = head
        /\ UNCHANGED <<targetId, pending, backfillChan, balpc>>
        /\ db'.blocks \subseteq db.blocks \cup results /\ results' = {}
        /\ Same(Line, Line')
    BY <1>4 DEF BatchStored, CommitBatch, WithInserted, balancefillVars,
       chainVars
  <2>2. BatchCovered' /\ ResumeCovered'
    BY <1>4, <2>1, BackfillCovered DEF BatchStored, BackfillInv
  <2> QED
    BY <2>1, <2>2 DEF BackfillInv, Launched, Same
<1>5. CASE NothingStored
  <2>1. CASE CalmProcess \/ (CalmBackfill /\ BackfillGoroutine)
    BY <1>5, <2>1, BackfillQuiet
  <2>2. CASE UNCHANGED backfillVars /\ (Launched' => Launched)
    <3>1. /\ db' = db /\ head' = head /\ Same(Line, Line')
          /\ UNCHANGED <<bfpc, targetId, curr, pending, results,
                         backfillCursor>>
          /\ inserted' = inserted
      BY <1>5, <2>2 DEF NothingStored, chainVars, backfillVars, backfillLocals
    <3>2. (BatchCovered /\ ResumeCovered) => BatchCovered' /\ ResumeCovered'
      BY <3>1 DEF BatchCovered, ResumeCovered, ResumeAt, BatchEnd, Ids
    <3> QED
      BY <2>2, <3>1, <3>2 DEF BackfillInv, Same
  <2> QED
    BY <2>1, <2>2, LeftAlone
<1> QED
  BY <1>1, <1>2, <1>3, <1>4, <1>5 DEF SteadyStep

-----------------------------------------------------------------------------
(* Once balancefill is launched, what is on the line is fresh or stored.     *)

OldStored ==
    Launched => \A i \in 1..Len(Line) : Fresh(Line[i]) \/ Line[i] \in Ids(db)

LEMMA OldStoredStep ==
    ASSUME QuietStart = TRUE, Lagging = FALSE, CalmNext, IInv, DInv, Calm,
           IInv', DInv', LineInv, StaleOnLine, BackfillInv, OldStored,
           SteadyStep
    PROVE  OldStored'
<1>0. /\ head \in Nat /\ From \in Nat /\ Depth \in Nat
      /\ Len(Line) \in Nat
      /\ \A i \in 1..Len(Line) : Line[i] \in Nat /\ Line[i] <= head
      /\ \A b \in db.blocks : b.id \in Nat /\ b.id <= head
      /\ ffId \in Nat
  BY SteadyTypes, DomainAssumption, BackfillAssumption DEF Height
<1>1. CASE ChainMoves
  <2>1. db' = db /\ Launched' = Launched
    BY <1>1
       DEF ChainMoves, databaseVars, backfillVars, balancefillVars, Launched
  <2>2. ASSUME Launched, NEW i \in 1..Len(Line')
        PROVE  Fresh(Line[i])' \/ Line'[i] \in Ids(db)
    <3>1. CASE i \in 1..Len(Line) /\ Line'[i] = Line[i]
      BY <2>1, <2>2, <3>1 DEF OldStored, Fresh
    <3>2. CASE Line'[i] \in Nat /\ Line'[i] + Depth > head
      BY <1>0, <2>1, <3>2 DEF Fresh
    <3> QED
      BY <1>1, <3>1, <3>2, LineAfterNode
  <2> QED
    BY <2>1, <2>2 DEF OldStored
<1>2. CASE BlockStored
  <2>1. /\ Launched' = Launched
        /\ db'.blocks = db.blocks \cup {ffBlock} /\ ffBlock.id = ffId
    BY <1>2 DEF BlockStored, Insert, backfillVars, balancefillVars, Launched
  <2>2. ASSUME Launched, NEW i \in 1..Len(Line')
        PROVE  Fresh(Line[i])' \/ Line'[i] \in Ids(db')
    <3>1. /\ i + 1 \in 1..Len(Line) /\ Line'[i] = Line[i + 1]
          /\ Line[i + 1] + Depth > ffId
      BY <1>2, LineAfterCreate
    <3>2. Fresh(Line[i + 1]) \/ Line[i + 1] \in Ids(db)
      BY <2>2, <3>1 DEF OldStored
    <3> QED
      BY <2>1, <3>1, <3>2 DEF Fresh, Ids
  <2> QED
    BY <2>1, <2>2 DEF OldStored
<1>3. CASE HeightVacated
  <2>1. db'.blocks \subseteq db.blocks /\ Same(Line, Line')
    BY <1>3 DEF HeightVacated
  <2> QED
    BY <1>3, <2>1, VacatedFresh DEF Same, OldStored, Fresh
<1>4. CASE BatchStored
  <2>1. ~Launched /\ Launched' = Launched
    BY <1>4 DEF BatchStored, CommitBatch, BackfillInv, Launched,
       balancefillVars
  <2> QED
    BY <2>1 DEF OldStored
<1>5. CASE NothingStored
  <2>1. db' = db /\ Same(Line, Line')
    BY <1>5 DEF NothingStored
  <2>2. CASE Launched
    BY <2>1, <2>2 DEF OldStored, Same, Fresh
  <2>3. CASE ~Launched /\ Launched'
    <3>1. CalmBackfill /\ BackfillGoroutine
      BY <2>3, LeftAlone DEF Launched, CalmProcess, Start, GetLastBlockId,
         BackfillSignal, balancefillVars
    <3>2. UpdateBackfillCursor /\ ~(BatchEnd(curr) < targetId)
      BY <2>3, <3>1
         DEF Launched, CalmBackfill, BackfillGoroutine, GetBackfillCursor,
             UpToDate, FetchResult, InsertBlocks, InsertTransactions,
             InsertEvents, CommitBatch, UpdateBackfillCursor, balancefillVars
    <3>3. bfpc = "advance" /\ \A n \in From..BatchEnd(curr) : n \in Ids(db)
      BY <3>2 DEF UpdateBackfillCursor, BackfillInv, BatchCovered
    <3>4. ASSUME NEW i \in 1..Len(Line), ~Fresh(Line[i])
          PROVE  Line[i] \in Ids(db)
      <4>1. PICK b \in db.blocks : ~(Line[i] + Depth > b.id)
        BY <3>4 DEF Fresh
      <4>2. Line[i] >= From /\ (b.id < Line[i] \/ b.id <= targetId)
        BY <3>3 DEF BackfillInv
      <4>3. targetId \in Nat /\ BatchEnd(curr) \in Nat
        BY DomainAssumption, BackfillAssumption
           DEF IInv, TypeOK, BackfillTypeOK, BatchEnd, Height
      <4>4. Line[i] \in From..BatchEnd(curr)
        BY <1>0, <3>2, <4>1, <4>2, <4>3
      <4> QED
        BY <3>3, <4>4
    <3> QED
      BY <2>1, <3>4 DEF OldStored, Same, Fresh
  <2> QED
    BY <2>2, <2>3 DEF OldStored
<1> QED
  BY <1>1, <1>2, <1>3, <1>4, <1>5 DEF SteadyStep

-----------------------------------------------------------------------------
(* A block that is stored has all its logs in the table, under its own       *)
(* height or another, unless only fresh heights remain to be stored.         *)

AllLogs == \A b \in db.blocks : LogsOf[b] \subseteq LogKeys(db)

FullInv ==
    AllLogs \/ (bfpc = "done" /\ \A i \in 1..Len(Line) : Fresh(Line[i]))

LEMMA InsertAllLogs ==
    ASSUME NEW S \in SUBSET Block, AllLogs, db' = Insert(db, S)
    PROVE  AllLogs'
<1>1. /\ db'.blocks = db.blocks \cup S
      /\ LogKeys(db) \subseteq LogKeys(db')
  BY DEF Insert, LogKeys
<1>2. \A b \in S : LogsOf[b] \subseteq LogKeys(db')
  BY InsertStoresLogs
<1> QED
  BY <1>1, <1>2 DEF AllLogs

LEMMA FullInvStep ==
    ASSUME QuietStart = TRUE, IInv, DInv, IInv', DInv', LineInv, StaleOnLine,
           BackfillInv, FullInv, SteadyStep
    PROVE  FullInv'
<1>0. /\ head \in Nat /\ Depth \in Nat /\ Len(Line) \in Nat
      /\ \A i \in 1..Len(Line) : Line[i] \in Nat
      /\ \A b \in db.blocks : b.id \in Nat /\ b.id <= head
      /\ ffBlock \in Block
  BY SteadyTypes
<1>1. CASE ChainMoves
  <2>1. db' = db /\ bfpc' = bfpc
    BY <1>1 DEF ChainMoves, databaseVars, backfillVars
  <2>2. ASSUME \A i \in 1..Len(Line) : Fresh(Line[i]), NEW i \in 1..Len(Line')
        PROVE  Fresh(Line[i])'
    <3>1. CASE i \in 1..Len(Line) /\ Line'[i] = Line[i]
      BY <2>1, <2>2, <3>1 DEF Fresh
    <3>2. CASE Line'[i] \in Nat /\ Line'[i] + Depth > head
      BY <1>0, <2>1, <3>2 DEF Fresh
    <3> QED
      BY <1>1, <3>1, <3>2, LineAfterNode
  <2> QED
    BY <2>1, <2>2 DEF FullInv, AllLogs
<1>2. CASE BlockStored
  <2>1. /\ db' = Insert(db, {ffBlock}) /\ bfpc' = bfpc
        /\ ffBlock.id = ffId
    BY <1>2 DEF BlockStored, backfillVars
  <2>2. CASE AllLogs
    <3>1. PICK S \in SUBSET Block : S = {ffBlock}
      BY <1>0
    <3>2. AllLogs'
      BY <2>1, <2>2, <3>1, InsertAllLogs
    <3> QED
      BY <3>2 DEF FullInv
  <2>3. CASE bfpc = "done" /\ \A i \in 1..Len(Line) : Fresh(Line[i])
    <3>1. db'.blocks = db.blocks \cup {ffBlock}
      BY <2>1 DEF Insert
    <3>2. ASSUME NEW i \in 1..Len(Line')
          PROVE  Fresh(Line[i])'
      <4>1. /\ i + 1 \in 1..Len(Line) /\ Line'[i] = Line[i + 1]
            /\ Line[i + 1] + Depth > ffId
        BY <1>2, LineAfterCreate
      <4> QED
        BY <2>1, <2>3, <3>1, <4>1 DEF Fresh
    <3> QED
      BY <2>1, <2>3, <3>2 DEF FullInv
  <2> QED
    BY <2>2, <2>3 DEF FullInv
<1>3. CASE HeightVacated
  <2>1. /\ db'.blocks \subseteq db.blocks /\ Same(Line, Line')
        /\ bfpc' = "done"
    BY <1>3 DEF HeightVacated, backfillVars
  <2> QED
    BY <1>3, <2>1, VacatedFresh DEF Same, FullInv, Fresh
<1>4. CASE BatchStored
  <2>1. /\ db' = WithInserted /\ bfpc = "commit"
        /\ inserted.blocks \subseteq results
        /\ \A b \in results :
              LogsOf[b] \subseteq LogKeys(db) \cup LogKeys(inserted)
    BY <1>4 DEF BatchStored, CommitBatch
  <2>2. /\ db'.blocks = db.blocks \cup inserted.blocks
        /\ db'.events = db.events \cup inserted.events
    BY <2>1 DEF WithInserted
  <2>3. LogKeys(db') = LogKeys(db) \cup LogKeys(inserted)
    BY <2>2 DEF LogKeys
  <2>4. AllLogs
    BY <2>1 DEF FullInv
  <2>5. AllLogs'
    BY <2>1, <2>2, <2>3, <2>4 DEF AllLogs
  <2> QED
    BY <2>5 DEF FullInv
<1>5. CASE NothingStored
  BY <1>5 DEF NothingStored, Same, FullInv, AllLogs, Fresh
<1> QED
  BY <1>1, <1>2, <1>3, <1>4, <1>5 DEF SteadyStep

-----------------------------------------------------------------------------
(* Nothing is stored or deleted below the height balancefill has got to.     *)

Floor ==
    balancefillCursor + (IF balpc \in {"read", "upsert", "advance"} THEN 1
                                                                    ELSE 0)

FloorInv ==
    /\ \A i \in 1..Len(Line) : Fresh(Line[i]) => Line[i] >= Floor
    /\ Floor = 0 \/ Floor + Depth <= head + 1
    /\ ~Launched => Floor = 0

LEMMA FloorType == IInv => Floor \in Nat /\ balancefillCursor \in Nat
BY DomainAssumption DEF IInv, TypeOK, BalancefillTypeOK, Height, Floor

\* Only a step of balancefill moves the floor.
LEMMA FloorMoves ==
    ASSUME CalmNext, IInv, DInv, Calm, BackfillInv, FloorInv
    PROVE  \/ Floor' = Floor /\ (Launched => Launched')
           \/ LeaveWait /\ BalancefillGoroutine
<1>0. balancefillCursor \in Nat
  BY FloorType
<1>1. CASE CalmProcess
  BY <1>1 DEF CalmProcess, Start, GetLastBlockId, BackfillSignal,
     balancefillVars, Floor, Launched, FloorInv, BackfillInv
<1>2. CASE Node
  BY <1>2 DEF Node, backfillVars, balancefillVars, Floor, Launched
<1>3. CASE SubscribeNewHead /\ SubscribeGoroutine
  BY <1>3 DEF SubscribeGoroutine, backfillVars, balancefillVars, Floor,
     Launched
<1>4. CASE CalmBackfill /\ BackfillGoroutine
  BY <1>4
     DEF BackfillGoroutine, balancefillVars, CalmBackfill, GetBackfillCursor,
         UpToDate, FetchResult, InsertBlocks, InsertTransactions,
         InsertEvents, CommitBatch, UpdateBackfillCursor, Floor, Launched
<1>5. CASE CalmForwardfill /\ ForwardfillGoroutine
  BY <1>5 DEF ForwardfillGoroutine, backfillVars, balancefillVars, Floor,
     Launched
<1>6. CASE CalmBalancefill /\ BalancefillGoroutine
  BY <1>0, <1>6 DEF BalancefillGoroutine, backfillVars, CalmBalancefill,
     GetBalancefillCursor, LeaveWait, GetLogs, BatchUpsertBalance,
     UpdateBalancefillCursor, Floor, Launched
<1>7. CASE UNCHANGED vars
  BY <1>7 DEF vars, backfillVars, balancefillVars, Floor, Launched
<1> QED
  BY <1>1, <1>2, <1>3, <1>4, <1>5, <1>6, <1>7 DEF CalmNext

LEMMA FloorInvStep ==
    ASSUME QuietStart = TRUE, Depth <= Lag + 1, CalmNext, IInv, DInv, Calm,
           IInv', DInv', LineInv, StaleOnLine, BackfillInv, FloorInv,
           SteadyStep
    PROVE  FloorInv'
<1>0. /\ head \in Nat /\ Depth \in Nat /\ Lag \in Nat /\ Len(Line) \in Nat
      /\ \A i \in 1..Len(Line) : Line[i] \in Nat
      /\ \A b \in db.blocks : b.id \in Nat /\ b.id <= head
      /\ Floor \in Nat /\ balancefillCursor \in Nat
  BY SteadyTypes, FloorType
<1>1. CASE ChainMoves
  <2>1. db' = db /\ Floor' = Floor /\ Launched' = Launched
    BY <1>1
       DEF ChainMoves, databaseVars, backfillVars, balancefillVars, Floor,
           Launched
  <2>2. head <= head' /\ head' \in Nat
    BY <1>1, ChainStep DEF ChainMoves, DInv
  <2>3. ASSUME NEW i \in 1..Len(Line'), Fresh(Line[i])'
        PROVE  Line'[i] >= Floor
    <3>1. CASE i \in 1..Len(Line) /\ Line'[i] = Line[i]
      BY <2>1, <2>3, <3>1 DEF FloorInv, Fresh
    <3>2. CASE Line'[i] \in Nat /\ Line'[i] + Depth > head
      BY <1>0, <3>2 DEF FloorInv
    <3> QED
      BY <1>1, <3>1, <3>2, LineAfterNode
  <2>4. Floor' = 0 \/ Floor' + Depth <= head' + 1
    <3>1. Floor = 0 \/ Floor + Depth <= head + 1
      BY DEF FloorInv
    <3>2. PICK h \in Nat : h = head'
      BY <2>2
    <3>3. head \in Nat /\ head <= h /\ Floor \in Nat /\ Depth \in Nat
      BY <1>0, <2>2, <3>2
    <3>4. Floor = 0 \/ Floor + Depth <= h + 1
      BY <3>1, <3>3
    <3> QED
      BY <2>1, <3>2, <3>4
  <2>5. ~Launched' => Floor' = 0
    BY <2>1 DEF FloorInv
  <2>6. \A i \in 1..Len(Line') : Fresh(Line[i])' => Line'[i] >= Floor'
    BY <2>1, <2>3
  <2> QED
    BY <2>4, <2>5, <2>6 DEF FloorInv
<1>2. CASE BlockStored
  <2>1. /\ db'.blocks = db.blocks \cup {ffBlock} /\ head' = head
        /\ Floor' = Floor /\ Launched' = Launched
    BY <1>2 DEF BlockStored, Insert, chainVars, backfillVars,
       balancefillVars, Floor, Launched
  <2>2. ASSUME NEW i \in 1..Len(Line'), Fresh(Line[i])'
        PROVE  Line'[i] >= Floor
    <3>1. i + 1 \in 1..Len(Line) /\ Line'[i] = Line[i + 1]
      BY <1>2, LineAfterCreate
    <3> QED
      BY <2>1, <2>2, <3>1 DEF FloorInv, Fresh
  <2> QED
    BY <2>1, <2>2 DEF FloorInv
<1>3. CASE HeightVacated
  <2>1. /\ head' = head /\ Floor' = Floor /\ Launched' = Launched
        /\ Same(Line, Line')
    BY <1>3 DEF HeightVacated, chainVars, backfillVars, balancefillVars,
       Floor, Launched
  <2> QED
    BY <1>3, <2>1, VacatedFresh DEF Same, FloorInv
<1>4. CASE BatchStored
  <2>1. /\ db.blocks \subseteq db'.blocks /\ head' = head
        /\ Floor' = Floor /\ Launched' = Launched /\ Same(Line, Line')
    BY <1>4 DEF BatchStored, CommitBatch, WithInserted, chainVars,
       balancefillVars, Floor, Launched
  <2> QED
    BY <2>1 DEF Same, FloorInv, Fresh
<1>5. CASE NothingStored
  <2>1. db' = db /\ head' = head /\ Same(Line, Line')
    BY <1>5 DEF NothingStored, chainVars
  <2>2. CASE Floor' = Floor /\ (Launched => Launched')
    BY <2>1, <2>2 DEF Same, FloorInv, Fresh
  <2>3. CASE LeaveWait /\ BalancefillGoroutine
    <3>1. /\ Floor = balancefillCursor /\ Floor' = balancefillCursor + 1
          /\ Launched'
      BY <1>0, <2>3 DEF LeaveWait, Floor, Launched
    <3>2. PICK b \in db.blocks : b.id > balancefillCursor + Lag
      BY <2>3 DEF LeaveWait, Finalized, MaxIndexedBlockAbove, Ids
    <3>3. Floor' + Depth <= head + 1
      BY <1>0, <3>1, <3>2
    <3>4. ASSUME NEW i \in 1..Len(Line), Fresh(Line[i])
          PROVE  Line[i] >= Floor'
      <4>1. Line[i] + Depth > b.id
        BY <3>4 DEF Fresh
      <4> QED
        BY <1>0, <3>1, <3>2, <4>1
    <3> QED
      BY <2>1, <3>1, <3>3, <3>4 DEF Same, FloorInv, Fresh
  <2> QED
    BY <2>2, <2>3, FloorMoves
<1> QED
  BY <1>1, <1>2, <1>3, <1>4, <1>5 DEF SteadyStep

\* A row of table events below the floor neither comes nor goes.
LEMMA EventsBelow ==
    ASSUME IInv, DInv, LineInv, StaleOnLine, BackfillInv, OldStored, FullInv,
           FloorInv, SteadyStep, NEW r \in LogRow, r.block_id < Floor
    PROVE  r \in db'.events <=> r \in db.events
<1>0. /\ Len(Line) \in Nat /\ r.block_id \in Nat /\ Floor \in Nat
      /\ ffId \in Nat
  BY SteadyTypes, FloorType, DomainAssumption DEF LogRow, Height
<1>1. CASE BlockStored
  <2>1. /\ db' = Insert(db, {ffBlock}) /\ ffBlock.id = ffId
        /\ Len(Line) >= 1 /\ Line[1] = ffId
        /\ \A c \in db.blocks : c.id = ffId => c = ffBlock
    BY <1>1 DEF BlockStored
  <2>2. ASSUME r \in NewLogRows(db, {ffBlock}) PROVE FALSE
    <3>1. r.block_id = ffId /\ r.log \in LogsOf[ffBlock]
          /\ r.log \notin LogKeys(db)
      BY <2>1, <2>2 DEF NewLogRows
    <3>2. ~Fresh(Line[1])
      BY <1>0, <2>1, <3>1 DEF FloorInv
    <3>3. AllLogs
      BY <1>0, <2>1, <3>2 DEF FullInv
    <3>4. Launched
      BY <1>0 DEF FloorInv
    <3>5. ffId \in Ids(db)
      BY <1>0, <2>1, <3>2, <3>4 DEF OldStored
    <3>6. ffBlock \in db.blocks
      BY <2>1, <3>5 DEF Ids
    <3> QED
      BY <3>1, <3>3, <3>6 DEF AllLogs
  <2> QED
    BY <2>1, <2>2 DEF Insert
<1>2. CASE HeightVacated
  <2>1. /\ db'.events = db.events \ EventsAt(db, ffId)
        /\ Len(Line) >= 1 /\ Line[1] = ffId
    BY <1>2 DEF HeightVacated
  <2>2. ffId >= Floor
    BY <1>0, <1>2, <2>1, VacatedFresh DEF FloorInv
  <2> QED
    BY <1>0, <2>1, <2>2 DEF EventsAt
<1>3. CASE BatchStored
  <2>1. ~Launched
    BY <1>3 DEF BatchStored, CommitBatch, BackfillInv
  <2> QED
    BY <1>0, <2>1 DEF FloorInv
<1>4. CASE ChainMoves \/ NothingStored
  BY <1>4 DEF ChainMoves, NothingStored, databaseVars
<1> QED
  BY <1>1, <1>2, <1>3, <1>4 DEF SteadyStep

-----------------------------------------------------------------------------
(* What balancefill has read, and what it has added up.                      *)

\* The transfers it holds are those stored at its height; those it has passed
\* were added once.
BalanceInv ==
    /\ balpc = "upsert" =>
          \A l \in Transfer :
              l \in logs <=>
                  [log |-> l, block_id |-> balancefillCursor] \in db.events
    /\ \A l \in Transfer : ledger[l] = Credited(l)

LEMMA BalancefillSteps ==
    ASSUME IInv, Calm, UniqueLogs, BalanceInv,
           CalmBalancefill, BalancefillGoroutine
    PROVE  BalanceInv'
<1>0. /\ db' = db /\ balancefillCursor \in Nat /\ logs \subseteq Transfer
      /\ \A l \in Transfer : ledger[l] \in Nat
      /\ \A r \in db.events : r \in LogRow /\ r.block_id \in Nat
  BY DomainAssumption
     DEF IInv, TypeOK, BalancefillTypeOK, RepositoryTypeOK, Store, LogRow,
         Height, CalmBalancefill, GetBalancefillCursor, LeaveWait, GetLogs,
         BatchUpsertBalance, UpdateBalancefillCursor
<1> DEFINE Row(l) == [log |-> l, block_id |-> balancefillCursor]
\* Moving past the height passes what is stored there.
<1>1. ASSUME NEW l \in Transfer,
             BalancedBelow = balancefillCursor,
             BalancedBelow' = balancefillCursor + 1
      PROVE  Passed(l)' <=> Passed(l) \/ Row(l) \in db.events
  <2>1. ASSUME NEW r \in db.events, r.log = l
        PROVE  /\ r.block_id < BalancedBelow' <=>
                    \/ r.block_id < BalancedBelow
                    \/ r.block_id = balancefillCursor
               /\ r.block_id = balancefillCursor => r = Row(l)
    BY <1>0, <1>1, <2>1 DEF LogRow
  <2>2. Passed(l)' => Passed(l) \/ Row(l) \in db.events
    BY <1>0, <2>1 DEF Passed
  <2>3. Passed(l) => Passed(l)'
    BY <1>0, <2>1 DEF Passed
  <2>4. Row(l) \in db.events => Passed(l)'
    BY <1>0, <1>1 DEF Passed
  <2> QED
    BY <2>2, <2>3, <2>4
<1>2. CASE GetBalancefillCursor \/ LeaveWait
  <2>1. /\ balpc' # "upsert" /\ ledger' = ledger
        /\ BalancedBelow' = BalancedBelow
    BY <1>2 DEF GetBalancefillCursor, LeaveWait, BalancedBelow
  <2> QED
    BY <1>0, <2>1 DEF BalanceInv, Credited, Passed
<1>3. CASE GetLogs
  <2>1. /\ logs' = {l \in Transfer : Row(l) \in db.events}
        /\ balpc = "read" /\ ledger' = ledger
        /\ balancefillCursor' = balancefillCursor
        /\ balpc' = IF logs' = {} THEN "advance" ELSE "upsert"
    BY <1>3 DEF GetLogs, GetLogsByTopic
  <2>2. CASE logs' = {}
    <3>1. /\ BalancedBelow = balancefillCursor
          /\ BalancedBelow' = balancefillCursor + 1
      BY <1>0, <2>1, <2>2 DEF BalancedBelow
    <3>2. \A l \in Transfer : Row(l) \notin db.events
      BY <2>1, <2>2
    <3>3. \A l \in Transfer : Passed(l)' <=> Passed(l)
      BY <1>1, <3>1, <3>2
    <3> QED
      BY <2>1, <2>2, <3>3 DEF BalanceInv, Credited
  <2>3. CASE logs' # {}
    <3>1. BalancedBelow' = BalancedBelow
      BY <2>1, <2>3 DEF BalancedBelow
    <3> QED
      BY <1>0, <2>1, <3>1 DEF BalanceInv, Credited, Passed
  <2> QED
    BY <2>2, <2>3
<1>4. CASE BatchUpsertBalance
  <2>1. /\ balpc = "upsert" /\ balpc' = "advance"
        /\ balancefillCursor' = balancefillCursor
        /\ ledger' = [l \in Transfer |-> IF l \in logs THEN ledger[l] + 1
                                                       ELSE ledger[l]]
    BY <1>4 DEF BatchUpsertBalance
  <2>2. /\ BalancedBelow = balancefillCursor
        /\ BalancedBelow' = balancefillCursor + 1
    BY <1>0, <2>1 DEF BalancedBelow
  <2>3. ASSUME NEW l \in Transfer
        PROVE  ledger'[l] = Credited(l)'
    <3>1. l \in logs <=> Row(l) \in db.events
      BY <2>1 DEF BalanceInv
    <3>2. Passed(l)' <=> Passed(l) \/ l \in logs
      BY <1>1, <2>2, <3>1
    <3>3. l \in logs => ~Passed(l)
      <4>1. ASSUME NEW r \in db.events, r.log = l, l \in logs
            PROVE  r.block_id = balancefillCursor
        BY <3>1, <4>1 DEF UniqueLogs
      <4> QED
        BY <1>0, <2>2, <4>1 DEF Passed
    <3>4. ledger[l] = Credited(l) /\ ledger[l] \in Nat
      BY <1>0 DEF BalanceInv
    <3>5. ledger'[l] = IF l \in logs THEN ledger[l] + 1 ELSE ledger[l]
      BY <2>1
    <3>6. CASE l \in logs
      BY <3>2, <3>3, <3>4, <3>5, <3>6 DEF Credited
    <3>7. CASE l \notin logs
      BY <3>2, <3>4, <3>5, <3>7 DEF Credited
    <3> QED
      BY <3>6, <3>7
  <2> QED
    BY <2>1, <2>3 DEF BalanceInv
<1>5. CASE UpdateBalancefillCursor
  <2>1. /\ balpc' = "wait" /\ ledger' = ledger
        /\ BalancedBelow' = BalancedBelow
    BY <1>0, <1>5 DEF UpdateBalancefillCursor, BalancedBelow
  <2> QED
    BY <1>0, <2>1 DEF BalanceInv, Credited, Passed
<1> QED
  BY <1>2, <1>3, <1>4, <1>5 DEF CalmBalancefill

LEMMA BalanceInvStep ==
    ASSUME CalmNext, IInv, DInv, Calm, LineInv, StaleOnLine, BackfillInv,
           OldStored, FullInv, FloorInv, UniqueLogs, BalanceInv, SteadyStep,
           IInv'
    PROVE  BalanceInv'
<1>1. CASE CalmBalancefill /\ BalancefillGoroutine
  BY <1>1, BalancefillSteps
<1>2. CASE ~(CalmBalancefill /\ BalancefillGoroutine)
  <2>0. balancefillCursor \in Nat
    BY FloorType
  <2>1. /\ UNCHANGED <<logs, balancefillCursor, ledger>>
        /\ \/ balpc' = balpc
           \/ balpc \in {"off", "signal"} /\ balpc' \in {"signal", "cursor"}
    BY <1>2 DEF CalmNext, CalmProcess, Start, GetLastBlockId, BackfillSignal,
       Node, SubscribeGoroutine, BackfillGoroutine, ForwardfillGoroutine,
       balancefillVars, vars, BackfillInv, Launched
  <2>2. /\ BalancedBelow' = BalancedBelow /\ BalancedBelow <= Floor
        /\ balpc' = "upsert" => balpc = "upsert" /\ balancefillCursor < Floor
    BY <2>0, <2>1 DEF BalancedBelow, Floor
  <2>3. /\ \A r \in db.events : r \in LogRow /\ r.block_id \in Nat
        /\ \A r \in db'.events : r \in LogRow /\ r.block_id \in Nat
        /\ BalancedBelow \in Nat /\ Floor \in Nat
    BY <2>0, FloorType, DomainAssumption
       DEF IInv, TypeOK, RepositoryTypeOK, Store, LogRow, Height,
           BalancedBelow
  <2>4. ASSUME NEW l \in Transfer
        PROVE  Passed(l)' <=> Passed(l)
    <3>1. \A r \in LogRow : r.block_id \in Nat /\ r.block_id < BalancedBelow
                            => (r \in db'.events <=> r \in db.events)
      BY <2>2, <2>3, EventsBelow
    <3> QED
      BY <2>2, <2>3, <3>1 DEF Passed
  <2>5. ASSUME balpc' = "upsert", NEW l \in Transfer
        PROVE  l \in logs' <=>
                 [log |-> l, block_id |-> balancefillCursor'] \in db'.events
    <3>1. PICK r : r = [log |-> l, block_id |-> balancefillCursor]
      OBVIOUS
    <3>2. r \in LogRow /\ r.block_id < Floor
      BY <2>2, <2>5, <3>1, BalancefillAssumption, DomainAssumption
         DEF LogRow, IInv, TypeOK, BalancefillTypeOK
    <3>3. r \in db'.events <=> r \in db.events
      BY <3>2, EventsBelow
    <3> QED
      BY <2>1, <2>2, <2>5, <3>1, <3>3 DEF BalanceInv
  <2> QED
    BY <2>1, <2>4, <2>5 DEF BalanceInv, Credited
<1> QED
  BY <1>1, <1>2

-----------------------------------------------------------------------------
SteadyInv ==
    /\ Calm /\ OpenInv /\ LineInv /\ StaleOnLine /\ BackfillInv
    /\ OldStored /\ FullInv
    /\ FloorInv /\ UniqueLogs /\ BalanceInv

LEMMA InitSteadyInv == Init => SteadyInv
<1> SUFFICES ASSUME Init PROVE SteadyInv
  OBVIOUS
<1>1. /\ ~up /\ ~cancelled /\ sub = "off" /\ headers = <<>> /\ head = InitHead
      /\ db = EmptyStore /\ bfpc = "off" /\ targetId = 0 /\ pending = {}
      /\ results = {} /\ backfillCursor = 0 /\ backfillChan = FALSE
      /\ ffpc = "off" /\ balpc = "off" /\ balancefillCursor = 0
      /\ ledger = [l \in Transfer |-> 0] /\ inserted = EmptyStore
  BY DEF Init, GroupInit, FetcherInit, RepositoryInit, TransactionsInit,
         BackfillInit, ForwardfillInit, BalancefillInit
<1>2. ~Handling /\ ffpc \notin Candidate
  BY <1>1 DEF Handling, Candidate, Deleting
<1>3. Line = <<>> /\ Len(Line) = 0
  BY <1>1, <1>2 DEF Line
<1>4. LineInv /\ StaleOnLine /\ OldStored
  BY <1>1, <1>2, <1>3 DEF LineInv, StaleOnLine, OldStored, EmptyStore
<1>5. ~Launched /\ Floor = 0
  BY <1>1 DEF Launched, Floor
<1>6. BackfillInv
  <2>1. BatchCovered
    BY <1>1 DEF BatchCovered
  <2>2. ResumeCovered
    BY <1>1, BackfillAssumption, DomainAssumption
       DEF ResumeCovered, ResumeAt, Height
  <2>3. InitHead \in Nat
    BY FetcherAssumption, DomainAssumption DEF Height
  <2>4. \A b \in results : b.id <= targetId
    BY <1>1
  <2> QED
    BY <1>1, <1>3, <1>5, <2>1, <2>2, <2>3, <2>4 DEF BackfillInv, EmptyStore
<1>7. FullInv /\ FloorInv
  BY <1>1, <1>3, <1>5 DEF FullInv, AllLogs, EmptyStore, FloorInv
<1>8. UniqueLogs /\ BalanceInv
  <2>1. db.events = {} /\ inserted.events = {} /\ balpc # "upsert"
    BY <1>1 DEF EmptyStore
  <2>2. \A l \in Transfer : ledger[l] = 0 /\ ~Passed(l)
    BY <1>1, <2>1 DEF Passed
  <2>3. UniqueLogs
    BY <2>1 DEF UniqueLogs
  <2>4. \A l \in Transfer : ledger[l] = Credited(l)
    BY <2>2 DEF Credited
  <2> QED
    BY <2>1, <2>3, <2>4 DEF BalanceInv
<1>9. OpenInv
  BY <1>1 DEF OpenInv
<1> QED
  BY <1>4, <1>6, <1>7, <1>8, <1>9, InitCalm DEF SteadyInv

LEMMA NextSteadyInv ==
    ASSUME QuietStart = TRUE, Lagging = FALSE, Faultless, Depth <= Lag + 1,
           From <= InitHead
    PROVE  /\ IInv /\ HInv /\ DownIsOff /\ DInv /\ SteadyInv /\ [Next]_vars
           => SteadyInv'
<1> SUFFICES ASSUME IInv, HInv, DownIsOff, DInv, SteadyInv, [Next]_vars
             PROVE  SteadyInv'
  OBVIOUS
<1> USE DEF SteadyInv
<1>1. IInv' /\ DInv' /\ Calm' /\ OpenInv' /\ UniqueLogs'
  BY NextIInv, NextDInv, NextCalm, OpenInvStep, UniqueLogsStep
<1>2. CalmNext /\ SteadyStep
  BY CalmSteps, StepKinds DEF SteadyStep
<1>3. LineInv' /\ StaleOnLine'
  BY <1>1, <1>2, LineInvStep, StaleOnLineStep
<1>4. BackfillInv' /\ OldStored'
  BY <1>1, <1>2, BackfillInvStep, OldStoredStep
<1>5. FullInv' /\ FloorInv'
  BY <1>1, <1>2, FullInvStep, FloorInvStep
<1>6. BalanceInv'
  BY <1>1, <1>2, BalanceInvStep
<1> QED
  BY <1>1, <1>3, <1>4, <1>5, <1>6

\* On a chain that is quiet while the indexer starts, and as long as nothing
\* fails, wallet_balance is the sum of the stored transfers of the heights that
\* balancefill has passed, each counted once, however the chain is reorganised
\* meanwhile, and however far forwardfill is behind: provided that no
\* reorganisation is deeper than lagFinalized + 1 blocks, and that the first
\* height to index existed when the indexer was deployed.
THEOREM BalancesAreExact ==
    ASSUME QuietStart = TRUE, Lagging = FALSE, Faultless, Depth <= Lag + 1,
           From <= InitHead
    PROVE  Safety => []BalancesExact
<1>1. SteadyInv => BalancesExact
  <2> SUFFICES ASSUME UniqueLogs, BalanceInv, NEW l \in Transfer
               PROVE  ledger[l] = Cardinality(
                          {r \in db.events : r.log = l
                                             /\ r.block_id < BalancedBelow})
    BY DEF SteadyInv, BalancesExact
  <2> DEFINE S == {r \in db.events : r.log = l /\ r.block_id < BalancedBelow}
  <2>1. CASE Passed(l)
    <3>1. PICK r \in db.events : r.log = l /\ r.block_id < BalancedBelow
      BY <2>1 DEF Passed
    <3>2. S = {r}
      BY <3>1 DEF UniqueLogs
    <3>3. Cardinality(S) = 1
      BY <3>2, FS_Singleton
    <3> QED
      BY <2>1, <3>3 DEF BalanceInv, Credited
  <2>2. CASE ~Passed(l)
    <3>1. S = {}
      BY <2>2 DEF Passed
    <3>2. Cardinality(S) = 0
      BY <3>1, FS_EmptySet
    <3> QED
      BY <2>2, <3>2 DEF BalanceInv, Credited
  <2> QED
    BY <2>1, <2>2
<1>2. Init => SteadyInv
  BY InitSteadyInv
<1> QED
  BY <1>1, <1>2, InitIInv, NextIInv, InitHInv, NextHInv, InitDown, NextDown,
     InitDInv, NextDInv, NextSteadyInv, PTL
     DEF Safety
=============================================================================
