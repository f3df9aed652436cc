------------------------- MODULE IndexerProperties --------------------------
(* What cmd/indexer should do, as properties of Indexer.  Which hold under   *)
(* which assumptions is what the runs and the theorems say; see README.md.   *)
EXTENDS Indexer, Functions

-----------------------------------------------------------------------------
(* The database.                                                             *)

\* A stored block has all its transactions and logs among the rows of its
\* height, whatever was deleted and stored again before, although ON CONFLICT
\* DO NOTHING drops rows whose key exists and statements of the two writers
\* interleave.
StoredBlockComplete ==
    \A b \in db.blocks :
        /\ TxsOf[b] \subseteq TxHashes([txs |-> TxsAt(db, b.id)])
        /\ LogsOf[b] \subseteq LogKeys([events |-> EventsAt(db, b.id)])

\* The rows of transactions and events that are of no stored block.  No foreign
\* key forbids them since migration 00002.
StrayTxs(d) ==
    {r \in d.txs : \A b \in GetBlockById(d, r.block_id) : r.hash \notin TxsOf[b]}

StrayEvents(d) ==
    {r \in d.events : \A b \in GetBlockById(d, r.block_id) :
                         r.log \notin LogsOf[b]}

Stray(d) == StrayTxs(d) \cup StrayEvents(d)

\* The batch being written found block b stored, and so inserts its rows only;
\* but b has been deleted since.
Crossed(b) ==
    /\ bfpc = "commit"
    /\ b \in results /\ b \notin inserted.blocks /\ b \notin db.blocks

\* There is one way to get stray rows: a deletion commits between the statements
\* of a BulkCreate that had found its block stored.  No other order of Create,
\* BulkCreate and Delete, no failure and no restart leaves any.
StrayRowsCrossed ==
    [][\A r \in Stray(db') \ Stray(db) :
          \E b \in results : b.id = r.block_id /\ Crossed(b)]_vars

\* The tables as BlockStore sees them.
Content(d) ==
    [n \in Height |->
        [blocks |-> GetBlockById(d, n),
         txs    |-> TxHashes([txs |-> TxsAt(d, n)]),
         logs   |-> LogKeys([events |-> EventsAt(d, n)])]]

Abstract == INSTANCE BlockStore WITH content <- Content(db)

\* The indexer implements BlockStore: whatever statements of backfill and
\* forwardfill run in whatever order, and whenever they fail, a block appears
\* whole, stays whole and as it is, and goes with its rows.
ImplementsBlockStore == Abstract!BlockStoreSpec

\* What lies below the height a restart resumes at is stored: backfill never
\* comes back to it.  The exception is a height forwardfill has deleted and is
\* about to store again.
CursorCovered ==
    \A n \in From..(ResumeAt - 1) :
        \/ n \in Ids(db)
        \/ ffpc \in {"pubreorg", "create"} /\ ffBlock.id = n

\* forwardfill may hold a block that is older than the one backfill has stored
\* since, and remove the newer one.  A block of the canonical chain is removed
\* only if the header that will make forwardfill put it back is queued, or the
\* connection it came over was lost, or the node answered null.
DeletesOnlyStale ==
    [][\A b \in db.blocks \ db'.blocks :
          b = NodeBlock(b.id) =>
              b.id \in Range(headers) \/ missed \/ ffBlock = ZeroBlock]_vars

-----------------------------------------------------------------------------
(* The stream on Redis.                                                      *)

\* When a block is announced it is in the database, and a client that queries
\* the API for it finds it; unless the COMMIT, whose error Create drops, failed.
PublishedIsStored == ffpc = "publish" /\ committed => ffBlock \in db.blocks

\* What listeners believe in wrongly: the blocks announced and not retracted that
\* are not in the database, those apart whose retraction comes next.
Misled ==
    {b \in stream : /\ b \notin db.blocks
                    /\ ~(ffpc = "pubreorg" /\ ffBlock.id = b.id)}

\* Listeners are misled in two ways only: the retraction after a deletion fails,
\* or is never made because the process ends there, or the block announced was
\* not committed.
StreamFaithful ==
    [][\/ Misled' \subseteq Misled
       \/ ffpc = "pubreorg" /\ ffpc' \in {"done", "off"}
       \/ ffpc = "publish" /\ ~committed]_vars

-----------------------------------------------------------------------------
(* The balances.                                                             *)

\* The heights below this one are in wallet_balance.
BalancedBelow == balancefillCursor + (IF balpc = "advance" THEN 1 ELSE 0)

\* wallet_balance is the sum of the stored transfers of the heights balancefill
\* has passed, each counted once.
BalancesExact ==
    \A l \in Transfer :
        ledger[l] = Cardinality({r \in db.events :
                                    r.log = l /\ r.block_id < BalancedBelow})

\* BatchUpsertBalance and UpdateBalancefillCursor are two statements: a failure
\* between them adds a transfer again.  It is added at most once more for every
\* failure there was.
CreditsBounded == \A l \in Transfer : ledger[l] <= 1 + faults

-----------------------------------------------------------------------------
(* What must happen.                                                         *)

\* The database ends up with the canonical chain: what is mined is stored, what
\* is replaced is replaced, and stays.
EventuallyCanonical ==
    <>[](\A n \in From..head : NodeBlock(n) \in db.blocks)

\* The heights the chain had when the indexer was deployed get stored, whatever
\* fails on the way, and stay.
BackfillCompletes ==
    <>[](\A n \in From..InitHead : n \in Ids(db))

\* Backfill gets there at least once: no run of failing restarts goes on for
\* ever.
BackfillReachesHead == <>(backfillCursor >= InitHead)

\* Whatever a reorganisation moves, stored blocks end up complete.
EventuallyComplete == <>[]StoredBlockComplete

\* balancefill catches up with the newest finalized block again and again.
BalancesKeepUp == []<>~Finalized(balancefillCursor)

\* Once the group is cancelled every goroutine returns and the process ends,
\* wherever each of them is blocked.
ShutdownCompletes == cancelled ~> ~up

\* What the goroutines have left to do once the group is cancelled, in calls
\* and receives.  backfill may still learn the height of the chain, after which
\* balancefill is launched.
BackfillLeft(pc) ==
    CASE pc = "target" -> 4
      [] pc \in {"cursor", "fetch", "txs", "events", "commit", "advance"} -> 1
      [] OTHER -> 0

\* select may prefer a header to ctx.Done().
ForwardfillLeft(pc) ==
    CASE pc = "select" -> 2
      [] pc \in {"off", "done"} -> 0
      [] OTHER -> 1

\* The signal of backfill may be there, too.
BalancefillLeft(pc) ==
    CASE pc = "signal" -> 2
      [] pc \in {"off", "done"} -> 0
      [] OTHER -> 1

\* Subscribe may lose its connection, and dial again.
SubscribeLeft(pc) ==
    CASE pc = "on" -> 4
      [] pc = "lost" -> 3
      [] pc = "dial" -> 2
      [] pc = "closed" -> 1
      [] OTHER -> 0

WorkLeft ==
    BackfillLeft(bfpc) + ForwardfillLeft(ffpc) + BalancefillLeft(balpc)
    + SubscribeLeft(sub)

\* No goroutine goes on working in a cancelled group, or starts over: every
\* step that one takes ends the process or leaves less to do, so that it is
\* never more than a dozen from its end.  Blocks may be mined meanwhile.
EndsInSteps ==
    [][cancelled =>
         \/ ~up'
         \/ WorkLeft' < WorkLeft
         \/ UNCHANGED <<groupVars, databaseVars, backfillVars,
                        forwardfillVars, balancefillVars, sub>>]_vars
=============================================================================
