# A TLA+ model of evm-indexer

evm-indexer reads an EVM chain from an RPC node, stores blocks, transactions and
event logs in PostgreSQL, keeps ERC-20/721/1155 balances, announces new blocks
on Redis, and serves what it stored over REST, GraphQL and WebSocket. It is two
programs: `cmd/indexer`, which writes, and `cmd/api`, which reads.

This directory models both, in seven specifications: `Indexer` is the goroutines
of `cmd/indexer`, the context they share, the database, the chain below it, and
the crashes and restarts around it; `Balances` and `Fetches` take a part of it
apart; `BlockStore` is what it promises to readers of its tables. `Api` is the read
path of `cmd/api`, `Hub` its WebSocket side, and `Processes` is how both programs start
and end.

    tlc -config steady.cfg MCIndexer      # one configuration per run
    tlc -config hub_shared.cfg MCHub
    tlc -config api.cfg MCApi             # balances, fetches, processes likewise
    tlapm IndexerProofs.tla               # the theorems; likewise each *Proofs module

## 1. The system

### Components, their state and their operations

| component | code | state | operations |
|---|---|---|---|
| chain and RPC node | outside | canonical chain, head subscription | answer by height, announce heads, reorganise |
| fetcher | `internal/fetcher` | RPC client, rate limiter with a reserve for live blocks | `FetchBlock`, `FetchBlockPriority`, `GetLastBlockId`, `Subscribe` |
| indexer repository | `internal/repository/db/indexer.go` | tables `blocks`, `transactions`, `events`, `backfill_cursor`, `balancefill_cursor`, `wallet_balance` | `Create`, `BulkCreate`, `Delete`, reads, cursors, `BatchUpsertBalance` |
| backfill | `core/services/backfill.go` | target, batch, fetched results | resume at the cursor, fetch a batch concurrently, store it, move the cursor |
| forwardfill | `core/services/forwardfill.go` | the header and block in hand | receive, fetch, detect a reorg, delete, store, publish |
| balancefill | `core/services/balancefill.go` | its cursor, the logs of a height | wait for depth, read logs, extract entries, aggregate, upsert |
| Run, main | `core/services/indexer.go`, `cmd/indexer/main.go` | errgroup, contexts, backfill's channel | launch, cancel, wait, exit; `-reindex` |
| pub/sub | `internal/pubsub` | Redis connection, buffer of 10 per subscriber | `Publish`, `Subscribe` |
| WebSocket hub | `internal/handlers/ws` | subscriber lists, their channels, client positions | `subscribe`, `delete`, `broadcast`, `messageWriter` |
| query service, query repository | `core/services/query.go`, `repository/db/query.go` | none | check, read with one or two statements |
| REST | `internal/handlers/rest` | none | parse parameters, call, map errors to a status |
| GraphQL | `internal/handlers/graphql` | data loaders, per request | decode filters, resolve, load in batches, propagate nulls |
| HTTP server, API process | `internal/server`, `cmd/api` | server, listener, requests | migrate, subscribe, serve, shut down |
| configuration | `internal/config` | none | `Load`: file over environment, defaults |
| metrics, ports, domain | `internal/metrics`, `core/{ports,domain}` | counters; types and rules | - |

### How they interact

`Run` launches **forwardfill** first, which launches **Subscribe** and then waits
for headers on the channel Subscribe feeds. Run asks the node for the height of
the chain and launches **backfill** with it as target, and a goroutine that waits
for backfill's signal before it runs **balancefill**. The three write the same
database with no lock but Postgres' transactions and constraints; forwardfill
publishes to Redis after each commit. They share one errgroup: the first error
cancels every call. Then the process exits and docker-compose
(`restart: on-failure`) starts it again; the database, with its cursors, and
what listeners of the stream believe survive. Nothing else does.

In `cmd/api`, `NewRouter` subscribes to four Redis channels and starts a
**broadcast** goroutine for each, over an `Entity`: a list of client channels per
filter, under a read-write lock. A connection runs two goroutines: the **reader**,
`entitySubscription`, which adds the client's channel to lists and notes the
index it got there, and the **writer**, `messageWriter`, which takes messages from
the channel to the connection. Either may call `delete`, which takes the channel
out of the lists, by index, and closes it.

A REST request becomes one call of the query service, which reads with one
statement, or with two where transactions were asked for. A GraphQL query becomes
one call without transactions; the fields below it go through two data loaders,
which collect keys for a millisecond and read them with one statement each. No
transaction spans the statements of a request: the indexer writes in between.

The two programs are started together, in no order. Only the API migrates the
database. Each fails, and is restarted, when what it needs is not there.

### What is hard

* Every handler is several statements, transactions or RPCs: the two writers, the
  chain and the death of the process get between any two. A transaction is
  several statements too, and READ COMMITTED lets the other writer in between.
* The chain changes under the indexer: a height has one block when it is
  fetched and another when it is stored, announced or balanced.
* What a start relies on (a cursor, `MAX(block_id)`) says nothing about gaps.
* In the hub three kinds of goroutines share lists, channels and connections, some
  of it under a lock and some not; a panic in one ends its connection or the
  process.
* A request reads with several statements, and each sees other tables. Where
  numbers of 64 bits meet defaults, maxima and ranges, every end is different.
* Retries, their budget, the limiter and cancellation share one clock.
* Ends: a closed channel, a full channel nobody reads, a goroutine waiting for a
  signal that will not come; an exit while requests run.

`PROJECT.json` lists every hazard with its line and the properties aimed at it.

### What makes each component correct

| component | should | property |
|---|---|---|
| repository | stored blocks come, stay and go whole, whatever statements interleave; rows stay behind in one case at most | `StoredBlockComplete`, `ImplementsBlockStore`, `StrayRowsCrossed`, `EventuallyComplete` |
| backfill | skip no height over restarts, get done whatever fails | `CursorCovered`, `BackfillCompletes`, `BackfillReachesHead` |
| forwardfill | replace only what is stale, announce only what is stored, and retract it | `DeletesOnlyStale`, `PublishedIsStored`, `StreamFaithful` |
| balancefill | count every transfer once, a little more at most after failures, keep up, and book each to the right rows | `BalancesExact`, `CreditsBounded`, `BalancesKeepUp`, `TableIsLedger`, `TransfersCounted` |
| fetcher | keep the rate, retry within the budget, end when cancelled | `RateKept`, `EndsInTime`, `RetriedInBudget`, `CallsEnd` |
| the process | store the canonical chain in the end; end when it is cancelled, at once | `EventuallyCanonical`, `ShutdownCompletes`, `EndsInSteps` |
| WebSocket hub: subscribe, broadcast | hand a message to who asked for it, from lists that stand still, without waiting for anyone | `OnlyAsked`, `ListsStill`, `FanOutEnds` |
| WebSocket hub: delete, the end of a client | run once, remove the client, all of it and no other, and end both goroutines | `OneDelete`, `RemovedFromAll`, `PlacesHold`, `ClientsEnd` |
| query service, REST, GraphQL | answer what was asked for and all of it, a block with its own transactions, "not found" and nulls only where they are due, and always answer | `AnswersExact`, `NotFoundHonest`, `OwnTransactions`, `OwnEvents`, `NullsJustified`, `RequestsEnd` |
| processes, pub/sub | nothing keeps them from running again, they stop when told, and let payloads through | `BothRun`, `StopsWhenTold`, `StreamFlows` |

## 2. The modules

    Domain -> Repository --+-> Transactions -+-> Backfill ----+
                           |                 +-> Forwardfill -+
              Group -------+-> Fetcher -------> (both)        +-> Indexer -> IndexerProperties
                           +-> Balancefill -------------------+             (BlockStore)
                           |        +-> Balances -> BalancesProperties
                           +-> QueryRepository -> Query -> Rest -> Graphql -> Api -> ApiProperties

    Hub -> HubProperties        Fetches -> FetchesProperties        Config -> Processes -> ProcessesProperties

    IndexerProperties -+-> IndexerProofs -> StoreProofs -> LedgerProofs -> SteadyProofs
                       +-> MCIndexer
    XProperties -> MCX, XProofs           for the other specifications X
                                          (no proofs of Processes)

| module | code | correspondence |
|---|---|---|
| `Domain` | `core/domain`, the schema | A block is a height and the fork it belongs to, which stands for its hash; the fork `-1` is the zero value. What a block contains is constants: `TxsOf`, `LogsOf`, `TxOf`, `Transfer`. |
| `Repository` | `indexer.go`, `migrations` | `db` is the three tables, as committed; the indexer and `Api` share it. The statements are operators on it: a primary key conflict aborts (`Conflict`), a row of `transactions` or `events` whose key exists is dropped (`NewTxRows`, `NewLogRows`: ON CONFLICT DO NOTHING) while the other rows go in. `Insert` and `Delete` are what they come to when nothing gets between them, `StoresNew` and `DropsHeight` the same for a reader. |
| `Transactions` | `BulkCreate`, `Delete` of `indexer.go` | The two transactions that are open over several steps. `inserted` is the rows that BulkCreate has inserted and not committed, `deleted` those that Delete has deleted. `Meets...` is where Postgres makes a statement wait for the other transaction. |
| `Group` | `indexer.go` of services, `main.go` | `up`, `cancelled` and a budget of failures. `CallReturns` and `CallFails` are the two ends of every call. |
| `Fetcher` | `fetcher.go`; the node is external | `canon`, `head`: the chain. `sub`, `headers`: the goroutine Subscribe and the headers queued for forwardfill. |
| `Backfill` | `backfill.go`, `BulkCreate`, cursor statements | One action per call; each fetch of a batch is an action of its own, in any order. BulkCreate is an action per statement: `InsertBlocks`, `InsertTransactions`, `InsertEvents`, `CommitBatch`. |
| `Forwardfill` | `forwardfill.go`, `Create`, `Delete` | One action per select case and per call; `Delete` is an action per statement, the last with its COMMIT. `committed` says for the properties whether Create's COMMIT succeeded, which the code does not look at. `stream` is what a listener believes: the blocks announced and not retracted. |
| `Balancefill` | `balancefill.go`, balance statements | `ledger[l]` is how often transfer `l` was added to `wallet_balance`. Additions commute, so this determines the table. |
| `Indexer` | `indexer.go`, `main.go` | The composition: start, `-reindex`, signals, exit, panic, crash, restart, and the fairness. |
| `BlockStore` | | The abstract specification, height by height: at most one block, which appears whole, does not change and goes with its rows. Rows of a block that is gone may come back; they never touch those of a block that is stored. |
| `IndexerProperties` | | The properties. `Content` maps the tables to `BlockStore`: per height, its blocks, hashes and log keys. |
| `MCIndexer` | | Contents of blocks for TLC. |
| `IndexerProofs`, `StoreProofs`, `LedgerProofs`, `SteadyProofs` | | Theorems and proofs about the indexer: types, the stream, cursors, the end of a cancelled group; the tables, statement by statement, and the refinement; balances after failures; balances through reorganisations. |
| `Balances` | `balancefill.go`, `BatchUpsertBalance` | `wallet_balance` is the table itself. Extraction and aggregation are operators named as in the code; the goroutine is `Balancefill`'s, over a chain that grows, and its upsert is done to both the ledger and the table. `behind` says whether the start of the process finds something to backfill: only then does backfill signal (`BackfillSignal`). |
| `BalancesProofs` | | Sums over finite sets; what decoding and aggregating a height yield; the table. |
| `Fetches` | `fetcher.go`, the batch of `backfill.go` | Each call is in the limiter, in flight or in a pause, until `wake`. `slot` is the limiter's next token; `cancelled` the contexts of the two errgroups. |
| `QueryRepository` | `db/query.go`, `db/utils.go` | One operator per SELECT, on `db`. |
| `Query` | `query.go`, `rules.go` | A call is a record. `Checks` lists what it refuses, in order; `Selected` is its first statement, `SelectedTxs` its second. |
| `Rest`, `Graphql` | `handlers/rest`, `handlers/graphql` | From a request to the set of the one call it makes, empty if it is refused; from an error to a status; from failed loads to nulls. |
| `Api` | handlers, loaders, `generated.go` | One request after another. `rows`, `txs`, `events` are what its statements returned; `waiting` and `failed` are the loaders' keys. The `Writer` acts at any time: it stores any number of blocks of `Incoming` that are not there, or drops a height: the indexer as long as no deletion crosses a batch (`IndexerIsTheWriter`). |
| `Config` | `config.go` | `Load`, as the set of the one configuration, empty for an error. |
| `Processes` | `cmd/*/main.go`, `server.go`, `init.go`, `pubsub.go` | Where each program is between launch and exit, what it needs, the API's requests, and a subscription from Redis to its broadcast, which may find `entity.mu` locked for good (`leaked`). |
| `Hub` | `handlers/ws`, `pubsub.Subscribe` | `clientsChan` and `lock` are the entities, `pc` says what the reader and the writer of each client do next, `bcast` what each broadcast does and what its two loops have left. `pos`, `once`, `outgoing` are the client's fields, `left` what the loop of `delete` has left. |
| `HubProperties` | | The properties of the hub. |
| `MCHub` | | Clients, filters and payloads for TLC. |
| `HubProofs` | | Theorems and their proofs. |
| `*Properties`, `*Proofs`, `MC*` | | The properties, the theorems and the instance of each of the others. |

Definitions commented as mutants are plausible mistakes next to the operator they
would replace, and no behaviour uses them. In `Hub` two operators stand in for a
whole of which they are a part: `WalkPositions` for `DeleteBegins`, and
`matchesAddress` for `matchesFilter`. Each property of a run that passes fails when
its mutant takes the operator's place.

### Abstractions

* **Calls and cancellation.** A call is atomic at the moment it takes effect. One
  in flight at the cancellation either took effect before it, or fails. One that
  took effect but reports an error is one that returned, followed by the
  failure of the next.
* **Statements of the two writers.** BulkCreate and Delete take a step per statement, each of which
  sees what is committed when it runs. An INSERT that meets a committed row by its key does nothing
  and locks nothing; one that meets a row of the other open transaction waits, or fails if
  Postgres finds a circle. A `DELETE` waits for nothing: BulkCreate's rows show at its COMMIT, and where
  Create's are concerned both calls are forwardfill's. The last statement of Delete, on `blocks`, is one step with its
  COMMIT: in between only a key that backfill inserts is of interest, and that waits for the
  COMMIT. Create is one step, its COMMIT: what it meets of an open batch makes it wait. The
  statements of BulkCreate are prepared and run in one go per table, so a table is a step, not a row.
* **Rows that come back** keep the `block_id` they are inserted with; what else is in a row does not matter to a
  property.
* **Retries** are inside the call in `Indexer`: only the final outcome shows. `Fetches`
  has them. Subscribe's are in `Indexer`, since they show in which headers are lost.
* **`PublishRows`** sends all transactions and events of a block in one step.
* **The sleep of balancefill** changes nothing: `LeaveWait` is enabled when the
  query would find enough blocks.
* **The errgroup** keeps the first error, which only reaches the log.

Of the hub:

* **A step** is one call, or all that happens under one lock. Only broadcast holds
  its lock over several steps: it sends to one client per step.
* **Panics.** One in the reader, the goroutine of an HTTP handler, is recovered by
  net/http after the deferred `conn.Close`; a lock it held stays locked. One in a
  writer or a broadcast ends the process: `down`.
* **The unlocked append to `client.pos`** races with the loop of `delete`. The loop
  sees the old slice, the new one, or the new length without the new element
  (`DeleteTorn`), for which `entities[""]` is nil.
* **The connection** is external: `open`, `broken` once the peer is gone, `closed`
  by the server. What has arrived can be read in any of these. Two writes at a
  time may pass unnoticed, or panic in the later one.
* **Topics** are those `validateSubscription` accepts; nobody can subscribe to
  `reorgs`. Payloads keep what `matchesFilter` looks at. Payloads that do not
  unmarshal are skipped by the code and left out, as are the metrics and an
  upgrade that fails.
* **The end of the process** after the HTTP server's shutdown is outside: the module is
  the package with its context, as its tests run it. `Processes` has the end.

Of the read path:

* **One request at a time.** Requests share the tables and the connection pool. None asks
  for a connection while it holds one, so the pool delays and never blocks for good.
* **Numbers** are those of a small word, `Word = 16`, whose upper half the driver refuses
  as it refuses that of 2^64. `Malformed` and `TooLarge` are the two ways a string
  may not parse. A hash, an address, a topic is a model value, or `Malformed`.
* **Loader batches** may be any subset of the keys that wait: what a millisecond and the
  concurrent resolution of fields may bring about.
* **Rows** come in any order, and a LIMIT keeps any of them: no statement orders.
* The executor of GraphQL is generated. Of it only what decides between an answer and
  a null is modelled.

Of the others:

* `Fetches` counts time in ticks; requests, tokens and pauses end on time, unless
  cancelled. Subscribe's retries are those of `Fetcher`.
* In `Balances` whether backfill had something to fetch is a guess at every start.
* `Balances` has words as numbers below `Base`. Decoding of ABI data is external: it
  yields the words, or fails. What a transfer means to those who emitted it is a constant,
  `Meant`, a sequence of movements; `MeantAssumption` says how each standard writes them into
  topics and data (`Says`), and nothing of how the indexer reads them.
* `Processes` has of the indexer at work only that it may end at any time, by an error or a signal; and one of
  the API's four subscriptions, which are alike and share nothing. A request is answered, hangs, or has its
  connection hijacked by a WebSocket, after which `Shutdown` does not wait for it. The panic that leaves a lock
  behind may come at any time while the API runs.

### What the environment may do

* A reorganisation replaces at most `Depth` blocks, by a chain at least as long, on
  a fork never seen before. The node announces every block that became canonical,
  in order, as `newHeads` does.
* A batch of two calls is answered from one head. A node may answer null for a
  block (`Lagging`): off in the runs kept, section 3 says what it shows.
* `MaxFaults` bounds failed calls, lost connections, signals, crashes and lost
  commits together.
* `QuietStart` keeps the chain from growing between `GetLastBlockId` and the
  subscription, and from being reorganised before backfill has returned. The
  run `crash_loop`, and section 3, show what happens otherwise.
* In the hub a client connects, sends up to `MaxAsks` subscriptions out of those it
  `Wants`, and invalid messages (`MaxInvalid` of all clients together), and leaves
  at any time. Up to `MaxPayloads` payloads arrive on any topic, and the
  context is cancelled at any time.

### Fairness

* `WF` for each goroutine, for its exit and for the start of the process: the Go
  scheduler runs what can run, and docker-compose restarts a process that failed.
* `SF` for forwardfill's cases `errChan` and `ctx.Done()`: select picks among
  the ready cases at random, so a case ready again and again is picked, even when
  the closed channel is always ready too.
* A weak fairness of `SubscribeProgress` for Subscribe, which is obliged neither
  to lose its connection nor to see the cancellation while a header is stuck in its send.
* Nothing obliges the chain to grow or to be reorganised, or a fault to occur.

In the other specifications:

* `Api`: `WF` for the steps of a request. `Balances`: `WF` for the goroutine, the restart, and backfill's signal where it has something to fetch.
* `Fetches`: `WF` for time, for launching a batch, and for a call whose wait is over.
* `Processes`: `WF` for each step of a start, for a payload's way from the subscription's send to the end of its
  delivery (which is not enabled while the lock is leaked), for the two ends of Shutdown (it returns
  when no request is left, and gives up after 30 seconds), for the end of an indexer that was told to,
  for a service's recovery (`restart: always`) and for the correction of a file
  that does not load. Nothing obliges a request to end.

In the hub:

* `WF` for each broadcast, and for each step of a client that does not need its peer.
* A write ends when the connection does. Nothing obliges the write to a peer that
  stays to end: it may be as slow as it likes.
* `SF` for the steps that take `entity.mu`: broadcast takes and leaves the lock, and
  a waiting `Lock` holds up later readers, so it does not starve.
* Nothing obliges a peer to connect, to send or to leave, a payload to arrive or
  the context to be cancelled.

Deadlock is checked in `api`, where a request may always come. It is not checked in the hub, where everyone may rightly wait for a message,
nor in the indexer: with a chain at `MaxId` and no fault left the indexer
waits for headers and balancefill sleeps, rightly. That no goroutine waits for ever
when it should end is `ShutdownCompletes`, and `EndsInSteps` that none goes on instead.

## 3. The runs

Those of the indexer are instances of `MCIndexer`, with `From = 1` and
`BatchSize = 2` everywhere; those of the hub are instances of `MCHub`. The others have
one each.

| run | bounds | shows |
|---|---|---|
| `steady` | heights 0..5, head 3 at first, 2 reorganisations of depth 2, `Lag = 1`, no fault, quiet start | The three goroutines work together: the canonical chain ends up stored, balances are those of the stored transfers all along, and keep up. |
| `recovery` | heights 0..4, head 3 at first, 2 faults of any kind, commits may be lost, `-reindex` at any start, a log that makes extraction panic | No height is skipped, a failure costs at most one repeated credit, backfill completes, and a cancelled process ends: each step of a goroutine brings the end closer. |
| `races` | heights 0..2, head 1 at first, 2 reorganisations of depth 2, a fault at any time, commits may be lost | Backfill and forwardfill write the same heights from a chain that changes, statement by statement, and one of them may fail or the process stop after any: stored blocks are complete, the tables implement `BlockStore`, one order of statements leaves rows behind, only stale blocks are deleted, nothing is announced before it is stored, and listeners are misled only where a failure does it. |
| `hub_shared` | 2 clients, 2 filters of 1 topic, a subscription each, an invalid message, a payload, fairness | Two clients, in one list or each in its own: delete runs once, messages match what was asked for, lists stand still while they are walked, broadcast waits for nobody, and both goroutines of a client end with its connection. |
| `api` | 2 heights above a vacant one, 2 forks, 4 transactions, 4 logs; some 400 requests; a failing statement; `OffsetMax = 2`, default 3, `Word = 16` | An answer is exactly what the request, as it was written, asks for, two misread cases apart; "not found" and nulls come where they are due, a block has its own transactions although they are read later, and every request ends. |
| `balances` | 12 transfers of every standard in 3 heights, 2 faults | `wallet_balance` is the sum of what the counted transfers meant, and all get counted unless a restart finds backfill up to date. |
| `fetches` | 2 calls of a batch, 1 with priority, a token per 2 ticks, pauses of 1 and 5, a budget of 10, up to time 16 | The rate is kept, calls end in time and are retried in time, and all end when one fails. |
| `processes` | 4 contents of `.env`, 2 migrations, a buffer of 2, a request, 2 outages or crashes | Both programs come to run although the indexer may fail at any time, stop when told although a request hangs, and the stream flows until a lock is left behind. |

Why the bounds are enough: in `steady` and `recovery` three heights give backfill a full batch and a short one,
so the cursor moves more than once; two more heights let the chain grow twice
after the start. Two reorganisations of depth 2 make a height be replaced
twice, and a replaced block meet one still in a fetch or in the queue of headers.
Two faults let the recovery from one be hit by another. `Lag = 1` is
the tightest lag for `Depth = 2`: a height is taken when more than `Lag` stored heights
lie above it, so `Lag >= Depth - 1` keeps it out of reach of a reorganisation, as the 96
blocks of the code are meant to; `Lag = 0` breaks `BalancesExact`. In `races` a step is a
statement, so that heights are few: the first one is backfill's, and forwardfill replaces
it, up to twice, while backfill's batch is open; the second one grows, with a reorganisation
or without. A header may be lost with the connection, a deletion cross a batch, a block of a later
height be replaced while one of an earlier height is fetched, and the process stop between any
two statements and start over.

In the hub two clients are enough for every pair of goroutines to meet: a client's own
two, those of different clients, and each with broadcast. A list needs three
clients only for one that stays to be removed (see below). Two filters
make a payload match one list or both. One payload is enough to find a writer that
waits for the lock broadcast holds. In `hub_shared` the clients may share a list: the second to
leave then panics (`hub_leave`), which ends the process if it is in a writer, and leaves the
lock behind if it is in a reader. `ClientsEnd` excepts both.

In `api` a range of the default length leaves the heights on both sides, a sum passes the
word, the times of blocks are below half a word, so that ranges of time reach the database, and two blocks let a batch of keys split. The blocks include one without
transactions, one whose transaction has no log, and two of a height that share a
transaction. In `balances` two tokens share an id, a height touches a row twice, a transfer
goes to its sender, arrays differ in length, and data does not decode. In `fetches` the budget
has room for every wait, a request and a pause, and none for many of them; time goes on past the last
moment at which a call may be over, 15 ticks after its start. In `processes` two
incidents let the restart of one program meet the outage of the other.

### Where the code does not do what is said of it

Each of these runs checks one property and finds a counterexample. The quotes are
in `PROJECT.json`.

| run | what happens |
|---|---|
| `crash_loop` | forwardfill stored a block above the cursor, the process stopped, the chain replaced the block. Every start now fetches the new one, violates the primary key and exits; `-reindex` does not help. |
| `moved_tx` | A reorganisation moves a transaction to an earlier block. Its new row is dropped for the old one, which goes with the old block: the transaction is lost. |
| `hub_leave` | Of two clients in a list the first leaves, and the list moves up. The second's delete cuts at the index it noted, past the end of the list, and panics with `entity.mu` locked: the process ends, or, if it was the reader that called, `broadcast` and every client that needs the lock wait for ever. |
| `hub_removed` | The writer's delete walks the positions while the reader is about to subscribe: the closed channel enters the list. If the server goes on, the next broadcast that matches panics and the process ends. |

More of the kind is in the model, as steps the runs that pass take too, or one
constant away from a run.

Of the indexer:

* A block mined after `GetLastBlockId` and before the subscription is above backfill's
  target and announced to nobody. It is never stored: without `QuietStart`, and
  without reorganisations, `EventuallyCanonical` fails.
* A null answer is no error: it is stored as block 0 and the cursor passes the height. With
  `Lagging`, `CursorCovered` fails.
* A transfer with unindexed addresses panics the process (`ExtractPanics`). Afterwards
  backfill is up to date, and balancefill is never launched again: with
  `ShortTopics = {1}` in `steady`, `BalancesKeepUp` fails.
* A stop between `Delete` and `Create` empties a height below the cursor, and the
  restart resumes above it. With one reorganisation and one fault in the bounds of
  `recovery`, `CursorCovered` fails.
* `Create` ignores the error of COMMIT (indexer.go:71): a block is announced that is not stored.
  `PublishedIsStored` and `StreamFaithful` except it by name (`committed`), and `races` has it; without
  the exception `PublishedIsStored` fails there.
* BulkCreate's `INSERT ... ON CONFLICT DO NOTHING` of a block that is stored locks nothing. A
  `Delete` may commit between it and the insertion of the block's transactions or events: these
  come back without their block, and stay when another block is stored at the height, which then has
  its own rows and those of the old block. `races` goes through it. `StrayRowsCrossed`
  says that it is the only way to get such rows, and `StoredBlockComplete` that no row of a stored block
  goes missing for it. The API reads rows by height, so it answers the new block with the old
  one's transactions too: `OwnTransactions` and what else depends on whole blocks are about an indexer
  where no deletion has crossed a batch.
* A stop, or a failed publish, between `Delete` and its retraction leaves listeners with the
  deleted block, for good where no other comes at its height. This, and the lost COMMIT,
  are the two exceptions of `StreamFaithful`.
* An up-to-date backfill returns without its signal (backfill.go:24-27), so that after a restart balancefill
  waits until the next restart that has something to fetch: `Unsignalled`, which `TransfersCounted`
  excepts.
* Subscribe closes its channel before it delivers its error; forwardfill takes the
  zero value for a header, and stores and announces the genesis block
  (`ReceiveFromClosed`).
* Migration 00002 dropped the foreign keys, so the cascade the repository's README
  describes is gone: in `moved_tx` an event stays without its transaction.
* A batch is `NumCPU * CONCURRENCY_FACTOR + 1` calls at `RPC_RATE_LIMIT` per second, by default
  1. A call whose token comes after 30 seconds is not retried at all: `Roomy` is false for it,
  and `RetriedInBudget` says nothing. "Requests/sec cap" (README.md:44) leaves out what passes by the
  limiter: calls with priority, `GetLastBlockId`, the subscription.

Of the API:

* An offset of 0, or none, means 1000 heights, although `MAX_OFFSET`, by default 100, bounds
  every other offset (query.go:81). `Misread` excepts it from `AnswersExact`. `GetBlocksWithOffset` of a range past 2^63 fails in the
  driver, past 2^64 it wraps around and finds nothing.
* Of two numbers in a REST request only the second must parse: `from=x&offset=5` is answered
  as `from=0`, the other case of `Misread`, and `fromTime=99999999999999999999` as the largest number,
  which is no other answer.
* Requests refused as `ErrInvalidOffset`, `ErrInvalidLimit`, `ErrInvalidAddress`,
  `ErrInvalidTopics` or `ErrEmptyFilter` are answered with 500 (`Status`).
* A block without transactions is "not found" with `tx=yes`, and null in GraphQL if no other
  block of its batch has any: no row is `ErrNotFound` in the second statement too.
  `NotFoundHonest` and `NullsJustified` name these cases.
* When the listener fails, `Server.Run` returns nil: the process exits with 0 and `restart:
  on-failure` leaves it down. `BothRun` excepts it. Where a request runs for more than 30 seconds after that,
  `Shutdown` returns an error, the process exits with 1 and is restarted, unless it had been told
  to stop: docker-compose leaves down what it stopped itself (`told`).
* `BothRun` says of the indexer that nothing keeps it from running again, not that it gets on:
  `crash_loop` runs again for ever, and fails every time.
* The requests that `Shutdown` waits for do not include the WebSockets: their connections are hijacked, and
  end with the process.
* "Migrations run automatically on startup" (README.md:69), of the API: an indexer that is first fails and
  is restarted until they have run.
* Not only the second of two clients finds its index out of range: so does one that subscribed
  twice to one filter. With three clients in a list the index may be another client's, who
  is removed in its place.
* Once such a panic has left `entity.mu` locked, `broadcast` stops at its next payload, the channel fills, and
  Subscribe's goroutine stays in its send. `StreamFlows` excepts it (`leaked`); `StopsWhenTold` does not.
* The reader writes an error while the writer writes a message, which the library
  does not allow: it may panic (`ConcurrentWrite`).

What a run excludes it excludes by its constants: `steady` has a quiet start, no faults, and
contents that no reorganisation moves; `recovery` has no reorganisations. `races` excludes none of
it but null answers, moved transactions, panics of balancefill and more faults than one. Transactions that stay in
blocks of their own height are an assumption of `StoredBlockComplete`, and
`moved_tx` shows that it is needed.

A comment above `TestDeleteCalledTwicePanics` (client_test.go:233) says that the second
call of `delete` panics. Since `client.once` it waits for the first and returns, as
`OneDelete` says.

## 4. The proofs

Assumptions are the named ASSUMEs on the constants, and where it says so one more.
`Safety` is `Init /\ [][Next]_vars`, `HubSafety` its like: no fairness is used anywhere.
Everything the runs bound is arbitrary: heights, forks, faults, the contents of blocks,
`Depth`, `Lag`, `BatchSize`, `From`, `InitHead`; clients, topics, filters and payloads; calls,
rates and budgets; requests, limits and the size of a word.

An assumption of a theorem is there because the property fails without it, and the runs that
check the property choose their constants so that it holds:

| assumption | means | without it |
|---|---|---|
| `Lagging = FALSE` | no null answers | a null is stored as block 0 |
| `MaxReorgs = 0` | the chain only grows | a stop between `Delete` and `Create` leaves a gap; a restart that is no fault repeats a credit |
| `QuietStart = TRUE` | the chain is quiet while the indexer starts | `crash_loop`; a block mined before the subscription is lost |
| `Faultless` | `MaxFaults = 0`, and no log makes extraction panic | a transfer may be added twice (`CreditsBounded` has how often) |
| `Depth <= Lag + 1` | no reorganisation gets behind `lagFinalized` | a replaced block's transfers are in the balances |
| `From <= InitHead` | the first height to index existed when the indexer was deployed | a height queued below `From` may be stored after balancefill has passed it |
| `TxsStay` (of `Domain`) | the blocks of two heights share no transaction | `moved_tx` |

### The indexer

| theorem | says | assumes | argument |
|---|---|---|---|
| `TypeCorrect` | `[]TypeOK` | | Not inductive alone: `balancefillCursor + 1` must be a height. `BalancefillBelowMax` adds that past the check of `Finalized` the cursor is below `MaxId`, since a stored block lies above it and locals do not change until `advance`. `IInv` is the two; one lemma per goroutine. |
| `PublishedBlocksAreStored` | `[]PublishedIsStored` | | Only forwardfill deletes (`OthersKeepBlocks`), and while it is at `publish` it does not. Backfill's statements, faults and reorganisations are free. |
| `ListenersAreRight` | `StreamFaithful` | | A step that adds to what listeners believe wrongly removes a block, and then forwardfill is at `pubreorg`; or leaves `pubreorg`, by the retraction or by an end; or announces a block, which `PublishedIsStored` has in the tables (`MisledStep`). |
| `RestartSkipsNothing` | `[]CursorCovered` | no reorganisation, no null | `CInv`: all stored and fetched blocks are of one fork; what is fetched or still pending covers the batch, and once it is written the database does; below the batch's first height, and below `ResumeAt`, everything is stored. Nothing is deleted with one fork, so coverage only grows, through any failures, restarts and `-reindex`. |
| `CancelledGroupsEnd` | `EndsInSteps` | | A rank, `WorkLeft`: the sum over the goroutines of the calls and receives each can still make on a cancelled context. One lemma per goroutine shows that its steps lower its own part; the answer about the head launches balancefill, which weighs less than what backfill loses. The invariant is that a cancelled process is up. |
| `OnlyStaleBlocksGo` | `DeletesOnlyStale` | | `HInv`: a height has one block; what BulkCreate inserts is of heights that nobody else stores before it commits, though it found them vacant some statements ago; what Delete is about to delete is still another block than forwardfill's. `StaleInv`: while forwardfill holds a block that is not canonical any more, the header of the one that replaced it is queued, or the connection it was to come over is lost (`SubInv`). |
| `StoredBlocksAreComplete` | `[]StoredBlockComplete` | `TxsStay` | `WInv`: rows are at home, at a height of the blocks that have them (`RowsHome`); the rows inserted and not committed are still new (`BatchRows`), and nothing is missing of the blocks inserted (`BatchWhole`) or stored (`StoredWhole`); Delete deletes all rows of the block in the way, those it finds of others at the height included (`DeletedRows`). One lemma per statement. |
| `StrayRowsHaveCrossed` | `StrayRowsCrossed` | `TxsStay` | From `HInv` and `WInv`: of the rows a step adds, those of a block it adds are no stray rows; the others are of a block that BulkCreate found stored, and whose rows, if it is still stored, were there. A deletion takes all the rows of its block along. |
| `IndexerImplementsBlockStore` | `ImplementsBlockStore` | `TxsStay` | The refinement, from the same invariants. Of a step only three change the tables: BulkCreate's and Create's COMMIT, which store blocks (`CommitImplements`, `CreateImplements`), the first one with the rows that come back, and Delete's, which drops one (`DeleteImplements`). |
| `IndexerIsTheWriter` | a change between tables without stray rows is a `StoresNew` or a `DropsHeight` | `TxsStay` | From the same invariants (`CommitStores`, `DeleteDrops`). This joins the two halves: as long as no deletion has crossed a batch, the writer of `Api` does, for `Incoming = Block`, what the indexer does, so that the theorems about the read path hold beside it. |
| `CreditsAreBounded` | `[]CreditsBounded` | no reorganisation, no null | `LInv`. The bound alone is not inductive, since a failure that has been counted pays for a repetition that is still to come: `CreditInv` says that additions, plus one if the process is bound to end (`Owed`), are at most the faults, plus one if the cursor has passed the transfer. |
| `BalancesAreExact` | `[]BalancesExact` | quiet start, no null, `Faultless`, `Depth <= Lag + 1`, `From <= InitHead` | `SteadyInv`, below. |

`BalancesAreExact` rests on `Calm`: where nothing fails the process goes on for ever, and the two writers never
conflict; and on `OpenInv`: what a batch will commit and a deletion remove is known when they
begin, since forwardfill deletes nothing before backfill is done. It needs to know what the
headers in the queue will do. The heights
forwardfill will still store, in the order it will get to them, are the `Line`. `LineInv`: the line
rises, except where a reorganisation has announced the chain anew, which it does only for
heights with no stored block `Depth` above them (`Fresh`), and never falls by `Depth`.
`StaleOnLine`: every stale block that is stored is fresh and on the line. `BackfillInv`: while backfill runs nothing is stored above the line that
backfill will not get to, and balancefill is launched only after it. `FullInv`: a stored
block's logs are in the table, under its own height or another. `FloorInv` then
keeps the line, and so every insertion and deletion, at or above the height balancefill
has got to, which is `Lag + 1` stored blocks below the head. So below the cursor the table of events does
not change, and `BalanceInv` counts.

### The hub

| theorem | says | argument |
|---|---|---|
| `DeleteRunsOnce` | `[]OneDelete` | `OnceInv` adds that a goroutine inside `delete` finds `once` running, so no second one enters, and that the channel is closed only when `once` is done. Steps that move a goroutine elsewhere than into `delete` keep it by one lemma, `GotoOnce`. |
| `HubTypeCorrect` | `[]HubTypeOK` | `HInv` adds what each place in the code knows: a broadcast that sends holds its topic's lock (`BcastInv`), and a reader about to insert works on a subscription and not on an invalid message (`ReaderInv`). |
| `ListsKeptStill` | `ListsStill` | From `HInv`: who changes a list holds the write lock, which nobody gets while broadcast is between its locks. |
| `OnlyWhatWasAsked` | `[]OnlyAsked` | `AskedInv` follows a payload from the lists (`ListedInv`) through the walk (`WalkInv`) to the writer (`OutboxInv`). Positions are never forgotten, so that a removal by a stale index, which takes out another client, makes somebody miss messages but hands nobody a wrong one. |

### The read path

| theorem | says | assumes | argument |
|---|---|---|---|
| `ApiTypeCorrect` | `[]ApiTypeOK` | | `ReadInv`. A request is one a router lets through (`RestRequest`, `GraphqlRequest`), hence its calls are in `Call`, hence their statements and errors are of a kind. |
| `AnswersAreExact` | `[]AnswersExact` | | `Wanted` reads the arguments as the client wrote them, and knows neither the parsers nor the statements. `ReadInv` says that what was read is what the call's statement selects, until the writer acts; a lemma for each path and field, that this is what is wanted. The rest is arithmetic: for numbers that pass the parsers, the checks and the driver, the range of the statement is that of the request, unless it is `Misread`. |
| `NotFoundIsHonest` | `[]NotFoundHonest` | `TxsStay` | A 404 is an empty first statement, or an empty second one: then no block that was read has a transaction, as the tables hold whole blocks (`TablesInv`). |
| `BlocksHaveTheirTransactions` | `[]OwnTransactions` | `TxsStay` | `OwnInv`: what was read is as it stood when it was, of a height that has been written since or as the tables have it now (`HeldInv`); each key is asked for once, before what it loads (`KeysInv`); so what one batch loads for a block no other batch adds to (`LoadedTxs`). |
| `TransactionsHaveTheirEvents` | `[]OwnEvents` | `TxsStay` | The same, one loader further down (`LoadedLogs`). |
| `NullsAreJustified` | `[]NullsJustified` | `TxsStay` | `FailedInv`: a batch whose statement does not fail, and that finds no row, leaves only keys behind without any. |

### The balances

| theorem | says | assumes | argument |
|---|---|---|---|
| `TableIsTheLedger` | `[]TableIsLedger` | | `BInv`, below. |
| `UpsertAccepted` | the rows aggregated from the logs of a height have different keys | | Of the same lemmas: every key of the entries becomes one row. A statement that was refused would be refused again by every retry. |

`MeantAssumption` is the only assumption. Of a log that makes extraction panic it says
nothing, and the step that would add it does not exist. The logs of a height are decoded to
entries, the entries are aggregated by key, and the rows are added to the table; each of the
three is a sum in another order. So the proof has sums first: `SumsExist` shows that the
library's sum over a finite set has the equation of its recursion, by a least
counterexample, since the library's induction theorems are out of reach; from it come sums of a
union, of a restriction, of pairs, and a sum taken group by group (`SumGroups`). Then, from
the inside out: a word decodes to its value, and none to 0 (`WordBytes`); the entries of a log,
whichever standard the number of its topics makes it, are the two rows of each movement it
means (`LogDecodes`), those of a batch as far as both its arrays go (`BatchDecodes`); those
of a height are those of its logs (`HeightDecodes`); aggregation keeps the amount of every key
and merges all its entries (`Aggregated`). `BInv` is the property with the types it needs;
`UpsertKeepsLedger` is its step: counting the transfers of a height once more adds to each key what the
rows of the height hold (`CountedMore`), and a key without a row had a sum of 0 (`CountedNone`).

### The others

| theorem | says | argument |
|---|---|---|
| `CallsEndInTime` | `[]EndsInTime` | `FInv`: a wait for a token ends within `LongestWait` of the moment it began, since the next token is no further away than the calls that hold one explain (`QueueInv`, by the cardinality of the waiting calls), and a pause ends within the budget (`TimeInv`). A batch that is cancelled takes no more tokens, and `QueueInv` stops there. |
| `CallsRetried` | `[]RetriedInBudget` | The first attempt pays for one wait and one request only (`AttemptInv`). |
| `RateIsKept` | `RateKept` | `RateInv`: tokens are an interval apart, of each other, of the next one and of the last request. |

Model-checked only:

* the liveness properties, since the prover does not handle fairness and ENABLED:
  `EventuallyCanonical`, `BalancesKeepUp`, `BackfillCompletes`, `ShutdownCompletes`,
  `FanOutEnds`, `ClientsEnd`, `RequestsEnd`, `TransfersCounted`, `CallsEnd`,
  `BothRun`, `StopsWhenTold` and `StreamFlows`, and with them `EventuallyComplete` and
  `BackfillReachesHead`, which the code does not have;
* that the properties of the runs that expect a violation fail.

No module declares a RECURSIVE operator.

## 5. Not modelled

* The copying of fields between the RPC node's answers, rows, JSON and GraphQL types; the
  rest of the generated executor: introspection, deferred fields, persisted queries.
* The spelling of words: the case of addresses, which are compared as text, is not
  modelled, nor are lengths and prefixes beyond well-formed or not.
* Approvals, which no code reads. `ResetBalancefillCursor`, `RunDownMigrations`, `fetchBlocksTxs`,
  `ParseBlock`, `ParseTx` and `ParseEvent`, which no program calls.
* Metrics: counters nobody else reads, and a server whose failure is ignored.
* The pool of 8 connections and the timeouts of the HTTP server, which delay.
* Two indexers at a time: the deployment has one.

## 6. Plan

Every invariant and every action property that a run checks is a theorem, and so is the
refinement. What is left:

1. An abstract specification of the read path (one atomic read of the tables per request) which
   `Api` implements as long as the writer does not act.
2. Ranks for the other liveness properties, as `WorkLeft` is one for `ShutdownCompletes`: the keys a
   request still waits for, the calls a cancelled batch still has in flight.
3. A bound on repeated credits through reorganisations. `CreditsBounded` as it stands needs a
   chain that only grows: where writers conflict, a restart is no fault (`crash_loop`).
