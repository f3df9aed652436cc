--------------------------------- MODULE Api --------------------------------
(* cmd/api's read path: one request for blocks, transactions or events after *)
(* another, over REST or GraphQL, while cmd/indexer changes the tables.      *)
(* Requests share nothing but the tables and the connections to them, and    *)
(* none asks for a connection while it holds one; so one at a time tells     *)
(* everything.  The writer makes the changes that cmd/indexer makes, as long *)
(* as no deletion crosses a batch (StrayRowsCrossed of IndexerProperties).   *)
EXTENDS Graphql

CONSTANTS
    Requests,   \* the requests there may be
    Incoming,   \* the blocks that the writer may store
    MaxErrors   \* bound on failing statements

ASSUME ApiAssumption ==
    /\ MaxErrors \in Nat
    /\ Incoming \subseteq Block
    /\ \A q \in Requests :
          \/ q.api = "rest" /\ RestRequest(q)
          \/ q.api = "graphql" /\ GraphqlRequest(q)

VARIABLES
    pc,         \* what the request does next, see ApiPc
    req,        \* the request, Absent if there is none
    call,       \* the call it makes of the service
    error,      \* the error that ends it, or "none"
    rows,       \* the rows of the first statement
    txs,        \* rows of transactions of those blocks
    events,     \* rows of events of those transactions
    waiting,    \* keys the data loaders are asked for and have not loaded
    failed,     \* keys whose load failed
    late,       \* has the deadline of the request passed?
    errors,     \* statements that failed so far
    written     \* heights written since the first statement

reqVars == <<req, call, error, rows, txs, events, waiting, failed>>
apiVars == <<db, pc, reqVars, late, errors, written>>

\* idle      no request
\* first     before the first statement
\* second    before the second statement, of REST
\* load      the fields of GraphQL are being resolved
\* answered  written to the connection
ApiPc == {"idle", "first", "second", "load", "answered"}

NoKeys == [blocks |-> {}, txs |-> {}]

Keys == [blocks: SUBSET Height, txs: SUBSET Tx]

\* The errors of core/domain/errors.go, those of the handlers themselves, and
\* whatever a statement fails with.
Errors == {"none", "NotFound", "Parameters", "Internal", "EmptyFilter",
           "InvalidId", "InvalidHash", "InvalidAddress", "InvalidOffset",
           "InvalidBlockRange", "InvalidLimit", "InvalidTopics"}

ApiTypeOK ==
    /\ RepositoryTypeOK
    /\ pc \in ApiPc
    /\ req \in Requests \cup {Absent}
    /\ error \in Errors
    /\ rows \subseteq Block \cup TxRow \cup LogRow
    /\ txs \subseteq TxRow /\ events \subseteq LogRow
    /\ waiting \in Keys /\ failed \in Keys
    /\ late \in BOOLEAN
    /\ errors \in 0..MaxErrors
    /\ written \subseteq Height

Nothing ==
    /\ pc = "idle"
    /\ req = Absent /\ call = Absent /\ error = "none"
    /\ rows = {} /\ txs = {} /\ events = {}
    /\ waiting = NoKeys /\ failed = NoKeys
    /\ late = FALSE
    /\ written = {}

ApiInit == RepositoryInit /\ Nothing /\ errors = 0

-----------------------------------------------------------------------------
(* The writer, cmd/indexer.                                                  *)

Touched(S) == written' = IF pc \in {"idle", "first"} THEN {} ELSE written \cup S

\* Backfill stores a batch of blocks at a time, forwardfill and a retry store
\* one; forwardfill drops the height of a block that lost a fork.
Writer ==
    /\ \/ \E S \in SUBSET Incoming : StoresNew(S) /\ Touched({b.id : b \in S})
       \/ \E n \in Height : DropsHeight(n) /\ Touched({n})
    /\ UNCHANGED <<pc, reqVars, late, errors>>

-----------------------------------------------------------------------------
(* A request.                                                                *)

IsRest == req.api = "rest"

Calls(q) == IF q.api = "rest" THEN RestCalls(q) ELSE GraphqlCalls(q)

End(err) == pc' = "answered" /\ error' = err

Refuse(q) ==
    /\ Calls(q) = {}
    /\ call' = Absent
    /\ End("Parameters")

Validate(q) ==
    \E c \in Calls(q) :
        /\ call' = c
        /\ IF Refusal(c) = "none" THEN pc' = "first" /\ error' = "none"
                                  ELSE End(Refusal(c))

\* The handler parses the request and calls the service, which validates it.
Arrive(q) ==
    /\ pc = "idle"
    /\ req' = q
    /\ Refuse(q) \/ Validate(q)
    /\ UNCHANGED <<db, rows, txs, events, waiting, failed, late, errors,
                   written>>

\* Does the query select fields that data loaders resolve?
Nested(q) == q.api = "graphql" /\ q.field # "events" /\ q.select # {}

\* The keys that resolving the rows of the first statement asks for.
Asked(S) ==
    CASE req.field = "blocks"       -> [NoKeys EXCEPT !.blocks = {b.id : b \in S}]
      [] req.field = "transactions" -> [NoKeys EXCEPT !.txs = {r.hash : r \in S}]

NextPc ==
    CASE Nested(req) -> "load"
      [] call.op \in BlockOps /\ call.tx -> "second"
      [] OTHER -> "answered"

\* The first statement returns rows.
ReadRows ==
    /\ pc = "first" /\ ~late
    /\ \A v \in Numbers(call) : Sendable(v)
    /\ \E S \in Selected(call, db) :
          /\ Fetched(S) = "none"
          /\ rows' = S
          /\ waiting' = IF Nested(req) THEN Asked(S) ELSE NoKeys
    /\ pc' = NextPc
    /\ UNCHANGED <<db, req, call, error, txs, events, failed, late, errors,
                   written>>

\* It returns none.
ReadNothing ==
    /\ pc = "first" /\ ~late
    /\ \A v \in Numbers(call) : Sendable(v)
    /\ \E S \in Selected(call, db) : Fetched(S) # "none" /\ End(Fetched(S))
    /\ UNCHANGED <<db, req, call, rows, txs, events, waiting, failed, late,
                   errors, written>>

\* GetTransactionsByFilter with the block's id, or GetTransactionsByBatchBlocksId:
\* no transaction of any of the blocks is ErrNotFound.
ReadTxs ==
    /\ pc = "second" /\ ~late
    /\ txs' = SelectedTxs({b.id : b \in rows}, db)
    /\ End(Fetched(txs'))
    /\ UNCHANGED <<db, req, call, rows, events, waiting, failed, late, errors,
                   written>>

\* A statement fails: the database, a row that does not scan, an argument
\* that cannot be sent, or the deadline of the request.
StatementFails ==
    \/ late /\ UNCHANGED errors
    \/ ~late /\ errors < MaxErrors /\ errors' = errors + 1

ReadFails ==
    /\ pc \in {"first", "second"}
    /\ \/ StatementFails
       \/ /\ pc = "first" /\ \E v \in Numbers(call) : ~Sendable(v)
          /\ UNCHANGED errors
    /\ End("Internal")
    /\ UNCHANGED <<db, req, call, rows, txs, events, waiting, failed, late,
                   written>>

-----------------------------------------------------------------------------
(* The data loaders.  A millisecond after it was first asked, a loader takes *)
(* the keys it was asked for in one statement; fields resolve concurrently,  *)
(* so any of the keys waiting may make up a batch.                           *)

\* Mutant of LoadTransactions: without rows, nobody answers the keys.
LoadTransactionsUnanswered(K) ==
    /\ pc = "load" /\ ~late
    /\ K # {} /\ K \subseteq waiting.blocks
    /\ LET S == GetTransactionsByBatchBlocksId(db, K) IN
         /\ txs' = txs \cup S
         /\ waiting' =
                [blocks |-> IF S = {} THEN waiting.blocks
                                      ELSE waiting.blocks \ K,
                 txs    |-> IF "events" \in req.select
                            THEN waiting.txs \cup {r.hash : r \in S}
                            ELSE waiting.txs]
         /\ UNCHANGED failed
    /\ UNCHANGED <<db, pc, req, call, error, rows, events, late, errors,
                   written>>

\* getBatchTransactions.  The events of a transaction are asked for when its
\* block has been loaded, while other blocks may still wait.
LoadTransactions(K) ==
    /\ pc = "load" /\ ~late
    /\ K # {} /\ K \subseteq waiting.blocks
    /\ LET S == GetTransactionsByBatchBlocksId(db, K) IN
         /\ txs' = txs \cup S
         /\ waiting' =
                [blocks |-> waiting.blocks \ K,
                 txs    |-> IF "events" \in req.select
                            THEN waiting.txs \cup {r.hash : r \in S}
                            ELSE waiting.txs]
         /\ failed' = IF Fetched(S) = "none" THEN failed
                      ELSE [failed EXCEPT !.blocks = @ \cup K]
    /\ UNCHANGED <<db, pc, req, call, error, rows, events, late, errors,
                   written>>

\* Mutant of LoadEvents: a key without rows is an error of the whole batch.
LoadEventsOfAll(K) ==
    /\ pc = "load" /\ ~late
    /\ K # {} /\ K \subseteq waiting.txs
    /\ LET S == GetEventsByBatchTxsHash(db, K) IN
         /\ events' = events \cup S
         /\ failed' = IF K \subseteq {TxOf[r.log] : r \in S} THEN failed
                      ELSE [failed EXCEPT !.txs = @ \cup K]
    /\ waiting' = [waiting EXCEPT !.txs = @ \ K]
    /\ UNCHANGED <<db, pc, req, call, error, rows, txs, late, errors, written>>

\* getBatchEvents.
LoadEvents(K) ==
    /\ pc = "load" /\ ~late
    /\ K # {} /\ K \subseteq waiting.txs
    /\ LET S == GetEventsByBatchTxsHash(db, K) IN
         /\ events' = events \cup S
         /\ failed' = IF Fetched(S) = "none" THEN failed
                      ELSE [failed EXCEPT !.txs = @ \cup K]
    /\ waiting' = [waiting EXCEPT !.txs = @ \ K]
    /\ UNCHANGED <<db, pc, req, call, error, rows, txs, late, errors, written>>

\* handleError: every key of the batch gets the error.
LoadFails ==
    /\ pc = "load" /\ StatementFails
    /\ \E kind \in {"blocks", "txs"} : \E K \in SUBSET waiting[kind] \ {{}} :
          /\ waiting' = [waiting EXCEPT ![kind] = @ \ K]
          /\ failed'  = [failed EXCEPT ![kind] = @ \cup K]
    /\ UNCHANGED <<db, pc, req, call, error, rows, txs, events, late, written>>

Resolved ==
    /\ pc = "load" /\ waiting = NoKeys
    /\ End("none")
    /\ UNCHANGED <<db, req, call, rows, txs, events, waiting, failed, late,
                   errors, written>>

-----------------------------------------------------------------------------
DeadlinePasses ==
    /\ pc \in {"first", "second", "load"} /\ ~late
    /\ late' = TRUE
    /\ UNCHANGED <<db, pc, reqVars, errors, written>>

\* The connection takes the next request.
Done ==
    /\ pc = "answered"
    /\ pc' = "idle" /\ req' = Absent /\ call' = Absent /\ error' = "none"
    /\ rows' = {} /\ txs' = {} /\ events' = {}
    /\ waiting' = NoKeys /\ failed' = NoKeys
    /\ late' = FALSE /\ written' = {}
    /\ UNCHANGED <<db, errors>>

Step ==
    \/ ReadRows \/ ReadNothing \/ ReadTxs \/ ReadFails
    \/ \E K \in SUBSET Height : LoadTransactions(K)
    \/ \E K \in SUBSET Tx : LoadEvents(K)
    \/ LoadFails \/ Resolved

ApiNext ==
    \/ Writer
    \/ \E q \in Requests : Arrive(q)
    \/ Step
    \/ DeadlinePasses
    \/ Done

\* A goroutine of a request that can run does.  Nothing obliges requests to
\* come, the tables to change or a deadline to pass.
ApiSpec == ApiInit /\ [][ApiNext]_apiVars /\ WF_apiVars(Step)
=============================================================================
