------------------------------ MODULE Graphql -------------------------------
(* The GraphQL handlers (handlers/graphql): the resolvers of the three       *)
(* queries, what the data loaders load below them, and where a null ends up  *)
(* (graph/generated.go, from the non-null types of schema.graphqls).         *)
EXTENDS Rest

BlockFilter == [id: Param, fromTime: Param, toTime: Param, fromId: Param,
                offset: Param]

GraphqlRequest(q) ==
    \/ q.field = "blocks" /\ q.filter \in BlockFilter \cup {Absent}
    \/ q.field \in {"transactions", "events"}

\* The numbers of a filter are scalars, and one that does not parse fails the
\* query before its resolver.  A filter that is not given is a nil pointer,
\* and so is a null among the topics: the resolver panics, which the executor
\* turns into an error of the query.
Usable(q) ==
    /\ q.filter # Absent
    /\ CASE q.field = "blocks" ->
              \A p \in DOMAIN q.filter : Parses(q.filter[p])
         [] q.field = "events" -> Absent \notin Elements(q.filter.topics)
         [] OTHER -> TRUE

\* The resolver Blocks takes exactly one of three groups.
BlockGroups(f) ==
    {g \in {"id", "offset", "time"} :
        CASE g = "id"     -> f.id # Absent
          [] g = "offset" -> f.fromId # Absent /\ f.offset # Absent
          [] g = "time"   -> f.fromTime # Absent /\ f.toTime # Absent}

\* The resolvers pass tx = false: transactions are loaded by field.
Blocks(f) ==
    {c \in {[op |-> "id", id |-> f.id, tx |-> FALSE],
            [op |-> "offset", from |-> f.fromId, offset |-> f.offset,
             tx |-> FALSE],
            [op |-> "time", from |-> f.fromTime, to |-> f.toTime,
             tx |-> FALSE]} :
        BlockGroups(f) = {c.op}}

Transactions(f) ==
    {[op |-> "txs", hash |-> Absent, from |-> f.from, to |-> f.to,
      fromBlock |-> Absent, toBlock |-> Absent, limit |-> Absent]}

Events(f) ==
    {[op |-> "events", emitter |-> f.emitter, topics |-> f.topics,
      fromBlock |-> Absent, toBlock |-> Absent, limit |-> Absent]}

GraphqlCalls(q) ==
    IF ~Usable(q) THEN {}
    ELSE CASE q.field = "blocks"       -> Blocks(q.filter)
           [] q.field = "transactions" -> Transactions(q.filter)
           [] q.field = "events"       -> Events(q.filter)

-----------------------------------------------------------------------------
(* The answer, from the rows loaded and the keys whose load failed.          *)

RowsOf(b, txs) == {r \in txs : r.block_id = b.id}

\* events is [Event!]!, so a failed load makes the transaction null.
NullTx(r, failed) == r.hash \in failed.txs

\* transactions is [Transaction!]!, so a failed load, or a null in the list,
\* makes the block null.  A block in [Block]! may be null.
NullBlock(b, txs, failed) ==
    \/ b.id \in failed.blocks
    \/ \E r \in RowsOf(b, txs) : NullTx(r, failed)
=============================================================================
