---------------------------- MODULE ApiProperties ---------------------------
(* What a reader of the API relies on, as properties of Api.                 *)
EXTENDS Api

\* The outcome is a status for REST, and the same in the body for GraphQL.
Answered(status) == pc = "answered" /\ Status(error) = status

Ok == Answered(200)

\* What a request is about, and its arguments as the client wrote them, under
\* the names of REST: GraphQL's filters are to mean the same.
About(q) ==
    IF q.api = "rest" THEN q.path
    ELSE CASE q.field = "blocks"       -> "/blocks"
           [] q.field = "transactions" -> "/transactions"
           [] q.field = "events"       -> "/events"

Args(q) ==
    LET f == q.filter IN
    CASE q.api = "rest" -> q
      [] q.api # "rest" /\ q.field = "blocks" ->
            [id |-> f.id, hash |-> Absent, from |-> f.fromId,
             offset |-> f.offset, fromTime |-> f.fromTime, toTime |-> f.toTime]
      [] q.api # "rest" /\ q.field = "transactions" ->
            [hash |-> Absent, from |-> f.from, to |-> f.to,
             fromBlock |-> Absent, toBlock |-> Absent, limit |-> Absent]
      [] q.api # "rest" /\ q.field = "events" ->
            [address |-> f.emitter, topics |-> f.topics,
             fromBlock |-> Absent, toBlock |-> Absent, limit |-> Absent]

\* Which blocks, transactions and events arguments ask for, in whole numbers:
\* those that match everything given; half a range is none.
Given(v, w) == v # Absent /\ w # Absent

WantedBlock(a, b) ==
    /\ a.id \in {Absent, b.id}
    /\ a.hash \in {Absent, b}
    /\ Given(a.from, a.offset) => b.id \in a.from..(a.from + a.offset - 1)
    /\ Given(a.fromTime, a.toTime) =>
           TimeOf[b] \in (a.fromTime + 1)..(a.toTime - 1)

InHeights(a, n) ==
    Given(a.fromBlock, a.toBlock) => n \in a.fromBlock..(a.toBlock - 1)

WantedTx(a, r) ==
    /\ a.hash \in {Absent, r.hash}
    /\ a.from \in {Absent, SenderOf[r.hash]}
    /\ a.to \in {Absent, RecipientOf[r.hash]}
    /\ InHeights(a, r.block_id)

WantedEvent(a, r) ==
    /\ a.address \in {Absent, EmitterOf[r.log]}
    /\ \A t \in Elements(a.topics) : t \in Elements(TopicsOf[r.log])
    /\ InHeights(a, r.block_id)

Wanted ==
    LET a == Args(req) IN
    CASE About(req) = "/blocks"       -> {b \in db.blocks : WantedBlock(a, b)}
      [] About(req) = "/transactions" -> {r \in db.txs : WantedTx(a, r)}
      [] About(req) = "/events"       -> {r \in db.events : WantedEvent(a, r)}
      [] About(req) = "/events/log"   ->
            {r \in db.events :
                TxOf[r.log] = a.txHash /\ IndexOf[r.log] = a.logIndex}

\* How many rows may be answered: offsetDefault where no limit is given.
RowLimit(a) == IF a.limit = Absent THEN OffsetDefault ELSE a.limit

\* Of the rows wanted the first RowLimit in any order, where there is a limit.
Enough ==
    IF About(req) \in {"/transactions", "/events"}
    THEN IF Cardinality(Wanted) <= RowLimit(Args(req))
         THEN Cardinality(Wanted) ELSE RowLimit(Args(req))
    ELSE Cardinality(Wanted)

\* The two requests that the code does not take at their word: a range of
\* heights whose start is no number starts at 0, since the error of its parse
\* is overwritten (utils.go:66-72); and one whose offset is missing or 0 is of
\* offsetDefault heights, more than MAX_OFFSET allows (query.go:84-86).
Misread ==
    LET a == Args(req) IN
    call.op = "offset" /\ (a.from = Malformed \/ a.offset \in {Absent, 0})

\* A request that is answered with 200 is answered with what its arguments, as
\* written, ask for, and all of it up to its limit: nothing between its text
\* and its statement wraps around, drops a condition or moves an end of a
\* range.  Misread names all that is excepted.
AnswersExact ==
    Ok /\ written = {} /\ ~Misread =>
        rows \subseteq Wanted /\ Cardinality(rows) = Enough

\* "not found" is the answer only when nothing that the request, as written,
\* asks for is stored, or when transactions were asked for and none of the
\* blocks has one.
NotFoundHonest ==
    Answered(404) /\ written = {} /\ ~Misread =>
        \/ Wanted = {}
        \/ call.op \in BlockOps /\ call.tx /\ \A b \in Wanted : TxsOf[b] = {}

-----------------------------------------------------------------------------
(* What several statements read belongs together.                            *)

WithTransactions ==
    /\ call.op \in BlockOps
    /\ IF IsRest THEN call.tx ELSE "transactions" \in req.select

\* A block is answered with its own transactions if its height was not written
\* between the two statements; and if it was, with those of one block or none,
\* never with a part of a list.
OwnTransactions ==
    Ok /\ WithTransactions =>
        \A b \in {c \in rows : c.id \notin failed.blocks} :
            LET hashes == {r.hash : r \in RowsOf(b, txs)} IN
            /\ b.id \notin written => hashes = TxsOf[b]
            /\ \/ hashes = {}
               \/ \E c \in Block : c.id = b.id /\ hashes = TxsOf[c]

\* A transaction is answered with all its events or with none, and with all of
\* them if its height was not written since it was read.
OwnEvents ==
    Ok /\ ~IsRest /\ "events" \in req.select =>
        \A r \in (IF call.op = "txs" THEN rows ELSE txs) :
            r.hash \notin failed.txs =>
                LET keys == {e.log : e \in {f \in events : TxOf[f.log] = r.hash}}
                    of(c) == {l \in LogsOf[c] : TxOf[l] = r.hash}
                    here == {c \in Block : c.id = r.block_id}
                IN /\ keys = {} \/ \E c \in here : keys = of(c)
                   /\ r.block_id \notin written =>
                          \E c \in here \cap db.blocks : keys = of(c)

\* A stored block, whose height was not written meanwhile, is null in an answer
\* only if it has no transaction, or one of its transactions has no event.
NullsJustified ==
    Ok /\ ~IsRest /\ call.op \in BlockOps /\ ~late /\ errors = 0 =>
        \A b \in rows :
            NullBlock(b, txs, failed) =>
                \/ b.id \in written
                \/ TxsOf[b] = {}
                \/ \E t \in TxsOf[b] : \A l \in LogsOf[b] : TxOf[l] # t

-----------------------------------------------------------------------------
\* Every request comes to an end: no loader keeps a key for ever.
RequestsEnd == pc \in {"first", "second", "load"} ~> pc = "answered"
=============================================================================
