--------------------------- MODULE QueryRepository --------------------------
(* The SELECTs of repository/db/query.go, as operators on the contents d of   *)
(* the tables.  Each is one statement and sees one state of the tables.      *)
EXTENDS Repository, Sequences

CONSTANTS
    Absent,         \* an argument that is not given: nil, NULL, ""
    TimeOf,         \* block_timestamp of a block
    SenderOf,       \* from_addr and to_addr of a transaction, by its hash;
    RecipientOf,    \* Absent is the recipient of a contract creation
    IndexOf,        \* log_index, emitter and topics of a log, by its key
    EmitterOf,
    TopicsOf

ASSUME QueryRepositoryAssumption ==
    /\ Absent \notin Int
    /\ TimeOf \in [Block -> Int]

\* ($1 IS NULL OR column = $1)
Matches(arg, value) == arg = Absent \/ arg = value

\* Mutant of InRange: BETWEEN, which includes the upper end.
InRangeBetween(id, from, to) ==
    (from = Absent \/ id >= from) /\ (to = Absent \/ id <= to)

\* ($1 IS NULL OR block_id >= $1) AND ($2 IS NULL OR block_id < $2)
InRange(id, from, to) ==
    (from = Absent \/ id >= from) /\ (to = Absent \/ id < to)

GetBlockByHash(d, hash) == {b \in d.blocks : b = hash}

GetBlocksByRangeId(d, from, to) == {b \in d.blocks : InRange(b.id, from, to)}

\* Both ends are exclusive.
GetBlocksByRangeTime(d, from, to) ==
    {b \in d.blocks : TimeOf[b] > from /\ TimeOf[b] < to}

GetTransactionsByFilter(d, f) ==
    {r \in d.txs :
        /\ Matches(f.hash, r.hash)
        /\ Matches(f.from, SenderOf[r.hash])
        /\ Matches(f.to, RecipientOf[r.hash])
        /\ InRange(r.block_id, f.fromBlock, f.toBlock)}

\* Mutant of GetTransactionsByBatchBlocksId: a range from the first id to the
\* last, which leaves the last one out.
GetTransactionsByBlocksRange(d, ids) ==
    {r \in d.txs : r.block_id \in ids /\ \E n \in ids : r.block_id < n}

GetTransactionsByBatchBlocksId(d, ids) == {r \in d.txs : r.block_id \in ids}

Elements(list) == {list[i] : i \in DOMAIN list}

\* topics @> $3: all of them occur, in any order.
GetEventsByFilter(d, f) ==
    {r \in d.events :
        /\ Matches(f.emitter, EmitterOf[r.log])
        /\ Elements(f.topics) \subseteq Elements(TopicsOf[r.log])
        /\ InRange(r.block_id, f.fromBlock, f.toBlock)}

GetEventByTxHashLogIndex(d, hash, index) ==
    {r \in d.events : TxOf[r.log] = hash /\ IndexOf[r.log] = index}

\* Mutant of GetEventsByBatchTxsHash: a join with the topics loses the logs
\* that have none.
GetEventsWithTopics(d, hashes) ==
    {r \in d.events : TxOf[r.log] \in hashes /\ TopicsOf[r.log] # <<>>}

GetEventsByBatchTxsHash(d, hashes) == {r \in d.events : TxOf[r.log] \in hashes}

\* LIMIT n without ORDER BY: any n of the rows.
Limited(rows, n) ==
    IF Cardinality(rows) <= n THEN {rows}
    ELSE {few \in SUBSET rows : Cardinality(few) = n}

\* Mutant of Fetched: the error of the driver gets through.
FetchedRaw(rows) == IF rows = {} THEN "NoRows" ELSE "none"

\* fetchBlocks, fetchTxs, fetchEvents: no rows at all is ErrNotFound.
Fetched(rows) == IF rows = {} THEN "NotFound" ELSE "none"
=============================================================================
