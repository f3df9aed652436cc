-------------------------------- MODULE Query -------------------------------
(* The query service (core/services/query.go) and the checks of              *)
(* core/domain/rules.go it makes, as operators: what a call refuses, what its *)
(* first statement selects, and what the second one adds.  A call is a       *)
(* record:                                                                   *)
(*   [op: {"id", "hash", "offset", "time"}, ..., tx: BOOLEAN]   blocks       *)
(*   [op: {"txs"}, ...]   [op: {"events"}, ...]   [op: {"event"}, ...]       *)
EXTENDS QueryRepository, Sequences

CONSTANTS
    Word,           \* numbers are unsigned, below Word: 2^64
    OffsetDefault,  \* offsetDefault, 1000
    OffsetMax,      \* MAX_OFFSET
    RangeMaxTime,   \* MAX_RANGE_TIME
    Malformed,      \* no hash, address, topic or number
    MaxTopics       \* topicNumber, 4

ASSUME QueryAssumption ==
    /\ Word \in Nat /\ OffsetDefault \in Nat \ {0} /\ OffsetMax \in Nat
    /\ RangeMaxTime \in Nat /\ MaxTopics \in Nat
    /\ OffsetDefault < Word \div 2 /\ OffsetMax < Word \div 2

\* ParseHash, ParseAddress: length and prefix; nil is not checked.
WellFormed(v) == v # Malformed

ParseTopics(topics) ==
    Malformed \notin Elements(topics) /\ Len(topics) <= MaxTopics

ValidateBlockRange(from, to, max) ==
    from # 0 /\ to # 0 /\ from < to /\ to - from <= max

\* The check that filters make of their range: both ends or none.
RangeRefused(c) ==
    \/ (c.fromBlock = Absent) # (c.toBlock = Absent)
    \/ /\ c.fromBlock # Absent /\ c.toBlock # Absent
       /\ ~ValidateBlockRange(c.fromBlock, c.toBlock, OffsetMax)

LimitRefused(c) == c.limit # Absent /\ ~(c.limit > 0 /\ c.limit <= OffsetMax)

\* The checks of a call in their order, each with the error it returns.
Checks(c) ==
    CASE c.op = "id"     -> <<<<c.id = 0, "InvalidId">>>>
      [] c.op = "hash"   -> <<<<~WellFormed(c.hash), "InvalidHash">>>>
      [] c.op = "offset" -> <<<<c.offset > OffsetMax, "InvalidOffset">>>>
      [] c.op = "time"   ->
            <<<<~ValidateBlockRange(c.from, c.to, RangeMaxTime), "InvalidId">>>>
      [] c.op = "txs"    ->
            <<<<\A p \in {"hash", "from", "to", "fromBlock", "toBlock"} :
                    c[p] = Absent, "EmptyFilter">>,
              <<RangeRefused(c), "InvalidBlockRange">>,
              <<LimitRefused(c), "InvalidLimit">>,
              <<~WellFormed(c.hash), "InvalidHash">>,
              <<~WellFormed(c.from) \/ ~WellFormed(c.to), "InvalidAddress">>>>
      [] c.op = "events" ->
            <<<</\ \A p \in {"emitter", "fromBlock", "toBlock", "limit"} :
                       c[p] = Absent
                 /\ c.topics = <<>>, "EmptyFilter">>,
              <<RangeRefused(c), "InvalidBlockRange">>,
              <<LimitRefused(c), "InvalidLimit">>,
              <<~WellFormed(c.emitter), "InvalidAddress">>,
              <<~ParseTopics(c.topics), "InvalidTopics">>>>
      [] c.op = "event"  ->
            <<<<~WellFormed(c.hash), "InvalidHash">>,
              <<c.index < 0, "InvalidId">>>>

\* The error of the first check that fails.
Refusal(c) ==
    LET failed == {i \in DOMAIN Checks(c) : Checks(c)[i][1]}
    IN IF failed = {} THEN "none"
       ELSE Checks(c)[CHOOSE i \in failed : \A j \in failed : i <= j][2]

-----------------------------------------------------------------------------
(* The statements.                                                           *)

\* GetBlocksWithOffset: the number of heights, the end of the range.
EffectiveOffset(c) == IF c.offset = 0 THEN OffsetDefault ELSE c.offset

\* Mutant of RangeEnd: the last height of the range instead of its end.
RangeLast(c) == (c.from + EffectiveOffset(c) - 1) % Word

RangeEnd(c) == (c.from + EffectiveOffset(c)) % Word

\* database/sql refuses an unsigned argument with the highest bit set.
Sendable(v) == v # Absent => v < Word \div 2

Numbers(c) ==
    CASE c.op = "id"     -> {c.id}
      [] c.op = "offset" -> {c.from, RangeEnd(c)}
      [] c.op = "time"   -> {c.from, c.to}
      [] c.op \in {"txs", "events"} -> {c.fromBlock, c.toBlock}
      [] OTHER -> {}

LimitOf(c) == IF c.limit = Absent THEN OffsetDefault ELSE c.limit

\* What the first statement of a call may select.
Selected(c, d) ==
    CASE c.op = "id"     -> {GetBlockById(d, c.id)}
      [] c.op = "hash"   -> {GetBlockByHash(d, c.hash)}
      [] c.op = "offset" -> {GetBlocksByRangeId(d, c.from, RangeEnd(c))}
      [] c.op = "time"   -> {GetBlocksByRangeTime(d, c.from, c.to)}
      [] c.op = "txs"    -> Limited(GetTransactionsByFilter(d, c), LimitOf(c))
      [] c.op = "events" -> Limited(GetEventsByFilter(d, c), LimitOf(c))
      [] c.op = "event"  -> {GetEventByTxHashLogIndex(d, c.hash, c.index)}

BlockOps == {"id", "hash", "offset", "time"}

\* The transactions of the blocks selected, by a second statement.  That of
\* one block goes past the service, and its LIMIT is NULL.
SelectedTxs(ids, d) == GetTransactionsByBatchBlocksId(d, ids)
=============================================================================
