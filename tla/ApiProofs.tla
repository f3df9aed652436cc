----------------------------- MODULE ApiProofs ------------------------------
(* Theorems about Api, for any contents of blocks, any requests that reach a *)
(* handler, and any size of the word and of the limits.                      *)
EXTENDS ApiProperties, FiniteSetTheorems, WellFoundedInduction, TLAPS

\* The first statement has been answered with rows, and nothing failed since.
Read == pc \in {"second", "load"} \/ (pc = "answered" /\ error = "none")

-----------------------------------------------------------------------------
(* The invariant that holds whatever blocks contain.                         *)

\* Before the first statement the request has nothing.
BlankInv ==
    pc \in {"idle", "first"} =>
        /\ rows = {} /\ txs = {} /\ events = {}
        /\ waiting = NoKeys /\ failed = NoKeys
        /\ written = {}

\* The request and its call, which nothing refused.
CallInv ==
    /\ pc # "idle" => req \in Requests
    /\ pc \in {"first", "second", "load"} => error = "none"
    /\ pc # "idle" /\ error \in {"none", "NotFound"} =>
           call \in Calls(req) /\ Refusal(call) = "none"
    /\ pc = "second" => IsRest /\ call.op \in BlockOps /\ call.tx
    /\ pc = "load" => Nested(req)

\* What kind of rows a call selects.
RowsInv ==
    Read => /\ call.op \in BlockOps => rows \subseteq Block
            /\ call.op = "txs" => rows \subseteq TxRow

\* What was read is what is wanted, until a height is written.
WantedInv ==
    Read /\ written = {} /\ ~Misread =>
        /\ rows \subseteq Wanted
        /\ Cardinality(rows) = Enough
        /\ call.op \in BlockOps => rows = Wanted

ReadInv == ApiTypeOK /\ BlankInv /\ CallInv /\ RowsInv /\ WantedInv

-----------------------------------------------------------------------------
(* The invariant that holds where transactions stay at their heights.        *)

\* The tables hold whole blocks: at most one of a height, its rows, no others.
TablesInv ==
    /\ \A b, c \in db.blocks : b.id = c.id => b = c
    /\ \A r \in TxRow :
           r \in db.txs <=>
               \E b \in db.blocks : b.id = r.block_id /\ r.hash \in TxsOf[b]
    /\ \A r \in LogRow :
           r \in db.events <=>
               \E b \in db.blocks : b.id = r.block_id /\ r.log \in LogsOf[b]

\* The rows of transactions that the request holds.
Held == IF call.op = "txs" THEN rows ELSE txs

\* A row is of a block of its height, and still there if nobody wrote that.
HeldInv ==
    Read =>
        /\ call.op \in BlockOps =>
               \A b \in rows : b.id \notin written => b \in db.blocks
        /\ \A r \in Held :
               /\ \E c \in Block : c.id = r.block_id /\ r.hash \in TxsOf[c]
               /\ r.block_id \notin written => r \in db.txs

HashesOf(b) == {r.hash : r \in RowsOf(b, txs)}

\* What OwnTransactions says of one block.
OwnTxs(b) ==
    /\ b.id \notin written => HashesOf(b) = TxsOf[b]
    /\ \/ HashesOf(b) = {}
       \/ \E c \in Block : c.id = b.id /\ HashesOf(b) = TxsOf[c]

\* Each block's transactions are loaded at once, and once.
LoadedTxs ==
    Read /\ pc # "second" /\ WithTransactions =>
        \A b \in rows : \/ b.id \in waiting.blocks \cup failed.blocks
                        \/ OwnTxs(b)

LogsHeld(h) == {e.log : e \in {f \in events : TxOf[f.log] = h}}

LogsIn(c, h) == {l \in LogsOf[c] : TxOf[l] = h}

\* What OwnEvents says of one transaction.
OwnLogs(r) ==
    /\ \/ LogsHeld(r.hash) = {}
       \/ \E c \in Block : c.id = r.block_id /\ LogsHeld(r.hash) = LogsIn(c, r.hash)
    /\ r.block_id \notin written =>
           \E c \in db.blocks :
               c.id = r.block_id /\ LogsHeld(r.hash) = LogsIn(c, r.hash)

LoadedLogs ==
    Read /\ ~IsRest /\ "events" \in req.select =>
        \A r \in Held : \/ r.hash \in waiting.txs \cup failed.txs
                        \/ OwnLogs(r)

\* Keys are asked for once: of rows that are there, and before what they load.
KeysInv ==
    Read =>
        /\ \A r \in txs : r.block_id \notin waiting.blocks
        /\ \A e \in events : TxOf[e.log] \notin waiting.txs
        /\ \A h \in waiting.txs \cup failed.txs \cup {TxOf[e.log] : e \in events} :
               \E r \in Held : r.hash = h
        /\ pc = "second" => txs = {} /\ failed = NoKeys
        /\ pc # "load" => waiting = NoKeys
        /\ call.op \notin BlockOps => waiting.blocks = {}

\* Where no statement failed, a load fails only if there is nothing to load.
FailedInv ==
    Read /\ ~late /\ errors = 0 =>
        /\ call.op \in BlockOps =>
               \A b \in rows : b.id \in failed.blocks =>
                   b.id \in written \/ TxsOf[b] = {}
        /\ \A r \in Held : r.hash \in failed.txs =>
               \/ r.block_id \in written
               \/ \A b \in db.blocks :
                      b.id = r.block_id => \A l \in LogsOf[b] : TxOf[l] # r.hash

OwnInv == /\ TablesInv /\ HeldInv /\ KeysInv
          /\ LoadedTxs /\ LoadedLogs /\ FailedInv

-----------------------------------------------------------------------------
(* Calls.                                                                    *)

Ops == BlockOps \cup {"txs", "events", "event"}

\* What a call has, and how a GraphQL query's field determines its kind.
Shape(q, c) ==
    /\ c.op \in Ops
    /\ c.op = "offset" => c.from \in Nat /\ c.offset \in Nat
    /\ c.op = "time" => c.from \in Nat /\ c.to \in Nat
    /\ c.op \in {"txs", "events"} => {c.fromBlock, c.toBlock} \subseteq Nat \cup {Absent}
    /\ q.api = "graphql" =>
           /\ q.field = "blocks" => c.op \in BlockOps /\ c.tx = FALSE
           /\ q.field = "transactions" => c.op = "txs"
           /\ q.field = "events" => c.op = "events"
           /\ q.field \in {"blocks", "transactions", "events"}

LEMMA WordIsPositive == Word - 1 \in Nat
  BY QueryAssumption

LEMMA ParseUintNat ==
    ASSUME NEW v \in Param, v # Absent
    PROVE  ParseUint(v) \in Nat
  BY WordIsPositive DEF ParseUint, Param

LEMMA ParsesNat ==
    ASSUME NEW v \in Param, Parses(v)
    PROVE  v \in Nat \cup {Absent}
  BY WordIsPositive DEF Parses, Param

LEMMA RestShape ==
    ASSUME NEW q \in Requests, q.api = "rest", NEW c \in Calls(q)
    PROVE  Shape(q, c)
<1>0. RestRequest(q) /\ c \in RestCalls(q)
  BY ApiAssumption DEF Calls
<1>1. CASE q.path = "/blocks"
  <2>1. /\ c \in extractBlockDTO(q)
        /\ {q.id, q.from, q.offset, q.fromTime, q.toTime} \subseteq Param
    BY <1>0, <1>1 DEF RestCalls, RestRequest
  <2>2. Groups(q) = {c.op}
    BY <2>1 DEF extractBlockDTO
  <2>3. c.op \in BlockOps
    BY <2>2 DEF Groups, BlockOps
  <2>4. CASE c.op = "offset"
    <3>1. q.from # Absent
      BY <2>2, <2>4 DEF Groups
    <3>2. /\ c.from = ParseUint(q.from)
          /\ c.offset = IF q.offset = Absent THEN 0 ELSE ParseUint(q.offset)
      BY <2>1, <2>4 DEF extractBlockDTO
    <3>3. c.from \in Nat /\ c.offset \in Nat
      BY <2>1, <3>1, <3>2, ParseUintNat
    <3> QED
      BY <2>4, <3>3 DEF Shape, Ops, BlockOps
  <2>5. CASE c.op = "time"
    <3>1. q.fromTime # Absent /\ q.toTime # Absent
      BY <2>2, <2>5 DEF Groups
    <3>2. c.from = ParseUint(q.fromTime) /\ c.to = ParseUint(q.toTime)
      BY <2>1, <2>5 DEF extractBlockDTO
    <3>3. c.from \in Nat /\ c.to \in Nat
      BY <2>1, <3>1, <3>2, ParseUintNat
    <3> QED
      BY <2>5, <3>3 DEF Shape, Ops, BlockOps
  <2> QED
    BY <2>3, <2>4, <2>5 DEF Shape, Ops, BlockOps
<1>2. CASE q.path = "/transactions"
  <2>1. c \in extractTxFilter(q) /\ {q.fromBlock, q.toBlock} \subseteq Param
    BY <1>0, <1>2 DEF RestCalls, RestRequest
  <2>2. /\ c.op = "txs" /\ c.fromBlock = q.fromBlock /\ c.toBlock = q.toBlock
        /\ Parses(q.fromBlock) /\ Parses(q.toBlock)
    BY <2>1 DEF extractTxFilter
  <2> QED
    BY <2>1, <2>2, ParsesNat DEF Shape, Ops
<1>3. CASE q.path = "/events"
  <2>1. c \in extractEventFilter(q) /\ {q.fromBlock, q.toBlock} \subseteq Param
    BY <1>0, <1>3 DEF RestCalls, RestRequest
  <2>2. /\ c.op = "events" /\ c.fromBlock = q.fromBlock /\ c.toBlock = q.toBlock
        /\ Parses(q.fromBlock) /\ Parses(q.toBlock)
    BY <2>1 DEF extractEventFilter
  <2> QED
    BY <2>1, <2>2, ParsesNat DEF Shape, Ops
<1>4. CASE q.path = "/events/log"
  <2>1. c \in extractEventKey(q)
    BY <1>0, <1>4 DEF RestCalls
  <2> QED
    BY <2>1 DEF extractEventKey, Shape, Ops
<1> QED
  BY <1>0, <1>1, <1>2, <1>3, <1>4 DEF RestRequest

LEMMA GraphqlShape ==
    ASSUME NEW q \in Requests, q.api = "graphql", NEW c \in Calls(q)
    PROVE  Shape(q, c)
<1>0. GraphqlRequest(q) /\ c \in GraphqlCalls(q) /\ Usable(q)
  BY ApiAssumption DEF Calls, GraphqlCalls
<1>1. CASE q.field = "blocks"
  <2>1. q.filter \in BlockFilter /\ c \in Blocks(q.filter)
    BY <1>0, <1>1 DEF GraphqlRequest, GraphqlCalls, Usable
  <2>2. \A p \in {"id", "fromTime", "toTime", "fromId", "offset"} :
            Parses(q.filter[p])
    BY <1>0, <1>1, <2>1 DEF Usable, BlockFilter
  <2>3. BlockGroups(q.filter) = {c.op} /\ c.tx = FALSE
    BY <2>1 DEF Blocks
  <2>4. c.op \in BlockOps
    BY <2>3 DEF BlockGroups, BlockOps
  <2>5. c.op = "offset" => c.from \in Nat /\ c.offset \in Nat
    <3> HAVE c.op = "offset"
    <3>1. c.from = q.filter.fromId /\ c.offset = q.filter.offset
      BY <2>1 DEF Blocks
    <3>2. q.filter.fromId # Absent /\ q.filter.offset # Absent
      BY <2>3 DEF BlockGroups
    <3> QED
      BY <2>1, <2>2, <3>1, <3>2, ParsesNat DEF BlockFilter
  <2>6. c.op = "time" => c.from \in Nat /\ c.to \in Nat
    <3> HAVE c.op = "time"
    <3>1. c.from = q.filter.fromTime /\ c.to = q.filter.toTime
      BY <2>1 DEF Blocks
    <3>2. q.filter.fromTime # Absent /\ q.filter.toTime # Absent
      BY <2>3 DEF BlockGroups
    <3> QED
      BY <2>1, <2>2, <3>1, <3>2, ParsesNat DEF BlockFilter
  <2> QED
    BY <1>1, <2>3, <2>4, <2>5, <2>6 DEF Shape, Ops, BlockOps
<1>2. CASE q.field = "transactions"
  <2>1. c \in Transactions(q.filter)
    BY <1>0, <1>2 DEF GraphqlCalls
  <2> QED
    BY <1>2, <2>1 DEF Transactions, Shape, Ops, BlockOps
<1>3. CASE q.field = "events"
  <2>1. c \in Events(q.filter)
    BY <1>0, <1>3 DEF GraphqlCalls
  <2> QED
    BY <1>3, <2>1 DEF Events, Shape, Ops, BlockOps
<1> QED
  BY <1>0, <1>1, <1>2, <1>3 DEF GraphqlRequest

LEMMA CallShape ==
    ASSUME NEW q \in Requests, NEW c \in Calls(q)
    PROVE  Shape(q, c)
  BY RestShape, GraphqlShape, ApiAssumption

-----------------------------------------------------------------------------
(* Checks.                                                                   *)

\* The first check that fails is one of those that fail.
LEMMA FirstFailure ==
    ASSUME NEW n \in Nat, NEW S \in SUBSET (1..n), S # {}
    PROVE  (CHOOSE i \in S : \A j \in S : i <= j) \in S
<1>1. PICK R : R = OpToRel(<, Nat)
  OBVIOUS
<1>2. /\ IsWellFoundedOn(R, Nat)
      /\ \A x, y \in Nat : y < x => <<y, x>> \in R
  BY <1>1, NatLessThanWellFounded, Zenon DEF OpToRel
<1>3. S \subseteq Nat
  OBVIOUS
<1>4. \E x \in S : \A y \in S : ~(<<y, x>> \in R)
  BY <1>2, <1>3, WFMin, Zenon
<1>5. PICK x \in S : \A y \in S : ~(<<y, x>> \in R)
  BY <1>4, Zenon
<1>6. \A y \in S : x \in Nat /\ y \in Nat /\ ~(y < x)
  BY <1>2, <1>3, <1>5, Zenon
<1>7. \A y \in S : x <= y
  BY <1>6
<1> QED
  BY <1>7

\* A call is refused with an error of its own, never with "not found", or
\* none of its checks fails.
LEMMA RefusalOf ==
    ASSUME NEW c, NEW n \in Nat, NEW errs, DOMAIN Checks(c) = 1..n,
           \A i \in 1..n : Checks(c)[i][2] \in errs
    PROVE  \/ Refusal(c) \in errs
           \/ Refusal(c) = "none" /\ \A i \in 1..n : ~Checks(c)[i][1]
<1> DEFINE S == {i \in DOMAIN Checks(c) : Checks(c)[i][1]}
<1>1. CASE S = {}
  BY <1>1 DEF Refusal
<1>2. CASE S # {}
  <2>1. PICK k : k = CHOOSE i \in S : \A j \in S : i <= j
    OBVIOUS
  <2>2. k \in 1..n
    BY <1>2, <2>1, FirstFailure
  <2>3. Refusal(c) = Checks(c)[k][2]
    BY <1>2, <2>1 DEF Refusal
  <2> QED
    BY <2>2, <2>3
<1> QED
  BY <1>1, <1>2

Refused == Errors \ {"none", "NotFound"}

\* What of the checks matters to the statements.
Checked(c) ==
    /\ c.op = "offset" => ~(c.offset > OffsetMax)
    /\ c.op = "time" => ValidateBlockRange(c.from, c.to, RangeMaxTime)
    /\ c.op \in {"txs", "events"} => ~RangeRefused(c) /\ ~LimitRefused(c)

LEMMA RefusalOfCall ==
    ASSUME NEW c, c.op \in Ops
    PROVE  Refusal(c) \in Refused \/ (Refusal(c) = "none" /\ Checked(c))
<1>1. CASE c.op = "id"
  <2>1. Checks(c) = <<<<c.id = 0, "InvalidId">>>>
    BY <1>1 DEF Checks
  <2>2. DOMAIN Checks(c) = 1..1 /\ \A i \in 1..1 : Checks(c)[i][2] \in Refused
    BY <2>1 DEF Refused, Errors
  <2> QED
    BY <1>1, <2>2, RefusalOf DEF Checked
<1>2. CASE c.op = "hash"
  <2>1. Checks(c) = <<<<~WellFormed(c.hash), "InvalidHash">>>>
    BY <1>2 DEF Checks
  <2>2. DOMAIN Checks(c) = 1..1 /\ \A i \in 1..1 : Checks(c)[i][2] \in Refused
    BY <2>1 DEF Refused, Errors
  <2> QED
    BY <1>2, <2>2, RefusalOf DEF Checked
<1>3. CASE c.op = "offset"
  <2>1. Checks(c) = <<<<c.offset > OffsetMax, "InvalidOffset">>>>
    BY <1>3 DEF Checks
  <2>2. DOMAIN Checks(c) = 1..1 /\ \A i \in 1..1 : Checks(c)[i][2] \in Refused
    BY <2>1 DEF Refused, Errors
  <2>3. Checks(c)[1][1] = (c.offset > OffsetMax)
    BY <2>1
  <2>4. \/ Refusal(c) \in Refused
        \/ Refusal(c) = "none" /\ ~Checks(c)[1][1]
    <3>1. \/ Refusal(c) \in Refused
          \/ Refusal(c) = "none" /\ \A i \in 1..1 : ~Checks(c)[i][1]
      BY <2>2, RefusalOf
    <3>2. 1 \in 1..1
      OBVIOUS
    <3> QED
      BY <3>1, <3>2, Zenon
  <2>5. \/ Refusal(c) \in Refused
        \/ Refusal(c) = "none" /\ ~(c.offset > OffsetMax)
    BY <2>3, <2>4, Zenon
  <2> QED
    BY <1>3, <2>5 DEF Checked
<1>4. CASE c.op = "time"
  <2>1. Checks(c) = <<<<~ValidateBlockRange(c.from, c.to, RangeMaxTime),
                        "InvalidId">>>>
    BY <1>4 DEF Checks
  <2>2. DOMAIN Checks(c) = 1..1 /\ \A i \in 1..1 : Checks(c)[i][2] \in Refused
    BY <2>1 DEF Refused, Errors
  <2>3. Checks(c)[1][1] = ~ValidateBlockRange(c.from, c.to, RangeMaxTime)
    BY <2>1
  <2>4. \/ Refusal(c) \in Refused
        \/ Refusal(c) = "none" /\ ~Checks(c)[1][1]
    <3>1. \/ Refusal(c) \in Refused
          \/ Refusal(c) = "none" /\ \A i \in 1..1 : ~Checks(c)[i][1]
      BY <2>2, RefusalOf
    <3>2. 1 \in 1..1
      OBVIOUS
    <3> QED
      BY <3>1, <3>2, Zenon
  <2>5. \/ Refusal(c) \in Refused
        \/ /\ Refusal(c) = "none"
           /\ ValidateBlockRange(c.from, c.to, RangeMaxTime)
    BY <2>3, <2>4, Zenon
  <2> QED
    BY <1>4, <2>5 DEF Checked
<1>5. CASE c.op = "txs"
  <2>1. /\ DOMAIN Checks(c) = 1..5
        /\ Checks(c)[1][2] = "EmptyFilter"
        /\ Checks(c)[2] = <<RangeRefused(c), "InvalidBlockRange">>
        /\ Checks(c)[3] = <<LimitRefused(c), "InvalidLimit">>
        /\ Checks(c)[4][2] = "InvalidHash"
        /\ Checks(c)[5][2] = "InvalidAddress"
    BY <1>5 DEF Checks
  <2>2. \A i \in 1..5 : Checks(c)[i][2] \in Refused
    BY <2>1 DEF Refused, Errors
  <2>3. /\ Checks(c)[2][1] = RangeRefused(c)
        /\ Checks(c)[3][1] = LimitRefused(c)
    BY <2>1
  <2>4. \/ Refusal(c) \in Refused
        \/ Refusal(c) = "none" /\ ~Checks(c)[2][1] /\ ~Checks(c)[3][1]
    <3>1. \/ Refusal(c) \in Refused
          \/ Refusal(c) = "none" /\ \A i \in 1..5 : ~Checks(c)[i][1]
      BY <2>1, <2>2, RefusalOf
    <3>2. 2 \in 1..5 /\ 3 \in 1..5
      OBVIOUS
    <3> QED
      BY <3>1, <3>2, Zenon
  <2>5. \/ Refusal(c) \in Refused
        \/ Refusal(c) = "none" /\ ~RangeRefused(c) /\ ~LimitRefused(c)
    BY <2>3, <2>4, Zenon
  <2> QED
    BY <1>5, <2>5 DEF Checked
<1>6. CASE c.op = "events"
  <2>1. /\ DOMAIN Checks(c) = 1..5
        /\ Checks(c)[1][2] = "EmptyFilter"
        /\ Checks(c)[2] = <<RangeRefused(c), "InvalidBlockRange">>
        /\ Checks(c)[3] = <<LimitRefused(c), "InvalidLimit">>
        /\ Checks(c)[4][2] = "InvalidAddress"
        /\ Checks(c)[5][2] = "InvalidTopics"
    BY <1>6 DEF Checks
  <2>2. \A i \in 1..5 : Checks(c)[i][2] \in Refused
    BY <2>1 DEF Refused, Errors
  <2>3. /\ Checks(c)[2][1] = RangeRefused(c)
        /\ Checks(c)[3][1] = LimitRefused(c)
    BY <2>1
  <2>4. \/ Refusal(c) \in Refused
        \/ Refusal(c) = "none" /\ ~Checks(c)[2][1] /\ ~Checks(c)[3][1]
    <3>1. \/ Refusal(c) \in Refused
          \/ Refusal(c) = "none" /\ \A i \in 1..5 : ~Checks(c)[i][1]
      BY <2>1, <2>2, RefusalOf
    <3>2. 2 \in 1..5 /\ 3 \in 1..5
      OBVIOUS
    <3> QED
      BY <3>1, <3>2, Zenon
  <2>5. \/ Refusal(c) \in Refused
        \/ Refusal(c) = "none" /\ ~RangeRefused(c) /\ ~LimitRefused(c)
    BY <2>3, <2>4, Zenon
  <2> QED
    BY <1>6, <2>5 DEF Checked
<1>7. CASE c.op = "event"
  <2>1. Checks(c) = <<<<~WellFormed(c.hash), "InvalidHash">>,
                      <<c.index < 0, "InvalidId">>>>
    BY <1>7 DEF Checks
  <2>2. DOMAIN Checks(c) = 1..2 /\ \A i \in 1..2 : Checks(c)[i][2] \in Refused
    BY <2>1 DEF Refused, Errors
  <2> QED
    BY <1>7, <2>2, RefusalOf DEF Checked
<1> QED
  BY <1>1, <1>2, <1>3, <1>4, <1>5, <1>6, <1>7 DEF Ops, BlockOps

-----------------------------------------------------------------------------
(* From a request as it is written to its call.                              *)

\* A call takes the arguments of its request over, except where the parse of
\* a number fails unnoticed and where an offset is not given; and what it does
\* not take over was not given.
Written(a, c) ==
    /\ c.op = "id" =>
           /\ c.id = a.id /\ a.id # Absent /\ a.hash = Absent
           /\ ~Given(a.from, a.offset) /\ ~Given(a.fromTime, a.toTime)
    /\ c.op = "hash" =>
           /\ c.hash = a.hash /\ a.hash # Absent /\ a.id = Absent
           /\ ~Given(a.from, a.offset) /\ ~Given(a.fromTime, a.toTime)
    /\ c.op = "offset" =>
           /\ a.id = Absent /\ a.hash = Absent /\ ~Given(a.fromTime, a.toTime)
           /\ a.from # Absent
           /\ c.from = a.from \/ a.from = Malformed \/ c.from = Word - 1
           /\ a.offset # Absent => c.offset = a.offset
    /\ c.op = "time" =>
           /\ a.id = Absent /\ a.hash = Absent /\ ~Given(a.from, a.offset)
           /\ a.fromTime # Absent
           /\ c.from = a.fromTime \/ c.from = 0 \/ c.from = Word - 1
           /\ c.to = a.toTime /\ c.to \in 0..(Word - 1)
    /\ c.op = "txs" =>
           /\ c.hash = a.hash /\ c.from = a.from /\ c.to = a.to
           /\ c.fromBlock = a.fromBlock /\ c.toBlock = a.toBlock
           /\ c.limit = a.limit
    /\ c.op = "events" =>
           /\ c.emitter = a.address /\ c.topics = a.topics
           /\ c.fromBlock = a.fromBlock /\ c.toBlock = a.toBlock
           /\ c.limit = a.limit
    /\ c.op = "event" => c.hash = a.txHash /\ c.index = a.logIndex

\* The kind of a call is what its request is about.
KindIs(path, c) ==
    /\ path = "/blocks" <=> c.op \in BlockOps
    /\ path = "/transactions" <=> c.op = "txs"
    /\ path = "/events" <=> c.op = "events"
    /\ path = "/events/log" <=> c.op = "event"

LEMMA ParseUintIs ==
    ASSUME NEW v \in Param, v # Absent
    PROVE  /\ ParseUint(v) \in 0..(Word - 1)
           /\ \/ ParseUint(v) = v
              \/ v = Malformed /\ ParseUint(v) = 0
              \/ ParseUint(v) = Word - 1
           /\ Parses(v) => ParseUint(v) = v
  BY WordIsPositive DEF ParseUint, Param, Parses

LEMMA RestWritten ==
    ASSUME NEW q \in Requests, q.api = "rest", NEW c \in Calls(q)
    PROVE  Written(Args(q), c) /\ KindIs(About(q), c)
<1>0. RestRequest(q) /\ c \in RestCalls(q) /\ Args(q) = q /\ About(q) = q.path
  BY ApiAssumption DEF Calls, Args, About
<1>1. CASE q.path = "/blocks"
  <2>1. /\ c \in extractBlockDTO(q)
        /\ {q.id, q.from, q.offset, q.fromTime, q.toTime} \subseteq Param
    BY <1>0, <1>1 DEF RestCalls, RestRequest
  <2>2. Groups(q) = {c.op}
    BY <2>1 DEF extractBlockDTO
  <2>3. c.op \in BlockOps
    BY <2>2 DEF Groups, BlockOps
  <2>4. /\ c.op = "id" <=> q.id # Absent
        /\ c.op = "hash" <=> q.hash # Absent
        /\ c.op = "offset" <=> q.from # Absent
        /\ c.op = "time" <=> q.fromTime # Absent /\ q.toTime # Absent
    BY <2>2, <2>3 DEF Groups, BlockOps
  <2>5. c.op = "id" => c.id = q.id
    <3> HAVE c.op = "id"
    <3>1. c.id = ParseUint(q.id) /\ Parses(q.id)
      BY <2>1 DEF extractBlockDTO
    <3> QED
      BY <3>1, <2>1, <2>4, ParseUintIs
  <2>6. c.op = "hash" => c.hash = q.hash
    BY <2>1 DEF extractBlockDTO
  <2>7. c.op = "offset" =>
            /\ c.from = q.from \/ q.from = Malformed \/ c.from = Word - 1
            /\ q.offset # Absent => c.offset = q.offset
    <3> HAVE c.op = "offset"
    <3>1. /\ c.from = ParseUint(q.from)
          /\ q.offset # Absent =>
                 c.offset = ParseUint(q.offset) /\ Parses(q.offset)
      BY <2>1 DEF extractBlockDTO
    <3> QED
      BY <3>1, <2>1, <2>4, ParseUintIs
  <2>8. c.op = "time" =>
            /\ c.from = q.fromTime \/ c.from = 0 \/ c.from = Word - 1
            /\ c.to = q.toTime /\ c.to \in 0..(Word - 1)
    <3> HAVE c.op = "time"
    <3>1. /\ c.from = ParseUint(q.fromTime)
          /\ c.to = ParseUint(q.toTime) /\ Parses(q.toTime)
      BY <2>1 DEF extractBlockDTO
    <3> QED
      BY <3>1, <2>1, <2>4, ParseUintIs
  <2>9. KindIs(q.path, c)
    BY <1>1, <2>3 DEF KindIs, BlockOps
  <2> QED
    BY <1>0, <2>3, <2>4, <2>5, <2>6, <2>7, <2>8, <2>9
       DEF Written, Given, BlockOps
<1>2. CASE q.path = "/transactions"
  <2>1. c \in extractTxFilter(q)
    BY <1>0, <1>2 DEF RestCalls
  <2>2. /\ c.op = "txs" /\ c.hash = q.hash /\ c.from = q.from /\ c.to = q.to
        /\ c.fromBlock = q.fromBlock /\ c.toBlock = q.toBlock
        /\ c.limit = q.limit
    BY <2>1 DEF extractTxFilter
  <2> QED
    BY <1>0, <1>2, <2>2 DEF Written, KindIs, BlockOps
<1>3. CASE q.path = "/events"
  <2>1. c \in extractEventFilter(q)
    BY <1>0, <1>3 DEF RestCalls
  <2>2. /\ c.op = "events" /\ c.emitter = q.address /\ c.topics = q.topics
        /\ c.fromBlock = q.fromBlock /\ c.toBlock = q.toBlock
        /\ c.limit = q.limit
    BY <2>1 DEF extractEventFilter
  <2> QED
    BY <1>0, <1>3, <2>2 DEF Written, KindIs, BlockOps
<1>4. CASE q.path = "/events/log"
  <2>1. c \in extractEventKey(q)
    BY <1>0, <1>4 DEF RestCalls
  <2>2. c.op = "event" /\ c.hash = q.txHash /\ c.index = q.logIndex
    BY <2>1 DEF extractEventKey
  <2> QED
    BY <1>0, <1>4, <2>2 DEF Written, KindIs, BlockOps
<1> QED
  BY <1>0, <1>1, <1>2, <1>3, <1>4 DEF RestRequest

LEMMA GraphqlWritten ==
    ASSUME NEW q \in Requests, q.api = "graphql", NEW c \in Calls(q)
    PROVE  Written(Args(q), c) /\ KindIs(About(q), c)
<1>0. GraphqlRequest(q) /\ c \in GraphqlCalls(q) /\ Usable(q)
  BY ApiAssumption DEF Calls, GraphqlCalls
<1> DEFINE f == q.filter
<1>1. CASE q.field = "blocks"
  <2>1. f \in BlockFilter /\ c \in Blocks(f)
    BY <1>0, <1>1 DEF GraphqlRequest, GraphqlCalls, Usable
  <2>2. /\ Args(q).id = f.id /\ Args(q).hash = Absent
        /\ Args(q).from = f.fromId /\ Args(q).offset = f.offset
        /\ Args(q).fromTime = f.fromTime /\ Args(q).toTime = f.toTime
        /\ About(q) = "/blocks"
    BY <1>1 DEF Args, About
  <2>3. BlockGroups(f) = {c.op}
    BY <2>1 DEF Blocks
  <2>4. c.op \in {"id", "offset", "time"}
    BY <2>3 DEF BlockGroups
  <2>5. /\ c.op = "id" <=> f.id # Absent
        /\ c.op = "offset" <=> f.fromId # Absent /\ f.offset # Absent
        /\ c.op = "time" <=> f.fromTime # Absent /\ f.toTime # Absent
    BY <2>3, <2>4 DEF BlockGroups
  <2>6. /\ c.op = "id" => c.id = f.id
        /\ c.op = "offset" => c.from = f.fromId /\ c.offset = f.offset
        /\ c.op = "time" => c.from = f.fromTime /\ c.to = f.toTime
    BY <2>1 DEF Blocks
  <2>7. c.op = "time" => c.to \in 0..(Word - 1)
    <3>1. f.toTime \in Param /\ Parses(f.toTime)
      BY <1>0, <1>1, <2>1 DEF Usable, BlockFilter
    <3> QED
      BY <2>5, <2>6, <3>1 DEF Param, Parses
  <2> QED
    BY <2>2, <2>4, <2>5, <2>6, <2>7 DEF Written, Given, KindIs, BlockOps
<1>2. CASE q.field = "transactions"
  <2>1. c \in Transactions(f)
    BY <1>0, <1>2 DEF GraphqlCalls
  <2>2. /\ Args(q) = [hash |-> Absent, from |-> f.from, to |-> f.to,
                      fromBlock |-> Absent, toBlock |-> Absent,
                      limit |-> Absent]
        /\ About(q) = "/transactions"
    BY <1>2 DEF Args, About
  <2> QED
    BY <2>1, <2>2 DEF Transactions, Written, KindIs, BlockOps
<1>3. CASE q.field = "events"
  <2>1. c \in Events(f)
    BY <1>0, <1>3 DEF GraphqlCalls
  <2>2. /\ Args(q) = [address |-> f.emitter, topics |-> f.topics,
                      fromBlock |-> Absent, toBlock |-> Absent,
                      limit |-> Absent]
        /\ About(q) = "/events"
    BY <1>3 DEF Args, About
  <2> QED
    BY <2>1, <2>2 DEF Events, Written, KindIs, BlockOps
<1> QED
  BY <1>0, <1>1, <1>2, <1>3 DEF GraphqlRequest

LEMMA CallIsWritten ==
    ASSUME NEW q \in Requests, NEW c \in Calls(q)
    PROVE  Written(Args(q), c) /\ KindIs(About(q), c)
  BY RestWritten, GraphqlWritten, ApiAssumption

-----------------------------------------------------------------------------
(* What the first statement selects is what the call is about.               *)

\* Two numbers that can be sent are of heights whose sum is none that wraps.
LEMMA NoWrap ==
    ASSUME NEW a \in Nat, NEW n \in Nat, a < Word \div 2, n < Word \div 2
    PROVE  (a + n) % Word = a + n
<1>1. Word \in Nat /\ Word > 0 /\ 2 * (Word \div 2) <= Word
  BY QueryAssumption
<1>2. a + n \in 0..(Word - 1)
  BY <1>1
<1>3. \A x \in Nat, w \in Nat \ {0} : x < w => x % w = x
  OBVIOUS
<1> QED
  BY <1>1, <1>2, <1>3

\* Whoever has a call that its request makes, and that nothing refused.
Made == /\ Shape(req, call) /\ Checked(call)
        /\ Written(Args(req), call) /\ KindIs(About(req), call)

LEMMA RangeIsWanted ==
    ASSUME RepositoryTypeOK, Made, ~Misread,
           call.op = "offset", \A v \in Numbers(call) : Sendable(v)
    PROVE  GetBlocksByRangeId(db, call.from, RangeEnd(call)) = Wanted
<1> DEFINE a == Args(req)
<1>1. call.from \in Nat /\ call.offset \in Nat /\ ~(call.offset > OffsetMax)
  BY DEF Made, Shape, Checked
<1>2. call.from < Word \div 2
  BY <1>1, QueryRepositoryAssumption DEF Numbers, Sendable
<1>3. /\ a.from = call.from /\ a.offset = call.offset /\ a.offset # 0
      /\ a.from # Absent /\ a.offset # Absent
      /\ a.id = Absent /\ a.hash = Absent /\ ~Given(a.fromTime, a.toTime)
  <2>1. call.from # Word - 1
    <3>1. Word \in Nat /\ 1 < Word \div 2
      BY QueryAssumption
    <3>2. \A w \in Nat, n \in Nat : 1 < w \div 2 /\ n < w \div 2 => n # w - 1
      OBVIOUS
    <3> QED
      BY <1>1, <1>2, <3>1, <3>2
  <2> QED
    BY <2>1 DEF Made, Written, Misread
<1>4. EffectiveOffset(call) = call.offset /\ call.offset < Word \div 2
  BY <1>1, <1>3, QueryAssumption DEF EffectiveOffset
<1>5. RangeEnd(call) = call.from + call.offset
  BY <1>1, <1>2, <1>4, NoWrap DEF RangeEnd
<1>6. call.from # Absent /\ RangeEnd(call) # Absent
  BY <1>1, <1>5, QueryRepositoryAssumption
<1>7. ASSUME NEW b \in db.blocks
      PROVE  InRange(b.id, call.from, RangeEnd(call)) <=> WantedBlock(a, b)
  <2>1. b.id \in Nat
    BY DomainAssumption DEF RepositoryTypeOK, Store, Block, ZeroBlock, Height
  <2>2. WantedBlock(a, b)
        <=> b.id \in call.from..(call.from + call.offset - 1)
    BY <1>3 DEF WantedBlock, Given
  <2>3. InRange(b.id, call.from, RangeEnd(call))
        <=> b.id >= call.from /\ b.id < call.from + call.offset
    BY <1>5, <1>6 DEF InRange
  <2> QED
    BY <1>1, <2>1, <2>2, <2>3
<1>8. Wanted = {b \in db.blocks : WantedBlock(a, b)}
  BY DEF Wanted, Made, KindIs, BlockOps
<1> QED
  BY <1>7, <1>8 DEF GetBlocksByRangeId

LEMMA TimeIsWanted ==
    ASSUME RepositoryTypeOK, Made, call.op = "time"
    PROVE  GetBlocksByRangeTime(db, call.from, call.to) = Wanted
<1> DEFINE a == Args(req)
<1>1. call.from \in Nat /\ call.to \in Nat
  BY DEF Made, Shape
<1>2. /\ call.from = a.fromTime /\ call.to = a.toTime
      /\ a.fromTime # Absent /\ a.toTime # Absent
      /\ a.id = Absent /\ a.hash = Absent /\ ~Given(a.from, a.offset)
  <2>1. /\ call.from = a.fromTime \/ call.from = 0 \/ call.from = Word - 1
        /\ call.to = a.toTime /\ call.to \in 0..(Word - 1)
        /\ a.fromTime # Absent
        /\ a.id = Absent /\ a.hash = Absent /\ ~Given(a.from, a.offset)
    BY DEF Made, Written
  <2>2. call.from # 0 /\ call.from < call.to
    BY DEF Made, Checked, ValidateBlockRange
  <2>3. call.from = a.fromTime
    BY <1>1, <2>1, <2>2, WordIsPositive
  <2> QED
    BY <1>1, <2>1, <2>3, QueryRepositoryAssumption
<1>3. ASSUME NEW b \in db.blocks
      PROVE  TimeOf[b] > call.from /\ TimeOf[b] < call.to
             <=> WantedBlock(a, b)
  <2>1. TimeOf[b] \in Int
    BY QueryRepositoryAssumption DEF RepositoryTypeOK, Store
  <2>2. WantedBlock(a, b) <=> TimeOf[b] \in (call.from + 1)..(call.to - 1)
    BY <1>2 DEF WantedBlock, Given
  <2> QED
    BY <1>1, <2>1, <2>2
<1>4. Wanted = {b \in db.blocks : WantedBlock(a, b)}
  BY DEF Wanted, Made, KindIs, BlockOps
<1> QED
  BY <1>3, <1>4 DEF GetBlocksByRangeTime

\* The filters take both ends of a range of heights, or none.
LEMMA HeightsAreWanted ==
    ASSUME Made, call.op \in {"txs", "events"}, NEW n \in Nat
    PROVE  InRange(n, call.fromBlock, call.toBlock) <=> InHeights(Args(req), n)
<1>1. {call.fromBlock, call.toBlock} \subseteq Nat \cup {Absent}
  BY DEF Made, Shape
<1>2. (call.fromBlock = Absent) = (call.toBlock = Absent)
  BY DEF Made, Checked, RangeRefused
<1>3. /\ Args(req).fromBlock = call.fromBlock
      /\ Args(req).toBlock = call.toBlock
  BY DEF Made, Written
<1>4. CASE call.fromBlock = Absent
  BY <1>2, <1>3, <1>4 DEF InRange, InHeights, Given
<1>5. CASE call.fromBlock # Absent
  <2>1. call.fromBlock \in Nat /\ call.toBlock \in Nat /\ call.toBlock # Absent
    BY <1>1, <1>2, <1>5
  <2>2. InRange(n, call.fromBlock, call.toBlock)
        <=> n >= call.fromBlock /\ n < call.toBlock
    BY <1>5, <2>1 DEF InRange
  <2>3. InHeights(Args(req), n) <=> n \in call.fromBlock..(call.toBlock - 1)
    BY <1>3, <1>5, <2>1 DEF InHeights, Given
  <2> QED
    BY <2>1, <2>2, <2>3
<1> QED
  BY <1>4, <1>5

LEMMA TxsAreWanted ==
    ASSUME RepositoryTypeOK, Made, call.op = "txs"
    PROVE  GetTransactionsByFilter(db, call) = Wanted
<1> DEFINE a == Args(req)
<1>1. ASSUME NEW r \in db.txs
      PROVE  WantedTx(a, r) <=>
                 /\ Matches(call.hash, r.hash)
                 /\ Matches(call.from, SenderOf[r.hash])
                 /\ Matches(call.to, RecipientOf[r.hash])
                 /\ InRange(r.block_id, call.fromBlock, call.toBlock)
  <2>1. r.block_id \in Nat
    BY DomainAssumption DEF RepositoryTypeOK, Store, TxRow, Height
  <2>2. InRange(r.block_id, call.fromBlock, call.toBlock)
        <=> InHeights(a, r.block_id)
    BY <2>1, HeightsAreWanted
  <2>3. a.hash = call.hash /\ a.from = call.from /\ a.to = call.to
    BY DEF Made, Written
  <2> QED
    BY <2>2, <2>3 DEF WantedTx, Matches
<1>2. Wanted = {r \in db.txs : WantedTx(a, r)}
  BY DEF Wanted, Made, KindIs, BlockOps
<1> QED
  BY <1>1, <1>2 DEF GetTransactionsByFilter

LEMMA EventsAreWanted ==
    ASSUME RepositoryTypeOK, Made, call.op = "events"
    PROVE  GetEventsByFilter(db, call) = Wanted
<1> DEFINE a == Args(req)
<1>1. ASSUME NEW r \in db.events
      PROVE  WantedEvent(a, r) <=>
                 /\ Matches(call.emitter, EmitterOf[r.log])
                 /\ Elements(call.topics) \subseteq Elements(TopicsOf[r.log])
                 /\ InRange(r.block_id, call.fromBlock, call.toBlock)
  <2>1. r.block_id \in Nat
    BY DomainAssumption DEF RepositoryTypeOK, Store, LogRow, Height
  <2>2. InRange(r.block_id, call.fromBlock, call.toBlock)
        <=> InHeights(a, r.block_id)
    BY <2>1, HeightsAreWanted
  <2>3. a.address = call.emitter /\ a.topics = call.topics
    BY DEF Made, Written
  <2> QED
    BY <2>2, <2>3 DEF WantedEvent, Matches
<1>2. Wanted = {r \in db.events : WantedEvent(a, r)}
  BY DEF Wanted, Made, KindIs, BlockOps
<1> QED
  BY <1>1, <1>2 DEF GetEventsByFilter

LEMMA OneIsWanted ==
    ASSUME RepositoryTypeOK, Made, call.op \in {"id", "hash", "event"},
           NEW S \in Selected(call, db)
    PROVE  S = Wanted
<1> DEFINE a == Args(req)
<1>1. CASE call.op = "id"
  <2>1. Wanted = {b \in db.blocks : WantedBlock(a, b)}
    BY <1>1 DEF Wanted, Made, KindIs, BlockOps
  <2>2. \A b : WantedBlock(a, b) <=> b.id = call.id
    BY <1>1 DEF WantedBlock, Made, Written
  <2>3. S = {b \in db.blocks : b.id = call.id}
    BY <1>1 DEF Selected, GetBlockById
  <2> QED
    BY <2>1, <2>2, <2>3
<1>2. CASE call.op = "hash"
  <2>1. Wanted = {b \in db.blocks : WantedBlock(a, b)}
    BY <1>2 DEF Wanted, Made, KindIs, BlockOps
  <2>2. \A b : WantedBlock(a, b) <=> b = call.hash
    BY <1>2 DEF WantedBlock, Made, Written
  <2>3. S = {b \in db.blocks : b = call.hash}
    BY <1>2 DEF Selected, GetBlockByHash
  <2> QED
    BY <2>1, <2>2, <2>3
<1>3. CASE call.op = "event"
  <2>1. Wanted = {r \in db.events : /\ TxOf[r.log] = a.txHash
                                    /\ IndexOf[r.log] = a.logIndex}
    BY <1>3 DEF Wanted, Made, KindIs, BlockOps
  <2>2. a.txHash = call.hash /\ a.logIndex = call.index
    BY <1>3 DEF Made, Written
  <2>3. S = {r \in db.events : /\ TxOf[r.log] = call.hash
                               /\ IndexOf[r.log] = call.index}
    BY <1>3 DEF Selected, GetEventByTxHashLogIndex
  <2> QED
    BY <2>1, <2>2, <2>3
<1> QED
  BY <1>1, <1>2, <1>3

LEMMA SelectedIsWanted ==
    ASSUME RepositoryTypeOK, Made, ~Misread,
           \A v \in Numbers(call) : Sendable(v),
           NEW S \in Selected(call, db)
    PROVE  /\ S \subseteq Wanted
           /\ Cardinality(S) = Enough
           /\ S = {} => Wanted = {}
           /\ call.op \in BlockOps => S = Wanted
<1>0. About(req) \in {"/transactions", "/events"}
      <=> call.op \in {"txs", "events"}
  BY DEF Made, KindIs
<1>1. CASE call.op \notin {"txs", "events"}
  <2>1. S = Wanted
    <3>1. CASE call.op = "offset"
      BY <3>1, RangeIsWanted DEF Selected
    <3>2. CASE call.op = "time"
      BY <3>2, TimeIsWanted DEF Selected
    <3> QED
      BY <1>1, <3>1, <3>2, OneIsWanted DEF Made, Shape, Ops, BlockOps
  <2> QED
    BY <1>0, <1>1, <2>1 DEF Enough
<1>2. CASE call.op \in {"txs", "events"}
  <2>0. RowLimit(Args(req)) = LimitOf(call)
    BY <1>2 DEF Made, Written, RowLimit, LimitOf
  <2>1. S \in Limited(Wanted, LimitOf(call))
    BY <1>2, TxsAreWanted, EventsAreWanted DEF Selected
  <2>2. CASE Cardinality(Wanted) <= LimitOf(call)
    BY <1>0, <1>2, <2>0, <2>1, <2>2 DEF Limited, Enough, BlockOps
  <2>3. CASE ~(Cardinality(Wanted) <= LimitOf(call))
    <3>1. S \subseteq Wanted /\ Cardinality(S) = LimitOf(call)
      BY <2>1, <2>3 DEF Limited
    <3>2. LimitOf(call) > 0
      BY <1>2, QueryAssumption DEF LimitOf, Made, Checked, LimitRefused
    <3>3. S # {}
      BY <3>1, <3>2, FS_EmptySet
    <3> QED
      BY <1>0, <1>2, <2>0, <2>3, <3>1, <3>3 DEF Enough, BlockOps
  <2> QED
    BY <2>2, <2>3
<1> QED
  BY <1>1, <1>2

\* The rows of a statement are of the table it is about.
LEMMA SelectedRows ==
    ASSUME RepositoryTypeOK, Shape(req, call), NEW S \in Selected(call, db)
    PROVE  /\ call.op \in BlockOps => S \subseteq db.blocks
           /\ call.op = "txs" => S \subseteq db.txs
           /\ call.op \in {"events", "event"} => S \subseteq db.events
<1>1. call.op \in BlockOps => S \subseteq db.blocks
  BY DEF Selected, GetBlockById, GetBlockByHash, GetBlocksByRangeId,
     GetBlocksByRangeTime, BlockOps
<1>2. call.op = "txs" => S \subseteq db.txs
  <2>1. GetTransactionsByFilter(db, call) \subseteq db.txs
    BY DEF GetTransactionsByFilter
  <2> QED
    BY <2>1 DEF Selected, Limited
<1>3. call.op \in {"events", "event"} => S \subseteq db.events
  <2>1. /\ GetEventsByFilter(db, call) \subseteq db.events
        /\ GetEventByTxHashLogIndex(db, call.hash, call.index) \subseteq db.events
    BY DEF GetEventsByFilter, GetEventByTxHashLogIndex
  <2> QED
    BY <2>1 DEF Selected, Limited
<1> QED
  BY <1>1, <1>2, <1>3

-----------------------------------------------------------------------------
(* The steps keep ReadInv.                                                   *)

LEMMA WantedStays ==
    ASSUME UNCHANGED <<db, req, call>>
    PROVE  Wanted' = Wanted /\ Enough' = Enough /\ Misread' = Misread
<1>1. Wanted' = Wanted
  BY DEF Wanted
<1> QED
  BY <1>1 DEF Enough, Misread

LEMMA KeysOf == NoKeys \in Keys /\ \A k \in Keys : /\ k.blocks \subseteq Height
                                                  /\ k.txs \subseteq Tx
  BY DEF NoKeys, Keys

LEMMA InitReadInv == ApiInit => ReadInv
<1> SUFFICES ASSUME ApiInit PROVE ReadInv
  OBVIOUS
<1>1. db \in Store
  BY DEF ApiInit, RepositoryInit, EmptyStore, Store
<1>2. ApiTypeOK
  <2>1. errors \in 0..MaxErrors
    BY ApiAssumption DEF ApiInit
  <2>2. waiting \in Keys /\ failed \in Keys
    BY KeysOf DEF ApiInit, Nothing
  <2> QED
    BY <1>1, <2>1, <2>2
       DEF ApiInit, Nothing, ApiTypeOK, RepositoryTypeOK, ApiPc, Errors
<1> QED
  BY <1>2 DEF ApiInit, Nothing, ReadInv, BlankInv, CallInv, RowsInv, WantedInv,
     Read

\* The writer leaves the request alone, and says where it wrote.
LEMMA WriterSteps ==
    ASSUME ReadInv, Writer
    PROVE  /\ UNCHANGED <<pc, req, call, error, rows, txs, events, waiting,
                          failed, late, errors>>
           /\ \/ \E S \in SUBSET Incoming :
                     StoresNew(S) /\ Touched({b.id : b \in S})
              \/ \E n \in Height : db' = Delete(db, n) /\ Touched({n})
  BY DEF Writer, DropsHeight, reqVars

\* It wrote at some heights.
LEMMA WriterTouches ==
    ASSUME ReadInv, Writer
    PROVE  \E N \in SUBSET Height : N # {} /\ Touched(N)
<1>1. ASSUME NEW S \in SUBSET Incoming, StoresNew(S),
             Touched({b.id : b \in S})
      PROVE  \E N \in SUBSET Height : N # {} /\ Touched(N)
  <2>1. \A b \in S : b.id \in Height
    BY ApiAssumption, DomainAssumption DEF Block, ZeroBlock, Height
  <2>2. {b.id : b \in S} \in SUBSET Height /\ {b.id : b \in S} # {}
    BY <1>1, <2>1 DEF StoresNew
  <2> QED
    BY <1>1, <2>2
<1>2. ASSUME NEW n \in Height, Touched({n})
      PROVE  \E N \in SUBSET Height : N # {} /\ Touched(N)
  <2>1. {n} \in SUBSET Height /\ {n} # {}
    OBVIOUS
  <2> QED
    BY <1>2, <2>1
<1> QED
  BY <1>1, <1>2, WriterSteps

LEMMA WriterReadInv ==
    ASSUME ReadInv, Writer
    PROVE  ReadInv'
<1>1. /\ UNCHANGED <<pc, req, call, error, rows, txs, events, waiting, failed,
                     late, errors>>
      /\ \E N \in SUBSET Height : N # {} /\ Touched(N)
      /\ db' \in Store
  <2>1. ASSUME NEW S \in SUBSET Incoming, db' = Insert(db, S)
        PROVE  db' \in Store
    <3>1. /\ NewTxRows(db, S) \subseteq TxRow
          /\ NewLogRows(db, S) \subseteq LogRow
      BY DEF NewTxRows, NewLogRows
    <3>2. S \subseteq Block
      BY ApiAssumption
    <3> QED
      BY <2>1, <3>1, <3>2 DEF ReadInv, ApiTypeOK, RepositoryTypeOK, Store,
         Insert
  <2>2. ASSUME NEW n \in Height, db' = Delete(db, n) PROVE db' \in Store
    BY <2>2 DEF ReadInv, ApiTypeOK, RepositoryTypeOK, Store, Delete
  <2> QED
    BY <2>1, <2>2, WriterSteps, WriterTouches DEF StoresNew
<1>2. PICK N \in SUBSET Height : N # {} /\ Touched(N)
  BY <1>1
<1>3. written' \subseteq Height
  BY <1>2 DEF Touched, ReadInv, ApiTypeOK
<1>4. pc \in {"idle", "first"} => written' = {}
  BY <1>2 DEF Touched
<1>5. pc \notin {"idle", "first"} => written' # {}
  BY <1>2 DEF Touched
<1>6. ApiTypeOK'
  BY <1>1, <1>3 DEF ReadInv, ApiTypeOK, RepositoryTypeOK
<1>7. BlankInv' /\ CallInv' /\ RowsInv'
  BY <1>1, <1>4 DEF ReadInv, BlankInv, CallInv, RowsInv, Read, IsRest
<1>8. WantedInv'
  BY <1>1, <1>5 DEF WantedInv, Read
<1> QED
  BY <1>6, <1>7, <1>8 DEF ReadInv

LEMMA ArriveReadInv ==
    ASSUME ReadInv, NEW q \in Requests, Arrive(q)
    PROVE  ReadInv'
<1>1. /\ pc = "idle" /\ req' = q
      /\ UNCHANGED <<db, rows, txs, events, waiting, failed, late, errors,
                     written>>
      /\ \/ pc' = "answered" /\ error' \in Errors \ {"none", "NotFound"}
         \/ /\ pc' = "first" /\ error' = "none"
            /\ call' \in Calls(q) /\ Refusal(call') = "none"
  <2>1. CASE Refuse(q)
    BY <2>1 DEF Arrive, Refuse, End, Errors
  <2>2. CASE Validate(q)
    <3>1. PICK c \in Calls(q) :
              /\ call' = c
              /\ IF Refusal(c) = "none" THEN pc' = "first" /\ error' = "none"
                                        ELSE End(Refusal(c))
      BY <2>2 DEF Validate
    <3>2. Refusal(c) \in Refused \/ Refusal(c) = "none"
      BY CallShape, RefusalOfCall DEF Shape
    <3> QED
      BY <3>1, <3>2 DEF Arrive, End, Refused
  <2> QED
    BY <2>1, <2>2 DEF Arrive
<1>2. ApiTypeOK'
  BY <1>1 DEF ReadInv, ApiTypeOK, RepositoryTypeOK, ApiPc, Errors
<1> QED
  BY <1>1, <1>2 DEF ReadInv, BlankInv, CallInv, RowsInv, WantedInv, Read

LEMMA CallIsChecked ==
    ASSUME ReadInv, pc # "idle", error \in {"none", "NotFound"}
    PROVE  Made
<1>1. req \in Requests /\ call \in Calls(req) /\ Refusal(call) = "none"
  BY DEF ReadInv, CallInv
<1>2. Shape(req, call)
  BY <1>1, CallShape
<1>3. Refusal(call) \notin Refused
  BY <1>1 DEF Refused
<1>4. Checked(call)
  BY <1>1, <1>2, <1>3, RefusalOfCall DEF Shape
<1> QED
  BY <1>1, <1>2, <1>4, CallIsWritten DEF Made

\* The state after the first statement.
LEMMA ReadRowsSteps ==
    ASSUME ReadInv, ReadRows
    PROVE  /\ pc = "first" /\ error = "none" /\ ~late
           /\ Made /\ Shape(req, call)
           /\ \A v \in Numbers(call) : Sendable(v)
           /\ rows' \in Selected(call, db)
           /\ waiting' = IF Nested(req) THEN Asked(rows') ELSE NoKeys
           /\ pc' = NextPc /\ pc' \in {"second", "load", "answered"}
           /\ pc' = "load" <=> Nested(req)
           /\ pc' = "second" <=> IsRest /\ call.op \in BlockOps /\ call.tx
           /\ UNCHANGED <<db, req, call, error, txs, events, failed, late,
                          errors, written>>
<1>1. /\ pc = "first" /\ ~late /\ \A v \in Numbers(call) : Sendable(v)
      /\ pc' = NextPc
      /\ UNCHANGED <<db, req, call, error, txs, events, failed, late, errors,
                     written>>
  BY DEF ReadRows
<1>2. PICK S \in Selected(call, db) :
          rows' = S /\ waiting' = IF Nested(req) THEN Asked(S) ELSE NoKeys
  BY DEF ReadRows
<1>3. error = "none" /\ req \in Requests
  BY <1>1 DEF ReadInv, CallInv
<1>4. Made /\ Shape(req, call)
  BY <1>1, <1>3, CallIsChecked DEF Made
<1>5. req.api \in {"rest", "graphql"}
  BY <1>3, ApiAssumption
<1>6. ~(Nested(req) /\ call.op \in BlockOps /\ call.tx)
  BY <1>4 DEF Nested, Shape, BlockOps
<1>7. ~IsRest => ~(call.op \in BlockOps /\ call.tx)
  BY <1>4, <1>5 DEF Shape, BlockOps, IsRest
<1>8. /\ pc' \in {"second", "load", "answered"}
      /\ pc' = "load" <=> Nested(req)
      /\ pc' = "second" <=> call.op \in BlockOps /\ call.tx
  BY <1>1, <1>6 DEF NextPc
<1> QED
  BY <1>1, <1>2, <1>3, <1>4, <1>7, <1>8

LEMMA ReadRowsReadInv ==
    ASSUME ReadInv, ReadRows
    PROVE  ReadInv'
<1>1. db \in Store
  BY DEF ReadInv, ApiTypeOK, RepositoryTypeOK
<1>2. /\ call.op \in BlockOps => rows' \subseteq db.blocks
      /\ call.op = "txs" => rows' \subseteq db.txs
      /\ call.op \in {"events", "event"} => rows' \subseteq db.events
  BY <1>1, ReadRowsSteps, SelectedRows DEF RepositoryTypeOK
<1>3. /\ rows' \subseteq Block \cup TxRow \cup LogRow
      /\ call.op \in BlockOps => rows' \subseteq Block
      /\ call.op = "txs" => rows' \subseteq TxRow
  BY <1>1, <1>2, ReadRowsSteps DEF Shape, Ops, Store
<1>4. waiting' \in Keys
  <2>1. CASE ~Nested(req)
    BY <2>1, ReadRowsSteps, KeysOf
  <2>2. CASE Nested(req) /\ req.field = "blocks"
    <3>1. rows' \subseteq Block
      BY <1>3, <2>2, ReadRowsSteps DEF Shape, Nested
    <3>2. {b.id : b \in rows'} \subseteq Height
      BY <3>1, DomainAssumption DEF Block, ZeroBlock, Height
    <3>3. waiting' = [NoKeys EXCEPT !.blocks = {b.id : b \in rows'}]
      BY <2>2, ReadRowsSteps DEF Asked
    <3> QED
      BY <3>2, <3>3 DEF NoKeys, Keys
  <2>3. CASE Nested(req) /\ req.field = "transactions"
    <3>1. rows' \subseteq TxRow
      BY <1>3, <2>3, ReadRowsSteps DEF Shape, Nested
    <3>2. {r.hash : r \in rows'} \subseteq Tx
      BY <3>1 DEF TxRow
    <3>3. waiting' = [NoKeys EXCEPT !.txs = {r.hash : r \in rows'}]
      BY <2>3, ReadRowsSteps DEF Asked
    <3> QED
      BY <3>2, <3>3 DEF NoKeys, Keys
  <2> QED
    BY <2>1, <2>2, <2>3, ReadRowsSteps DEF Shape, Nested
<1>5. ApiTypeOK'
  <2>1. pc' \in ApiPc
    BY ReadRowsSteps DEF ApiPc
  <2> QED
    BY <1>3, <1>4, <2>1, ReadRowsSteps DEF ReadInv, ApiTypeOK, RepositoryTypeOK
<1>6. BlankInv' /\ RowsInv'
  BY <1>3, ReadRowsSteps DEF BlankInv, RowsInv
<1>7. CallInv'
  BY ReadRowsSteps DEF ReadInv, CallInv, IsRest
<1>8. WantedInv'
  <2>1. Wanted' = Wanted /\ Enough' = Enough /\ Misread' = Misread
    BY ReadRowsSteps, WantedStays
  <2>2. ~Misread => /\ rows' \subseteq Wanted
                    /\ Cardinality(rows') = Enough
                    /\ call.op \in BlockOps => rows' = Wanted
    BY <1>1, ReadRowsSteps, SelectedIsWanted DEF RepositoryTypeOK
  <2> QED
    BY <2>1, <2>2, ReadRowsSteps DEF WantedInv
<1> QED
  BY <1>5, <1>6, <1>7, <1>8 DEF ReadInv

LEMMA StatusOfError ==
    ASSUME NEW e
    PROVE  /\ Status(e) = 200 <=> e = "none"
           /\ Status(e) = 404 <=> e = "NotFound"
  BY DEF Status

LEMMA ReadNothingReadInv ==
    ASSUME ReadInv, ReadNothing
    PROVE  ReadInv'
<1>1. /\ pc = "first" /\ pc' = "answered" /\ error' = "NotFound"
      /\ UNCHANGED <<db, req, call, rows, txs, events, waiting, failed, late,
                     errors, written>>
  BY DEF ReadNothing, End, Fetched
<1>2. ApiTypeOK'
  BY <1>1 DEF ReadInv, ApiTypeOK, RepositoryTypeOK, ApiPc, Errors
<1> QED
  BY <1>1, <1>2 DEF ReadInv, BlankInv, CallInv, RowsInv, WantedInv, Read

\* Steps that change neither the rows of the first statement nor what they are
\* compared with.
LEMMA LaterStepReadInv ==
    ASSUME ReadInv, pc \in {"second", "load", "answered"},
           UNCHANGED <<db, req, call, rows, written>>,
           \/ UNCHANGED <<pc, error>>
           \/ /\ pc # "answered" /\ pc' = "answered"
              /\ error' \in {"none", "NotFound", "Internal"},
           txs' \subseteq TxRow, events' \subseteq LogRow,
           waiting' \in Keys, failed' \in Keys, late' \in BOOLEAN,
           errors' \in 0..MaxErrors
    PROVE  ReadInv'
<1>1. ApiTypeOK'
  BY DEF ReadInv, ApiTypeOK, RepositoryTypeOK, ApiPc, Errors
<1>2. BlankInv' /\ CallInv'
  BY DEF ReadInv, BlankInv, CallInv, IsRest
<1>3. Read' => Read
  BY DEF ReadInv, CallInv, Read
<1>4. RowsInv'
  BY <1>3 DEF ReadInv, RowsInv
<1>5. WantedInv'
  BY <1>3, WantedStays DEF ReadInv, WantedInv
<1> QED
  BY <1>1, <1>2, <1>4, <1>5 DEF ReadInv

LEMMA SecondStatementRows ==
    ASSUME RepositoryTypeOK, NEW K
    PROVE  /\ GetTransactionsByBatchBlocksId(db, K) \subseteq TxRow
           /\ GetEventsByBatchTxsHash(db, K) \subseteq LogRow
  BY DEF RepositoryTypeOK, Store, GetTransactionsByBatchBlocksId,
     GetEventsByBatchTxsHash

LEMMA ReadTxsReadInv ==
    ASSUME ReadInv, ReadTxs
    PROVE  ReadInv'
<1>1. txs' \subseteq TxRow
  BY SecondStatementRows DEF ReadTxs, SelectedTxs, ReadInv, ApiTypeOK
<1>2. /\ pc = "second" /\ pc' = "answered" /\ error' \in {"none", "NotFound"}
      /\ UNCHANGED <<db, req, call, rows, events, waiting, failed, late, errors,
                     written>>
  BY DEF ReadTxs, End, Fetched
<1> QED
  BY <1>1, <1>2, LaterStepReadInv DEF ReadInv, ApiTypeOK

LEMMA FailureCounted ==
    ASSUME ReadInv, StatementFails
    PROVE  /\ errors' \in 0..MaxErrors
           /\ late \/ errors' # 0
<1>1. errors \in 0..MaxErrors
  BY DEF ReadInv, ApiTypeOK
<1>2. MaxErrors \in Nat
  BY ApiAssumption
<1>3. CASE late /\ UNCHANGED errors
  BY <1>1, <1>3
<1>4. CASE ~late /\ errors < MaxErrors /\ errors' = errors + 1
  <2>1. PICK n \in Nat : n = errors
    BY <1>1
  <2> QED
    BY <1>2, <1>4, <2>1
<1> QED
  BY <1>3, <1>4 DEF StatementFails

LEMMA ReadFailsReadInv ==
    ASSUME ReadInv, ReadFails
    PROVE  ReadInv'
<1>1. /\ pc \in {"first", "second"} /\ pc' = "answered" /\ error' = "Internal"
      /\ UNCHANGED <<db, req, call, rows, txs, events, waiting, failed, late,
                     written>>
  BY DEF ReadFails, End
<1>2. errors' \in 0..MaxErrors
  BY FailureCounted DEF ReadFails, ReadInv, ApiTypeOK
<1>3. ApiTypeOK'
  BY <1>1, <1>2 DEF ReadInv, ApiTypeOK, RepositoryTypeOK, ApiPc, Errors
<1> QED
  BY <1>1, <1>3 DEF ReadInv, BlankInv, CallInv, RowsInv, WantedInv, Read

LEMMA LoadTransactionsReadInv ==
    ASSUME ReadInv, NEW K \in SUBSET Height, LoadTransactions(K)
    PROVE  ReadInv'
<1> DEFINE S == GetTransactionsByBatchBlocksId(db, K)
<1>1. S \subseteq TxRow
  BY SecondStatementRows DEF ReadInv, ApiTypeOK
<1>2. /\ pc = "load" /\ txs' = txs \cup S
      /\ waiting' = [blocks |-> waiting.blocks \ K,
                     txs |-> IF "events" \in req.select
                             THEN waiting.txs \cup {r.hash : r \in S}
                             ELSE waiting.txs]
      /\ failed' = IF Fetched(S) = "none" THEN failed
                   ELSE [failed EXCEPT !.blocks = @ \cup K]
      /\ UNCHANGED <<db, pc, req, call, error, rows, events, late, errors,
                     written>>
  BY DEF LoadTransactions
<1>3. {r.hash : r \in S} \subseteq Tx
  BY <1>1 DEF TxRow
<1>4. waiting' \in Keys /\ failed' \in Keys
  BY <1>2, <1>3 DEF ReadInv, ApiTypeOK, Keys
<1> QED
  BY <1>1, <1>2, <1>4, LaterStepReadInv DEF ReadInv, ApiTypeOK

LEMMA LoadEventsReadInv ==
    ASSUME ReadInv, NEW K \in SUBSET Tx, LoadEvents(K)
    PROVE  ReadInv'
<1> DEFINE S == GetEventsByBatchTxsHash(db, K)
<1>1. S \subseteq LogRow
  BY SecondStatementRows DEF ReadInv, ApiTypeOK
<1>2. /\ pc = "load" /\ events' = events \cup S
      /\ waiting' = [waiting EXCEPT !.txs = @ \ K]
      /\ failed' = IF Fetched(S) = "none" THEN failed
                   ELSE [failed EXCEPT !.txs = @ \cup K]
      /\ UNCHANGED <<db, pc, req, call, error, rows, txs, late, errors,
                     written>>
  BY DEF LoadEvents
<1>3. waiting' \in Keys /\ failed' \in Keys
  BY <1>2 DEF ReadInv, ApiTypeOK, Keys
<1> QED
  BY <1>1, <1>2, <1>3, LaterStepReadInv DEF ReadInv, ApiTypeOK

LEMMA LoadFailsReadInv ==
    ASSUME ReadInv, LoadFails
    PROVE  ReadInv'
<1>1. PICK kind \in {"blocks", "txs"} : \E K \in SUBSET waiting[kind] \ {{}} :
          /\ waiting' = [waiting EXCEPT ![kind] = @ \ K]
          /\ failed'  = [failed EXCEPT ![kind] = @ \cup K]
  BY DEF LoadFails
<1> PICK K \in SUBSET waiting[kind] \ {{}} :
          /\ waiting' = [waiting EXCEPT ![kind] = @ \ K]
          /\ failed'  = [failed EXCEPT ![kind] = @ \cup K]
  BY <1>1
<1>2. /\ pc = "load" /\ errors' \in 0..MaxErrors
      /\ UNCHANGED <<db, pc, req, call, error, rows, txs, events, late, written>>
  BY FailureCounted DEF LoadFails
<1>3. waiting \in Keys /\ failed \in Keys
  BY DEF ReadInv, ApiTypeOK
<1>4. waiting' \in Keys /\ failed' \in Keys
  <2>1. CASE kind = "blocks"
    BY <1>1, <1>3, <2>1 DEF Keys
  <2>2. CASE kind = "txs"
    BY <1>1, <1>3, <2>2 DEF Keys
  <2> QED
    BY <2>1, <2>2
<1> QED
  BY <1>2, <1>4, LaterStepReadInv DEF ReadInv, ApiTypeOK

LEMMA ResolvedReadInv ==
    ASSUME ReadInv, Resolved
    PROVE  ReadInv'
<1>1. /\ pc = "load" /\ pc' = "answered" /\ error' = "none"
      /\ UNCHANGED <<db, req, call, rows, txs, events, waiting, failed, late,
                     errors, written>>
  BY DEF Resolved, End
<1> QED
  BY <1>1, LaterStepReadInv DEF ReadInv, ApiTypeOK

LEMMA DeadlineReadInv ==
    ASSUME ReadInv, DeadlinePasses
    PROVE  ReadInv'
<1>1. /\ late' = TRUE
      /\ UNCHANGED <<db, pc, req, call, error, rows, txs, events, waiting,
                     failed, errors, written>>
  BY DEF DeadlinePasses, reqVars
<1>2. Wanted' = Wanted /\ Enough' = Enough /\ Misread' = Misread
  BY <1>1, WantedStays
<1> QED
  BY <1>1, <1>2 DEF ReadInv, ApiTypeOK, RepositoryTypeOK, BlankInv, CallInv,
     RowsInv, WantedInv, Read, IsRest

LEMMA DoneReadInv ==
    ASSUME ReadInv, Done
    PROVE  ReadInv'
<1>1. /\ pc' = "idle" /\ req' = Absent /\ call' = Absent /\ error' = "none"
      /\ rows' = {} /\ txs' = {} /\ events' = {}
      /\ waiting' = NoKeys /\ failed' = NoKeys
      /\ late' = FALSE /\ written' = {}
      /\ UNCHANGED <<db, errors>>
  BY DEF Done
<1>2. ApiTypeOK'
  BY <1>1, KeysOf DEF ReadInv, ApiTypeOK, RepositoryTypeOK, ApiPc, Errors
<1> QED
  BY <1>1, <1>2 DEF ReadInv, BlankInv, CallInv, RowsInv, WantedInv, Read

LEMMA NextReadInv == ReadInv /\ [ApiNext]_apiVars => ReadInv'
<1> SUFFICES ASSUME ReadInv, [ApiNext]_apiVars PROVE ReadInv'
  OBVIOUS
<1>1. CASE UNCHANGED apiVars
  <2>1. UNCHANGED <<db, pc, req, call, error, rows, txs, events, waiting,
                    failed, late, errors, written>>
    BY <1>1 DEF apiVars, reqVars
  <2>2. Wanted' = Wanted /\ Enough' = Enough /\ Misread' = Misread
    BY <2>1, WantedStays
  <2> QED
    BY <2>1, <2>2 DEF ReadInv, ApiTypeOK, RepositoryTypeOK, BlankInv, CallInv,
       RowsInv, WantedInv, Read, IsRest
<1>2. CASE Step
  BY <1>2, ReadRowsReadInv, ReadNothingReadInv, ReadTxsReadInv,
     ReadFailsReadInv, LoadTransactionsReadInv, LoadEventsReadInv,
     LoadFailsReadInv, ResolvedReadInv DEF Step
<1> QED
  BY <1>1, <1>2, WriterReadInv, ArriveReadInv, DeadlineReadInv, DoneReadInv
     DEF ApiNext

\* The rows, keys, calls and errors of a request are always of their kinds,
\* whatever it asks for: every call that a handler makes has a statement, and
\* every error a status.
THEOREM ApiTypeCorrect == ApiSpec => []ApiTypeOK
<1>1. ReadInv => ApiTypeOK
  BY DEF ReadInv
<1> QED
  BY <1>1, InitReadInv, NextReadInv, PTL DEF ApiSpec

\* A request that is answered with 200 is answered with what its arguments, as
\* the client wrote them, ask for, all of it up to its limit, for any numbers,
\* any size of a word and any limits; but for a start that is no number and an
\* offset that is missing or 0, which Misread names.
THEOREM AnswersAreExact == ApiSpec => []AnswersExact
<1>1. ReadInv => AnswersExact
  <2> SUFFICES ASSUME ReadInv, Ok, written = {}, ~Misread
               PROVE  rows \subseteq Wanted /\ Cardinality(rows) = Enough
    BY DEF AnswersExact
  <2>1. Read
    BY StatusOfError DEF Ok, Answered, Read
  <2> QED
    BY <2>1 DEF ReadInv, WantedInv
<1> QED
  BY <1>1, InitReadInv, NextReadInv, PTL DEF ApiSpec

-----------------------------------------------------------------------------
(* The tables, where transactions stay.                                      *)

LEMMA LogsStay ==
    ASSUME TxsStay, NEW b \in Block, NEW c \in Block,
           NEW l, l \in LogsOf[b], l \in LogsOf[c]
    PROVE  b.id = c.id
<1>1. TxOf[l] \in TxsOf[b] /\ TxOf[l] \in TxsOf[c]
  BY DomainAssumption
<1> QED
  BY <1>1 DEF TxsStay

LEMMA InsertTables ==
    ASSUME TxsStay, db \in Store, TablesInv, NEW S \in SUBSET Block,
           StoresNew(S)
    PROVE  TablesInv'
<1>0. \A b \in S : b.id \in Nat /\ b.id \in Height
  BY DomainAssumption DEF Block, ZeroBlock, Height
<1>1. /\ \A b \in S : b \in Block /\ b \notin db.blocks
      /\ \A b \in S, c \in db.blocks \cup S : b.id = c.id => b = c
  BY DEF StoresNew, Conflict
<1>2. db'.blocks = db.blocks \cup S
  BY DEF StoresNew, Insert
<1>3. \A c, d \in db'.blocks : c.id = d.id => c = d
  BY <1>1, <1>2 DEF TablesInv
<1>4. ASSUME NEW r \in TxRow
      PROVE  r \in db'.txs <=>
                 \E c \in db'.blocks : c.id = r.block_id /\ r.hash \in TxsOf[c]
  <2>1. r \in NewTxRows(db, S) <=>
            \E b \in S : r.block_id = b.id /\ r.hash \in TxsOf[b]
    <3> SUFFICES ASSUME NEW b \in S, r.block_id = b.id, r.hash \in TxsOf[b]
                 PROVE  /\ r.hash \notin TxHashes(db)
                        /\ \A c \in S :
                              r.hash \in TxsOf[c] => r.block_id <= c.id
      BY DEF NewTxRows
    <3>1. r.hash \notin TxHashes(db)
      <4> SUFFICES ASSUME NEW q \in db.txs, q.hash = r.hash PROVE FALSE
        BY DEF TxHashes
      <4>1. PICK c \in db.blocks : c.id = q.block_id /\ q.hash \in TxsOf[c]
        BY DEF TablesInv, Store
      <4>2. c.id = b.id
        BY <4>1 DEF TxsStay, Store
      <4> QED
        BY <1>1, <4>2
    <3>2. ASSUME NEW c \in S, r.hash \in TxsOf[c] PROVE r.block_id <= c.id
      <4>1. c.id = b.id
        BY <3>2 DEF TxsStay
      <4> QED
        BY <1>0, <4>1
    <3> QED
      BY <3>1, <3>2
  <2>2. r \in db'.txs <=> r \in db.txs \/ r \in NewTxRows(db, S)
    BY DEF StoresNew, Insert
  <2>3. r \in db.txs <=>
            \E c \in db.blocks : c.id = r.block_id /\ r.hash \in TxsOf[c]
    BY DEF TablesInv
  <2> QED
    BY <1>2, <2>1, <2>2, <2>3
<1>5. ASSUME NEW r \in LogRow
      PROVE  r \in db'.events <=>
                 \E c \in db'.blocks : c.id = r.block_id /\ r.log \in LogsOf[c]
  <2>1. r \in NewLogRows(db, S) <=>
            \E b \in S : r.block_id = b.id /\ r.log \in LogsOf[b]
    <3> SUFFICES ASSUME NEW b \in S, r.block_id = b.id, r.log \in LogsOf[b]
                 PROVE  /\ r.log \notin LogKeys(db)
                        /\ \A c \in S :
                              r.log \in LogsOf[c] => r.block_id <= c.id
      BY DEF NewLogRows
    <3>1. r.log \notin LogKeys(db)
      <4> SUFFICES ASSUME NEW q \in db.events, q.log = r.log PROVE FALSE
        BY DEF LogKeys
      <4>1. PICK c \in db.blocks : c.id = q.block_id /\ q.log \in LogsOf[c]
        BY DEF TablesInv, Store
      <4>2. c.id = b.id
        BY <4>1, LogsStay DEF Store
      <4> QED
        BY <1>1, <4>2
    <3>2. ASSUME NEW c \in S, r.log \in LogsOf[c] PROVE r.block_id <= c.id
      <4>1. c.id = b.id
        BY <3>2, LogsStay
      <4> QED
        BY <1>0, <4>1
    <3> QED
      BY <3>1, <3>2
  <2>2. r \in db'.events <=> r \in db.events \/ r \in NewLogRows(db, S)
    BY DEF StoresNew, Insert
  <2>3. r \in db.events <=>
            \E c \in db.blocks : c.id = r.block_id /\ r.log \in LogsOf[c]
    BY DEF TablesInv
  <2> QED
    BY <1>2, <2>1, <2>2, <2>3
<1> QED
  BY <1>3, <1>4, <1>5 DEF TablesInv

LEMMA DeleteTables ==
    ASSUME db \in Store, TablesInv, NEW n \in Height, db' = Delete(db, n)
    PROVE  TablesInv'
<1>1. /\ db'.blocks = {b \in db.blocks : b.id # n}
      /\ db'.txs = {r \in db.txs : r.block_id # n}
      /\ db'.events = {r \in db.events : r.block_id # n}
  BY DEF Delete, GetBlockById, TxsAt, EventsAt
<1> QED
  BY <1>1 DEF TablesInv

\* The transactions that the table has of a height are those of its block.
LEMMA TxsOfHeight ==
    ASSUME db \in Store, TablesInv, NEW b \in Block, NEW H,
           H = {r.hash : r \in {q \in db.txs : q.block_id = b.id}}
    PROVE  /\ b \in db.blocks => H = TxsOf[b]
           /\ H = {} \/ \E c \in Block : c.id = b.id /\ H = TxsOf[c]
<1>0. b.id \in Height
  BY DomainAssumption DEF Block, ZeroBlock, Height
<1>1. ASSUME NEW c \in db.blocks, c.id = b.id PROVE H = TxsOf[c]
  <2>1. ASSUME NEW r \in db.txs, r.block_id = b.id PROVE r.hash \in TxsOf[c]
    BY <1>1, <2>1 DEF TablesInv, Store
  <2>2. ASSUME NEW h \in TxsOf[c] PROVE h \in H
    <3>1. [hash |-> h, block_id |-> b.id] \in TxRow
      BY <1>0, <2>2, DomainAssumption DEF TxRow, Store
    <3>2. [hash |-> h, block_id |-> b.id] \in db.txs
      BY <1>1, <2>2, <3>1 DEF TablesInv
    <3> QED
      BY <3>2
  <2> QED
    BY <2>1, <2>2
<1>2. ASSUME \A c \in db.blocks : c.id # b.id PROVE H = {}
  BY <1>2 DEF TablesInv, Store
<1> QED
  BY <1>1, <1>2 DEF Store

\* The logs that the table has of a transaction are those of the block that is
\* stored at the transaction's height.
LEMMA LogsOfTx ==
    ASSUME TxsStay, db \in Store, TablesInv, NEW c \in Block,
           NEW h \in TxsOf[c], NEW L,
           L = {e.log : e \in {f \in db.events : TxOf[f.log] = h}}
    PROVE  /\ \A d \in db.blocks : d.id = c.id => L = LogsIn(d, h)
           /\ L = {} \/ \E d \in db.blocks : d.id = c.id
<1>0. c.id \in Height
  BY DomainAssumption DEF Block, ZeroBlock, Height
<1>1. ASSUME NEW e \in db.events, TxOf[e.log] = h
      PROVE  \E d \in db.blocks : d.id = c.id /\ e.log \in LogsOf[d]
  <2>1. PICK d \in db.blocks : d.id = e.block_id /\ e.log \in LogsOf[d]
    BY DEF TablesInv, Store
  <2>2. d \in Block /\ TxOf[e.log] \in TxsOf[d]
    BY <2>1, DomainAssumption DEF Store
  <2>3. d.id = c.id
    BY <1>1, <2>2 DEF TxsStay
  <2> QED
    BY <2>1, <2>3
<1>2. ASSUME NEW d \in db.blocks, d.id = c.id PROVE L = LogsIn(d, h)
  <2>1. \A e \in db.events : TxOf[e.log] = h => e.log \in LogsOf[d]
    BY <1>1, <1>2 DEF TablesInv
  <2>2. ASSUME NEW l \in LogsOf[d], TxOf[l] = h PROVE l \in L
    <3>1. [log |-> l, block_id |-> c.id] \in LogRow
      BY <1>0, DomainAssumption DEF LogRow, Store
    <3>2. [log |-> l, block_id |-> c.id] \in db.events
      BY <1>2, <3>1 DEF TablesInv
    <3> QED
      BY <2>2, <3>2
  <2> QED
    BY <2>1, <2>2 DEF LogsIn
<1> QED
  BY <1>1, <1>2

-----------------------------------------------------------------------------
(* The steps keep OwnInv.                                                    *)

LEMMA InitOwnInv == ApiInit => OwnInv
<1> SUFFICES ASSUME ApiInit PROVE OwnInv
  OBVIOUS
<1>1. TablesInv
  BY DEF ApiInit, RepositoryInit, EmptyStore, TablesInv
<1>2. ~Read
  BY DEF ApiInit, Nothing, Read
<1> QED
  BY <1>1, <1>2 DEF OwnInv, HeldInv, KeysInv, LoadedTxs, LoadedLogs, FailedInv

\* What the request holds is compared with the same, if it holds the same.
LEMMA HoldsTheSame ==
    ASSUME UNCHANGED <<call, rows, txs, events>>
    PROVE  /\ Held' = Held
           /\ \A b : HashesOf(b)' = HashesOf(b)
           /\ \A h : LogsHeld(h)' = LogsHeld(h)
  BY DEF Held, HashesOf, LogsHeld

LEMMA WriterOwnInv ==
    ASSUME TxsStay, ReadInv, OwnInv, Writer
    PROVE  OwnInv'
<1>0. db \in Store /\ TablesInv
  BY DEF ReadInv, ApiTypeOK, RepositoryTypeOK, OwnInv
<1>1. UNCHANGED <<pc, req, call, error, rows, txs, events, waiting, failed,
                  late, errors>>
  BY WriterSteps
<1>2. /\ TablesInv'
      /\ \E N \in SUBSET Height :
             /\ Touched(N)
             /\ \A b : b.id \notin N => (b \in db'.blocks <=> b \in db.blocks)
             /\ \A r \in db.txs : r.block_id \notin N => r \in db'.txs
  <2>1. CASE \E S \in SUBSET Incoming :
                 StoresNew(S) /\ Touched({b.id : b \in S})
    <3>1. PICK S \in SUBSET Incoming :
                   StoresNew(S) /\ Touched({b.id : b \in S})
      BY <2>1
    <3>2. S \subseteq Block /\ \A b \in S : b.id \in Height
      BY ApiAssumption, DomainAssumption DEF Block, ZeroBlock, Height
    <3>3. TablesInv'
      BY <1>0, <3>1, <3>2, InsertTables
    <3>4. /\ db'.blocks = db.blocks \cup S
          /\ db.txs \subseteq db'.txs
      BY <3>1 DEF StoresNew, Insert
    <3> DEFINE N == {b.id : b \in S}
    <3>5. N \in SUBSET Height
      BY <3>2
    <3>6. \A b : b.id \notin N => (b \in db'.blocks <=> b \in db.blocks)
      BY <3>4
    <3> QED
      BY <3>1, <3>3, <3>4, <3>5, <3>6
  <2>2. CASE \E n \in Height : db' = Delete(db, n) /\ Touched({n})
    <3>1. PICK n \in Height : db' = Delete(db, n) /\ Touched({n})
      BY <2>2
    <3>2. TablesInv'
      BY <1>0, <3>1, DeleteTables
    <3>3. /\ db'.blocks = {b \in db.blocks : b.id # n}
          /\ db'.txs = {r \in db.txs : r.block_id # n}
      BY <3>1 DEF Delete, GetBlockById, TxsAt, EventsAt
    <3>4. {n} \in SUBSET Height
      OBVIOUS
    <3> QED
      BY <3>1, <3>2, <3>3, <3>4
  <2> QED
    BY <2>1, <2>2, WriterSteps
<1>3. PICK N \in SUBSET Height :
          /\ Touched(N)
          /\ \A b : b.id \notin N => (b \in db'.blocks <=> b \in db.blocks)
          /\ \A r \in db.txs : r.block_id \notin N => r \in db'.txs
  BY <1>2
<1>4. Read' <=> Read
  BY <1>1 DEF Read
<1>5. Read => written' = written \cup N
  BY <1>3 DEF Touched, Read
<1>6. /\ Held' = Held
      /\ \A b : HashesOf(b)' = HashesOf(b)
      /\ \A h : LogsHeld(h)' = LogsHeld(h)
  BY <1>1, HoldsTheSame
<1>7. HeldInv'
  BY <1>1, <1>3, <1>4, <1>5, <1>6 DEF OwnInv, HeldInv
<1>8. KeysInv'
  BY <1>1, <1>4, <1>6 DEF OwnInv, KeysInv
<1>9. LoadedTxs'
  <2>1. \A b : Read /\ OwnTxs(b) => OwnTxs(b)'
    BY <1>5, <1>6 DEF OwnTxs
  <2>2. WithTransactions' <=> WithTransactions
    BY <1>1 DEF WithTransactions, IsRest
  <2> QED
    BY <1>1, <1>4, <2>1, <2>2 DEF OwnInv, LoadedTxs
<1>10. LoadedLogs'
  <2>1. ASSUME NEW r, Read, OwnLogs(r) PROVE OwnLogs(r)'
    <3>1. LogsHeld(r.hash)' = LogsHeld(r.hash)
      BY <1>6
    <3>2. ASSUME r.block_id \notin written'
          PROVE  \E c \in db'.blocks : c.id = r.block_id
                     /\ LogsHeld(r.hash) = LogsIn(c, r.hash)
      <4>1. r.block_id \notin written /\ r.block_id \notin N
        BY <1>5, <2>1, <3>2
      <4>2. PICK c \in db.blocks : c.id = r.block_id
                     /\ LogsHeld(r.hash) = LogsIn(c, r.hash)
        BY <2>1, <4>1 DEF OwnLogs
      <4>3. c \in db'.blocks
        BY <1>3, <4>1, <4>2
      <4> QED
        BY <4>2, <4>3
    <3> QED
      BY <2>1, <3>1, <3>2 DEF OwnLogs, LogsIn
  <2> QED
    BY <1>1, <1>4, <1>6, <2>1 DEF OwnInv, LoadedLogs, IsRest
<1>11. FailedInv'
  BY <1>1, <1>3, <1>4, <1>5, <1>6 DEF OwnInv, FailedInv
<1> QED
  BY <1>2, <1>7, <1>8, <1>9, <1>10, <1>11 DEF OwnInv

\* Steps after which there is no answer yet, or an error.
LEMMA UnreadOwnInv ==
    ASSUME OwnInv, db' = db, ~Read'
    PROVE  OwnInv'
<1>1. TablesInv'
  BY DEF OwnInv, TablesInv
<1> QED
  BY <1>1 DEF OwnInv, HeldInv, KeysInv, LoadedTxs, LoadedLogs, FailedInv

LEMMA ReadRowsOwnInv ==
    ASSUME ReadInv, OwnInv, ReadRows
    PROVE  OwnInv'
<1>0. db \in Store /\ TablesInv
  BY DEF ReadInv, ApiTypeOK, RepositoryTypeOK, OwnInv
<1>1. /\ txs = {} /\ events = {} /\ failed = NoKeys
      /\ txs' = {} /\ events' = {} /\ failed' = NoKeys
  BY ReadRowsSteps DEF ReadInv, BlankInv
<1>2. /\ call.op \in BlockOps => rows' \subseteq db.blocks
      /\ call.op = "txs" => rows' \subseteq db.txs
  BY <1>0, ReadRowsSteps, SelectedRows DEF RepositoryTypeOK
<1>3. TablesInv'
  BY <1>0, ReadRowsSteps DEF TablesInv
<1>4. Held' = IF call.op = "txs" THEN rows' ELSE {}
  BY <1>1, ReadRowsSteps DEF Held
<1>5. req \in Requests /\ req.api \in {"rest", "graphql"}
  BY ReadRowsSteps, ApiAssumption DEF ReadInv, CallInv
<1>6. HeldInv'
  <2>1. \A r \in Held' :
            /\ \E c \in Block : c.id = r.block_id /\ r.hash \in TxsOf[c]
            /\ r \in db.txs
    BY <1>0, <1>2, <1>4 DEF TablesInv, Store
  <2>2. call.op \in BlockOps => \A b \in rows' : b \in db.blocks
    BY <1>2
  <2> QED
    BY <2>1, <2>2, ReadRowsSteps DEF HeldInv
<1>7. Nested(req) =>
        \/ /\ req.field = "blocks" /\ call.op \in BlockOps
           /\ waiting' = [NoKeys EXCEPT !.blocks = {b.id : b \in rows'}]
        \/ /\ req.field = "transactions" /\ call.op = "txs"
           /\ waiting' = [NoKeys EXCEPT !.txs = {r.hash : r \in rows'}]
  BY ReadRowsSteps DEF Nested, Shape, Asked
<1>8. KeysInv'
  <2>1. CASE ~Nested(req)
    <3>1. waiting' = NoKeys
      BY <2>1, ReadRowsSteps
    <3> QED
      BY <1>1, <3>1, ReadRowsSteps DEF KeysInv, NoKeys
  <2>2. CASE Nested(req)
    <3>1. pc' = "load"
      BY <2>2, ReadRowsSteps
    <3>2. \A h \in waiting'.txs : \E r \in Held' : r.hash = h
      BY <1>4, <1>7, <2>2 DEF NoKeys
    <3>3. call.op \notin BlockOps => waiting'.blocks = {}
      BY <1>7, <2>2 DEF NoKeys
    <3> QED
      BY <1>1, <3>1, <3>2, <3>3, ReadRowsSteps DEF KeysInv, NoKeys
  <2> QED
    BY <2>1, <2>2
<1>9. LoadedTxs'
  <2> SUFFICES ASSUME pc' # "second", WithTransactions'
               PROVE  \A b \in rows' : b.id \in waiting'.blocks
    BY DEF LoadedTxs
  <2>1. call.op \in BlockOps
        /\ (IF IsRest THEN call.tx ELSE "transactions" \in req.select)
    BY ReadRowsSteps DEF WithTransactions, IsRest
  <2>2. ~IsRest
    BY <2>1, ReadRowsSteps
  <2>3. Nested(req)
    BY <1>5, <2>1, <2>2, ReadRowsSteps DEF IsRest, Nested, Shape, BlockOps
  <2>4. waiting' = [NoKeys EXCEPT !.blocks = {b.id : b \in rows'}]
    BY <1>7, <2>1, <2>3 DEF BlockOps
  <2> QED
    BY <2>4 DEF NoKeys
<1>10. LoadedLogs'
  <2> SUFFICES ASSUME ~IsRest, "events" \in req.select
               PROVE  \A r \in Held' : r.hash \in waiting'.txs
    BY ReadRowsSteps DEF LoadedLogs, IsRest
  <2>1. CASE call.op = "txs"
    <3>1. Nested(req)
      BY <1>5, <2>1, ReadRowsSteps DEF IsRest, Nested, Shape, BlockOps
    <3>2. waiting' = [NoKeys EXCEPT !.txs = {r.hash : r \in rows'}]
      BY <1>7, <2>1, <3>1 DEF BlockOps
    <3> QED
      BY <1>4, <3>2 DEF NoKeys
  <2>2. CASE call.op # "txs"
    BY <1>4, <2>2
  <2> QED
    BY <2>1, <2>2
<1>11. FailedInv'
  BY <1>1 DEF FailedInv, NoKeys
<1> QED
  BY <1>3, <1>6, <1>8, <1>9, <1>10, <1>11 DEF OwnInv

LEMMA ReadTxsOwnInv ==
    ASSUME ReadInv, OwnInv, ReadTxs
    PROVE  OwnInv'
<1>0. db \in Store /\ TablesInv
  BY DEF ReadInv, ApiTypeOK, RepositoryTypeOK, OwnInv
<1>1. /\ pc = "second" /\ pc' = "answered"
      /\ txs' = {r \in db.txs : r.block_id \in {b.id : b \in rows}}
      /\ UNCHANGED <<db, req, call, rows, events, waiting, failed, late, errors,
                     written>>
  BY DEF ReadTxs, End, SelectedTxs, GetTransactionsByBatchBlocksId
<1>2. Read /\ IsRest /\ call.op \in BlockOps /\ rows \subseteq Block
  BY <1>1 DEF Read, ReadInv, CallInv, RowsInv
<1>3. txs = {} /\ failed = NoKeys /\ waiting = NoKeys
  BY <1>1, <1>2 DEF OwnInv, KeysInv
<1>4. events = {}
  <2>1. Held = {}
    BY <1>2, <1>3 DEF Held, BlockOps
  <2>2. \A e \in events : \E r \in Held : r.hash = TxOf[e.log]
    BY <1>2 DEF OwnInv, KeysInv
  <2> QED
    BY <2>1, <2>2
<1>5. Held' = txs'
  BY <1>1, <1>2 DEF Held, BlockOps
<1>6. TablesInv'
  BY <1>0, <1>1 DEF TablesInv
<1>7. HeldInv'
  <2>1. \A r \in txs' :
            /\ \E c \in Block : c.id = r.block_id /\ r.hash \in TxsOf[c]
            /\ r \in db.txs
    BY <1>0, <1>1 DEF TablesInv, Store
  <2> QED
    BY <1>1, <1>2, <1>5, <2>1 DEF OwnInv, HeldInv
<1>8. KeysInv'
  BY <1>1, <1>3, <1>4 DEF KeysInv, NoKeys
<1>9. LoadedTxs'
  <2> SUFFICES ASSUME NEW b \in rows PROVE OwnTxs(b)'
    BY <1>1 DEF LoadedTxs
  <2>1. b \in Block
    BY <1>2
  <2>2. HashesOf(b)' = {r.hash : r \in {q \in db.txs : q.block_id = b.id}}
    BY <1>1 DEF HashesOf, RowsOf
  <2>3. /\ b \in db.blocks => HashesOf(b)' = TxsOf[b]
        /\ \/ HashesOf(b)' = {}
           \/ \E c \in Block : c.id = b.id /\ HashesOf(b)' = TxsOf[c]
    BY <1>0, <2>1, <2>2, TxsOfHeight
  <2>4. b.id \notin written => b \in db.blocks
    BY <1>2 DEF OwnInv, HeldInv
  <2> QED
    BY <1>1, <2>3, <2>4 DEF OwnTxs
<1>10. LoadedLogs'
  BY <1>1, <1>2 DEF LoadedLogs, IsRest
<1>11. FailedInv'
  BY <1>1, <1>3 DEF FailedInv, NoKeys
<1> QED
  BY <1>6, <1>7, <1>8, <1>9, <1>10, <1>11 DEF OwnInv

LEMMA LoadTransactionsOwnInv ==
    ASSUME TxsStay, ReadInv, OwnInv, NEW K \in SUBSET Height,
           LoadTransactions(K)
    PROVE  OwnInv'
<1> DEFINE S == GetTransactionsByBatchBlocksId(db, K)
<1>0. db \in Store /\ TablesInv
  BY DEF ReadInv, ApiTypeOK, RepositoryTypeOK, OwnInv
<1>1. /\ pc = "load" /\ K # {} /\ K \subseteq waiting.blocks
      /\ txs' = txs \cup S
      /\ waiting' = [blocks |-> waiting.blocks \ K,
                     txs |-> IF "events" \in req.select
                             THEN waiting.txs \cup {r.hash : r \in S}
                             ELSE waiting.txs]
      /\ failed' = IF Fetched(S) = "none" THEN failed
                   ELSE [failed EXCEPT !.blocks = @ \cup K]
      /\ UNCHANGED <<db, pc, req, call, error, rows, events, late, errors,
                     written>>
  BY DEF LoadTransactions
<1>2. /\ waiting'.blocks = waiting.blocks \ K
      /\ waiting'.txs \subseteq waiting.txs \cup {r.hash : r \in S}
      /\ waiting.txs \subseteq waiting'.txs
      /\ "events" \in req.select => \A r \in S : r.hash \in waiting'.txs
  BY <1>1
<1>3. /\ failed'.txs = failed.txs
      /\ failed.blocks \subseteq failed'.blocks
      /\ \A n \in failed'.blocks :
             n \in failed.blocks \/ (S = {} /\ n \in K)
  <2>1. failed \in Keys
    BY DEF ReadInv, ApiTypeOK
  <2> QED
    BY <1>1, <2>1 DEF Fetched, Keys
<1>4. Read /\ call.op \in BlockOps /\ rows \subseteq Block
  BY <1>1 DEF Read, OwnInv, KeysInv, ReadInv, RowsInv
<1>5. Held = txs /\ Held' = txs'
  BY <1>1, <1>4 DEF Held, BlockOps
<1>6. \A r \in S : r \in db.txs /\ r.block_id \in K
  BY DEF GetTransactionsByBatchBlocksId
<1>7. \A r \in S : \E c \in Block : c.id = r.block_id /\ r.hash \in TxsOf[c]
  BY <1>0, <1>6 DEF TablesInv, Store
<1>8. \A r \in S : \A q \in txs : q.hash # r.hash
  <2> SUFFICES ASSUME NEW r \in S, NEW q \in txs, q.hash = r.hash PROVE FALSE
    OBVIOUS
  <2>1. PICK c \in Block : c.id = r.block_id /\ r.hash \in TxsOf[c]
    BY <1>7
  <2>2. PICK d \in Block : d.id = q.block_id /\ q.hash \in TxsOf[d]
    BY <1>4, <1>5 DEF OwnInv, HeldInv
  <2>3. r.block_id = q.block_id
    BY <2>1, <2>2 DEF TxsStay
  <2> QED
    BY <1>1, <1>4, <1>6, <2>3 DEF OwnInv, KeysInv
<1>9. TablesInv'
  BY <1>0, <1>1 DEF TablesInv
<1>10. HeldInv'
  BY <1>1, <1>4, <1>5, <1>6, <1>7 DEF OwnInv, HeldInv
<1>11. KeysInv'
  <2>1. \A r \in txs' : r.block_id \notin waiting'.blocks
    BY <1>1, <1>2, <1>4, <1>6 DEF OwnInv, KeysInv
  <2>2. \A e \in events : \E r \in txs : r.hash = TxOf[e.log]
    BY <1>4, <1>5 DEF OwnInv, KeysInv
  <2>3. \A e \in events : TxOf[e.log] \notin waiting'.txs
    BY <1>2, <1>4, <1>8, <2>2 DEF OwnInv, KeysInv
  <2>4. \A h \in waiting'.txs \cup failed'.txs \cup {TxOf[e.log] : e \in events} :
            \E r \in txs' : r.hash = h
    <3>1. \A h \in waiting.txs \cup failed.txs : \E r \in txs : r.hash = h
      BY <1>4, <1>5 DEF OwnInv, KeysInv
    <3> QED
      BY <1>1, <1>2, <1>3, <2>2, <3>1
  <2> QED
    BY <1>1, <1>4, <1>5, <2>1, <2>3, <2>4 DEF KeysInv
<1>12. LoadedTxs'
  <2> SUFFICES ASSUME WithTransactions, NEW b \in rows
               PROVE  b.id \in waiting'.blocks \cup failed'.blocks \/ OwnTxs(b)'
    BY <1>1 DEF LoadedTxs, WithTransactions, IsRest
  <2>1. CASE b.id \in K
    <3>1. \A r \in txs : r.block_id # b.id
      BY <1>1, <1>4, <2>1 DEF OwnInv, KeysInv
    <3>2. RowsOf(b, txs') = {q \in db.txs : q.block_id = b.id}
      BY <1>1, <2>1, <3>1 DEF RowsOf, GetTransactionsByBatchBlocksId
    <3>3. HashesOf(b)' = {r.hash : r \in {q \in db.txs : q.block_id = b.id}}
      BY <3>2 DEF HashesOf, RowsOf
    <3>4. /\ b \in db.blocks => HashesOf(b)' = TxsOf[b]
          /\ \/ HashesOf(b)' = {}
             \/ \E c \in Block : c.id = b.id /\ HashesOf(b)' = TxsOf[c]
      BY <1>0, <1>4, <3>3, TxsOfHeight
    <3>5. b.id \notin written => b \in db.blocks
      BY <1>4 DEF OwnInv, HeldInv
    <3> QED
      BY <1>1, <3>4, <3>5 DEF OwnTxs
  <2>2. CASE b.id \notin K
    <3>1. RowsOf(b, txs') = RowsOf(b, txs)
      BY <1>1, <1>6, <2>2 DEF RowsOf
    <3>2. HashesOf(b)' = HashesOf(b)
      BY <3>1 DEF HashesOf, RowsOf
    <3>3. b.id \in waiting.blocks \cup failed.blocks \/ OwnTxs(b)
      BY <1>1, <1>4 DEF OwnInv, LoadedTxs
    <3> QED
      BY <1>1, <1>2, <1>3, <2>2, <3>2, <3>3 DEF OwnTxs
  <2> QED
    BY <2>1, <2>2
<1>13. LoadedLogs'
  <2> SUFFICES ASSUME ~IsRest, "events" \in req.select, NEW r \in txs'
               PROVE  r.hash \in waiting'.txs \cup failed'.txs \/ OwnLogs(r)'
    BY <1>1, <1>5 DEF LoadedLogs, IsRest
  <2>1. CASE r \in S
    BY <1>2, <2>1
  <2>2. CASE r \in txs
    <3>1. r.hash \in waiting.txs \cup failed.txs \/ OwnLogs(r)
      BY <1>4, <1>5, <2>2 DEF OwnInv, LoadedLogs
    <3>2. OwnLogs(r) => OwnLogs(r)'
      BY <1>1 DEF OwnLogs, LogsHeld, LogsIn
    <3> QED
      BY <1>2, <1>3, <3>1, <3>2
  <2> QED
    BY <1>1, <2>1, <2>2
<1>14. FailedInv'
  <2> SUFFICES ASSUME ~late, errors = 0 PROVE FailedInv'
    BY <1>1 DEF FailedInv
  <2>1. ASSUME NEW b \in rows, b.id \in failed'.blocks
        PROVE  b.id \in written \/ TxsOf[b] = {}
    <3>1. CASE b.id \in failed.blocks
      BY <1>4, <3>1 DEF OwnInv, FailedInv
    <3>2. CASE S = {} /\ b.id \in K /\ b.id \notin written
      <4>1. b \in db.blocks
        BY <1>4, <3>2 DEF OwnInv, HeldInv
      <4>2. ASSUME NEW h \in TxsOf[b] PROVE FALSE
        <5>1. [hash |-> h, block_id |-> b.id] \in TxRow
          BY <1>4, DomainAssumption DEF TxRow, Block, ZeroBlock, Height
        <5>2. [hash |-> h, block_id |-> b.id] \in db.txs
          BY <1>0, <4>1, <5>1 DEF TablesInv
        <5> QED
          BY <3>2, <5>2 DEF GetTransactionsByBatchBlocksId
      <4> QED
        BY <4>2
    <3> QED
      BY <1>3, <2>1, <3>1, <3>2
  <2>2. ASSUME NEW r \in txs', r.hash \in failed'.txs
        PROVE  \/ r.block_id \in written
               \/ \A b \in db.blocks :
                      b.id = r.block_id => \A l \in LogsOf[b] : TxOf[l] # r.hash
    <3>1. \E q \in txs : q.hash = r.hash
      BY <1>3, <1>4, <1>5, <2>2 DEF OwnInv, KeysInv
    <3>2. r \in txs
      BY <1>1, <1>8, <3>1
    <3> QED
      BY <1>3, <1>4, <1>5, <2>2, <3>2 DEF OwnInv, FailedInv
  <2> QED
    BY <1>1, <1>5, <2>1, <2>2 DEF FailedInv
<1> QED
  BY <1>9, <1>10, <1>11, <1>12, <1>13, <1>14 DEF OwnInv

LEMMA LoadEventsOwnInv ==
    ASSUME TxsStay, ReadInv, OwnInv, NEW K \in SUBSET Tx, LoadEvents(K)
    PROVE  OwnInv'
<1> DEFINE S == GetEventsByBatchTxsHash(db, K)
<1>0. db \in Store /\ TablesInv
  BY DEF ReadInv, ApiTypeOK, RepositoryTypeOK, OwnInv
<1>1. /\ pc = "load" /\ K \subseteq waiting.txs
      /\ events' = events \cup S
      /\ waiting' = [waiting EXCEPT !.txs = @ \ K]
      /\ failed' = IF Fetched(S) = "none" THEN failed
                   ELSE [failed EXCEPT !.txs = @ \cup K]
      /\ UNCHANGED <<db, pc, req, call, error, rows, txs, late, errors,
                     written>>
  BY DEF LoadEvents
<1>2. waiting \in Keys /\ failed \in Keys
  BY DEF ReadInv, ApiTypeOK
<1>3. /\ waiting'.blocks = waiting.blocks /\ waiting'.txs = waiting.txs \ K
      /\ failed'.blocks = failed.blocks /\ failed.txs \subseteq failed'.txs
      /\ \A h \in failed'.txs : h \in failed.txs \/ (S = {} /\ h \in K)
  BY <1>1, <1>2 DEF Fetched, Keys
<1>4. Read
  BY <1>1 DEF Read
<1>5. Held' = Held /\ \A b : HashesOf(b)' = HashesOf(b)
  BY <1>1 DEF Held, HashesOf
<1>6. \A e : e \in S <=> e \in db.events /\ TxOf[e.log] \in K
  BY DEF GetEventsByBatchTxsHash
<1>7. TablesInv'
  BY <1>0, <1>1 DEF TablesInv
<1>8. HeldInv'
  BY <1>1, <1>4, <1>5 DEF OwnInv, HeldInv
<1>9. KeysInv'
  <2>1. \A e \in events' : TxOf[e.log] \notin waiting'.txs
    BY <1>1, <1>3, <1>4, <1>6 DEF OwnInv, KeysInv
  <2>2. \A h \in waiting'.txs \cup failed'.txs \cup {TxOf[e.log] : e \in events'} :
            h \in waiting.txs \cup failed.txs \cup {TxOf[e.log] : e \in events}
    BY <1>1, <1>3, <1>6
  <2> QED
    BY <1>1, <1>3, <1>4, <1>5, <2>1, <2>2 DEF OwnInv, KeysInv
<1>10. LoadedTxs'
  <2>1. \A b : OwnTxs(b)' <=> OwnTxs(b)
    BY <1>1, <1>5 DEF OwnTxs
  <2>2. WithTransactions' <=> WithTransactions
    BY <1>1 DEF WithTransactions, IsRest
  <2> QED
    BY <1>1, <1>3, <1>4, <2>1, <2>2 DEF OwnInv, LoadedTxs
<1>11. LoadedLogs'
  <2> SUFFICES ASSUME ~IsRest, "events" \in req.select, NEW r \in Held
               PROVE  r.hash \in waiting'.txs \cup failed'.txs \/ OwnLogs(r)'
    BY <1>1, <1>5 DEF LoadedLogs, IsRest
  <2>1. CASE r.hash \in K
    <3>1. \A e \in events : TxOf[e.log] # r.hash
      BY <1>1, <1>4, <2>1 DEF OwnInv, KeysInv
    <3>2. {e \in events' : TxOf[e.log] = r.hash}
          = {e \in db.events : TxOf[e.log] = r.hash}
      BY <1>1, <1>6, <2>1, <3>1
    <3>3. LogsHeld(r.hash)' = {e.log : e \in {f \in db.events : TxOf[f.log] = r.hash}}
      BY <3>2 DEF LogsHeld
    <3>4. PICK c \in Block : c.id = r.block_id /\ r.hash \in TxsOf[c]
      BY <1>4 DEF OwnInv, HeldInv
    <3>5. /\ \A d \in db.blocks : d.id = c.id => LogsHeld(r.hash)' = LogsIn(d, r.hash)
          /\ LogsHeld(r.hash)' = {} \/ \E d \in db.blocks : d.id = c.id
      BY <1>0, <3>3, <3>4, LogsOfTx
    <3>6. r.block_id \notin written => \E d \in db.blocks : d.id = c.id
      BY <1>0, <1>4, <3>4 DEF OwnInv, HeldInv, TablesInv, Store
    <3>7. OwnLogs(r)'
      BY <1>0, <1>1, <3>4, <3>5, <3>6 DEF OwnLogs, LogsIn, Store
    <3> QED
      BY <3>7
  <2>2. CASE r.hash \notin K
    <3>1. {e \in events' : TxOf[e.log] = r.hash}
          = {e \in events : TxOf[e.log] = r.hash}
      BY <1>1, <1>6, <2>2
    <3>2. LogsHeld(r.hash)' = LogsHeld(r.hash)
      BY <3>1 DEF LogsHeld
    <3>3. r.hash \in waiting.txs \cup failed.txs \/ OwnLogs(r)
      BY <1>4 DEF OwnInv, LoadedLogs
    <3>4. OwnLogs(r) => OwnLogs(r)'
      BY <1>1, <3>2 DEF OwnLogs, LogsIn
    <3> QED
      BY <1>3, <2>2, <3>3, <3>4
  <2> QED
    BY <2>1, <2>2
<1>12. FailedInv'
  <2> SUFFICES ASSUME ~late, errors = 0 PROVE FailedInv'
    BY <1>1 DEF FailedInv
  <2>1. ASSUME NEW r \in Held, r.hash \in failed'.txs
        PROVE  \/ r.block_id \in written
               \/ \A b \in db.blocks :
                      b.id = r.block_id => \A l \in LogsOf[b] : TxOf[l] # r.hash
    <3>1. CASE r.hash \in failed.txs
      BY <1>4, <3>1 DEF OwnInv, FailedInv
    <3>2. CASE S = {} /\ r.hash \in K
      <4> SUFFICES ASSUME NEW b \in db.blocks, NEW l \in LogsOf[b],
                          TxOf[l] = r.hash
                   PROVE  FALSE
        OBVIOUS
      <4>1. [log |-> l, block_id |-> b.id] \in LogRow
        BY <1>0, DomainAssumption DEF LogRow, Store, Block, ZeroBlock, Height
      <4>2. [log |-> l, block_id |-> b.id] \in db.events
        BY <1>0, <4>1 DEF TablesInv
      <4> QED
        BY <1>6, <3>2, <4>2
    <3> QED
      BY <1>3, <2>1, <3>1, <3>2
  <2> QED
    BY <1>1, <1>3, <1>4, <1>5, <2>1 DEF OwnInv, FailedInv
<1> QED
  BY <1>7, <1>8, <1>9, <1>10, <1>11, <1>12 DEF OwnInv

\* The rest leaves what was loaded alone; a load that fails moves its keys.
LEMMA OtherStepOwnInv ==
    ASSUME OwnInv, UNCHANGED <<db, req, call, rows, txs, events, written>>,
           Read, Read',
           \/ pc' = pc
           \/ pc = "load" /\ pc' = "answered" /\ waiting' = NoKeys,
           /\ waiting'.blocks \subseteq waiting.blocks
           /\ waiting'.txs \subseteq waiting.txs
           /\ failed.blocks \subseteq failed'.blocks
           /\ failed.txs \subseteq failed'.txs
           /\ waiting'.blocks \cup failed'.blocks = waiting.blocks \cup failed.blocks
           /\ waiting'.txs \cup failed'.txs = waiting.txs \cup failed.txs,
           pc # "load" => UNCHANGED <<waiting, failed>>,
           ~late' /\ errors' = 0 => ~late /\ errors = 0 /\ failed' = failed
    PROVE  OwnInv'
<1>1. /\ Held' = Held
      /\ \A b : HashesOf(b)' = HashesOf(b)
      /\ \A h : LogsHeld(h)' = LogsHeld(h)
  BY HoldsTheSame
<1>2. TablesInv' /\ HeldInv'
  BY <1>1 DEF OwnInv, TablesInv, HeldInv
<1>3. KeysInv'
  <2>1. pc' = "second" => pc = "second"
    OBVIOUS
  <2>2. pc' # "load" => waiting' = NoKeys
    BY DEF OwnInv, KeysInv
  <2> QED
    BY <1>1, <2>1, <2>2 DEF OwnInv, KeysInv
<1>4. LoadedTxs'
  <2>1. \A b : OwnTxs(b)' <=> OwnTxs(b)
    BY <1>1 DEF OwnTxs
  <2>2. WithTransactions' <=> WithTransactions
    BY DEF WithTransactions, IsRest
  <2> QED
    BY <2>1, <2>2 DEF OwnInv, LoadedTxs
<1>5. LoadedLogs'
  <2>1. \A r : OwnLogs(r)' <=> OwnLogs(r)
    BY <1>1 DEF OwnLogs, LogsIn
  <2> QED
    BY <1>1, <2>1 DEF OwnInv, LoadedLogs, IsRest
<1>6. FailedInv'
  BY <1>1 DEF OwnInv, FailedInv
<1> QED
  BY <1>2, <1>3, <1>4, <1>5, <1>6 DEF OwnInv

LEMMA LoadFailsOwnInv ==
    ASSUME ReadInv, OwnInv, LoadFails
    PROVE  OwnInv'
<1>1. PICK kind \in {"blocks", "txs"} : \E K \in SUBSET waiting[kind] \ {{}} :
          /\ waiting' = [waiting EXCEPT ![kind] = @ \ K]
          /\ failed'  = [failed EXCEPT ![kind] = @ \cup K]
  BY DEF LoadFails
<1> PICK K \in SUBSET waiting[kind] \ {{}} :
          /\ waiting' = [waiting EXCEPT ![kind] = @ \ K]
          /\ failed'  = [failed EXCEPT ![kind] = @ \cup K]
  BY <1>1
<1>2. /\ pc = "load" /\ (late \/ errors' # 0)
      /\ UNCHANGED <<db, pc, req, call, error, rows, txs, events, late, written>>
  BY FailureCounted DEF LoadFails
<1>3. waiting \in Keys /\ failed \in Keys
  BY DEF ReadInv, ApiTypeOK
<1>4. /\ waiting'.blocks \subseteq waiting.blocks
      /\ waiting'.txs \subseteq waiting.txs
      /\ failed.blocks \subseteq failed'.blocks
      /\ failed.txs \subseteq failed'.txs
      /\ waiting'.blocks \cup failed'.blocks = waiting.blocks \cup failed.blocks
      /\ waiting'.txs \cup failed'.txs = waiting.txs \cup failed.txs
  <2>1. CASE kind = "blocks"
    BY <1>3, <2>1 DEF Keys
  <2>2. CASE kind = "txs"
    BY <1>3, <2>2 DEF Keys
  <2> QED
    BY <2>1, <2>2
<1>5. Read /\ Read'
  BY <1>2 DEF Read
<1> QED
  BY <1>2, <1>4, <1>5, OtherStepOwnInv

LEMMA NextOwnInv ==
    ASSUME TxsStay, ReadInv, OwnInv, [ApiNext]_apiVars
    PROVE  OwnInv'
<1>1. CASE UNCHANGED apiVars \/ DeadlinePasses
  <2>1. /\ UNCHANGED <<db, pc, req, call, error, rows, txs, events, waiting,
                       failed, errors, written>>
        /\ ~late' => ~late
    BY <1>1 DEF apiVars, reqVars, DeadlinePasses
  <2>2. Read' <=> Read
    BY <2>1 DEF Read
  <2>3. CASE Read
    BY <2>1, <2>2, <2>3, OtherStepOwnInv
  <2>4. CASE ~Read
    BY <2>1, <2>2, <2>4, UnreadOwnInv
  <2> QED
    BY <2>3, <2>4
<1>2. CASE \E q \in Requests : Arrive(q)
  <2>1. PICK q \in Requests : Arrive(q)
    BY <1>2
  <2>2. db' = db /\ (pc' = "first" \/ (pc' = "answered" /\ error' # "none"))
    <3>1. CASE Refuse(q)
      BY <2>1, <3>1 DEF Arrive, Refuse, End
    <3>2. CASE Validate(q)
      BY <2>1, <3>2 DEF Arrive, Validate, End
    <3> QED
      BY <2>1, <3>1, <3>2 DEF Arrive
  <2> QED
    BY <2>2, UnreadOwnInv DEF Read
<1>3. CASE ReadNothing \/ ReadFails \/ Done
  <2>1. db' = db /\ (pc' = "idle" \/ (pc' = "answered" /\ error' # "none"))
    BY <1>3 DEF ReadNothing, ReadFails, Done, End, Fetched
  <2> QED
    BY <2>1, UnreadOwnInv DEF Read
<1>4. CASE Resolved
  <2>1. /\ pc = "load" /\ waiting = NoKeys /\ pc' = "answered" /\ error' = "none"
        /\ UNCHANGED <<db, req, call, rows, txs, events, waiting, failed, late,
                       errors, written>>
    BY <1>4 DEF Resolved, End
  <2>2. Read /\ Read'
    BY <2>1 DEF Read
  <2> QED
    BY <2>1, <2>2, OtherStepOwnInv
<1> QED
  BY <1>1, <1>2, <1>3, <1>4, WriterOwnInv, ReadRowsOwnInv, ReadTxsOwnInv,
     LoadTransactionsOwnInv, LoadEventsOwnInv, LoadFailsOwnInv
     DEF ApiNext, Step

-----------------------------------------------------------------------------
(* The answers.                                                              *)

\* An answer without an error has no key that waits.
LEMMA OkIsRead ==
    ASSUME ReadInv, OwnInv, Ok
    PROVE  Read /\ pc = "answered" /\ waiting = NoKeys
<1>1. pc = "answered" /\ error = "none"
  BY StatusOfError DEF Ok, Answered
<1> QED
  BY <1>1 DEF Read, OwnInv, KeysInv

\* A block is answered with its own transactions, or with those of one block
\* of its height if that was written between two statements: REST's second
\* statement and the loader's batches never mix blocks or lose a part, in any
\* composition of the batches.
THEOREM BlocksHaveTheirTransactions ==
    ASSUME TxsStay
    PROVE  ApiSpec => []OwnTransactions
<1>1. ReadInv /\ OwnInv => OwnTransactions
  <2> SUFFICES ASSUME ReadInv, OwnInv, Ok, WithTransactions,
                      NEW b \in rows, b.id \notin failed.blocks
               PROVE  /\ b.id \notin written => HashesOf(b) = TxsOf[b]
                      /\ \/ HashesOf(b) = {}
                         \/ \E c \in Block : c.id = b.id /\ HashesOf(b) = TxsOf[c]
    BY DEF OwnTransactions, HashesOf
  <2>1. Read /\ pc = "answered" /\ waiting = NoKeys
    BY OkIsRead
  <2>2. OwnTxs(b)
    BY <2>1 DEF OwnInv, LoadedTxs, NoKeys
  <2> QED
    BY <2>2 DEF OwnTxs
<1>2. ReadInv /\ OwnInv /\ [ApiNext]_apiVars => OwnInv'
  BY NextOwnInv, TxsStay
<1> QED
  BY <1>1, <1>2, InitReadInv, NextReadInv, InitOwnInv, PTL DEF ApiSpec

\* A transaction is answered with all its events or none, and with all of them
\* if its height was not written since it was read, although its events are
\* asked for by a later batch than the transaction.
THEOREM TransactionsHaveTheirEvents ==
    ASSUME TxsStay
    PROVE  ApiSpec => []OwnEvents
<1>1. ReadInv /\ OwnInv => OwnEvents
  <2> SUFFICES ASSUME ReadInv, OwnInv, Ok, ~IsRest, "events" \in req.select,
                      NEW r \in Held, r.hash \notin failed.txs
               PROVE  LET here == {c \in Block : c.id = r.block_id}
                      IN /\ \/ LogsHeld(r.hash) = {}
                            \/ \E c \in here : LogsHeld(r.hash) = LogsIn(c, r.hash)
                         /\ r.block_id \notin written =>
                                \E c \in here \cap db.blocks :
                                    LogsHeld(r.hash) = LogsIn(c, r.hash)
    BY DEF OwnEvents, Held, LogsHeld, LogsIn
  <2>1. Read /\ pc = "answered" /\ waiting = NoKeys
    BY OkIsRead
  <2>2. OwnLogs(r)
    BY <2>1 DEF OwnInv, LoadedLogs, NoKeys
  <2>3. db.blocks \subseteq Block
    BY DEF ReadInv, ApiTypeOK, RepositoryTypeOK, Store
  <2> QED
    BY <2>2, <2>3 DEF OwnLogs
<1>2. ReadInv /\ OwnInv /\ [ApiNext]_apiVars => OwnInv'
  BY NextOwnInv, TxsStay
<1> QED
  BY <1>1, <1>2, InitReadInv, NextReadInv, InitOwnInv, PTL DEF ApiSpec

\* Where no statement fails, a block is null in an answer only for the reasons
\* that NullsJustified names, whatever shares a batch with it.
THEOREM NullsAreJustified ==
    ASSUME TxsStay
    PROVE  ApiSpec => []NullsJustified
<1>1. ReadInv /\ OwnInv => NullsJustified
  <2> SUFFICES ASSUME ReadInv, OwnInv, Ok, call.op \in BlockOps, ~late,
                      errors = 0, NEW b \in rows, NullBlock(b, txs, failed),
                      b.id \notin written, TxsOf[b] # {}
               PROVE  \E t \in TxsOf[b] : \A l \in LogsOf[b] : TxOf[l] # t
    BY DEF NullsJustified
  <2>1. Read
    BY OkIsRead
  <2>2. Held = txs /\ b \in db.blocks
    BY <2>1 DEF Held, BlockOps, OwnInv, HeldInv
  <2>3. b.id \notin failed.blocks
    BY <2>1 DEF OwnInv, FailedInv
  <2>4. PICK r \in txs : r.block_id = b.id /\ r.hash \in failed.txs
    BY <2>3 DEF NullBlock, NullTx, RowsOf
  <2>5. \A l \in LogsOf[b] : TxOf[l] # r.hash
    BY <2>1, <2>2, <2>4 DEF OwnInv, FailedInv
  <2>6. r \in db.txs /\ r \in TxRow
    BY <2>1, <2>2, <2>4 DEF OwnInv, HeldInv, ReadInv, ApiTypeOK
  <2>7. PICK c \in db.blocks : c.id = r.block_id /\ r.hash \in TxsOf[c]
    BY <2>6 DEF OwnInv, TablesInv
  <2>8. c = b
    BY <2>2, <2>4, <2>7 DEF OwnInv, TablesInv
  <2> QED
    BY <2>5, <2>7, <2>8
<1>2. ReadInv /\ OwnInv /\ [ApiNext]_apiVars => OwnInv'
  BY NextOwnInv, TxsStay
<1> QED
  BY <1>1, <1>2, InitReadInv, NextReadInv, InitOwnInv, PTL DEF ApiSpec

-----------------------------------------------------------------------------
(* "Not found".                                                              *)

\* What comes to a "not found" after the first statement or the second.
LEMMA NextNotFound ==
    ASSUME ReadInv, OwnInv, NotFoundHonest, [ApiNext]_apiVars
    PROVE  NotFoundHonest'
<1> SUFFICES ASSUME pc' = "answered", error' = "NotFound", written' = {},
                    ~Misread'
             PROVE  NotFoundHonest'
  BY StatusOfError DEF NotFoundHonest, Answered
<1>1. CASE ReadNothing
  <2>1. /\ pc = "first" /\ \A v \in Numbers(call) : Sendable(v)
        /\ UNCHANGED <<db, req, call>>
        /\ {} \in Selected(call, db)
    BY <1>1 DEF ReadNothing, Fetched
  <2>2. RepositoryTypeOK /\ Made /\ ~Misread
    BY <2>1, CallIsChecked, WantedStays DEF ReadInv, CallInv, ApiTypeOK
  <2>3. Wanted = {}
    BY <2>1, <2>2, SelectedIsWanted
  <2>4. Wanted' = {}
    BY <2>1, <2>3, WantedStays
  <2> QED
    BY <2>4 DEF NotFoundHonest
<1>2. CASE ReadTxs
  <2>1. /\ pc = "second" /\ SelectedTxs({b.id : b \in rows}, db) = {}
        /\ UNCHANGED <<db, req, call, rows, written>>
    BY <1>2 DEF ReadTxs, End, Fetched
  <2>2. call.op \in BlockOps /\ call.tx /\ Read /\ ~Misread
    BY <2>1, WantedStays DEF ReadInv, CallInv, Read
  <2>3. rows = Wanted /\ rows \subseteq Block
    BY <2>1, <2>2 DEF ReadInv, WantedInv, RowsInv
  <2>4. ASSUME NEW b \in Wanted PROVE TxsOf[b] = {}
    <3>1. b \in db.blocks /\ b \in Block
      BY <2>1, <2>2, <2>3 DEF OwnInv, HeldInv
    <3> SUFFICES ASSUME NEW h \in TxsOf[b] PROVE FALSE
      OBVIOUS
    <3>2. [hash |-> h, block_id |-> b.id] \in TxRow
      BY <3>1, DomainAssumption DEF TxRow, Block, ZeroBlock, Height
    <3>3. [hash |-> h, block_id |-> b.id] \in db.txs
      BY <3>1, <3>2 DEF OwnInv, TablesInv
    <3> QED
      BY <2>1, <2>3, <3>3 DEF SelectedTxs, GetTransactionsByBatchBlocksId
  <2>5. Wanted' = Wanted
    BY <2>1, WantedStays
  <2> QED
    BY <2>1, <2>2, <2>4, <2>5 DEF NotFoundHonest
<1>3. CASE pc = "answered" /\ UNCHANGED <<db, pc, req, call, error, written>>
  <2>1. Wanted' = Wanted /\ Misread' = Misread
    BY <1>3, WantedStays
  <2> QED
    BY <1>3, <2>1 DEF NotFoundHonest, Answered
<1>4. ~Writer
  <2> SUFFICES ASSUME Writer PROVE FALSE
    OBVIOUS
  <2>1. pc = "answered" /\ \E N \in SUBSET Height : N # {} /\ Touched(N)
    BY WriterSteps, WriterTouches
  <2> QED
    BY <2>1 DEF Touched
<1>5. ~\E q \in Requests : Arrive(q)
  <2> SUFFICES ASSUME NEW q \in Requests, Arrive(q) PROVE FALSE
    OBVIOUS
  <2>1. CASE Refuse(q)
    BY <2>1 DEF Refuse, End
  <2>2. CASE Validate(q)
    <3>1. PICK c \in Calls(q) :
              IF Refusal(c) = "none" THEN pc' = "first" /\ error' = "none"
                                     ELSE End(Refusal(c))
      BY <2>2 DEF Validate
    <3>2. Refusal(c) \in Refused \/ Refusal(c) = "none"
      BY CallShape, RefusalOfCall DEF Shape
    <3> QED
      BY <3>1, <3>2 DEF End, Refused
  <2> QED
    BY <2>1, <2>2 DEF Arrive
<1>6. ~(ReadRows \/ ReadFails \/ Resolved \/ Done)
  <2>1. ReadRows => error' = "none"
    BY ReadRowsSteps
  <2> QED
    BY <2>1 DEF ReadFails, Resolved, Done, End
<1>7. ~(\/ \E K \in SUBSET Height : LoadTransactions(K)
        \/ \E K \in SUBSET Tx : LoadEvents(K)
        \/ LoadFails)
  BY DEF LoadTransactions, LoadEvents, LoadFails
<1>8. DeadlinePasses => FALSE
  BY DEF DeadlinePasses
<1>9. UNCHANGED apiVars => UNCHANGED <<db, pc, req, call, error, written>>
  BY DEF apiVars, reqVars
<1> QED
  BY <1>1, <1>2, <1>3, <1>4, <1>5, <1>6, <1>7, <1>8, <1>9 DEF ApiNext, Step

\* "Not found" is the answer only when nothing that the request, as written,
\* asks for is stored, or where transactions are asked for and no block has
\* one: never for a number that wrapped around or a limit.
THEOREM NotFoundIsHonest ==
    ASSUME TxsStay
    PROVE  ApiSpec => []NotFoundHonest
<1>1. ApiInit => NotFoundHonest
  BY DEF ApiInit, Nothing, NotFoundHonest, Answered
<1>2. ReadInv /\ OwnInv /\ [ApiNext]_apiVars => OwnInv'
  BY NextOwnInv, TxsStay
<1>3. ReadInv /\ OwnInv /\ NotFoundHonest /\ [ApiNext]_apiVars
      => NotFoundHonest'
  BY NextNotFound
<1> QED
  BY <1>1, <1>2, <1>3, InitReadInv, NextReadInv, InitOwnInv, PTL DEF ApiSpec
=============================================================================
