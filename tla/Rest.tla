-------------------------------- MODULE Rest --------------------------------
(* The REST handlers (handlers/rest): from the parameters of a request to a  *)
(* call of the query service, and from its outcome to a status.  A request q *)
(* has its endpoint in q.path and a field per parameter; a number is itself, *)
(* TooLarge, or Malformed.  An extraction is the set of the one call it      *)
(* makes, or empty: "invalid query parameters".                              *)
EXTENDS Query

CONSTANT TooLarge       \* digits that do not fit in 64 bits

\* What a parameter for an unsigned number may be.
Param == (0..(Word - 1)) \cup {Absent, Malformed, TooLarge}

RestRequest(q) ==
    \/ /\ q.path = "/blocks"
       /\ {q.id, q.from, q.offset, q.fromTime, q.toTime} \subseteq Param
       /\ q.tx \in BOOLEAN
    \/ /\ q.path \in {"/transactions", "/events"}
       /\ {q.fromBlock, q.toBlock} \subseteq Param
    \/ q.path = "/events/log"

\* strconv.ParseUint returns a value along with its error.
ParseUint(v) ==
    CASE v = Malformed -> 0 [] v = TooLarge -> Word - 1 [] OTHER -> v

Parses(v) == v \notin {Malformed, TooLarge}

BothOrNone(v, w) == (v = Absent) = (w = Absent)

\* The groups of parameters that a request for blocks gives.
Groups(q) ==
    {g \in {"id", "hash", "offset", "time"} :
        CASE g = "id"     -> q.id # Absent
          [] g = "hash"   -> q.hash # Absent
          [] g = "offset" -> q.from # Absent
          [] g = "time"   -> q.fromTime # Absent /\ q.toTime # Absent}

\* extractBlockDTO: exactly one group.  Where it has two numbers, the error of
\* the first is overwritten by the outcome of the second.
extractBlockDTO(q) ==
    {c \in {[op |-> "id", id |-> ParseUint(q.id), tx |-> q.tx],
            [op |-> "hash", hash |-> q.hash, tx |-> q.tx],
            [op |-> "offset", from |-> ParseUint(q.from),
             offset |-> IF q.offset = Absent THEN 0 ELSE ParseUint(q.offset),
             tx |-> q.tx],
            [op |-> "time", from |-> ParseUint(q.fromTime),
             to |-> ParseUint(q.toTime), tx |-> q.tx]} :
        /\ Groups(q) = {c.op}
        /\ c.op = "id" => Parses(q.id)
        /\ c.op = "offset" => Parses(IF q.offset = Absent THEN q.from
                                                          ELSE q.offset)
        /\ c.op = "time" => Parses(q.toTime)}

\* extractEventFilter; q.topics are those of topic0..topic3 that are given.
extractEventFilter(q) ==
    {c \in {[op |-> "events", emitter |-> q.address, topics |-> q.topics,
             fromBlock |-> q.fromBlock, toBlock |-> q.toBlock,
             limit |-> q.limit]} :
        /\ q.address # Absent \/ q.topics # <<>>
        /\ BothOrNone(q.fromBlock, q.toBlock)
        /\ Parses(q.fromBlock) /\ Parses(q.toBlock) /\ Parses(q.limit)}

\* GetEventByTxLog.
extractEventKey(q) ==
    {c \in {[op |-> "event", hash |-> q.txHash, index |-> q.logIndex]} :
        /\ q.txHash # Absent /\ q.logIndex # Absent
        /\ Parses(q.logIndex)}

\* extractTxFilter: a hash alone, or a range with or without addresses.
extractTxFilter(q) ==
    {c \in {[op |-> "txs", hash |-> q.hash, from |-> q.from, to |-> q.to,
             fromBlock |-> q.fromBlock, toBlock |-> q.toBlock,
             limit |-> q.limit]} :
        LET hasRange   == {q.fromBlock, q.toBlock} # {Absent}
            hasAddress == {q.from, q.to} # {Absent}
        IN /\ (q.hash # Absent) # (hasRange \/ hasAddress)
           /\ BothOrNone(q.fromBlock, q.toBlock)
           /\ hasAddress => hasRange
           /\ Parses(q.fromBlock) /\ Parses(q.toBlock) /\ Parses(q.limit)}

\* The routes of NewRouter.
RestCalls(q) ==
    CASE q.path = "/blocks"       -> extractBlockDTO(q)
      [] q.path = "/transactions" -> extractTxFilter(q)
      [] q.path = "/events"       -> extractEventFilter(q)
      [] q.path = "/events/log"   -> extractEventKey(q)

\* writeResErrorToHTTP.
Status(error) ==
    CASE error = "none"       -> 200
      [] error = "NotFound"   -> 404
      [] error = "Parameters" -> 400
      [] error \in {"InvalidHash", "InvalidId", "InvalidBlockRange"} -> 400
      [] OTHER -> 500
=============================================================================
