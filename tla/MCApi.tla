------------------------------- MODULE MCApi --------------------------------
(* An instance of Api for TLC: two heights, two forks; a block without       *)
(* transactions, a transaction without logs, one that two forks share.       *)
EXTENDS ApiProperties

MCTx  == 1..4
MCLog == 1..4

B(n, f) == [id |-> n, fork |-> f]

MCTxsOf ==
    [b \in Block |->
        CASE b = B(1, 0) -> {1, 2}
          [] b = B(1, 1) -> {2, 3}
          [] b = B(2, 0) -> {4}
          [] OTHER -> {}]

MCTxOf    == <<1, 1, 2, 4>>
MCLogsOf  == [b \in Block |-> {l \in MCLog : MCTxOf[l] \in MCTxsOf[b]}]
MCTimeOf  == [b \in Block |-> 3 * b.id + b.fork]
MCSender  == <<"ann", "bob", "ann", "ann">>
MCIndexOf == <<0, 1, 2, 0>>
MCEmitter == <<"token", "vault", "token", "token">>
MCTopics  == <<<<"transfer", "ann">>, <<>>, <<"transfer", "ann">>, <<"mint">>>>
MCRecipient == <<"bob", Absent, "bob", "bob">>

\* Height 0 stays vacant.
MCIncoming == {b \in Block : b.id > 0}

BlocksRequest ==
    [path |-> "/blocks", api |-> "rest", id |-> Absent, hash |-> Absent,
     from |-> Absent, offset |-> Absent, fromTime |-> Absent,
     toTime |-> Absent, tx |-> TRUE]

Numerals == {0, 1, 2, 7, 15, Malformed, TooLarge}

BlocksRequests ==
    {[BlocksRequest EXCEPT !.id = n, !.tx = t] :
        n \in Numerals, t \in BOOLEAN}
    \cup {[BlocksRequest EXCEPT !.hash = h] :
        h \in {Malformed, B(1, 1), B(2, 1)}}
    \cup {[BlocksRequest EXCEPT !.from = n, !.offset = o, !.tx = t] :
        n \in Numerals, o \in {Absent, 0, 1, 2, 3, Malformed}, t \in BOOLEAN}
    \cup {[BlocksRequest EXCEPT !.fromTime = n, !.toTime = m] :
        n \in {Absent, 0, 1, 2, 4, Malformed},
        m \in {Absent, 4, 5, 7, TooLarge}}
    \cup {[BlocksRequest EXCEPT !.id = 1, !.from = 1]}

TxsRequests ==
    [path : {"/transactions"}, api : {"rest"}, hash : {Absent, 2, Malformed},
     from : {Absent, "ann"}, to : {Absent}, fromBlock : {Absent, 1},
     toBlock : {Absent, 2, 3, Malformed}, limit : {Absent, -1, 1}]
    \cup {[path |-> "/transactions", api |-> "rest", hash |-> Absent,
           from |-> Absent, to |-> "bob", fromBlock |-> 2, toBlock |-> 4,
           limit |-> 3]}

EventsRequests ==
    [path : {"/events"}, api : {"rest"}, address : {Absent, "token", Malformed},
     topics : {<<>>, <<"ann">>, <<Malformed, "ann">>}, fromBlock : {Absent, 1},
     toBlock : {Absent, 2}, limit : {Absent, 1, Malformed}]
    \cup [path : {"/events/log"}, api : {"rest"}, txHash : {Absent, 1, Malformed},
          logIndex : {-1, 0, 1, Malformed}]

GraphqlRequests ==
    [api : {"graphql"}, field : {"blocks"},
     filter : {Absent}
        \cup [id : {Absent, 1, Malformed}, fromTime : {Absent}, toTime : {Absent},
              fromId : {Absent, 1, 2}, offset : {Absent, 0, 2}]
        \cup {[id |-> Absent, fromTime |-> n, toTime |-> 5, fromId |-> Absent,
               offset |-> Absent] : n \in {2, 4}},
     select : {{}, {"transactions"}, {"transactions", "events"}}]
    \cup [api : {"graphql"}, field : {"transactions"},
          filter : {Absent} \cup [from : {Absent, "ann"}, to : {Absent, "bob"}],
          select : {{}, {"events"}}]
    \cup [api : {"graphql"}, field : {"events"},
          filter : [emitter : {Absent, "token"},
                    topics : {<<>>, <<"ann">>, <<Absent>>}],
          select : {{}}]

MCRequests == BlocksRequests \cup TxsRequests \cup EventsRequests
              \cup GraphqlRequests
=============================================================================
