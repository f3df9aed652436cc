------------------------- MODULE BalancesProperties -------------------------
(* What wallet_balance should say, as properties of Balances.                *)
EXTENDS Balances

Movement == [token: Nat, id: Nat \cup {NoId}, from: Nat, to: Nat, value: Nat]

\* What the contracts meant by their logs.
CONSTANT Meant      \* [Transfer -> Seq(Movement)]

\* The events of ERC-20, ERC-721 and ERC-1155, and how they say moves: log is
\* one of those events, or is none and says nothing.
Says(log, moves) ==
    LET topics == log.topics
        datas  == log.datas
        Alone(id, from, to, value) ==
            moves = <<[token |-> log.emitter, id |-> id, from |-> from,
                       to |-> to, value |-> value]>>
    IN \* Transfer(address indexed, address indexed, uint256)
       \/ /\ topics[1] = "Transfer" /\ Len(topics) = 3
          /\ Alone(NoId, topics[2], topics[3], moves[1].value)
          /\ \/ datas = <<moves[1].value>>
             \/ datas = <<>> /\ moves[1].value = 0
       \* Transfer(address indexed, address indexed, uint256 indexed)
       \/ /\ topics[1] = "Transfer" /\ Len(topics) = 4
          /\ Alone(topics[4], topics[2], topics[3], 1)
       \* TransferSingle(address indexed operator, address indexed,
       \*                address indexed, uint256 id, uint256 value)
       \/ /\ topics[1] = "TransferSingle" /\ Len(topics) = 4
          /\ Len(datas) = 2
          /\ Alone(datas[1], topics[3], topics[4], datas[2])
       \/ /\ topics[1] = "TransferSingle" /\ Len(topics) = 4
          /\ Len(datas) < 2 /\ moves = <<>>
       \* TransferBatch(address indexed operator, address indexed,
       \*               address indexed, uint256[] ids, uint256[] values)
       \/ /\ topics[1] = "TransferBatch" /\ Len(topics) = 4
          /\ datas # Undecodable
          /\ DOMAIN moves = DOMAIN datas.ids \cap DOMAIN datas.values
          /\ \A i \in DOMAIN moves :
                moves[i] = [token |-> log.emitter, id |-> datas.ids[i],
                            from |-> topics[3], to |-> topics[4],
                            value |-> datas.values[i]]
       \/ /\ topics[1] = "TransferBatch" /\ Len(topics) = 4
          /\ datas = Undecodable /\ moves = <<>>

\* A log that extraction does not panic on is encoded as its standard says.
ASSUME MeantAssumption ==
    /\ IsFiniteSet(Transfer)
    /\ Meant \in [Transfer -> Seq(Movement)]
    /\ \A l \in Transfer \ ShortTopics : Says(LogData[l], Meant[l])

\* What key's row gains by a move.
Gain(key, move) ==
    IF <<move.token, move.id>> # <<key.token, key.id>> THEN 0
    ELSE (IF move.to = key.wallet THEN move.value ELSE 0)
         - (IF move.from = key.wallet THEN move.value ELSE 0)

GainOf(key, moves) ==
    SumFunction([i \in DOMAIN moves |-> Gain(key, moves[i])])

\* The rows that moves are about.
RowsOf(moves) ==
    UNION {{[wallet |-> w, token |-> moves[i].token, id |-> moves[i].id] :
               w \in {moves[i].from, moves[i].to}} :
           i \in DOMAIN moves}

\* The table is what the ledger says: there is a row for every wallet, token
\* and id that a counted transfer is about, and for no other, and its amount is
\* the sum of what those transfers meant, times counted.  However a height's
\* transfers are decoded, ordered and aggregated, none gets lost, split, doubled
\* or given to another token, id or wallet, through crashes and repeated heights.
TableIsLedger ==
    /\ DOMAIN wallet_balance =
           UNION {RowsOf(Meant[l]) : l \in {t \in Transfer : ledger[t] > 0}}
    /\ \A k \in DOMAIN wallet_balance :
           wallet_balance[k] =
               SumFunction([l \in Transfer |-> ledger[l] * GainOf(k, Meant[l])])

\* The stored transfers that lie deep enough and are not counted yet.
Due == {l \in Transfer :
           /\ ledger[l] = 0
           /\ \E r \in db.events : r.log = l /\ Finalized(r.block_id)}

\* balancefill waits for a signal that backfill, up to date when the process
\* started, never sends.
Unsignalled == up /\ balpc = "signal" /\ ~behind

\* Again and again all of them are counted, through crashes and repeats: no
\* combination of logs makes the upsert of a height fail for ever, and nothing
\* but an up-to-date backfill keeps balancefill from its work.
TransfersCounted == []<>(Due = {} \/ Unsignalled)
=============================================================================
