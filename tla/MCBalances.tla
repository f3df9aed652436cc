----------------------------- MODULE MCBalances -----------------------------
(* An instance of Balances for TLC: transfers of every standard, encoded as  *)
(* contracts encode them.                                                    *)
EXTENDS BalancesProperties

Operator == 9       \* an indexed argument of ERC-1155 events

Move(token, id, from, to, value) ==
    [token |-> token, id |-> id, from |-> from, to |-> to, value |-> value]

Erc20(m) ==
    [emitter |-> m.token, topics |-> <<"Transfer", m.from, m.to>>,
     datas |-> IF m.value = 0 THEN <<>> ELSE <<m.value>>]

Erc721(m) ==
    [emitter |-> m.token, topics |-> <<"Transfer", m.from, m.to, m.id>>,
     datas |-> <<>>]

Single(m) ==
    [emitter |-> m.token, topics |-> <<"TransferSingle", Operator, m.from, m.to>>,
     datas |-> <<m.id, m.value>>]

Batch(ms) ==
    [emitter |-> ms[1].token,
     topics |-> <<"TransferBatch", Operator, ms[1].from, ms[1].to>>,
     datas |-> [ids    |-> [i \in DOMAIN ms |-> ms[i].id],
                values |-> [i \in DOMAIN ms |-> ms[i].value]]]

\* Wallets 0, 1 and 2, 0 being that of mints; tokens 1, 2 and 3.
MCMeant ==
    <<<<Move(1, NoId, 0, 1, 5)>>,   <<Move(1, NoId, 1, 2, 3)>>,
      <<Move(2, 7, 0, 1, 1)>>,
      <<Move(3, 7, 0, 2, 4)>>,      <<Move(3, 7, 2, 1, 1), Move(3, 8, 2, 1, 2),
                                      Move(3, 7, 2, 1, 2)>>,
      <<Move(1, NoId, 2, 2, 2)>>,
      <<Move(2, 7, 1, 2, 1)>>,      <<Move(2, 8, 0, 2, 1)>>,
      <<>>,                         <<>>,
      <<Move(1, NoId, 1, 0, 0)>>,   <<Move(3, 8, 1, 2, 2)>>>>

MCTransfer == 1..12

\* Log 9 is too short and log 10 does not decode.  Log 11 moves nothing, and
\* the arrays of log 12 differ in length.
MCLogData ==
    [l \in MCTransfer |->
        CASE l \in {1, 2, 6, 11} -> Erc20(MCMeant[l][1])
          [] l \in {3, 7, 8} -> Erc721(MCMeant[l][1])
          [] l = 4  -> Single(MCMeant[l][1])
          [] l = 5  -> Batch(MCMeant[l])
          [] l = 9  -> [Single(Move(3, 7, 1, 2, 1)) EXCEPT !.datas = <<7>>]
          [] l = 10 -> [Batch(<<Move(3, 7, 1, 2, 1)>>)
                            EXCEPT !.datas = Undecodable]
          [] l = 12 -> [Batch(MCMeant[l]) EXCEPT !.datas.ids = Append(@, 7)]]

MCTxOf == [l \in MCTransfer |-> l]

MCLogsOf ==
    [b \in Block |->
        CASE b.id = 1 -> {1, 2, 3}
          [] b.id = 2 -> {4, 5, 6}
          [] b.id = 3 -> 7..12
          [] OTHER -> {}]
=============================================================================
