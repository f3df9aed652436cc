------------------------------ MODULE Balances ------------------------------
(* Table wallet_balance itself, which Balancefill represents by a ledger: how *)
(* a stored log becomes entries, how the entries of a height are aggregated, *)
(* and how they are added to the table (balancefill.go, BatchUpsertBalance), *)
(* composed with the goroutine, its crashes and its restarts.  Words of 32   *)
(* bytes, addresses and token ids among them, are numbers.                   *)
EXTENDS Balancefill, Sequences, Functions

CONSTANTS
    Base,       \* number of values of a word, 2^256
    LogData,    \* [Transfer -> [emitter, topics, datas]]; datas is a sequence
                \* of words, or the two arrays of a TransferBatch
    Undecodable \* datas that abi.Arguments.Unpack refuses

VARIABLES
    wallet_balance,     \* [keys of the rows -> amounts]
    behind              \* had backfill a height to fetch when the process
                        \* started?

balanceVars == <<groupVars, db, balancefillVars, wallet_balance, behind>>

-----------------------------------------------------------------------------
(* From a log to entries.  A slice whose order does not matter is a function *)
(* from whatever indexes it to its elements.                                 *)

NoId == -1      \* token_id '' of a fungible token

\* Mutant of findStandard: four topics count as three.
findStandardFungible(log) ==
    CASE log.topics[1] = "TransferSingle" -> "ERC1155_SINGLE"
      [] log.topics[1] = "TransferBatch"  -> "ERC1155_BATCH"
      [] OTHER -> IF Len(log.topics) <= 4 THEN "ERC20" ELSE "ERC721"

\* GetLogsByTopic returns no log without topics.
findStandard(log) ==
    CASE log.topics[1] = "TransferSingle" -> "ERC1155_SINGLE"
      [] log.topics[1] = "TransferBatch"  -> "ERC1155_BATCH"
      [] OTHER -> IF Len(log.topics) <= 3 THEN "ERC20" ELSE "ERC721"

\* The topics that extraction indexes.
TopicsNeeded(log) == IF findStandard(log) = "ERC20" THEN 3 ELSE 4

ASSUME BalancesAssumption ==
    /\ Base \in Nat
    /\ ShortTopics = {l \in Transfer :
                         Len(LogData[l].topics) < TopicsNeeded(LogData[l])}

\* big.Int.SetBytes: big-endian, all of the words.
SetBytes(words) ==
    LET n[i \in 0..Len(words)] ==
            IF i = 0 THEN 0 ELSE n[i - 1] * Base + words[i]
    IN n[Len(words)]

Entry(wallet, log, id, amount) ==
    [wallet |-> wallet, token |-> log.emitter, id |-> id, amount |-> amount]

\* The pair of entries of a transfer.
Moved(log, from, to, id, value) ==
    <<Entry(from, log, id, -value), Entry(to, log, id, value)>>

extractBatch(log) ==
    IF log.datas = Undecodable THEN <<>>
    ELSE LET ids    == log.datas.ids
             values == log.datas.values
         IN [i \in (DOMAIN ids \cap DOMAIN values) \X (1..2) |->
                Moved(log, log.topics[3], log.topics[4],
                      ids[i[1]], values[i[1]])[i[2]]]

extractBalanceEntriesFromLog(log) ==
    LET topics == log.topics IN
    CASE findStandard(log) = "ERC20" ->
            Moved(log, topics[2], topics[3], NoId, SetBytes(log.datas))
      [] findStandard(log) = "ERC721" ->
            Moved(log, topics[2], topics[3], topics[4], 1)
      [] findStandard(log) = "ERC1155_SINGLE" ->
            IF Len(log.datas) < 2 THEN <<>>
            ELSE Moved(log, topics[3], topics[4], log.datas[1], log.datas[2])
      [] findStandard(log) = "ERC1155_BATCH" -> extractBatch(log)

-----------------------------------------------------------------------------
(* From entries to the table.                                                *)

balanceKey(entry) ==
    [wallet |-> entry.wallet, token |-> entry.token, id |-> entry.id]

KeysOf(entries) == {balanceKey(entries[i]) : i \in DOMAIN entries}

\* What each of the entries adds to key's row.
Amounts(entries, key) ==
    [i \in DOMAIN entries |->
        IF balanceKey(entries[i]) = key THEN entries[i].amount ELSE 0]

Total(entries, key) == SumFunction(Amounts(entries, key))

\* The rows of GetLogsByTopic come in any order.
EntriesOf(S) ==
    LET extracted == [l \in S |-> extractBalanceEntriesFromLog(LogData[l])]
    IN [i \in UNION {{l} \X DOMAIN extracted[l] : l \in S} |->
           extracted[i[1]][i[2]]]

\* Mutant of aggregateSameEntries: none is aggregated.
AsExtracted(entries) == entries

\* One entry per key, in the order of a Go map.
aggregateSameEntries(entries) ==
    [k \in KeysOf(entries) |->
        [wallet |-> k.wallet, token |-> k.token, id |-> k.id,
         amount |-> Total(entries, k)]]

\* ON CONFLICT DO UPDATE cannot affect a row a second time: the statement fails,
\* whenever it is tried, if two of its entries have the same key.
Accepted(entries) == Cardinality(KeysOf(entries)) = Cardinality(DOMAIN entries)

\* INSERT, or amount = wallet_balance.amount + EXCLUDED.amount.
Upserted(table, entries) ==
    [k \in DOMAIN table \cup KeysOf(entries) |->
        (IF k \in DOMAIN table THEN table[k] ELSE 0) + Total(entries, k)]

Upsert ==
    \E entries \in {EntriesOf(logs)} :
        \E rows \in {aggregateSameEntries(entries)} :
            /\ Accepted(rows)
            /\ wallet_balance' = Upserted(wallet_balance, rows)

-----------------------------------------------------------------------------
(* The goroutine with its table, over a growing chain.                       *)

BalancesInit ==
    /\ GroupInit
    /\ RepositoryInit
    /\ BalancefillInit
    /\ wallet_balance = [k \in {} |-> 0]
    /\ behind = FALSE

\* The other goroutines store the next block.
StoreNext ==
    /\ \E b \in Block :
          /\ b.fork = 0 /\ b.id \notin Ids(db)
          /\ \A n \in Height : n < b.id => n \in Ids(db)
          /\ db' = Insert(db, {b})
    /\ UNCHANGED <<groupVars, balancefillVars, wallet_balance, behind>>

\* The process starts, and balancefill waits for backfill.  Whether the newest
\* block is beyond backfill's cursor is not a matter of this module.
Start ==
    /\ ~up /\ up' = TRUE
    /\ balpc' = "signal"
    /\ behind' \in BOOLEAN
    /\ UNCHANGED <<cancelled, faults, db, logs, balancefillCursor, ledger,
                   wallet_balance>>

\* Backfill is done and signals.  One that had nothing to fetch is done without
\* a signal, and balancefill waits as long as the process runs.
BackfillSignal ==
    /\ balpc = "signal" /\ behind
    /\ balpc' = "cursor"
    /\ UNCHANGED <<groupVars, db, logs, balancefillCursor, ledger,
                   wallet_balance, behind>>

\* The process exits after an error, or is killed.
ProcessGone ==
    /\ up
    /\ \/ balpc = "done" /\ UNCHANGED faults
       \/ Fault
    /\ up' = FALSE /\ cancelled' = FALSE
    /\ BalancefillStops
    /\ UNCHANGED <<db, wallet_balance, behind>>

Booked == balpc = "upsert" /\ balpc' = "advance"

Goroutine ==
    /\ BalancefillStep
    /\ IF Booked THEN Upsert ELSE UNCHANGED wallet_balance
    /\ UNCHANGED behind

BalancesNext ==
    StoreNext \/ Start \/ BackfillSignal \/ ProcessGone \/ Goroutine

\* A runnable goroutine runs, backfill among them, and a process that exited is
\* started again.
BalancesSpec ==
    /\ BalancesInit /\ [][BalancesNext]_balanceVars
    /\ WF_balanceVars(Start)
    /\ WF_balanceVars(BackfillSignal)
    /\ WF_balanceVars(ProcessGone /\ balpc = "done")
    /\ WF_balanceVars(Goroutine)
=============================================================================
