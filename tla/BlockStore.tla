----------------------------- MODULE BlockStore -----------------------------
(* What cmd/indexer promises its readers about the tables blocks,            *)
(* transactions and events, height by height.  A height holds at most one    *)
(* block.  A block appears with all its transactions and logs at once, never *)
(* loses one and never changes while it is stored, and goes with all of them *)
(* at once.  Rows of a block that is gone may come back, late, to its        *)
(* height; they never touch those of a block that is stored.                 *)
EXTENDS Domain

VARIABLE content

\* What the tables hold of a height: blocks, hashes of transactions, keys of
\* logs.
Vacant == [blocks |-> {}, txs |-> {}, logs |-> {}]

StoreInit == content = [n \in Height |-> Vacant]

\* The rows of block b are there, and those that were there before.
Joins(n, b) ==
    /\ b.id = n
    /\ content'[n].txs = content[n].txs \cup TxsOf[b]
    /\ content'[n].logs = content[n].logs \cup LogsOf[b]

\* A whole block appears where none is.
Appears(n) ==
    /\ content[n].blocks = {}
    /\ \E b \in Block : content'[n].blocks = {b} /\ Joins(n, b)

\* Rows of a block that is gone come back, and nothing else changes.
ComesBack(n) ==
    /\ content'[n].blocks = content[n].blocks
    /\ content[n].txs \subseteq content'[n].txs
    /\ content[n].logs \subseteq content'[n].logs
    /\ \E b \in Block \ content[n].blocks :
          /\ b.id = n
          /\ content'[n].txs \subseteq content[n].txs \cup TxsOf[b]
          /\ content'[n].logs \subseteq content[n].logs \cup LogsOf[b]

\* A transaction of the database commits new rows of any number of heights.
StoreRows ==
    /\ content' = [n \in Height |-> content'[n]]
    /\ \A n \in Height :
          content'[n] = content[n] \/ Appears(n) \/ ComesBack(n)

\* The block of a height goes, with every row of it.
DropBlock(n) ==
    /\ content' = [content EXCEPT ![n] = content'[n]]
    /\ content'[n].blocks = {}
    /\ \E b \in content[n].blocks :
          /\ content'[n].txs \subseteq content[n].txs \ TxsOf[b]
          /\ content'[n].logs \subseteq content[n].logs \ LogsOf[b]

StoreNext == StoreRows \/ \E n \in Height : DropBlock(n)

BlockStoreSpec == StoreInit /\ [][StoreNext]_content
=============================================================================
