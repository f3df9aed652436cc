------------------------ MODULE ProcessesProperties -------------------------
(* What an operator relies on, as properties of Processes.                   *)
EXTENDS Processes

\* Whatever fails while they start, in whatever order they are started, and
\* although only one of them migrates the database, nothing keeps a program
\* from starting for good if nobody stops it: the API comes to run and stays
\* up, but for one whose listener failed and which exited with 0; the indexer
\* runs again and again, and ends only for what happens to it while it runs,
\* the error it meets at every start (run crash_loop) included.
BothRun ==
    [](\A p \in Program : ~told[p]) =>
        /\ []<>(state["indexer"] = "running")
        /\ <>[](state["api"] \in {"running", "gone"})

\* A program that is told to stop does, although most of its start does not
\* watch the context, a subscription may be stuck in a send for ever, a lock
\* may never be released, and a request may hang.
StopsWhenTold == \A p \in Program : told[p] ~> state[p] = "gone"

\* While the API runs and no panic left the entity's lock behind, a payload
\* that Redis delivered reaches the channel: whatever comes before it, a full
\* channel never blocks a subscription for good.
StreamFlows ==
    relay = "sending" ~> (relay # "sending" \/ told["api"] \/ leaked)
=============================================================================
