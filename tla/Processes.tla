----------------------------- MODULE Processes ------------------------------
(* cmd/api and cmd/indexer as processes: what each needs to start, in which  *)
(* order, how it ends, and when docker-compose starts it again (restart:     *)
(* on-failure).  What the indexer does once it runs is module Indexer, what  *)
(* the API answers is Api and Hub; here the API has requests that take a     *)
(* while, and one of its four subscriptions to Redis.                        *)
EXTENDS Config, FiniteSets

CONSTANTS
    Files,          \* contents that .env may have
    Environ,        \* the environment of the containers
    Migrations,     \* number of migrations
    Buffer,         \* capacity of a subscription's channel, 10
    MaxRequests,    \* bound on requests at a time
    MaxOutages      \* bound on outages, crashes and failing listeners

ASSUME ProcessesAssumption ==
    /\ {Migrations, Buffer, MaxRequests, MaxOutages} \subseteq Nat
    /\ \E file \in Files : Load(file, Environ) # {}

Program == {"api", "indexer"}
Service == {"postgres", "redis"}

VARIABLES
    state,      \* what each program does, see State
    told,       \* was it told to stop (SIGINT or SIGTERM)?
    file,       \* its .env
    serving,    \* the services that answer
    schema,     \* migrations applied
    outages,    \* outages, crashes and failing listeners so far
    inflight,   \* requests the API handles, but for hijacked connections
    relay,      \* the goroutine of pubsub.Subscribe
    out,        \* payloads in its channel
    broadcast,  \* what the goroutine broadcast does: "off", "select", or
                \* "deliver", from before its RLock on
    leaked      \* did a panic leave entity.mu locked?

streamVars == <<relay, out, broadcast, leaked>>
apiVars == <<inflight, streamVars>>
envVars == <<file, serving, outages>>
processVars == <<state, told, envVars, schema, apiVars>>

\* down      not running, to be started
\* config    in config.Load
\* database  in repository.New       migrate   in RunUpMigrations (api)
\* redis     in pubsub.New           setup     at what comes before running
\* running   serving, indexing       draining  in Server.Shutdown (api)
\* gone      stopped for good
State == {"down", "config", "database", "migrate", "redis", "setup", "running",
          "draining", "gone"}

StreamOff == relay' = "off" /\ out' = 0 /\ broadcast' = "off" /\ leaked' = FALSE

ProcessesInit ==
    /\ state = [p \in Program |-> "down"]
    /\ told = [p \in Program |-> FALSE]
    /\ file \in [Program -> Files]
    /\ serving = Service
    /\ schema = 0
    /\ outages = 0
    /\ inflight = 0
    /\ relay = "off" /\ out = 0 /\ broadcast = "off" /\ leaked = FALSE

Goto(p, s) == state' = [state EXCEPT ![p] = s]

\* The process exits with an error, or panics: unless it was told to stop it is
\* started again.
Die(p) == Goto(p, IF told[p] THEN "gone" ELSE "down")

-----------------------------------------------------------------------------
(* Starting.  Only what comes last watches the context.                      *)

Launch(p) ==
    /\ state[p] = "down"
    /\ Goto(p, "config")
    /\ UNCHANGED <<told, envVars, schema, apiVars>>

LoadConfig(p) ==
    /\ state[p] = "config"
    /\ IF Load(file[p], Environ) = {} THEN Die(p) ELSE Goto(p, "database")
    /\ UNCHANGED <<told, envVars, schema, apiVars>>

\* repository.New pings.  Only the API migrates.
ConnectDatabase(p) ==
    /\ state[p] = "database"
    /\ IF "postgres" \notin serving THEN Die(p)
       ELSE Goto(p, IF p = "api" THEN "migrate" ELSE "redis")
    /\ UNCHANGED <<told, envVars, schema, apiVars>>

\* Mutant of RunUpMigrations: nobody migrates.
RunNoMigrations ==
    /\ state["api"] = "migrate"
    /\ Goto("api", "redis")
    /\ UNCHANGED <<told, envVars, schema, apiVars>>

\* goose.Up applies what is missing, each migration in a transaction.
RunUpMigrations ==
    /\ state["api"] = "migrate"
    /\ \/ /\ "postgres" \notin serving
          /\ Die("api") /\ UNCHANGED schema
       \/ /\ "postgres" \in serving /\ schema < Migrations
          /\ schema' = schema + 1 /\ UNCHANGED state
       \/ /\ "postgres" \in serving /\ schema = Migrations
          /\ Goto("api", "redis") /\ UNCHANGED schema
    /\ UNCHANGED <<told, envVars, apiVars>>

\* pubsub.New pings, and panics without an answer.
ConnectRedis(p) ==
    /\ state[p] = "redis"
    /\ IF "redis" \in serving THEN Goto(p, "setup") ELSE Die(p)
    /\ UNCHANGED <<told, envVars, schema, apiVars>>

\* ws.NewRouter subscribes, with the context, and starts the broadcasts.
SetupApi ==
    /\ state["api"] = "setup"
    /\ IF "redis" \in serving /\ ~told["api"]
       THEN /\ Goto("api", "running")
            /\ relay' = "select" /\ out' = 0 /\ broadcast' = "select"
            /\ UNCHANGED leaked
       ELSE Die("api") /\ UNCHANGED streamVars
    /\ UNCHANGED <<told, envVars, schema, inflight>>

\* The first statement, of -reindex or of backfill, needs the tables.
SetupIndexer ==
    /\ state["indexer"] = "setup"
    /\ IF "postgres" \in serving /\ schema > 0 /\ ~told["indexer"]
       THEN Goto("indexer", "running") ELSE Die("indexer")
    /\ UNCHANGED <<told, envVars, schema, apiVars>>

-----------------------------------------------------------------------------
(* Running.                                                                  *)

\* Run returns an error: of a call to a service or to the RPC node, of its own,
\* like a primary key violation that the next run meets again, or of the signal.
IndexerEnds ==
    /\ state["indexer"] = "running"
    /\ Die("indexer")
    /\ UNCHANGED <<told, envVars, schema, apiVars>>

AcceptRequest ==
    /\ state["api"] = "running" /\ inflight < MaxRequests
    /\ inflight' = inflight + 1
    /\ UNCHANGED <<state, told, envVars, schema, streamVars>>

\* A request is answered; or it becomes a WebSocket: its connection is hijacked,
\* and Shutdown does not know it any more.
AnswerRequest ==
    /\ inflight > 0
    /\ inflight' = inflight - 1
    /\ UNCHANGED <<state, told, envVars, schema, streamVars>>

\* pubsub.Subscribe's goroutine: a message comes, and is sent to the channel
\* without regard to the context.
ReceivePayload ==
    /\ relay = "select" /\ "redis" \in serving
    /\ relay' = "sending"
    /\ UNCHANGED <<state, told, envVars, schema, inflight, out, broadcast,
                   leaked>>

SendPayload ==
    /\ relay = "sending" /\ out < Buffer
    /\ out' = out + 1
    /\ relay' = "select"
    /\ UNCHANGED <<state, told, envVars, schema, inflight, broadcast, leaked>>

\* Mutant of TakePayload: one that does not unmarshal ends the goroutine.
TakePayloadOrEnd ==
    /\ broadcast = "select" /\ out > 0
    /\ out' = out - 1
    /\ broadcast' \in {"deliver", "off"}
    /\ UNCHANGED <<state, told, envVars, schema, inflight, relay, leaked>>

\* A payload that does not unmarshal is dropped.
TakePayload ==
    /\ broadcast = "select" /\ out > 0
    /\ out' = out - 1
    /\ broadcast' \in {"deliver", "select"}
    /\ UNCHANGED <<state, told, envVars, schema, inflight, relay, leaked>>

\* RLock, the walk of module Hub, RUnlock.
Deliver ==
    /\ broadcast = "deliver" /\ ~leaked
    /\ broadcast' = "select"
    /\ UNCHANGED <<state, told, envVars, schema, inflight, relay, out, leaked>>

\* Hub's panic: the second client to leave a list it shares indexes past its
\* end, in delete, with entity.mu locked.  net/http recovers what a handler's
\* goroutine panics with, and the process goes on.
LockLeaks ==
    /\ state["api"] = "running" /\ ~leaked
    /\ leaked' = TRUE
    /\ UNCHANGED <<state, told, envVars, schema, inflight, relay, out,
                   broadcast>>

RelayEnds ==
    /\ relay = "select" /\ told["api"]
    /\ relay' = "off"
    /\ UNCHANGED <<state, told, envVars, schema, inflight, out, broadcast,
                   leaked>>

BroadcastEnds ==
    /\ broadcast = "select" /\ told["api"]
    /\ broadcast' = "off"
    /\ UNCHANGED <<state, told, envVars, schema, inflight, relay, out, leaked>>

-----------------------------------------------------------------------------
(* Stopping.                                                                 *)

\* Server.Run's ctx.Done().
Drain ==
    /\ state["api"] = "running" /\ told["api"]
    /\ Goto("api", "draining")
    /\ UNCHANGED <<told, envVars, schema, apiVars>>

\* Shutdown has waited for the requests.  Run returns nil and the process exits
\* with 0, whether a signal or a failing listener began it: it is not started
\* again.
ShutdownReturns ==
    /\ state["api"] = "draining" /\ inflight = 0
    /\ Goto("api", "gone") /\ StreamOff
    /\ UNCHANGED <<told, envVars, schema, inflight>>

\* Mutant of ShutdownTimesOut: Run waits for the requests all the same.
ShutdownInsists ==
    /\ state["api"] = "draining" /\ inflight > 0
    /\ UNCHANGED processVars

\* 30 seconds were not enough for the requests: Shutdown returns an error, so
\* does Run, and the process exits with 1 and takes them with it.
ShutdownTimesOut ==
    /\ state["api"] = "draining" /\ inflight > 0
    /\ Die("api") /\ StreamOff
    /\ inflight' = 0
    /\ UNCHANGED <<told, envVars, schema>>

-----------------------------------------------------------------------------
(* The environment.                                                          *)

Incident == outages < MaxOutages /\ outages' = outages + 1

\* ListenAndServe returns: no port to listen on, no more connections.
ListenFails ==
    /\ state["api"] = "running" /\ Incident
    /\ Goto("api", "draining")
    /\ UNCHANGED <<told, file, serving, schema, apiVars>>

Outage(s) ==
    /\ s \in serving /\ Incident
    /\ serving' = serving \ {s}
    /\ UNCHANGED <<state, told, file, schema, apiVars>>

\* restart: always
Recover(s) ==
    /\ s \notin serving
    /\ serving' = serving \cup {s}
    /\ UNCHANGED <<state, told, file, outages, schema, apiVars>>

\* The process is killed, or a goroutine panics.
Crash(p) ==
    /\ state[p] \notin {"down", "gone"} /\ Incident
    /\ Die(p)
    /\ IF p = "api" THEN inflight' = 0 /\ StreamOff ELSE UNCHANGED <<inflight,
                                                                  streamVars>>
    /\ UNCHANGED <<told, file, serving, schema>>

Tell(p) ==
    /\ ~told[p]
    /\ told' = [told EXCEPT ![p] = TRUE]
    /\ IF state[p] = "down" THEN Goto(p, "gone") ELSE UNCHANGED state
    /\ UNCHANGED <<envVars, schema, apiVars>>

\* The operator corrects a file that does not load.
CorrectFile(p) ==
    /\ Load(file[p], Environ) = {}
    /\ \E f \in Files :
          Load(f, Environ) # {} /\ file' = [file EXCEPT ![p] = f]
    /\ UNCHANGED <<state, told, serving, outages, schema, apiVars>>

-----------------------------------------------------------------------------
Starting(p) ==
    \/ Launch(p) \/ LoadConfig(p) \/ ConnectDatabase(p) \/ ConnectRedis(p)
    \/ p = "api" /\ (RunUpMigrations \/ SetupApi)
    \/ p = "indexer" /\ SetupIndexer

Stream == SendPayload \/ TakePayload \/ Deliver \/ LockLeaks

Stopping ==
    Drain \/ ShutdownReturns \/ ShutdownTimesOut \/ RelayEnds \/ BroadcastEnds

Environment ==
    \/ AcceptRequest \/ ReceivePayload \/ ListenFails
    \/ \E s \in Service : Outage(s) \/ Recover(s)
    \/ \E p \in Program : Crash(p) \/ Tell(p) \/ CorrectFile(p)

ProcessesNext ==
    \/ \E p \in Program : Starting(p)
    \/ IndexerEnds \/ AnswerRequest \/ Stream \/ Stopping
    \/ Environment

\* Processes run and are started again, the 30 seconds of a shutdown pass,
\* services come back and a file that does not load is corrected.  Nothing else
\* is obliged to happen: a request may hang.
ProcessesSpec ==
    /\ ProcessesInit /\ [][ProcessesNext]_processVars
    /\ \A p \in Program : /\ WF_processVars(Starting(p))
                          /\ WF_processVars(CorrectFile(p))
    /\ WF_processVars(told["indexer"] /\ IndexerEnds)
    /\ WF_processVars(SendPayload) /\ WF_processVars(TakePayload)
    /\ WF_processVars(Deliver)
    /\ WF_processVars(Drain)
    /\ WF_processVars(ShutdownReturns) /\ WF_processVars(ShutdownTimesOut)
    /\ \A s \in Service : WF_processVars(Recover(s))
=============================================================================
