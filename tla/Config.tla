------------------------------- MODULE Config -------------------------------
(* config.Load: the file .env over the environment of the process, numbers   *)
(* parsed, defaults for what is empty.  A string is Empty, Malformed (no      *)
(* number), or the number it denotes; connection strings stay as they are.   *)
EXTENDS Integers

CONSTANTS
    Unset,          \* a variable that is in neither place
    Empty,          \* ""
    Malformed       \* no number

Numeric == {"MAX_TIME", "MAX_OFFSET", "FROM", "RPC_RATE_LIMIT",
            "CONCURRENCY_FACTOR"}

Default == [MAX_TIME |-> 3600, MAX_OFFSET |-> 100, FROM |-> 0,
            RPC_RATE_LIMIT |-> 1, CONCURRENCY_FACTOR |-> 2]

\* os.Getenv does not tell an unset variable from an empty one.
Getenv(value) == IF value = Unset THEN Empty ELSE value

\* getenv: a key of the file counts even if it is empty.
getenv(file, environ, key) ==
    IF key \in DOMAIN file THEN file[key] ELSE Getenv(environ[key])

\* The set of the configuration loaded, or empty: an error.  A file that is
\* not there is an empty one; one that does not parse is an error.
Load(file, environ) ==
    IF file = Malformed THEN {}
    ELSE LET given == [k \in Numeric |-> getenv(file, environ, k)]
         IN IF \E k \in Numeric : given[k] = Malformed THEN {}
            ELSE {[k \in Numeric |-> IF given[k] = Empty THEN Default[k]
                                                         ELSE given[k]]}
=============================================================================
