---------------------------- MODULE MCProcesses -----------------------------
(* An instance of Processes for TLC: no file, one with a bad number, and one *)
(* that covers a variable of the environment with an empty string.           *)
EXTENDS ProcessesProperties

MCEnviron == [k \in Numeric |-> IF k = "FROM" THEN Malformed ELSE Unset]

None == [k \in {} |-> Empty]

MCFiles == {None, [FROM |-> Empty], [FROM |-> 7], Malformed}
=============================================================================
