------------------------------- MODULE MCHub --------------------------------
(* Instances of Hub for TLC.                                                 *)
EXTENDS HubProperties, TLC

CONSTANTS c1, c2   \* clients

NoFilter == [address |-> "", topic0 |-> ""]
Tokens   == [address |-> "token", topic0 |-> ""]
Approval == [address |-> "", topic0 |-> "approval"]

NoFilters == {NoFilter}
MCFilter  == {Tokens, Approval}

\* A payload that matches Tokens only.
OnePayload == {[addresses |-> {"token"}, topics |-> <<"transfer">>]}

\* Two clients that may share a list, or be each in a list of its own.
SharedWants == c1 :> {<<"events", Approval>>, <<"events", Tokens>>} @@
               c2 :> {<<"events", Tokens>>}
\* Two clients of one list, and one client alone.
PairWants == c1 :> {<<"blocks", NoFilter>>} @@ c2 :> {<<"blocks", NoFilter>>}
OneWants  == c1 :> {<<"blocks", NoFilter>>}
=============================================================================
