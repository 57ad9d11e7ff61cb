------------------------------ MODULE MCFront ------------------------------
(* Users, API keys, the gateway and the REST server for TLC.  The gateway    *)
(* has the users; the server has neither (it never calls the gateway), so a  *)
(* behaviour is one of subject's.                                            *)
EXTENDS ApiGateway, RestServer, TLC

VARIABLE subject

vars == <<subject, authVars, gatewayVars, restVars>>

Init ==
  /\ subject \in {"users", "keys", "gateway", "server"}
  /\ AuthInit /\ GatewayInit /\ RestInit

\* With the gateway, one user registers and whoever logs in does so at once.
Newcomer == CHOOSE n \in Names : TRUE
NewcomersEmail == CHOOSE e \in Emails : TRUE

GatewayUsersNext ==
  \/ PassTime
  \/ Register(Newcomer, NewcomersEmail, AdminPassword)
  \/ \E n \in {Newcomer, Admin} : time = 0 /\ Login(n, AdminPassword)

Next ==
  \/ subject = "users" /\ UserNext /\ UNCHANGED <<subject, gatewayVars, restVars>>
  \/ subject = "keys" /\ (KeyNext \/ PassTime) /\ UNCHANGED <<subject, gatewayVars, restVars>>
  \/ subject = "gateway" /\ GatewayNext /\ UNCHANGED <<subject, restVars>>
  \/ subject = "gateway" /\ GatewayUsersNext /\ UNCHANGED <<subject, gatewayVars, restVars>>
  \/ subject = "server" /\ RestNext /\ UNCHANGED <<subject, authVars, gatewayVars>>

Spec == Init /\ [][Next]_vars /\ (subject = "server" => RestFairness)

\* A protected prefix, an open route with a limit, and one for administrators.
SomeRoutes ==
  <<[pattern |-> <<"orders">>, wild |-> TRUE, require_auth |-> TRUE, permissions |-> {}, rate_limit |-> 2],
    [pattern |-> <<"depth">>, wild |-> FALSE, require_auth |-> FALSE, permissions |-> {}, rate_limit |-> 1],
    [pattern |-> <<"halt">>, wild |-> FALSE, require_auth |-> TRUE, permissions |-> {"halt"}, rate_limit |-> 0]>>

\* client_ip; ids of users are natural numbers.
SomeAddresses == {-1}

SomePaths == {<<"orders", "1">>, <<"depth">>, <<"halt">>, <<"orderbook">>}

\* An order needs a token; the depth does not.  Cancelling asks for another path.
SomeRegistered == [r \in {"order", "depth"} |-> r = "order"]
=============================================================================
