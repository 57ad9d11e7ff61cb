------------------------------- MODULE ApiGateway -------------------------------
(***************************************************************************)
(* APIGateway::handleRequest (src/core/api_gateway.cpp), called by any     *)
(* number of threads.  Finding the route and the three checks are separate *)
(* steps.  Routes are added before the first request: a request keeps a    *)
(* pointer into routes_.                                                   *)
(***************************************************************************)
EXTENDS Auth, Sequences, SequencesExt, FiniteSetsExt

CONSTANTS
    Callers,
    Routes,         \* [pattern, wild, require_auth, permissions, rate_limit], in order
    Paths,          \* the paths asked for; a path is a sequence of names
    Addresses       \* client_ip, apart from the ids of users

ASSUME RouteAssumption ==
    /\ Addresses \cap Nat = {} /\ DOMAIN Routes \subseteq Nat \ {0}
    /\ \A i \in DOMAIN Routes : Routes[i].rate_limit \in Int /\ Routes[i].wild \in BOOLEAN

VARIABLES
    request,        \* caller -> [at, token, ip, route, user_id, status]; status is the last answer
    rate_limit_map_,    \* key -> [count, reset_time]
    forwarded       \* history: <<key, route, second>> -> requests let through, of routes with a limit

gatewayVars == <<request, rate_limit_map_, forwarded>>

NoRequest == [at |-> "idle", token |-> Nothing, ip |-> Nothing, route |-> 0,
              user_id |-> 0, status |-> 0]

GatewayInit ==
    /\ request = [c \in Callers |-> NoRequest]
    /\ rate_limit_map_ = [k \in {} |-> 0] /\ forwarded = [k \in {} |-> 0]

\* The first route that is the path, or the start of it.
Matches(route, path) == route.pattern = path \/ (route.wild /\ IsPrefix(route.pattern, path))

MatchingRoutes(path) == {i \in DOMAIN Routes : Matches(Routes[i], path)}

RouteOf(c) == Routes[request[c].route]

Move(c, place) == request' = [request EXCEPT ![c].at = place]
Respond(c, status) == request' = [request EXCEPT ![c] = [NoRequest EXCEPT !.status = status]]
-----------------------------------------------------------------------------
HandleRequest(c, path, token, ip) ==
    /\ request[c].at = "idle"
    /\ LET found == MatchingRoutes(path) IN
       request' = [request EXCEPT ![c] =
          IF found = {} THEN [NoRequest EXCEPT !.status = 404]
          ELSE [NoRequest EXCEPT !.at = "authenticate", !.token = token, !.ip = ip, !.route = Min(found)]]
    /\ UNCHANGED <<authVars, rate_limit_map_, forwarded>>

\* A route that needs no token does not look at one.  API keys are always refused.
Authenticate(c) ==
    /\ request[c].at = "authenticate"
    /\ IF ~RouteOf(c).require_auth THEN Move(c, "authorize")
       ELSE IF request[c].token # Nothing /\ VerifyToken(request[c].token)
       THEN request' = [request EXCEPT ![c].at = "authorize", ![c].user_id = request[c].token.user_id]
       ELSE Respond(c, 401)
    /\ UNCHANGED <<authVars, rate_limit_map_, forwarded>>

Authorized(user_id, permissions) ==
    permissions = {} \/ (user_id # 0 /\ \A p \in permissions : HasPermission(user_id, p))

Authorize(c) ==
    /\ request[c].at = "authorize"
    /\ IF Authorized(request[c].user_id, RouteOf(c).permissions) THEN Move(c, "limit") ELSE Respond(c, 403)
    /\ UNCHANGED <<authVars, rate_limit_map_, forwarded>>

LimitKey(c) == IF request[c].user_id # 0 THEN request[c].user_id ELSE request[c].ip

\* One count for all routes of a user or an address, and a new one each second.
FreshWindow(key) == key \in DOMAIN rate_limit_map_ => time >= rate_limit_map_[key].reset_time

WithinLimitSlip(key, limit) == rate_limit_map_[key].count <= limit
WithinLimit(key, limit) == rate_limit_map_[key].count < limit

Forward(c, key) ==
    LET slot == <<key, request[c].route, time>> IN
    /\ Respond(c, 200)
    /\ forwarded' = Put(forwarded, slot, IF slot \in DOMAIN forwarded THEN forwarded[slot] + 1 ELSE 1)

CheckRateLimit(c) ==
    /\ request[c].at = "limit"
    /\ LET key == LimitKey(c)
           limit == RouteOf(c).rate_limit
       IN  \/ limit <= 0 /\ Respond(c, 200) /\ UNCHANGED <<rate_limit_map_, forwarded>>
           \/ /\ limit > 0 /\ FreshWindow(key)
              /\ rate_limit_map_' = Put(rate_limit_map_, key, [count |-> 1, reset_time |-> time + 1])
              /\ Forward(c, key)
           \/ /\ limit > 0 /\ ~FreshWindow(key) /\ WithinLimit(key, limit)
              /\ rate_limit_map_' = [rate_limit_map_ EXCEPT ![key].count = @ + 1]
              /\ Forward(c, key)
           \/ /\ limit > 0 /\ ~FreshWindow(key) /\ ~WithinLimit(key, limit)
              /\ Respond(c, 429) /\ UNCHANGED <<rate_limit_map_, forwarded>>
    /\ UNCHANGED authVars

\* A client presents a token it was given, or none.
GatewayNext ==
    \E c \in Callers :
        \/ \E path \in Paths, token \in jwts \cup {Nothing}, ip \in Addresses :
               HandleRequest(c, path, token, ip)
        \/ Authenticate(c) \/ Authorize(c) \/ CheckRateLimit(c)

\* Users register, log in and change their passwords while requests are on their way.
GatewaySpec ==
    /\ AuthInit /\ GatewayInit
    /\ [][GatewayNext \/ (UserNext /\ UNCHANGED gatewayVars)]_<<authVars, gatewayVars>>
-----------------------------------------------------------------------------
\* Type correctness of the requests in progress.
GatewayTypeOK ==
    \A c \in Callers :
        /\ request[c].at \in {"idle", "authenticate", "authorize", "limit"}
        /\ request[c].route \in DOMAIN Routes \cup {0}
        /\ request[c].user_id \in DOMAIN users_ \cup {0}
        /\ request[c].status \in {0, 200, 401, 403, 404, 429}

\* checkRateLimit by several threads on one count that all routes share: in no second
\* does a user or an address get more requests through a route than its limit.
RouteLimitKept ==
    \A slot \in DOMAIN forwarded :
        forwarded[slot] <= Routes[slot[2]].rate_limit

\* handleRequest, whose checks look at the token and at the user one after the other:
\* what gets as far as the rate limit had, where its route asks for one, a token this program gave out,
\* and only administrators pass a route with permissions, even if it asks for no token.
ForwardedIsEntitled ==
    \A c \in Callers : request[c].at = "limit" =>
        /\ RouteOf(c).require_auth =>
              request[c].token \in jwts /\ request[c].user_id = request[c].token.user_id
        /\ RouteOf(c).permissions # {} => "admin" \in users_[request[c].user_id].roles

\* handleRequest by any number of threads: limits hold for each route, and what passes
\* the checks is entitled to.
GatewaySound == GatewayTypeOK /\ RouteLimitKept /\ ForwardedIsEntitled
=============================================================================
