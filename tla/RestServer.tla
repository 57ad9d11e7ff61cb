------------------------------- MODULE RestServer -------------------------------
(***************************************************************************)
(* RESTAPIServer (src/core/rest_api_server.cpp): start, the thread that    *)
(* accepts, one detached thread for each connection, and stop.  Routes are *)
(* registered before start (production_service_main.cpp); the handlers of  *)
(* the routes answer with fixed texts.                                     *)
(*                                                                         *)
(* The socket is the kernel's: closing it does not wake an accept that is  *)
(* blocked in it, which still takes the next connection.                   *)
(***************************************************************************)
EXTENDS Integers, FiniteSets, Functions

CONSTANTS
    Clients,            \* each connects once
    Registered,         \* route -> whether it needs a token
    Asked,              \* routes clients ask for, "bad" for what is no request
    MaxStarts           \* bound

ASSUME RestAssumption ==
    /\ "bad" \notin DOMAIN Registered /\ MaxStarts \in Nat
    /\ \A r \in DOMAIN Registered : Registered[r] \in BOOLEAN

VARIABLES
    running_, socket,       \* "none", "listening", "closed"
    acceptor,               \* "none", "check", "enter", "blocked", "exited"
    owner,                  \* "idle", "close", "join"
    starts,
    connection,             \* client -> [at, route, token]
    route_auth_required_,   \* route -> flag; grows as it is looked into
    race                    \* history: a thread added to it while another looked into it

serverVars == <<running_, socket, acceptor, owner, starts>>
handlerVars == <<connection, route_auth_required_, race>>
restVars == <<serverVars, handlerVars>>

RestInit ==
    /\ running_ = FALSE /\ socket = "none" /\ acceptor = "none" /\ owner = "idle" /\ starts = 0
    /\ connection = [c \in Clients |-> [at |-> "out", route |-> "bad", token |-> FALSE]]
    /\ route_auth_required_ = Registered /\ race = FALSE

At(c, place) == connection[c].at = place
Send(c, place) == connection' = [connection EXCEPT ![c].at = place]
-----------------------------------------------------------------------------
(* The owner: start, stop and the destructor *)

\* A start whose bind or listen fails changes nothing.
Start ==
    /\ owner = "idle" /\ ~running_ /\ starts < MaxStarts
    /\ running_' = TRUE /\ socket' = "listening" /\ acceptor' = "check" /\ starts' = starts + 1
    /\ UNCHANGED <<owner, handlerVars>>

StoppedSlip == running_
Stopped == FALSE

Stop ==
    /\ owner = "idle" /\ running_
    /\ running_' = Stopped /\ owner' = "close"
    /\ UNCHANGED <<socket, acceptor, starts, handlerVars>>

CloseSocket ==
    /\ owner = "close"
    /\ socket' = "closed" /\ owner' = "join"
    /\ UNCHANGED <<running_, acceptor, starts, handlerVars>>

Join ==
    /\ owner = "join" /\ acceptor = "exited"
    /\ acceptor' = "none" /\ owner' = "idle"
    /\ UNCHANGED <<running_, socket, starts, handlerVars>>
-----------------------------------------------------------------------------
(* The thread that accepts *)

CheckRunning ==
    /\ acceptor = "check"
    /\ acceptor' = IF running_ THEN "enter" ELSE "exited"
    /\ UNCHANGED <<running_, socket, owner, starts, handlerVars>>

EnterAccept ==
    /\ acceptor = "enter"
    /\ acceptor' = IF socket = "listening" THEN "blocked" ELSE "check"
    /\ UNCHANGED <<running_, socket, owner, starts, handlerVars>>

Accept(c) ==
    /\ acceptor = "blocked" /\ At(c, "backlog")
    /\ acceptor' = "check" /\ Send(c, "read")
    /\ UNCHANGED <<running_, socket, owner, starts, route_auth_required_, race>>
-----------------------------------------------------------------------------
(* The clients and the kernel *)

Reachable == socket = "listening" \/ acceptor = "blocked"

Connect(c, route, token) ==
    /\ At(c, "out") /\ Reachable
    /\ connection' = [connection EXCEPT ![c] = [at |-> "backlog", route |-> route, token |-> token]]
    /\ UNCHANGED <<serverVars, route_auth_required_, race>>

\* The last reference to the closed socket is gone, and what waited there with it.
Reset(c) ==
    /\ At(c, "backlog") /\ ~Reachable
    /\ Send(c, "dropped")
    /\ UNCHANGED <<serverVars, route_auth_required_, race>>
-----------------------------------------------------------------------------
(* handleConnection *)

\* A client that sent nothing gets nothing.
ReadRequest(c) ==
    /\ At(c, "read")
    /\ \/ Send(c, "dropped")
       \/ connection[c].route = "bad" /\ Send(c, "400")
       \/ connection[c].route # "bad" /\ Send(c, "authenticate")
    /\ UNCHANGED <<serverVars, route_auth_required_, race>>

LookedUpSlip(route) == [r \in DOMAIN route_auth_required_ \cup {route} |-> r \in DOMAIN Registered /\ r # route]
LookedUp(route) ==
    [r \in DOMAIN route_auth_required_ \cup {route} |->
        IF r \in DOMAIN route_auth_required_ THEN route_auth_required_[r] ELSE FALSE]

AddedWhileRead(c) ==
    /\ connection[c].route \notin DOMAIN route_auth_required_
    /\ \E d \in Clients \ {c} : At(d, "authenticate")

\* operator[] adds a route it does not find, in any of the threads and without a lock.
AuthenticateRequest(c) ==
    /\ At(c, "authenticate")
    /\ route_auth_required_' = LookedUp(connection[c].route)
    /\ race' = (race \/ AddedWhileRead(c))
    /\ Send(c, IF route_auth_required_'[connection[c].route] /\ ~connection[c].token THEN "401" ELSE "route")
    /\ UNCHANGED serverVars

\* Routes are found by their exact text: a "*" in one stands for itself.
Dispatch(c) ==
    /\ At(c, "route")
    /\ Send(c, IF connection[c].route \in DOMAIN Registered THEN "200" ELSE "404")
    /\ UNCHANGED <<serverVars, route_auth_required_, race>>
-----------------------------------------------------------------------------
AcceptorStep == CheckRunning \/ EnterAccept \/ \E c \in Clients : Accept(c)
Handle(c) == ReadRequest(c) \/ AuthenticateRequest(c) \/ Dispatch(c) \/ Reset(c)

RestNext ==
    \/ Start \/ Stop \/ CloseSocket \/ Join \/ AcceptorStep
    \/ \E c \in Clients : Handle(c) \/ \E r \in Asked, token \in BOOLEAN : Connect(c, r, token)

RestSpec == RestInit /\ [][RestNext]_restVars

\* The threads run; a client that connected sends or gives up.  Nobody has to connect.
RestFairness ==
    /\ WF_restVars(AcceptorStep) /\ WF_restVars(CloseSocket \/ Join)
    /\ \A c \in Clients : WF_restVars(Handle(c))
-----------------------------------------------------------------------------
\* Type correctness.
RestTypeOK ==
    /\ running_ \in BOOLEAN /\ socket \in {"none", "listening", "closed"}
    /\ acceptor \in {"none", "check", "enter", "blocked", "exited"}
    /\ owner \in {"idle", "close", "join"} /\ starts \in 0 .. MaxStarts
    /\ \A c \in Clients : connection[c].at \in {"out", "backlog", "read", "authenticate", "route",
                                                "200", "400", "401", "404", "dropped"}

\* handleConnection in threads that grow the table of protected routes as they look
\* into it: as long as no two of them meet there, no route loses its protection, and
\* a request without a good token never gets to the handler of such a route.
ProtectionKept ==
    race \/ /\ \A r \in DOMAIN Registered : route_auth_required_[r] = Registered[r]
            /\ \A c \in Clients : At(c, "200") /\ Registered[connection[c].route] => connection[c].token

\* start after stop: there is never a second thread that accepts, nor one without a
\* start that owns it.
OneAcceptor ==
    /\ running_ => acceptor \in {"check", "enter", "blocked"}
    /\ acceptor = "none" <=> ~running_ /\ owner = "idle"

\* The detached threads, during stop and after it: every connection that was made is
\* answered or given up.
ConnectionsEnd ==
    \A c \in Clients : At(c, "backlog") ~> connection[c].at \in {"200", "400", "401", "404", "dropped"}

\* stop: it waits for nothing but an accept that no client wakes.
StopWaitsForAccept ==
    owner = "join" ~> owner = "idle" \/ (acceptor = "blocked" /\ \A c \in Clients : ~At(c, "backlog"))

\* The server through starts and stops: one thread accepts, and protected routes stay
\* protected.
RestSound == RestTypeOK /\ ProtectionKept /\ OneAcceptor

\* The server's threads get where they go: connections end, and stop waits for nothing
\* but its last accept.
RestMoves == ConnectionsEnd /\ StopWaitsForAccept
=============================================================================
