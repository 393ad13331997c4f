------------------------- MODULE ConnectionProvider -------------------------
(***************************************************************************)
(* Opening connections: the retry loop, transports and redirects of        *)
(* tds_connection_provider.rs, the sequential and the parallel             *)
(* (MultiSubnetFailover) connect of network_transport.rs and               *)
(* parallel_connect.rs, the login response of message/login.rs and the DNS *)
(* cache all connections of the process share (dns_cache.rs).              *)
(*                                                                         *)
(* The resolver, the sockets and the servers are external.  An address is  *)
(* a model value; a prelogin or TLS exchange is one step.  Time passes in  *)
(* ticks, and only while a connection waits: an expired timer fires before *)
(* the next tick.                                                          *)
(***************************************************************************)
EXTENDS Naturals, FiniteSets

CONSTANTS
    Clients,
    Diagnosing,       \* the clients that call diagnose_client
    Hosts, Gateway,   \* the host of the data source
    Addrs,
    Transports,       \* how many transports the action chain holds
    LoginTimeout,     \* login_timeout, in ticks; 0 is no deadline
    ConnectTimeout,   \* connect_timeout
    RetryCount, RetryInterval,
    MaxRedirects,     \* MAX_REDIRECTS
    MaxParallelIps,   \* MAX_PARALLEL_IPS
    MaxOthers         \* bound: logins of the process's other connections

ASSUME ClientAssumption == Diagnosing \subseteq Clients /\ Gateway \in Hosts
ASSUME NumberAssumption ==
    /\ {LoginTimeout, RetryCount, RetryInterval, MaxRedirects, MaxOthers} \subseteq Nat
    /\ {Transports, ConnectTimeout, MaxParallelIps} \subseteq Nat \ {0}

VARIABLES
    conn,      \* what a client is doing
    sockets,   \* its sockets by address
    extra,     \* the addresses a diagnosis is connecting to besides
    spent,     \* ticks since it called create_client
    cache,     \* DnsCache: host -> addresses, {} when the host is not allowed
    verdict,   \* history, by host: the address of the last accepted login, if that
               \* login was allowed to cache it
    others     \* history: logins of other connections so far

shared == <<cache, verdict, others>>
vars == <<conn, sockets, extra, spent, shared>>

\* at: where the client is.  attempt, transport, redirects: the counters of the
\* loops.  parallel: the MSF policy.  host, resolution: this connect's.  left:
\* the ticks of the timer it waits on.  stop: where a diagnosis ends.  result:
\* how the call ended, or the last error so far.
Idle == [at |-> "Idle", attempt |-> 0, transport |-> 1, redirects |-> 0, parallel |-> FALSE,
         host |-> Gateway, resolution |-> {}, left |-> 0, stop |-> "None", result |-> "None"]
NoSockets == [a \in Addrs |-> "None"]

Init ==
    /\ conn = [c \in Clients |-> Idle]
    /\ sockets = [c \in Clients |-> NoSockets] /\ extra = [c \in Clients |-> {}]
    /\ spent = [c \in Clients |-> 0]
    /\ cache = [h \in Hosts |-> {}] /\ verdict = [h \in Hosts |-> {}]
    /\ others = 0

At(c, places) == conn[c].at \in places
InUse(c) == {a \in Addrs : sockets[c][a] \in {"Connecting", "Open"}}

\* The awaits of connect_with_transport_context.
Connecting == {"Dns", "Race", "Order", "Try", "Prelogin", "Login"}
Running == {"Loop", "Wait", "Attempt", "Dial"} \cup Connecting

---------------------------------------------------------------------------
(* Ending a connect: execute_action_chain and follow_redirects.            *)

\* Dropping a connect's future, or close_transport: every socket it has goes.
Dropped(c) == sockets' = [sockets EXCEPT ![c] = NoSockets]

\* A diagnosis waits for its other connects before it returns.
Returned(c, result) ==
    [conn[c] EXCEPT !.at = IF c \in Diagnosing THEN "Extras" ELSE "Done",
                    !.left = IF c \in Diagnosing THEN ConnectTimeout ELSE 0,
                    !.result = result]

\* A routed failure and an error that is not transient end the call.
IsTerminal(c, error) == conn[c].redirects > 0 \/ error = "Permanent"

\* The connect failed: the next transport, the next attempt, or the error.
Failed(c, error) ==
    /\ Dropped(c)
    /\ LET k == conn[c]
       IN  conn' = [conn EXCEPT ![c] =
             IF IsTerminal(c, error) THEN Returned(c, error)
             ELSE IF k.transport < Transports
                  THEN [k EXCEPT !.at = "Dial", !.transport = k.transport + 1, !.result = error]
             ELSE IF k.attempt < RetryCount
                  THEN [k EXCEPT !.at = "Loop", !.attempt = k.attempt + 1, !.result = error]
             ELSE Returned(c, error)]

---------------------------------------------------------------------------
(* The retry loop.                                                         *)

Call(c, parallel, stop) ==
    /\ At(c, {"Idle"})
    /\ stop # "None" => c \in Diagnosing
    /\ ~(parallel /\ stop = "Resolution")
    /\ conn' = [conn EXCEPT ![c] = [Idle EXCEPT !.at = "Attempt", !.parallel = parallel,
                                                !.stop = stop]]
    /\ UNCHANGED <<sockets, extra, spent, shared>>

\* Mutation: the wait is not measured against the deadline.
EnoughForWait0(c) == TRUE
EnoughForWait(c) == LoginTimeout = 0 \/ spent[c] + RetryInterval <= LoginTimeout

RetryWait(c) ==
    /\ At(c, {"Loop"})
    /\ conn' = [conn EXCEPT ![c] = IF EnoughForWait(c)
                                   THEN [@ EXCEPT !.at = "Wait", !.left = RetryInterval]
                                   ELSE Returned(c, @.result)]
    /\ UNCHANGED <<sockets, extra, spent, shared>>

Wake(c) ==
    /\ At(c, {"Wait"}) /\ conn[c].left = 0
    /\ conn' = [conn EXCEPT ![c].at = "Attempt"]
    /\ UNCHANGED <<sockets, extra, spent, shared>>

Expired(c) == LoginTimeout > 0 /\ spent[c] >= LoginTimeout

StartAttempt(c) ==
    /\ At(c, {"Attempt"})
    /\ conn' = [conn EXCEPT ![c] = IF Expired(c) THEN Returned(c, @.result)
                                   ELSE [@ EXCEPT !.at = "Dial", !.transport = 1]]
    /\ UNCHANGED <<sockets, extra, spent, shared>>

\* connect_with_transport_context.  In parallel mode the connect timeout also
\* covers the resolution.
Resolving(c, host) ==
    [conn[c] EXCEPT !.at = "Dns", !.host = host, !.resolution = {},
                    !.left = IF conn[c].parallel THEN ConnectTimeout ELSE 0]

Dial(c) ==
    /\ At(c, {"Dial"})
    /\ conn' = [conn EXCEPT ![c] = Resolving(c, Gateway)]
    /\ UNCHANGED <<sockets, extra, spent, shared>>

---------------------------------------------------------------------------
(* Resolving and connecting.                                               *)

\* parallel_connect_resolving_with and resolve_sequential, once the host is
\* resolved: the address count, and the diagnosis that stops here.
Resolved(c, addresses) ==
    LET count == Cardinality(addresses)
    IN CASE conn[c].parallel /\ count > MaxParallelIps -> Failed(c, "Permanent")
         [] addresses = {} -> Failed(c, "Transient")
         [] conn[c].stop = "Resolution" -> Failed(c, "Permanent")
         [] OTHER ->
              /\ conn' = [conn EXCEPT ![c].at = IF conn[c].parallel THEN "Race" ELSE "Order",
                                      ![c].resolution = addresses]
              /\ sockets' = [sockets EXCEPT ![c] =
                   [a \in Addrs |-> IF a \notin addresses THEN "None"
                                    ELSE IF conn[c].parallel THEN "Connecting" ELSE "Untried"]]

\* lookup_host: the resolver's answer.
Resolve(c, addresses) ==
    /\ At(c, {"Dns"})
    /\ Resolved(c, addresses)
    /\ UNCHANGED <<extra, spent, shared>>

\* The resolver failed: the cached addresses stand in, if the host is allowed.
ResolveFails(c) ==
    /\ At(c, {"Dns"})
    /\ IF cache[conn[c].host] = {} THEN Failed(c, "Transient")
       ELSE Resolved(c, cache[conn[c].host])
    /\ UNCHANGED <<extra, spent, shared>>

\* A socket connects, is refused, or (where connecting includes TLS) is
\* rejected by the server.
SocketEnds(c, a, how) ==
    /\ At(c, {"Race", "Try"}) /\ sockets[c][a] = "Connecting"
    /\ sockets' = [sockets EXCEPT ![c][a] = how]
    /\ UNCHANGED <<conn, extra, spent, shared>>

\* Mutation: the attempts that lost the race are detached, not aborted.
Kept0(c, winner) == [sockets[c] EXCEPT ![winner] = "Open"]

\* Only the winner survives the JoinSet, or the loop over the addresses.
Kept(c, winner) == [NoSockets EXCEPT ![winner] = "Open"]

\* The connection is made; a diagnosis may end here, and over one address at a
\* time it goes on to connect to the addresses after it.
Connected(c, a) ==
    IF conn[c].stop = "Transport"
    THEN /\ extra' = [extra EXCEPT ![c] = IF conn[c].parallel THEN @
                                          ELSE @ \cup {b \in Addrs : sockets[c][b] = "Untried"}]
         /\ Failed(c, "Permanent")
    ELSE /\ conn' = [conn EXCEPT ![c].at = "Prelogin", ![c].left = 0]
         /\ sockets' = [sockets EXCEPT ![c] = Kept(c, a)]
         /\ extra' = [extra EXCEPT ![c] =
              IF c \in Diagnosing /\ ~conn[c].parallel
              THEN @ \cup {b \in Addrs : sockets[c][b] = "Untried"} ELSE @]

\* race_connections: join_next hands over one finished attempt at a time.
JoinNext(c, a) ==
    /\ At(c, {"Race"})
    /\ CASE sockets[c][a] = "Open" -> Connected(c, a)
         [] sockets[c][a] = "Rejected" -> Failed(c, "Permanent") /\ UNCHANGED extra
         [] sockets[c][a] = "Refused" ->
              /\ IF \A b \in Addrs \ {a} : sockets[c][b] = "None" THEN Failed(c, "Transient")
                 ELSE /\ sockets' = [sockets EXCEPT ![c][a] = "None"]
                      /\ UNCHANGED conn
              /\ UNCHANGED extra
         [] OTHER -> FALSE
    /\ UNCHANGED <<spent, shared>>

\* connect_in_order_with: the next address, in the order of preference.
TryAddress(c, a) ==
    /\ At(c, {"Order"}) /\ sockets[c][a] = "Untried"
    /\ sockets' = [sockets EXCEPT ![c][a] = "Connecting"]
    /\ conn' = [conn EXCEPT ![c].at = "Try", ![c].left = ConnectTimeout]
    /\ UNCHANGED <<extra, spent, shared>>

NoneLeft(c) ==
    /\ At(c, {"Order"}) /\ \A a \in Addrs : sockets[c][a] # "Untried"
    /\ Failed(c, "Transient")
    /\ UNCHANGED <<extra, spent, shared>>

AddressEnds(c, a) ==
    /\ At(c, {"Try"})
    /\ CASE sockets[c][a] = "Open" -> Connected(c, a)
         [] sockets[c][a] = "Rejected" ->
              /\ Failed(c, "Permanent")
              /\ extra' = [extra EXCEPT ![c] = IF c \in Diagnosing
                             THEN @ \cup {b \in Addrs : sockets[c][b] = "Untried"} ELSE @]
         [] sockets[c][a] = "Refused" ->
              /\ sockets' = [sockets EXCEPT ![c][a] = "None"]
              /\ conn' = [conn EXCEPT ![c].at = "Order"]
              /\ UNCHANGED extra
         [] OTHER -> FALSE
    /\ UNCHANGED <<spent, shared>>

\* connect_timeout: it ends the race with the resolution before it, or one
\* address of the sequential connect.
ConnectTimesOut(c) ==
    /\ conn[c].left = 0
    /\ \/ /\ At(c, {"Race"}) \/ (At(c, {"Dns"}) /\ conn[c].parallel)
          /\ Failed(c, "Transient")
       \/ /\ At(c, {"Try"})
          /\ sockets' = [sockets EXCEPT ![c] =
               [a \in Addrs |-> IF @[a] = "Untried" THEN "Untried" ELSE "None"]]
          /\ conn' = [conn EXCEPT ![c].at = "Order"]
     /\ UNCHANGED <<extra, spent, shared>>

---------------------------------------------------------------------------
(* Login: SessionHandler::execute and LoginResponse::deserialize.          *)

\* Prelogin, TLS and LOGIN7.
Prelogin(c) ==
    /\ At(c, {"Prelogin"})
    /\ conn' = [conn EXCEPT ![c].at = "Login"]
    /\ UNCHANGED <<sockets, extra, spent, shared>>

PreloginFails(c, error) ==
    /\ At(c, {"Prelogin"})
    /\ Failed(c, error)
    /\ UNCHANGED <<extra, spent, shared>>

\* A login response, read to its end: the last FEATUREEXTACK (a malformed one is
\* remembered over those that follow it), LOGINACK, the worst ERROR, the route,
\* whether its DONE is clean, and whether it is complete: the database, the
\* collation and the acknowledgement an enhanced route needs are there.  A route
\* before LOGINACK breaks the protocol.  FEDAUTHINFO and an SSPI challenge end a
\* response that has none of them, and the next one is read afresh: nothing
\* changes.
Responses ==
    {r \in [ack : {"None", "Allow", "Deny", "Malformed"}, accepted : BOOLEAN,
            errors : {"None", "Transient", "Permanent"},
            route : {{}} \cup {{h} : h \in Hosts}, clean : BOOLEAN, complete : BOOLEAN] :
       r.route # {} => r.accepted}

\* receive_token fails or a token breaks the protocol; or the answer to an SSPI
\* challenge or to FEDAUTHINFO cannot be made or sent, for good or for now.
ResponseBreaks(c, error) ==
    /\ At(c, {"Login"})
    /\ Failed(c, error)
    /\ UNCHANGED <<extra, spent, shared>>

\* Mutation: an ERROR beside the LOGINACK does not withhold the verdict.
HasVerdict0(r) == r.clean /\ r.accepted /\ r.ack # "None"

\* Only a complete, accepted login that carried a FEATUREEXTACK has a verdict.
HasVerdict(r) == r.clean /\ r.accepted /\ r.errors = "None" /\ r.ack # "None"

\* DnsCache::apply_verdict: a malformed acknowledgement allows nothing.
Verdict(c, r) == IF r.ack = "Allow" THEN conn[c].resolution ELSE {}

\* follow_redirects: the connection to the gateway is closed and the route is
\* dialled, MAX_REDIRECTS times at most.
Redirected(c, route) ==
    IF conn[c].redirects >= MaxRedirects THEN Failed(c, "Permanent")
    ELSE /\ Dropped(c)
         /\ \E h \in route :
              conn' = [conn EXCEPT ![c] =
                          [Resolving(c, h) EXCEPT !.redirects = conn[c].redirects + 1]]

\* The response ends: the verdict, then the malformed acknowledgement, the route
\* (redirect_if_routed), the status, in which LOGINACK outranks an ERROR
\* (validate_login_result), and the settings an accepted login must have brought
\* (infer_negotiated_settings).
ResponseEnds(c, r) ==
    /\ At(c, {"Login"})
    /\ LET h == conn[c].host
       IN  /\ cache' = IF HasVerdict(r) THEN [cache EXCEPT ![h] = Verdict(c, r)] ELSE cache
           /\ verdict' = IF r.clean /\ r.accepted /\ r.errors = "None" /\ r.ack # "None"
                         THEN [verdict EXCEPT ![h] = IF r.ack = "Allow" THEN InUse(c) ELSE {}]
                         ELSE verdict
    /\ LET refused == r.ack = "Malformed" \/ (r.accepted /\ ~r.complete)
       IN  \/ /\ refused /\ Failed(c, "Permanent")
           \/ /\ ~refused /\ r.route # {} /\ Redirected(c, r.route)
           \/ /\ ~refused /\ r.route = {} /\ r.accepted
              /\ conn' = [conn EXCEPT ![c] = Returned(c, "Client")]
              /\ UNCHANGED sockets
           \/ /\ ~refused /\ r.route = {} /\ ~r.accepted
              /\ Failed(c, IF r.errors = "Transient" THEN "Transient" ELSE "Permanent")
    /\ UNCHANGED <<extra, spent, others>>

---------------------------------------------------------------------------
(* Deadlines, cancellation and the diagnosis.                              *)

\* Mutation: a routed connect runs without the deadline.
Timed0(c) == At(c, Connecting) /\ conn[c].redirects = 0

\* The awaits wrapped in timeout(remaining).
Timed(c) == At(c, Connecting)

DeadlineHits(c) ==
    /\ Timed(c) /\ Expired(c)
    /\ Failed(c, "Transient")
    /\ UNCHANGED <<extra, spent, shared>>

\* run_until_cancelled, or the caller drops the future: everything goes with
\* it, the connects of a diagnosis included.
Cancel(c) ==
    /\ At(c, Running \cup {"Extras"})
    /\ Dropped(c) /\ extra' = [extra EXCEPT ![c] = {}]
    /\ conn' = [conn EXCEPT ![c].at = "Done", ![c].result = "Cancelled"]
    /\ UNCHANGED <<spent, shared>>

\* One of a diagnosis's other connects ends and its socket is closed at once.
ExtraEnds(c, a) ==
    /\ a \in extra[c] /\ extra' = [extra EXCEPT ![c] = @ \ {a}]
    /\ UNCHANGED <<conn, sockets, spent, shared>>

\* finish_extra_connects: when none is left, or at the bound.
Finish(c) ==
    /\ At(c, {"Extras"}) /\ (extra[c] = {} \/ conn[c].left = 0)
    /\ extra' = [extra EXCEPT ![c] = {}]
    /\ conn' = [conn EXCEPT ![c].at = "Done"]
    /\ UNCHANGED <<sockets, spent, shared>>

\* A tick: while the client awaits something whose timer has not run out.
Tick(c) ==
    /\ At(c, Connecting \cup {"Wait", "Extras"})
    /\ Timed(c) => ~Expired(c)
    /\ At(c, {"Wait", "Race", "Try", "Extras"}) \/ (At(c, {"Dns"}) /\ conn[c].parallel)
         => conn[c].left > 0
    /\ spent' = [spent EXCEPT ![c] = IF LoginTimeout = 0 \/ @ > LoginTimeout \/ At(c, {"Extras"})
                                     THEN @ ELSE @ + 1]
    /\ conn' = [conn EXCEPT ![c].left = IF @ > 0 THEN @ - 1 ELSE 0]
    /\ UNCHANGED <<sockets, extra, shared>>

---------------------------------------------------------------------------
Loop(c) == RetryWait(c) \/ Wake(c) \/ StartAttempt(c) \/ Dial(c)
Timers(c) == ConnectTimesOut(c) \/ DeadlineHits(c) \/ Finish(c) \/ Tick(c)
Connect(c) ==
    \/ \E addresses \in SUBSET Addrs : Resolve(c, addresses)
    \/ ResolveFails(c)
    \/ \E a \in Addrs, how \in {"Open", "Refused", "Rejected"} : SocketEnds(c, a, how)
    \/ \E a \in Addrs : JoinNext(c, a) \/ TryAddress(c, a) \/ AddressEnds(c, a) \/ ExtraEnds(c, a)
    \/ NoneLeft(c)
Login(c) ==
    \/ Prelogin(c)
    \/ \E e \in {"Transient", "Permanent"} : PreloginFails(c, e) \/ ResponseBreaks(c, e)
    \/ \E r \in Responses : ResponseEnds(c, r)

\* A connection this model does not follow logs in to host meanwhile, through
\* one of the addresses it resolved, and its verdict is applied.
AnotherLogsIn(host, addresses) ==
    /\ others < MaxOthers /\ others' = others + 1
    /\ \/ /\ cache' = [cache EXCEPT ![host] = {}]
          /\ verdict' = [verdict EXCEPT ![host] = {}]
       \/ /\ cache' = [cache EXCEPT ![host] = addresses]
          /\ \E a \in addresses : verdict' = [verdict EXCEPT ![host] = {a}]
    /\ UNCHANGED <<conn, sockets, extra, spent>>

Step(c) ==
    \/ \E parallel \in BOOLEAN, stop \in {"None", "Resolution", "Transport"} :
         Call(c, parallel, stop)
    \/ Loop(c) \/ Connect(c) \/ Login(c) \/ Timers(c) \/ Cancel(c)

Next ==
    \/ \E c \in Clients : Step(c)
    \/ \E h \in Hosts, addresses \in SUBSET Addrs : AnotherLogsIn(h, addresses)

\* The code's own steps are taken and time passes.  Nothing is asked of the
\* resolver, the network or the servers.
Fairness == \A c \in Clients :
    WF_vars(Loop(c)) /\ WF_vars(Tick(c)) /\ WF_vars(Finish(c))
      /\ WF_vars(ConnectTimesOut(c)) /\ WF_vars(DeadlineHits(c)) /\ WF_vars(NoneLeft(c))
      /\ \A a \in Addrs : WF_vars(JoinNext(c, a)) /\ WF_vars(TryAddress(c, a))
                          /\ WF_vars(AddressEnds(c, a))

Spec == Init /\ [][Next]_vars /\ Fairness

---------------------------------------------------------------------------
(* Properties.                                                             *)

Places == Running \cup {"Idle", "Extras", "Done"}
TypeOK ==
    /\ conn \in [Clients -> [at : Places, attempt : 0..RetryCount, transport : 1..Transports,
                             redirects : 0..MaxRedirects, parallel : BOOLEAN, host : Hosts,
                             resolution : SUBSET Addrs, left : Nat,
                             stop : {"None", "Resolution", "Transport"},
                             result : {"None", "Client", "Transient", "Permanent", "Cancelled"}]]
    /\ sockets \in [Clients -> [Addrs -> {"None", "Untried", "Connecting", "Open", "Refused",
                                          "Rejected"}]]
    /\ extra \in [Clients -> SUBSET Addrs]
    /\ cache \in [Hosts -> SUBSET Addrs]

\* "The first successful connection is used, and all other pending connections
\* are cancelled": a login runs over the one socket its connect has left, and a
\* call that has returned leaves its client's socket and nothing else behind,
\* however it ended and whatever its diagnosis was still connecting to.
OneConnection ==
    /\ TypeOK
    /\ \A c \in Clients :
         /\ At(c, {"Prelogin", "Login"}) => Cardinality(InUse(c)) = 1
         /\ At(c, {"Done", "Extras"}) =>
              Cardinality(InUse(c)) = IF conn[c].result = "Client" THEN 1 ELSE 0
         /\ At(c, {"Done"}) => extra[c] = {}

\* The overall login deadline covers every attempt, wait, transport and
\* redirect: while the call runs it is never overrun.
WithinLoginDeadline ==
    LoginTimeout > 0 => \A c \in Clients : At(c, Running) => spent[c] <= LoginTimeout

\* "The cache only ever holds allowed hosts": a host has a fallback exactly when
\* the last accepted login to it allowed one, and the address that login went
\* through is in it.  Rejected, incomplete and continued responses change
\* nothing, and a routed login never speaks for the host that routed it.
CacheIsVerdict ==
    \A h \in Hosts : /\ verdict[h] \subseteq cache[h]
                     /\ cache[h] = {} <=> verdict[h] = {}

\* With a deadline, every call comes back, whatever the network does.
ConnectReturns ==
    LoginTimeout > 0 => \A c \in Clients : At(c, Running) ~> At(c, {"Extras", "Done"})
=============================================================================
