--------------------- MODULE ConnectionProvider_proofs ---------------------
(***************************************************************************)
(* Proofs about ConnectionProvider, for every number of clients, hosts,    *)
(* addresses and transports, and every timeout and retry policy.           *)
(***************************************************************************)
EXTENDS ConnectionProvider, FiniteSetTheorems, TLAPS

---------------------------------------------------------------------------
(* The invariant of one client.                                            *)

Results == {"None", "Client", "Transient", "Permanent", "Cancelled"}
Conns == [at : Places, attempt : 0..RetryCount, transport : 1..Transports,
          redirects : 0..MaxRedirects, parallel : BOOLEAN, host : Hosts,
          resolution : SUBSET Addrs, left : Nat, stop : {"None", "Resolution", "Transport"},
          result : Results]
SocketStates == {"None", "Untried", "Connecting", "Open", "Refused", "Rejected"}

\* One open socket and nothing else.
Only(a) == [NoSockets EXCEPT ![a] = "Open"]

\* Where a call holds no socket: between two connects, and while it resolves.
Dry == {"Idle", "Loop", "Wait", "Attempt", "Dial", "Dns"}

\* The sockets s of a client whose connection is k.
SocketsOK(k, s) ==
    /\ k.at \in Dry => s = NoSockets
    /\ k.at \in {"Race", "Order", "Try"} => \A a \in Addrs : s[a] # "None" => a \in k.resolution
    /\ k.at \in {"Prelogin", "Login"} => \E a \in k.resolution : s = Only(a)
    /\ k.at \in {"Extras", "Done"} =>
         IF k.result = "Client" THEN \E a \in Addrs : s = Only(a) ELSE s = NoSockets

\* Only a diagnosis has other connects, and a call that returned has none left.
ExtraOK(c, k, x) ==
    /\ c \notin Diagnosing => x = {} /\ k.stop = "None"
    /\ k.at = "Done" => x = {}

\* The ticks t spent so far; a wait is begun only if it fits.
SpentOK(k, t) ==
    LoginTimeout > 0 =>
        /\ k.at \in Running \cup {"Idle"} => t <= LoginTimeout
        /\ k.at = "Wait" => t + k.left <= LoginTimeout

ClientOK(c, k, s, x, t) ==
    /\ k \in Conns /\ s \in [Addrs -> SocketStates] /\ x \in SUBSET Addrs /\ t \in Nat
    /\ k.at \in Running \cup {"Idle"} => k.result # "Client"
    /\ SocketsOK(k, s)
    /\ ExtraOK(c, k, x)
    /\ SpentOK(k, t)

ClientsInv ==
    /\ conn \in [Clients -> Conns] /\ sockets \in [Clients -> [Addrs -> SocketStates]]
    /\ extra \in [Clients -> SUBSET Addrs] /\ spent \in [Clients -> Nat]
    /\ \A c \in Clients : ClientOK(c, conn[c], sockets[c], extra[c], spent[c])

\* The cache and its verdicts.
CacheInv ==
    /\ cache \in [Hosts -> SUBSET Addrs] /\ verdict \in [Hosts -> SUBSET Addrs]
    /\ CacheIsVerdict

---------------------------------------------------------------------------
(* A step of one client.                                                   *)

\* Only client c moves.
Moves(c) ==
    /\ conn' = [conn EXCEPT ![c] = conn'[c]] /\ sockets' = [sockets EXCEPT ![c] = sockets'[c]]
    /\ extra' = [extra EXCEPT ![c] = extra'[c]] /\ spent' = [spent EXCEPT ![c] = spent'[c]]

\* A step of c that keeps c's own invariant keeps everyone's.
LEMMA Frame ==
    ASSUME ClientsInv, NEW c \in Clients, Moves(c),
           ClientOK(c, conn'[c], sockets'[c], extra'[c], spent'[c])
    PROVE  ClientsInv'
<1>1. /\ conn'[c] \in Conns /\ sockets'[c] \in [Addrs -> SocketStates]
      /\ extra'[c] \in SUBSET Addrs /\ spent'[c] \in Nat
  BY DEF ClientOK
<1>2. /\ conn' \in [Clients -> Conns] /\ sockets' \in [Clients -> [Addrs -> SocketStates]]
      /\ extra' \in [Clients -> SUBSET Addrs] /\ spent' \in [Clients -> Nat]
  BY <1>1 DEF ClientsInv, Moves
<1>3. ASSUME NEW d \in Clients
      PROVE  ClientOK(d, conn'[d], sockets'[d], extra'[d], spent'[d])
  <2>1. CASE d = c
    BY <2>1
  <2>2. CASE d # c
    <3>1. conn'[d] = conn[d] /\ sockets'[d] = sockets[d] /\ extra'[d] = extra[d]
          /\ spent'[d] = spent[d]
      BY <2>2 DEF ClientsInv, Moves
    <3>. QED
      BY <3>1 DEF ClientsInv
  <2>. QED
    BY <2>1, <2>2
<1>. QED
  BY <1>2, <1>3 DEF ClientsInv

\* The constants of the connect are of their types.
LEMMA NoSocketsType == NoSockets \in [Addrs -> SocketStates]
BY DEF NoSockets, SocketStates

\* One socket of a race.
LEMMA OnlyType ==
    ASSUME NEW a \in Addrs
    PROVE  Only(a) \in [Addrs -> SocketStates]
BY DEF Only, NoSockets, SocketStates

\* A client that has not started.
LEMMA IdleType == Idle \in Conns
BY ClientAssumption, NumberAssumption DEF Idle, Conns, Places, Running, Connecting, Results

\* What a call that returns leaves behind.
LEMMA ReturnedOK ==
    ASSUME ClientsInv, NEW c \in Clients, NEW result \in Results,
           NEW s \in [Addrs -> SocketStates], NEW x \in SUBSET Addrs,
           c \notin Diagnosing => x = {},
           IF result = "Client" THEN \E a \in Addrs : s = Only(a) ELSE s = NoSockets
    PROVE  ClientOK(c, Returned(c, result), s, x, spent[c])
<1>1. conn[c] \in Conns /\ spent[c] \in Nat /\ (c \notin Diagnosing => conn[c].stop = "None")
  BY DEF ClientsInv, ClientOK, ExtraOK
<1>2. /\ Returned(c, result) \in Conns /\ Returned(c, result).result = result
      /\ Returned(c, result).stop = conn[c].stop
      /\ Returned(c, result).at = IF c \in Diagnosing THEN "Extras" ELSE "Done"
  BY <1>1, NumberAssumption DEF Returned, Conns, Places
<1>. QED
  BY <1>1, <1>2 DEF ClientOK, SocketsOK, ExtraOK, SpentOK, Dry, Running, Connecting

\* A connect that fails drops its sockets; the call goes on or returns.
LEMMA FailedOK ==
    ASSUME ClientsInv, NEW c \in Clients, NEW error \in {"Transient", "Permanent"},
           conn[c].at \in Running, Failed(c, error), NEW x \in SUBSET Addrs,
           c \notin Diagnosing => x = {}
    PROVE  /\ conn' = [conn EXCEPT ![c] = conn'[c]]
           /\ sockets' = [sockets EXCEPT ![c] = sockets'[c]]
           /\ ClientOK(c, conn'[c], sockets'[c], x, spent[c])
<1>1. conn[c] \in Conns /\ spent[c] \in Nat /\ ClientOK(c, conn[c], sockets[c], extra[c], spent[c])
  BY DEF ClientsInv
<1>2. sockets' = [sockets EXCEPT ![c] = sockets'[c]] /\ sockets'[c] = NoSockets
  BY DEF ClientsInv, Failed, Dropped
<1>3. conn' = [conn EXCEPT ![c] = conn'[c]]
  BY DEF ClientsInv, Failed
<1>4. \/ conn'[c] = Returned(c, error)
      \/ /\ conn[c].transport < Transports
         /\ conn'[c] = [conn[c] EXCEPT !.at = "Dial", !.transport = @ + 1, !.result = error]
      \/ /\ conn[c].attempt < RetryCount
         /\ conn'[c] = [conn[c] EXCEPT !.at = "Loop", !.attempt = @ + 1, !.result = error]
  <2>. DEFINE k == IF IsTerminal(c, error) THEN Returned(c, error)
                   ELSE IF conn[c].transport < Transports
                        THEN [conn[c] EXCEPT !.at = "Dial", !.transport = conn[c].transport + 1,
                        !.result = error]
                   ELSE IF conn[c].attempt < RetryCount
                        THEN [conn[c] EXCEPT !.at = "Loop", !.attempt = conn[c].attempt + 1,
                        !.result = error]
                   ELSE Returned(c, error)
  <2>1. conn' = [conn EXCEPT ![c] = k]
    BY DEF Failed
  <2>2. conn'[c] = k
    <3>. HIDE DEF k
    <3>. QED
      BY <2>1 DEF ClientsInv
  <2>. QED
    BY <2>2
<1>5. CASE conn'[c] = Returned(c, error)
  BY <1>2, <1>3, <1>5, ReturnedOK, NoSocketsType DEF Results
<1>6. CASE /\ conn[c].transport < Transports
           /\ conn'[c] = [conn[c] EXCEPT !.at = "Dial", !.transport = @ + 1, !.result = error]
  <2>1. conn[c].transport + 1 \in 1..Transports
    BY <1>1, <1>6, NumberAssumption DEF Conns
  <2>2. /\ conn'[c] \in Conns /\ conn'[c].at = "Dial" /\ conn'[c].result = error
        /\ conn'[c].stop = conn[c].stop
    BY <1>1, <1>6, <2>1 DEF Conns, Places, Running, Results
  <2>. QED
    BY <1>1, <1>2, <1>3, <2>2, NoSocketsType
       DEF ClientOK, SocketsOK, ExtraOK, SpentOK, Dry, Running
<1>7. CASE /\ conn[c].attempt < RetryCount
           /\ conn'[c] = [conn[c] EXCEPT !.at = "Loop", !.attempt = @ + 1, !.result = error]
  <2>1. conn[c].attempt + 1 \in 0..RetryCount
    BY <1>1, <1>7, NumberAssumption DEF Conns
  <2>2. /\ conn'[c] \in Conns /\ conn'[c].at = "Loop" /\ conn'[c].result = error
        /\ conn'[c].stop = conn[c].stop
    BY <1>1, <1>7, <2>1 DEF Conns, Places, Running, Results
  <2>. QED
    BY <1>1, <1>2, <1>3, <2>2, NoSocketsType
       DEF ClientOK, SocketsOK, ExtraOK, SpentOK, Dry, Running
<1>. QED
  BY <1>4, <1>5, <1>6, <1>7

\* The addresses are in: the race or the first address, or a failure.
LEMMA ResolvedOK ==
    ASSUME ClientsInv, NEW c \in Clients, conn[c].at = "Dns",
           NEW addresses \in SUBSET Addrs, Resolved(c, addresses)
    PROVE  /\ conn' = [conn EXCEPT ![c] = conn'[c]]
           /\ sockets' = [sockets EXCEPT ![c] = sockets'[c]]
           /\ ClientOK(c, conn'[c], sockets'[c], extra[c], spent[c])
<1>1. /\ conn[c] \in Conns /\ conn[c].at \in Running /\ extra[c] \in SUBSET Addrs
      /\ ClientOK(c, conn[c], sockets[c], extra[c], spent[c])
      /\ c \notin Diagnosing => extra[c] = {}
  BY DEF ClientsInv, ClientOK, ExtraOK, Running, Connecting
<1>2. CASE \E error \in {"Transient", "Permanent"} : Failed(c, error)
  BY <1>1, <1>2, FailedOK
<1>3. CASE /\ conn' = [conn EXCEPT ![c].at = IF conn[c].parallel THEN "Race" ELSE "Order",
                                   ![c].resolution = addresses]
           /\ sockets' = [sockets EXCEPT ![c] =
                [a \in Addrs |-> IF a \notin addresses THEN "None"
                                 ELSE IF conn[c].parallel THEN "Connecting" ELSE "Untried"]]
  <2>1. conn' = [conn EXCEPT ![c] = conn'[c]] /\ sockets' = [sockets EXCEPT ![c] = sockets'[c]]
    BY <1>3 DEF ClientsInv
  <2>2. /\ conn'[c] \in Conns /\ conn'[c].at \in {"Race", "Order"}
        /\ conn'[c].resolution = addresses /\ conn'[c].stop = conn[c].stop
        /\ conn'[c].result = conn[c].result
    BY <1>1, <1>3 DEF ClientsInv, Conns, Places, Running, Connecting
  <2>3. /\ sockets'[c] \in [Addrs -> SocketStates]
        /\ \A a \in Addrs : sockets'[c][a] # "None" => a \in addresses
    BY <1>3 DEF ClientsInv, SocketStates
  <2>. QED
    BY <1>1, <2>1, <2>2, <2>3
       DEF ClientOK, SocketsOK, ExtraOK, SpentOK, Dry, Running, Connecting
<1>. QED
  BY <1>2, <1>3 DEF Resolved

\* One socket is open: the others go, and the login begins over it.
LEMMA ConnectedOK ==
    ASSUME ClientsInv, NEW c \in Clients, conn[c].at \in {"Race", "Try"}, NEW a \in Addrs,
           sockets[c][a] = "Open", Connected(c, a)
    PROVE  /\ conn' = [conn EXCEPT ![c] = conn'[c]]
           /\ sockets' = [sockets EXCEPT ![c] = sockets'[c]]
           /\ extra' = [extra EXCEPT ![c] = extra'[c]]
           /\ ClientOK(c, conn'[c], sockets'[c], extra'[c], spent[c])
<1>1. /\ conn[c] \in Conns /\ conn[c].at \in Running /\ extra[c] \in SUBSET Addrs
      /\ ClientOK(c, conn[c], sockets[c], extra[c], spent[c])
      /\ c \notin Diagnosing => extra[c] = {} /\ conn[c].stop = "None"
      /\ a \in conn[c].resolution
  BY DEF ClientsInv, ClientOK, ExtraOK, SocketsOK, Running, Connecting
<1>2. CASE conn[c].stop = "Transport"
  <2>1. /\ Failed(c, "Permanent") /\ extra' = [extra EXCEPT ![c] = extra'[c]]
        /\ extra'[c] \in SUBSET Addrs /\ c \in Diagnosing
    BY <1>1, <1>2 DEF ClientsInv, Connected
  <2>. QED
    BY <1>1, <2>1, FailedOK
<1>3. CASE conn[c].stop # "Transport"
  <2>1. /\ conn' = [conn EXCEPT ![c].at = "Prelogin", ![c].left = 0]
        /\ sockets' = [sockets EXCEPT ![c] = Only(a)]
    BY <1>3 DEF Connected, Kept, Only
  <2>2. /\ extra' = [extra EXCEPT ![c] = extra'[c]] /\ extra'[c] \in SUBSET Addrs
        /\ c \notin Diagnosing => extra'[c] = {}
    BY <1>1, <1>3 DEF ClientsInv, Connected
  <2>3. /\ conn'[c] \in Conns /\ conn'[c].at = "Prelogin" /\ conn'[c].stop = conn[c].stop
        /\ conn'[c].result = conn[c].result /\ conn'[c].resolution = conn[c].resolution
        /\ conn' = [conn EXCEPT ![c] = conn'[c]]
    BY <1>1, <2>1 DEF ClientsInv, Conns, Places, Running, Connecting
  <2>4. sockets'[c] = Only(a) /\ sockets' = [sockets EXCEPT ![c] = sockets'[c]]
    BY <2>1 DEF ClientsInv
  <2>. QED
    BY <1>1, <2>2, <2>3, <2>4, OnlyType
       DEF ClientOK, SocketsOK, ExtraOK, SpentOK, Dry, Running, Connecting
<1>. QED
  BY <1>2, <1>3

\* Every step of a client keeps ClientsInv.
LEMMA ClientStep ==
    ASSUME ClientsInv, CacheInv, NEW c \in Clients, Step(c)
    PROVE  ClientsInv'
<1>1. /\ conn[c] \in Conns /\ sockets[c] \in [Addrs -> SocketStates]
      /\ extra[c] \in SUBSET Addrs /\ spent[c] \in Nat
      /\ ClientOK(c, conn[c], sockets[c], extra[c], spent[c])
      /\ c \notin Diagnosing => extra[c] = {} /\ conn[c].stop = "None"
  BY DEF ClientsInv, ClientOK, ExtraOK
<1>. USE DEF At
<1>2. ASSUME NEW parallel \in BOOLEAN, NEW stop \in {"None", "Resolution", "Transport"}, Call(c,
             parallel, stop)
      PROVE  ClientsInv'
  <2>1. Moves(c) /\ UNCHANGED <<sockets, extra, spent>>
    BY <1>2 DEF Call, Idle, ClientsInv, Moves
  <2>2. /\ conn'[c] \in Conns /\ conn'[c].at = "Attempt" /\ conn'[c].result = "None"
        /\ conn'[c].stop = stop
    BY <1>1, <1>2, IdleType DEF Call, Idle, ClientsInv, Conns, Places, Running, Connecting, Results
  <2>3. ClientOK(c, conn'[c], sockets'[c], extra'[c], spent'[c])
    BY <1>1, <1>2, <2>1, <2>2
       DEF Call, Idle, ClientOK, SocketsOK, ExtraOK, SpentOK, Dry, Running, Connecting
  <2>. QED
    BY <2>1, <2>3, Frame
<1>3. ASSUME RetryWait(c) PROVE ClientsInv'
  <2>1. Moves(c) /\ UNCHANGED <<sockets, extra, spent>>
    BY <1>3 DEF RetryWait, ClientsInv, Moves
  <2>2. conn[c].at = "Loop" /\ sockets[c] = NoSockets /\ conn[c].result \in Results \ {"Client"}
    BY <1>1, <1>3
       DEF RetryWait, ClientOK, SocketsOK, ExtraOK, SpentOK, Dry, Running, Connecting, Conns
  <2>3. CASE EnoughForWait(c)
    <3>1. /\ conn'[c] = [conn[c] EXCEPT !.at = "Wait", !.left = RetryInterval]
          /\ conn'[c] \in Conns /\ conn'[c].at = "Wait" /\ conn'[c].left = RetryInterval
          /\ conn'[c].result = conn[c].result /\ conn'[c].stop = conn[c].stop
      BY <1>1, <1>3, <2>3, NumberAssumption DEF RetryWait, ClientsInv, Conns, Places, Running
    <3>2. LoginTimeout > 0 => spent[c] + RetryInterval <= LoginTimeout
      BY <2>3, NumberAssumption DEF EnoughForWait
    <3>3. ClientOK(c, conn'[c], sockets'[c], extra'[c], spent'[c])
      BY <1>1, <2>1, <2>2, <3>1, <3>2, NumberAssumption
         DEF ClientOK, SocketsOK, ExtraOK, SpentOK, Dry, Running, Connecting
    <3>. QED
      BY <2>1, <3>3, Frame
  <2>4. CASE ~EnoughForWait(c)
    <3>1. conn'[c] = Returned(c, conn[c].result)
      BY <1>3, <2>4 DEF RetryWait, ClientsInv
    <3>2. ClientOK(c, conn'[c], sockets'[c], extra'[c], spent'[c])
      BY <1>1, <2>1, <2>2, <3>1, ReturnedOK
    <3>. QED
      BY <2>1, <3>2, Frame
  <2>. QED
    BY <2>3, <2>4
<1>4. ASSUME Wake(c) PROVE ClientsInv'
  <2>1. Moves(c) /\ UNCHANGED <<sockets, extra, spent>>
    BY <1>4 DEF Wake, ClientsInv, Moves
  <2>2. /\ conn'[c] \in Conns /\ conn'[c].at = "Attempt" /\ conn'[c].result = conn[c].result
        /\ conn'[c].stop = conn[c].stop
    BY <1>1, <1>4 DEF Wake, ClientsInv, Conns, Places, Running, Connecting, Results
  <2>3. ClientOK(c, conn'[c], sockets'[c], extra'[c], spent'[c])
    BY <1>1, <1>4, <2>1, <2>2
       DEF Wake, ClientOK, SocketsOK, ExtraOK, SpentOK, Dry, Running, Connecting
  <2>. QED
    BY <2>1, <2>3, Frame
<1>5. ASSUME StartAttempt(c) PROVE ClientsInv'
  <2>1. Moves(c) /\ UNCHANGED <<sockets, extra, spent>>
    BY <1>5 DEF StartAttempt, ClientsInv, Moves
  <2>2. conn[c].at = "Attempt" /\ sockets[c] = NoSockets /\ conn[c].result \in Results \ {"Client"}
    BY <1>1, <1>5
       DEF StartAttempt, ClientOK, SocketsOK, ExtraOK, SpentOK, Dry, Running, Connecting, Conns
  <2>3. CASE Expired(c)
    <3>1. conn'[c] = Returned(c, conn[c].result)
      BY <1>5, <2>3 DEF StartAttempt, ClientsInv
    <3>2. ClientOK(c, conn'[c], sockets'[c], extra'[c], spent'[c])
      BY <1>1, <2>1, <2>2, <3>1, ReturnedOK
    <3>. QED
      BY <2>1, <3>2, Frame
  <2>4. CASE ~Expired(c)
    <3>a. 1 \in 1..Transports
      BY NumberAssumption
    <3>b. conn'[c] = [conn[c] EXCEPT !.at = "Dial", !.transport = 1]
      BY <1>5, <2>4 DEF StartAttempt, ClientsInv
    <3>1. /\ conn'[c] \in Conns /\ conn'[c].at = "Dial"
          /\ conn'[c].result = conn[c].result /\ conn'[c].stop = conn[c].stop
      BY <1>1, <3>a, <3>b DEF Conns, Places, Running, Connecting
    <3>2. ClientOK(c, conn'[c], sockets'[c], extra'[c], spent'[c])
      BY <1>1, <2>1, <2>2, <3>1 DEF ClientOK, SocketsOK, ExtraOK, SpentOK, Dry, Running, Connecting
    <3>. QED
      BY <2>1, <3>2, Frame
  <2>. QED
    BY <2>3, <2>4
<1>6. ASSUME Dial(c) PROVE ClientsInv'
  <2>1. Moves(c) /\ UNCHANGED <<sockets, extra, spent>>
    BY <1>6 DEF Dial, Resolving, ClientsInv, Moves
  <2>2. /\ conn'[c] \in Conns /\ conn'[c].at = "Dns" /\ conn'[c].result = conn[c].result
        /\ conn'[c].stop = conn[c].stop
    BY <1>1, <1>6, ClientAssumption, NumberAssumption
       DEF Dial, Resolving, ClientsInv, Conns, Places, Running, Connecting, Results
  <2>3. ClientOK(c, conn'[c], sockets'[c], extra'[c], spent'[c])
    BY <1>1, <1>6, <2>1, <2>2
       DEF Dial, Resolving, ClientOK, SocketsOK, ExtraOK, SpentOK, Dry, Running, Connecting
  <2>. QED
    BY <2>1, <2>3, Frame
<1>7. ASSUME NEW addresses \in SUBSET Addrs, Resolve(c, addresses) PROVE ClientsInv'
  <2>1. conn[c].at = "Dns" /\ Resolved(c, addresses) /\ UNCHANGED <<extra, spent>>
    BY <1>7 DEF Resolve
  <2>. QED
    BY <1>1, <2>1, ResolvedOK, Frame DEF ClientsInv, Moves
<1>8. ASSUME ResolveFails(c) PROVE ClientsInv'
  <2>1. conn[c].at = "Dns" /\ UNCHANGED <<extra, spent>> /\ cache[conn[c].host] \in SUBSET Addrs
    BY <1>1, <1>8 DEF ResolveFails, CacheInv, Conns
  <2>2. CASE cache[conn[c].host] = {}
    <3>1. Failed(c, "Transient") /\ conn[c].at \in Running
      BY <1>8, <2>1, <2>2 DEF ResolveFails, Running, Connecting
    <3>. QED
      BY <1>1, <2>1, <3>1, FailedOK, Frame DEF ClientsInv, Moves
  <2>3. CASE cache[conn[c].host] # {}
    <3>1. Resolved(c, cache[conn[c].host])
      BY <1>8, <2>3 DEF ResolveFails
    <3>. QED
      BY <1>1, <2>1, <3>1, ResolvedOK, Frame DEF ClientsInv, Moves
  <2>. QED
    BY <2>2, <2>3
<1>9. ASSUME NEW a \in Addrs, NEW how \in {"Open", "Refused", "Rejected"}, SocketEnds(c, a, how)
      PROVE  ClientsInv'
  <2>1. Moves(c) /\ UNCHANGED <<conn, extra, spent>>
    BY <1>9 DEF SocketEnds, ClientsInv, Moves
  <2>2. /\ sockets'[c] \in [Addrs -> SocketStates] /\ conn[c].at \in {"Race", "Try"}
        /\ \A b \in Addrs : sockets'[c][b] # "None" => sockets[c][b] # "None"
    BY <1>1, <1>9 DEF SocketEnds, ClientsInv, SocketStates
  <2>3. ClientOK(c, conn'[c], sockets'[c], extra'[c], spent'[c])
    BY <1>1, <2>1, <2>2 DEF ClientOK, SocketsOK, ExtraOK, SpentOK, Dry, Running, Connecting
  <2>. QED
    BY <2>1, <2>3, Frame
<1>10. ASSUME NEW a \in Addrs, JoinNext(c, a) PROVE ClientsInv'
  <2>1. conn[c].at = "Race" /\ conn[c].at \in Running /\ UNCHANGED spent
    BY <1>10 DEF JoinNext, Running, Connecting
  <2>2. CASE sockets[c][a] = "Open" /\ Connected(c, a)
    BY <1>1, <2>1, <2>2, ConnectedOK, Frame DEF ClientsInv, Moves
  <2>3. CASE (\E error \in {"Transient", "Permanent"} : Failed(c, error)) /\ UNCHANGED extra
    BY <1>1, <2>1, <2>3, FailedOK, Frame DEF ClientsInv, Moves
  <2>4. CASE sockets' = [sockets EXCEPT ![c][a] = "None"] /\ UNCHANGED <<conn, extra>>
    <3>1. Moves(c)
      BY <2>1, <2>4 DEF ClientsInv, Moves
    <3>2. /\ sockets'[c] \in [Addrs -> SocketStates]
          /\ \A b \in Addrs : sockets'[c][b] # "None" => sockets[c][b] # "None"
      BY <1>1, <2>4 DEF ClientsInv, SocketStates
    <3>3. ClientOK(c, conn'[c], sockets'[c], extra'[c], spent'[c])
      BY <1>1, <2>1, <2>4, <3>2 DEF ClientOK, SocketsOK, ExtraOK, SpentOK, Dry, Running, Connecting
    <3>. QED
      BY <3>1, <3>3, Frame
  <2>. QED
    BY <1>10, <2>2, <2>3, <2>4 DEF JoinNext
<1>11. ASSUME NEW a \in Addrs, TryAddress(c, a) PROVE ClientsInv'
  <2>1. Moves(c) /\ UNCHANGED <<extra, spent>>
    BY <1>11 DEF TryAddress, ClientsInv, Moves
  <2>2. /\ sockets'[c] \in [Addrs -> SocketStates] /\ conn[c].at = "Order"
        /\ \A b \in Addrs : sockets'[c][b] # "None" => sockets[c][b] # "None"
    BY <1>1, <1>11 DEF TryAddress, ClientsInv, SocketStates
  <2>3. /\ conn'[c] \in Conns /\ conn'[c].at = "Try" /\ conn'[c].stop = conn[c].stop
        /\ conn'[c].result = conn[c].result /\ conn'[c].resolution = conn[c].resolution
    BY <1>1, <1>11, NumberAssumption DEF TryAddress, ClientsInv, Conns, Places, Running, Connecting
  <2>4. ClientOK(c, conn'[c], sockets'[c], extra'[c], spent'[c])
    BY <1>1, <2>1, <2>2, <2>3 DEF ClientOK, SocketsOK, ExtraOK, SpentOK, Dry, Running, Connecting
  <2>. QED
    BY <2>1, <2>4, Frame
<1>12. ASSUME NoneLeft(c) PROVE ClientsInv'
  <2>1. Failed(c, "Transient") /\ conn[c].at \in Running /\ UNCHANGED <<extra, spent>>
    BY <1>12 DEF NoneLeft, Running, Connecting
  <2>. QED
    BY <1>1, <2>1, FailedOK, Frame DEF ClientsInv, Moves
<1>13. ASSUME NEW a \in Addrs, AddressEnds(c, a) PROVE ClientsInv'
  <2>1. conn[c].at = "Try" /\ conn[c].at \in Running /\ UNCHANGED spent
    BY <1>13 DEF AddressEnds, Running, Connecting
  <2>2. CASE sockets[c][a] = "Open" /\ Connected(c, a)
    BY <1>1, <2>1, <2>2, ConnectedOK, Frame DEF ClientsInv, Moves
  <2>3. CASE /\ Failed(c, "Permanent")
             /\ extra' = [extra EXCEPT ![c] = IF c \in Diagnosing
                             THEN @ \cup {b \in Addrs : sockets[c][b] = "Untried"} ELSE @]
    <3>1. /\ extra' = [extra EXCEPT ![c] = extra'[c]] /\ extra'[c] \in SUBSET Addrs
          /\ c \notin Diagnosing => extra'[c] = {}
      BY <1>1, <2>3 DEF ClientsInv
    <3>. QED
      BY <1>1, <2>1, <2>3, <3>1, FailedOK, Frame DEF ClientsInv, Moves
  <2>4. CASE /\ sockets' = [sockets EXCEPT ![c][a] = "None"]
             /\ conn' = [conn EXCEPT ![c].at = "Order"] /\ UNCHANGED extra
    <3>1. Moves(c)
      BY <2>1, <2>4 DEF ClientsInv, Moves
    <3>2. /\ sockets'[c] \in [Addrs -> SocketStates]
          /\ \A b \in Addrs : sockets'[c][b] # "None" => sockets[c][b] # "None"
      BY <1>1, <2>4 DEF ClientsInv, SocketStates
    <3>3. /\ conn'[c] \in Conns /\ conn'[c].at = "Order" /\ conn'[c].stop = conn[c].stop
          /\ conn'[c].result = conn[c].result /\ conn'[c].resolution = conn[c].resolution
      BY <1>1, <2>4 DEF ClientsInv, Conns, Places, Running, Connecting
    <3>4. ClientOK(c, conn'[c], sockets'[c], extra'[c], spent'[c])
      BY <1>1, <2>1, <2>4, <3>2, <3>3
         DEF ClientOK, SocketsOK, ExtraOK, SpentOK, Dry, Running, Connecting
    <3>. QED
      BY <3>1, <3>4, Frame
  <2>. QED
    BY <1>13, <2>2, <2>3, <2>4 DEF AddressEnds
<1>14. ASSUME ConnectTimesOut(c) PROVE ClientsInv'
  <2>1. UNCHANGED <<extra, spent>> /\ conn[c].at \in Running
    BY <1>14 DEF ConnectTimesOut, Running, Connecting
  <2>2. CASE Failed(c, "Transient")
    BY <1>1, <2>1, <2>2, FailedOK, Frame DEF ClientsInv, Moves
  <2>3. CASE /\ conn[c].at = "Try" /\ conn' = [conn EXCEPT ![c].at = "Order"]
             /\ sockets' = [sockets EXCEPT ![c] =
                  [a \in Addrs |-> IF @[a] = "Untried" THEN "Untried" ELSE "None"]]
    <3>1. Moves(c)
      BY <2>1, <2>3 DEF ClientsInv, Moves
    <3>2. /\ sockets'[c] \in [Addrs -> SocketStates]
          /\ \A b \in Addrs : sockets'[c][b] # "None" => sockets[c][b] # "None"
      BY <1>1, <2>3 DEF ClientsInv, SocketStates
    <3>3. /\ conn'[c] \in Conns /\ conn'[c].at = "Order" /\ conn'[c].stop = conn[c].stop
          /\ conn'[c].result = conn[c].result /\ conn'[c].resolution = conn[c].resolution
      BY <1>1, <2>3 DEF ClientsInv, Conns, Places, Running, Connecting
    <3>4. ClientOK(c, conn'[c], sockets'[c], extra'[c], spent'[c])
      BY <1>1, <2>1, <2>3, <3>2, <3>3
         DEF ClientOK, SocketsOK, ExtraOK, SpentOK, Dry, Running, Connecting
    <3>. QED
      BY <3>1, <3>4, Frame
  <2>. QED
    BY <1>14, <2>2, <2>3 DEF ConnectTimesOut
<1>15. ASSUME Prelogin(c) PROVE ClientsInv'
  <2>1. Moves(c) /\ UNCHANGED <<sockets, extra, spent>>
    BY <1>15 DEF Prelogin, ClientsInv, Moves
  <2>2. /\ conn'[c] \in Conns /\ conn'[c].at = "Login" /\ conn'[c].result = conn[c].result
        /\ conn'[c].stop = conn[c].stop /\ conn'[c].resolution = conn[c].resolution
    BY <1>1, <1>15 DEF Prelogin, ClientsInv, Conns, Places, Running, Connecting, Results
  <2>3. ClientOK(c, conn'[c], sockets'[c], extra'[c], spent'[c])
    BY <1>1, <1>15, <2>1, <2>2
       DEF Prelogin, ClientOK, SocketsOK, ExtraOK, SpentOK, Dry, Running, Connecting
  <2>. QED
    BY <2>1, <2>3, Frame
<1>16. ASSUME NEW e \in {"Transient", "Permanent"}, PreloginFails(c, e) PROVE ClientsInv'
  <2>1. Failed(c, e) /\ conn[c].at \in Running /\ UNCHANGED <<extra, spent>>
    BY <1>16 DEF PreloginFails, Running, Connecting
  <2>. QED
    BY <1>1, <2>1, FailedOK, Frame DEF ClientsInv, Moves
<1>17. ASSUME NEW e \in {"Transient", "Permanent"}, ResponseBreaks(c, e) PROVE ClientsInv'
  <2>1. Failed(c, e) /\ conn[c].at \in Running /\ UNCHANGED <<extra, spent>>
    BY <1>17 DEF ResponseBreaks, Running, Connecting
  <2>. QED
    BY <1>1, <2>1, FailedOK, Frame DEF ClientsInv, Moves
<1>18. ASSUME NEW r \in Responses, ResponseEnds(c, r) PROVE ClientsInv'
  <2>1. conn[c].at = "Login" /\ conn[c].at \in Running /\ UNCHANGED <<extra, spent>>
    BY <1>18 DEF ResponseEnds, Running, Connecting
  <2>2. CASE \E error \in {"Transient", "Permanent"} : Failed(c, error)
    BY <1>1, <2>1, <2>2, FailedOK, Frame DEF ClientsInv, Moves
  <2>3. CASE conn' = [conn EXCEPT ![c] = Returned(c, "Client")] /\ UNCHANGED sockets
    <3>1. \E a \in Addrs : sockets[c] = Only(a)
      BY <1>1, <2>1 DEF ClientOK, SocketsOK, Conns
    <3>2. Moves(c) /\ conn'[c] = Returned(c, "Client")
      BY <2>1, <2>3 DEF ClientsInv, Moves
    <3>3. ClientOK(c, conn'[c], sockets'[c], extra'[c], spent'[c])
      BY <1>1, <2>1, <2>3, <3>1, <3>2, ReturnedOK DEF Results
    <3>. QED
      BY <3>2, <3>3, Frame
  <2>4. CASE /\ conn[c].redirects < MaxRedirects /\ Dropped(c)
             /\ \E h \in Hosts : conn' = [conn EXCEPT ![c] = [Resolving(c, h)
                                            EXCEPT !.redirects = conn[c].redirects + 1]]
    <3>1. PICK h \in Hosts : conn' = [conn EXCEPT ![c] = [Resolving(c, h)
                                        EXCEPT !.redirects = conn[c].redirects + 1]]
      BY <2>4
    <3>2. Moves(c) /\ sockets'[c] = NoSockets
      BY <2>1, <2>4, <3>1 DEF ClientsInv, Moves, Dropped
    <3>3. conn[c].redirects + 1 \in 0..MaxRedirects
      BY <1>1, <2>4, NumberAssumption DEF Conns
    <3>4. /\ conn'[c] \in Conns /\ conn'[c].at = "Dns" /\ conn'[c].stop = conn[c].stop
          /\ conn'[c].result = conn[c].result
      BY <1>1, <3>1, <3>3, NumberAssumption
         DEF ClientsInv, Resolving, Conns, Places, Running, Connecting
    <3>5. ClientOK(c, conn'[c], sockets'[c], extra'[c], spent'[c])
      BY <1>1, <2>1, <3>2, <3>4, NoSocketsType
         DEF ClientOK, SocketsOK, ExtraOK, SpentOK, Dry, Running, Connecting
    <3>. QED
      BY <3>2, <3>5, Frame
  <2>5. ASSUME Redirected(c, r.route)
        PROVE  \/ \E error \in {"Transient", "Permanent"} : Failed(c, error)
               \/ /\ conn[c].redirects < MaxRedirects /\ Dropped(c)
                  /\ \E h \in Hosts : conn' = [conn EXCEPT ![c] = [Resolving(c, h)
                                                 EXCEPT !.redirects = conn[c].redirects + 1]]
    <3>1. \A h \in r.route : h \in Hosts
      BY DEF Responses
    <3>2. conn[c].redirects \in Nat
      BY <1>1, NumberAssumption DEF Conns
    <3>. QED
      BY <2>5, <3>1, <3>2, NumberAssumption DEF Redirected
  <2>. QED
    BY <1>18, <2>2, <2>3, <2>4, <2>5 DEF ResponseEnds
<1>19. ASSUME DeadlineHits(c) PROVE ClientsInv'
  <2>1. Failed(c, "Transient") /\ conn[c].at \in Running /\ UNCHANGED <<extra, spent>>
    BY <1>19 DEF DeadlineHits, Timed, Running, Connecting
  <2>. QED
    BY <1>1, <2>1, FailedOK, Frame DEF ClientsInv, Moves
<1>20. ASSUME Cancel(c) PROVE ClientsInv'
  <2>1. /\ Moves(c) /\ sockets'[c] = NoSockets /\ extra'[c] = {} /\ spent'[c] = spent[c]
    BY <1>20 DEF Cancel, Dropped, ClientsInv, Moves
  <2>2. /\ conn'[c] \in Conns /\ conn'[c].at = "Done" /\ conn'[c].result = "Cancelled"
        /\ conn'[c].stop = conn[c].stop
    BY <1>1, <1>20 DEF Cancel, ClientsInv, Conns, Places, Results
  <2>3. ClientOK(c, conn'[c], sockets'[c], extra'[c], spent'[c])
    BY <1>1, <2>1, <2>2, NoSocketsType
       DEF ClientOK, SocketsOK, ExtraOK, SpentOK, Dry, Running, Connecting
  <2>. QED
    BY <2>1, <2>3, Frame
<1>21. ASSUME NEW a \in Addrs, ExtraEnds(c, a) PROVE ClientsInv'
  <2>1. Moves(c) /\ UNCHANGED <<conn, sockets, spent>> /\ extra'[c] = extra[c] \ {a}
    BY <1>21 DEF ExtraEnds, ClientsInv, Moves
  <2>2. ClientOK(c, conn'[c], sockets'[c], extra'[c], spent'[c])
    BY <1>1, <2>1 DEF ClientOK, SocketsOK, ExtraOK, SpentOK, Dry, Running, Connecting
  <2>. QED
    BY <2>1, <2>2, Frame
<1>22. ASSUME Finish(c) PROVE ClientsInv'
  <2>1. Moves(c) /\ UNCHANGED <<sockets, spent>> /\ extra'[c] = {}
    BY <1>22 DEF Finish, ClientsInv, Moves
  <2>2. /\ conn'[c] \in Conns /\ conn'[c].at = "Done" /\ conn'[c].result = conn[c].result
        /\ conn'[c].stop = conn[c].stop /\ conn[c].at = "Extras"
    BY <1>1, <1>22 DEF Finish, ClientsInv, Conns, Places
  <2>3. ClientOK(c, conn'[c], sockets'[c], extra'[c], spent'[c])
    BY <1>1, <2>1, <2>2 DEF ClientOK, SocketsOK, ExtraOK, SpentOK, Dry, Running, Connecting
  <2>. QED
    BY <2>1, <2>3, Frame
<1>23. ASSUME Tick(c) PROVE ClientsInv'
  <2>1. Moves(c) /\ UNCHANGED <<sockets, extra>>
    BY <1>23 DEF Tick, ClientsInv, Moves
  <2>a. conn[c].left \in Nat
    BY <1>1 DEF Conns
  <2>b. PICK l \in Nat : l = IF conn[c].left > 0 THEN conn[c].left - 1 ELSE 0
    BY <2>a
  <2>c. conn'[c] = [conn[c] EXCEPT !.left = l]
    BY <1>23, <2>b DEF Tick, ClientsInv
  <2>2. /\ conn'[c] \in Conns /\ conn'[c].at = conn[c].at /\ conn'[c].result = conn[c].result
        /\ conn'[c].stop = conn[c].stop /\ conn'[c].resolution = conn[c].resolution
        /\ conn'[c].left = IF conn[c].left > 0 THEN conn[c].left - 1 ELSE 0
    BY <1>1, <2>b, <2>c DEF Conns
  <2>3. spent'[c] = IF LoginTimeout = 0 \/ spent[c] > LoginTimeout \/ conn[c].at = "Extras"
                    THEN spent[c] ELSE spent[c] + 1
    BY <1>23 DEF Tick, ClientsInv
  <2>4. spent'[c] \in Nat /\ conn[c].left \in Nat
    BY <1>1, <2>3 DEF Conns
  <2>5. SpentOK(conn'[c], spent'[c])
    BY <1>1, <1>23, <2>2, <2>3, <2>4, NumberAssumption
       DEF Tick, Timed, Expired, ClientOK, SpentOK, Running, Connecting
  <2>6. ClientOK(c, conn'[c], sockets'[c], extra'[c], spent'[c])
    BY <1>1, <2>1, <2>2, <2>4, <2>5 DEF ClientOK, SocketsOK, ExtraOK
  <2>. QED
    BY <2>1, <2>6, Frame
<1>. QED
  BY <1>2, <1>3, <1>4, <1>5, <1>6, <1>7, <1>8, <1>9, <1>10, <1>11, <1>12, <1>13, <1>14, <1>15,
     <1>16, <1>17, <1>18, <1>19, <1>20, <1>21, <1>22, <1>23
     DEF Step, Loop, Connect, Login, Timers

\* Every step of a client keeps the cache and its verdicts together.
LEMMA CacheStep ==
    ASSUME ClientsInv, CacheInv, NEW c \in Clients, Step(c)
    PROVE  CacheInv'
<1>1. CASE UNCHANGED shared
  BY <1>1 DEF shared, CacheInv, CacheIsVerdict
<1>2. ASSUME NEW r \in Responses, ResponseEnds(c, r) PROVE CacheInv'
  <2>1. conn[c] \in Conns /\ conn[c].at = "Login" /\ conn[c].host \in Hosts
    BY <1>2 DEF ClientsInv, Conns, ResponseEnds, At
  <2>2. PICK a \in conn[c].resolution : sockets[c] = Only(a)
    BY <2>1 DEF ClientsInv, ClientOK, SocketsOK
  <2>3. InUse(c) = {a} /\ a \in Addrs /\ conn[c].resolution \in SUBSET Addrs
    BY <2>1, <2>2 DEF InUse, Only, NoSockets, Conns
  <2>4. CASE HasVerdict(r)
    <3>1. cache' = [cache EXCEPT ![conn[c].host] = Verdict(c, r)]
      BY <1>2, <2>4 DEF ResponseEnds
    <3>2. verdict' = [verdict EXCEPT ![conn[c].host] = IF r.ack = "Allow" THEN InUse(c) ELSE {}]
      BY <1>2, <2>4 DEF ResponseEnds, HasVerdict
    <3>3. CASE r.ack = "Allow"
      BY <2>1, <2>2, <2>3, <3>1, <3>2, <3>3 DEF CacheInv, CacheIsVerdict, Verdict
    <3>4. CASE r.ack # "Allow"
      BY <2>1, <3>1, <3>2, <3>4 DEF CacheInv, CacheIsVerdict, Verdict
    <3>. QED
      BY <3>3, <3>4
  <2>5. CASE ~HasVerdict(r)
    BY <1>2, <2>5 DEF ResponseEnds, HasVerdict, CacheInv, CacheIsVerdict
  <2>. QED
    BY <2>4, <2>5
<1>3. UNCHANGED shared \/ \E r \in Responses : ResponseEnds(c, r)
  BY DEF Step, Loop, Connect, Login, Timers, Call, RetryWait, Wake, StartAttempt, Dial, Resolve,
         ResolveFails, SocketEnds, JoinNext, TryAddress, NoneLeft, AddressEnds, ConnectTimesOut,
         Prelogin, PreloginFails, ResponseBreaks, DeadlineHits, Cancel, ExtraEnds, Finish, Tick
<1>. QED
  BY <1>1, <1>2, <1>3

\* The inductive invariant holds throughout.
LEMMA ProviderInvCorrect == Spec => [](ClientsInv /\ CacheInv)
<1>1. Init => ClientsInv /\ CacheInv
  <2>. SUFFICES ASSUME Init PROVE ClientsInv /\ CacheInv
    OBVIOUS
  <2>1. ASSUME NEW c \in Clients
        PROVE  ClientOK(c, Idle, NoSockets, {}, 0)
    BY IdleType, NoSocketsType, NumberAssumption
       DEF ClientOK, SocketsOK, ExtraOK, SpentOK, Idle, Dry, Running, Connecting
  <2>2. ClientsInv
    BY <2>1, IdleType, NoSocketsType DEF Init, ClientsInv
  <2>3. CacheInv
    BY DEF Init, CacheInv, CacheIsVerdict
  <2>. QED
    BY <2>2, <2>3
<1>2. ClientsInv /\ CacheInv /\ [Next]_vars => ClientsInv' /\ CacheInv'
  <2>. SUFFICES ASSUME ClientsInv, CacheInv, [Next]_vars PROVE ClientsInv' /\ CacheInv'
    OBVIOUS
  <2>1. ASSUME NEW c \in Clients, Step(c) PROVE ClientsInv' /\ CacheInv'
    BY <2>1, ClientStep, CacheStep
  <2>2. ASSUME NEW h \in Hosts, NEW addresses \in SUBSET Addrs, AnotherLogsIn(h, addresses)
        PROVE  ClientsInv' /\ CacheInv'
    <3>1. ClientsInv'
      BY <2>2 DEF AnotherLogsIn, ClientsInv
    <3>2. CASE /\ cache' = [cache EXCEPT ![h] = {}]
               /\ verdict' = [verdict EXCEPT ![h] = {}]
      BY <3>1, <3>2 DEF CacheInv, CacheIsVerdict
    <3>3. CASE /\ cache' = [cache EXCEPT ![h] = addresses]
               /\ \E a \in addresses : verdict' = [verdict EXCEPT ![h] = {a}]
      BY <3>1, <3>3 DEF CacheInv, CacheIsVerdict
    <3>. QED
      BY <2>2, <3>2, <3>3 DEF AnotherLogsIn
  <2>3. CASE UNCHANGED vars
    BY <2>3 DEF vars, shared, ClientsInv, CacheInv, CacheIsVerdict
  <2>. QED
    BY <2>1, <2>2, <2>3 DEF Next
<1>. QED
  BY <1>1, <1>2, PTL DEF Spec

---------------------------------------------------------------------------
(* Theorems.                                                               *)

\* The sockets of one client, counted.
LEMMA InUseCount ==
    ASSUME NEW c \in Clients
    PROVE  /\ sockets[c] = NoSockets => Cardinality(InUse(c)) = 0
           /\ \A a \in Addrs : sockets[c] = Only(a) => Cardinality(InUse(c)) = 1
<1>1. ASSUME sockets[c] = NoSockets PROVE Cardinality(InUse(c)) = 0
  <2>1. InUse(c) = {}
    BY <1>1 DEF InUse, NoSockets
  <2>. QED
    BY <2>1, FS_EmptySet
<1>2. ASSUME NEW a \in Addrs, sockets[c] = Only(a) PROVE Cardinality(InUse(c)) = 1
  <2>1. InUse(c) = {a}
    BY <1>2 DEF InUse, Only, NoSockets
  <2>. QED
    BY <2>1, FS_Singleton
<1>. QED
  BY <1>1, <1>2

\* A login runs over the one socket its connect has left, and a call that has
\* returned leaves its client's socket and nothing else behind.
THEOREM OneConnectionCorrect == Spec => []OneConnection
<1>1. ClientsInv /\ CacheInv => OneConnection
  <2>. SUFFICES ASSUME ClientsInv, CacheInv PROVE OneConnection
    OBVIOUS
  <2>1. TypeOK
    BY DEF ClientsInv, CacheInv, TypeOK, Conns, SocketStates, Results
  <2>2. ASSUME NEW c \in Clients
        PROVE  /\ At(c, {"Prelogin", "Login"}) => Cardinality(InUse(c)) = 1
               /\ At(c, {"Done", "Extras"}) =>
                    Cardinality(InUse(c)) = IF conn[c].result = "Client" THEN 1 ELSE 0
               /\ At(c, {"Done"}) => extra[c] = {}
    <3>1. conn[c] \in Conns /\ SocketsOK(conn[c], sockets[c]) /\ ExtraOK(c, conn[c], extra[c])
      BY DEF ClientsInv, ClientOK
    <3>2. At(c, {"Prelogin", "Login"}) => \E a \in Addrs : sockets[c] = Only(a)
      BY <3>1 DEF SocketsOK, At, Conns
    <3>3. At(c, {"Done", "Extras"}) =>
            IF conn[c].result = "Client" THEN \E a \in Addrs : sockets[c] = Only(a)
            ELSE sockets[c] = NoSockets
      BY <3>1 DEF SocketsOK, At
    <3>4. At(c, {"Done"}) => extra[c] = {}
      BY <3>1 DEF ExtraOK, At
    <3>. QED
      BY <3>2, <3>3, <3>4, InUseCount
  <2>. QED
    BY <2>1, <2>2 DEF OneConnection
<1>. QED
  BY <1>1, ProviderInvCorrect, PTL

\* The overall login deadline is never overrun while the call runs.
THEOREM DeadlineCorrect == Spec => []WithinLoginDeadline
<1>1. ClientsInv => WithinLoginDeadline
  BY DEF ClientsInv, ClientOK, SpentOK, WithinLoginDeadline, At
<1>. QED
  BY <1>1, ProviderInvCorrect, PTL

\* A host has a fallback exactly when the last accepted login to it allowed one.
THEOREM CacheCorrect == Spec => []CacheIsVerdict
<1>1. CacheInv => CacheIsVerdict
  BY DEF CacheInv
<1>. QED
  BY <1>1, ProviderInvCorrect, PTL
=============================================================================
