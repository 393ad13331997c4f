--------------------------- MODULE ConnectionWire ---------------------------
(***************************************************************************)
(* Ownership of an ODBC connection's single TDS client                     *)
(* (mssql-odbc/src/handles/wire.rs).  Every action is one critical section *)
(* under the DBC mutex; between them a call does its network I/O holding   *)
(* only its lease, so SQLDisconnect and a new SQLDriverConnect may happen  *)
(* while a lease is out.                                                   *)
(*                                                                         *)
(* next_lease_id counts to 2^64; what the code relies on is that a new id  *)
(* differs from every id still out, and that is all that is kept of it.    *)
(***************************************************************************)
EXTENDS Naturals

CONSTANTS
    Threads,      \* calls in progress, each holding at most one lease
    NoThread,
    Stmts,        \* WireOwner::Statement(_)
    Connection,   \* WireOwner::Connection
    NoOwner,
    LeaseIds,     \* lease numbers
    MaxSessions   \* bound: SQLDriverConnect calls

ASSUME ThreadsAssumption == NoThread \notin Threads
ASSUME OwnersAssumption ==
    Connection \notin Stmts /\ NoOwner \notin Stmts /\ NoOwner # Connection
ASSUME LeaseIdsAssumption == LeaseIds \subseteq Nat \ {0}
ASSUME MaxSessionsAssumption == MaxSessions \in Nat

VARIABLES
    wire_client,  \* session of the parked client, 0 when none is parked
    wire_owner,   \* Option<WireOwner>
    wire_lease,   \* the id of the lease that is out, 0 for None
    held,         \* the WireLease each call holds
    sessions      \* sessions installed so far (DbcState::session_generation)

wireVars == <<wire_client, wire_owner, wire_lease, held, sessions>>

Owners == Stmts \cup {Connection}
NoLease == [id |-> 0, owner |-> NoOwner, session |-> 0]
Leases == {NoLease} \cup [id : LeaseIds, owner : Owners, session : 1..MaxSessions]

\* The shape of the wire and of the leases: a WireLease always carries a client
\* and an owner.
WireTypeOK ==
    /\ wire_client \in 0..MaxSessions
    /\ wire_owner \in Owners \cup {NoOwner}
    /\ wire_lease \in LeaseIds \cup {0}
    /\ held \in [Threads -> Leases]
    /\ sessions \in 0..MaxSessions

WireInit ==
    /\ wire_client = 0 /\ wire_owner = NoOwner /\ wire_lease = 0
    /\ held = [t \in Threads |-> NoLease] /\ sessions = 0

---------------------------------------------------------------------------
Holding(t) == held[t].id # 0

\* A client of a new session is installed; only ever on a vacant wire.
Install ==
    /\ wire_client = 0 /\ wire_lease = 0 /\ sessions < MaxSessions
    /\ sessions' = sessions + 1
    /\ wire_client' = sessions + 1
    /\ wire_owner' = NoOwner /\ wire_lease' = 0
    /\ UNCHANGED held

\* Any lease still out becomes stale.
Uninstall ==
    /\ wire_client' = 0 /\ wire_owner' = NoOwner /\ wire_lease' = 0
    /\ UNCHANGED <<held, sessions>>

\* ConnectionWire::check.
CanClaim(who, policy) ==
    /\ wire_lease = 0
    /\ wire_owner = NoOwner \/ (policy = "IdleOrOwn" /\ wire_owner = who)
    /\ wire_client # 0

FreshIds == {id \in LeaseIds : \A t \in Threads : held[t].id # id}

Claim(t, who, policy) ==
    /\ CanClaim(who, policy) /\ ~Holding(t) /\ FreshIds # {}
    /\ LET id == CHOOSE i \in FreshIds : TRUE
       IN  /\ held' = [held EXCEPT ![t] = [id |-> id, owner |-> who, session |-> wire_client]]
           /\ wire_lease' = id
    /\ wire_owner' = who /\ wire_client' = 0
    /\ UNCHANGED sessions

\* Mutation: a lease is current while no other has replaced it.
CurrentUnlessReplaced(t) == wire_lease \in {0, held[t].id}

\* Is the lease t holds the one the wire has out?
Current(t) == wire_lease = held[t].id

\* restore: a current lease parks its client, a stale one closes it.  Only a
\* statement can keep the reservation.
Restore(t, how) ==
    /\ Holding(t)
    /\ held' = [held EXCEPT ![t] = NoLease]
    /\ IF Current(t)
       THEN /\ wire_lease' = 0
            /\ wire_client' = held[t].session
            /\ wire_owner' = IF how = "KeepReservation" /\ held[t].owner \in Stmts
                             THEN held[t].owner ELSE NoOwner
       ELSE UNCHANGED <<wire_lease, wire_client, wire_owner>>
    /\ UNCHANGED sessions

\* parked_client_mut followed, under the same lock, by reserve.
ReadParked(s) ==
    /\ CanClaim(s, "IdleOrOwn")
    /\ wire_owner' = s
    /\ UNCHANGED <<wire_client, wire_lease, held, sessions>>

\* No-op while a lease is out: its return decides the reservation.
ReleaseReservation(s) ==
    /\ wire_lease = 0 /\ wire_owner = s
    /\ wire_owner' = NoOwner
    /\ UNCHANGED <<wire_client, wire_lease, held, sessions>>

WireNext ==
    \/ Install
    \/ (wire_client # 0 \/ wire_lease # 0) /\ Uninstall
    \/ \E t \in Threads, who \in Owners, policy \in {"IdleOnly", "IdleOrOwn"} :
          Claim(t, who, policy)
    \/ \E t \in Threads, how \in {"Release", "KeepReservation"} : Restore(t, how)
    \/ \E s \in Stmts : ReadParked(s) \/ ReleaseReservation(s)

WireSpec == WireInit /\ [][WireNext]_wireVars

---------------------------------------------------------------------------
(* Properties.                                                             *)

\* The doc comment on ConnectionWire, for a connection that has a session:
\* "the client is parked exactly when no lease is out; a lease always has an
\* owner; a connection-scoped owner never outlives its lease".
WireDocInvariants ==
    /\ wire_lease # 0 => wire_client = 0 /\ wire_owner # NoOwner
    /\ wire_owner = Connection => wire_lease # 0
    /\ wire_client # 0 \/ wire_lease # 0 \/ wire_owner = NoOwner

\* The lease that is out is with exactly one call, which holds the client of
\* the newest session for the recorded owner.
LeaseIsHeld ==
    wire_lease # 0 =>
        \E t \in Threads :
            /\ held[t] = [id |-> wire_lease, owner |-> wire_owner, session |-> sessions]
            /\ \A u \in Threads \ {t} : held[u].id # wire_lease

\* A parked client belongs to the newest session and no call holds another
\* client of that session.
ParkedIsLive ==
    wire_client # 0 =>
        /\ wire_client = sessions
        /\ \A t \in Threads : Holding(t) => held[t].session < sessions

\* No two calls hold the same lease.
LeasesDistinct ==
    \A t, u \in Threads : t # u /\ Holding(t) => held[t].id # held[u].id

\* A call that holds a client of the newest session while the wire has another
\* lease out would be a second user of one TDS stream.
HeldIsOlder ==
    \A t \in Threads : Holding(t) =>
        /\ held[t].session <= sessions
        /\ wire_lease # 0 /\ ~Current(t) => held[t].session < sessions

\* The inductive invariant: the session's client is in exactly one place.
WireInv ==
    /\ WireDocInvariants
    /\ LeaseIsHeld
    /\ ParkedIsLive
    /\ LeasesDistinct
    /\ HeldIsOlder

\* The lease protocol implements ExclusiveClient.
LeaseHolder == CHOOSE t \in Threads : held[t].id = wire_lease
LiveSession == IF wire_lease # 0 THEN held[LeaseHolder].session ELSE wire_client
LiveHolder  == IF wire_lease # 0 THEN LeaseHolder ELSE NoThread

Exclusive == INSTANCE ExclusiveClient
    WITH session <- LiveSession, last <- sessions, holder <- LiveHolder,
         owner <- wire_owner

\* A client whose session was torn down while it was out never comes back, and
\* at every moment at most one call drives the live session.
ClientExclusive == Exclusive!Spec
=============================================================================
