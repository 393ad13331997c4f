--------------------------- MODULE ExclusiveClient ---------------------------
(***************************************************************************)
(* What the ODBC connection promises about its single TDS client, without  *)
(* saying how: a session has one client, the client is parked or with one  *)
(* call, a call takes it only if nobody else has it reserved, and a client *)
(* whose session has ended never comes back.  mssql-odbc/src/handles/      *)
(* wire.rs implements this with lease numbers; ConnectionWire refines it.  *)
(***************************************************************************)
EXTENDS Naturals

CONSTANTS
    Threads,      \* calls that may use the connection
    NoThread,
    Stmts,        \* statement owners
    Connection,   \* the connection-scoped owner
    NoOwner

VARIABLES
    session,      \* the live session, 0 when there is none
    last,         \* sessions so far
    holder,       \* the call that has the client
    owner         \* who the connection is reserved for

vars == <<session, last, holder, owner>>

Init == session = 0 /\ last = 0 /\ holder = NoThread /\ owner = NoOwner

Connect ==
    /\ session = 0
    /\ session' = last + 1 /\ last' = last + 1
    /\ UNCHANGED <<holder, owner>>

Disconnect ==
    /\ session # 0
    /\ session' = 0 /\ holder' = NoThread /\ owner' = NoOwner
    /\ UNCHANGED last

CheckOut(t, who) ==
    /\ session # 0 /\ holder = NoThread /\ owner \in {NoOwner, who}
    /\ holder' = t /\ owner' = who
    /\ UNCHANGED <<session, last>>

\* Only a statement may keep the connection reserved when it hands back.
CheckIn(t) ==
    /\ holder = t
    /\ holder' = NoThread
    /\ owner' = NoOwner \/ (owner \in Stmts /\ owner' = owner)
    /\ UNCHANGED <<session, last>>

\* A parked client is reserved for a statement that reads from it in place,
\* or a reservation is given up.
Reserve(who) ==
    /\ session # 0 /\ holder = NoThread /\ owner \in {NoOwner, who}
    /\ owner' = who
    /\ UNCHANGED <<session, last, holder>>

Unreserve ==
    /\ holder = NoThread
    /\ owner' = NoOwner
    /\ UNCHANGED <<session, last, holder>>

Next ==
    \/ Connect
    \/ Disconnect
    \/ \E t \in Threads, who \in Stmts \cup {Connection} : CheckOut(t, who)
    \/ \E t \in Threads : CheckIn(t)
    \/ \E who \in Stmts : Reserve(who)
    \/ Unreserve

Spec == Init /\ [][Next]_vars
=============================================================================
