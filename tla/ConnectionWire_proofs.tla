------------------------ MODULE ConnectionWire_proofs ------------------------
(***************************************************************************)
(* The lease protocol of mssql-odbc/src/handles/wire.rs is correct for any *)
(* number of calls, statements and sessions: its types, the inductive      *)
(* invariant WireInv, and the refinement of ExclusiveClient.               *)
(***************************************************************************)
EXTENDS ConnectionWire, TLAPS

USE ThreadsAssumption, OwnersAssumption, LeaseIdsAssumption, MaxSessionsAssumption

\* A claim takes the parked client under a number no call holds.
LEMMA ClaimFacts ==
    ASSUME WireTypeOK, NEW t \in Threads, NEW who \in Owners, NEW policy,
           Claim(t, who, policy)
    PROVE  /\ CanClaim(who, policy)
           /\ wire_owner' = who /\ wire_client' = 0 /\ sessions' = sessions
           /\ \E id \in LeaseIds :
                /\ \A u \in Threads : held[u].id # id
                /\ held' = [held EXCEPT ![t] =
                              [id |-> id, owner |-> who, session |-> wire_client]]
                /\ wire_lease' = id
  <1> DEFINE id == CHOOSE i \in FreshIds : TRUE
  <1>1. id \in FreshIds
    BY DEF Claim
  <1> QED
    BY <1>1 DEF Claim, FreshIds

\* Every action of the wire keeps the types.
LEMMA WireTypeStep ==
    ASSUME WireTypeOK, [WireNext]_wireVars
    PROVE  WireTypeOK'
  <1> USE DEF WireTypeOK
  <1>1. CASE Install
    BY <1>1 DEF Install
  <1>2. CASE Uninstall
    BY <1>2 DEF Uninstall
  <1>3. ASSUME NEW t \in Threads, NEW who \in Owners, NEW policy \in {"IdleOnly", "IdleOrOwn"},
               Claim(t, who, policy)
        PROVE  WireTypeOK'
    <2>1. PICK id \in LeaseIds :
             /\ held' = [held EXCEPT ![t] =
                           [id |-> id, owner |-> who, session |-> wire_client]]
             /\ wire_lease' = id
      BY <1>3, ClaimFacts
    <2>2. /\ CanClaim(who, policy)
          /\ wire_owner' = who /\ wire_client' = 0 /\ sessions' = sessions
      BY <1>3, ClaimFacts
    <2>3. [id |-> id, owner |-> who, session |-> wire_client] \in Leases
      BY <2>2 DEF CanClaim, Leases
    <2> QED
      BY <2>1, <2>2, <2>3
  <1>4. ASSUME NEW t \in Threads, NEW how, Restore(t, how)
        PROVE  WireTypeOK'
    <2>1. held[t].session \in 1..MaxSessions /\ held[t].owner \in Owners
      BY <1>4 DEF Restore, Holding, Leases, NoLease
    <2>2. NoLease \in Leases
      BY DEF Leases
    <2> QED
      BY <1>4, <2>1, <2>2 DEF Restore, Owners
  <1>5. ASSUME NEW s \in Stmts, ReadParked(s) \/ ReleaseReservation(s)
        PROVE  WireTypeOK'
    BY <1>5 DEF ReadParked, ReleaseReservation, Owners
  <1>6. CASE UNCHANGED wireVars
    BY <1>6 DEF wireVars
  <1> QED
    BY <1>1, <1>2, <1>3, <1>4, <1>5, <1>6 DEF WireNext

\* Whatever calls claim, return and reconnect in whatever order, a lease always
\* carries a client and an owner (ConnectionWire::claim, WireLease).
THEOREM WireTypeCorrect == WireSpec => []WireTypeOK
  <1>1. WireInit => WireTypeOK
    BY DEF WireInit, WireTypeOK, Leases
  <1> QED
    BY <1>1, WireTypeStep, PTL DEF WireSpec

---------------------------------------------------------------------------
(* The invariant.                                                          *)

\* A call that returns a current lease is the one LeaseIsHeld speaks of, so its
\* client is the newest session's and its owner the recorded one.
LEMMA CurrentIsNewest ==
    ASSUME WireTypeOK, WireInv, NEW t \in Threads, Holding(t), Current(t)
    PROVE  /\ wire_lease # 0
           /\ held[t].session = sessions /\ held[t].owner = wire_owner
           /\ \A u \in Threads \ {t} : Holding(u) => held[u].session < sessions
  <1>1. wire_lease # 0
    BY DEF Holding, Current
  <1>2. PICK h \in Threads :
           /\ held[h] = [id |-> wire_lease, owner |-> wire_owner, session |-> sessions]
           /\ \A u \in Threads \ {h} : held[u].id # wire_lease
    BY <1>1 DEF WireInv, LeaseIsHeld
  <1>3. t = h
    BY <1>2 DEF Current
  <1>4. ASSUME NEW u \in Threads \ {t}, Holding(u)
        PROVE  held[u].session < sessions
    BY <1>1, <1>2, <1>3, <1>4 DEF WireInv, HeldIsOlder, Current
  <1> QED
    BY <1>1, <1>2, <1>3, <1>4

\* Every action of the wire preserves the invariant.
LEMMA WireInvStep ==
    ASSUME WireTypeOK, WireInv, [WireNext]_wireVars
    PROVE  WireInv'
  <1>t. WireTypeOK'
    BY WireTypeStep
  <1>1. CASE Install
    <2>1. \A t \in Threads : Holding(t) => held[t].session < sessions + 1
      BY DEF WireInv, HeldIsOlder, WireTypeOK, Holding, Leases, NoLease
    <2>2. \A t \in Threads : Holding(t) => held[t].session \in Nat
      BY DEF WireTypeOK, Leases, Holding, NoLease
    <2>3. /\ wire_client' = sessions + 1 /\ wire_owner' = NoOwner /\ wire_lease' = 0
          /\ sessions' = sessions + 1 /\ held' = held /\ sessions \in Nat
      BY <1>1 DEF Install, WireTypeOK
    <2>4. WireDocInvariants' /\ LeaseIsHeld' /\ LeasesDistinct'
      BY <2>3 DEF WireInv, WireDocInvariants, LeaseIsHeld, LeasesDistinct, Holding
    <2>5. ParkedIsLive' /\ HeldIsOlder'
      BY <2>1, <2>2, <2>3 DEF ParkedIsLive, HeldIsOlder, Holding
    <2> QED
      BY <2>4, <2>5 DEF WireInv
  <1>2. CASE Uninstall
    BY <1>2 DEF Uninstall, WireInv, WireDocInvariants, LeaseIsHeld, ParkedIsLive,
       LeasesDistinct, HeldIsOlder, Holding, Current
  <1>3. ASSUME NEW t \in Threads, NEW who \in Owners, NEW policy \in {"IdleOnly", "IdleOrOwn"},
               Claim(t, who, policy)
        PROVE  WireInv'
    <2>1. PICK id \in LeaseIds :
             /\ \A u \in Threads : held[u].id # id
             /\ held' = [held EXCEPT ![t] =
                           [id |-> id, owner |-> who, session |-> wire_client]]
             /\ wire_lease' = id
      BY <1>3, ClaimFacts
    <2>2. /\ CanClaim(who, policy)
          /\ wire_owner' = who /\ wire_client' = 0 /\ sessions' = sessions
      BY <1>3, ClaimFacts
    <2>3. /\ wire_client = sessions /\ id # 0 /\ who # NoOwner
          /\ \A u \in Threads : Holding(u) => held[u].session < sessions
      BY <2>2 DEF CanClaim, WireInv, ParkedIsLive, Owners
    <2>4. /\ held'[t] = [id |-> id, owner |-> who, session |-> sessions]
          /\ \A u \in Threads \ {t} : held'[u] = held[u]
      BY <2>1, <2>3 DEF WireTypeOK
    <2>5. WireDocInvariants' /\ ParkedIsLive'
      BY <2>1, <2>2, <2>3 DEF WireDocInvariants, ParkedIsLive
    <2>6. LeaseIsHeld'
      BY <2>1, <2>2, <2>4 DEF LeaseIsHeld
    <2>7. LeasesDistinct'
      BY <2>1, <2>4 DEF WireInv, LeasesDistinct, Holding
    <2>8. HeldIsOlder'
      <3>1. \A u \in Threads : Holding(u) => held[u].session \in Nat
        BY DEF WireTypeOK, Leases, Holding, NoLease
      <3> QED
        BY <2>1, <2>2, <2>3, <2>4, <3>1 DEF HeldIsOlder, Holding, Current, WireTypeOK
    <2> QED
      BY <2>5, <2>6, <2>7, <2>8 DEF WireInv
  <1>4. ASSUME NEW t \in Threads, NEW how, Restore(t, how)
        PROVE  WireInv'
    <2>1. /\ Holding(t) /\ sessions' = sessions
          /\ held'[t] = NoLease /\ \A u \in Threads \ {t} : held'[u] = held[u]
      BY <1>4 DEF Restore, WireTypeOK
    <2>2. LeasesDistinct'
      BY <2>1 DEF WireInv, LeasesDistinct, Holding, NoLease
    <2>3. CASE Current(t)
      <3>1. /\ wire_lease' = 0 /\ wire_client' = sessions
            /\ wire_owner' \in Stmts \cup {NoOwner}
        BY <1>4, <2>1, <2>3, CurrentIsNewest DEF Restore
      <3>2. \A u \in Threads \ {t} : Holding(u) => held[u].session < sessions
        BY <2>1, <2>3, CurrentIsNewest
      <3>3. sessions # 0
        BY <2>1, <2>3, CurrentIsNewest DEF WireTypeOK, Leases, Holding, NoLease
      <3>4. WireDocInvariants' /\ LeaseIsHeld'
        BY <3>1, <3>3 DEF WireDocInvariants, LeaseIsHeld
      <3>5. ParkedIsLive' /\ HeldIsOlder'
        BY <2>1, <3>1, <3>2 DEF ParkedIsLive, HeldIsOlder, Holding, NoLease, WireTypeOK, Leases
      <3> QED
        BY <2>2, <3>4, <3>5 DEF WireInv
    <2>4. CASE ~Current(t)
      <3>1. UNCHANGED <<wire_lease, wire_client, wire_owner>>
        BY <1>4, <2>4 DEF Restore
      <3>2. WireDocInvariants' /\ ParkedIsLive' /\ HeldIsOlder'
        BY <2>1, <3>1 DEF WireInv, WireDocInvariants, ParkedIsLive, HeldIsOlder, Holding,
           NoLease, Current
      <3>3. LeaseIsHeld'
        BY <2>1, <2>4, <3>1 DEF WireInv, LeaseIsHeld, Current, NoLease
      <3> QED
        BY <2>2, <3>2, <3>3 DEF WireInv
    <2> QED
      BY <2>3, <2>4
  <1>5. ASSUME NEW s \in Stmts, ReadParked(s) \/ ReleaseReservation(s)
        PROVE  WireInv'
    BY <1>5 DEF ReadParked, ReleaseReservation, CanClaim, WireInv, WireDocInvariants,
       LeaseIsHeld, ParkedIsLive, LeasesDistinct, HeldIsOlder, Holding, Current
  <1>6. CASE UNCHANGED wireVars
    BY <1>6 DEF wireVars, WireInv, WireDocInvariants, LeaseIsHeld, ParkedIsLive,
       LeasesDistinct, HeldIsOlder, Holding, Current
  <1> QED
    BY <1>1, <1>2, <1>3, <1>4, <1>5, <1>6 DEF WireNext

\* The session's client is in exactly one place, the invariants of the doc
\* comment on ConnectionWire included.
THEOREM WireCorrect == WireSpec => []WireInv
  <1>1. WireInit => WireInv
    BY DEF WireInit, WireInv, WireDocInvariants, LeaseIsHeld, ParkedIsLive,
       LeasesDistinct, HeldIsOlder, Holding, NoLease
  <1> QED
    BY <1>1, WireTypeCorrect, WireInvStep, PTL DEF WireSpec

---------------------------------------------------------------------------
(* The refinement.                                                         *)

\* What the mapping evaluates to: the call with the current lease is the holder
\* and the live session is the newest one.
LEMMA MappedNow ==
    ASSUME WireTypeOK, WireInv
    PROVE  /\ wire_lease = 0 => LiveSession = wire_client /\ LiveHolder = NoThread
           /\ wire_lease # 0 => /\ LiveSession = sessions /\ sessions # 0
                               /\ LiveHolder \in Threads /\ held[LiveHolder].id = wire_lease
                               /\ \A t \in Threads : held[t].id = wire_lease => t = LiveHolder
  <1>1. CASE wire_lease = 0
    BY <1>1 DEF LiveSession, LiveHolder
  <1>2. CASE wire_lease # 0
    <2>1. PICK h \in Threads :
             /\ held[h] = [id |-> wire_lease, owner |-> wire_owner, session |-> sessions]
             /\ \A u \in Threads \ {h} : held[u].id # wire_lease
      BY <1>2 DEF WireInv, LeaseIsHeld
    <2>2. LeaseHolder \in Threads /\ held[LeaseHolder].id = wire_lease
      BY <2>1 DEF LeaseHolder
    <2>3. LeaseHolder = h
      BY <2>1, <2>2
    <2>4. sessions # 0
      BY <1>2, <2>1 DEF WireTypeOK, Leases, NoLease
    <2> QED
      BY <1>2, <2>1, <2>3, <2>4 DEF LiveSession, LiveHolder
  <1> QED
    BY <1>1, <1>2

\* The same after a step.
LEMMA MappedNext ==
    ASSUME WireTypeOK', WireInv'
    PROVE  /\ wire_lease' = 0 => LiveSession' = wire_client' /\ LiveHolder' = NoThread
           /\ wire_lease' # 0 => /\ LiveSession' = sessions' /\ sessions' # 0
                                /\ LiveHolder' \in Threads /\ held'[LiveHolder'].id = wire_lease'
                                /\ \A t \in Threads : held'[t].id = wire_lease' => t = LiveHolder'
  <1>1. CASE wire_lease' = 0
    BY <1>1 DEF LiveSession, LiveHolder
  <1>2. CASE wire_lease' # 0
    <2>1. PICK h \in Threads :
             /\ held'[h] = [id |-> wire_lease', owner |-> wire_owner', session |-> sessions']
             /\ \A u \in Threads \ {h} : held'[u].id # wire_lease'
      BY <1>2 DEF WireInv, LeaseIsHeld
    <2>2. LeaseHolder' \in Threads /\ held'[LeaseHolder'].id = wire_lease'
      BY <2>1 DEF LeaseHolder
    <2>3. LeaseHolder' = h
      BY <2>1, <2>2
    <2>4. sessions' # 0
      BY <1>2, <2>1 DEF WireTypeOK, Leases, NoLease
    <2> QED
      BY <1>2, <2>1, <2>3, <2>4 DEF LiveSession, LiveHolder
  <1> QED
    BY <1>1, <1>2

\* Every step of the wire is a step of ExclusiveClient or leaves it unchanged.
LEMMA WireRefinesStep ==
    ASSUME WireTypeOK, WireInv, [WireNext]_wireVars
    PROVE  [Exclusive!Next]_(Exclusive!vars)
  <1>t. WireTypeOK' /\ WireInv'
    BY WireTypeStep, WireInvStep
  <1>1. CASE Install
    <2>1. /\ wire_lease = 0 /\ wire_client = 0 /\ wire_lease' = 0
          /\ wire_client' = sessions + 1 /\ sessions' = sessions + 1 /\ wire_owner' = NoOwner
      BY <1>1 DEF Install
    <2>2. wire_owner = NoOwner
      BY <2>1 DEF WireInv, WireDocInvariants
    <2>3. Exclusive!Connect
      BY <1>t, <2>1, <2>2, MappedNow, MappedNext DEF Exclusive!Connect
    <2> QED
      BY <2>3 DEF Exclusive!Next
  <1>2. CASE (wire_client # 0 \/ wire_lease # 0) /\ Uninstall
    <2>1. wire_lease' = 0 /\ wire_client' = 0 /\ wire_owner' = NoOwner /\ sessions' = sessions
      BY <1>2 DEF Uninstall
    <2>2. LiveSession # 0
      BY <1>2, MappedNow
    <2>3. Exclusive!Disconnect
      BY <1>t, <2>1, <2>2, MappedNext DEF Exclusive!Disconnect
    <2> QED
      BY <2>3 DEF Exclusive!Next
  <1>3. ASSUME NEW t \in Threads, NEW who \in Owners, NEW policy \in {"IdleOnly", "IdleOrOwn"},
               Claim(t, who, policy)
        PROVE  Exclusive!Next
    <2>1. PICK id \in LeaseIds :
             /\ held' = [held EXCEPT ![t] =
                           [id |-> id, owner |-> who, session |-> wire_client]]
             /\ wire_lease' = id
      BY <1>3, ClaimFacts
    <2>2. /\ CanClaim(who, policy)
          /\ wire_owner' = who /\ wire_client' = 0 /\ sessions' = sessions
      BY <1>3, ClaimFacts
    <2>3. /\ wire_lease = 0 /\ wire_client # 0 /\ wire_owner \in {NoOwner, who}
          /\ wire_client = sessions /\ wire_lease' # 0
      BY <2>1, <2>2 DEF CanClaim, WireInv, ParkedIsLive
    <2>4. held'[t].id = wire_lease'
      BY <2>1 DEF WireTypeOK
    <2>5. LiveHolder' = t /\ LiveSession' = LiveSession /\ LiveSession # 0
      BY <1>t, <2>2, <2>3, <2>4, MappedNow, MappedNext
    <2>6. Exclusive!CheckOut(t, who)
      BY <2>2, <2>3, <2>5, MappedNow DEF Exclusive!CheckOut
    <2> QED
      BY <2>6 DEF Exclusive!Next, Owners
  <1>4. ASSUME NEW t \in Threads, NEW how, Restore(t, how)
        PROVE  [Exclusive!Next]_(Exclusive!vars)
    <2>1. Holding(t) /\ sessions' = sessions
      BY <1>4 DEF Restore
    <2>2. CASE Current(t)
      <3>1. /\ wire_lease # 0 /\ LiveHolder = t /\ LiveSession = sessions
            /\ held[t].session = sessions /\ held[t].owner = wire_owner
        BY <2>1, <2>2, CurrentIsNewest, MappedNow DEF Current
      <3>2. /\ wire_lease' = 0 /\ wire_client' = sessions
            /\ wire_owner' = NoOwner \/ (wire_owner \in Stmts /\ wire_owner' = wire_owner)
        BY <1>4, <2>2, <3>1 DEF Restore
      <3>3. Exclusive!CheckIn(t)
        BY <1>t, <2>1, <3>1, <3>2, MappedNext DEF Exclusive!CheckIn
      <3> QED
        BY <3>3 DEF Exclusive!Next
    <2>3. CASE ~Current(t)
      <3>1. UNCHANGED <<wire_lease, wire_client, wire_owner>>
        BY <1>4, <2>3 DEF Restore
      <3>2. \A u \in Threads : u # t => held'[u] = held[u]
        BY <1>4 DEF Restore, WireTypeOK
      <3>3. LiveHolder' = LiveHolder
        <4>1. CASE wire_lease = 0
          BY <1>t, <3>1, <4>1, MappedNow, MappedNext
        <4>2. CASE wire_lease # 0
          <5>1. LiveHolder \in Threads /\ held[LiveHolder].id = wire_lease /\ LiveHolder # t
            BY <2>3, <4>2, MappedNow DEF Current
          <5>2. held'[LiveHolder].id = wire_lease'
            BY <3>1, <3>2, <5>1
          <5> QED
            BY <1>t, <3>1, <4>2, <5>1, <5>2, MappedNext
        <4> QED
          BY <4>1, <4>2
      <3>4. LiveSession' = LiveSession
        BY <1>t, <2>1, <3>1, MappedNow, MappedNext
      <3> QED
        BY <2>1, <3>1, <3>3, <3>4 DEF Exclusive!vars
    <2> QED
      BY <2>2, <2>3
  <1>5. ASSUME NEW s \in Stmts, ReadParked(s)
        PROVE  Exclusive!Next
    <2>1. /\ wire_lease = 0 /\ wire_client # 0 /\ wire_owner \in {NoOwner, s}
          /\ wire_owner' = s /\ UNCHANGED <<wire_lease, wire_client, sessions>>
      BY <1>5 DEF ReadParked, CanClaim
    <2>2. Exclusive!Reserve(s)
      BY <1>t, <2>1, MappedNow, MappedNext DEF Exclusive!Reserve
    <2> QED
      BY <2>2 DEF Exclusive!Next
  <1>6. ASSUME NEW s \in Stmts, ReleaseReservation(s)
        PROVE  Exclusive!Next
    <2>1. /\ wire_lease = 0 /\ wire_owner' = NoOwner
          /\ UNCHANGED <<wire_lease, wire_client, sessions>>
      BY <1>6 DEF ReleaseReservation
    <2>2. Exclusive!Unreserve
      BY <1>t, <2>1, MappedNow, MappedNext DEF Exclusive!Unreserve
    <2> QED
      BY <2>2 DEF Exclusive!Next
  <1>7. CASE UNCHANGED wireVars
    BY <1>7 DEF wireVars, LiveSession, LiveHolder, LeaseHolder, Exclusive!vars
  <1> QED
    BY <1>1, <1>2, <1>3, <1>4, <1>5, <1>6, <1>7 DEF WireNext

\* The lease numbers of wire.rs implement an exclusive client: one call at a
\* time drives the live session, reservations are honoured, and a client whose
\* session SQLDisconnect has torn down never comes back.
THEOREM WireRefines == WireSpec => ClientExclusive
  <1>1. WireInit => Exclusive!Init
    BY DEF WireInit, Exclusive!Init, LiveSession, LiveHolder
  <1> QED
    BY <1>1, WireTypeCorrect, WireCorrect, WireRefinesStep, PTL
       DEF WireSpec, ClientExclusive, Exclusive!Spec
=============================================================================
