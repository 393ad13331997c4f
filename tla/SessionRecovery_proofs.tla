---------------------- MODULE SessionRecovery_proofs ----------------------
(***************************************************************************)
(* Proofs about SessionRecovery, for every set of session states, values   *)
(* and databases, every retry policy and every number of commands and      *)
(* losses.                                                                 *)
(***************************************************************************)
EXTENDS SessionRecovery, SequenceTheorems, TLAPS

---------------------------------------------------------------------------
(* Types.                                                                  *)

Sessions == [state : [Ids -> Vals], fixed : SUBSET Ids, off : BOOLEAN, db : Databases,
             txn : BOOLEAN]
StateRecords == [value : Vals, recoverable : BOOLEAN, set : BOOLEAN]
Tables == [initial : [Ids -> Vals], delta : [Ids -> StateRecords], off : BOOLEAN]
Commands == [at : {"Check", "Attempt", "Retry", "Sleep"}, work : Works, timeout : Timeouts,
             deadline : Nat, attempt : Nat, wake : Nat,
             initial : [Ids -> Vals], delta : [Ids -> StateRecords], db : Databases]

ResetToken == [do |-> "Reset"]

\* A response is what one request left to read: its own token, behind the
\* acknowledgement of the reset it carried.
ResponseShape ==
    response = <<>> \/ \E w \in Works : response = <<w>> \/ response = <<ResetToken, w>>

SessionTypes == server \in Sessions /\ link \in {"Up", "Down"} /\ ResponseShape
ClientTypes ==
    /\ table \in Tables
    /\ settings \in [database : Databases, login_database : Databases]
    /\ execution \in [open : BOOLEAN, txn : BOOLEAN]
    /\ negotiated \in BOOLEAN /\ known_dead \in BOOLEAN /\ armed \in BOOLEAN
    /\ retired \in BOOLEAN /\ lost \in BOOLEAN /\ rebased \in BOOLEAN
Places == [at : {"Check", "Attempt", "Retry", "Sleep"}, attempt : Nat]
LoopTypes ==
    command \in Commands \cup {Idle} /\ clock \in Nat /\ cancelled \in SUBSET Places

Types == SessionTypes /\ ClientTypes /\ LoopTypes

---------------------------------------------------------------------------
(* The loop.                                                               *)

\* The recovery loop stays inside the command's budget.
LoopBudget ==
    IF command = Idle THEN clock = 0
    ELSE
        /\ command.deadline = ReconnectTimeout(command.timeout)
        /\ clock <= command.deadline
        /\ command.at = "Sleep" => clock <= command.wake /\ command.wake <= command.deadline

\* Where a cancelled loop can be: in the wait it was in, or on the way from it
\* to the next one, which does not begin.
CancelInv ==
    IF command = Idle THEN cancelled = {}
    ELSE \A c \in cancelled :
            /\ command.at \in {"Attempt", "Sleep"} =>
                  command.at = c.at /\ command.attempt = c.attempt
            /\ command.at = "Check" => command.attempt = c.attempt
            /\ command.at = "Retry" => command.attempt \in {c.attempt, c.attempt + 1}

\* While the loop runs, the client is the one whose state was frozen.
LoopFrozen ==
    command # Idle =>
        /\ command.initial = table.initial /\ command.delta = table.delta
        /\ command.db = settings.database
        /\ link = "Down" /\ negotiated
        /\ ~table.off /\ \A i \in Ids : table.delta[i].recoverable
        /\ ~execution.open /\ ~execution.txn

---------------------------------------------------------------------------
(* The mirror.                                                             *)

\* The client's tracking of the session s: table, database and transaction.
Mirrors(t, db, tx, moved, s) ==
    /\ tx = s.txn
    /\ s.off => t.off
    /\ ~moved => db = s.db
    /\ ~t.off =>
         \A i \in Ids :
            /\ (IF t.delta[i].set THEN t.delta[i].value ELSE t.initial[i]) = s.state[i]
            /\ t.delta[i].recoverable <=> i \notin s.fixed

\* What reading the token of w makes of the table, the database and the flag.
TableAfter(t, w) ==
    CASE w.do = "Set" -> [t EXCEPT !.delta[w.id] = Record(w.value, w.recoverable)]
      [] w.do = "Off" -> [t EXCEPT !.off = TRUE]
      [] OTHER -> t
DbAfter(db, w) == IF w.do = "Use" THEN w.db ELSE db
TxnAfter(tx, w) == IF w.do = "Txn" THEN w.on ELSE tx

MirrorsAfter(t, db, w) ==
    Mirrors(TableAfter(t, w), DbAfter(db, w), TxnAfter(execution.txn, w),
            rebased /\ w.do # "Use", server)

ResetTable == [table EXCEPT !.delta = EmptyDelta]

\* Tokens are unread only in an open batch on a transport in use; a client that
\* was retired or lost tokens has given its transport up.
ReadingOpen ==
    /\ response # <<>> => execution.open /\ ~known_dead
    /\ execution.open => command = Idle
    /\ retired => known_dead /\ ~negotiated /\ command = Idle
    /\ lost => known_dead
    /\ table.initial = [i \in Ids |-> BaseVal]

\* An armed reset has already been applied to the mirror.
ArmedApplied ==
    armed =>
        /\ table.delta = EmptyDelta /\ ~execution.txn
        /\ settings.database = settings.login_database
        /\ ~rebased => settings.login_database = LoginDb

\* Reading what is left of the response makes the mirror the session.
MirrorInv ==
    ~retired /\ ~lost =>
        /\ response = <<>> /\ ~armed =>
             Mirrors(table, settings.database, execution.txn, rebased, server)
        /\ response = <<>> /\ armed => (server.off => table.off)
        /\ \A w \in Works : response = <<w>> =>
             ~armed /\ MirrorsAfter(table, settings.database, w)
        /\ \A w \in Works : response = <<ResetToken, w>> =>
             armed /\ MirrorsAfter(ResetTable, settings.login_database, w)

---------------------------------------------------------------------------
(* Lemmas about the operators.                                             *)

\* Responses of one and of two tokens.
LEMMA Pair ==
    ASSUME NEW r, NEW w
    PROVE  <<r>> \o <<w>> = <<r, w>>
<1>. DEFINE S == {r, w}  c == <<r>> \o <<w>>  d == <<r, w>>
<1>1. <<r>> \in Seq(S) /\ <<w>> \in Seq(S) /\ d \in Seq(S)
  OBVIOUS
<1>2. c \in Seq(S) /\ Len(c) = 2 /\ c[1] = r /\ c[2] = w
  BY <1>1
<1>3. Len(c) = Len(d) /\ \A i \in 1 .. Len(c) : c[i] = d[i]
  <2>1. Len(d) = 2 /\ d[1] = r /\ d[2] = w
    OBVIOUS
  <2>. HIDE DEF c, d
  <2>. QED
    BY <1>2, <2>1
<1>. HIDE DEF c, d
<1>4. c = d
  BY <1>1, <1>2, <1>3, SeqEqual
<1>. QED
  BY <1>4 DEF c, d

\* The sequences a response's tokens make.
LEMMA Tokens ==
    ASSUME NEW r, NEW w
    PROVE  /\ Head(<<w>>) = w /\ Tail(<<w>>) = <<>> /\ <<w>> # <<>> /\ Len(<<w>>) = 1
           /\ Head(<<r, w>>) = r /\ Tail(<<r, w>>) = <<w>> /\ <<r, w>> # <<>>
           /\ Len(<<r, w>>) = 2 /\ <<>> \o <<w>> = <<w>> /\ <<r>> \o <<w>> = <<r, w>>
<1>1. Head(<<w>>) = w /\ Tail(<<w>>) = <<>> /\ <<w>> # <<>> /\ Len(<<w>>) = 1
  OBVIOUS
<1>2. Head(<<r, w>>) = r /\ Tail(<<r, w>>) = <<w>>
  OBVIOUS
<1>3. <<r, w>> # <<>> /\ Len(<<r, w>>) = 2 /\ <<>> \o <<w>> = <<w>>
  OBVIOUS
<1>. QED
  BY <1>1, <1>2, <1>3, Pair

\* Token sequences of different lengths differ.
LEMMA TokensDiffer ==
    ASSUME NEW r, NEW w, NEW v
    PROVE  <<w>> # <<r, v>> /\ (<<w>> = <<v>> => w = v)
           /\ (<<r, w>> = <<r, v>> => w = v)
OBVIOUS

\* A work is one of four kinds, with the fields of its kind.
LEMMA WorkKinds ==
    ASSUME NEW w \in Works
    PROVE  \/ w.do = "Set" /\ w.id \in Ids /\ w.value \in Vals /\ w.recoverable \in BOOLEAN
           \/ w.do = "Use" /\ w.db \in Databases
           \/ w.do = "Txn" /\ w.on \in BOOLEAN
           \/ w.do = "Off"
BY DEF Works

\* The records the session state is made of are of their types.
LEMMA RecordType ==
    ASSUME NEW v \in Vals, NEW r \in BOOLEAN
    PROVE  Record(v, r) \in StateRecords /\ NoRecord \in StateRecords
BY ValueAssumption DEF Record, NoRecord, StateRecords

\* The fields of a record.
LEMMA RecordFields ==
    ASSUME NEW v
    PROVE  /\ Record(v, TRUE).value = v /\ Record(v, TRUE).recoverable /\ Record(v, TRUE).set
           /\ Record(v, FALSE).value = v /\ ~Record(v, FALSE).recoverable /\ Record(v, FALSE).set
BY DEF Record

\* An empty delta is a table.
LEMMA EmptyDeltaType == EmptyDelta \in [Ids -> StateRecords]
BY ValueAssumption DEF EmptyDelta, NoRecord, StateRecords

\* A session after login is of its type ...
LEMMA FreshType ==
    ASSUME NEW state \in [Ids -> Vals], NEW db \in Databases
    PROVE  FreshSession(state, db) \in Sessions
BY DEF FreshSession, Sessions

\* ... and so is one that statements have worked in, ...
LEMMA WorkedType ==
    ASSUME NEW s \in Sessions, NEW w \in Works
    PROVE  Worked(s, w) \in Sessions
<1>1. CASE w.do = "Set"
  BY <1>1, WorkKinds DEF Worked, Sessions
<1>2. CASE w.do = "Use"
  BY <1>2, WorkKinds DEF Worked, Sessions
<1>3. CASE w.do = "Txn"
  BY <1>3, WorkKinds DEF Worked, Sessions
<1>4. CASE w.do = "Off"
  BY <1>4, WorkKinds DEF Worked, Sessions
<1>. QED
  BY <1>1, <1>2, <1>3, <1>4, WorkKinds

\* ... one that was reset, ...
LEMMA ResetSessionType ==
    ASSUME NEW s \in Sessions
    PROVE  ResetSession(s) \in Sessions
BY ValueAssumption DEF ResetSession, FreshSession, Sessions

\* ... and one that a recovery login rebuilt.
LEMMA RebuiltType ==
    ASSUME NEW initial \in [Ids -> Vals], NEW delta \in [Ids -> StateRecords], NEW db \in Databases
    PROVE  Rebuilt(initial, delta, db) \in Sessions
BY DEF Rebuilt, FreshSession, Sessions, StateRecords

\* ... as the login's tokens describe it.
LEMMA DescribedType ==
    ASSUME NEW s \in Sessions, NEW fixed \in SUBSET Ids, NEW off \in BOOLEAN
    PROVE  /\ Described(s, fixed, off) \in Sessions /\ Described(s, fixed, off).db = s.db
           /\ Described(s, fixed, off).state = s.state /\ Described(s, fixed, off).txn = s.txn
           /\ Described(s, fixed, off).fixed = fixed /\ Described(s, fixed, off).off = off
BY DEF Described, Sessions

\* A response's tokens leave a table.
LEMMA TableAfterType ==
    ASSUME NEW t \in Tables, NEW w \in Works
    PROVE  TableAfter(t, w) \in Tables
<1>1. CASE w.do = "Set"
  BY <1>1, WorkKinds, RecordType DEF TableAfter, Tables
<1>2. CASE w.do # "Set"
  BY <1>2, WorkKinds DEF TableAfter, Tables
<1>. QED
  BY <1>1, <1>2

\* An acknowledgement leaves a table.
LEMMA AppliedAckType ==
    ASSUME NEW t \in Tables, NEW ack \in Acks, NEW s \in Sessions
    PROVE  AppliedAck(t, ack, s) \in Tables
BY EmptyDeltaType DEF AppliedAck, Acks, Tables, Sessions, Record, StateRecords

\* So do the tokens of a login.
LEMMA AppliedTokensType ==
    ASSUME NEW t \in Tables, NEW told \in SUBSET Ids, NEW s \in Sessions
    PROVE  AppliedTokens(t, told, s) \in Tables
BY DEF AppliedTokens, Tables, Sessions, Record, StateRecords

\* The clock of the retry loop stays a number.
LEMMA TicksType ==
    ASSUME NEW n \in Nat
    PROVE  Ticks(n) \in Nat
BY TimeAssumption DEF Ticks

\* The mirror follows the session through the work of a request.
LEMMA WorkedMirrors ==
    ASSUME NEW t \in Tables, NEW db, NEW tx, NEW moved \in BOOLEAN, NEW s \in Sessions,
           NEW w \in Works, Mirrors(t, db, tx, moved, s)
    PROVE  Mirrors(TableAfter(t, w), DbAfter(db, w), TxnAfter(tx, w),
                   moved /\ w.do # "Use", Worked(s, w))
<1>1. CASE w.do = "Set"
  BY <1>1, WorkKinds
     DEF Mirrors, TableAfter, DbAfter, TxnAfter, Worked, Tables, Sessions, Record, StateRecords
<1>2. CASE w.do = "Use"
  BY <1>2, WorkKinds DEF Mirrors, TableAfter, DbAfter, TxnAfter, Worked, Tables, Sessions
<1>3. CASE w.do = "Txn"
  BY <1>3, WorkKinds DEF Mirrors, TableAfter, DbAfter, TxnAfter, Worked, Tables, Sessions
<1>4. CASE w.do = "Off"
  BY <1>4, WorkKinds DEF Mirrors, TableAfter, DbAfter, TxnAfter, Worked, Tables, Sessions
<1>. QED
  BY <1>1, <1>2, <1>3, <1>4, WorkKinds

\* The mirror of a session rebuilt from a recoverable table is that session,
\* whatever the login acknowledged and whatever its tokens said of it.
LEMMA RebuiltMirrors ==
    ASSUME NEW t \in Tables, NEW db \in Databases, NEW ack \in Acks,
           NEW told \in SUBSET Ids, NEW fixed \in SUBSET told, NEW off \in BOOLEAN,
           ~t.off, \A i \in Ids : t.delta[i].recoverable
    PROVE  LET s == Described(Rebuilt(t.initial, t.delta, db), fixed, off)
           IN  Mirrors(AppliedTokens(AppliedAck(t, ack, s), told, s), db, FALSE, FALSE, s)
<1>. DEFINE r == Rebuilt(t.initial, t.delta, db)  s == Described(r, fixed, off)
            a == AppliedAck(t, ack, s)
<1>1. r \in Sessions /\ r.db = db /\ ~r.txn
      /\ \A i \in Ids : r.state[i] = IF t.delta[i].set THEN t.delta[i].value ELSE t.initial[i]
  BY RebuiltType DEF Rebuilt, FreshSession, Tables
<1>. HIDE DEF r
<1>2. /\ s \in Sessions /\ s.db = db /\ s.txn = r.txn
      /\ s.state = r.state /\ s.fixed = fixed /\ s.off = off
  BY <1>1, DescribedType
<1>. HIDE DEF s
<1>3. /\ a \in Tables /\ a.initial = t.initial
      /\ ~a.off => \A i \in Ids :
            /\ (IF a.delta[i].set THEN a.delta[i].value ELSE a.initial[i]) = s.state[i]
            /\ a.delta[i].recoverable
  <2>1. CASE ack = "None"
    BY <1>1, <1>2, <2>1 DEF AppliedAck, Tables
  <2>2. CASE ack = "States"
    <3>1. a = [t EXCEPT !.delta = [i \in Ids |-> Record(s.state[i], TRUE)]]
      BY <2>2 DEF AppliedAck
    <3>2. a.initial = t.initial /\ \A i \in Ids : a.delta[i] = Record(s.state[i], TRUE)
      BY <3>1 DEF Tables
    <3>3. a \in Tables
      BY <1>2, AppliedAckType
    <3>. HIDE DEF a
    <3>. QED
      BY <3>2, <3>3, RecordFields
  <2>3. CASE ack = "Malformed"
    BY <1>2, <2>3, AppliedAckType DEF AppliedAck, Tables
  <2>. QED
    BY <2>1, <2>2, <2>3 DEF Acks
<1>. HIDE DEF a
<1>4. Mirrors(AppliedTokens(a, told, s), db, FALSE, FALSE, s)
  <2>1. s.txn = FALSE
    BY <1>1, <1>2 DEF Sessions
  <2>2. /\ AppliedTokens(a, told, s).off = (a.off \/ s.off)
        /\ AppliedTokens(a, told, s).initial = a.initial
        /\ \A i \in Ids : AppliedTokens(a, told, s).delta[i] =
              IF i \in told THEN Record(s.state[i], i \notin s.fixed) ELSE a.delta[i]
    BY <1>3 DEF AppliedTokens, Tables
  <2>3. ASSUME ~a.off, NEW i \in Ids
        PROVE  LET d == AppliedTokens(a, told, s).delta[i]
               IN  /\ (IF d.set THEN d.value ELSE a.initial[i]) = s.state[i]
                   /\ d.recoverable <=> i \notin s.fixed
    <3>1. CASE i \in told
      <4>1. AppliedTokens(a, told, s).delta[i] = Record(s.state[i], i \notin s.fixed)
        BY <2>2, <3>1
      <4>2. CASE i \in s.fixed
        <5>1. AppliedTokens(a, told, s).delta[i] = Record(s.state[i], FALSE)
          BY <4>1, <4>2
        <5>. QED
          BY <4>2, <5>1, RecordFields
      <4>3. CASE i \notin s.fixed
        <5>1. AppliedTokens(a, told, s).delta[i] = Record(s.state[i], TRUE)
          BY <4>1, <4>3
        <5>. QED
          BY <4>3, <5>1, RecordFields
      <4>. QED
        BY <4>2, <4>3
    <3>2. CASE i \notin told
      BY <1>2, <1>3, <2>2, <2>3, <3>2
    <3>. QED
      BY <3>1, <3>2
  <2>. QED
    BY <1>2, <2>1, <2>2, <2>3 DEF Mirrors
<1>. QED
  BY <1>4 DEF a, s, r

\* The mirror with an armed reset applied is the session once it is reset.
LEMMA ResetMirrors ==
    ASSUME Types, ReadingOpen, ArmedApplied, armed, server.off => table.off
    PROVE  Mirrors(ResetTable, settings.login_database, execution.txn, rebased,
                   ResetSession(server))
BY DEF Types, SessionTypes, ClientTypes, ReadingOpen, ArmedApplied, Mirrors, ResetTable,
       ResetSession, FreshSession, Sessions, Tables, EmptyDelta, NoRecord

---------------------------------------------------------------------------
(* The types.                                                              *)

\* The session keeps its types.
LEMMA SessionTypesStep ==
    ASSUME Types, [Next]_vars
    PROVE  SessionTypes'
<1>. USE DEF Types, SessionTypes, ClientTypes, LoopTypes, ResponseShape,
             vars, session, client, tracking, loopRest
<1>1. ASSUME NEW w \in Works, NEW t \in Timeouts, Refuse(w, t) PROVE SessionTypes'
  BY <1>1 DEF Refuse, Begin
<1>2. ASSUME NEW w \in Works, NEW t \in Timeouts, Direct(w, t) PROVE SessionTypes'
  <2>1. CASE link = "Up" /\ armed
    <3>1. server' = Worked(ResetSession(server), w) /\ link' = link
      BY <1>2, <2>1 DEF Direct, Send
    <3>2. response' = <<ResetToken, w>>
      BY <1>2, <2>1, Tokens DEF Direct, Send, ResetToken
    <3>. QED
      BY <3>1, <3>2, WorkedType, ResetSessionType
  <2>2. CASE link = "Up" /\ ~armed
    <3>1. server' = Worked(server, w) /\ link' = link
      BY <1>2, <2>2 DEF Direct, Send
    <3>2. response' = <<w>>
      BY <1>2, <2>2, Tokens DEF Direct, Send
    <3>. QED
      BY <3>1, <3>2, WorkedType
  <2>3. CASE link # "Up"
    BY <1>2, <2>3 DEF Direct, Send
  <2>. QED
    BY <2>1, <2>2, <2>3
<1>3. ASSUME NEW w \in Works, NEW t \in Timeouts, Reconnect(w, t) PROVE SessionTypes'
  BY <1>3 DEF Reconnect, Begin
<1>4. CASE Read
  BY <1>4, Tokens DEF Read
<1>5. CASE ReadDone
  BY <1>5 DEF ReadDone
<1>6. CASE ReadFails
  BY <1>6 DEF ReadFails
<1>7. CASE Retire
  BY <1>7 DEF Retire
<1>8. CASE PrepareReset
  BY <1>8 DEF PrepareReset
<1>9. CASE Wait
  BY <1>9 DEF Wait, AnotherTry, At
<1>10. CASE SleepCancelled
  BY <1>10 DEF SleepCancelled, AnotherTry, At, Ended
<1>11. CASE Wake
  BY <1>11 DEF Wake, At, Goto
<1>12. CASE Attempt
  BY <1>12 DEF Attempt, At, Goto
<1>13. CASE GiveUp
  BY <1>13 DEF GiveUp, At, Ended
<1>14. CASE AttemptFails
  BY <1>14 DEF AttemptFails, At
<1>15. CASE ValidateFails
  BY <1>15 DEF ValidateFails, At, Ended
<1>16. CASE Adopt
  <2>1. command \in Commands
    BY <1>16 DEF Adopt, At, Idle
  <2>2. PICK ack \in Acks, told \in SUBSET Ids, off \in BOOLEAN : \E fixed \in SUBSET told :
           LET s == Described(Rebuilt(command.initial, command.delta, command.db), fixed, off)
           IN  \/ server' = Worked(s, command.work) /\ response' = <<command.work>>
               \/ server' = s /\ response' = <<>>
    BY <1>16 DEF Adopt
  <2>. QED
    BY <1>16, <2>1, <2>2, WorkedType, RebuiltType, DescribedType DEF Adopt, Commands
<1>17. CASE Tick
  BY <1>17 DEF Tick, At
<1>18. CASE Cancel
  BY <1>18 DEF Cancel
<1>19. CASE LinkFails
  BY <1>19 DEF LinkFails
<1>20. CASE UNCHANGED vars
  BY <1>20
<1>. QED
  BY <1>1, <1>2, <1>3, <1>4, <1>5, <1>6, <1>7, <1>8, <1>9, <1>10, <1>11, <1>12, <1>13, <1>14,
     <1>15, <1>16, <1>17, <1>18, <1>19, <1>20
     DEF Next

\* The client's tracking keeps its types.
LEMMA ClientTypesStep ==
    ASSUME Types, [Next]_vars
    PROVE  ClientTypes'
<1>. USE DEF Types, SessionTypes, ClientTypes, LoopTypes, ResponseShape,
             vars, session, client, tracking, loopRest
<1>1. ASSUME NEW w \in Works, NEW t \in Timeouts, Refuse(w, t) PROVE ClientTypes'
  BY <1>1 DEF Refuse, Begin
<1>2. ASSUME NEW w \in Works, NEW t \in Timeouts, Direct(w, t) PROVE ClientTypes'
  BY <1>2 DEF Direct, Begin, Send
<1>3. ASSUME NEW w \in Works, NEW t \in Timeouts, Reconnect(w, t) PROVE ClientTypes'
  BY <1>3 DEF Reconnect, Begin
<1>4. CASE Read
  <2>. DEFINE w == Head(response)
  <2>1. w \in Works \/ w = ResetToken
    BY <1>4, Tokens DEF Read
  <2>2. CASE w = ResetToken
    BY <1>4, <2>2, EmptyDeltaType DEF Read, ResetToken, Tables
  <2>3. CASE w \in Works
    <3>1. table' = TableAfter(table, w)
      BY <1>4, <2>3, WorkKinds DEF Read, TableAfter
    <3>. QED
      BY <1>4, <2>3, <3>1, WorkKinds, TableAfterType DEF Read
  <2>. QED
    BY <2>1, <2>2, <2>3
<1>5. CASE ReadDone
  BY <1>5 DEF ReadDone
<1>6. CASE ReadFails
  BY <1>6 DEF ReadFails
<1>7. CASE Retire
  BY <1>7 DEF Retire
<1>8. CASE PrepareReset
  BY <1>8, EmptyDeltaType DEF PrepareReset, Tables
<1>9. CASE Wait
  BY <1>9 DEF Wait, AnotherTry, At
<1>10. CASE SleepCancelled
  BY <1>10 DEF SleepCancelled, AnotherTry, At, Ended
<1>11. CASE Wake
  BY <1>11 DEF Wake, At, Goto
<1>12. CASE Attempt
  BY <1>12 DEF Attempt, At, Goto
<1>13. CASE GiveUp
  BY <1>13 DEF GiveUp, At, Ended
<1>14. CASE AttemptFails
  BY <1>14 DEF AttemptFails, At
<1>15. CASE ValidateFails
  BY <1>15 DEF ValidateFails, At, Ended
<1>16. CASE Adopt
  <2>1. command \in Commands
    BY <1>16 DEF Adopt, At, Idle
  <2>. PICK ack \in Acks, told \in SUBSET Ids, off \in BOOLEAN : \E fixed \in SUBSET told :
          LET s == Described(Rebuilt(command.initial, command.delta, command.db), fixed, off)
          IN  /\ table' = AppliedTokens(AppliedAck(table, ack, s), told, s)
              /\ settings' = [database |-> s.db, login_database |-> s.db]
    BY <1>16 DEF Adopt
  <2>. PICK fixed \in SUBSET told :
          LET s == Described(Rebuilt(command.initial, command.delta, command.db), fixed, off)
          IN  /\ table' = AppliedTokens(AppliedAck(table, ack, s), told, s)
              /\ settings' = [database |-> s.db, login_database |-> s.db]
    OBVIOUS
  <2>. DEFINE s == Described(Rebuilt(command.initial, command.delta, command.db), fixed, off)
  <2>2. s \in Sessions
    BY <2>1, RebuiltType, DescribedType DEF Commands
  <2>3. table' \in Tables
    <3>. HIDE DEF s
    <3>. QED
      BY <2>2, AppliedAckType, AppliedTokensType DEF s
  <2>4. settings' = [database |-> s.db, login_database |-> s.db] /\ s.db \in Databases
    BY <2>2 DEF Sessions
  <2>5. execution' \in [open : BOOLEAN, txn : BOOLEAN]
    BY <1>16 DEF Adopt
  <2>6. /\ negotiated' = negotiated /\ known_dead' = FALSE /\ armed' = FALSE
        /\ retired' = retired /\ lost' = FALSE /\ rebased' = FALSE
    BY <1>16 DEF Adopt, At
  <2>. HIDE DEF s
  <2>7. settings' \in [database : Databases, login_database : Databases]
    BY <2>4
  <2>. QED
    BY <2>3, <2>5, <2>6, <2>7
<1>17. CASE Tick
  BY <1>17 DEF Tick, At
<1>18. CASE Cancel
  BY <1>18 DEF Cancel
<1>19. CASE LinkFails
  BY <1>19 DEF LinkFails
<1>20. CASE UNCHANGED vars
  BY <1>20
<1>. QED
  BY <1>1, <1>2, <1>3, <1>4, <1>5, <1>6, <1>7, <1>8, <1>9, <1>10, <1>11, <1>12, <1>13, <1>14,
     <1>15, <1>16, <1>17, <1>18, <1>19, <1>20
     DEF Next

\* The loop keeps its types.
LEMMA LoopTypesStep ==
    ASSUME Types, [Next]_vars
    PROVE  LoopTypes'
<1>. USE TimeAssumption, TicksType
     DEF Types, SessionTypes, ClientTypes, LoopTypes, Commands, Places, Idle,
             vars, session, client, tracking, loopRest
<1>1. ASSUME NEW w \in Works, NEW t \in Timeouts, Refuse(w, t) PROVE LoopTypes'
  BY <1>1 DEF Refuse, Begin
<1>2. ASSUME NEW w \in Works, NEW t \in Timeouts, Direct(w, t) PROVE LoopTypes'
  BY <1>2 DEF Direct, Begin, Send
<1>3. ASSUME NEW w \in Works, NEW t \in Timeouts, Reconnect(w, t) PROVE LoopTypes'
  BY <1>3 DEF Reconnect, Begin, ReconnectTimeout, Tables
<1>4. CASE Read
  BY <1>4 DEF Read
<1>5. CASE ReadDone
  BY <1>5 DEF ReadDone
<1>6. CASE ReadFails
  BY <1>6 DEF ReadFails
<1>7. CASE Retire
  BY <1>7 DEF Retire
<1>8. CASE PrepareReset
  BY <1>8 DEF PrepareReset
<1>9. CASE Wait
  <2>1. command \in Commands
    BY <1>9 DEF Wait, AnotherTry, At
  <2>2. Ticks(RetryInterval) \in Nat
    OBVIOUS
  <2>3. clock + Ticks(RetryInterval) \in Nat
    BY <2>2
  <2>. QED
    BY <1>9, <2>1, <2>3 DEF Wait, AnotherTry, At
<1>10. CASE SleepCancelled
  BY <1>10 DEF SleepCancelled, AnotherTry, At, Ended
<1>11. CASE Wake
  BY <1>11 DEF Wake, At, Goto
<1>12. CASE Attempt
  BY <1>12 DEF Attempt, At, Goto
<1>13. CASE GiveUp
  BY <1>13 DEF GiveUp, At, Ended
<1>14. CASE AttemptFails
  <2>1. command \in Commands
    BY <1>14 DEF AttemptFails, At
  <2>2. command.attempt + 1 \in Nat
    BY <2>1
  <2>. QED
    BY <1>14, <2>1, <2>2 DEF AttemptFails
<1>15. CASE ValidateFails
  BY <1>15 DEF ValidateFails, At, Ended
<1>16. CASE Adopt
  BY <1>16 DEF Adopt, At, Ended
<1>17. CASE Tick
  BY <1>17 DEF Tick, At
<1>18. CASE Cancel
  BY <1>18 DEF Cancel
<1>19. CASE LinkFails
  BY <1>19 DEF LinkFails
<1>20. CASE UNCHANGED vars
  BY <1>20
<1>. QED
  BY <1>1, <1>2, <1>3, <1>4, <1>5, <1>6, <1>7, <1>8, <1>9, <1>10, <1>11, <1>12, <1>13, <1>14,
     <1>15, <1>16, <1>17, <1>18, <1>19, <1>20
     DEF Next

\* The types of the session, the tracking and the loop.
LEMMA TypesCorrect == Spec => []Types
<1>1. Init => Types
  <2>. SUFFICES ASSUME Init PROVE Types
    OBVIOUS
  <2>1. SessionTypes
    BY ValueAssumption, FreshType DEF Init, SessionTypes, ResponseShape
  <2>2. ClientTypes
    BY ValueAssumption, EmptyDeltaType DEF Init, ClientTypes, Tables
  <2>3. LoopTypes
    BY DEF Init, LoopTypes
  <2>. QED
    BY <2>1, <2>2, <2>3 DEF Types
<1>2. Types /\ [Next]_vars => Types'
  BY SessionTypesStep, ClientTypesStep, LoopTypesStep DEF Types
<1>. QED
  BY <1>1, <1>2, PTL DEF Spec

\* TypeOK follows from the stronger types.
LEMMA TypesImplyTypeOK == Types => TypeOK
<1>. SUFFICES ASSUME Types PROVE TypeOK
  OBVIOUS
<1>1. Len(response) <= 2
  <2>1. CASE response = <<>>
    BY <2>1
  <2>2. CASE \E w \in Works : response = <<w>> \/ response = <<ResetToken, w>>
    <3>1. PICK w \in Works : response = <<w>> \/ response = <<ResetToken, w>>
      BY <2>2
    <3>2. CASE response = <<w>>
      BY <3>2
    <3>3. CASE response = <<ResetToken, w>>
      BY <3>3
    <3>. QED
      BY <3>1, <3>2, <3>3
  <2>. QED
    BY <2>1, <2>2 DEF Types, SessionTypes, ResponseShape
<1>2. command.at \in {"Idle", "Check", "Attempt", "Retry", "Sleep"}
  BY DEF Types, LoopTypes, Commands, Idle
<1>. QED
  BY <1>1, <1>2
     DEF Types, SessionTypes, ClientTypes, LoopTypes, TypeOK, Sessions, Tables, StateRecords

---------------------------------------------------------------------------
(* The loop.                                                               *)

\* LoopBudget is inductive.
LEMMA LoopBudgetStep ==
    ASSUME Types, LoopBudget, [Next]_vars
    PROVE  LoopBudget'
<1>. USE TimeAssumption, TicksType
     DEF Types, LoopTypes, LoopBudget, Commands, Idle,
             vars, session, client, tracking, loopRest
<1>1. ASSUME NEW w \in Works, NEW t \in Timeouts, Refuse(w, t) PROVE LoopBudget'
  BY <1>1 DEF Refuse, Begin
<1>2. ASSUME NEW w \in Works, NEW t \in Timeouts, Direct(w, t) PROVE LoopBudget'
  BY <1>2 DEF Direct, Begin, Send
<1>3. ASSUME NEW w \in Works, NEW t \in Timeouts, Reconnect(w, t) PROVE LoopBudget'
  BY <1>3 DEF Reconnect, Begin, ReconnectTimeout
<1>4. CASE Read
  BY <1>4 DEF Read
<1>5. CASE ReadDone
  BY <1>5 DEF ReadDone
<1>6. CASE ReadFails
  BY <1>6 DEF ReadFails
<1>7. CASE Retire
  BY <1>7 DEF Retire
<1>8. CASE PrepareReset
  BY <1>8 DEF PrepareReset
<1>9. CASE Wait
  <2>1. command \in Commands /\ command # Idle /\ Ticks(RetryInterval) \in Nat
    BY <1>9 DEF Wait, AnotherTry, At
  <2>2. command' = [command EXCEPT !.at = "Sleep", !.wake = clock + Ticks(RetryInterval)]
        /\ clock' = clock /\ command.deadline - clock >= Ticks(RetryInterval)
    BY <1>9, <2>1 DEF Wait, AnotherTry, At, EnoughForWait, Remaining
  <2>3. clock + Ticks(RetryInterval) <= command.deadline /\ clock <= clock + Ticks(RetryInterval)
    BY <2>1, <2>2
  <2>. HIDE DEF Idle
  <2>4. command'.deadline = command.deadline /\ command'.timeout = command.timeout
        /\ command'.wake = clock + Ticks(RetryInterval) /\ command' # Idle
    BY <2>1, <2>2 DEF Idle
  <2>. QED
    BY <2>1, <2>2, <2>3, <2>4
<1>10. CASE SleepCancelled
  BY <1>10 DEF SleepCancelled, AnotherTry, At, Ended
<1>11. CASE Wake
  BY <1>11 DEF Wake, At, Goto
<1>12. CASE Attempt
  BY <1>12 DEF Attempt, At, Goto
<1>13. CASE GiveUp
  BY <1>13 DEF GiveUp, At, Ended
<1>14. CASE AttemptFails
  <2>1. command \in Commands /\ command # Idle
        /\ command' = [command EXCEPT !.at = "Retry", !.attempt = @ + 1] /\ clock' = clock
    BY <1>14 DEF AttemptFails, At
  <2>. QED
    BY <2>1
<1>15. CASE ValidateFails
  BY <1>15 DEF ValidateFails, At, Ended
<1>16. CASE Adopt
  BY <1>16 DEF Adopt, At, Ended
<1>17. CASE Tick
  BY <1>17 DEF Tick, At, AttemptLimit
<1>18. CASE Cancel
  BY <1>18 DEF Cancel
<1>19. CASE LinkFails
  BY <1>19 DEF LinkFails
<1>20. CASE UNCHANGED vars
  BY <1>20
<1>. QED
  BY <1>1, <1>2, <1>3, <1>4, <1>5, <1>6, <1>7, <1>8, <1>9, <1>10, <1>11, <1>12, <1>13, <1>14,
     <1>15, <1>16, <1>17, <1>18, <1>19, <1>20
     DEF Next

\* CancelInv is inductive.
LEMMA CancelInvStep ==
    ASSUME Types, CancelInv, [Next]_vars
    PROVE  CancelInv'
<1>. USE TimeAssumption, TicksType
     DEF Types, LoopTypes, CancelInv, Commands, Places, Idle,
             vars, session, client, tracking, loopRest
<1>1. ASSUME NEW w \in Works, NEW t \in Timeouts, Refuse(w, t) PROVE CancelInv'
  BY <1>1 DEF Refuse, Begin
<1>2. ASSUME NEW w \in Works, NEW t \in Timeouts, Direct(w, t) PROVE CancelInv'
  BY <1>2 DEF Direct, Begin, Send
<1>3. ASSUME NEW w \in Works, NEW t \in Timeouts, Reconnect(w, t) PROVE CancelInv'
  BY <1>3 DEF Reconnect, Begin, ReconnectTimeout
<1>4. CASE Read
  BY <1>4 DEF Read
<1>5. CASE ReadDone
  BY <1>5 DEF ReadDone
<1>6. CASE ReadFails
  BY <1>6 DEF ReadFails
<1>7. CASE Retire
  BY <1>7 DEF Retire
<1>8. CASE PrepareReset
  BY <1>8 DEF PrepareReset
<1>9. CASE Wait
  BY <1>9 DEF Wait, AnotherTry, At, SleepCancels
<1>10. CASE SleepCancelled
  BY <1>10 DEF SleepCancelled, AnotherTry, At, Ended
<1>11. CASE Wake
  BY <1>11 DEF Wake, At, Goto
<1>12. CASE Attempt
  BY <1>12 DEF Attempt, At, Goto
<1>13. CASE GiveUp
  BY <1>13 DEF GiveUp, At, Ended
<1>14. CASE AttemptFails
  BY <1>14 DEF AttemptFails, At
<1>15. CASE ValidateFails
  BY <1>15 DEF ValidateFails, At, Ended
<1>16. CASE Adopt
  BY <1>16 DEF Adopt, At, Ended
<1>17. CASE Tick
  BY <1>17 DEF Tick, At
<1>18. CASE Cancel
  BY <1>18 DEF Cancel
<1>19. CASE LinkFails
  BY <1>19 DEF LinkFails
<1>20. CASE UNCHANGED vars
  BY <1>20
<1>. QED
  BY <1>1, <1>2, <1>3, <1>4, <1>5, <1>6, <1>7, <1>8, <1>9, <1>10, <1>11, <1>12, <1>13, <1>14,
     <1>15, <1>16, <1>17, <1>18, <1>19, <1>20
     DEF Next

\* LoopFrozen is inductive.
LEMMA LoopFrozenStep ==
    ASSUME Types, LoopFrozen, [Next]_vars
    PROVE  LoopFrozen'
<1>. USE DEF Types, ClientTypes, LoopTypes, LoopFrozen, Commands, Idle,
             vars, session, client, tracking, loopRest
<1>1. ASSUME NEW w \in Works, NEW t \in Timeouts, Refuse(w, t) PROVE LoopFrozen'
  BY <1>1 DEF Refuse, Begin
<1>2. ASSUME NEW w \in Works, NEW t \in Timeouts, Direct(w, t) PROVE LoopFrozen'
  BY <1>2 DEF Direct, Begin, Send
<1>3. ASSUME NEW w \in Works, NEW t \in Timeouts, Reconnect(w, t) PROVE LoopFrozen'
  BY <1>3 DEF Reconnect, Begin, IsRecoveryPossible, IsSessionRecoverable
<1>4. CASE Read
  BY <1>4 DEF Read
<1>5. CASE ReadDone
  BY <1>5 DEF ReadDone
<1>6. CASE ReadFails
  BY <1>6 DEF ReadFails
<1>7. CASE Retire
  BY <1>7 DEF Retire
<1>8. CASE PrepareReset
  BY <1>8 DEF PrepareReset
<1>9. CASE Wait
  BY <1>9 DEF Wait, AnotherTry, At
<1>10. CASE SleepCancelled
  BY <1>10 DEF SleepCancelled, AnotherTry, At, Ended
<1>11. CASE Wake
  BY <1>11 DEF Wake, At, Goto
<1>12. CASE Attempt
  BY <1>12 DEF Attempt, At, Goto
<1>13. CASE GiveUp
  BY <1>13 DEF GiveUp, At, Ended
<1>14. CASE AttemptFails
  BY <1>14 DEF AttemptFails, At
<1>15. CASE ValidateFails
  BY <1>15 DEF ValidateFails, At, Ended
<1>16. CASE Adopt
  BY <1>16 DEF Adopt, At, Ended
<1>17. CASE Tick
  BY <1>17 DEF Tick, At
<1>18. CASE Cancel
  BY <1>18 DEF Cancel
<1>19. CASE LinkFails
  BY <1>19 DEF LinkFails
<1>20. CASE UNCHANGED vars
  BY <1>20
<1>. QED
  BY <1>1, <1>2, <1>3, <1>4, <1>5, <1>6, <1>7, <1>8, <1>9, <1>10, <1>11, <1>12, <1>13, <1>14,
     <1>15, <1>16, <1>17, <1>18, <1>19, <1>20
     DEF Next

\* An adopted session leaves the login baseline of the table alone.
LEMMA AdoptInitial ==
    ASSUME Types, Adopt
    PROVE  table'.initial = table.initial
<1>1. \E ack \in Acks : \E told, s :
         table' = AppliedTokens(AppliedAck(table, ack, s), told, s)
  BY DEF Adopt
<1>. QED
  BY <1>1 DEF Types, ClientTypes, Tables, AppliedTokens, AppliedAck, Acks

\* ReadingOpen is inductive.
LEMMA ReadingOpenStep ==
    ASSUME Types, LoopFrozen, ReadingOpen, [Next]_vars
    PROVE  ReadingOpen'
<1>. USE DEF Types, SessionTypes, ClientTypes, LoopTypes, LoopFrozen, ReadingOpen, Commands, Idle,
     Tables,
             vars, session, client, tracking, loopRest
<1>1. ASSUME NEW w \in Works, NEW t \in Timeouts, Refuse(w, t) PROVE ReadingOpen'
  BY <1>1 DEF Refuse, Begin
<1>2. ASSUME NEW w \in Works, NEW t \in Timeouts, Direct(w, t) PROVE ReadingOpen'
  BY <1>2 DEF Direct, Begin, Send
<1>3. ASSUME NEW w \in Works, NEW t \in Timeouts, Reconnect(w, t) PROVE ReadingOpen'
  <2>1. /\ response' = response /\ execution' = execution /\ retired' = retired /\ lost' = lost
        /\ table' = table /\ negotiated' = negotiated /\ known_dead' \in {known_dead, TRUE}
        /\ negotiated /\ ~execution.open
    BY <1>3 DEF Reconnect, Begin, IsRecoveryPossible
  <2>2. ~retired /\ response = <<>>
    BY <2>1
  <2>3. CASE known_dead' = known_dead
    BY <2>1, <2>2, <2>3
  <2>4. CASE known_dead' = TRUE
    BY <2>1, <2>2, <2>4
  <2>. QED
    BY <2>1, <2>3, <2>4
<1>4. CASE Read
  BY <1>4 DEF Read
<1>5. CASE ReadDone
  BY <1>5 DEF ReadDone
<1>6. CASE ReadFails
  BY <1>6 DEF ReadFails
<1>7. CASE Retire
  BY <1>7 DEF Retire
<1>8. CASE PrepareReset
  BY <1>8 DEF PrepareReset
<1>9. CASE Wait
  BY <1>9 DEF Wait, AnotherTry, At
<1>10. CASE SleepCancelled
  BY <1>10 DEF SleepCancelled, AnotherTry, At, Ended
<1>11. CASE Wake
  BY <1>11 DEF Wake, At, Goto
<1>12. CASE Attempt
  BY <1>12 DEF Attempt, At, Goto
<1>13. CASE GiveUp
  BY <1>13 DEF GiveUp, At, Ended
<1>14. CASE AttemptFails
  BY <1>14 DEF AttemptFails, At
<1>15. CASE ValidateFails
  BY <1>15 DEF ValidateFails, At, Ended
<1>16. CASE Adopt
  <2>1. /\ known_dead' = FALSE /\ lost' = FALSE /\ retired' = retired /\ command' = Idle
        /\ negotiated' = negotiated
    BY <1>16 DEF Adopt, At, Ended
  <2>2. table'.initial = table.initial
    BY <1>16, AdoptInitial
  <2>3. command # Idle
    BY <1>16 DEF Adopt, At
  <2>4. negotiated
    BY <2>3
  <2>5. \E sends \in BOOLEAN :
           /\ response' = IF sends THEN <<command.work>> ELSE <<>>
           /\ execution' = [open |-> sends, txn |-> FALSE]
    BY <1>16 DEF Adopt
  <2>6. response' # <<>> => execution'.open
    BY <2>5
  <2>7. ~retired'
    BY <2>1, <2>4
  <2>. QED
    BY <2>1, <2>6, <2>7, <2>2
<1>17. CASE Tick
  BY <1>17 DEF Tick, At
<1>18. CASE Cancel
  BY <1>18 DEF Cancel
<1>19. CASE LinkFails
  BY <1>19 DEF LinkFails
<1>20. CASE UNCHANGED vars
  BY <1>20
<1>. QED
  BY <1>1, <1>2, <1>3, <1>4, <1>5, <1>6, <1>7, <1>8, <1>9, <1>10, <1>11, <1>12, <1>13, <1>14,
     <1>15, <1>16, <1>17, <1>18, <1>19, <1>20
     DEF Next

\* ArmedApplied is inductive relative to MirrorInv, which says that the response
\* to an armed request leads with the reset.
LEMMA ArmedAppliedStep ==
    ASSUME Types, ReadingOpen, ArmedApplied, MirrorInv, [Next]_vars
    PROVE  ArmedApplied'
<1>. USE DEF Types, SessionTypes, ClientTypes, LoopTypes, ArmedApplied, ReadingOpen, MirrorInv,
     ResponseShape, Tables,
             vars, session, client, tracking, loopRest
<1>1. ASSUME NEW w \in Works, NEW t \in Timeouts, Refuse(w, t) PROVE ArmedApplied'
  BY <1>1 DEF Refuse, Begin
<1>2. ASSUME NEW w \in Works, NEW t \in Timeouts, Direct(w, t) PROVE ArmedApplied'
  BY <1>2 DEF Direct, Begin, Send
<1>3. ASSUME NEW w \in Works, NEW t \in Timeouts, Reconnect(w, t) PROVE ArmedApplied'
  BY <1>3 DEF Reconnect, Begin
<1>4. CASE Read
  BY <1>4, Tokens DEF Read, ResetToken
<1>5. CASE ReadDone
  BY <1>5 DEF ReadDone
<1>6. CASE ReadFails
  BY <1>6 DEF ReadFails
<1>7. CASE Retire
  BY <1>7 DEF Retire
<1>8. CASE PrepareReset
  BY <1>8 DEF PrepareReset
<1>9. CASE Wait
  BY <1>9 DEF Wait, AnotherTry, At
<1>10. CASE SleepCancelled
  BY <1>10 DEF SleepCancelled, AnotherTry, At, Ended
<1>11. CASE Wake
  BY <1>11 DEF Wake, At, Goto
<1>12. CASE Attempt
  BY <1>12 DEF Attempt, At, Goto
<1>13. CASE GiveUp
  BY <1>13 DEF GiveUp, At, Ended
<1>14. CASE AttemptFails
  BY <1>14 DEF AttemptFails, At
<1>15. CASE ValidateFails
  BY <1>15 DEF ValidateFails, At, Ended
<1>16. CASE Adopt
  BY <1>16 DEF Adopt, At, Ended
<1>17. CASE Tick
  BY <1>17 DEF Tick, At
<1>18. CASE Cancel
  BY <1>18 DEF Cancel
<1>19. CASE LinkFails
  BY <1>19 DEF LinkFails
<1>20. CASE UNCHANGED vars
  BY <1>20
<1>. QED
  BY <1>1, <1>2, <1>3, <1>4, <1>5, <1>6, <1>7, <1>8, <1>9, <1>10, <1>11, <1>12, <1>13, <1>14,
     <1>15, <1>16, <1>17, <1>18, <1>19, <1>20
     DEF Next

\* MirrorInv is inductive.
LEMMA MirrorStep ==
    ASSUME Types, LoopFrozen, ReadingOpen, ArmedApplied, MirrorInv, [Next]_vars
    PROVE  MirrorInv'
<1>. USE DEF Types, SessionTypes, ClientTypes, LoopTypes, ReadingOpen, MirrorInv, MirrorsAfter,
     ResetTable,
             vars, session, client, tracking, loopRest
<1>1. ASSUME NEW w \in Works, NEW t \in Timeouts, Refuse(w, t) PROVE MirrorInv'
  BY <1>1 DEF Refuse, Begin
<1>2. ASSUME NEW w \in Works, NEW t \in Timeouts, Direct(w, t) PROVE MirrorInv'
  <2>1. response = <<>> /\ ~retired /\ ~lost
    BY <1>2 DEF Direct, Begin
  <2>2. CASE link = "Up" /\ armed
    <3>1. server' = Worked(ResetSession(server), w)
      BY <1>2, <2>2 DEF Direct, Send
    <3>2. response' = <<ResetToken, w>>
      BY <1>2, <2>2, Tokens DEF Direct, Send, ResetToken
    <3>3. Mirrors(ResetTable, settings.login_database, execution.txn, rebased, ResetSession(server))
      BY <2>1, <2>2, ResetMirrors
    <3>4. ResetTable \in Tables /\ ResetSession(server) \in Sessions
      BY EmptyDeltaType, ResetSessionType DEF Tables
    <3>5. Mirrors(TableAfter(ResetTable, w), DbAfter(settings.login_database, w),
                  TxnAfter(execution.txn, w), rebased /\ w.do # "Use",
                  Worked(ResetSession(server), w))
      <4>. HIDE DEF ResetTable
      <4>. QED
        BY <3>3, <3>4, WorkedMirrors
    <3>6. MirrorsAfter(ResetTable, settings.login_database, w)'
      BY <1>2, <2>2, <3>1, <3>5 DEF Direct, Begin, Send
    <3>. QED
      BY <1>2, <2>2, <3>2, <3>6, Tokens, TokensDiffer DEF Direct
  <2>3. CASE link = "Up" /\ ~armed
    <3>1. server' = Worked(server, w)
      BY <1>2, <2>3 DEF Direct, Send
    <3>2. response' = <<w>>
      BY <1>2, <2>3, Tokens DEF Direct, Send
    <3>3. MirrorsAfter(table, settings.database, w)'
      BY <1>2, <2>1, <2>3, <3>1, WorkedMirrors DEF Direct, Send, Begin
    <3>. QED
      BY <1>2, <2>3, <3>2, <3>3, Tokens, TokensDiffer DEF Direct
  <2>4. CASE link # "Up"
    BY <1>2, <2>4 DEF Direct, Begin, Send
  <2>. QED
    BY <2>2, <2>3, <2>4
<1>3. ASSUME NEW w \in Works, NEW t \in Timeouts, Reconnect(w, t) PROVE MirrorInv'
  BY <1>3 DEF Reconnect, Begin
<1>4. CASE Read
  <2>1. ~retired /\ ~lost /\ retired' = retired /\ lost' = lost
    BY <1>4 DEF Read
  <2>2. PICK w \in Works : response = <<w>> \/ response = <<ResetToken, w>>
    BY <1>4 DEF Read, ResponseShape
  <2>3. CASE response = <<w>>
    <3>1. Head(response) = w /\ response' = <<>>
      BY <1>4, <2>3, Tokens DEF Read
    <3>2. table' = TableAfter(table, w) /\ armed' = armed /\ server' = server
      BY <1>4, <3>1, WorkKinds DEF Read, TableAfter
    <3>3. /\ settings'.database = DbAfter(settings.database, w)
          /\ execution'.txn = TxnAfter(execution.txn, w)
          /\ rebased' = (rebased /\ w.do # "Use")
      BY <1>4, <3>1, WorkKinds DEF Read, DbAfter, TxnAfter
    <3>4. ~armed /\ MirrorsAfter(table, settings.database, w)
      BY <2>1, <2>3
    <3>. QED
      BY <2>1, <3>1, <3>2, <3>3, <3>4, Tokens
  <2>4. CASE response = <<ResetToken, w>>
    <3>1. Head(response) = ResetToken /\ response' = <<w>>
      BY <1>4, <2>4, Tokens DEF Read
    <3>2. /\ table' = ResetTable /\ ~armed' /\ server' = server
          /\ settings'.database = settings.login_database
          /\ execution' = execution /\ rebased' = rebased
      BY <1>4, <3>1 DEF Read, ResetToken
    <3>3. MirrorsAfter(ResetTable, settings.login_database, w)
      BY <2>1, <2>4
    <3>4. MirrorsAfter(table, settings.database, w)'
      BY <3>2, <3>3
    <3>. QED
      BY <2>1, <3>1, <3>2, <3>4, Tokens, TokensDiffer
  <2>. QED
    BY <2>2, <2>3, <2>4
<1>5. CASE ReadDone
  BY <1>5 DEF ReadDone
<1>6. CASE ReadFails
  BY <1>6 DEF ReadFails
<1>7. CASE Retire
  BY <1>7 DEF Retire
<1>8. CASE PrepareReset
  <2>1. response = <<>> /\ response' = <<>> /\ armed' /\ server' = server
    BY <1>8 DEF PrepareReset
  <2>2. table'.off = table.off /\ retired' = retired /\ lost' = lost
    BY <1>8 DEF PrepareReset, Tables
  <2>3. ~retired /\ ~lost => (server.off => table.off)
    BY <1>8, <2>1 DEF PrepareReset, Mirrors
  <2>. QED
    BY <2>1, <2>2, <2>3, Tokens
<1>9. CASE Wait
  BY <1>9 DEF Wait, AnotherTry, At
<1>10. CASE SleepCancelled
  BY <1>10 DEF SleepCancelled, AnotherTry, At, Ended
<1>11. CASE Wake
  BY <1>11 DEF Wake, At, Goto
<1>12. CASE Attempt
  BY <1>12 DEF Attempt, At, Goto
<1>13. CASE GiveUp
  BY <1>13 DEF GiveUp, At, Ended
<1>14. CASE AttemptFails
  BY <1>14 DEF AttemptFails, At
<1>15. CASE ValidateFails
  BY <1>15 DEF ValidateFails, At, Ended
<1>16. CASE Adopt
  <2>1. command \in Commands
    BY <1>16 DEF Adopt, At, Idle
  <2>. DEFINE S(f, o) == Described(Rebuilt(table.initial, table.delta, settings.database), f, o)
  <2>2. PICK ack \in Acks, told \in SUBSET Ids, off \in BOOLEAN : \E fixed \in SUBSET told :
           /\ \/ server' = Worked(S(fixed, off), command.work) /\ response' = <<command.work>>
              \/ server' = S(fixed, off) /\ response' = <<>>
           /\ table' = AppliedTokens(AppliedAck(table, ack, S(fixed, off)), told, S(fixed, off))
           /\ settings' = [database |-> S(fixed, off).db, login_database |-> S(fixed, off).db]
           /\ execution'.txn = FALSE
    BY <1>16, <2>1 DEF Adopt, LoopFrozen, At, Idle
  <2>. PICK fixed \in SUBSET told :
           /\ \/ server' = Worked(S(fixed, off), command.work) /\ response' = <<command.work>>
              \/ server' = S(fixed, off) /\ response' = <<>>
           /\ table' = AppliedTokens(AppliedAck(table, ack, S(fixed, off)), told, S(fixed, off))
           /\ settings' = [database |-> S(fixed, off).db, login_database |-> S(fixed, off).db]
           /\ execution'.txn = FALSE
    BY <2>2
  <2>. DEFINE s == S(fixed, off)
  <2>3. /\ \/ server' = Worked(s, command.work) /\ response' = <<command.work>>
           \/ server' = s /\ response' = <<>>
        /\ table' = AppliedTokens(AppliedAck(table, ack, s), told, s)
        /\ settings' = [database |-> s.db, login_database |-> s.db]
        /\ execution'.txn = FALSE
    OBVIOUS
  <2>4. s \in Sessions /\ s.db = settings.database
    <3>1. Rebuilt(table.initial, table.delta, settings.database) \in Sessions
          /\ Rebuilt(table.initial, table.delta, settings.database).db = settings.database
      BY RebuiltType DEF Tables, Rebuilt, FreshSession
    <3>. QED
      BY <3>1, DescribedType
  <2>5. armed' = FALSE /\ rebased' = FALSE
    BY <1>16 DEF Adopt
  <2>6. Mirrors(table', settings'.database, execution'.txn, FALSE, s) /\ table' \in Tables
    <3>1. ~table.off /\ \A i \in Ids : table.delta[i].recoverable
      BY <1>16 DEF LoopFrozen, Adopt, At, Idle
    <3>2. Mirrors(AppliedTokens(AppliedAck(table, ack, s), told, s), settings.database, FALSE,
                  FALSE, s)
      BY <3>1, RebuiltMirrors
    <3>. HIDE DEF s
    <3>3. settings'.database = settings.database
      BY <2>4, <2>3
    <3>4. table' \in Tables
      BY <2>4, <2>3, AppliedAckType, AppliedTokensType
    <3>. QED
      BY <2>3, <3>2, <3>3, <3>4
  <2>7. CASE response' = <<>>
    <3>1. server' = s
      BY <2>3, <2>7, Tokens
    <3>. QED
      BY <2>5, <2>6, <2>7, <3>1, Tokens
  <2>8. CASE response' = <<command.work>> /\ server' = Worked(s, command.work)
    <3>1. PICK w \in Works : w = command.work
      BY <2>1 DEF Commands
    <3>2. MirrorsAfter(table, settings.database, w)'
      <4>. HIDE DEF s
      <4>1. Mirrors(TableAfter(table', w), DbAfter(settings'.database, w),
                    TxnAfter(execution'.txn, w), FALSE /\ w.do # "Use", Worked(s, w))
        BY <2>4, <2>6, WorkedMirrors
      <4>2. (rebased' /\ w.do # "Use") = (FALSE /\ w.do # "Use")
        BY <2>5
      <4>. QED
        BY <2>8, <3>1, <4>1, <4>2
    <3>. QED
      BY <2>5, <2>8, <3>1, <3>2, Tokens, TokensDiffer
  <2>. QED
    BY <2>3, <2>7, <2>8
<1>17. CASE Tick
  BY <1>17 DEF Tick, At
<1>18. CASE Cancel
  BY <1>18 DEF Cancel
<1>19. CASE LinkFails
  BY <1>19 DEF LinkFails
<1>20. CASE UNCHANGED vars
  BY <1>20
<1>. QED
  BY <1>1, <1>2, <1>3, <1>4, <1>5, <1>6, <1>7, <1>8, <1>9, <1>10, <1>11, <1>12, <1>13, <1>14,
     <1>15, <1>16, <1>17, <1>18, <1>19, <1>20
     DEF Next

---------------------------------------------------------------------------
(* Theorems.                                                               *)

\* The inductive invariant: the loop is bounded and frozen, an armed reset is
\* already in the mirror, and what is left to read completes it.
RecoveryInv ==
    Types /\ LoopBudget /\ CancelInv /\ LoopFrozen /\ ReadingOpen /\ ArmedApplied /\ MirrorInv

\* The inductive invariant of the recovery holds in every reachable state.
LEMMA RecoveryInvCorrect == Spec => []RecoveryInv
<1>1. Init => LoopBudget /\ CancelInv /\ LoopFrozen /\ ReadingOpen /\ ArmedApplied
  BY DEF Init, LoopBudget, CancelInv, LoopFrozen, ReadingOpen, ArmedApplied
<1>2. Init => MirrorInv
  <2>. SUFFICES ASSUME Init PROVE MirrorInv
    OBVIOUS
  <2>1. Mirrors(table, settings.database, execution.txn, rebased, server)
    BY DEF Init, Mirrors, FreshSession, EmptyDelta, NoRecord
  <2>. QED
    BY <2>1, Tokens DEF Init, MirrorInv
<1>3. RecoveryInv /\ Types' /\ [Next]_vars => RecoveryInv'
  BY LoopBudgetStep, CancelInvStep, LoopFrozenStep, ReadingOpenStep, ArmedAppliedStep, MirrorStep
     DEF RecoveryInv
<1>. QED
  BY <1>1, <1>2, <1>3, TypesCorrect, PTL DEF Spec, RecoveryInv

\* Between two requests the mirror is the session, for every set of states,
\* values and databases and however often the connection was lost, recovered
\* and reset.
THEOREM MirrorCorrect == Spec => []MirrorMatches
<1>1. RecoveryInv => MirrorMatches
  <2>. SUFFICES ASSUME RecoveryInv PROVE MirrorMatches
    OBVIOUS
  <2>1. TypeOK
    BY TypesImplyTypeOK DEF RecoveryInv
  <2>2. ASSUME Settled
        PROVE  Mirrors(table, settings.database, execution.txn, rebased, server)
    BY <2>2 DEF RecoveryInv, ReadingOpen, MirrorInv, Settled
  <2>. QED
    BY <2>1, <2>2 DEF Mirrors, MirrorMatches, Effective
<1>. QED
  BY <1>1, RecoveryInvCorrect, PTL

\* A cancelled reconnect begins no attempt and no interval, whatever the retry
\* policy and wherever in its loop the cancellation found it.
THEOREM CancelCorrect == Spec => []CancelStopsTheLoop
<1>1. RecoveryInv => CancelStopsTheLoop
  <2>. SUFFICES ASSUME RecoveryInv, command # Idle, NEW c \in cancelled
                PROVE  /\ command.at \in {"Attempt", "Sleep"} =>
                             command.at = c.at /\ command.attempt = c.attempt
                       /\ command.attempt <= c.attempt + 1
    BY DEF CancelStopsTheLoop
  <2>1. /\ command.at \in {"Check", "Attempt", "Retry", "Sleep"}
        /\ command.attempt \in Nat /\ c.attempt \in Nat
    BY DEF RecoveryInv, Types, LoopTypes, Commands, Places
  <2>. QED
    BY <2>1 DEF RecoveryInv, CancelInv
<1>. QED
  BY <1>1, RecoveryInvCorrect, PTL

\* Only adoption brings the link back.
LEMMA OnlyAdopts ==
    ASSUME Types, [Next]_vars, Adopts
    PROVE  Adopt
<1>. USE DEF Adopts, vars, session, client, tracking, loopRest
<1>1. ASSUME NEW w \in Works, NEW t \in Timeouts, Refuse(w, t) \/ Direct(w, t) \/ Reconnect(w, t)
      PROVE  FALSE
  BY <1>1 DEF Refuse, Direct, Send, Reconnect
<1>2. CASE Read \/ ReadDone \/ ReadFails \/ Retire \/ PrepareReset
  BY <1>2 DEF Read, ReadDone, ReadFails, Retire, PrepareReset
<1>3. CASE Wait \/ SleepCancelled \/ Wake \/ Attempt \/ GiveUp \/ AttemptFails \/ ValidateFails
  BY <1>3 DEF Wait, SleepCancelled, Wake, Attempt, GiveUp, AttemptFails, ValidateFails
<1>4. CASE Tick \/ Cancel \/ LinkFails \/ UNCHANGED vars
  BY <1>4 DEF Tick, Cancel, LinkFails
<1>. QED
  BY <1>1, <1>2, <1>3, <1>4 DEF Next

\* A session is adopted only by the retry loop, with a recovery under way.
LEMMA AdoptsInLoop ==
    ASSUME Types, Adopt
    PROVE  command # Idle /\ command \in Commands
BY DEF Types, LoopTypes, Adopt, At, Idle

\* A session is replaced behind the application's back only if nothing of it is
\* lost, and never after the client was retired.
THEOREM RecoveryKeeps == Spec => RecoveryKeepsSession
<1>1. ASSUME RecoveryInv, [Next]_vars, Adopts
      PROVE  /\ ~retired
             /\ armed => Restored.state = [i \in Ids |-> BaseVal]
             /\ ~armed /\ ~lost =>
                  /\ ~server.txn /\ ~server.off /\ server.fixed = {}
                  /\ Restored.state = server.state
                  /\ ~rebased => Restored.db = server.db
  <2>1. Adopt /\ command # Idle /\ command \in Commands
    BY <1>1, OnlyAdopts, AdoptsInLoop DEF RecoveryInv
  <2>2. ~retired /\ response = <<>>
    BY <1>1, <2>1 DEF RecoveryInv, LoopFrozen, ReadingOpen
  <2>3. /\ Restored.state = [i \in Ids |-> IF table.delta[i].set THEN table.delta[i].value
                                           ELSE table.initial[i]]
        /\ Restored.db = settings.database
    BY <1>1, <2>1 DEF RecoveryInv, LoopFrozen, Restored, Rebuilt, FreshSession
  <2>4. armed => Restored.state = [i \in Ids |-> BaseVal]
    BY <1>1, <2>3 DEF RecoveryInv, ReadingOpen, ArmedApplied, EmptyDelta, NoRecord
  <2>5. ASSUME ~armed, ~lost
        PROVE  /\ ~server.txn /\ ~server.off /\ server.fixed = {}
               /\ Restored.state = server.state
               /\ ~rebased => Restored.db = server.db
    <3>1. Mirrors(table, settings.database, execution.txn, rebased, server)
      BY <1>1, <2>2, <2>5 DEF RecoveryInv, MirrorInv
    <3>2. ~table.off /\ ~execution.txn /\ \A i \in Ids : table.delta[i].recoverable
      BY <1>1, <2>1 DEF RecoveryInv, LoopFrozen
    <3>3. server \in Sessions
      BY <1>1 DEF RecoveryInv, Types, SessionTypes
    <3>4. ~server.txn /\ ~server.off /\ server.fixed = {}
      BY <3>1, <3>2, <3>3 DEF Mirrors, Sessions
    <3>5. \A i \in Ids : Restored.state[i] = server.state[i]
      BY <2>3, <3>1, <3>2 DEF Mirrors
    <3>6. Restored.state = server.state
      BY <2>3, <3>3, <3>5 DEF Sessions
    <3>. QED
      BY <2>3, <3>1, <3>4, <3>6 DEF Mirrors
  <2>. QED
    BY <2>2, <2>4, <2>5
<1>. QED
  BY <1>1, RecoveryInvCorrect, PTL DEF Spec, RecoveryKeepsSession

\* Whole seconds elapsed, and the rest of a second.
LEMMA WholeSeconds ==
    ASSUME NEW c \in Nat, NEW p \in Nat \ {0}
    PROVE  c \div p \in Nat /\ c < (c \div p + 1) * p
OBVIOUS

\* What deduct_timeout leaves is a positive number of seconds that fits, up to
\* the rounding of one second, in what was left of the budget.
LEMMA DeductLeaves ==
    ASSUME NEW t \in Nat, NEW c \in Nat
    PROVE  \/ t = 0 /\ Deduct(t, c) = <<"None">>
           \/ Deduct(t, c) = <<"Exhausted">>
           \/ /\ Deduct(t, c)[1] = "Left" /\ Deduct(t, c)[2] > 0
              /\ c + Ticks(Deduct(t, c)[2]) < Ticks(t + 1)
<1>. DEFINE s == c \div TicksPerSecond
<1>1. s \in Nat /\ c < (s + 1) * TicksPerSecond
  BY TimeAssumption, WholeSeconds
<1>2. CASE t = 0
  BY <1>2 DEF Deduct
<1>3. CASE t # 0 /\ s >= t
  BY <1>3 DEF Deduct
<1>4. CASE t # 0 /\ s < t
  <2>1. Deduct(t, c) = <<"Left", t - s>>
    BY <1>1, <1>4 DEF Deduct
  <2>. HIDE DEF s
  <2>2. t - s \in Nat /\ t - s > 0
    BY <1>1, <1>4
  <2>3. (s + 1) * TicksPerSecond + (t - s) * TicksPerSecond = (t + 1) * TicksPerSecond
    BY <1>1, <2>2, TimeAssumption
  <2>4. c + (t - s) * TicksPerSecond < (t + 1) * TicksPerSecond
    BY <1>1, <2>2, <2>3, TimeAssumption
  <2>. QED
    BY <2>1, <2>2, <2>4 DEF Ticks
<1>. QED
  BY <1>1, <1>2, <1>3, <1>4

\* The loop never outlives the command's budget, and the request gets what is
\* left of it.
THEOREM BudgetCorrect == Spec => WithinBudget
<1>1. ASSUME RecoveryInv, RecoveryInv', [Next]_vars
      PROVE  command' # Idle => clock' <= command'.deadline
  BY <1>1 DEF RecoveryInv, LoopBudget
<1>2. ASSUME RecoveryInv, [Next]_vars, Adopts
      PROVE  \/ command.timeout = 0 /\ outcome' = <<"None">>
             \/ outcome' = <<"Exhausted">>
             \/ cancelled # {} /\ outcome' = <<"Cancelled">>
             \/ /\ outcome'[1] = "Left" /\ outcome'[2] > 0
                /\ clock + Ticks(outcome'[2]) < Ticks(command.timeout + 1)
  <2>1. Adopt /\ command \in Commands
    BY <1>2, OnlyAdopts, AdoptsInLoop DEF RecoveryInv
  <2>2. command.timeout \in Nat /\ clock \in Nat
    BY <1>2, <2>1, TimeAssumption DEF RecoveryInv, Types, LoopTypes, Commands
  <2>3. \/ cancelled # {} /\ outcome' = <<"Cancelled">>
        \/ outcome' = Deduct(command.timeout, clock)
    BY <2>1 DEF Adopt, Ended
  <2>. QED
    BY <2>2, <2>3, DeductLeaves
<1>. QED
  BY <1>1, <1>2, RecoveryInvCorrect, PTL DEF Spec, WithinBudget
=============================================================================
