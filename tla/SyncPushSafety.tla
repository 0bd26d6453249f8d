--------------------------- MODULE SyncPushSafety ---------------------------
(***************************************************************************)
(* The safety theorems of SyncPush.  Each part of InductiveInv is shown to *)
(* be kept by every step, given the parts before it.                       *)
(***************************************************************************)
EXTENDS SyncPushProofs

\* Session t steps, the others stay.
Alone(t) == \A u \in Sessions \ {t} : tx'[u] = tx[u]

\* The end of a push: back to idle, by any of the ways there.
Resets(t) ==
  \/ Reply(t) \/ RejectKind(t) \/ WriteError(t) \/ LogError(t) \/ DeadlockVictim(t)
  \/ Fail(t) \/ BrokerError(t) \/ Crash(t)

\* A session that holds nothing.
Bare(session) ==
  session.locked = FALSE /\ session.writes = NoWrites /\ session.log = {}

LEMMA IdleIsBare == IdleSession.pc = "idle" /\ Bare(IdleSession)
<1>1. IdleSession.pc = "idle"
  BY DEF IdleSession
<1>2. IdleSession.locked = FALSE
  BY DEF IdleSession
<1>3. IdleSession.writes = NoWrites /\ IdleSession.log = {}
  BY DEF IdleSession
<1>4. QED
  BY <1>1, <1>2, <1>3 DEF Bare

LEMMA ResetsDo ==
  ASSUME TypeOK, NEW t \in Sessions, Resets(t)
  PROVE  /\ Alone(t) /\ tx'[t] = IdleSession
         /\ tx'[t].pc = "idle" /\ Bare(tx'[t])
         /\ UNCHANGED <<now, attempts, seq, tables>>
<1>1. Becomes(t, IdleSession) /\ UNCHANGED <<now, attempts, seq, tables>>
  BY DEF Resets, Reply, RejectKind, WriteError, LogError, DeadlockVictim, Fail, BrokerError,
         Crash, RollBack, sequences
<1>2. QED
  BY <1>1, BecomesOthers, IdleIsBare DEF Alone

LEMMA BeginDoes ==
  ASSUME TypeOK, NEW t \in Sessions, NEW r \in Requests, Begin(t, r)
  PROVE  /\ Alone(t)
         /\ tx[t].pc = "idle" /\ tx'[t].pc = "replay" /\ Bare(tx'[t])
         /\ UNCHANGED <<now, sequences, tables, answers>>
<1>1. /\ tx'[t] = [IdleSession EXCEPT !.pc = "replay", !.req = r]
      /\ Alone(t) /\ tx[t].pc = "idle"
      /\ UNCHANGED <<now, sequences, tables, answers>>
  BY BecomesOthers DEF Begin, Alone
<1>2. IdleSession \in Session /\ Bare(IdleSession)
  BY IdleSessionType, IdleIsBare
<1>3. tx'[t].pc = "replay"
  BY <1>1, <1>2 DEF Session
<1>4. Bare(tx'[t])
  BY <1>1, <1>2 DEF Bare, Session
<1>5. QED
  BY <1>1, <1>3, <1>4

\* Session t moves on without writing, locking or unlocking anything.
Moves(t) == FindReplay(t) \/ FindNoReplay(t) \/ SkipItem(t) \/ ReadItem(t)

LEMMA MovesDo ==
  ASSUME TypeOK, NEW t \in Sessions, Moves(t)
  PROVE  /\ Alone(t)
         /\ \A f \in {"req", "seq", "locked", "writes", "log"} : tx'[t][f] = tx[t][f]
         /\ tx[t].pc \in {"replay", "item"}
         /\ tx'[t].pc \in {"reply", "gateway", "item", "nextval"}
         /\ tx'[t].pc \in Working <=> tx[t].pc \in Working
         /\ tx'[t].pc = "nextval" => ReadItem(t)
         /\ UNCHANGED <<client, sequences, tables>>
<1>0. tx[t] \in Session
  BY SessionType
<1>1. CASE FindReplay(t)
  <2>1. PICK l \in log :
          Becomes(t, [tx[t] EXCEPT !.pc = "reply", !.replay = TRUE, !.applied = l.applied])
    BY <1>1 DEF FindReplay
  <2>2. Alone(t) /\ tx'[t] = [tx[t] EXCEPT !.pc = "reply", !.replay = TRUE, !.applied = l.applied]
    BY <2>1, BecomesOthers DEF Alone
  <2>3. QED
    BY <1>0, <1>1, <2>2 DEF FindReplay, Session, Working
<1>2. CASE FindNoReplay(t)
  <2>1. Alone(t) /\ tx'[t] = [tx[t] EXCEPT !.pc = "gateway"]
    BY <1>2, BecomesOthers DEF FindNoReplay, Alone
  <2>2. QED
    BY <1>0, <1>2, <2>1 DEF FindNoReplay, Session, Working
<1>3. CASE SkipItem(t)
  <2>1. Alone(t) /\ tx'[t] = [tx[t] EXCEPT !.i = @ + 1]
    BY <1>3, BecomesOthers DEF SkipItem, Alone
  <2>2. QED
    BY <1>0, <1>3, <2>1 DEF SkipItem, Session, Working
<1>4. CASE ReadItem(t)
  <2> DEFINE d == Decision(View(t), CurrentItem(t), GatewayOf(t))
  <2>1. tx'[t] = [tx[t] EXCEPT !.pc = "nextval", !.action = d.action, !.target = d.id]
        /\ Alone(t) /\ tx[t].pc = "item" /\ UNCHANGED <<client, sequences, tables>>
    BY <1>4, BecomesOthers DEF ReadItem, Alone
  <2> HIDE DEF d
  <2>2. QED
    BY <1>0, <1>4, <2>1 DEF Session, Working
<1>5. QED
  BY <1>1, <1>2, <1>3, <1>4 DEF Moves

LEMMA TouchGatewayDoes ==
  ASSUME TypeOK, NEW t \in Sessions, TouchGateway(t)
  PROVE  /\ Alone(t)
         /\ \A f \in {"req", "seq", "writes", "log"} : tx'[t][f] = tx[t][f]
         /\ tx[t].pc = "gateway" /\ tx'[t].pc = "item"
         /\ tx'[t].locked = (~RequireAuth \/ GatewayOf(t) \in gateways)
         /\ GatewayHolders(t) = {}
         /\ UNCHANGED <<client, sequences, tables>>
<1>0. tx[t] \in Session
  BY SessionType
<1> DEFINE lock == ~RequireAuth \/ GatewayOf(t) \in gateways
<1>1. /\ tx'[t] = [tx[t] EXCEPT !.pc = "item", !.locked = lock]
      /\ Alone(t) /\ tx[t].pc = "gateway" /\ GatewayHolders(t) = {}
      /\ UNCHANGED <<client, sequences, tables>>
  BY BecomesOthers DEF TouchGateway, Alone
<1> HIDE DEF lock
<1>2. \A f \in {"req", "seq", "writes", "log"} : tx'[t][f] = tx[t][f]
  BY <1>0, <1>1 DEF Session
<1>3. tx'[t].pc = "item" /\ tx'[t].locked = lock
  BY <1>0, <1>1 DEF Session
<1>4. QED
  BY <1>1, <1>2, <1>3 DEF lock

\* Session t takes a sequence id, for a row or for the log row.
LEMMA NextValuesDo ==
  ASSUME TypeOK, NEW t \in Sessions, NextValue(t) \/ NextLogValue(t)
  PROVE  /\ Alone(t)
         /\ \A f \in {"req", "i", "action", "target", "locked", "writes", "log"} :
              tx'[t][f] = tx[t][f]
         /\ tx'[t].seq = seq + 1 /\ seq' = seq + 1
         /\ \/ tx[t].pc = "nextval" /\ tx'[t].pc = "write"
            \/ tx[t].pc = "item" /\ tx'[t].pc = "log"
         /\ UNCHANGED <<client, logIds, tables>>
<1>0. tx[t] \in Session
  BY SessionType
<1>1. CASE NextValue(t)
  <2>1. Alone(t) /\ tx'[t] = [tx[t] EXCEPT !.pc = "write", !.seq = seq + 1]
    BY <1>1, BecomesOthers DEF NextValue, Alone
  <2>2. QED
    BY <1>0, <1>1, <2>1 DEF NextValue, Session
<1>2. CASE NextLogValue(t)
  <2>1. Alone(t) /\ tx'[t] = [tx[t] EXCEPT !.pc = "log", !.seq = seq + 1]
    BY <1>2, BecomesOthers DEF NextLogValue, Alone
  <2>2. QED
    BY <1>0, <1>2, <2>1 DEF NextLogValue, Session
<1>3. QED
  BY <1>1, <1>2

NewRow(t) == StoredRow(CurrentItem(t), GatewayOf(t), tx[t].seq)

LEMMA WriteItemDoes ==
  ASSUME TypeOK, NEW t \in Sessions, WriteItem(t)
  PROVE  /\ Alone(t)
         /\ \A f \in {"req", "seq", "locked", "log"} : tx'[t][f] = tx[t][f]
         /\ tx'[t].writes = [tx[t].writes EXCEPT ![tx[t].target] = NewRow(t)]
         /\ tx[t].pc = "write" /\ tx'[t].pc = "item"
         /\ RowHolders(t, tx[t].target) = {} /\ ~WriteViolatesConstraint(t)
         /\ UNCHANGED <<client, sequences, tables>>
<1>0. tx[t] \in Session
  BY SessionType
<1> DEFINE w == [tx[t].writes EXCEPT ![tx[t].target] = NewRow(t)]
<1>1. /\ tx'[t] = [tx[t] EXCEPT !.pc = "item", !.i = @ + 1, !.writes = w,
                                !.touched = @ \cup {tx[t].target}, !.applied = @ + 1]
      /\ Alone(t)
      /\ tx[t].pc = "write"
      /\ RowHolders(t, tx[t].target) = {} /\ ~WriteViolatesConstraint(t)
      /\ UNCHANGED <<client, sequences, tables>>
  BY BecomesOthers DEF WriteItem, NewRow, Alone
<1> HIDE DEF w
<1>2. \A f \in {"req", "seq", "locked", "log"} : tx'[t][f] = tx[t][f]
  BY <1>0, <1>1 DEF Session
<1>3. tx'[t].writes = w /\ tx'[t].pc = "item"
  BY <1>0, <1>1 DEF Session
<1>4. QED
  BY <1>1, <1>2, <1>3 DEF w

LEMMA WriteLogDoes ==
  ASSUME TypeOK, NEW t \in Sessions, WriteLog(t)
  PROVE  /\ Alone(t)
         /\ \A f \in {"req", "seq", "locked", "writes", "applied"} : tx'[t][f] = tx[t][f]
         /\ tx'[t].log = {NewLogRow(t)}
         /\ tx[t].pc = "log" /\ tx'[t].pc = "commit"
         /\ ~Logged(Key(tx[t].req)) /\ GatewayStored(t)
         /\ UNCHANGED <<client, seq, tables>>
<1>0. tx[t] \in Session
  BY SessionType
<1>1. Alone(t) /\ tx'[t] = [tx[t] EXCEPT !.pc = "commit", !.log = {NewLogRow(t)}]
  BY BecomesOthers DEF WriteLog, Alone
<1>2. QED
  BY <1>0, <1>1 DEF WriteLog, Session

LEMMA CommitDoes ==
  ASSUME TypeOK, NEW t \in Sessions, Commit(t)
  PROVE  /\ Alone(t)
         /\ tx[t].pc = "commit" /\ tx'[t].pc = "reply"
         /\ tx'[t].req = tx[t].req /\ tx'[t].locked = FALSE
         /\ tx'[t].writes = NoWrites /\ tx'[t].log = {}
         /\ reports' = View(t) /\ log' = log \cup tx[t].log
         /\ gateways' = gateways \cup {GatewayOf(t)}
         /\ UNCHANGED <<client, sequences>>
<1>0. tx[t] \in Session
  BY SessionType
<1>1. /\ tx'[t] = [tx[t] EXCEPT !.pc = "reply", !.locked = FALSE,
                                !.writes = NoWrites, !.log = {}]
      /\ Alone(t)
  BY BecomesOthers DEF Commit, Alone
<1>2. QED
  BY <1>0, <1>1 DEF Commit, Session

\* The counters of a session: which item is next, how many were applied, and the ids
\* of the rows it has touched.
LEMMA CountersStart ==
  ASSUME TypeOK, NEW t \in Sessions,
         Resets(t) \/ \E r \in Requests : Begin(t, r)
  PROVE  tx'[t].i = 1 /\ tx'[t].applied = 0 /\ tx'[t].touched = {}
<1>1. IdleSession.i = 1
  BY DEF IdleSession
<1>2. IdleSession.applied = 0 /\ IdleSession.touched = {}
  BY DEF IdleSession
<1>3. ASSUME NEW r \in Requests, Begin(t, r)
      PROVE  tx'[t].i = 1 /\ tx'[t].applied = 0 /\ tx'[t].touched = {}
  <2> DEFINE s == [IdleSession EXCEPT !.pc = "replay", !.req = r]
  <2>0. Becomes(t, s)
    BY <1>3 DEF Begin
  <2>1. tx'[t] = s
    BY <2>0, BecomesOthers
  <2>2. QED
    BY <1>1, <1>2, <2>1, IdleSessionType DEF Session
<1>4. QED
  BY <1>1, <1>2, <1>3, ResetsDo

LEMMA CountersKept ==
  ASSUME TypeOK, NEW t \in Sessions,
         TouchGateway(t) \/ NextValue(t) \/ NextLogValue(t) \/ WriteLog(t) \/ Commit(t)
  PROVE  \A f \in {"i", "applied", "touched"} : tx'[t][f] = tx[t][f]
<1>0. tx[t] \in Session
  BY SessionType
<1>1. CASE TouchGateway(t)
  <2> DEFINE lock == ~RequireAuth \/ GatewayOf(t) \in gateways
             s == [tx[t] EXCEPT !.pc = "item", !.locked = lock]
  <2>1. Becomes(t, s)
    BY <1>1 DEF TouchGateway
  <2>2. tx'[t] = s
    BY <2>1, BecomesOthers
  <2> HIDE DEF lock
  <2>3. QED
    BY <1>0, <2>2 DEF Session
<1>2. CASE NextValue(t) \/ NextLogValue(t)
  <2> DEFINE s == [tx[t] EXCEPT !.pc = "write", !.seq = seq + 1]
             u == [tx[t] EXCEPT !.pc = "log", !.seq = seq + 1]
  <2>1. Becomes(t, s) \/ Becomes(t, u)
    BY <1>2 DEF NextValue, NextLogValue
  <2>2. tx'[t] = s \/ tx'[t] = u
    BY <2>1, BecomesOthers
  <2>3. QED
    BY <1>0, <2>2 DEF Session
<1>3. CASE WriteLog(t)
  <2> DEFINE s == [tx[t] EXCEPT !.pc = "commit", !.log = {NewLogRow(t)}]
  <2>1. Becomes(t, s)
    BY <1>3 DEF WriteLog
  <2>2. tx'[t] = s
    BY <2>1, BecomesOthers
  <2>3. QED
    BY <1>0, <2>2 DEF Session
<1>4. CASE Commit(t)
  <2> DEFINE s == [tx[t] EXCEPT !.pc = "reply", !.locked = FALSE, !.writes = NoWrites,
                                !.log = {}]
  <2>1. Becomes(t, s)
    BY <1>4 DEF Commit
  <2>2. tx'[t] = s
    BY <2>1, BecomesOthers
  <2>3. QED
    BY <1>0, <2>2 DEF Session
<1>5. QED
  BY <1>1, <1>2, <1>3, <1>4

LEMMA CountersMove ==
  ASSUME TypeOK, NEW t \in Sessions, Moves(t)
  PROVE  /\ tx'[t].touched = tx[t].touched
         /\ tx'[t].i = IF SkipItem(t) THEN tx[t].i + 1 ELSE tx[t].i
         /\ FindReplay(t) \/ tx'[t].applied = tx[t].applied
         /\ tx'[t].pc = "reply" => FindReplay(t)
<1>0. tx[t] \in Session /\ (SkipItem(t) => ~ReadItem(t))
  BY SessionType DEF SkipItem, ReadItem
<1>1. CASE FindReplay(t)
  <2>1. PICK l \in log :
          Becomes(t, [tx[t] EXCEPT !.pc = "reply", !.replay = TRUE, !.applied = l.applied])
      BY <1>1 DEF FindReplay
  <2>2. tx'[t] = [tx[t] EXCEPT !.pc = "reply", !.replay = TRUE, !.applied = l.applied]
    BY <2>1, BecomesOthers
  <2>3. ~SkipItem(t)
    BY <1>1 DEF FindReplay, SkipItem
  <2>4. QED
    BY <1>0, <1>1, <2>2, <2>3 DEF Session
<1>2. CASE FindNoReplay(t)
  <2>1. tx'[t] = [tx[t] EXCEPT !.pc = "gateway"] /\ ~SkipItem(t)
    BY <1>2, BecomesOthers DEF FindNoReplay, SkipItem
  <2>2. QED
    BY <1>0, <2>1 DEF Session
<1>3. CASE SkipItem(t)
  <2>1. tx'[t] = [tx[t] EXCEPT !.i = @ + 1] /\ tx[t].pc = "item"
    BY <1>3, BecomesOthers DEF SkipItem
  <2>2. QED
    BY <1>0, <1>3, <2>1 DEF Session
<1>4. CASE ReadItem(t)
  <2> DEFINE d == Decision(View(t), CurrentItem(t), GatewayOf(t))
  <2>1. tx'[t] = [tx[t] EXCEPT !.pc = "nextval", !.action = d.action, !.target = d.id]
        /\ ~SkipItem(t)
    BY <1>0, <1>4, BecomesOthers DEF ReadItem
  <2> HIDE DEF d
  <2>2. QED
    BY <1>0, <2>1 DEF Session
<1>5. QED
  BY <1>1, <1>2, <1>3, <1>4 DEF Moves

LEMMA CountersWrite ==
  ASSUME TypeOK, NEW t \in Sessions, WriteItem(t)
  PROVE  /\ tx'[t].i = tx[t].i + 1 /\ tx'[t].applied = tx[t].applied + 1
         /\ tx'[t].touched = tx[t].touched \cup {tx[t].target}
<1>0. tx[t] \in Session
  BY SessionType
<1> DEFINE w == [tx[t].writes EXCEPT ![tx[t].target] = NewRow(t)]
<1>1. tx'[t] = [tx[t] EXCEPT !.pc = "item", !.i = @ + 1, !.writes = w,
                             !.touched = @ \cup {tx[t].target}, !.applied = @ + 1]
  BY BecomesOthers DEF WriteItem, NewRow
<1> HIDE DEF w
<1>2. QED
  BY <1>0, <1>1 DEF Session

\* Every step is one of these.
LEMMA StepKinds ==
  ASSUME [Next]_vars
  PROVE  \/ UNCHANGED <<sequences, tables, tx>> /\ (\A a \in answers' \ answers : a.code # 200)
         \/ \E t \in Sessions, r \in Requests : Begin(t, r)
         \/ \E t \in Sessions : \/ Moves(t) \/ TouchGateway(t) \/ NextValue(t)
                                \/ NextLogValue(t) \/ WriteItem(t) \/ WriteLog(t)
                                \/ Commit(t) \/ Resets(t)
<1>1. CASE UNCHANGED vars
  BY <1>1 DEF vars, sequences, tables
<1>2. CASE Tick
  BY <1>2 DEF Tick
<1>3. CASE \E r \in Requests : Refuse(r)
  BY <1>3 DEF Refuse, AnswerWith
<1>4. CASE \E t \in Sessions, r \in Requests : Begin(t, r)
  BY <1>4
<1>5. CASE \E t \in Sessions : Work(t) \/ Fail(t) \/ BrokerError(t) \/ Crash(t)
  BY <1>5 DEF Work, Moves, Resets
<1>6. QED
  BY <1>1, <1>2, <1>3, <1>4, <1>5 DEF Next
-----------------------------------------------------------------------------
(* Locks on the gateway rows. *)

\* The gateway of session t depends on its request only.
LEMMA SameGateway ==
  ASSUME NEW t, tx'[t].req = tx[t].req
  PROVE  GatewayOf(t)' = GatewayOf(t) /\ Key(tx[t].req)' = Key(tx[t].req)
  BY DEF GatewayOf, Key

LEMMA LocksKept ==
  ASSUME TypeOK, GatewayLocks, NEW t \in Sessions, Alone(t), gateways' = gateways,
         tx'[t].req = tx[t].req, tx'[t].locked = tx[t].locked,
         tx'[t].pc \in Working => tx[t].pc \in Working,
         tx'[t].pc = "commit" => tx[t].locked
  PROVE  GatewayLocks'
<1>1. \A u \in Sessions : /\ tx'[u].req = tx[u].req /\ tx'[u].locked = tx[u].locked
                          /\ tx'[u].pc \in Working => tx[u].pc \in Working
                          /\ tx'[u].pc = "commit" => tx[u].locked
                          /\ GatewayOf(u)' = GatewayOf(u)
  BY SameGateway DEF Alone, GatewayLocks, GatewayOf
<1>2. QED
  BY <1>1 DEF GatewayLocks

LEMMA LocksReleased ==
  ASSUME TypeOK, GatewayLocks, NEW t \in Sessions, Alone(t), gateways \subseteq gateways',
         RequireAuth => gateways' = gateways,
         tx'[t].locked = FALSE, tx'[t].pc \notin Working
  PROVE  GatewayLocks'
<1>1. tx'[t].pc # "commit"
  BY DEF Working
<1>2. \A u \in Sessions \ {t} : tx'[u] = tx[u] /\ GatewayOf(u)' = GatewayOf(u)
  BY DEF Alone, GatewayOf
<1>3. QED
  BY <1>1, <1>2 DEF GatewayLocks

LEMMA GatewayLocksInit == Init => GatewayLocks
<1> SUFFICES ASSUME Init PROVE GatewayLocks
  OBVIOUS
<1>1. \A t \in Sessions : tx[t].pc = "idle" /\ tx[t].locked = FALSE
  BY DEF Init, IdleSession
<1>2. QED
  BY <1>1 DEF GatewayLocks, Working

LEMMA GatewayLocksStep ==
  TypeOK /\ SessionShape /\ GatewayLocks /\ [Next]_vars => GatewayLocks'
<1> SUFFICES ASSUME TypeOK, SessionShape, GatewayLocks, [Next]_vars PROVE GatewayLocks'
  OBVIOUS
<1> USE DEF tables
<1>1. CASE UNCHANGED <<sequences, tables, tx>>
  BY <1>1 DEF GatewayLocks, GatewayOf
<1>2. ASSUME NEW t \in Sessions, NEW r \in Requests, Begin(t, r) PROVE GatewayLocks'
  <2>1. tx'[t].locked = FALSE /\ tx'[t].pc \notin Working
    BY <1>2, BeginDoes DEF Bare, Working
  <2>2. QED
    BY <1>2, <2>1, BeginDoes, LocksReleased
<1>3. ASSUME NEW t \in Sessions, Moves(t) PROVE GatewayLocks'
  BY <1>3, MovesDo, LocksKept DEF Working
<1>4. ASSUME NEW t \in Sessions, TouchGateway(t) PROVE GatewayLocks'
  <2>1. /\ tx'[t].pc = "item" /\ tx'[t].req = tx[t].req
        /\ tx'[t].locked = (~RequireAuth \/ GatewayOf(t) \in gateways)
        /\ gateways' = gateways
    BY <1>4, TouchGatewayDoes
  <2>2. \A u \in Sessions : GatewayOf(u)' = GatewayOf(u)
    BY <1>4, <2>1, TouchGatewayDoes DEF Alone, GatewayOf
  <2>3. \A u \in Sessions \ {t} : tx'[u] = tx[u] /\ (tx[u].locked => GatewayOf(u) # GatewayOf(t))
    BY <1>4, TouchGatewayDoes DEF Alone, GatewayHolders
  <2>4. \A u, v \in Sessions : u # v /\ tx'[u].locked /\ tx'[v].locked
           => GatewayOf(u) # GatewayOf(v)
    BY <2>3 DEF GatewayLocks
  <2>5. \A u \in Sessions : 
          /\ tx'[u].pc \in Working =>
               tx'[u].locked \/ (RequireAuth /\ GatewayOf(u) \notin gateways)
          /\ tx'[u].pc = "commit" => tx'[u].locked
          /\ RequireAuth /\ tx'[u].locked => GatewayOf(u) \in gateways
    BY <2>1, <2>3, FlagIsBoolean DEF GatewayLocks
  <2>6. QED
    BY <2>1, <2>2, <2>4, <2>5 DEF GatewayLocks
<1>5. ASSUME NEW t \in Sessions, NextValue(t) \/ NextLogValue(t) PROVE GatewayLocks'
  BY <1>5, NextValuesDo, LocksKept DEF Working
<1>6. ASSUME NEW t \in Sessions, WriteItem(t) PROVE GatewayLocks'
  BY <1>6, WriteItemDoes, LocksKept DEF Working
<1>7. ASSUME NEW t \in Sessions, WriteLog(t) PROVE GatewayLocks'
  <2>1. tx[t].locked
    BY <1>7, WriteLogDoes DEF GatewayLocks, GatewayStored, Working
  <2>2. QED
    BY <1>7, <2>1, WriteLogDoes, LocksKept DEF Working
<1>8. ASSUME NEW t \in Sessions, Commit(t) PROVE GatewayLocks'
  <2>1. tx[t].locked
    BY <1>8, CommitDoes DEF GatewayLocks
  <2>2. RequireAuth => gateways' = gateways
    BY <1>8, <2>1, CommitDoes DEF GatewayLocks
  <2>3. QED
    BY <1>8, <2>2, CommitDoes, LocksReleased DEF Working
<1>9. ASSUME NEW t \in Sessions, Resets(t) PROVE GatewayLocks'
  <2>1. tx'[t].locked = FALSE /\ tx'[t].pc \notin Working
    BY <1>9, ResetsDo DEF Bare, Working
  <2>2. QED
    BY <1>9, <2>1, ResetsDo, LocksReleased
<1>10. QED
  BY <1>1, <1>2, <1>3, <1>4, <1>5, <1>6, <1>7, <1>8, <1>9, StepKinds

-----------------------------------------------------------------------------
(* A batch is recorded once. *)

RecordedOnce == BatchRecordedOnce /\ PendingUnrecorded

LEMMA RecordedOnceStep ==
  TypeOK /\ SessionShape /\ GatewayLocks /\ RecordedOnce /\ [Next]_vars => RecordedOnce'
<1> SUFFICES ASSUME TypeOK, SessionShape, GatewayLocks, RecordedOnce, [Next]_vars
             PROVE  RecordedOnce'
  OBVIOUS
<1> USE DEF tables
\* Steps that neither record a batch nor bring a session to its commit.
<1>0. ASSUME log' = log,
             \A u \in Sessions : tx'[u].pc = "commit" => tx'[u] = tx[u]
      PROVE  RecordedOnce'
  <2>1. ASSUME NEW u \in Sessions, tx'[u].pc = "commit" PROVE ~Logged(Key(tx[u].req))'
    <3>1. tx'[u] = tx[u] /\ ~Logged(Key(tx[u].req))
      BY <1>0, <2>1 DEF RecordedOnce, PendingUnrecorded
    <3>2. QED
      BY <1>0, <3>1 DEF Logged, Key
  <2>2. QED
    BY <1>0, <2>1 DEF RecordedOnce, BatchRecordedOnce, PendingUnrecorded
<1>1. CASE UNCHANGED <<sequences, tables, tx>>
  BY <1>0, <1>1
<1>2. ASSUME NEW t \in Sessions, NEW r \in Requests, Begin(t, r) PROVE RecordedOnce'
  <2>1. tx'[t].pc # "commit"
    BY <1>2, BeginDoes
  <2>2. QED
    BY <1>0, <1>2, <2>1, BeginDoes DEF Alone
<1>3. ASSUME NEW t \in Sessions, Moves(t) PROVE RecordedOnce'
  BY <1>0, <1>3, MovesDo DEF Alone
<1>4. ASSUME NEW t \in Sessions, TouchGateway(t) PROVE RecordedOnce'
  <2>1. tx'[t].pc # "commit"
    BY <1>4, TouchGatewayDoes
  <2>2. QED
    BY <1>0, <1>4, <2>1, TouchGatewayDoes DEF Alone
<1>5. ASSUME NEW t \in Sessions, NextValue(t) \/ NextLogValue(t) PROVE RecordedOnce'
  BY <1>0, <1>5, NextValuesDo DEF Alone
<1>6. ASSUME NEW t \in Sessions, WriteItem(t) PROVE RecordedOnce'
  BY <1>0, <1>6, WriteItemDoes DEF Alone
<1>7. ASSUME NEW t \in Sessions, WriteLog(t) PROVE RecordedOnce'
  <2>1. log' = log /\ ~Logged(Key(tx[t].req)) /\ tx'[t].req = tx[t].req
    BY <1>7, WriteLogDoes
  <2>2. ~Logged(Key(tx[t].req))'
    BY <2>1 DEF Logged, Key
  <2>3. ASSUME NEW u \in Sessions \ {t}, tx'[u].pc = "commit" PROVE ~Logged(Key(tx[u].req))'
    <3>1. tx'[u] = tx[u]
      BY <1>7, WriteLogDoes DEF Alone
    <3>2. QED
      BY <2>1, <2>3, <3>1 DEF RecordedOnce, PendingUnrecorded, Logged, Key
  <2>4. QED
    BY <2>1, <2>2, <2>3 DEF RecordedOnce, BatchRecordedOnce, PendingUnrecorded
<1>8. ASSUME NEW t \in Sessions, Commit(t) PROVE RecordedOnce'
  <2>1. PICK l \in tx[t].log : tx[t].log = {l} /\ l.key = Key(tx[t].req)
    BY <1>8, CommitDoes DEF SessionShape, Shape
  <2>2. log' = log \cup {l} /\ tx[t].pc = "commit" /\ tx'[t].pc = "reply"
    BY <1>8, <2>1, CommitDoes
  <2>3. \A m \in log : m.key # l.key
    BY <2>1, <2>2 DEF RecordedOnce, PendingUnrecorded, Logged
  <2>4. BatchRecordedOnce'
    BY <2>2, <2>3 DEF RecordedOnce, BatchRecordedOnce
  <2>5. ASSUME NEW u \in Sessions, tx'[u].pc = "commit" PROVE ~Logged(Key(tx[u].req))'
    <3>1. u # t /\ tx'[u] = tx[u]
      BY <1>8, <2>2, <2>5, CommitDoes DEF Alone
    <3>2. ~Logged(Key(tx[u].req))
      BY <2>5, <3>1 DEF RecordedOnce, PendingUnrecorded
    <3>3. GatewayOf(u) # GatewayOf(t)
      BY <2>2, <2>5, <3>1 DEF GatewayLocks
    <3>4. Key(tx[u].req) # l.key
      BY <2>1, <3>3 DEF Key, GatewayOf
    <3>5. QED
      BY <2>2, <3>1, <3>2, <3>4 DEF Logged, Key
  <2>6. QED
    BY <2>4, <2>5 DEF RecordedOnce, PendingUnrecorded
<1>9. ASSUME NEW t \in Sessions, Resets(t) PROVE RecordedOnce'
  <2>1. tx'[t].pc # "commit"
    BY <1>9, ResetsDo
  <2>2. QED
    BY <1>0, <1>9, <2>1, ResetsDo DEF Alone
<1>10. QED
  BY <1>1, <1>2, <1>3, <1>4, <1>5, <1>6, <1>7, <1>8, <1>9, StepKinds

LEMMA RecordedOnceInit == Init => RecordedOnce
<1> SUFFICES ASSUME Init PROVE RecordedOnce
  OBVIOUS
<1>1. log = {} /\ \A t \in Sessions : tx[t].pc = "idle"
  BY DEF Init, IdleSession
<1>2. QED
  BY <1>1 DEF RecordedOnce, BatchRecordedOnce, PendingUnrecorded

\* However often and however concurrently a batch is sent, sync_logs has it once.
THEOREM BatchesRecordedOnce == Spec => []BatchRecordedOnce
<1> DEFINE I == TypeOK /\ SessionShape /\ GatewayLocks /\ RecordedOnce
<1>1. Init => I
  BY TypeInit, ShapeInit, GatewayLocksInit, RecordedOnceInit
<1>2. I /\ [Next]_vars => I'
  BY TypeStep, ShapeStep, GatewayLocksStep, RecordedOnceStep
<1>3. I => BatchRecordedOnce
  BY DEF RecordedOnce
<1>4. QED
  BY <1>1, <1>2, <1>3, PTL DEF Spec

-----------------------------------------------------------------------------
(* A 200 tells the truth. *)

LEMMA LogGrows == TypeOK /\ [Next]_vars => log \subseteq log'
<1> SUFFICES ASSUME TypeOK, [Next]_vars PROVE log \subseteq log'
  OBVIOUS
<1> USE DEF tables
<1>1. ASSUME NEW t \in Sessions, NEW r \in Requests, Begin(t, r) PROVE log' = log
  BY <1>1, BeginDoes
<1>2. ASSUME NEW t \in Sessions, Moves(t) \/ TouchGateway(t) PROVE log' = log
  BY <1>2, MovesDo, TouchGatewayDoes
<1>3. ASSUME NEW t \in Sessions, NextValue(t) \/ NextLogValue(t) PROVE log' = log
  BY <1>3, NextValuesDo
<1>4. ASSUME NEW t \in Sessions, WriteItem(t) \/ WriteLog(t) PROVE log' = log
  BY <1>4, WriteItemDoes, WriteLogDoes
<1>5. ASSUME NEW t \in Sessions, Commit(t) PROVE log \subseteq log'
  BY <1>5, CommitDoes
<1>6. ASSUME NEW t \in Sessions, Resets(t) PROVE log' = log
  BY <1>6, ResetsDo
<1>7. QED
  BY <1>1, <1>2, <1>3, <1>4, <1>5, <1>6, StepKinds

LEMMA AnswersComeFromResets ==
  ASSUME TypeOK, [Next]_vars, NEW a \in answers' \ answers, a.code = 200
  PROVE  \E t \in Sessions : Resets(t)
<1> USE DEF client
<1>1. ASSUME NEW t \in Sessions, NEW r \in Requests, Begin(t, r) PROVE FALSE
  BY <1>1, BeginDoes
<1>2. ASSUME NEW t \in Sessions, Moves(t) \/ TouchGateway(t) PROVE FALSE
  BY <1>2, MovesDo, TouchGatewayDoes
<1>3. ASSUME NEW t \in Sessions, NextValue(t) \/ NextLogValue(t) PROVE FALSE
  BY <1>3, NextValuesDo
<1>4. ASSUME NEW t \in Sessions, WriteItem(t) \/ WriteLog(t) PROVE FALSE
  BY <1>4, WriteItemDoes, WriteLogDoes
<1>5. ASSUME NEW t \in Sessions, Commit(t) PROVE FALSE
  BY <1>5, CommitDoes
<1>6. QED
  BY <1>1, <1>2, <1>3, <1>4, <1>5, StepKinds

LEMMA AcceptedStep ==
  TypeOK /\ SessionShape /\ AcceptedIsRecorded /\ [Next]_vars => AcceptedIsRecorded'
<1> SUFFICES ASSUME TypeOK, SessionShape, AcceptedIsRecorded, [Next]_vars,
                    NEW a \in answers', a.code = 200
             PROVE  \E l \in log' : l.key = Key(a.req) /\ l.applied = a.applied
  BY DEF AcceptedIsRecorded, Key
<1>1. log \subseteq log'
  BY LogGrows
<1>2. CASE a \in answers
  BY <1>1, <1>2 DEF AcceptedIsRecorded
<1>3. CASE a \notin answers
  <2>1. PICK t \in Sessions : Reply(t)
    <3>1. ASSUME NEW t \in Sessions, Resets(t), ~Reply(t) PROVE FALSE
      BY <1>3, <3>1 DEF Resets, RejectKind, WriteError, LogError, DeadlockVictim, Fail,
         BrokerError, Crash, RollBack, AnswerWith
    <3>2. PICK t \in Sessions : Resets(t)
      BY <1>3, AnswersComeFromResets
    <3>3. QED
      BY <3>1, <3>2
  <2>2. a.req = tx[t].req /\ a.applied = tx[t].applied
    BY <1>3, <2>1 DEF Reply, AnswerWith
  <2>3. PICK l \in log : l.key = Key(tx[t].req) /\ l.applied = tx[t].applied
    BY <2>1 DEF Reply, SessionShape, Shape
  <2>4. QED
    BY <1>1, <2>2, <2>3
<1>4. QED
  BY <1>2, <1>3

\* An answer 200 is backed by a recorded batch with the answered count.
THEOREM AcceptedAreRecorded == Spec => []AcceptedIsRecorded
<1> DEFINE I == TypeOK /\ SessionShape /\ AcceptedIsRecorded
<1>1. Init => I
  BY TypeInit, ShapeInit DEF Init, AcceptedIsRecorded
<1>2. I /\ [Next]_vars => I'
  BY TypeStep, ShapeStep, AcceptedStep
<1>3. QED
  BY <1>1, <1>2, PTL DEF Spec
=============================================================================
