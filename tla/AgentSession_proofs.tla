----------------------- MODULE AgentSession_proofs -----------------------
(* Proofs about AgentSession, for every value of its constants.          *)
EXTENDS AgentSession, TLAPS, SequenceTheorems, FiniteSetTheorems

-----------------------------------------------------------------------------
(* Type correctness.                                                       *)

\* The writes to a transcript keep it a sequence of turns.
LEMMA SayType ==
  ASSUME transcript \in [Sessions -> Seq(Turns)], NEW r \in Runs,
         NEW k \in Kinds, Say(r, k)
  PROVE  transcript' \in [Sessions -> Seq(Turns)]
<1>1. SessionOf[r] \in Sessions
  BY SessionAssumption
<1>2. Turn(k, r) \in Turns
  BY DEF Turn, Turns
<1>3. Append(transcript[SessionOf[r]], Turn(k, r)) \in Seq(Turns)
  BY <1>1, <1>2
<1> QED
  BY <1>1, <1>3 DEF Say

\* All but the last turn of a nonempty transcript.
LEMMA ButLastType ==
  ASSUME NEW t \in Seq(Turns), t # <<>>
  PROVE  ButLast(t) \in Seq(Turns)
BY DEF ButLast

\* What a compaction retains.
LEMMA RecentType ==
  ASSUME NEW t \in Seq(Turns)
  PROVE  Recent(t) \in Seq(Turns)
<1>1. CASE Len(t) > Retain
  <2>1. Len(t) \in Nat /\ Retain \in Nat
    BY SessionAssumption
  <2>2. SubSeq(t, Len(t) - Retain + 1, Len(t)) \in Seq(Turns)
    BY <1>1, <2>1
  <2> QED
    BY <1>1, <2>2 DEF Recent
<1>2. CASE ~(Len(t) > Retain)
  BY <1>2 DEF Recent
<1> QED
  BY <1>1, <1>2

\* What a run restores from its session.
LEMMA ContextType ==
  ASSUME transcript \in [Sessions -> Seq(Turns)], NEW r \in Runs
  PROVE  Context(r) \in Seq(Turns)
<1>1. transcript[SessionOf[r]] \in Seq(Turns)
  BY SessionAssumption
<1> QED
  BY <1>1, ButLastType DEF Context, EndsWith

QuotaType ==
  /\ today \in 0..MaxDay
  /\ inFlight \in [Accounts -> Nat]
  /\ success \in [Accounts -> Nat]
  /\ charge \in [Runs -> {"none", "held", "charged", "released", "lost"}]
  /\ day \in [Runs -> 0..MaxDay]
  /\ faults \in Nat

\* Settling a reservation keeps the quota record well typed.
LEMMA FinishType ==
  ASSUME QuotaType, NEW r \in Runs, NEW how \in {"charged", "released"},
         Finish(r, how)
  PROVE  QuotaType'
<1> USE DEF QuotaType
<1>1. AccountOf(r) \in Accounts
  BY SessionAssumption DEF AccountOf, Accounts
<1>2. CASE Settle(r, how)
  <2>1. charge' \in [Runs -> {"none", "held", "charged", "released", "lost"}]
    BY <1>2 DEF Settle
  <2>2. inFlight' \in [Accounts -> Nat]
    BY <1>1, <1>2 DEF Settle
  <2>3. success' \in [Accounts -> Nat]
    BY <1>1, <1>2 DEF Settle
  <2> QED
    BY <1>2, <2>1, <2>2, <2>3 DEF Settle
<1>3. CASE NothingHeld(r)
  BY <1>3 DEF NothingHeld, quotaVars
<1>4. CASE SettleFails(r)
  BY <1>4 DEF SettleFails
<1> QED
  BY <1>2, <1>3, <1>4 DEF Finish

\* A failing run leaves the state well typed.
LEMMA FailType ==
  ASSUME TypeOK, NEW r \in Runs, Fail(r)
  PROVE  TypeOK'
<1>1. QuotaType'
  BY FinishType DEF TypeOK, QuotaType, Fail
<1>2. view' \in [Runs -> Seq(Turns)]
  BY DEF TypeOK, Fail, Forget
<1> QED
  BY <1>1, <1>2 DEF TypeOK, QuotaType, Fail, End, Phases, Inside, Outcomes

\* The steps up to the run's own question.
LEMMA EnterType ==
  ASSUME TypeOK, NEW r \in Runs, Enter(r)
  PROVE  TypeOK'
<1> USE DEF TypeOK, Phases, Inside, Outcomes, quotaVars
<1>0. {"user", "refusal"} \subseteq Kinds
  BY DEF Kinds
<1>1. CASE Acquire(r)
  BY <1>1 DEF Acquire
<1>2. CASE CompactCommand(r)
  BY <1>2 DEF CompactCommand
<1>3. CASE DomainBoundary(r)
  <2>1. transcript' \in [Sessions -> Seq(Turns)]
    BY <1>0, <1>3, SayType DEF DomainBoundary
  <2> QED
    BY <1>3, <2>1 DEF DomainBoundary
<1>4. CASE Unlimited(r)
  BY <1>4 DEF Unlimited
<1>5. CASE Reserve(r)
  <2>1. <<ActorOf[r], today>> \in Accounts
    BY SessionAssumption DEF Accounts
  <2>2. inFlight' \in [Accounts -> Nat]
    BY <1>5, <2>1 DEF Reserve
  <2> QED
    BY <1>5, <2>2 DEF Reserve
<1>6. CASE Refuse(r)
  <2>1. transcript' \in [Sessions -> Seq(Turns)]
    BY <1>0, <1>6, SayType DEF Refuse
  <2>2. faults' \in Nat
    BY <1>6 DEF Refuse
  <2> QED
    BY <1>6, <2>1, <2>2 DEF Refuse
<1>7. CASE PersistRefusal(r)
  <2>1. transcript' \in [Sessions -> Seq(Turns)]
    BY <1>0, <1>7, SayType DEF PersistRefusal
  <2> QED
    BY <1>7, <2>1 DEF PersistRefusal, End
<1>8. CASE ExpandFails(r)
  BY <1>8, FailType DEF ExpandFails
<1>9. CASE PersistUser(r)
  <2>1. transcript' \in [Sessions -> Seq(Turns)]
    BY <1>0, <1>9, SayType DEF PersistUser
  <2> QED
    BY <1>9, <2>1 DEF PersistUser
<1>10. CASE NoSession(r)
  BY <1>10, FailType DEF NoSession
<1> QED
  BY <1>1, <1>2, <1>3, <1>4, <1>5, <1>6, <1>7, <1>8, <1>9, <1>10 DEF Enter

\* The compactions, the runner and the return.
LEMMA WorkType ==
  ASSUME TypeOK, NEW r \in Runs, Work(r)
  PROVE  TypeOK'
<1> USE DEF TypeOK, Phases, Inside, Outcomes, quotaVars
<1>0. SessionOf[r] \in Sessions
  BY SessionAssumption
<1>1. CASE SkipCompact(r)
  BY <1>1 DEF SkipCompact, AfterCompact, End
<1>2. CASE BeginCompact(r)
  BY <1>0, <1>2 DEF BeginCompact
<1>3. CASE EndCompact(r)
  <2>1. view[r] \in Seq(Turns)
    OBVIOUS
  <2>2. transcript' \in [Sessions -> Seq(Turns)]
    BY <1>0, <1>3, <2>1, RecentType DEF EndCompact
  <2>3. view' \in [Runs -> Seq(Turns)]
    BY <1>3 DEF EndCompact, Forget
  <2>4. phase' \in [Runs -> Phases] /\ outcome' \in [Runs -> Outcomes]
    BY <1>3 DEF EndCompact, AfterCompact, End
  <2> QED
    BY <1>3, <2>2, <2>3, <2>4 DEF EndCompact
<1>4. CASE Prepare(r)
  BY <1>4, ContextType DEF Prepare
<1>5. CASE RunFails(r)
  BY <1>5, FailType DEF RunFails
<1>6. CASE Overflow(r)
  <2>1. view' \in [Runs -> Seq(Turns)]
    BY <1>6 DEF Overflow, Forget
  <2> QED
    BY <1>6, <2>1 DEF Overflow
<1>7. CASE RunAnswers(r)
  <2>1. QuotaType'
    BY <1>7, FinishType DEF QuotaType, RunAnswers
  <2>2. view' \in [Runs -> Seq(Turns)]
    BY <1>7 DEF RunAnswers, Forget
  <2> QED
    BY <1>7, <2>1, <2>2 DEF RunAnswers, QuotaType
<1>8. CASE PersistAnswer(r)
  <2>1. "answer" \in Kinds
    BY DEF Kinds
  <2>2. transcript' \in [Sessions -> Seq(Turns)]
    BY <1>8, <2>1, SayType DEF PersistAnswer
  <2> QED
    BY <1>8, <2>2 DEF PersistAnswer, End
<1>9. CASE Return(r)
  BY <1>9 DEF Return, LetGo
<1> QED
  BY <1>1, <1>2, <1>3, <1>4, <1>5, <1>6, <1>7, <1>8, <1>9 DEF Work

\* The caller's writes.
LEMMA LeaveType ==
  ASSUME TypeOK, NEW r \in Runs, Leave(r)
  PROVE  TypeOK'
<1> USE DEF TypeOK, Phases, Inside, Outcomes, quotaVars, OnlyPhase
<1>0. SessionOf[r] \in Sessions
  BY SessionAssumption
<1>1. CASE Deliver(r)
  BY <1>1 DEF Deliver
<1>2. CASE Withdraw(r)
  <2>1. transcript[SessionOf[r]] \in Seq(Turns)
    BY <1>0
  <2>2. transcript' \in [Sessions -> Seq(Turns)]
    BY <1>0, <1>2, <2>1, ButLastType DEF Withdraw, EndsWith
  <2> QED
    BY <1>2, <2>2 DEF Withdraw
<1>3. CASE InspectTail(r)
  BY <1>3 DEF InspectTail
<1>4. CASE AppendFailure(r)
  <2>1. FailureKind(r) \in Kinds
    BY DEF FailureKind, Kinds
  <2>2. transcript' \in [Sessions -> Seq(Turns)]
    BY <1>4, <2>1, SayType DEF AppendFailure
  <2> QED
    BY <1>4, <2>2 DEF AppendFailure
<1> QED
  BY <1>1, <1>2, <1>3, <1>4 DEF Leave

\* Every step leaves the state well typed.
LEMMA TypeStep ==
  ASSUME TypeOK, [Next]_vars
  PROVE  TypeOK'
<1> USE DEF Phases, Inside, Outcomes
<1>1. ASSUME NEW r \in Runs, Arrive(r) PROVE TypeOK'
  <2>1. <<ProcOf[r], SessionOf[r]>> \in Procs \X Sessions
    BY SessionAssumption
  <2> QED
    BY <1>1, <2>1 DEF Arrive, TypeOK, quotaVars
<1>2. ASSUME NEW r \in Runs, Drop(r) PROVE TypeOK'
  <2>1. QuotaType'
    BY <1>2, FinishType DEF TypeOK, QuotaType, Drop
  <2>2. view' \in [Runs -> Seq(Turns)]
    BY <1>2 DEF TypeOK, Drop, Forget
  <2>3. phase' \in [Runs -> Phases] /\ outcome' \in [Runs -> Outcomes]
    <3>1. CASE r \in Scheduled
      BY <1>2, <3>1 DEF TypeOK, Drop
    <3>2. CASE r \notin Scheduled
      <4>1. outcome[r] \in Outcomes
        BY <1>2 DEF TypeOK
      <4>2. PICK o \in Outcomes : outcome' = [outcome EXCEPT ![r] = o]
        BY <1>2, <3>2, <4>1 DEF Drop
      <4> QED
        BY <1>2, <3>2, <4>2 DEF TypeOK, Drop
    <3> QED
      BY <3>1, <3>2
  <2> QED
    BY <1>2, <2>1, <2>2, <2>3 DEF TypeOK, QuotaType, Drop, LetGo
<1>3. ASSUME NEW p \in Procs, Crash(p) PROVE TypeOK'
  BY <1>3 DEF TypeOK, Crash
<1>4. CASE NewDay
  BY <1>4, SessionAssumption DEF TypeOK, NewDay
<1>5. CASE UNCHANGED vars
  BY <1>5 DEF TypeOK, vars, quotaVars
<1> QED
  BY <1>1, <1>2, <1>3, <1>4, <1>5, EnterType, WorkType, LeaveType DEF Next

\* Every reachable state of AgentSession is well typed.
THEOREM TypeCorrect == Spec => []TypeOK
<1>1. Init => TypeOK
  BY SessionAssumption DEF Init, TypeOK, Accounts, Phases, Inside, Outcomes
<1>2. TypeOK /\ [Next]_vars => TypeOK'
  BY TypeStep
<1> QED
  BY <1>1, <1>2, PTL DEF Spec

-----------------------------------------------------------------------------
(* Mutual exclusion.  A run that waits or is inside has a lock; every lock   *)
(* in use is the one its registry entry points to, for an entry is replaced  *)
(* only when nobody has its lock; so two runs of one entry have one lock.    *)

Here(r) == <<ProcOf[r], SessionOf[r]>>

HasLock == \A r \in Runs : phase[r] \in Inside \cup {"waiting"} => lockOf[r] # None

Registered == \A r \in Runs : lockOf[r] # None => lockOf[r] = registry[Here(r)]

LockInv == HasLock /\ Registered /\ SessionMutex

\* What every step of a run but its first two does to the locks.
NoEntry(r) ==
  /\ registry' = registry
  /\ \A q \in Runs \ {r} : phase'[q] = phase[q] /\ lockOf'[q] = lockOf[q]
  /\ lockOf'[r] \in {lockOf[r], None}
  /\ phase'[r] # "waiting"
  /\ phase'[r] \in Inside => phase[r] \in Inside /\ lockOf'[r] = lockOf[r]

LEMMA NoEntryLock ==
  ASSUME TypeOK, LockInv, NEW r \in Runs, NoEntry(r)
  PROVE  LockInv'
<1>1. HasLock'
  BY DEF LockInv, HasLock, NoEntry
<1>2. Registered'
  BY DEF LockInv, Registered, NoEntry, Here
<1>3. SessionMutex'
  BY DEF LockInv, SessionMutex, NoEntry
<1> QED
  BY <1>1, <1>2, <1>3 DEF LockInv

\* A step that only moves a run from inside to somewhere but the waiting room.
LEMMA MovesOn ==
  ASSUME TypeOK, NEW r \in Runs, NEW p, p # "waiting",
         phase[r] \in Inside \/ p \notin Inside,
         phase' = [phase EXCEPT ![r] = p],
         UNCHANGED <<lockOf, registry>>
  PROVE  NoEntry(r)
BY DEF TypeOK, NoEntry

LEMMA EnterNoEntry ==
  ASSUME TypeOK, NEW r \in Runs, Enter(r), ~Acquire(r)
  PROVE  NoEntry(r)
<1> USE DEF Inside
<1>1. CASE CompactCommand(r)
  BY <1>1, MovesOn DEF CompactCommand
<1>2. CASE DomainBoundary(r)
  BY <1>2, MovesOn DEF DomainBoundary
<1>3. CASE Unlimited(r)
  BY <1>3, MovesOn DEF Unlimited
<1>4. CASE Reserve(r)
  BY <1>4, MovesOn DEF Reserve
<1>5. CASE Refuse(r)
  BY <1>5, MovesOn DEF Refuse
<1>6. CASE PersistRefusal(r)
  BY <1>6, MovesOn DEF PersistRefusal, End
<1>7. CASE ExpandFails(r)
  BY <1>7, MovesOn DEF ExpandFails, Fail, End
<1>8. CASE PersistUser(r)
  BY <1>8, MovesOn DEF PersistUser
<1>9. CASE NoSession(r)
  BY <1>9, MovesOn DEF NoSession, Fail, End
<1> QED
  BY <1>1, <1>2, <1>3, <1>4, <1>5, <1>6, <1>7, <1>8, <1>9 DEF Enter

LEMMA WorkNoEntry ==
  ASSUME TypeOK, NEW r \in Runs, Work(r)
  PROVE  NoEntry(r)
<1> USE DEF Inside
<1>1. CASE SkipCompact(r)
  <2>1. CASE purpose[r] = "manual"
    BY <1>1, <2>1, MovesOn DEF SkipCompact, AfterCompact, End
  <2>2. CASE purpose[r] # "manual"
    BY <1>1, <2>2, MovesOn DEF SkipCompact, AfterCompact
  <2> QED
    BY <2>1, <2>2
<1>2. CASE BeginCompact(r)
  BY <1>2, MovesOn DEF BeginCompact
<1>3. CASE EndCompact(r)
  <2>1. CASE purpose[r] = "manual"
    BY <1>3, <2>1, MovesOn DEF EndCompact, AfterCompact, End
  <2>2. CASE purpose[r] # "manual"
    BY <1>3, <2>2, MovesOn DEF EndCompact, AfterCompact
  <2> QED
    BY <2>1, <2>2
<1>4. CASE Prepare(r)
  BY <1>4, MovesOn DEF Prepare
<1>5. CASE RunFails(r)
  BY <1>5, MovesOn DEF RunFails, Fail, End
<1>6. CASE Overflow(r)
  BY <1>6, MovesOn DEF Overflow
<1>7. CASE RunAnswers(r)
  BY <1>7, MovesOn DEF RunAnswers
<1>8. CASE PersistAnswer(r)
  BY <1>8, MovesOn DEF PersistAnswer, End
<1>9. CASE Return(r)
  BY <1>9 DEF Return, LetGo, NoEntry, TypeOK
<1> QED
  BY <1>1, <1>2, <1>3, <1>4, <1>5, <1>6, <1>7, <1>8, <1>9 DEF Work

LEMMA LeaveNoEntry ==
  ASSUME TypeOK, NEW r \in Runs, Leave(r)
  PROVE  NoEntry(r)
<1> USE DEF Inside, OnlyPhase
<1>1. CASE Deliver(r)
  BY <1>1, MovesOn DEF Deliver
<1>2. CASE Withdraw(r)
  BY <1>2, MovesOn DEF Withdraw
<1>3. CASE InspectTail(r)
  <2>1. PICK p \in {"done", "reporting"} : OnlyPhase(r, p)
    BY <1>3 DEF InspectTail
  <2> QED
    BY <2>1, MovesOn
<1>4. CASE AppendFailure(r)
  BY <1>4, MovesOn DEF AppendFailure
<1> QED
  BY <1>1, <1>2, <1>3, <1>4 DEF Leave

LEMMA DropNoEntry ==
  ASSUME TypeOK, NEW r \in Runs, Drop(r)
  PROVE  NoEntry(r)
<1>1. PICK p \in {"returned", "done"} : phase' = [phase EXCEPT ![r] = p]
  BY DEF Drop
<1>2. p # "waiting" /\ p \notin Inside
  BY DEF Inside
<1> QED
  BY <1>1, <1>2 DEF Drop, LetGo, NoEntry, TypeOK

\* A run that arrives shares the lock of its registry entry while anybody has
\* it; a new lock replaces one that nobody has.
LEMMA ArriveLock ==
  ASSUME TypeOK, LockInv, NEW r \in Runs, Arrive(r)
  PROVE  LockInv'
<1> DEFINE lock == IF Alive(registry[Here(r)]) THEN registry[Here(r)] ELSE r
<1>0. Here(r) \in Procs \X Sessions
  BY SessionAssumption DEF Here
<1>1. /\ lockOf' = [lockOf EXCEPT ![r] = lock]
      /\ registry' = [registry EXCEPT ![Here(r)] = lock]
      /\ phase' = [phase EXCEPT ![r] = "waiting"]
  BY DEF Arrive, Here
<1>2. lock # None
  BY SessionAssumption DEF Alive
<1>3. ASSUME NEW q \in Runs, q # r, lockOf[q] # None, Here(q) = Here(r)
      PROVE  lock = lockOf[q]
  BY <1>3 DEF LockInv, Registered, Alive
<1> HIDE DEF lock
<1>4. HasLock'
  BY <1>1, <1>2 DEF LockInv, HasLock, TypeOK
<1>5. Registered'
  <2> SUFFICES ASSUME NEW q \in Runs, lockOf'[q] # None
               PROVE  lockOf'[q] = registry'[Here(q)]
    BY DEF Registered, Here
  <2>1. CASE q = r
    BY <1>0, <1>1, <2>1 DEF TypeOK
  <2>2. CASE q # r /\ Here(q) = Here(r)
    BY <1>0, <1>1, <1>3, <2>2 DEF TypeOK
  <2>3. CASE q # r /\ Here(q) # Here(r)
    BY <1>1, <2>3, SessionAssumption DEF LockInv, Registered, TypeOK, Here
  <2> QED
    BY <2>1, <2>2, <2>3
<1>6. SessionMutex'
  BY <1>1 DEF LockInv, SessionMutex, TypeOK, Inside
<1> QED
  BY <1>4, <1>5, <1>6 DEF LockInv

\* A run enters only when nobody with its lock is inside.
LEMMA AcquireLock ==
  ASSUME TypeOK, LockInv, NEW r \in Runs, Acquire(r)
  PROVE  LockInv'
<1>1. HasLock' /\ Registered'
  BY DEF LockInv, HasLock, Registered, Acquire, TypeOK, Inside, Here
<1>2. ASSUME NEW q \in Runs, q # r, Here(q) = Here(r), phase[q] \in Inside
      PROVE  FALSE
  <2>1. lockOf[q] # None /\ lockOf[r] # None
    BY <1>2 DEF LockInv, HasLock, Acquire
  <2>2. lockOf[q] = lockOf[r]
    BY <1>2, <2>1 DEF LockInv, Registered
  <2> QED
    BY <1>2, <2>2 DEF Acquire, Held
<1>3. SessionMutex'
  BY <1>2 DEF LockInv, SessionMutex, Acquire, TypeOK, Here
<1> QED
  BY <1>1, <1>3 DEF LockInv

\* Two runs of one session are never both past the lock of one process,
\* whatever the runs, processes and sessions (get_session_run_lock).
THEOREM MutualExclusion == Spec => []SessionMutex
<1>1. Init => LockInv
  BY DEF Init, LockInv, HasLock, Registered, SessionMutex, Inside
<1>2. TypeOK /\ LockInv /\ [Next]_vars => LockInv'
  <2> SUFFICES ASSUME TypeOK, LockInv, [Next]_vars PROVE LockInv'
    OBVIOUS
  <2>1. ASSUME NEW r \in Runs, Enter(r) \/ Work(r) \/ Leave(r) \/ Drop(r)
        PROVE  LockInv'
    BY <2>1, AcquireLock, EnterNoEntry, WorkNoEntry, LeaveNoEntry, DropNoEntry,
       NoEntryLock
  <2>2. ASSUME NEW p \in Procs, Crash(p) PROVE LockInv'
    <3>1. HasLock' /\ Registered'
      BY <2>2 DEF LockInv, HasLock, Registered, Crash, Mortal, TypeOK, Inside, Here
    <3>2. SessionMutex'
      BY <2>2 DEF LockInv, SessionMutex, Crash, Mortal, TypeOK, Inside
    <3> QED
      BY <3>1, <3>2 DEF LockInv
  <2>3. CASE NewDay \/ UNCHANGED vars
    BY <2>3 DEF LockInv, HasLock, Registered, SessionMutex, NewDay, vars, Here
  <2> QED
    BY <2>1, <2>2, <2>3, ArriveLock DEF Next
<1>3. LockInv => SessionMutex
  BY DEF LockInv
<1> QED
  BY <1>1, <1>2, <1>3, TypeCorrect, PTL DEF Spec

-----------------------------------------------------------------------------
(* The reservations.  Where a run may be with a reservation held, charged or *)
(* not made; and from that, what the record of the store amounts to.         *)

Metering == {"reserved", "compact", "summarising", "ready", "running"}

Before == {"idle", "waiting", "locked"}

\* Nothing is reserved for the unmetered, for a manual compaction, or before
\* the lock is held.
NotReserved(r) ==
  /\ r \in Unmetered \/ phase[r] \in Before => charge[r] = "none"
  /\ phase[r] \in Before => purpose[r] # "manual"
  /\ purpose[r] = "manual" => charge[r] # "held"

HeldWhere(r) == charge[r] = "held" => phase[r] \in Metering

ChargedWhere(r) ==
  charge[r] = "charged" =>
    \/ phase[r] \in {"committed", "gone"}
    \/ phase[r] \in {"ending", "returned", "done"} /\ outcome[r] = "answered"

ChargeOf(r) == NotReserved(r) /\ HeldWhere(r) /\ ChargedWhere(r)

ChargeInv == \A r \in Runs : ChargeOf(r)

\* A step of one run leaves what is known of the other runs.
OnlyRun(r) ==
  \A q \in Runs \ {r} : /\ phase'[q] = phase[q]
                        /\ charge'[q] = charge[q]
                        /\ purpose'[q] = purpose[q]
                        /\ outcome'[q] = outcome[q]

LEMMA OneRunCharge ==
  ASSUME ChargeInv, NEW r \in Runs, OnlyRun(r), ChargeOf(r)'
  PROVE  ChargeInv'
<1>1. ASSUME NEW q \in Runs \ {r} PROVE ChargeOf(q)'
  BY <1>1 DEF ChargeInv, ChargeOf, NotReserved, HeldWhere, ChargedWhere, OnlyRun
<1> QED
  BY <1>1 DEF ChargeInv

\* What becomes of the reservation when a run settles it.
LEMMA FinishCharge ==
  ASSUME TypeOK, NEW r \in Runs, NEW how \in {"charged", "released"},
         Finish(r, how)
  PROVE  /\ \A q \in Runs \ {r} : charge'[q] = charge[q]
         /\ charge[r] = "held" => charge'[r] \in {how, "lost"}
         /\ charge[r] # "held" => charge'[r] = charge[r]
BY DEF Finish, Settle, NothingHeld, SettleFails, quotaVars, TypeOK

LEMMA FailCharge ==
  ASSUME TypeOK, ChargeInv, NEW r \in Runs, Fail(r),
         phase[r] \in {"locked", "reserved", "ready", "running"}
  PROVE  ChargeInv'
<1>1. OnlyRun(r)
  BY FinishCharge DEF OnlyRun, Fail, End, TypeOK
<1>2. ChargeOf(r)
  BY DEF ChargeInv
<1>3. phase'[r] = "ending" /\ purpose'[r] = purpose[r]
  BY DEF Fail, End, TypeOK
<1>4. charge'[r] # "held" /\ (charge'[r] = "charged" => charge[r] = "charged")
  BY FinishCharge DEF Fail
<1>5. r \in Unmetered => charge'[r] = "none"
  BY <1>2, FinishCharge DEF Fail, ChargeOf, NotReserved
<1>6. ChargeOf(r)'
  BY <1>2, <1>3, <1>4, <1>5
  DEF ChargeOf, NotReserved, HeldWhere, ChargedWhere, Before
<1> QED
  BY <1>1, <1>6, OneRunCharge

LEMMA EnterCharge ==
  ASSUME TypeOK, ChargeInv, NEW r \in Runs, Enter(r)
  PROVE  ChargeInv'
<1>0. ChargeOf(r)
  BY DEF ChargeInv
<1> USE DEF TypeOK, OnlyRun, ChargeOf, NotReserved, HeldWhere, ChargedWhere,
            Metering, Before, quotaVars
<1>1. CASE Acquire(r)
  BY <1>0, <1>1, OneRunCharge DEF Acquire
<1>2. CASE CompactCommand(r)
  BY <1>0, <1>2, OneRunCharge DEF CompactCommand
<1>3. CASE DomainBoundary(r)
  BY <1>0, <1>3, OneRunCharge DEF DomainBoundary
<1>4. CASE Unlimited(r)
  BY <1>0, <1>4, OneRunCharge DEF Unlimited
<1>5. CASE Reserve(r)
  BY <1>0, <1>5, OneRunCharge DEF Reserve
<1>6. CASE Refuse(r)
  BY <1>0, <1>6, OneRunCharge DEF Refuse
<1>7. CASE PersistRefusal(r)
  BY <1>0, <1>7, OneRunCharge DEF PersistRefusal, End
<1>8. CASE ExpandFails(r)
  BY <1>8, FailCharge DEF ExpandFails
<1>9. CASE PersistUser(r)
  BY <1>0, <1>9, OneRunCharge DEF PersistUser
<1>10. CASE NoSession(r)
  BY <1>10, FailCharge DEF NoSession
<1> QED
  BY <1>1, <1>2, <1>3, <1>4, <1>5, <1>6, <1>7, <1>8, <1>9, <1>10 DEF Enter

LEMMA WorkCharge ==
  ASSUME TypeOK, ChargeInv, NEW r \in Runs, Work(r)
  PROVE  ChargeInv'
<1>0. ChargeOf(r)
  BY DEF ChargeInv
<1> USE DEF TypeOK, OnlyRun, ChargeOf, NotReserved, HeldWhere, ChargedWhere,
            Metering, Before, quotaVars
<1>1. CASE SkipCompact(r)
  BY <1>0, <1>1, OneRunCharge DEF SkipCompact, AfterCompact, End
<1>2. CASE BeginCompact(r)
  BY <1>0, <1>2, OneRunCharge DEF BeginCompact
<1>3. CASE EndCompact(r)
  BY <1>0, <1>3, OneRunCharge DEF EndCompact, AfterCompact, End
<1>4. CASE Prepare(r)
  BY <1>0, <1>4, OneRunCharge DEF Prepare
<1>5. CASE RunFails(r)
  BY <1>5, FailCharge DEF RunFails
<1>6. CASE Overflow(r)
  BY <1>0, <1>6, OneRunCharge DEF Overflow
<1>7. CASE RunAnswers(r)
  <2>1. OnlyRun(r)
    BY <1>7, FinishCharge DEF RunAnswers
  <2>2. phase'[r] = "committed" /\ purpose'[r] = purpose[r]
    BY <1>7 DEF RunAnswers
  <2>3. charge'[r] # "held" /\ (r \in Unmetered => charge'[r] = "none")
    BY <1>0, <1>7, FinishCharge DEF RunAnswers
  <2>4. ChargeOf(r)'
    BY <2>2, <2>3
  <2> QED
    BY <2>1, <2>4, OneRunCharge
<1>8. CASE PersistAnswer(r)
  BY <1>0, <1>8, OneRunCharge DEF PersistAnswer, End
<1>9. CASE Return(r)
  BY <1>0, <1>9, OneRunCharge DEF Return
<1> QED
  BY <1>1, <1>2, <1>3, <1>4, <1>5, <1>6, <1>7, <1>8, <1>9 DEF Work

LEMMA LeaveCharge ==
  ASSUME TypeOK, ChargeInv, NEW r \in Runs, Leave(r)
  PROVE  ChargeInv'
<1>0. ChargeOf(r)
  BY DEF ChargeInv
<1> USE DEF TypeOK, OnlyRun, ChargeOf, NotReserved, HeldWhere, ChargedWhere,
            Metering, Before, quotaVars, OnlyPhase
<1>1. CASE Deliver(r)
  BY <1>0, <1>1, OneRunCharge DEF Deliver
<1>2. CASE Withdraw(r)
  BY <1>0, <1>2, SessionAssumption, OneRunCharge DEF Withdraw
<1>3. CASE InspectTail(r)
  BY <1>0, <1>3, OneRunCharge DEF InspectTail
<1>4. CASE AppendFailure(r)
  BY <1>0, <1>4, OneRunCharge DEF AppendFailure
<1> QED
  BY <1>1, <1>2, <1>3, <1>4 DEF Leave

LEMMA DropCharge ==
  ASSUME TypeOK, ChargeInv, NEW r \in Runs, Drop(r)
  PROVE  ChargeInv'
<1>0. ChargeOf(r)
  BY DEF ChargeInv
<1>1. OnlyRun(r)
  BY FinishCharge DEF OnlyRun, Drop, TypeOK
<1>2. /\ phase'[r] \in {"returned", "done"}
      /\ purpose'[r] = purpose[r]
      /\ r \notin Scheduled =>
           phase'[r] = "done" /\ (outcome[r] # "none" => outcome'[r] = outcome[r])
  BY DEF Drop, TypeOK
<1>3. /\ charge'[r] # "held"
      /\ charge'[r] = "charged" => charge[r] = "charged"
      /\ r \in Unmetered => charge'[r] = "none"
  BY <1>0, FinishCharge DEF Drop, ChargeOf, NotReserved
<1>4. charge'[r] = "charged" => phase'[r] = "done" /\ outcome'[r] = "answered"
  <2> SUFFICES ASSUME charge'[r] = "charged"
               PROVE  phase'[r] = "done" /\ outcome'[r] = "answered"
    OBVIOUS
  <2>1. r \notin Scheduled
    BY <1>3, SessionAssumption
  <2>2. outcome[r] = "answered"
    BY <1>0, <1>3 DEF ChargeOf, ChargedWhere, Drop, Awaiting
  <2> QED
    BY <1>2, <2>1, <2>2
<1>5. ChargeOf(r)'
  BY <1>0, <1>2, <1>3, <1>4
  DEF ChargeOf, NotReserved, HeldWhere, ChargedWhere, Before
<1> QED
  BY <1>1, <1>5, OneRunCharge

LEMMA ChargeStep ==
  ASSUME TypeOK, ChargeInv, [Next]_vars
  PROVE  ChargeInv'
<1>1. ASSUME NEW r \in Runs, Arrive(r) PROVE ChargeInv'
  <2>1. ChargeOf(r)
    BY DEF ChargeInv
  <2>2. OnlyRun(r) /\ ChargeOf(r)'
    BY <1>1, <2>1 DEF Arrive, OnlyRun, ChargeOf, NotReserved, HeldWhere,
                      ChargedWhere, Metering, Before, TypeOK, quotaVars
  <2> QED
    BY <2>2, OneRunCharge
<1>2. ASSUME NEW p \in Procs, Crash(p) PROVE ChargeInv'
  <2> SUFFICES ASSUME NEW r \in Runs PROVE ChargeOf(r)'
    BY DEF ChargeInv
  <2>1. ChargeOf(r)
    BY DEF ChargeInv
  <2>2. CASE r \in Mortal(p)
    BY <1>2, <2>1, <2>2 DEF Crash, ChargeOf, NotReserved, HeldWhere,
                            ChargedWhere, Before, Metering
  <2>3. CASE r \notin Mortal(p)
    BY <1>2, <2>1, <2>3 DEF Crash, ChargeOf, NotReserved, HeldWhere, ChargedWhere
  <2> QED
    BY <2>2, <2>3
<1>3. CASE NewDay \/ UNCHANGED vars
  BY <1>3 DEF ChargeInv, ChargeOf, NotReserved, HeldWhere, ChargedWhere, NewDay,
              vars, quotaVars
<1> QED
  BY <1>1, <1>2, <1>3, EnterCharge, WorkCharge, LeaveCharge, DropCharge DEF Next

LEMMA ChargesInPlace == Spec => []ChargeInv
<1>1. Init => ChargeInv
  BY DEF Init, ChargeInv, ChargeOf, NotReserved, HeldWhere, ChargedWhere
<1>2. TypeOK /\ ChargeInv /\ [Next]_vars => ChargeInv'
  BY ChargeStep
<1> QED
  BY <1>1, <1>2, TypeCorrect, PTL DEF Spec

\* A run is charged only for an answer, and one that is over holds nothing,
\* whichever step ended it (QuotaReservationGuard).
THEOREM ChargedForAnswers == Spec => []OnlyAnswersAreCharged
<1>1. ChargeInv => OnlyAnswersAreCharged
  BY DEF ChargeInv, ChargeOf, HeldWhere, ChargedWhere, Metering,
         OnlyAnswersAreCharged
<1> QED
  BY <1>1, ChargesInPlace, PTL

-----------------------------------------------------------------------------
(* The quota record.  A reservation adds a run to those its account owes,    *)
(* settling it takes the run out and, for an answer, counts it.              *)

LEMMA AccountSets ==
  ASSUME NEW x
  PROVE  /\ IsFiniteSet(Owing(x)) /\ IsFiniteSet(Charged(x))
         /\ Cardinality(Owing(x)) \in Nat /\ Cardinality(Charged(x)) \in Nat
<1>1. Owing(x) \subseteq Runs /\ Charged(x) \subseteq Runs
  BY DEF Owing, Charged
<1> QED
  BY <1>1, SessionAssumption, FS_Subset, FS_CardinalityType

\* The record follows when no account changes its runs.
LEMMA SameAccounts ==
  ASSUME QuotaAccounts, UNCHANGED <<inFlight, success>>,
         \A x \in Accounts : Owing(x)' = Owing(x) /\ Charged(x)' = Charged(x)
  PROVE  QuotaAccounts'
BY DEF QuotaAccounts

LEMMA SettleAccounts ==
  ASSUME TypeOK, QuotaAccounts, QuotaCeiling, NEW r \in Runs,
         NEW how \in {"charged", "released"}, Settle(r, how)
  PROVE  QuotaAccounts' /\ QuotaCeiling'
<1>0. PICK a \in Accounts : a = AccountOf(r)
  BY SessionAssumption DEF AccountOf, Accounts, TypeOK
<1>1. /\ charge[r] = "held" /\ day' = day
      /\ charge' = [charge EXCEPT ![r] = how]
  BY DEF Settle
<1>2. r \in Owing(a) /\ r \notin Charged(a)
  BY <1>0, <1>1 DEF Owing, Charged
<1>3. Owing(a)' = Owing(a) \ {r}
  BY <1>0, <1>1 DEF Owing, AccountOf, TypeOK
<1>4. Charged(a)' = IF how = "charged" THEN Charged(a) \cup {r} ELSE Charged(a)
  BY <1>0, <1>1 DEF Charged, AccountOf, TypeOK
<1>5. ASSUME NEW x \in Accounts, x # a
      PROVE  Owing(x)' = Owing(x) /\ Charged(x)' = Charged(x)
  BY <1>0, <1>1, <1>5 DEF Owing, Charged, AccountOf, TypeOK
<1>6. Cardinality(Owing(a)') = Cardinality(Owing(a)) - 1
  BY <1>2, <1>3, AccountSets, FS_RemoveElement
<1>7. Cardinality(Charged(a)') =
        IF how = "charged" THEN Cardinality(Charged(a)) + 1 ELSE Cardinality(Charged(a))
  BY <1>2, <1>4, AccountSets, FS_AddElement
<1>8. inFlight[a] # 0
  <2>1. Owing(a) # {}
    BY <1>2
  <2>2. Cardinality(Owing(a)) # 0
    BY <2>1, AccountSets, FS_EmptySet
  <2> QED
    BY <1>0, <2>2 DEF QuotaAccounts
<1>9. /\ inFlight' = [inFlight EXCEPT ![a] = @ - 1]
      /\ success' = [success EXCEPT ![a] = IF how = "charged" THEN @ + 1 ELSE @]
  BY <1>0, <1>8 DEF Settle, TypeOK
<1>10. QuotaAccounts'
  <2> SUFFICES ASSUME NEW x \in Accounts
               PROVE  /\ inFlight'[x] = Cardinality(Owing(x)')
                      /\ success'[x] = Cardinality(Charged(x)')
    BY DEF QuotaAccounts
  <2>1. CASE x = a
    <3>1. inFlight[a] = Cardinality(Owing(a)) /\ success[a] = Cardinality(Charged(a))
      BY <1>0 DEF QuotaAccounts
    <3>2. /\ inFlight'[a] = inFlight[a] - 1
          /\ success'[a] = IF how = "charged" THEN success[a] + 1 ELSE success[a]
      BY <1>0, <1>9 DEF TypeOK
    <3> QED
      BY <1>6, <1>7, <2>1, <3>1, <3>2
  <2>2. CASE x # a
    BY <1>5, <1>9, <2>2 DEF QuotaAccounts, TypeOK
  <2> QED
    BY <2>1, <2>2
<1>11. QuotaCeiling'
  <2> SUFFICES ASSUME NEW x \in Accounts
               PROVE  success'[x] + inFlight'[x] <= Limit
    BY DEF QuotaCeiling
  <2>1. Limit \in Nat /\ inFlight[x] \in Nat /\ success[x] \in Nat
    BY SessionAssumption DEF TypeOK
  <2> QED
    BY <1>8, <1>9, <2>1 DEF QuotaCeiling, TypeOK
<1> QED
  BY <1>10, <1>11

\* However a run gives up its reservation, the record stays right.
LEMMA FinishAccounts ==
  ASSUME TypeOK, QuotaAccounts, QuotaCeiling, NEW r \in Runs,
         NEW how \in {"charged", "released"}, Finish(r, how)
  PROVE  QuotaAccounts' /\ QuotaCeiling'
<1>1. CASE Settle(r, how)
  BY <1>1, SettleAccounts
<1>2. CASE NothingHeld(r)
  BY <1>2, SameAccounts DEF NothingHeld, quotaVars, QuotaCeiling, Owing, Charged,
                            AccountOf
<1>3. CASE SettleFails(r)
  <2>1. \A x \in Accounts : Owing(x)' = Owing(x) /\ Charged(x)' = Charged(x)
    BY <1>3 DEF SettleFails, Owing, Charged, AccountOf, TypeOK
  <2>2. QuotaAccounts'
    BY <1>3, <2>1, SameAccounts DEF SettleFails
  <2> QED
    BY <1>3, <2>2 DEF SettleFails, QuotaCeiling
<1> QED
  BY <1>1, <1>2, <1>3 DEF Finish

LEMMA ReserveAccounts ==
  ASSUME TypeOK, ChargeInv, QuotaAccounts, QuotaCeiling, NEW r \in Runs, Reserve(r)
  PROVE  QuotaAccounts' /\ QuotaCeiling'
<1>0. PICK a \in Accounts : a = <<ActorOf[r], today>>
  BY SessionAssumption DEF Accounts, TypeOK
<1>1. charge[r] = "none"
  BY DEF Reserve, ChargeInv, ChargeOf, NotReserved, Before
<1>2. /\ charge' = [charge EXCEPT ![r] = "held"]
      /\ day' = [day EXCEPT ![r] = today]
      /\ inFlight' = [inFlight EXCEPT ![a] = @ + 1]
      /\ success' = success
      /\ success[a] + inFlight[a] < Limit
  BY <1>0 DEF Reserve, Room
<1>3. Owing(a)' = Owing(a) \cup {r} /\ r \notin Owing(a)
  <2>1. AccountOf(r)' = a
    BY <1>0, <1>2 DEF AccountOf, TypeOK
  <2>2. \A q \in Runs \ {r} : AccountOf(q)' = AccountOf(q) /\ charge'[q] = charge[q]
    BY <1>2 DEF AccountOf, TypeOK
  <2>3. charge'[r] = "held"
    BY <1>2 DEF TypeOK
  <2> QED
    BY <1>1, <2>1, <2>2, <2>3 DEF Owing
<1>4. ASSUME NEW x \in Accounts, x # a PROVE Owing(x)' = Owing(x)
  BY <1>0, <1>1, <1>2, <1>4 DEF Owing, AccountOf, TypeOK
<1>5. ASSUME NEW x \in Accounts PROVE Charged(x)' = Charged(x)
  BY <1>1, <1>2 DEF Charged, AccountOf, TypeOK
<1>6. Cardinality(Owing(a)') = Cardinality(Owing(a)) + 1
  BY <1>3, AccountSets, FS_AddElement
<1>7. QuotaAccounts'
  <2> SUFFICES ASSUME NEW x \in Accounts
               PROVE  /\ inFlight'[x] = Cardinality(Owing(x)')
                      /\ success'[x] = Cardinality(Charged(x)')
    BY DEF QuotaAccounts
  <2>1. CASE x = a
    <3>1. inFlight[a] = Cardinality(Owing(a)) /\ success[a] = Cardinality(Charged(a))
      BY <1>0 DEF QuotaAccounts
    <3>2. inFlight'[a] = inFlight[a] + 1 /\ success'[a] = success[a]
      BY <1>0, <1>2 DEF TypeOK
    <3> QED
      BY <1>0, <1>5, <1>6, <2>1, <3>1, <3>2
  <2>2. CASE x # a
    BY <1>2, <1>4, <1>5, <2>2 DEF QuotaAccounts, TypeOK
  <2> QED
    BY <2>1, <2>2
<1>8. QuotaCeiling'
  <2> SUFFICES ASSUME NEW x \in Accounts
               PROVE  success'[x] + inFlight'[x] <= Limit
    BY DEF QuotaCeiling
  <2>1. Limit \in Nat /\ inFlight[x] \in Nat /\ success[x] \in Nat
    BY SessionAssumption DEF TypeOK
  <2> QED
    BY <1>2, <2>1 DEF QuotaCeiling, TypeOK
<1> QED
  BY <1>7, <1>8

\* The steps that leave the record and the reservations alone.
NoQuota == UNCHANGED <<inFlight, success, charge, day>>

LEMMA NoQuotaAccounts ==
  ASSUME QuotaAccounts, QuotaCeiling, NoQuota
  PROVE  QuotaAccounts' /\ QuotaCeiling'
<1>1. \A x \in Accounts : Owing(x)' = Owing(x) /\ Charged(x)' = Charged(x)
  BY DEF NoQuota, Owing, Charged, AccountOf
<1> QED
  BY <1>1, SameAccounts DEF NoQuota, QuotaCeiling

LEMMA RunQuota ==
  ASSUME NEW r \in Runs, Arrive(r) \/ Enter(r) \/ Work(r) \/ Leave(r) \/ Drop(r)
  PROVE  \/ Reserve(r) \/ NoQuota
         \/ \E how \in {"charged", "released"} : Finish(r, how)
<1> USE DEF NoQuota, quotaVars
<1>1. CASE Arrive(r)
  BY <1>1 DEF Arrive
<1>2. CASE Enter(r)
  BY <1>2 DEF Enter, Acquire, CompactCommand, DomainBoundary, Unlimited, Refuse,
              PersistRefusal, NoSession, ExpandFails, Fail, PersistUser
<1>3. CASE Work(r)
  BY <1>3 DEF Work, SkipCompact, BeginCompact, EndCompact, Prepare, RunFails, Fail,
              Overflow, RunAnswers, PersistAnswer, Return
<1>4. CASE Leave(r)
  BY <1>4 DEF Leave, Deliver, Withdraw, InspectTail, AppendFailure, OnlyPhase
<1>5. CASE Drop(r)
  BY <1>5 DEF Drop
<1> QED
  BY <1>1, <1>2, <1>3, <1>4, <1>5

LEMMA AccountsStep ==
  ASSUME TypeOK, ChargeInv, QuotaAccounts, QuotaCeiling, [Next]_vars
  PROVE  QuotaAccounts' /\ QuotaCeiling'
<1>1. ASSUME NEW r \in Runs,
             Arrive(r) \/ Enter(r) \/ Work(r) \/ Leave(r) \/ Drop(r)
      PROVE  QuotaAccounts' /\ QuotaCeiling'
  BY <1>1, RunQuota, ReserveAccounts, NoQuotaAccounts, FinishAccounts
<1>2. ASSUME NEW p \in Procs, Crash(p) PROVE QuotaAccounts' /\ QuotaCeiling'
  <2>1. \A x \in Accounts : Owing(x)' = Owing(x) /\ Charged(x)' = Charged(x)
    BY <1>2 DEF Crash, Owing, Charged, AccountOf
  <2>2. QuotaAccounts'
    BY <1>2, <2>1, SameAccounts DEF Crash
  <2> QED
    BY <1>2, <2>2 DEF Crash, QuotaCeiling
<1>3. CASE NewDay \/ UNCHANGED vars
  BY <1>3, NoQuotaAccounts DEF NoQuota, NewDay, vars, quotaVars
<1> QED
  BY <1>1, <1>2, <1>3 DEF Next

LEMMA AccountsKept == Spec => [](QuotaAccounts /\ QuotaCeiling)
<1>1. Init => QuotaAccounts /\ QuotaCeiling
  <2> SUFFICES ASSUME Init PROVE QuotaAccounts /\ QuotaCeiling
    OBVIOUS
  <2>1. \A x : Owing(x) = {} /\ Charged(x) = {}
    BY DEF Init, Owing, Charged
  <2>2. \A x \in Accounts : inFlight[x] = 0 /\ success[x] = 0
    BY DEF Init
  <2>3. QuotaAccounts
    BY <2>1, <2>2, FS_EmptySet DEF QuotaAccounts
  <2>4. QuotaCeiling
    BY <2>2, SessionAssumption DEF QuotaCeiling
  <2> QED
    BY <2>3, <2>4
<1>2. TypeOK /\ ChargeInv /\ QuotaAccounts /\ QuotaCeiling /\ [Next]_vars
        => QuotaAccounts' /\ QuotaCeiling'
  BY AccountsStep
<1> QED
  BY <1>1, <1>2, TypeCorrect, ChargesInPlace, PTL DEF Spec

\* The quota record is exactly the answered runs and the runs under way or lost
\* (try_reserve_daily_conversation, finish_reservation).
THEOREM RecordAgrees == Spec => []QuotaAccounts
BY AccountsKept, PTL

\* No actor has more answered and pending runs on a date than the limit.
THEOREM CeilingHolds == Spec => []QuotaCeiling
BY AccountsKept, PTL
=============================================================================
