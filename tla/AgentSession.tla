---------------------------- MODULE AgentSession ----------------------------
(***************************************************************************)
(* One call of AgentSession::run from its arrival to the turn it leaves in *)
(* the conversation (crates/hone-channels/src/agent_session/core.rs): the  *)
(* per-session run lock kept as weak references, the daily quota and its   *)
(* RAII guard (guard.rs, memory/src/quota.rs), the transcript              *)
(* (memory/src/session.rs), the compactor (session_compactor.rs), and what *)
(* the callers write after the run has returned and its lock is free       *)
(* (crates/hone-channels/src/scheduler.rs, bins/hone-feishu/src).          *)
(*                                                                         *)
(* A run happens once, so a run also names the lock it created.  A turn is *)
(* its author run and its kind; the text is left out, and so are the       *)
(* system turns of a compaction, which no context contains.                *)
(***************************************************************************)
EXTENDS Integers, Sequences, FiniteSets

CONSTANTS
  Runs, Procs, Sessions, Actors, None,
  ProcOf, SessionOf, ActorOf,   \* where, in which conversation, for whom
  Scheduled,     \* runs of quota_mode ScheduledTask
  Unmetered,     \* runs without a reservation: scheduled, or of an admin
  Droppable,     \* runs whose caller may drop the future
  Limit,         \* daily_conversation_limit
  Retain,        \* turns a compaction keeps
  MaxDay, MaxCrashes, MaxFaults    \* bounds of a model

ASSUME SessionAssumption ==
  /\ IsFiniteSet(Runs)
  /\ None \notin Runs
  /\ ProcOf \in [Runs -> Procs]
  /\ SessionOf \in [Runs -> Sessions]
  /\ ActorOf \in [Runs -> Actors]
  /\ Scheduled \subseteq Unmetered
  /\ Unmetered \subseteq Runs
  /\ {Limit, Retain} \subseteq Nat \ {0}
  /\ {MaxDay, MaxCrashes, MaxFaults} \subseteq Nat

VARIABLES
  phase,      \* where each run is
  lockOf,     \* the lock a run waits for or holds (its Arc), or None
  registry,   \* SESSION_RUN_LOCKS of each process: a weak reference
  today,      \* the Beijing date
  inFlight, success,   \* the quota record of an actor and a date
  charge,     \* what became of a run's reservation
  day,        \* the date a run reserved for
  purpose,    \* why a run compacts, or compacted last
  view,       \* the turns a run read and still works with
  outcome,
  transcript, \* the messages of a session
  crashes, faults      \* how many happened so far

quotaVars == <<today, inFlight, success, charge, day>>
vars == <<phase, lockOf, registry, quotaVars, purpose, view, outcome,
          transcript, crashes, faults>>

\* The steps taken under the run lock.  At the ones in Awaiting the future is
\* suspended, so there it can be dropped.
Inside == {"locked", "reserved", "refused", "bounced", "compact", "summarising",
           "ready", "running", "committed", "ending"}
Awaiting == {"waiting", "refused", "bounced", "compact", "summarising", "ready",
             "running", "ending"}
Phases == Inside \cup {"idle", "waiting", "returned", "reporting", "done", "gone"}

Outcomes == {"none", "answered", "compacted", "failed", "refused", "timeout",
             "dropped", "skipped"}
Kinds == {"user", "answer", "refusal", "failure", "timeout", "overheard", "notice"}
Turns == [kind : Kinds, run : Runs]
Turn(k, r) == [kind |-> k, run |-> r]

Accounts == Actors \X (0..MaxDay)
AccountOf(r) == <<ActorOf[r], day[r]>>

TypeOK ==
  /\ phase \in [Runs -> Phases]
  /\ lockOf \in [Runs -> Runs \cup {None}]
  /\ registry \in [Procs \X Sessions -> Runs \cup {None}]
  /\ today \in 0..MaxDay
  /\ inFlight \in [Accounts -> Nat]
  /\ success \in [Accounts -> Nat]
  /\ charge \in [Runs -> {"none", "held", "charged", "released", "lost"}]
  /\ day \in [Runs -> 0..MaxDay]
  /\ purpose \in [Runs -> {"auto", "manual", "overflow"}]
  /\ view \in [Runs -> Seq(Turns)]
  /\ outcome \in [Runs -> Outcomes]
  /\ transcript \in [Sessions -> Seq(Turns)]
  /\ crashes \in Nat
  /\ faults \in Nat

Init ==
  /\ phase = [r \in Runs |-> "idle"]
  /\ lockOf = [r \in Runs |-> None]
  /\ registry = [x \in Procs \X Sessions |-> None]
  /\ today = 0
  /\ inFlight = [x \in Accounts |-> 0]
  /\ success = [x \in Accounts |-> 0]
  /\ charge = [r \in Runs |-> "none"]
  /\ day = [r \in Runs |-> 0]
  /\ purpose = [r \in Runs |-> "auto"]
  /\ view = [r \in Runs |-> <<>>]
  /\ outcome = [r \in Runs |-> "none"]
  /\ transcript = [s \in Sessions |-> <<>>]
  /\ crashes = 0
  /\ faults = 0

-----------------------------------------------------------------------------
(* The run lock.                                                           *)

\* mutant: a lock counts as used only while somebody is past it
AliveWhileHeld(l) == l # None /\ \E r \in Runs : lockOf[r] = l /\ phase[r] \in Inside

\* A weak reference can be upgraded while some run still has the Arc.
Alive(l) == l # None /\ \E r \in Runs : lockOf[r] = l

\* get_session_run_lock, and the start of lock_owned().await
Arrive(r) ==
  /\ phase[r] = "idle"
  /\ LET here == <<ProcOf[r], SessionOf[r]>>
         lock == IF Alive(registry[here]) THEN registry[here] ELSE r
     IN /\ lockOf' = [lockOf EXCEPT ![r] = lock]
        /\ registry' = [registry EXCEPT ![here] = lock]
  /\ phase' = [phase EXCEPT ![r] = "waiting"]
  /\ UNCHANGED <<quotaVars, purpose, view, outcome, transcript, crashes, faults>>

\* mutant: the lock guards only the runner
HeldByRunner(l) == \E r \in Runs : lockOf[r] = l /\ phase[r] \in {"running", "committed"}

Held(l) == \E r \in Runs : lockOf[r] = l /\ phase[r] \in Inside

Acquire(r) ==
  /\ phase[r] = "waiting"
  /\ ~Held(lockOf[r])
  /\ phase' = [phase EXCEPT ![r] = "locked"]
  /\ UNCHANGED <<lockOf, registry, quotaVars, purpose, view, outcome, transcript,
                 crashes, faults>>

\* The run's future ends: its Arc of the lock goes.
LetGo(r) == lockOf' = [lockOf EXCEPT ![r] = None]

\* What the run read goes out of scope.
Forget(r) == view' = [view EXCEPT ![r] = <<>>]

-----------------------------------------------------------------------------
(* The transcript and the quota record.                                    *)

Say(r, kind) ==
  transcript' = [transcript EXCEPT ![SessionOf[r]] = Append(@, Turn(kind, r))]

LastTurn(s) == transcript[s][Len(transcript[s])]
EndsWith(s, t) == transcript[s] # <<>> /\ LastTurn(s) = t
ButLast(t) == SubSeq(t, 1, Len(t) - 1)

\* The run is over for the caller; the lock goes with Return.
End(r, result) ==
  /\ phase' = [phase EXCEPT ![r] = "ending"]
  /\ outcome' = [outcome EXCEPT ![r] = result]

\* mutant: an answer is counted, its reservation stays
SettleKeeping(r, how) ==
  /\ charge[r] = "held"
  /\ charge' = [charge EXCEPT ![r] = how]
  /\ inFlight' = [inFlight EXCEPT ![AccountOf(r)] = IF how = "charged" THEN @ ELSE @ - 1]
  /\ success' = [success EXCEPT ![AccountOf(r)] = IF how = "charged" THEN @ + 1 ELSE @]
  /\ UNCHANGED <<today, day, faults>>

\* QuotaReservationGuard: commit or drop takes the reservation and settles it
\* (finish_reservation); an error of the store is ignored.
Settle(r, how) ==
  /\ charge[r] = "held"
  /\ charge' = [charge EXCEPT ![r] = how]
  /\ inFlight' = [inFlight EXCEPT ![AccountOf(r)] = IF @ = 0 THEN 0 ELSE @ - 1]
  /\ success' = [success EXCEPT ![AccountOf(r)] = IF how = "charged" THEN @ + 1 ELSE @]
  /\ UNCHANGED <<today, day, faults>>

NothingHeld(r) == charge[r] # "held" /\ UNCHANGED <<quotaVars, faults>>

SettleFails(r) ==
  /\ charge[r] = "held"
  /\ faults < MaxFaults
  /\ faults' = faults + 1
  /\ charge' = [charge EXCEPT ![r] = "lost"]
  /\ UNCHANGED <<today, inFlight, success, day>>

Finish(r, how) == Settle(r, how) \/ NothingHeld(r) \/ SettleFails(r)

-----------------------------------------------------------------------------
(* AgentSession::run, under the lock.                                      *)

\* "/compact": run_manual_compact
CompactCommand(r) ==
  /\ phase[r] = "locked"
  /\ r \notin Scheduled
  /\ phase' = [phase EXCEPT ![r] = "compact"]
  /\ purpose' = [purpose EXCEPT ![r] = "manual"]
  /\ UNCHANGED <<lockOf, registry, quotaVars, view, outcome, transcript, crashes, faults>>

\* run_domain_boundary_short_circuit: the question, then a fixed answer
DomainBoundary(r) ==
  /\ phase[r] = "locked"
  /\ r \notin Unmetered
  /\ Say(r, "user")
  /\ phase' = [phase EXCEPT ![r] = "bounced"]
  /\ UNCHANGED <<lockOf, registry, quotaVars, purpose, view, outcome, crashes, faults>>

Unlimited(r) ==
  /\ phase[r] = "locked"
  /\ r \in Unmetered
  /\ phase' = [phase EXCEPT ![r] = "reserved"]
  /\ UNCHANGED <<lockOf, registry, quotaVars, purpose, view, outcome, transcript,
                 crashes, faults>>

\* mutant: only answers count
RoomForAnswers(r) == success[<<ActorOf[r], today>>] < Limit

Room(r) == LET x == <<ActorOf[r], today>> IN success[x] + inFlight[x] < Limit

\* mutant: the date of UTC
ReserveInUtc(r) ==
  /\ phase[r] = "locked"
  /\ r \notin Unmetered
  /\ Room(r)
  /\ inFlight' = [inFlight EXCEPT ![<<ActorOf[r], today>>] = @ + 1]
  /\ day' = [day EXCEPT ![r] = today - 1]
  /\ charge' = [charge EXCEPT ![r] = "held"]
  /\ phase' = [phase EXCEPT ![r] = "reserved"]
  /\ UNCHANGED <<lockOf, registry, today, success, purpose, view, outcome,
                 transcript, crashes, faults>>

\* try_reserve_daily_conversation, one critical section (or one statement)
Reserve(r) ==
  /\ phase[r] = "locked"
  /\ r \notin Unmetered
  /\ Room(r)
  /\ inFlight' = [inFlight EXCEPT ![<<ActorOf[r], today>>] = @ + 1]
  /\ day' = [day EXCEPT ![r] = today]
  /\ charge' = [charge EXCEPT ![r] = "held"]
  /\ phase' = [phase EXCEPT ![r] = "reserved"]
  /\ UNCHANGED <<lockOf, registry, today, success, purpose, view, outcome,
                 transcript, crashes, faults>>

\* Over the limit, or the quota record cannot be read: the question is kept
\* and then refused.
Refuse(r) ==
  /\ phase[r] = "locked"
  /\ r \notin Unmetered
  /\ \/ ~Room(r) /\ UNCHANGED faults
     \/ faults < MaxFaults /\ faults' = faults + 1
  /\ Say(r, "user")
  /\ phase' = [phase EXCEPT ![r] = "refused"]
  /\ UNCHANGED <<lockOf, registry, quotaVars, purpose, view, outcome, crashes>>

PersistRefusal(r) ==
  /\ phase[r] = "refused"
  /\ Say(r, "refusal")
  /\ End(r, "refused")
  /\ UNCHANGED <<lockOf, registry, quotaVars, purpose, view, crashes, faults>>

\* mutant: an early return that forgets the reservation
FailKeeping(r) ==
  /\ End(r, "failed")
  /\ Forget(r)
  /\ UNCHANGED <<lockOf, registry, quotaVars, purpose, transcript, crashes, faults>>

Fail(r) ==
  /\ Finish(r, "released")
  /\ End(r, "failed")
  /\ Forget(r)
  /\ UNCHANGED <<lockOf, registry, purpose, transcript, crashes>>

\* ensure_session_exists finds no session and cannot create one.
NoSession(r) == phase[r] = "locked" /\ Fail(r)

\* A slash skill that cannot be expanded ends the run.
ExpandFails(r) == phase[r] = "reserved" /\ r \notin Scheduled /\ Fail(r)

\* Fast Persist: the question is on record before the runner starts.
PersistUser(r) ==
  /\ phase[r] = "reserved"
  /\ Say(r, "user")
  /\ phase' = [phase EXCEPT ![r] = "compact"]
  /\ UNCHANGED <<lockOf, registry, quotaVars, purpose, view, outcome, crashes, faults>>

-----------------------------------------------------------------------------
(* Compaction: read, ask a model for a summary, replace the messages.      *)

AfterCompact(r) ==
  IF purpose[r] = "manual" THEN End(r, "compacted")
  ELSE phase' = [phase EXCEPT ![r] = "ready"] /\ UNCHANGED outcome

\* Below the thresholds, or nothing to summarise.
SkipCompact(r) ==
  /\ phase[r] = "compact"
  /\ purpose[r] = "auto" \/ transcript[SessionOf[r]] = <<>>
  /\ AfterCompact(r)
  /\ UNCHANGED <<lockOf, registry, quotaVars, purpose, view, transcript, crashes, faults>>

BeginCompact(r) ==
  /\ phase[r] = "compact"
  /\ transcript[SessionOf[r]] # <<>>
  /\ view' = [view EXCEPT ![r] = transcript[SessionOf[r]]]
  /\ phase' = [phase EXCEPT ![r] = "summarising"]
  /\ UNCHANGED <<lockOf, registry, quotaVars, purpose, outcome, transcript, crashes,
                 faults>>

Recent(t) == IF Len(t) > Retain THEN SubSeq(t, Len(t) - Retain + 1, Len(t)) ELSE t

\* replace_messages_with_summary writes what was read before the summary was
\* asked for; without a summary nothing is written.
EndCompact(r) ==
  /\ phase[r] = "summarising"
  /\ \/ transcript' = [transcript EXCEPT ![SessionOf[r]] = Recent(view[r])]
     \/ UNCHANGED transcript
  /\ AfterCompact(r)
  /\ Forget(r)
  /\ UNCHANGED <<lockOf, registry, quotaVars, purpose, crashes, faults>>

-----------------------------------------------------------------------------
(* The runner.                                                             *)

\* restore_runtime_context: the messages, less the run's own question if it is
\* still the last of them
Context(r) ==
  LET t == transcript[SessionOf[r]]
  IN IF EndsWith(SessionOf[r], Turn("user", r)) THEN ButLast(t) ELSE t

Prepare(r) ==
  /\ phase[r] = "ready"
  /\ view' = [view EXCEPT ![r] = Context(r)]
  /\ phase' = [phase EXCEPT ![r] = "running"]
  /\ UNCHANGED <<lockOf, registry, quotaVars, purpose, outcome, transcript, crashes,
                 faults>>

\* No sandbox, no runner, or the runner fails (empty answers were retried).
RunFails(r) == phase[r] \in {"ready", "running"} /\ Fail(r)

\* The context was too long: once, compact and prepare again.
Overflow(r) ==
  /\ phase[r] = "running"
  /\ purpose[r] # "overflow"
  /\ purpose' = [purpose EXCEPT ![r] = "overflow"]
  /\ phase' = [phase EXCEPT ![r] = "compact"]
  /\ Forget(r)
  /\ UNCHANGED <<lockOf, registry, quotaVars, outcome, transcript, crashes, faults>>

\* mutant: the lock goes before the answer is on record
RunAnswersUnlocked(r) ==
  /\ phase[r] = "running"
  /\ Finish(r, "charged")
  /\ LetGo(r)
  /\ Forget(r)
  /\ phase' = [phase EXCEPT ![r] = "committed"]
  /\ UNCHANGED <<registry, purpose, outcome, transcript, crashes>>

\* quota_guard.commit()
RunAnswers(r) ==
  /\ phase[r] = "running"
  /\ Finish(r, "charged")
  /\ phase' = [phase EXCEPT ![r] = "committed"]
  /\ Forget(r)
  /\ UNCHANGED <<lockOf, registry, purpose, outcome, transcript, crashes>>

PersistAnswer(r) ==
  /\ phase[r] \in {"committed", "bounced"}
  /\ Say(r, "answer")
  /\ End(r, "answered")
  /\ UNCHANGED <<lockOf, registry, quotaVars, purpose, view, crashes, faults>>

Return(r) ==
  /\ phase[r] = "ending"
  /\ LetGo(r)
  /\ phase' = [phase EXCEPT ![r] = "returned"]
  /\ UNCHANGED <<registry, quotaVars, purpose, view, outcome, transcript, crashes,
                 faults>>

\* The caller drops the future at an await: tokio::time::timeout of the Feishu
\* scheduler, or an HTTP client that has gone.  The guards drop with it.
Drop(r) ==
  /\ r \in Droppable
  /\ phase[r] \in Awaiting
  /\ LetGo(r)
  /\ Forget(r)
  /\ Finish(r, "released")
  /\ IF r \in Scheduled
     THEN /\ phase' = [phase EXCEPT ![r] = "returned"]
          /\ outcome' = [outcome EXCEPT ![r] = "timeout"]
     ELSE /\ phase' = [phase EXCEPT ![r] = "done"]
          /\ outcome' = [outcome EXCEPT ![r] = IF @ = "none" THEN "dropped" ELSE @]
  /\ UNCHANGED <<registry, purpose, transcript, crashes>>

-----------------------------------------------------------------------------
(* What the caller does with the result.  It no longer holds the run lock. *)

OnlyPhase(r, p) ==
  /\ phase' = [phase EXCEPT ![r] = p]
  /\ UNCHANGED <<lockOf, registry, quotaVars, purpose, view, crashes, faults>>

Deliver(r) ==
  /\ phase[r] = "returned"
  /\ outcome[r] # "timeout"
  /\ OnlyPhase(r, "done")
  /\ UNCHANGED <<outcome, transcript>>

\* The scheduler will not send this answer (skip signal, stale market data):
\* rollback_skipped_scheduler_assistant_turn
Withdraw(r) ==
  /\ phase[r] = "returned"
  /\ r \in Scheduled
  /\ outcome[r] = "answered"
  /\ transcript' = [transcript EXCEPT ![SessionOf[r]] =
                      IF EndsWith(SessionOf[r], Turn("answer", r)) THEN ButLast(@) ELSE @]
  /\ outcome' = [outcome EXCEPT ![r] = "skipped"]
  /\ OnlyPhase(r, "done")

\* The three failure texts the callers leave in the transcript.
FailureKind(r) == CASE outcome[r] = "refused" -> "refusal"
                    [] outcome[r] = "timeout" -> "timeout"
                    [] OTHER -> "failure"

\* persist_scheduler_timeout_failure_turn, persist_suppressed_scheduler_failure_turn
\* and persist_visible_assistant_message: look at the last message, then append.
InspectTail(r) ==
  /\ phase[r] = "returned"
  /\ outcome[r] \in {"failed", "refused", "timeout"}
  /\ LET s == SessionOf[r]
     IN IF transcript[s] # <<>> /\ LastTurn(s).kind = FailureKind(r)
        THEN OnlyPhase(r, "done") ELSE OnlyPhase(r, "reporting")
  /\ UNCHANGED <<outcome, transcript>>

AppendFailure(r) ==
  /\ phase[r] = "reporting"
  /\ Say(r, FailureKind(r))
  /\ OnlyPhase(r, "done")
  /\ UNCHANGED outcome

-----------------------------------------------------------------------------
(* The process and the date.                                               *)

Mortal(p) == {r \in Runs : ProcOf[r] = p /\ phase[r] \notin {"idle", "done", "gone"}}

\* Locks die with the process; a reservation on record stays there.
Crash(p) ==
  /\ crashes < MaxCrashes
  /\ crashes' = crashes + 1
  /\ phase' = [r \in Runs |-> IF r \in Mortal(p) THEN "gone" ELSE phase[r]]
  /\ lockOf' = [r \in Runs |-> IF r \in Mortal(p) THEN None ELSE lockOf[r]]
  /\ charge' = [r \in Runs |-> IF r \in Mortal(p) /\ charge[r] = "held" THEN "lost"
                               ELSE charge[r]]
  /\ view' = [r \in Runs |-> IF r \in Mortal(p) THEN <<>> ELSE view[r]]
  /\ UNCHANGED <<registry, today, inFlight, success, day, purpose, outcome,
                 transcript, faults>>

NewDay ==
  /\ today < MaxDay
  /\ today' = today + 1
  /\ UNCHANGED <<phase, lockOf, registry, inFlight, success, charge, day, purpose,
                 view, outcome, transcript, crashes, faults>>

Enter(r) == Acquire(r) \/ NoSession(r) \/ CompactCommand(r) \/ DomainBoundary(r)
              \/ Unlimited(r) \/ Reserve(r) \/ Refuse(r) \/ PersistRefusal(r) \/ ExpandFails(r)
              \/ PersistUser(r)
Work(r)  == SkipCompact(r) \/ BeginCompact(r) \/ EndCompact(r) \/ Prepare(r)
              \/ RunFails(r) \/ Overflow(r) \/ RunAnswers(r) \/ PersistAnswer(r)
              \/ Return(r)
Leave(r) == Deliver(r) \/ Withdraw(r) \/ InspectTail(r) \/ AppendFailure(r)

Next ==
  \/ \E r \in Runs : Arrive(r) \/ Enter(r) \/ Work(r) \/ Leave(r) \/ Drop(r)
  \/ \E p \in Procs : Crash(p)
  \/ NewDay

Spec == Init /\ [][Next]_vars

\* A run that arrived is driven by the runtime, and every wait of a run ends:
\* the runner and the summary under overall_timeout, listeners answer.
FairSpec == Spec /\ \A r \in Runs : WF_vars(Enter(r) \/ Work(r) \/ Leave(r))

-----------------------------------------------------------------------------
(* Properties.                                                             *)

\* At most one run of a session is past its lock in one process, although the
\* registry keeps only weak references and forgets unused locks.
SessionMutex ==
  \A q, r \in Runs :
    /\ q # r
    /\ ProcOf[q] = ProcOf[r]
    /\ SessionOf[q] = SessionOf[r]
    /\ phase[q] \in Inside
    => phase[r] \notin Inside

\* An actor never has more answered and pending conversations on one date than
\* the limit: reservations, not only answers, are counted.
QuotaCeiling == \A x \in Accounts : success[x] + inFlight[x] <= Limit

Owing(x)   == {r \in Runs : charge[r] \in {"held", "lost"} /\ AccountOf(r) = x}
Charged(x) == {r \in Runs : charge[r] = "charged" /\ AccountOf(r) = x}

\* The record agrees with the runs: each answered metered run counts once on
\* the date it reserved for, and in_flight is the runs under way and those whose
\* process or whose settlement was lost.  Nothing else leaks or is double freed.
QuotaAccounts ==
  \A x \in Accounts : /\ inFlight[x] = Cardinality(Owing(x))
                      /\ success[x] = Cardinality(Charged(x))

\* Only an answer costs: a run that failed, was refused or was dropped before
\* its answer was committed has its reservation back, whichever step ended it.
OnlyAnswersAreCharged ==
  \A r \in Runs :
    /\ charge[r] = "charged"
         => \/ phase[r] \in {"committed", "gone"}
            \/ outcome[r] = "answered"
    /\ phase[r] \in {"ending", "returned", "reporting", "done"} => charge[r] # "held"

\* The lock keeps conversations whole: between a question and its answer the
\* transcript holds no question and no answer of another run.  Only the notices
\* written without the lock may fall in between.
TurnsDoNotInterleave ==
  \A s \in Sessions :
    \A i, j, k \in DOMAIN transcript[s] :
      /\ i < j /\ j < k
      /\ transcript[s][k].kind = "answer"
      /\ transcript[s][i] = Turn("user", transcript[s][k].run)
      => transcript[s][j].kind \notin {"user", "answer"}

\* While a runner works on a context, the conversation is what it read, then at most
\* its own question and notices: no run computes its answer from an old snapshot.
SnapshotCurrent ==
  \A r \in Runs : phase[r] = "running" =>
    LET t == transcript[SessionOf[r]]
    IN  /\ Len(view[r]) <= Len(t)
        /\ \A i \in DOMAIN t :
             IF i <= Len(view[r]) THEN t[i] = view[r][i]
             ELSE t[i].run = r \/ t[i].kind \notin {"user", "answer"}

\* remove_last_message_if_matches is there so that the answer of a skipped task
\* does not pollute the user's context (memory/src/session.rs:1051-1054): it is
\* in no transcript and in no context.
SkippedAnswersLeaveNoTrace ==
  \A q \in Runs :
    outcome[q] = "skipped" =>
      \A i \in DOMAIN transcript[SessionOf[q]] :
        transcript[SessionOf[q]][i] # Turn("answer", q)

\* The session locks are there to prevent a write from overwriting another
\* (memory/src/session.rs:205): what was appended while the summary was being
\* written is still there after the compaction.
CompactionKeepsNewTurns ==
  [][\A r \in Runs :
       phase[r] = "summarising" /\ phase'[r] \in {"ready", "ending"} =>
         LET s == SessionOf[r]
         IN \A i \in DOMAIN transcript[s] :
              i > Len(view[r]) => \E j \in DOMAIN transcript'[s] :
                                    transcript'[s][j] = transcript[s][i]]_vars
=============================================================================
