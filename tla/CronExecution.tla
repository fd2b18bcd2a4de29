--------------------------- MODULE CronExecution ---------------------------
(***************************************************************************)
(* From a due job to a recorded delivery: the minute tick of HoneScheduler *)
(* (crates/hone-scheduler), the due test and the claim of CronJobStorage   *)
(* (memory/src/cron_job/storage.rs), the execution ledger cron_job_runs    *)
(* (history.rs) and the Feishu handler with its watchdog and its start-up  *)
(* recovery (bins/hone-feishu/src/scheduler.rs).                           *)
(*                                                                         *)
(* Cloud = FALSE: one process over local files, the only memory of a run   *)
(* is last_run_at.  Cloud = TRUE: any number of processes over Postgres,   *)
(* a due job is first claimed in cloud_cron_job_claims.                    *)
(***************************************************************************)
EXTENDS Integers, Sequences, FiniteSets

CONSTANTS
  Procs,           \* channel processes, each with a scheduler and a handler
  Jobs,
  NoTarget,        \* the jobs stored without a channel_target
  Events,          \* identities for the SchedulerEvents that get fired
  Texts,           \* answers a run can produce
  None,
  Cloud,           \* BOOLEAN: claims in Postgres, or local files only
  Period,          \* ticks of one period (half-hour slot, day, week)
  DueFrom, DueTo,  \* ticks of a period in which its slot is due
  QueueCap,        \* capacity of the scheduler's mpsc channel (64)
  FallbackWindow,  \* how far back record_execution_event looks (2 hours)
  RecoveryWindow,  \* age at which a started row is stale
  ClockSkew,       \* offset between row timestamps and the recovery cutoff
  MaxTime, MaxCrashes, MaxFaults    \* bounds of a model

ASSUME CronAssumption ==
  /\ NoTarget \subseteq Jobs
  /\ IsFiniteSet(Events)
  /\ Cloud \in BOOLEAN
  /\ Period \in Nat \ {0}
  /\ {DueFrom, DueTo, QueueCap, FallbackWindow, RecoveryWindow, ClockSkew,
      MaxTime, MaxCrashes, MaxFaults} \subseteq Nat
  /\ None \notin Procs /\ None \notin Jobs \X Nat
  /\ {"noop", "error"} \cap Texts = {}

VARIABLES
  now,      \* Beijing wall clock
  up,       \* up[p]: "down", "starting" (recovery not done), "up", or "deaf"
            \* (the handler loop is gone, so the channel is closed)
  lastRun,  \* lastRun[j]: the job's last_run_at, -1 before the first
  claimed,  \* cloud_cron_job_claims
  batch,    \* batch[p]: due slots of this tick still to be handed over
  handed,   \* handed[p]: the slot handed over and not yet marked, or None
  ev,       \* ev[e]: the task that handles event e
  dedup,    \* dedup[p]: <<slot, text>> in the process's MessageDeduplicator
  rows,     \* cron_job_runs, in run_id order
  crashes, faults    \* how many happened so far

vars == <<now, up, lastRun, claimed, batch, handed, ev, dedup, rows, crashes, faults>>

Keys    == Jobs \X Nat      \* delivery_key: a job and the period of its slot
JobOf(k) == k[1]

\* The steps of a handler task.  "lost": it died with its process or channel.
InHandler == {"running", "completed", "reporting", "sending", "sent", "unsent"}
Stages    == InHandler \cup {"free", "queued", "done", "lost"}

\* message_send_status; "pending" is the pre-written running/pending row.
SendStatus == {"pending", "sent", "send_failed", "skipped_noop", "skipped_error",
               "target_missing", "target_resolution_failed", "duplicate_suppressed"}

Outcomes == {"noop", "error"} \cup Texts
Rows     == [key : Keys, send : SendStatus, at : Nat]
Handler  == [stage : Stages, key : Keys \cup {None}, proc : Procs \cup {None},
             text : Outcomes \cup {None}, watchdog : {"off", "sleeping", "armed", "closed"},
             recovered : BOOLEAN, delivered : BOOLEAN]

Idle == [stage |-> "free", key |-> None, proc |-> None, text |-> None,
         watchdog |-> "off", recovered |-> FALSE, delivered |-> FALSE]

TypeOK ==
  /\ now \in Nat
  /\ up \in [Procs -> {"down", "starting", "up", "deaf"}]
  /\ lastRun \in [Jobs -> Nat \cup {-1}]
  /\ claimed \in SUBSET Keys
  /\ batch \in [Procs -> SUBSET Keys]
  /\ handed \in [Procs -> Keys \cup {None}]
  /\ ev \in [Events -> Handler]
  /\ dedup \in [Procs -> SUBSET (Keys \X Texts)]
  /\ rows \in Seq(Rows)
  /\ crashes \in Nat
  /\ faults \in Nat

Init ==
  /\ now = 0
  /\ up = [p \in Procs |-> "starting"]
  /\ lastRun = [j \in Jobs |-> -1]
  /\ claimed = {}
  /\ batch = [p \in Procs |-> {}]
  /\ handed = [p \in Procs |-> None]
  /\ ev = [e \in Events |-> Idle]
  /\ dedup = [p \in Procs |-> {}]
  /\ rows = <<>>
  /\ crashes = 0
  /\ faults = 0

-----------------------------------------------------------------------------
(* The execution ledger.                                                   *)

Open(i)    == i \in DOMAIN rows /\ rows[i].send = "pending"

OpenForAnyStatus(k) == {i \in DOMAIN rows : rows[i].key = k}   \* mutant: no status test
OpenFor(k) == {i \in DOMAIN rows : Open(i) /\ rows[i].key = k}

\* Started rows of the same job, whatever their slot, no older than 2 hours.
OpenNear(k) == {i \in DOMAIN rows : /\ Open(i)
                                    /\ JobOf(rows[i].key) = JobOf(k)
                                    /\ now - rows[i].at <= FallbackWindow}

\* ORDER BY executed_at DESC, run_id DESC LIMIT 1
Latest(S) == CHOOSE i \in S : \A j \in S : \/ rows[j].at < rows[i].at
                                           \/ rows[j].at = rows[i].at /\ j <= i

RowInUtc(k, s) == [key |-> k, send |-> s, at |-> now - ClockSkew]    \* mutant: UTC stamp
Row(k, s) == [key |-> k, send |-> s, at |-> now]

RecordedInserts(k, s) == Append(rows, Row(k, s))     \* mutant: never closes a started row
RecordedUpdates(k, s) ==                              \* mutant: never inserts
  [i \in DOMAIN rows |-> IF i \in OpenFor(k) THEN Row(k, s) ELSE rows[i]]

\* record_execution_event with a terminal status: the slot's own open row, else
\* the job's latest recent open row, else a new row.
Recorded(k, s) ==
  LET own  == OpenFor(k)
      near == OpenNear(k)
  IN  IF own # {} THEN [rows EXCEPT ![Latest(own)] = Row(k, s)]
      ELSE IF near # {} THEN [rows EXCEPT ![Latest(near)] = Row(k, s)]
      ELSE Append(rows, Row(k, s))

ClosedNothing(S, s) == rows                           \* mutant: the UPDATE matches no row

\* One UPDATE over every row in S; detail_json keeps the delivery_key.
Closed(S, s) ==
  [i \in DOMAIN rows |-> IF i \in S THEN Row(rows[i].key, s) ELSE rows[i]]

\* Every writer ignores the storage error (`let _ =`), so a write may get lost.
Lose == /\ faults < MaxFaults
        /\ faults' = faults + 1

Save(newRows) == \/ rows' = newRows /\ UNCHANGED faults
                 \/ Lose /\ UNCHANGED rows

-----------------------------------------------------------------------------
(* The scheduler: one tick, then each due slot is handed over and marked.  *)

PeriodOf(t) == t \div Period

DueUnlessNow ==                                       \* mutant: last_run_at not by period
  {<<j, PeriodOf(now)>> : j \in {j \in Jobs : /\ now % Period \in DueFrom .. DueTo
                                              /\ lastRun[j] # now}}
DueKeys == {<<j, PeriodOf(now)>> : j \in
              {j \in Jobs : /\ now % Period \in DueFrom .. DueTo
                            /\ lastRun[j] = -1 \/ PeriodOf(lastRun[j]) # PeriodOf(now)}}

Ticking(p) == up[p] # "down" /\ batch[p] = {} /\ handed[p] = None

\* get_due_jobs on local files: every due slot of this period not yet marked.
ScanFiles(p) ==
  /\ ~ Cloud
  /\ Ticking(p)
  /\ DueKeys # {}
  /\ batch' = [batch EXCEPT ![p] = DueKeys]
  /\ UNCHANGED <<now, up, lastRun, claimed, handed, ev, dedup, rows, crashes, faults>>

ClaimableAgain == DueKeys                             \* mutant: ON CONFLICT ignored
Claimable == DueKeys \ claimed

\* get_due_jobs on Postgres: the due slots this process wins the claims of.
\* Another process may win some of them, and a claim may fail with an error.
ClaimDue(p) ==
  /\ Cloud
  /\ Ticking(p)
  /\ \E S \in SUBSET Claimable :
       /\ S # {}
       /\ batch' = [batch EXCEPT ![p] = S]
       /\ claimed' = claimed \cup S
  /\ UNCHANGED <<now, up, lastRun, handed, ev, dedup, rows, crashes, faults>>

RestNone(p, k) == {}                                  \* mutant: leaves the loop early
Rest(p, k) == batch[p] \ {k}

FreeEvents == {e \in Events : ev[e].stage = "free"}
QueueOf(p) == {e \in Events : ev[e].stage = "queued" /\ ev[e].proc = p}

\* event_tx.send(event).await went through.
HandOver(p, k) ==
  /\ up[p] \in {"starting", "up"}
  /\ handed[p] = None
  /\ k \in batch[p]
  /\ JobOf(k) \notin NoTarget
  /\ Cardinality(QueueOf(p)) < QueueCap
  /\ FreeEvents # {}
  /\ LET e == CHOOSE x \in FreeEvents : TRUE
     IN  ev' = [ev EXCEPT ![e] = [Idle EXCEPT !.stage = "queued", !.key = k, !.proc = p]]
  /\ batch' = [batch EXCEPT ![p] = Rest(p, k)]
  /\ handed' = [handed EXCEPT ![p] = k]
  /\ UNCHANGED <<now, up, lastRun, claimed, dedup, rows, crashes, faults>>

RefusedMarks(p, k) ==                                 \* mutant: marked all the same
  /\ up[p] = "deaf" /\ handed[p] = None /\ k \in batch[p] /\ JobOf(k) \notin NoTarget
  /\ batch' = [batch EXCEPT ![p] = Rest(p, k)]
  /\ lastRun' = [lastRun EXCEPT ![JobOf(k)] = now]
  /\ UNCHANGED <<now, up, claimed, handed, ev, dedup, rows, crashes, faults>>

\* The receiver is gone: the slot is not marked, "to be retried next round".
HandOverRefused(p, k) ==
  /\ up[p] = "deaf"
  /\ handed[p] = None
  /\ k \in batch[p]
  /\ JobOf(k) \notin NoTarget
  /\ batch' = [batch EXCEPT ![p] = Rest(p, k)]
  /\ UNCHANGED <<now, up, lastRun, claimed, handed, ev, dedup, rows, crashes, faults>>

\* A job without a target is recorded as failed and marked like the others.
TargetMissing(p, k) ==
  /\ up[p] # "down"
  /\ handed[p] = None
  /\ k \in batch[p]
  /\ JobOf(k) \in NoTarget
  /\ Save(Recorded(k, "target_missing"))
  /\ batch' = [batch EXCEPT ![p] = Rest(p, k)]
  /\ handed' = [handed EXCEPT ![p] = k]
  /\ UNCHANGED <<now, up, lastRun, claimed, ev, dedup, crashes>>

\* mark_job_run stamps the time it runs at, not the slot; save_jobs may fail.
Mark(p) ==
  /\ up[p] # "down"
  /\ handed[p] # None
  /\ \/ lastRun' = [lastRun EXCEPT ![JobOf(handed[p])] = now] /\ UNCHANGED faults
     \/ Lose /\ UNCHANGED lastRun
  /\ handed' = [handed EXCEPT ![p] = None]
  /\ UNCHANGED <<now, up, claimed, batch, ev, dedup, rows, crashes>>

\* spawn_supervised_task catches a panic of the loop and starts it afresh.
SchedulerPanics(p) ==
  /\ up[p] # "down"
  /\ ~ Ticking(p)
  /\ Lose
  /\ batch' = [batch EXCEPT ![p] = {}]
  /\ handed' = [handed EXCEPT ![p] = None]
  /\ UNCHANGED <<now, up, lastRun, claimed, ev, dedup, rows, crashes>>

-----------------------------------------------------------------------------
(* The handler: one spawned task per event, and its watchdog task.         *)

At(e, s) == ev[e].stage = s

\* Received and spawned: the started row is written, the watchdog set.
Start(e) ==
  /\ At(e, "queued")
  /\ up[ev[e].proc] = "up"
  /\ Save(Append(rows, Row(ev[e].key, "pending")))
  /\ ev' = [ev EXCEPT ![e].stage = "running", ![e].watchdog = "sleeping"]
  /\ UNCHANGED <<now, up, lastRun, claimed, batch, handed, dedup, crashes>>

\* run_scheduled_task returns: an answer, nothing to say, or an error (its own
\* timeout among them); then handler_completed is set.
RunReturns(e) ==
  /\ At(e, "running")
  /\ \E o \in Outcomes :
       ev' = [ev EXCEPT ![e].stage = "completed", ![e].text = o]
  /\ UNCHANGED <<now, up, lastRun, claimed, batch, handed, dedup, rows, crashes, faults>>

SkipLateResult(e) ==
  /\ At(e, "completed")
  /\ ev[e].recovered
  /\ ev' = [ev EXCEPT ![e].stage = "done", ![e].text = None]
  /\ UNCHANGED <<now, up, lastRun, claimed, batch, handed, dedup, rows, crashes, faults>>

\* abort() stops a sleeping watchdog; past its sleep it has no await to stop at.
AbortWatchdog(e) ==
  /\ At(e, "completed")
  /\ ~ ev[e].recovered
  /\ ev' = [ev EXCEPT ![e].stage = "reporting",
                      ![e].watchdog = IF @ = "sleeping" THEN "off" ELSE @]
  /\ UNCHANGED <<now, up, lastRun, claimed, batch, handed, dedup, rows, crashes, faults>>

\* The task ends with its terminal row.
Finish(e, s) ==
  /\ Save(Recorded(ev[e].key, s))
  /\ ev' = [ev EXCEPT ![e].stage = "done", ![e].text = None]
  /\ UNCHANGED <<now, up, lastRun, claimed, batch, handed, dedup, crashes>>

NothingToDeliver(e) ==
  /\ At(e, "reporting")
  /\ ev[e].text \in {"noop", "error"}
  /\ Finish(e, IF ev[e].text = "noop" THEN "skipped_noop" ELSE "skipped_error")

TargetUnresolved(e) ==
  /\ At(e, "reporting")
  /\ ev[e].text \in Texts
  /\ Finish(e, "target_resolution_failed")

SuppressDuplicate(e) ==
  /\ At(e, "reporting")
  /\ <<ev[e].key, ev[e].text>> \in dedup[ev[e].proc]
  /\ Finish(e, "duplicate_suppressed")

\* is_duplicate remembers the text before the send is tried.
BeginSend(e) ==
  /\ At(e, "reporting")
  /\ ev[e].text \in Texts
  /\ <<ev[e].key, ev[e].text>> \notin dedup[ev[e].proc]
  /\ dedup' = [dedup EXCEPT ![ev[e].proc] = @ \cup {<<ev[e].key, ev[e].text>>}]
  /\ ev' = [ev EXCEPT ![e].stage = "sending"]
  /\ UNCHANGED <<now, up, lastRun, claimed, batch, handed, rows, crashes, faults>>

SendSucceeds(e) ==
  /\ At(e, "sending")
  /\ ev' = [ev EXCEPT ![e].stage = "sent", ![e].delivered = TRUE]
  /\ UNCHANGED <<now, up, lastRun, claimed, batch, handed, dedup, rows, crashes, faults>>

\* A failed send may have reached the user all the same: an earlier part of a
\* long answer did, or only the reply to the last request got lost.
SendFails(e) ==
  /\ At(e, "sending")
  /\ \E reached \in BOOLEAN :
       ev' = [ev EXCEPT ![e].stage = "unsent", ![e].delivered = reached]
  /\ UNCHANGED <<now, up, lastRun, claimed, batch, handed, dedup, rows, crashes, faults>>

ReportSend(e) ==
  \/ At(e, "sent") /\ Finish(e, "sent")
  \/ At(e, "unsent") /\ Finish(e, "send_failed")

\* The watchdog wakes: it returns if the run has completed, ...
WatchdogWakes(e) ==
  /\ ev[e].watchdog = "sleeping"
  /\ ev' = [ev EXCEPT ![e].watchdog = IF ev[e].stage = "running" THEN "armed" ELSE "off"]
  /\ UNCHANGED <<now, up, lastRun, claimed, batch, handed, dedup, rows, crashes, faults>>

\* ... else it fails every started row of the slot (or none, or errs), ...
WatchdogCloses(e) ==
  LET mine == OpenFor(ev[e].key) IN
  /\ ev[e].watchdog = "armed"
  /\ \/ /\ rows' = Closed(mine, "skipped_error")
        /\ ev' = [ev EXCEPT ![e].watchdog = IF mine # {} THEN "closed" ELSE "off"]
        /\ UNCHANGED faults
     \/ /\ Lose
        /\ ev' = [ev EXCEPT ![e].watchdog = "off"]
        /\ UNCHANGED rows
  /\ UNCHANGED <<now, up, lastRun, claimed, batch, handed, dedup, crashes>>

\* ... and only then tells the handler, by watchdog_recovered.
WatchdogTells(e) ==
  /\ ev[e].watchdog = "closed"
  /\ ev' = [ev EXCEPT ![e].watchdog = "off", ![e].recovered = TRUE]
  /\ UNCHANGED <<now, up, lastRun, claimed, batch, handed, dedup, rows, crashes, faults>>

-----------------------------------------------------------------------------
(* The process and the clock.                                              *)

\* recover_stale_started_rows, before the first event is received.  Rows carry
\* Beijing time, the cutoff is written in UTC, and both are compared as text:
\* ClockSkew is the difference (8 hours in the code, 0 were they alike).
StaleRows == {i \in DOMAIN rows : Open(i) /\ rows[i].at + ClockSkew < now - RecoveryWindow}

Recover(p) ==
  /\ up[p] = "starting"
  /\ Save(Closed(StaleRows, "send_failed"))
  /\ up' = [up EXCEPT ![p] = "up"]
  /\ UNCHANGED <<now, lastRun, claimed, batch, handed, ev, dedup, crashes>>

LivesIn(p, e) == ev[e].proc = p /\ ev[e].stage \in {"queued"} \cup InHandler

\* Everything in memory goes: queue, tasks, watchdogs, dedup table, tick.
Crash(p) ==
  /\ up[p] # "down"
  /\ crashes < MaxCrashes
  /\ crashes' = crashes + 1
  /\ up' = [up EXCEPT ![p] = "down"]
  /\ batch' = [batch EXCEPT ![p] = {}]
  /\ handed' = [handed EXCEPT ![p] = None]
  /\ dedup' = [dedup EXCEPT ![p] = {}]
  /\ ev' = [e \in Events |->
              IF ev[e].proc # p THEN ev[e]
              ELSE [ev[e] EXCEPT !.stage = IF LivesIn(p, e) THEN "lost" ELSE @,
                                 !.watchdog = "off"]]
  /\ UNCHANGED <<now, lastRun, claimed, rows, faults>>

Boot(p) ==
  /\ up[p] = "down"
  /\ up' = [up EXCEPT ![p] = "starting"]
  /\ UNCHANGED <<now, lastRun, claimed, batch, handed, ev, dedup, rows, crashes, faults>>

\* The receive loop is a bare tokio::spawn: when it dies nothing restarts it,
\* the channel closes and what was queued is dropped; spawned tasks live on.
ReceiverDies(p) ==
  /\ up[p] \in {"starting", "up"}
  /\ Lose
  /\ up' = [up EXCEPT ![p] = "deaf"]
  /\ ev' = [e \in Events |-> IF e \in QueueOf(p) THEN [ev[e] EXCEPT !.stage = "lost"]
                             ELSE ev[e]]
  /\ UNCHANGED <<now, lastRun, claimed, batch, handed, dedup, rows, crashes>>

\* MessageDeduplicator forgets a text after its 15 minutes.
DedupExpires(p) ==
  /\ \E d \in dedup[p] : dedup' = [dedup EXCEPT ![p] = @ \ {d}]
  /\ UNCHANGED <<now, up, lastRun, claimed, batch, handed, ev, rows, crashes, faults>>

Clock ==
  /\ now < MaxTime
  /\ now' = now + 1
  /\ UNCHANGED <<up, lastRun, claimed, batch, handed, ev, dedup, rows, crashes, faults>>

Scheduler(p) == \/ ScanFiles(p) \/ ClaimDue(p)
                \/ \E k \in batch[p] : HandOver(p, k) \/ HandOverRefused(p, k)
                                       \/ TargetMissing(p, k)
                \/ Mark(p) \/ SchedulerPanics(p)

Conclude(e) == \/ SkipLateResult(e) \/ AbortWatchdog(e) \/ NothingToDeliver(e)
               \/ TargetUnresolved(e) \/ SuppressDuplicate(e) \/ BeginSend(e)
               \/ SendSucceeds(e) \/ SendFails(e) \/ ReportSend(e)

Watchdog(e) == WatchdogWakes(e) \/ WatchdogCloses(e) \/ WatchdogTells(e)

Process(p) == Recover(p) \/ Crash(p) \/ Boot(p) \/ ReceiverDies(p) \/ DedupExpires(p)

Next == \/ \E p \in Procs : Scheduler(p) \/ Process(p)
        \/ \E e \in Events : Start(e) \/ RunReturns(e) \/ Conclude(e) \/ Watchdog(e)
        \/ Clock

Spec == Init /\ [][Next]_vars

\* The runtime keeps polling tasks and timers, and the HTTP calls after a run
\* end; that the run itself (the agent) ever returns is not assumed.
Fairness == \A e \in Events : WF_vars(Conclude(e)) /\ WF_vars(Watchdog(e))

FairSpec == Spec /\ Fairness

-----------------------------------------------------------------------------
(* Properties.                                                             *)

Fired(e)       == ev[e].stage # "free"
Deliveries(k)  == {e \in Events : ev[e].delivered /\ ev[e].key = k}
Undisturbed    == crashes = 0 /\ faults = 0

\* Cloud: whatever crashes, panics and lost writes happen, and however many
\* processes tick at once, no slot is ever delivered to the user twice.
NoDoubleDelivery ==
  \A e1, e2 \in Events : ev[e1].delivered /\ ev[e2].delivered /\ ev[e1].key = ev[e2].key
                         => e1 = e2

\* Local files: each delivery of a slot beyond the first is paid for by a crash,
\* a panic or a mark that was not saved; ticks alone never repeat one.
ResendNeedsCause ==
  \A e \in Events : ev[e].delivered => Cardinality(Deliveries(ev[e].key)) <= 1 + crashes + faults

\* A row of the ledger is written once more at most: started, then terminal.
\* Late reports, watchdogs and recoveries never rewrite a terminal row.
TerminalRowsFrozen ==
  [][\A i \in DOMAIN rows : /\ i \in DOMAIN rows'
                            /\ rows[i].send # "pending" => rows'[i] = rows[i]]_vars

\* What the user received is in the history: once the task of a delivered
\* message is through (and no write was lost), some row of its slot says that a
\* message was sent or at least tried, even if the watchdog or another run took
\* the started row meanwhile.
DeliveredIsRecorded ==
  faults = 0 => \A e \in Events : ev[e].stage = "done" /\ ev[e].delivered =>
    \E i \in DOMAIN rows : /\ rows[i].key = ev[e].key
                           /\ rows[i].send \in {"sent", "send_failed"}

\* No row is left "running" behind a task that is through: without crashes and
\* lost writes, an open row belongs to a slot whose task is still at work.
OpenRowHasLiveTask ==
  Undisturbed => \A i \in DOMAIN rows : Open(i) =>
    \E e \in Events : ev[e].key = rows[i].key /\ ev[e].stage \in InHandler

\* Cloud: a claim is not forgotten while nothing fails: the slot is waiting in
\* a tick, has its event, or is recorded as having no target.
ClaimedIsHandled ==
  Undisturbed => \A k \in claimed :
    \/ \E p \in Procs : k \in batch[p]
    \/ \E e \in Events : Fired(e) /\ ev[e].key = k
    \/ \E i \in DOMAIN rows : rows[i].key = k /\ rows[i].send = "target_missing"

\* "Send first, mark on success; if the channel is closed the job is not
\* marked, to be retried within the due window" (hone-scheduler/src/lib.rs):
\* a slot whose hand-over is refused can be taken up again at once.
Eligible(k) == k \in IF Cloud THEN Claimable ELSE DueKeys
RefusedSlotStaysDue ==
  [][\A p \in Procs : \A k \in batch[p] :
       /\ HandOverRefused(p, k)
       /\ k[2] = PeriodOf(now) /\ now % Period \in DueFrom .. DueTo
       => Eligible(k)']_vars

\* The watchdog closes a slot so that a late result is skipped: a row it failed
\* is not followed by a delivery of the same task (scheduler.rs, the warning
\* "closed by the independent watchdog, skipping the late result").
LateResultSkipped ==
  [][\A e \in Events : ev[e].watchdog = "closed" \/ ev[e].recovered
                       => ev[e].delivered' = ev[e].delivered]_vars

\* After start-up recovery no started row older than the recovery window is
\* left open (the test of recover_stale_started_executions, cron_job/mod.rs).
StaleRowsRecovered ==
  [][\A p \in Procs : up[p] = "starting" /\ up'[p] = "up" /\ UNCHANGED faults =>
       \A i \in DOMAIN rows : Open(i) /\ rows[i].at < now - RecoveryWindow
                              => rows'[i].send # "pending"]_vars

\* Even if the agent never returns, the watchdog closes the row it started.
OpenRowsGetClosed ==
  \A i \in 1 .. Cardinality(Events) :
    (i \in DOMAIN rows /\ Open(i)) ~> (~ Open(i) \/ ~ Undisturbed)

\* Cloud implements one delivery per slot.
Inbox == {<<e, ev[e].key>> : e \in {e \in Events : ev[e].delivered}}
Slots == INSTANCE SlotDelivery WITH Senders <- Events, taken <- claimed, inbox <- Inbox
OncePerSlot == Slots!Spec
=============================================================================
