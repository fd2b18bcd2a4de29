----------------------- MODULE CronExecution_proofs -----------------------
(* Proofs about CronExecution, for every value of its constants.           *)
EXTENDS CronExecution, TLAPS, SequenceTheorems, WellFoundedInduction

\* A task that was ever queued knows its slot and its process.
FiredHasSlot == \A e \in Events : Fired(e) => ev[e].key \in Keys /\ ev[e].proc \in Procs

TypeInv == TypeOK /\ FiredHasSlot

-----------------------------------------------------------------------------
(* The ledger's operators keep the ledger well formed.                     *)

\* A row written now is a row.
LEMMA RowType ==
  ASSUME NEW k \in Keys, NEW s \in SendStatus, now \in Nat
  PROVE  Row(k, s) \in Rows
BY DEF Row, Rows

\* record_execution_event yields a ledger.
LEMMA RecordedType ==
  ASSUME NEW k \in Keys, NEW s \in SendStatus, now \in Nat, rows \in Seq(Rows)
  PROVE  Recorded(k, s) \in Seq(Rows)
<1>1. Row(k, s) \in Rows
  BY RowType
<1>2. ASSUME NEW i PROVE [rows EXCEPT ![i] = Row(k, s)] \in Seq(Rows)
  <2>1. rows \in [1 .. Len(rows) -> Rows] /\ Len(rows) \in Nat
    BY LenProperties
  <2>2. [rows EXCEPT ![i] = Row(k, s)] \in [1 .. Len(rows) -> Rows]
    BY <1>1, <2>1
  <2> QED
    BY <2>1, <2>2, SeqDef
<1>3. Append(rows, Row(k, s)) \in Seq(Rows)
  BY <1>1
<1> QED
  BY <1>2, <1>3 DEF Recorded

\* The watchdog's and the recovery's UPDATE yields a ledger.
LEMMA ClosedType ==
  ASSUME NEW S, NEW s \in SendStatus, now \in Nat, rows \in Seq(Rows)
  PROVE  Closed(S, s) \in Seq(Rows)
<1>1. rows \in [1 .. Len(rows) -> Rows] /\ Len(rows) \in Nat /\ DOMAIN rows = 1 .. Len(rows)
  BY LenProperties
<1>2. ASSUME NEW i \in DOMAIN rows PROVE rows[i] \in Rows /\ Row(rows[i].key, s) \in Rows
  BY <1>1, RowType DEF Rows
<1>3. Closed(S, s) \in [1 .. Len(rows) -> Rows]
  BY <1>1, <1>2 DEF Closed
<1> QED
  BY <1>1, <1>3, SeqDef

\* A write that may get lost leaves a ledger.
LEMMA SaveType ==
  ASSUME rows \in Seq(Rows), faults \in Nat, NEW r \in Seq(Rows), Save(r)
  PROVE  rows' \in Seq(Rows) /\ faults' \in Nat
BY DEF Save, Lose

-----------------------------------------------------------------------------
(* Type correctness.                                                       *)

\* The slots found due are slots.
LEMMA DueKeysType ==
  ASSUME now \in Nat
  PROVE  DueKeys \in SUBSET Keys
<1>1. PeriodOf(now) \in Nat
  BY CronAssumption DEF PeriodOf
<1> QED
  BY <1>1 DEF DueKeys, Keys

\* A step of a scheduler leaves the state well typed.
LEMMA SchedulerType ==
  ASSUME TypeInv, NEW p \in Procs, Scheduler(p)
  PROVE  TypeInv'
<1> USE CronAssumption DEF TypeInv, TypeOK, FiredHasSlot, Fired
<1>0. DueKeys \in SUBSET Keys
  BY DueKeysType
<1>1. CASE ScanFiles(p)
  BY <1>0, <1>1 DEF ScanFiles
<1>2. CASE ClaimDue(p)
  BY <1>0, <1>2 DEF ClaimDue, Claimable
<1>3. ASSUME NEW k \in batch[p], HandOver(p, k) PROVE TypeInv'
  <2>1. PICK e \in Events : ev' = [ev EXCEPT ![e] = [Idle EXCEPT !.stage = "queued", !.key = k, !.proc = p]]
    BY <1>3 DEF HandOver, FreeEvents
  <2>2. k \in Keys
    OBVIOUS
  <2> DEFINE h == [Idle EXCEPT !.stage = "queued", !.key = k, !.proc = p]
  <2>3. h \in Handler /\ h.key = k /\ h.proc = p
    BY <2>2 DEF Idle, Handler, Stages
  <2> HIDE DEF h
  <2>4. ev' = [ev EXCEPT ![e] = h]
    BY <2>1 DEF h
  <2>5. ev' \in [Events -> Handler] /\ FiredHasSlot'
    BY <2>2, <2>3, <2>4
  <2>6. batch' \in [Procs -> SUBSET Keys] /\ handed' \in [Procs -> Keys \cup {None}]
    BY <1>3, <2>2 DEF HandOver, Rest
  <2> QED
    BY <1>3, <2>5, <2>6 DEF HandOver
<1>4. ASSUME NEW k \in batch[p], HandOverRefused(p, k) PROVE TypeInv'
  BY <1>4 DEF HandOverRefused, Rest
<1>5. ASSUME NEW k \in batch[p], TargetMissing(p, k) PROVE TypeInv'
  <2>1. Recorded(k, "target_missing") \in Seq(Rows)
    BY RecordedType DEF SendStatus
  <2> QED
    BY <1>5, <2>1, SaveType DEF TargetMissing, Rest
<1>6. CASE Mark(p)
  <2>1. handed[p] \in Keys /\ now \in Nat
    BY <1>6 DEF Mark
  <2>2. lastRun' \in [Jobs -> Nat \cup {-1}] /\ faults' \in Nat
    <3>1. CASE lastRun' = [lastRun EXCEPT ![JobOf(handed[p])] = now] /\ UNCHANGED faults
      BY <2>1, <3>1
    <3>2. CASE Lose /\ UNCHANGED lastRun
      BY <3>2 DEF Lose
    <3> QED
      BY <1>6, <3>1, <3>2 DEF Mark
  <2>3. handed' \in [Procs -> Keys \cup {None}]
    BY <1>6 DEF Mark
  <2> QED
    BY <1>6, <2>2, <2>3 DEF Mark
<1>7. CASE SchedulerPanics(p)
  BY <1>7 DEF SchedulerPanics, Lose
<1> QED
  BY <1>1, <1>2, <1>3, <1>4, <1>5, <1>6, <1>7 DEF Scheduler

TaskStep(e) == Start(e) \/ RunReturns(e) \/ Conclude(e) \/ Watchdog(e)

\* What only a scheduler changes: which tasks were queued, and for which slots.
KeepsSlots == \A x \in Events : /\ ev'[x].key = ev[x].key
                                /\ ev'[x].proc = ev[x].proc
                                /\ ev'[x].stage = "free" <=> ev[x].stage = "free"

\* What a task's record g may become: all may change but slot and process.
Advanced(g) == {h \in Handler : /\ h.key = g.key
                                /\ h.proc = g.proc
                                /\ h.stage = "free" <=> g.stage = "free"}

LEMMA OneTask ==
  ASSUME ev \in [Events -> Handler], NEW e \in Events, NEW h \in Advanced(ev[e]),
         ev' = [ev EXCEPT ![e] = h]
  PROVE  ev' \in [Events -> Handler] /\ KeepsSlots
BY DEF Advanced, KeepsSlots

\* Tasks and watchdogs keep their records well formed and their slots.
LEMMA TaskKeepsSlots ==
  ASSUME ev \in [Events -> Handler], NEW e \in Events, TaskStep(e)
  PROVE  ev' \in [Events -> Handler] /\ KeepsSlots
<1> USE DEF At
<1>0. ev[e] \in Handler
  OBVIOUS
<1>1. CASE Start(e)
  <2> DEFINE h == [ev[e] EXCEPT !.stage = "running", !.watchdog = "sleeping"]
  <2>1. h \in Advanced(ev[e])
    BY <1>1, <1>0 DEF Start, Advanced, Handler, Stages, InHandler
  <2>2. ev' = [ev EXCEPT ![e] = h]
    BY <1>1 DEF Start
  <2> QED
    BY <2>1, <2>2, OneTask
<1>2. CASE RunReturns(e)
  <2>1. PICK o \in Outcomes : ev' = [ev EXCEPT ![e].stage = "completed", ![e].text = o]
    BY <1>2 DEF RunReturns
  <2> DEFINE h == [ev[e] EXCEPT !.stage = "completed", !.text = o]
  <2>2. h \in Advanced(ev[e])
    BY <1>2, <1>0 DEF RunReturns, Advanced, Handler, Stages, InHandler
  <2>3. ev' = [ev EXCEPT ![e] = h]
    BY <2>1
  <2> QED
    BY <2>2, <2>3, OneTask
<1>3. ASSUME NEW s, Finish(e, s), ev[e].stage # "free"
      PROVE  ev' \in [Events -> Handler] /\ KeepsSlots
  <2> DEFINE h == [ev[e] EXCEPT !.stage = "done", !.text = None]
  <2>1. h \in Advanced(ev[e])
    BY <1>0, <1>3 DEF Advanced, Handler, Stages, InHandler
  <2>2. ev' = [ev EXCEPT ![e] = h]
    BY <1>3 DEF Finish
  <2> QED
    BY <2>1, <2>2, OneTask
<1>4. CASE SkipLateResult(e)
  <2> DEFINE h == [ev[e] EXCEPT !.stage = "done", !.text = None]
  <2>1. h \in Advanced(ev[e])
    BY <1>4, <1>0 DEF SkipLateResult, Advanced, Handler, Stages, InHandler
  <2>2. ev' = [ev EXCEPT ![e] = h]
    BY <1>4 DEF SkipLateResult
  <2> QED
    BY <2>1, <2>2, OneTask
<1>5. CASE AbortWatchdog(e)
  <2> DEFINE h == [ev[e] EXCEPT !.stage = "reporting",
                             !.watchdog = IF @ = "sleeping" THEN "off" ELSE @]
  <2>1. h \in Advanced(ev[e])
    BY <1>5, <1>0 DEF AbortWatchdog, Advanced, Handler, Stages, InHandler
  <2>2. ev' = [ev EXCEPT ![e] = h]
    BY <1>5 DEF AbortWatchdog
  <2> QED
    BY <2>1, <2>2, OneTask
<1>6. CASE NothingToDeliver(e) \/ TargetUnresolved(e) \/ SuppressDuplicate(e) \/ ReportSend(e)
  BY <1>3, <1>6 DEF NothingToDeliver, TargetUnresolved, SuppressDuplicate, ReportSend
<1>7. CASE BeginSend(e)
  <2> DEFINE h == [ev[e] EXCEPT !.stage = "sending"]
  <2>1. h \in Advanced(ev[e])
    BY <1>7, <1>0 DEF BeginSend, Advanced, Handler, Stages, InHandler
  <2>2. ev' = [ev EXCEPT ![e] = h]
    BY <1>7 DEF BeginSend
  <2> QED
    BY <2>1, <2>2, OneTask
<1>8. CASE SendSucceeds(e)
  <2> DEFINE h == [ev[e] EXCEPT !.stage = "sent", !.delivered = TRUE]
  <2>1. h \in Advanced(ev[e])
    BY <1>8, <1>0 DEF SendSucceeds, Advanced, Handler, Stages, InHandler
  <2>2. ev' = [ev EXCEPT ![e] = h]
    BY <1>8 DEF SendSucceeds
  <2> QED
    BY <2>1, <2>2, OneTask
<1>9. CASE SendFails(e)
  <2>1. PICK reached \in BOOLEAN : ev' = [ev EXCEPT ![e].stage = "unsent", ![e].delivered = reached]
    BY <1>9 DEF SendFails
  <2> DEFINE h == [ev[e] EXCEPT !.stage = "unsent", !.delivered = reached]
  <2>2. h \in Advanced(ev[e])
    BY <1>9, <1>0 DEF SendFails, Advanced, Handler, Stages, InHandler
  <2>3. ev' = [ev EXCEPT ![e] = h]
    BY <2>1
  <2> QED
    BY <2>2, <2>3, OneTask
<1>10. CASE WatchdogWakes(e)
  <2>1. PICK w \in {"armed", "off"} : ev' = [ev EXCEPT ![e].watchdog = w]
    BY <1>10 DEF WatchdogWakes
  <2> DEFINE h == [ev[e] EXCEPT !.watchdog = w]
  <2>2. h \in Advanced(ev[e])
    BY <1>10, <1>0 DEF WatchdogWakes, Advanced, Handler, Stages, InHandler
  <2>3. ev' = [ev EXCEPT ![e] = h]
    BY <2>1
  <2> QED
    BY <2>2, <2>3, OneTask
<1>11. CASE WatchdogCloses(e)
  <2>1. PICK w \in {"closed", "off"} : ev' = [ev EXCEPT ![e].watchdog = w]
    BY <1>11 DEF WatchdogCloses
  <2> DEFINE h == [ev[e] EXCEPT !.watchdog = w]
  <2>2. h \in Advanced(ev[e])
    BY <1>11, <1>0 DEF WatchdogCloses, Advanced, Handler, Stages, InHandler
  <2>3. ev' = [ev EXCEPT ![e] = h]
    BY <2>1
  <2> QED
    BY <2>2, <2>3, OneTask
<1>12. CASE WatchdogTells(e)
  <2> DEFINE h == [ev[e] EXCEPT !.watchdog = "off", !.recovered = TRUE]
  <2>1. h \in Advanced(ev[e])
    BY <1>12, <1>0 DEF WatchdogTells, Advanced, Handler, Stages, InHandler
  <2>2. ev' = [ev EXCEPT ![e] = h]
    BY <1>12 DEF WatchdogTells
  <2> QED
    BY <2>1, <2>2, OneTask
<1> QED
  BY <1>1, <1>2, <1>4, <1>5, <1>6, <1>7, <1>8, <1>9, <1>10, <1>11, <1>12
     DEF TaskStep, Conclude, Watchdog

\* So do a crash and the end of a receiver.
LEMMA ProcessKeepsSlots ==
  ASSUME ev \in [Events -> Handler], NEW p \in Procs, Process(p)
  PROVE  ev' \in [Events -> Handler] /\ KeepsSlots
<1> USE DEF KeepsSlots
<1>1. CASE Crash(p)
  <2>1. ASSUME NEW x \in Events
        PROVE  /\ ev'[x] \in Handler
               /\ ev'[x].key = ev[x].key /\ ev'[x].proc = ev[x].proc
               /\ ev'[x].stage = "free" <=> ev[x].stage = "free"
    <3>1. CASE ev[x].proc # p
      BY <1>1, <3>1 DEF Crash
    <3>2. CASE ev[x].proc = p
      <4> DEFINE s == IF LivesIn(p, x) THEN "lost" ELSE ev[x].stage
      <4>1. s \in Stages /\ (s = "free" <=> ev[x].stage = "free")
        BY <3>2 DEF LivesIn, InHandler, Handler, Stages
      <4>2. ev'[x] = [ev[x] EXCEPT !.stage = s, !.watchdog = "off"]
        BY <1>1, <3>2 DEF Crash, Handler
      <4> HIDE DEF s
      <4> QED
        BY <4>1, <4>2 DEF Handler
    <3> QED
      BY <3>1, <3>2
  <2> QED
    BY <1>1, <2>1 DEF Crash
<1>2. CASE ReceiverDies(p)
  BY <1>2 DEF ReceiverDies, QueueOf, Handler, Stages
<1>3. CASE Recover(p) \/ Boot(p) \/ DedupExpires(p)
  BY <1>3 DEF Recover, Boot, DedupExpires
<1> QED
  BY <1>1, <1>2, <1>3 DEF Process

\* Whoever keeps the slots keeps FiredHasSlot.
LEMMA SlotsStay ==
  ASSUME FiredHasSlot, KeepsSlots
  PROVE  FiredHasSlot'
BY DEF FiredHasSlot, KeepsSlots, Fired

\* A step of a task or of its watchdog leaves the state well typed.
LEMMA TaskType ==
  ASSUME TypeInv, NEW e \in Events, TaskStep(e)
  PROVE  TypeInv'
<1> DEFINE Others == /\ now' \in Nat
                     /\ up' \in [Procs -> {"down", "starting", "up", "deaf"}]
                     /\ lastRun' \in [Jobs -> Nat \cup {-1}]
                     /\ claimed' \in SUBSET Keys
                     /\ batch' \in [Procs -> SUBSET Keys]
                     /\ handed' \in [Procs -> Keys \cup {None}]
                     /\ dedup' \in [Procs -> SUBSET (Keys \X Texts)]
                     /\ rows' \in Seq(Rows)
                     /\ crashes' \in Nat
                     /\ faults' \in Nat
<1>0. ev' \in [Events -> Handler] /\ FiredHasSlot'
  BY TaskKeepsSlots, SlotsStay DEF TypeInv, TypeOK
<1> SUFFICES Others
  BY <1>0 DEF TypeInv, TypeOK
<1>k. Fired(e) => ev[e].key \in Keys /\ ev[e].proc \in Procs
  BY DEF TypeInv, FiredHasSlot
<1> USE DEF TypeInv, TypeOK
<1>1. CASE Start(e)
  <2>1. ev[e].key \in Keys
    BY <1>k, <1>1 DEF Start, At, Fired
  <2>2. Append(rows, Row(ev[e].key, "pending")) \in Seq(Rows)
    BY <2>1, RowType DEF SendStatus
  <2>3. rows' \in Seq(Rows) /\ faults' \in Nat
    BY <1>1, <2>2, SaveType DEF Start
  <2> QED
    BY <1>1, <2>3 DEF Start
<1>2. CASE RunReturns(e)
  BY <1>2 DEF RunReturns
<1>3. ASSUME NEW s \in SendStatus, Finish(e, s), Fired(e) PROVE Others
  <2>2. Recorded(ev[e].key, s) \in Seq(Rows)
    BY <1>k, <1>3, RecordedType
  <2> QED
    BY <1>3, <2>2, SaveType DEF Finish
<1>4. CASE Conclude(e)
  <2>1. CASE SkipLateResult(e)
    BY <2>1 DEF SkipLateResult
  <2>2. CASE AbortWatchdog(e)
    BY <2>2 DEF AbortWatchdog
  <2>3. CASE NothingToDeliver(e) \/ TargetUnresolved(e) \/ SuppressDuplicate(e) \/ ReportSend(e)
    <3>1. \E s \in SendStatus : Finish(e, s) /\ Fired(e)
      BY <2>3 DEF NothingToDeliver, TargetUnresolved, SuppressDuplicate, ReportSend,
                  At, SendStatus, Fired
    <3> QED
      BY <1>3, <3>1
  <2>4. CASE BeginSend(e)
    <3>1. /\ <<ev[e].key, ev[e].text>> \in Keys \X Texts
          /\ dedup' = [dedup EXCEPT ![ev[e].proc] = @ \cup {<<ev[e].key, ev[e].text>>}]
          /\ ev[e].proc \in Procs
      BY <1>k, <2>4 DEF BeginSend, At, Fired
    <3>2. dedup' \in [Procs -> SUBSET (Keys \X Texts)]
      BY <3>1
    <3> QED
      BY <2>4, <3>2 DEF BeginSend
  <2>5. CASE SendSucceeds(e) \/ SendFails(e)
    BY <2>5 DEF SendSucceeds, SendFails
  <2> QED
    BY <1>4, <2>1, <2>2, <2>3, <2>4, <2>5 DEF Conclude
<1>5. CASE Watchdog(e)
  <2>1. CASE WatchdogWakes(e)
    BY <2>1 DEF WatchdogWakes
  <2>2. CASE WatchdogCloses(e)
    <3>1. Closed(OpenFor(ev[e].key), "skipped_error") \in Seq(Rows)
      BY ClosedType DEF SendStatus
    <3> QED
      BY <2>2, <3>1 DEF WatchdogCloses, Lose
  <2>3. CASE WatchdogTells(e)
    BY <2>3 DEF WatchdogTells
  <2> QED
    BY <1>5, <2>1, <2>2, <2>3 DEF Watchdog
<1> QED
  BY <1>1, <1>2, <1>4, <1>5 DEF TaskStep

\* A step of a process leaves the state well typed.
LEMMA ProcessType ==
  ASSUME TypeInv, NEW p \in Procs, Process(p)
  PROVE  TypeInv'
<1>0. ev' \in [Events -> Handler] /\ FiredHasSlot'
  BY ProcessKeepsSlots, SlotsStay DEF TypeInv, TypeOK
<1> USE <1>0 DEF TypeInv, TypeOK
<1>1. CASE Recover(p)
  <2>1. Closed(StaleRows, "send_failed") \in Seq(Rows)
    BY ClosedType DEF SendStatus
  <2> QED
    BY <1>1, <2>1, SaveType DEF Recover
<1>2. CASE Crash(p)
  <2>1. /\ crashes' = crashes + 1
        /\ up' = [up EXCEPT ![p] = "down"]
        /\ batch' = [batch EXCEPT ![p] = {}]
        /\ handed' = [handed EXCEPT ![p] = None]
        /\ dedup' = [dedup EXCEPT ![p] = {}]
        /\ UNCHANGED <<now, lastRun, claimed, rows, faults>>
    BY <1>2 DEF Crash
  <2> QED
    BY <2>1
<1>3. CASE Boot(p)
  BY <1>3 DEF Boot
<1>4. CASE ReceiverDies(p)
  BY <1>4 DEF ReceiverDies, Lose
<1>5. CASE DedupExpires(p)
  BY <1>5 DEF DedupExpires
<1> QED
  BY <1>1, <1>2, <1>3, <1>4, <1>5 DEF Process

\* TypeInv holds at the start and every step preserves it.
LEMMA InitTyped == Init => TypeInv
BY CronAssumption DEF Init, TypeInv, TypeOK, FiredHasSlot, Fired, Idle, Handler, Stages, Keys

LEMMA NextTyped ==
  ASSUME TypeInv, [Next]_vars
  PROVE  TypeInv'
<1>1. CASE Clock
  BY <1>1 DEF Clock, TypeInv, TypeOK, FiredHasSlot, Fired
<1>2. CASE UNCHANGED vars
  BY <1>2 DEF vars, TypeInv, TypeOK, FiredHasSlot, Fired
<1> QED
  BY <1>1, <1>2, SchedulerType, TaskType, ProcessType DEF Next, TaskStep

\* Every reachable state is well typed, whatever the constants.
THEOREM TypeCorrect == Spec => []TypeOK
<1>1. TypeInv /\ [Next]_vars => TypeInv'
  BY NextTyped
<1>2. TypeInv => TypeOK
  BY DEF TypeInv
<1> QED
  BY InitTyped, <1>1, <1>2, PTL DEF Spec

-----------------------------------------------------------------------------
(* One delivery per slot, when due slots are claimed.                      *)

PastSend == {"sent", "unsent", "done", "lost"}

\* A claimed slot is in one place: still to be claimed, in one process's tick,
\* or in the hands of one task; and a message follows its task's send.
BatchesClaimed    == \A p \in Procs : batch[p] \subseteq claimed
BatchesApart      == \A p, q \in Procs : p # q => batch[p] \cap batch[q] = {}
FiredIsClaimed    == \A e \in Events : Fired(e) => ev[e].key \in claimed
FiredLeftBatch    == \A e \in Events, p \in Procs : Fired(e) => ev[e].key \notin batch[p]
FiredApart        == \A e1, e2 \in Events : Fired(e1) /\ Fired(e2) /\ ev[e1].key = ev[e2].key => e1 = e2
DeliveredPastSend == \A e \in Events : ev[e].delivered => ev[e].stage \in PastSend

SlotInv == /\ BatchesClaimed /\ BatchesApart
           /\ FiredIsClaimed /\ FiredLeftBatch /\ FiredApart
           /\ DeliveredPastSend

DeliveryInv == TypeInv /\ SlotInv

\* What no step but a send does: put a message into the user's inbox.
KeepsInbox == \A x \in Events : ev'[x].delivered = ev[x].delivered
KeepsFired == \A x \in Events : Fired(x) => ev'[x].key = ev[x].key
Sends(e)   == /\ ev[e].stage = "sending" /\ ~ ev[e].delivered /\ ev'[e].delivered
              /\ \A x \in Events \ {e} : ev'[x] = ev[x]

\* A task's step keeps the inbox, or it is the task's own send.
LEMMA TaskSends ==
  ASSUME ev \in [Events -> Handler], DeliveredPastSend, NEW e \in Events, TaskStep(e)
  PROVE  (KeepsInbox \/ Sends(e)) /\ DeliveredPastSend'
<1> DEFINE Goal == (KeepsInbox \/ Sends(e)) /\ DeliveredPastSend'
<1> USE DEF KeepsInbox, DeliveredPastSend, Handler, PastSend, At
<1>0. ASSUME \A x \in Events : ev'[x].delivered = ev[x].delivered,
             \A x \in Events : ev[x].stage \in PastSend => ev'[x].stage \in PastSend
      PROVE  Goal
  BY <1>0
<1>1. CASE Start(e)
  BY <1>1, <1>0 DEF Start
<1>2. CASE RunReturns(e)
  <2>1. PICK o \in Outcomes : ev' = [ev EXCEPT ![e].stage = "completed", ![e].text = o]
    BY <1>2 DEF RunReturns
  <2> QED
    BY <1>2, <2>1, <1>0 DEF RunReturns
<1>3. ASSUME NEW s, Finish(e, s) PROVE Goal
  BY <1>3, <1>0 DEF Finish
<1>4. CASE SkipLateResult(e)
  BY <1>4, <1>0 DEF SkipLateResult
<1>5. CASE AbortWatchdog(e)
  <2>1. /\ ev[e].stage = "completed"
        /\ \E w : ev' = [ev EXCEPT ![e].stage = "reporting", ![e].watchdog = w]
    BY <1>5 DEF AbortWatchdog
  <2> QED
    BY <2>1, <1>0
<1>6. CASE NothingToDeliver(e) \/ TargetUnresolved(e) \/ SuppressDuplicate(e) \/ ReportSend(e)
  BY <1>3, <1>6 DEF NothingToDeliver, TargetUnresolved, SuppressDuplicate, ReportSend
<1>7. CASE BeginSend(e)
  BY <1>7, <1>0 DEF BeginSend
<1>8. CASE SendSucceeds(e)
  BY <1>8 DEF SendSucceeds, Sends
<1>9. CASE SendFails(e)
  <2>1. PICK reached \in BOOLEAN :
           ev' = [ev EXCEPT ![e].stage = "unsent", ![e].delivered = reached]
    BY <1>9 DEF SendFails
  <2> QED
    BY <1>9, <2>1 DEF SendFails, Sends
<1>10. CASE Watchdog(e)
  <2>1. \A x \in Events : ev'[x].delivered = ev[x].delivered /\ ev'[x].stage = ev[x].stage
    <3>1. CASE WatchdogWakes(e)
      BY <3>1 DEF WatchdogWakes
    <3>2. CASE WatchdogCloses(e)
      BY <3>2 DEF WatchdogCloses
    <3>3. CASE WatchdogTells(e)
      BY <3>3 DEF WatchdogTells
    <3> QED
      BY <1>10, <3>1, <3>2, <3>3 DEF Watchdog
  <2> QED
    BY <2>1, <1>0
<1> QED
  BY <1>1, <1>2, <1>4, <1>5, <1>6, <1>7, <1>8, <1>9, <1>10 DEF TaskStep, Conclude

\* A process's step keeps the inbox.
LEMMA ProcessKeepsInbox ==
  ASSUME ev \in [Events -> Handler], DeliveredPastSend, NEW p \in Procs, Process(p)
  PROVE  KeepsInbox /\ DeliveredPastSend'
<1> USE DEF KeepsInbox, DeliveredPastSend, Handler, PastSend
<1>1. CASE Crash(p)
  <2>1. ASSUME NEW x \in Events
        PROVE  /\ ev'[x].delivered = ev[x].delivered
               /\ ev'[x].stage \in {ev[x].stage, "lost"}
    BY <1>1 DEF Crash
  <2> QED
    BY <2>1
<1>2. CASE ReceiverDies(p)
  <2>1. ASSUME NEW x \in Events
        PROVE  /\ ev'[x].delivered = ev[x].delivered
               /\ ev'[x].stage \in {ev[x].stage, "lost"}
    BY <1>2 DEF ReceiverDies
  <2> QED
    BY <2>1
<1>3. CASE Recover(p) \/ Boot(p) \/ DedupExpires(p)
  BY <1>3 DEF Recover, Boot, DedupExpires
<1> QED
  BY <1>1, <1>2, <1>3 DEF Process

\* A scheduler that claims keeps every slot in one place.
LEMMA SchedulerSlots ==
  ASSUME DeliveryInv, Cloud, NEW p \in Procs, Scheduler(p)
  PROVE  SlotInv' /\ KeepsInbox /\ KeepsFired /\ claimed \subseteq claimed'
<1> USE DEF DeliveryInv, TypeInv, TypeOK, SlotInv, BatchesClaimed, BatchesApart, FiredIsClaimed,
            FiredLeftBatch, FiredApart, Fired
<1>1. CASE ScanFiles(p)
  BY <1>1 DEF ScanFiles
<1>2. CASE ClaimDue(p)
  <2>1. PICK S \in SUBSET Claimable : batch' = [batch EXCEPT ![p] = S] /\ claimed' = claimed \cup S
    BY <1>2 DEF ClaimDue
  <2>2. S \cap claimed = {} /\ ev' = ev
    BY <1>2, <2>1 DEF ClaimDue, Claimable
  <2>3. BatchesClaimed' /\ BatchesApart'
    BY <2>1, <2>2
  <2>4. FiredIsClaimed' /\ FiredLeftBatch' /\ FiredApart'
    BY <2>1, <2>2
  <2> QED
    BY <2>1, <2>2, <2>3, <2>4 DEF DeliveredPastSend, KeepsInbox, KeepsFired
<1>3. ASSUME NEW k \in batch[p], HandOver(p, k)
      PROVE  SlotInv' /\ KeepsInbox /\ KeepsFired /\ claimed \subseteq claimed'
  <2>1. PICK e \in FreeEvents : ev' = [ev EXCEPT ![e] = [Idle EXCEPT !.stage = "queued", !.key = k, !.proc = p]]
    BY <1>3 DEF HandOver
  <2>2. /\ ev'[e].key = k /\ ev'[e].stage = "queued" /\ ev'[e].delivered = FALSE
        /\ \A x \in Events \ {e} : ev'[x] = ev[x]
        /\ ~ Fired(e) /\ ev[e].delivered = FALSE /\ e \in Events
    BY <2>1 DEF Idle, FreeEvents, DeliveredPastSend, PastSend, Handler
  <2>3. claimed' = claimed /\ batch' = [batch EXCEPT ![p] = batch[p] \ {k}]
    BY <1>3 DEF HandOver, Rest
  <2>4. k \in claimed /\ \A q \in Procs : k \notin batch'[q]
    BY <2>3
  <2>5. BatchesClaimed' /\ BatchesApart'
    BY <2>3
  <2>6. FiredIsClaimed' /\ FiredLeftBatch'
    BY <2>2, <2>3, <2>4
  <2>7. FiredApart'
    BY <2>2, <1>3
  <2>8. DeliveredPastSend' /\ KeepsInbox /\ KeepsFired
    BY <2>2 DEF DeliveredPastSend, KeepsInbox, KeepsFired
  <2> QED
    BY <2>3, <2>5, <2>6, <2>7, <2>8
<1>4. ASSUME claimed' = claimed, ev' = ev, \A q \in Procs : batch'[q] \subseteq batch[q]
      PROVE  SlotInv' /\ KeepsInbox /\ KeepsFired /\ claimed \subseteq claimed'
  BY <1>4 DEF DeliveredPastSend, KeepsInbox, KeepsFired
<1>5. ASSUME NEW k \in batch[p], HandOverRefused(p, k) \/ TargetMissing(p, k)
      PROVE  SlotInv' /\ KeepsInbox /\ KeepsFired /\ claimed \subseteq claimed'
  BY <1>4, <1>5 DEF HandOverRefused, TargetMissing, Rest
<1>6. CASE Mark(p) \/ SchedulerPanics(p)
  BY <1>4, <1>6 DEF Mark, SchedulerPanics
<1> QED
  BY <1>1, <1>2, <1>3, <1>5, <1>6 DEF Scheduler

\* Steps that keep the slots and take nothing into a tick preserve SlotInv.
LEMMA SlotsKept ==
  ASSUME SlotInv, KeepsSlots, DeliveredPastSend',
         claimed' = claimed, \A q \in Procs : batch'[q] \subseteq batch[q]
  PROVE  SlotInv'
BY DEF SlotInv, BatchesClaimed, BatchesApart, FiredIsClaimed, FiredLeftBatch, FiredApart,
       KeepsSlots, Fired

\* DeliveryInv holds at the start; every step preserves it, keeps the claims, and
\* keeps the inbox unless it is the send of a task.
LEMMA DeliveryInit == Init => DeliveryInv
BY InitTyped DEF Init, DeliveryInv, SlotInv, BatchesClaimed, BatchesApart, FiredIsClaimed,
                 FiredLeftBatch, FiredApart, DeliveredPastSend, Fired, Idle

LEMMA DeliveryStep ==
  ASSUME DeliveryInv, Cloud, [Next]_vars
  PROVE  /\ DeliveryInv' /\ KeepsFired
         /\ \/ KeepsInbox /\ claimed \subseteq claimed'
            \/ \E e \in Events : Sends(e) /\ claimed' = claimed
<1> DEFINE Goal == /\ SlotInv' /\ KeepsFired
                   /\ \/ KeepsInbox /\ claimed \subseteq claimed'
                      \/ \E e \in Events : Sends(e) /\ claimed' = claimed
<1>0. /\ ev \in [Events -> Handler] /\ SlotInv /\ DeliveredPastSend
      /\ batch \in [Procs -> SUBSET Keys]
      /\ KeepsSlots => KeepsFired
  BY DEF DeliveryInv, TypeInv, TypeOK, SlotInv, KeepsSlots, KeepsFired
<1>1. ASSUME NEW p \in Procs, Scheduler(p) PROVE Goal
  BY <1>1, SchedulerSlots
<1>2. ASSUME NEW e \in Events, TaskStep(e) PROVE Goal
  <2>1. claimed' = claimed /\ batch' = batch
    BY <1>2 DEF TaskStep, Start, RunReturns, Conclude, SkipLateResult, AbortWatchdog,
                NothingToDeliver, TargetUnresolved, SuppressDuplicate, BeginSend, SendSucceeds,
                SendFails, ReportSend, Finish, Watchdog, WatchdogWakes, WatchdogCloses, WatchdogTells
  <2>2. KeepsSlots /\ (KeepsInbox \/ Sends(e)) /\ DeliveredPastSend'
    BY <1>0, <1>2, TaskKeepsSlots, TaskSends
  <2> QED
    BY <1>0, <2>1, <2>2, SlotsKept
<1>3. ASSUME NEW p \in Procs, Process(p) PROVE Goal
  <2>1. claimed' = claimed /\ \A q \in Procs : batch'[q] \subseteq batch[q]
    BY <1>0, <1>3 DEF Process, Recover, Crash, Boot, ReceiverDies, DedupExpires
  <2>2. KeepsSlots /\ KeepsInbox /\ DeliveredPastSend'
    BY <1>0, <1>3, ProcessKeepsSlots, ProcessKeepsInbox
  <2> QED
    BY <1>0, <2>1, <2>2, SlotsKept
<1>4. ASSUME Clock \/ UNCHANGED vars PROVE Goal
  <2>1. claimed' = claimed /\ batch' = batch /\ ev' = ev
    BY <1>4 DEF Clock, vars
  <2>2. KeepsSlots /\ KeepsInbox /\ DeliveredPastSend'
    BY <1>0, <2>1 DEF KeepsSlots, KeepsInbox, DeliveredPastSend
  <2> QED
    BY <1>0, <2>1, <2>2, SlotsKept
<1>5. Goal
  <2> HIDE DEF Goal
  <2> QED
    BY <1>1, <1>2, <1>3, <1>4 DEF Next, TaskStep
<1> QED
  BY <1>5, NextTyped DEF DeliveryInv

\* With claims in Postgres no slot is ever delivered twice, whatever the number
\* of processes, crashes, panics and lost writes.
THEOREM DeliveredOnce ==
  ASSUME Cloud
  PROVE  Spec => []NoDoubleDelivery
<1>1. DeliveryInv /\ [Next]_vars => DeliveryInv'
  BY DeliveryStep
<1>2. DeliveryInv => NoDoubleDelivery
  BY DEF DeliveryInv, SlotInv, FiredApart, DeliveredPastSend, PastSend, Fired, NoDoubleDelivery
<1> QED
  BY DeliveryInit, <1>1, <1>2, PTL DEF Spec

\* It implements the abstract pipeline of SlotDelivery.
THEOREM ImplementsSlotDelivery ==
  ASSUME Cloud
  PROVE  Spec => OncePerSlot
<1>1. Init => Slots!Init
  BY DEF Init, Slots!Init, Inbox, Idle
<1>2. ASSUME DeliveryInv, [Next]_vars
      PROVE  [Slots!Next]_Slots!slotVars
  <2> USE DEF Slots!Next, Slots!slotVars
  <2>0. DeliveryInv' /\ KeepsFired /\ \A e \in Events : ev[e].delivered => Fired(e)
    BY <1>2, DeliveryStep DEF DeliveryInv, SlotInv, DeliveredPastSend, PastSend, Fired
  <2>1. CASE KeepsInbox /\ claimed \subseteq claimed'
    <3>1. Inbox' = Inbox
      BY <2>0, <2>1 DEF Inbox, KeepsInbox, KeepsFired
    <3>2. claimed' \in SUBSET Keys
      BY <2>0 DEF DeliveryInv, TypeInv, TypeOK
    <3> QED
      BY <2>1, <3>1, <3>2 DEF Slots!Take
  <2>2. ASSUME NEW e \in Events, Sends(e), claimed' = claimed
        PROVE  [Slots!Next]_Slots!slotVars
    <3>1. Fired(e) /\ ev[e].key \in claimed
      BY <1>2, <2>2 DEF Sends, Fired, DeliveryInv, SlotInv, FiredIsClaimed
    <3>2. Inbox' = Inbox \cup {<<e, ev[e].key>>}
      BY <2>0, <2>2, <3>1 DEF Inbox, Sends, KeepsFired
    <3>3. ~ Slots!Answered(ev[e].key)
      <4>1. ASSUME NEW s \in Events, <<s, ev[e].key>> \in Inbox PROVE FALSE
        <5>1. ev[s].delivered /\ ev[s].key = ev[e].key
          BY <4>1 DEF Inbox
        <5>2. s = e
          BY <1>2, <2>0, <3>1, <5>1 DEF DeliveryInv, SlotInv, FiredApart
        <5> QED
          BY <2>2, <5>1, <5>2 DEF Sends
      <4> QED
        BY <4>1 DEF Slots!Answered
    <3> QED
      BY <2>2, <3>1, <3>2, <3>3 DEF Slots!Deliver
  <2> QED
    BY <1>2, <2>1, <2>2, DeliveryStep
<1>3. DeliveryInv /\ [Next]_vars => DeliveryInv'
  BY DeliveryStep
<1> QED
  BY DeliveryInit, <1>1, <1>2, <1>3, PTL DEF Spec, OncePerSlot, Slots!Spec

-----------------------------------------------------------------------------
(* The execution ledger.                                                   *)

RowsInPast == \A i \in DOMAIN rows : rows[i].at <= now

\* Ledger r keeps every row of the present one, and the terminal ones as they are.
Frozen(r) == \A i \in DOMAIN rows : /\ i \in DOMAIN r
                                    /\ rows[i].send # "pending" => r[i] = rows[i]
InPast(r) == \A i \in DOMAIN r : r[i].at <= now

\* A non-empty set of naturals has a least element.
LEMMA NatMin ==
  ASSUME NEW T \in SUBSET Nat, T # {}
  PROVE  \E m \in T : \A n \in T : m <= n
<1> DEFINE R == OpToRel(<, Nat)
<1>1. IsWellFoundedOn(R, Nat)
  BY NatLessThanWellFounded
<1>2. \A x, y \in Nat : x < y => <<x, y>> \in R
  BY DEF OpToRel
<1> HIDE DEF R
<1>3. \E m \in T : \A n \in T : <<n, m>> \notin R
  BY <1>1, WFMin
<1>4. PICK m \in T : \A n \in T : <<n, m>> \notin R
  BY <1>3
<1>5. \A n \in T : ~ (n < m)
  BY <1>2, <1>4
<1> QED
  BY <1>5

\* ORDER BY executed_at DESC, run_id DESC LIMIT 1 finds a row if there is one.
LEMMA LatestIn ==
  ASSUME rows \in Seq(Rows), now \in Nat, RowsInPast, NEW S \in SUBSET DOMAIN rows, S # {}
  PROVE  Latest(S) \in S
<1>1. /\ Len(rows) \in Nat /\ DOMAIN rows = 1 .. Len(rows)
      /\ \A i \in DOMAIN rows : rows[i].at \in Nat /\ rows[i].at <= now
  <2>1. rows \in [1 .. Len(rows) -> Rows] /\ Len(rows) \in Nat /\ DOMAIN rows = 1 .. Len(rows)
    BY LenProperties
  <2>2. \A i \in DOMAIN rows : rows[i] \in Rows
    BY <2>1
  <2> QED
    BY <2>1, <2>2 DEF Rows, RowsInPast
<1>2. PICK i1 \in S : \A j \in S : rows[j].at <= rows[i1].at
  <2> DEFINE A == {now - rows[i].at : i \in S}
  <2>1. A \in SUBSET Nat /\ A # {}
    BY <1>1
  <2>2. PICK m \in A : \A n \in A : m <= n
    BY <2>1, NatMin
  <2>3. PICK i \in S : m = now - rows[i].at
    BY <2>2
  <2>4. \A j \in S : m <= now - rows[j].at
    BY <2>2
  <2>5. ASSUME NEW j \in S PROVE rows[j].at <= rows[i].at
    <3>1. now - rows[i].at <= now - rows[j].at
      BY <2>3, <2>4
    <3>2. rows[i].at \in Nat /\ rows[j].at \in Nat
      BY <1>1
    <3> QED
      BY <3>1, <3>2
  <2> QED
    BY <2>5
<1> DEFINE B == {i \in S : rows[i].at = rows[i1].at}
<1>3. PICK i2 \in B : \A j \in B : j <= i2
  <2> DEFINE C == {Len(rows) - i : i \in B}
  <2>1. C \in SUBSET Nat /\ C # {}
    BY <1>1, <1>2
  <2>2. PICK m \in C : \A n \in C : m <= n
    BY <2>1, NatMin
  <2>3. PICK i \in B : m = Len(rows) - i
    BY <2>2
  <2>4. \A j \in B : m <= Len(rows) - j
    BY <2>2
  <2> QED
    BY <1>1, <2>3, <2>4
<1>4. \A j \in S : rows[j].at < rows[i2].at \/ (rows[j].at = rows[i2].at /\ j <= i2)
  BY <1>1, <1>2, <1>3
<1> QED
  BY <1>3, <1>4 DEF Latest

\* record_execution_event closes an open row or adds one, and touches no other.
LEMMA RecordedKeeps ==
  ASSUME rows \in Seq(Rows), now \in Nat, RowsInPast, NEW k \in Keys, NEW s \in SendStatus
  PROVE  /\ Frozen(Recorded(k, s)) /\ InPast(Recorded(k, s))
         /\ \E i \in DOMAIN Recorded(k, s) : Recorded(k, s)[i] = Row(k, s)
<1> DEFINE r == Recorded(k, s)
<1>1. DOMAIN rows = 1 .. Len(rows) /\ Len(rows) \in Nat /\ Row(k, s) \in Rows
  BY LenProperties, RowType
<1>2. ASSUME NEW S \in SUBSET {i \in DOMAIN rows : Open(i)}, S # {},
             r = [rows EXCEPT ![Latest(S)] = Row(k, s)]
      PROVE  Frozen(r) /\ InPast(r) /\ \E i \in DOMAIN r : r[i] = Row(k, s)
  <2>1. Latest(S) \in S
    BY <1>2, LatestIn
  <2>2. Latest(S) \in DOMAIN rows /\ rows[Latest(S)].send = "pending"
    BY <2>1 DEF Open
  <2> HIDE DEF r
  <2>3. DOMAIN r = DOMAIN rows /\ r[Latest(S)] = Row(k, s)
        /\ \A i \in DOMAIN rows : i # Latest(S) => r[i] = rows[i]
    BY <1>2, <2>2
  <2> QED
    BY <2>2, <2>3 DEF Frozen, InPast, RowsInPast, Row
<1>3. ASSUME r = Append(rows, Row(k, s))
      PROVE  Frozen(r) /\ InPast(r) /\ \E i \in DOMAIN r : r[i] = Row(k, s)
  <2> HIDE DEF r
  <2>1. DOMAIN r = 1 .. Len(rows) + 1 /\ r[Len(rows) + 1] = Row(k, s)
        /\ \A i \in DOMAIN rows : r[i] = rows[i]
    BY <1>1, <1>3, AppendProperties
  <2> QED
    BY <1>1, <2>1 DEF Frozen, InPast, RowsInPast, Row
<1>4. OpenFor(k) \in SUBSET {i \in DOMAIN rows : Open(i)} /\ OpenNear(k) \in SUBSET {i \in DOMAIN rows : Open(i)}
  BY DEF OpenFor, OpenNear
<1> QED
  BY <1>2, <1>3, <1>4 DEF Recorded

\* A started row is added after all others.
LEMMA StartedKeeps ==
  ASSUME rows \in Seq(Rows), now \in Nat, RowsInPast, NEW k \in Keys
  PROVE  LET r == Append(rows, Row(k, "pending")) IN Frozen(r) /\ InPast(r)
<1> DEFINE r == Append(rows, Row(k, "pending"))
<1>1. /\ DOMAIN rows = 1 .. Len(rows) /\ Len(rows) \in Nat
      /\ DOMAIN r = 1 .. Len(rows) + 1 /\ r[Len(rows) + 1] = Row(k, "pending")
      /\ \A i \in DOMAIN rows : r[i] = rows[i]
  BY LenProperties, AppendProperties, RowType DEF SendStatus
<1> HIDE DEF r
<1>2. Frozen(r) /\ InPast(r)
  BY <1>1 DEF Frozen, InPast, RowsInPast, Row
<1> QED
  BY <1>2 DEF r

\* The UPDATE of a watchdog or a recovery touches open rows only.
LEMMA ClosedKeeps ==
  ASSUME rows \in Seq(Rows), now \in Nat, RowsInPast,
         NEW S \in SUBSET {i \in DOMAIN rows : Open(i)}, NEW s
  PROVE  Frozen(Closed(S, s)) /\ InPast(Closed(S, s))
BY DEF Closed, Frozen, InPast, RowsInPast, Row, Open

LedgerInv == TypeInv /\ RowsInPast /\ DeliveredPastSend

\* What every step does to the ledger.
LedgerKept == Frozen(rows') /\ RowsInPast'

\* A step that leaves the ledger alone keeps it, ...
LEMMA SameRowsKeep ==
  ASSUME TypeInv, RowsInPast, rows' = rows, now' \in {now, now + 1}
  PROVE  LedgerKept
<1>1. rows \in [1 .. Len(rows) -> Rows] /\ DOMAIN rows = 1 .. Len(rows) /\ now \in Nat
  BY LenProperties DEF TypeInv, TypeOK
<1>2. \A i \in DOMAIN rows : rows[i].at \in Nat
  BY <1>1 DEF Rows
<1> QED
  BY <1>1, <1>2 DEF LedgerKept, Frozen, RowsInPast

\* ... and so does a write of a ledger that keeps it.
LEMMA SaveKeeps ==
  ASSUME TypeInv, RowsInPast, now' = now, NEW r, Save(r), Frozen(r), InPast(r)
  PROVE  LedgerKept
<1>1. CASE rows' = r
  BY <1>1 DEF LedgerKept, RowsInPast, InPast
<1>2. CASE rows' = rows
  BY <1>2, SameRowsKeep
<1> QED
  BY <1>1, <1>2 DEF Save

\* A task or its watchdog keeps the ledger.
LEMMA TaskLedger ==
  ASSUME LedgerInv, NEW e \in Events, TaskStep(e)
  PROVE  LedgerKept
<1> USE DEF LedgerInv
<1>0. rows \in Seq(Rows) /\ now \in Nat /\ (Fired(e) => ev[e].key \in Keys)
  BY DEF TypeInv, TypeOK, FiredHasSlot
<1>1. CASE Start(e)
  <2>1. now' = now /\ Fired(e) /\ Save(Append(rows, Row(ev[e].key, "pending")))
    BY <1>1 DEF Start, At, Fired
  <2> QED
    BY <1>0, <2>1, StartedKeeps, SaveKeeps
<1>2. ASSUME NEW s \in SendStatus, Finish(e, s), Fired(e) PROVE LedgerKept
  <2>1. now' = now /\ Save(Recorded(ev[e].key, s))
    BY <1>2 DEF Finish
  <2> QED
    BY <1>0, <1>2, <2>1, RecordedKeeps, SaveKeeps
<1>3. CASE NothingToDeliver(e) \/ TargetUnresolved(e) \/ SuppressDuplicate(e) \/ ReportSend(e)
  <2>1. \E s \in SendStatus : Finish(e, s) /\ Fired(e)
    BY <1>3 DEF NothingToDeliver, TargetUnresolved, SuppressDuplicate, ReportSend,
                At, SendStatus, Fired
  <2> QED
    BY <1>2, <2>1
<1>4. CASE WatchdogCloses(e)
  <2>1. OpenFor(ev[e].key) \in SUBSET {i \in DOMAIN rows : Open(i)}
    BY DEF OpenFor
  <2>2. Frozen(Closed(OpenFor(ev[e].key), "skipped_error")) /\ InPast(Closed(OpenFor(ev[e].key), "skipped_error"))
    BY <1>0, <2>1, ClosedKeeps
  <2>3. now' = now /\ Save(Closed(OpenFor(ev[e].key), "skipped_error"))
    BY <1>4 DEF WatchdogCloses, Save
  <2> QED
    BY <2>2, <2>3, SaveKeeps
<1>5. ASSUME rows' = rows, now' = now PROVE LedgerKept
  BY <1>5, SameRowsKeep
<1>6. CASE RunReturns(e) \/ SkipLateResult(e) \/ AbortWatchdog(e) \/ BeginSend(e) \/ SendSucceeds(e)
           \/ SendFails(e) \/ WatchdogWakes(e) \/ WatchdogTells(e)
  BY <1>5, <1>6 DEF RunReturns, SkipLateResult, AbortWatchdog, BeginSend, SendSucceeds, SendFails,
                    WatchdogWakes, WatchdogTells
<1> QED
  BY <1>1, <1>3, <1>4, <1>6 DEF TaskStep, Conclude, Watchdog

\* Every step keeps the ledger.
LEMMA StepLedger ==
  ASSUME LedgerInv, [Next]_vars
  PROVE  LedgerKept
<1> USE DEF LedgerInv
<1>0. rows \in Seq(Rows) /\ now \in Nat /\ batch \in [Procs -> SUBSET Keys]
  BY DEF TypeInv, TypeOK
<1>1. ASSUME rows' = rows, now' \in {now, now + 1} PROVE LedgerKept
  BY <1>1, SameRowsKeep
<1>2. ASSUME NEW p \in Procs, Scheduler(p) PROVE LedgerKept
  <2>1. ASSUME NEW k \in batch[p], TargetMissing(p, k) PROVE LedgerKept
    <3>1. now' = now /\ k \in Keys /\ Save(Recorded(k, "target_missing"))
      BY <1>0, <2>1 DEF TargetMissing
    <3> QED
      BY <1>0, <3>1, RecordedKeeps, SaveKeeps DEF SendStatus
  <2> QED
    BY <1>1, <1>2, <2>1 DEF Scheduler, ScanFiles, ClaimDue, HandOver, HandOverRefused, Mark, SchedulerPanics
<1>3. ASSUME NEW p \in Procs, Process(p) PROVE LedgerKept
  <2>1. CASE Recover(p)
    <3>1. Frozen(Closed(StaleRows, "send_failed")) /\ InPast(Closed(StaleRows, "send_failed"))
      <4>1. StaleRows \in SUBSET {i \in DOMAIN rows : Open(i)}
        BY DEF StaleRows
      <4> QED
        BY <1>0, <4>1, ClosedKeeps
    <3>2. now' = now /\ Save(Closed(StaleRows, "send_failed"))
      BY <2>1 DEF Recover
    <3> QED
      BY <3>1, <3>2, SaveKeeps
  <2>2. CASE Crash(p) \/ Boot(p) \/ ReceiverDies(p) \/ DedupExpires(p)
    BY <1>1, <2>2 DEF Crash, Boot, ReceiverDies, DedupExpires
  <2> QED
    BY <1>3, <2>1, <2>2 DEF Process
<1>4. CASE Clock \/ UNCHANGED vars
  BY <1>1, <1>4 DEF Clock, vars
<1> QED
  BY <1>2, <1>3, <1>4, TaskLedger DEF Next, TaskStep

\* A scheduler queues a free task at most, and delivers nothing.
LEMMA SchedulerEv ==
  ASSUME TypeInv, DeliveredPastSend, NEW p \in Procs, Scheduler(p)
  PROVE  \A x \in Events : \/ ev'[x] = ev[x]
                           \/ ev'[x].stage = "queued" /\ ev'[x].delivered = FALSE
<1>1. ASSUME NEW k \in batch[p], HandOver(p, k)
      PROVE  \A x \in Events : \/ ev'[x] = ev[x]
                               \/ ev'[x].stage = "queued" /\ ev'[x].delivered = FALSE
  <2>1. PICK e \in Events : ev' = [ev EXCEPT ![e] = [Idle EXCEPT !.stage = "queued", !.key = k, !.proc = p]]
    BY <1>1 DEF HandOver, FreeEvents
  <2> QED
    BY <2>1 DEF Idle, TypeInv, TypeOK
<1> QED
  BY <1>1 DEF Scheduler, ScanFiles, ClaimDue, HandOverRefused, TargetMissing, Mark, SchedulerPanics

\* LedgerInv is inductive.
LEMMA LedgerInit == Init => LedgerInv /\ DeliveredIsRecorded
BY InitTyped DEF Init, LedgerInv, RowsInPast, DeliveredPastSend, DeliveredIsRecorded, Idle

LEMMA LedgerStep ==
  ASSUME LedgerInv, [Next]_vars
  PROVE  LedgerInv' /\ LedgerKept
<1>1. TypeInv' /\ LedgerKept
  BY NextTyped, StepLedger DEF LedgerInv
<1>2. DeliveredPastSend'
  <2>0. ev \in [Events -> Handler] /\ DeliveredPastSend
    BY DEF LedgerInv, TypeInv, TypeOK
  <2>1. ASSUME NEW p \in Procs, Scheduler(p) PROVE DeliveredPastSend'
    BY <2>0, <2>1, SchedulerEv DEF DeliveredPastSend, LedgerInv
  <2>2. CASE Clock \/ UNCHANGED vars
    BY <2>0, <2>2 DEF Clock, vars, DeliveredPastSend
  <2> QED
    BY <2>0, <2>1, <2>2, TaskSends, ProcessKeepsInbox DEF Next, TaskStep
<1> QED
  BY <1>1, <1>2 DEF LedgerInv, LedgerKept

\* A terminal row of the ledger is never rewritten: not by a late report, a
\* watchdog, a recovery, nor by the two-hour fallback of another slot.
THEOREM LedgerFrozen == Spec => TerminalRowsFrozen
<1>1. LedgerInv /\ [Next]_vars => LedgerInv'
  BY LedgerStep
<1>2. ASSUME LedgerInv, [Next]_vars
      PROVE  [\A i \in DOMAIN rows : /\ i \in DOMAIN rows'
                                     /\ rows[i].send # "pending" => rows'[i] = rows[i]]_vars
  <2>1. Frozen(rows')
    BY <1>2, LedgerStep DEF LedgerKept
  <2> QED
    BY <2>1 DEF Frozen
<1>3. Init => LedgerInv
  BY LedgerInit
<1> QED
  BY <1>1, <1>2, <1>3, PTL DEF Spec, TerminalRowsFrozen

\* A task that gets through with a message delivered records it.
LEMMA TaskRecords ==
  ASSUME LedgerInv, NEW e \in Events, TaskStep(e), faults' = 0,
         ev'[e].stage = "done", ev'[e].delivered, ~ (ev[e].stage = "done" /\ ev[e].delivered)
  PROVE  \E i \in DOMAIN rows' : rows'[i].key = ev[e].key /\ rows'[i].send \in {"sent", "send_failed"}
<1>0. /\ ev \in [Events -> Handler] /\ rows \in Seq(Rows) /\ now \in Nat /\ faults \in Nat
      /\ ev[e].delivered => ev[e].stage \in PastSend
      /\ Fired(e) => ev[e].key \in Keys
      /\ RowsInPast
  BY DEF LedgerInv, TypeInv, TypeOK, DeliveredPastSend, FiredHasSlot
<1>1. ev'[e].delivered = ev[e].delivered \/ ev[e].stage = "sending"
  BY <1>0, TaskSends DEF KeepsInbox, Sends, LedgerInv
<1>2. ASSUME NEW s \in {"sent", "send_failed"}, Finish(e, s), Fired(e)
      PROVE  \E i \in DOMAIN rows' : rows'[i].key = ev[e].key /\ rows'[i].send \in {"sent", "send_failed"}
  <2>1. rows' = Recorded(ev[e].key, s)
    BY <1>0, <1>2 DEF Finish, Save, Lose
  <2>2. \E i \in DOMAIN rows' : rows'[i] = Row(ev[e].key, s)
    BY <1>0, <1>2, <2>1, RecordedKeeps DEF SendStatus
  <2> QED
    BY <2>2 DEF Row
<1>3. CASE ReportSend(e)
  BY <1>2, <1>3 DEF ReportSend, At, Fired
<1>4. ev[e].stage \notin {"sent", "unsent"} => ev'[e].stage # "done" \/ ~ ev'[e].delivered
                                               \/ ev[e].stage = "sending" \/ ev[e].stage = "lost"
  BY <1>0, <1>1 DEF PastSend
<1>5. ev[e].stage \in {"sent", "unsent", "sending", "lost"}
  BY <1>4
<1>6. CASE SendSucceeds(e) \/ SendFails(e) \/ BeginSend(e) \/ Start(e) \/ RunReturns(e)
  <2>1. CASE SendSucceeds(e)
    BY <1>0, <2>1 DEF SendSucceeds
  <2>2. CASE SendFails(e)
    <3>1. \E reached : ev' = [ev EXCEPT ![e].stage = "unsent", ![e].delivered = reached]
      BY <2>2 DEF SendFails
    <3> QED
      BY <1>0, <3>1
  <2>3. CASE BeginSend(e) \/ Start(e) \/ RunReturns(e)
    BY <1>5, <2>3 DEF BeginSend, Start, RunReturns, At
  <2> QED
    BY <1>6, <2>1, <2>2, <2>3
<1>7. CASE Watchdog(e)
  <2>1. ev'[e].stage = ev[e].stage
    BY <1>0, <1>7 DEF Watchdog, WatchdogWakes, WatchdogCloses, WatchdogTells, Handler
  <2> QED
    BY <1>5, <2>1
<1>8. CASE SkipLateResult(e) \/ AbortWatchdog(e) \/ NothingToDeliver(e) \/ TargetUnresolved(e) \/ SuppressDuplicate(e)
  BY <1>5, <1>8 DEF SkipLateResult, AbortWatchdog, NothingToDeliver, TargetUnresolved, SuppressDuplicate, At
<1> QED
  BY <1>3, <1>6, <1>7, <1>8 DEF TaskStep, Conclude

\* A step adds one fault at most, and one crash at most.
LEMMA StepFaults ==
  ASSUME [Next]_vars
  PROVE  faults' \in {faults, faults + 1} /\ crashes' \in {crashes, crashes + 1}
<1> DEFINE Goal == faults' \in {faults, faults + 1} /\ crashes' \in {crashes, crashes + 1}
<1> USE DEF Save, Lose
<1>1. ASSUME NEW p \in Procs, Scheduler(p) PROVE Goal
  BY <1>1 DEF Scheduler, ScanFiles, ClaimDue, HandOver, HandOverRefused, TargetMissing,
              Mark, SchedulerPanics
<1>2. ASSUME NEW p \in Procs, Process(p) PROVE Goal
  BY <1>2 DEF Process, Recover, Crash, Boot, ReceiverDies, DedupExpires
<1>3. ASSUME NEW e \in Events, TaskStep(e) PROVE Goal
  <2>1. ASSUME NEW s, Finish(e, s) PROVE Goal
    BY <2>1 DEF Finish
  <2>2. CASE NothingToDeliver(e) \/ TargetUnresolved(e) \/ SuppressDuplicate(e) \/ ReportSend(e)
    BY <2>1, <2>2 DEF NothingToDeliver, TargetUnresolved, SuppressDuplicate, ReportSend
  <2>3. CASE \/ Start(e) \/ RunReturns(e) \/ SkipLateResult(e) \/ AbortWatchdog(e)
             \/ BeginSend(e) \/ SendSucceeds(e) \/ SendFails(e) \/ Watchdog(e)
    BY <2>3 DEF Start, RunReturns, SkipLateResult, AbortWatchdog, BeginSend, SendSucceeds,
                SendFails, Watchdog, WatchdogWakes, WatchdogCloses, WatchdogTells
  <2> QED
    BY <1>3, <2>2, <2>3 DEF TaskStep, Conclude
<1>4. CASE Clock \/ UNCHANGED vars
  BY <1>4 DEF Clock, vars
<1> QED
  BY <1>1, <1>2, <1>3, <1>4 DEF Next, TaskStep

\* While no write is lost, a delivered message is in the history.
THEOREM DeliveriesRecorded == Spec => []DeliveredIsRecorded
<1> DEFINE Recs(x) == \E i \in DOMAIN rows : rows[i].key = ev[x].key /\ rows[i].send \in {"sent", "send_failed"}
<1>1. ASSUME LedgerInv, DeliveredIsRecorded, [Next]_vars
      PROVE  DeliveredIsRecorded'
  <2>0. Frozen(rows') /\ ev \in [Events -> Handler]
    BY <1>1, LedgerStep DEF LedgerKept, LedgerInv, TypeInv, TypeOK
  <2> SUFFICES ASSUME faults' = 0, NEW x \in Events, ev'[x].stage = "done", ev'[x].delivered
               PROVE  \E i \in DOMAIN rows' : /\ rows'[i].key = ev'[x].key
                                              /\ rows'[i].send \in {"sent", "send_failed"}
    BY DEF DeliveredIsRecorded
  <2>1. faults = 0
    <3>1. faults' = faults \/ faults' = faults + 1
      BY <1>1, StepFaults
    <3>2. faults \in Nat
      BY <1>1 DEF LedgerInv, TypeInv, TypeOK
    <3> QED
      BY <3>1, <3>2
  <2>2. ASSUME ev[x].stage = "done", ev[x].delivered, ev'[x].key = ev[x].key
        PROVE  \E i \in DOMAIN rows' : rows'[i].key = ev'[x].key /\ rows'[i].send \in {"sent", "send_failed"}
    <3>1. PICK i \in DOMAIN rows : rows[i].key = ev[x].key /\ rows[i].send \in {"sent", "send_failed"}
      BY <1>1, <2>1, <2>2 DEF DeliveredIsRecorded
    <3>2. i \in DOMAIN rows' /\ rows'[i] = rows[i]
      BY <2>0, <3>1 DEF Frozen
    <3> QED
      BY <2>2, <3>1, <3>2
  <2>3. ASSUME NEW p \in Procs, Scheduler(p) PROVE ev[x].stage = "done" /\ ev[x].delivered /\ ev'[x].key = ev[x].key
    BY <1>1, <2>3, SchedulerEv DEF LedgerInv
  <2>4. ASSUME NEW p \in Procs, Process(p) PROVE ev[x].stage = "done" /\ ev[x].delivered /\ ev'[x].key = ev[x].key
    <3>1. KeepsInbox /\ KeepsSlots
      BY <1>1, <2>0, <2>4, ProcessKeepsInbox, ProcessKeepsSlots DEF LedgerInv
    <3>2. ev'[x].stage \in {ev[x].stage, "lost"}
      <4>1. CASE Crash(p)
        <5>1. ev'[x] = IF ev[x].proc # p THEN ev[x]
                       ELSE [ev[x] EXCEPT !.stage = IF LivesIn(p, x) THEN "lost" ELSE @,
                                          !.watchdog = "off"]
          BY <4>1 DEF Crash
        <5>2. ev[x] \in Handler
          BY <2>0
        <5> QED
          BY <5>1, <5>2 DEF Handler
      <4>2. CASE ReceiverDies(p)
        BY <2>0, <4>2 DEF ReceiverDies, Handler
      <4>3. CASE Recover(p) \/ Boot(p) \/ DedupExpires(p)
        BY <4>3 DEF Recover, Boot, DedupExpires
      <4> QED
        BY <2>4, <4>1, <4>2, <4>3 DEF Process
    <3> QED
      BY <3>1, <3>2 DEF KeepsInbox, KeepsSlots
  <2>5. ASSUME NEW e \in Events, TaskStep(e)
        PROVE  \E i \in DOMAIN rows' : rows'[i].key = ev'[x].key /\ rows'[i].send \in {"sent", "send_failed"}
    <3>1. KeepsSlots /\ (KeepsInbox \/ Sends(e))
      BY <1>1, <2>0, <2>5, TaskKeepsSlots, TaskSends DEF LedgerInv
    <3>2. CASE x = e
      BY <1>1, <2>2, <2>5, <3>1, <3>2, TaskRecords DEF KeepsSlots
    <3>3. CASE x # e
      <4>1. ev'[x] = ev[x]
        BY <2>0, <2>5, <3>3 DEF TaskStep, Start, RunReturns, Conclude, SkipLateResult, AbortWatchdog,
             NothingToDeliver, TargetUnresolved, SuppressDuplicate, BeginSend, SendSucceeds,
             SendFails, ReportSend, Finish, Watchdog, WatchdogWakes, WatchdogCloses, WatchdogTells
      <4> QED
        BY <2>2, <4>1
    <3> QED
      BY <3>2, <3>3
  <2>6. CASE Clock \/ UNCHANGED vars
    BY <2>2, <2>6 DEF Clock, vars
  <2> QED
    BY <1>1, <2>2, <2>3, <2>4, <2>5, <2>6 DEF Next, TaskStep
<1>2. LedgerInv /\ [Next]_vars => LedgerInv'
  BY LedgerStep
<1> QED
  BY LedgerInit, <1>1, <1>2, PTL DEF Spec
=============================================================================
