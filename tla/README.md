# A TLA+ model of Hone's scheduled tasks, conversations and event alerts

Hone is a personal finance assistant.  Users talk to it in chat channels (Feishu, Telegram,
Discord, iMessage, WeChat) and in a web page, and it works for them at set times: scheduled tasks,
heartbeats, event alerts and digests.  This directory holds TLA+ modules for the parts of the
program in which order matters, the TLC configurations that check them on small instances, and
TLAPS proofs of the most important properties for every value of the constants.

Paths below are relative to `src/`.

## 1. Inventory

| Component | State it keeps | Operations | Hard behaviour | What makes it correct | Module |
|---|---|---|---|---|---|
| Minute scheduler, `crates/hone-scheduler` | the due slots of the current tick, the bounded channel to the handler | tick, send to the channel, mark, supervised restart | panic or crash between hand-over and mark, a closed channel, a full channel | a due slot is handed over, and only then marked | CronExecution |
| Cron job store, `memory/src/cron_job/storage.rs` | job files or Postgres documents, `last_run_at`, claims | due test, claim, mark, edit by chat tool and console | two processes claim at once, a mark is not saved, unlocked load-modify-save | a save leaves other jobs alone, the limit holds, one hand-over per period | CronStore; due, claim, mark also in CronExecution |
| Execution ledger, `memory/src/cron_job/history.rs` | the rows of `cron_job_runs` | started row, terminal row with two fallbacks, the watchdog's update, start-up recovery | several writers of one row, lost writes, timestamps of two offsets | started then terminal, never rewritten; deliveries are in the history | CronExecution |
| Feishu scheduled delivery, `bins/hone-feishu/src/scheduler.rs` | per event a task, a watchdog, two atomics | run, late-result skip, dedup, send, terminal row | the watchdog races the result, a partly failed send, a hung agent | no late result, no row left running | CronExecution |
| Agent session run, `crates/hone-channels/src/agent_session` | run locks as weak references, the run's reservation, its context | reserve, persist, compact, restore, run, recover, commit, persist | contention, dropped futures, early returns | conversations stay whole, only answers cost | AgentSession |
| Quota, `memory/src/quota.rs` with `agent_session/guard.rs` | success and in-flight counts per actor and Beijing date | reserve, commit, release | concurrent reservations, midnight, crash, store errors | the ceiling holds, reservations come back | AgentSession |
| Session store, `memory/src/session.rs` | the messages of a session | append, withdraw the last, replace all | writers with and without the run lock | no written turn disappears unasked | AgentSession |
| Session compactor, `session_compactor.rs` | what it read before the summary | read, await, replace | the transcript grows during the await | keeps what it did not read | AgentSession |
| Scheduled-task callers, `crates/hone-channels/src/scheduler.rs` | the result of a run | deliver, withdraw a skipped answer, leave a failure turn | all of it after the run lock is free | a skipped answer leaves no trace | AgentSession |
| Ingress registries, `crates/hone-channels/src/ingress.rs` | dedup table, session locks and busy entries, window of overheard group messages | is-duplicate, try or wait for the lock, push, take, write | two registries for one lock, forgotten ids, redeliveries, a failed write | nothing is said twice or lost unseen, lock and entry agree | ChannelIngress; dedup also in CronExecution |
| Message handlers, `bins/hone-feishu`, `-telegram`, `-discord`, `-imessage` | one task per message | receive, command, busy reply, take over what was overheard, run, reply; on Feishu panic reply and start-up recovery | a second handler, a panic, a restart between question and answer | every message is answered, a group's conversation stays whole, only the interrupted are told so | ChannelIngress |
| Event pipeline and router, `crates/hone-event-engine` | event store, delivery log, cooldowns | insert, classify, dispatch, hold, flush | crash between insert and dispatch, cap counted before an awaited send | every event has one fate per user, caps and cooldowns hold | RouterPolicy, EventRouter |
| Digest buffer and unified digest, same crate | buffer file per actor, fired slots and picks in memory | minute tick, flush of the quiet hours, drain, curate, send | drain before send, unlocked rewrite, restart within a slot, a long tick | what was queued or held reaches the user or a row says why not | UnifiedDigest |
| Web API and console, `crates/hone-web-api` | accounts, push bus, streams | HTTP handlers | clients that go away | a dropped run gives its lock and reservation back | the dropped future only |
| Cloud runtime, `crates/hone-core/src/cloud_runtime.rs` | Postgres tables and documents | SQL statements | many processes | statements are atomic | claims, ledger and quota statements |
| Runners, tools, skills, model clients | none that outlives a call | subprocesses, HTTP | they fail, overflow or hang | outside | one step of a run |
| Process management | file locks, children | lock, spawn, heartbeat | stale locks | one local process per channel | assumption of CronExecution |
| Renderers, pollers, classifiers, user stores, Tauri shell | rows, texts | I/O and formatting | none with a protocol | outside | not modelled |

How they interact.  The scheduler asks the job store for due jobs every minute, sends one
`SchedulerEvent` per job over a bounded channel and marks the job.  The channel's handler spawns a
task for each event and a watchdog next to it; the task calls `run_scheduled_task`, which is a run
of `AgentSession`, and writes ledger rows before and after.  A message goes through
its channel's handler and the ingress registries to a run of the same `AgentSession`.  The chat tool and the console edit the job store while the scheduler marks.  A run shares with other runs its process's lock registry, the transcript and the
quota record.  What the callers write after a run - failure turns, the withdrawal of a skipped
answer - goes to the same transcript without the run's lock.  Event pollers, one task per source,
insert events and dispatch each to the users it concerns; what is not pushed at once waits in a
user's buffer file or as a held row of the delivery log, which the digest scheduler's minute tick
reads, drains and sends.

`PROJECT.json` lists the hazards of this code at their lines, with the properties that watch each of
them; a hazard without a property says why none is stated.

## 2. Modules

| Module | Content |
|---|---|
| `SlotDelivery` | abstract: a slot is taken up once and answered at most once |
| `CronExecution` | scheduler, claims, ledger, handler, watchdog, recovery, crash and restart; checked directly by `MCCronLocal`, `MCCronCloud`, `MCCronLateResult`, `MCCronSkew`, `MCCronRefused` |
| `CronExecution_proofs` | theorems about CronExecution: types, slots, the ledger |
| `CronRuns_proofs` | theorems about CronExecution: what a claim, a row and a second delivery stand for |
| `CronStore` | one actor's job document under load, change and save by several writers, and the scheduler that reads it |
| `MCCronStore` | plans, documents and eight setups for TLC |
| `CronStore_proofs` | theorems about CronStore |
| `AgentSession` | one run from arrival to the turns it leaves; quota, compaction, callers |
| `MCAgentSession` | who runs where; instances `MCSessionRun`, `MCSessionReplicas`, `MCSessionSkipped`, `MCSessionCompaction` |
| `AgentSession_proofs` | theorems about AgentSession: the lock and the quota |
| `AgentSessionTurns_proofs` | theorems about AgentSession: the conversation and what a runner reads of it |
| `ChannelIngress` | extends AgentSession: the message handlers of four channels around the run, and the restart of Feishu |
| `MCChannelIngress` | deliveries of a chat and of a group, seventeen setups for TLC |
| `ChannelIngress_proofs` | theorems about the ingress locks |
| `IngressTurns_proofs` | theorems about ChannelIngress: windows, overheard messages, group conversations, notices |
| `RouterPolicy` | pure: what an event is worth to a user, what is fresh, when it is quiet |
| `EventRouter` | pollers, the event store, the delivery log and the buffers: the fate of each event for each user |
| `UnifiedDigest` | extends EventRouter with the minute tick: flush, slots, curation, sending, restarts, edits |
| `MCEventEngine` | events, preferences and thirteen scenarios for TLC |
| `UnifiedDigest_proofs` | theorems about the composition |

Definitions with the word "mutant" in the comment above or beside them are not part of a
specification.  Each is a plausible bug: put in the place of the definition it varies, it makes the
property named in `PROJECT.json` fail, which shows that the property depends on that code.

### CronExecution and the code

A slot (delivery key) is a job and a period.  `DueKeys` is the due test: the clock is in the slot's
window and `last_run_at` is not of the same period (`storage.rs`, `schedule.rs`).  A one-off job is a
period longer than the run.  `ScanFiles` and `ClaimDue` are `get_due_jobs` on files and on Postgres;
the processes that tick at once win any split of the claims.  `HandOver`, `HandOverRefused`,
`TargetMissing`, `Mark`, `SchedulerPanics` are the loop of `HoneScheduler`; `handed` is the point
between the send and `mark_job_run`.  `Start` is the spawn of the handler task: the started row and
the watchdog.  `RunReturns` to `ReportSend` are the handler after its run, one action per await or
store call, because the watchdog (`WatchdogWakes`, `WatchdogCloses`, `WatchdogTells`) may take a step
between any two.  `Recorded` is `record_execution_event`: the open row of the slot, else the latest
recent open row of the job, else a new row; it is one step, where the code issues up to three statements.
`Recover` is start-up recovery.  Every storage error is
ignored by its caller in the code (`let _ =`), so `Save` may lose the write.

Left out: which agent or prompt a job runs (its result is an answer, nothing, or an error), the
wording of answers, events of other channels (the handler skips them), the heartbeat texts.  A
handler task that panics is a run that never returns.  A tick reads the clock once here; that the code
reads it a second time for the date is in CronStore.

### CronStore and the code

The module is the other half of the job store: not one slot's way to the user, but what becomes of the
document.  `Load` is `load_jobs`, for which a missing file, a file that does not parse and a failed
query are all an empty document.  `Add`, `Update`, `Toggle` and `Delete` are the operations of chat
tool and console, `Mark` is `mark_job_run`, and the repair of old prompts is the one write that
`get_due_jobs` makes (`Scan`).  Each loads, changes in memory and begins a save, and the save is what
takes time: on files `Truncate` and `Write`, since `std::fs::write` opens with `O_TRUNC`, so that a
reader in between finds nothing and two writers can leave remnants; on Postgres `List`, `Sweep` and
`Upsert`, one statement each.  `Fail` ends a save at any of these points.  `LookAtClock` and `Scan`
are apart because the hour and minute of a due test are the caller's and its date is a second reading.

Left out: the calendars (weekday and trading-day jobs and heartbeats are daily jobs with days off or
more slots), other actors' documents, jobs without a target and refused hand-overs (CronExecution has
them), and the part of a failed write that may have reached the file.

### AgentSession and the code

`Arrive` is `get_session_run_lock`: the registry's weak reference is upgraded if some run still has
the `Arc` (`Alive`), else the run brings a new lock.  The `retain` that drops dead entries is the same
test on other entries.  `Acquire` is `lock_owned().await`; waiters wake in any order.  Under the lock
the phases follow `run()`: session, `/compact`, domain boundary, reservation, refusal, slash skill,
Fast Persist, compaction, restore, runner, overflow recovery, commit, answer.  Each phase in
`Awaiting` is an await at which `Drop` - the scheduler's `tokio::time::timeout`, or an HTTP client
that went away - may end the future: the lock and the reservation guard drop with it.  From
`quota_guard.commit()` to the written answer there is no await, so `committed` is not in `Awaiting`,
but a crash can fall between.  `Finish` is the guard; a store error leaves the reservation on the
record (`lost`).  `Deliver`, `Withdraw`, `InspectTail` and `AppendFailure` are the callers.

Left out: the text of turns (a turn is its author and kind), the restore limit (the whole transcript
is the context), the system turns of a compaction, the retry of empty answers (one run of the
runner), session metadata, prompt state, segmentation of streamed answers, write errors of the
session store (the code ignores them), torn files.  Messages of a session may be answered by several
processes when they share Postgres; appends of one statement are atomic, and the run lock is per
process, so `SessionMutex` is stated per process.

### ChannelIngress and the code

The module composes `AgentSession` with what surrounds a run of a user's message.  A delivery is a run
that may never start; a message that the channel delivers twice is two deliveries with one id.
`Receive` is the handler up to its first branch: duplicate, overheard, ignored or accepted; `Forgotten`
is the age or the size at which the deduplicator drops an id.  `TryLock` and `Announce` are the two
critical sections of `try_begin_active`, `Close` and `Unlock` the two drops of its guard, `WaitLock` the
queue of Discord's and iMessage's direct chats; Telegram's direct chats take no lock.  `TurnAway` is the
busy branch.  `Take` and `WriteOverheard` are `take_recent` and `persist_buffered_group_messages`, with a
failure after any number of writes.  `Weigh` is the test for an empty message.  `Ask` hands over to
`AgentSession`; `RunStep` is the run, with `SettleTurn` for what Feishu writes in place of an answer;
`Reply` is the send.  `Panic`, `Restart` and `Recover` are Feishu's: the apology of the outer task, the
loss of everything in memory, and the notices of `recover_interrupted_sessions`, which ends before the
first event is taken.  Group sessions have no tasks (`cron_allowed`).

Left out: contacts that are not allowed, the scopes of a channel, slash commands of Discord, media
groups (a batch is one delivery), attachments (a message has some or none), cards, streaming and
segments, whether a reply arrives, guild messages with group replies switched off.  Who a busy reply
names is the registry's entry.  Which sessions the query's bounds let through is a free choice.

### RouterPolicy, EventRouter, UnifiedDigest and the code

`RouterPolicy` holds the decisions of `router/policy.rs`, `router/classify.rs`, `prefs.rs` and
`unified_digest` that look at no table: the severity after system and user policy, the preferences'
filter, freshness, quiet windows in the user's time zone, the floor of a digest.  An event is an id
with a constant record of what those decisions read.

`EventRouter` follows `process_event` and `dispatch`.  A poller's task inserts its batch event by
event (`PassOver` for a duplicate or a failed insert, `Insert` for a new one with the upgrade of news
by converging signals) and turns to the actors one by one (`PickActor`, `Judged`).  One decision ends
in `Filter`, `Hold`, `Push` or the digest.  There the code works on a file without a lock, in steps the
model keeps apart: a line is appended by `OpenBuffer` (the handle) and `AppendLine` (the write through
it), a price line that replaces the one of its key by `ReadBuffer` and `Rewrite` (a copy renamed over the
file).  A writer whose file is renamed away in between is `astray`: its line goes where no drain looks.
So does a line whose text another writer's text joins, for `writeln!` writes text and newline apart.  The
ghost `lost` remembers these pairs of event and user.  Cap, band advance and cooldown are queries of the delivery log made
at the decision; the row is written after the channel's answer (`Pushed`, `PushFails`), so that pollers
may race in between.  `TimeOut` is the poll's timeout at an await.

`UnifiedDigest` adds the digest task over the same log and buffers: `Tick` once a minute, and per
actor `Skip`, `Flush` (end of the quiet hours), `TooSoon`, or `OpenSlot` and `Curate`, then
`DigestSent` or `DigestFails`.  `Drain`, a part of `Flush` and of `OpenSlot`, renames the buffer file
and reads it; the rename may fail, and so may the read at any line, and then the caller goes on with what
it got.  It is one action, since a line written between rename and read is read as if written before the
rename, and what a writer does with a handle from before shows only later.  `Crash` loses tasks, fired marks and picks and keeps tables and files;
`EditPrefs` is a user between two looks at the preferences.
The ghost `late` marks the actors whose flush came so late that it took what belongs to the next one.
Composition is by EXTENDS: the router's actions with the digest's variables unchanged, and the other way
round.

Left out: rendering, polishing, statistics, the daily report, the distiller and the purge of rows
older than a month; registry refreshes (subscriptions are fixed); curation's caps and topic memory,
which only choose what is omitted (any choice within the floor is allowed); group chats' buffers; failed
polls, failed queries and failing `log_delivery` calls (every row that is due is written); the half of a
line that a failing write leaves in the buffer.  The write of a buffer line and its row are one step, and
so are the queries of one decision.  `conf.sink = "channel"` is the single-channel sink, `"multi"` the one that falls back to
the log.

## 3. Runs

| Run | Configuration | Properties | What it shows |
|---|---|---|---|
| `cron_local` | files, one process, two slots, two events, one crash, one fault | TypeOK, ResendNeedsCause, DeliveredIsRecorded, OpenRowHasLiveTask, TerminalRowsFrozen, RefusedSlotStaysDue | ledger and deliveries agree, a slot is sent again only after a crash or a lost mark, a refused slot stays due |
| `cron_cloud` | claims, two processes, two slots, one crash, one job without a target | NoDoubleDelivery, ClaimedIsHandled, OncePerSlot, OpenRowsGetClosed | no slot reaches the user twice, no claimed slot is forgotten, the pipeline implements SlotDelivery, every started row is closed although the agent may hang |
| `store` | two editors and the scheduler on one document, files and Postgres, two days, one fault | TypeOK, LimitKept, FiresOnce, EarlyOnlyOverMidnight, OthersAreKept, EventuallyServed | what unlocked saves can and cannot do to one another; no slot that has come stays owed, unless a late mark counts as its run |
| `session_run` | three runs, one session, one process, drops, one crash | TypeOK, SessionMutex, TurnsDoNotInterleave, SnapshotCurrent | runs exclude each other, turns do not interleave, no runner works on an old snapshot |
| `session_replicas` | two runs of one user in two processes, limit 1, two dates, crash, fault | QuotaCeiling, QuotaAccounts, OnlyAnswersAreCharged | the record is exact, the limit holds, only answers cost |
| `ingress` | up to three deliveries and a task of one session, four channels, seventeen setups, a crash, a fault, a forgotten id or a panic | IngressTypes, BusyIsHolder, OverheardOnce, TextIsHeard, NoticeIsDue, GroupTurnsAreWhole, EveryRequestEnds | lock and busy entry agree, a group's conversation stays whole and repeats nothing, no remark is lost unseen, only what was cut off is told so, every message is answered and no task waits for ever |
| `events` | two pollers, two users, the digest task, thirteen scenarios | TypeOK, CapCeiling, OneFate, CooldownKept, BandsClimb, QueuedIsKept, HeldIsSettled, OneArrival, GapKept, PollsEnd | every event has one fate per user, caps, cooldowns and gaps hold up to the races they allow, what was queued or held is accounted for |

Five runs check what a comment, a document or a warning of the repository says, and TLC finds a
behaviour of the code that does not do it.

| Run | Statement | The behaviour |
|---|---|---|
| `cron_late_result` | a late result is skipped once the watchdog has closed the row (`scheduler.rs:76`) | the watchdog has closed the row and not yet set its flag; the run returns, the handler reads the flag as false and delivers |
| `cron_skew` | stale started rows are closed at start-up | rows carry Beijing time, the cutoff UTC, and they are compared as text: a row counts as stale eight hours late |
| `cron_refused` | a slot refused by a closed channel is retried within its window (`hone-scheduler/src/lib.rs:196`) | with the claim store the slot has been claimed already and nobody takes it up again |
| `session_skipped` | a skipped answer is withdrawn so that it does not pollute the context (`session.rs:1053`) | a waiting run takes the lock and writes its question first; the last message no longer matches and the answer stays |
| `session_compaction` | session locks prevent last-writer-wins (`session.rs:205`) | a failure turn written without the run lock during the summary is overwritten by the compaction |

Two passing runs show a disagreement of another kind: the property is what the code does, and a comment
says otherwise.

| Run | Statement | What the run shows |
|---|---|---|
| `events` | `drain_actor` renames the buffer before it reads, "to avoid a race of reader and writer" (`digest/buffer.rs:4-5`) | `QueuedIsKept` excepts what is in `lost`.  Without the exception it fails, also with no fault, restart or edit: in `Buffers` a poller opens the file, a slot drains it, and the line is written to the file taken away; in `CapRace` the texts of two pollers run together |
| `store` | ordinary jobs are due in the window `[job_total - DUE_WINDOW, job_total]` before their minute (`storage.rs:608-609`) | `EarlyOnlyOverMidnight`: the window of the code begins at the slot (`storage.rs:58`), so nothing but a tick over midnight is early; with the documented window, the mutant `ComesAhead`, the property fails |

### Bounds

The counters of a model are bounded by `MaxTime`, `MaxDay`, `MaxCrashes` and `MaxFaults`; the model
stops there, so deadlock is not checked.  Two periods are enough for every relation between slots
(the same slot, the next one, a row of the earlier slot within the fallback window); two events are
the smallest number that can deliver a slot twice or write one another's row; a crash and a fault
together reach each recovery path, and `ResendNeedsCause` counts them so that a second one would add
nothing new.  Two processes race for a claim or for the quota; three runs in one session are one that
holds the lock, one that waits with a reference to it and one that arrives while the last reference
may be going - the case the weak registry must get right.  Limit 1 is where reservations matter most;
two dates let a run settle on the date after its reservation.  `Retain = 2` keeps a question with its
answer and makes a third turn fall out.  The channel has capacity 1, so that a full channel occurs
with two events.

`store` has days of three minutes with the slots at minute 1 and a window of one minute, so that a tick
may be on time, in the window, after it, or over midnight; two editors are the smallest number that can
race a third writer's mark; a limit of two with two or three jobs is reached by one edit.  Eight setups
divide the question (edits on files, edits at the limit, the repair and a fault, a night, two nights, an
administrator, edits on Postgres, faults on Postgres), each with its own bounds of edits and faults.

`events` has days of six ticks and thirteen scenarios, each a pair of feeds with a configuration and
preferences: races for the cap at the end of a day (`CapRace`), one event for two users with the
classifier and a restart (`Fanout`), bands, cooldowns and articles over restarts and midnight (`Bands`,
`Cooling`, `Articles`), the classifier and upgrades (`Classified`), everything turned down (`Refused`),
quiet hours on a channel that fails, with a restart or an edit around the flush (`Night`, `NightCrash`),
two nights of which the first flush may be late (`TwoNights`), two writers of one buffer beside a slot's
drain and a failing call (`Buffers`), picks and countdowns over two slots (`World`), picks off the user's
focus (`Focus`).  Two pollers race; the cap is two, so that it is met by one poller alone and passed by two;
`MinGap` of one tick separates adjacent slots; `HeldWindow` of half a day is the code's twelve hours.  Two
pollers and the digest task are enough for each way to lose a line: one writer and a drain, one writer and a
rewrite, two writers; a failed drain takes one fault.  The scenarios have about 128,000 states together.

`ingress` divides its question the same way: in a chat a message with a task and a restart, a second
delivery, two messages at once, a panic and a restart, commands and empty messages, on each channel that
differs; in a group two questions with a remark between them, a remark or a question that comes twice, a
mention without words, and three remarks in a window of two.  One delivery is metered, so that a refusal
occurs; a fault breaks a write or a reservation, a slip forgets an id or is a panic.

### Fairness

`CronExecution!FairSpec` has weak fairness of a task after its run and of a watchdog, per event: the
runtime polls what is ready, timers fire, and the HTTP requests of a send have timeouts.  That the
agent's run itself ever returns is not assumed, which is what the watchdog is for.
`AgentSession!FairSpec` has weak fairness of the steps of each run, together: the runtime polls it,
listeners answer, and the waits for the runner and the summary end by `overall_timeout`.
`ChannelIngress!IngressFairSpec` adds the steps of the handler around the run, which is the same task.
`CronStore!FairSpec` has weak fairness of the scheduler's loop and of each client's save: the loop is a
supervised task and a save is synchronous code.  `UnifiedDigest!FairSpec` has weak fairness, per poller,
of the steps its task takes by itself together with the poll's timeout; the answers of classifier and
channel are not assumed.  Nothing is assumed of drops, crashes, faults, edits, arrivals or the clock.

## 4. Proofs

The theorems hold for every value of the constants that satisfies the modules' assumptions
(`CronAssumption`, `SessionAssumption`, `CronStoreAssumption`, `PolicyAssumption`, `RouterAssumption`,
`SourceAssumption`, `DigestAssumption`, `IngressAssumption`): any number of processes, jobs, events,
editors, pollers, runs, sessions and actors, and any bounds.  The sets of runs, of jobs, of tasks (`Events`) and of pollers are finite, since they are
counted; setups start from documents and feeds of the right type, within the limit; a channel's handlers
live in one process.  A source has one poller, for `engine.rs` spawns one task per source, and no source
returns an earnings countdown, which only the digest makes up (`pollers/earnings.rs`, ids
`synth:earnings:...:countdown:...`).

`SourceAssumption` is a limit where two tasks do return one event: the news poller and an RSS poller both
make ids `news:{url}` (`pollers/news.rs:324`, `pollers/rss.rs:132`).  No setup lets two pollers race for one
id, so that `OneFate` holds there rests on the insert being atomic, which the model assumes and does not
test; and `CooldownKept` and `BandsClimb` are stated per source: pushes of two sources on one symbol may race
each other as pushes race for the cap, and nothing is claimed of them.

`CronExecution_proofs`
- `TypeCorrect`: `TypeOK`, by the invariant `TypeInv`, which adds that a fired event has a slot and
  a process (`FiredHasSlot`) - without it the ledger rows written from an event have no type.
- `DeliveredOnce`, `ImplementsSlotDelivery`: with `Cloud = TRUE`.  That no slot is delivered twice
  is not inductive.  `SlotInv` follows a slot from its claim: what is in a batch is claimed
  (`BatchesClaimed`), batches of two processes are disjoint (`BatchesApart`), a fired slot is claimed
  (`FiredIsClaimed`) and has left every batch (`FiredLeftBatch`), and two events have two slots
  (`FiredApart`).  `DeliveredPastSend` says that a task that has delivered is behind its send, so it
  cannot deliver again.  The refinement maps `taken` to `claimed` and `inbox` to the delivered events.
- `LedgerFrozen`, `DeliveriesRecorded`: rows are stamped in the past (`RowsInPast`), so the latest
  open row exists and `Recorded` touches open rows only (`LatestIn`, `RecordedKeeps`); each step
  keeps the terminal rows and the ones a finished task relies on.

`CronRuns_proofs`
- `OpenRowsAreLive`: `OpenRowHasLiveTask` by `RowInv`.  That some task is at work is not inductive, for a
  slot may have two tasks and a report closes the latest open row, not its own.  `RowsAreOwed` counts:
  the open rows of a slot are at most as many as the tasks that owe it a report.
- `ClaimsAreHandled`: `ClaimedIsHandled` by `ClaimInv`, which names where the work of a claim is: in a
  batch, in a task, or in a row that says the target was missing.
- `ResendsNeedCause`: `ResendNeedsCause`, where claims are made or one process reads the files; two
  processes that tick over the same files would fire a slot twice with no cause.  `ResendInv`
  counts against causes what was fired, not what was delivered (`Paid`): a slot that was fired once more
  than things failed is in no batch and past, marked, or about to be marked (`Over`), and no batch and no
  mark is of a period to come (`NothingAhead`).
- `RefusalsStayDue`: `RefusedSlotStaysDue` for one process over files, by `RefusalInv`: a slot of the batch
  carries no mark of its period (`BatchUnmarked`), for only the batch's own steps mark.  The run
  `cron_refused` violates the property with claims: the claim is the mark.

`AgentSession_proofs`
- `TypeCorrect`: `TypeOK`, one lemma per group of actions.
- `MutualExclusion`: `SessionMutex` by `LockInv`.  A run at its lock or past it has one (`HasLock`),
  and a run's lock is the one in the registry of its process and session (`Registered`).  The second
  part carries the argument: an entry is replaced only when no run has its lock, so all runs that
  have any lock of a session have the same one.
- `ChargedForAnswers`: `OnlyAnswersAreCharged` by `ChargeInv`: no charge before the reservation,
  a held one only in the phases between it and the commit, a charge only at or after the commit.
- `RecordAgrees`, `CeilingHolds`: `QuotaAccounts` and `QuotaCeiling`.  The counts are cardinalities
  of sets of runs; `Settle` moves one run from one set to the other, and `Reserve` adds one that was
  in neither, which `ChargeInv` supplies.

`AgentSessionTurns_proofs`, where one process serves a session (`Local`: files have one process; with
replicas the property fails, as `MCSessionReplicas` shows)
- `TurnsAreWhole`, `SnapshotsAreCurrent`: `TurnsDoNotInterleave` and `SnapshotCurrent` by `TurnInv`.  The
  tail of a transcript from the question on belongs to the holder of the lock (`TranscriptsFit`), and the
  same holds of the copy from which a compaction will write the transcript back (`CopiesFit`), for
  otherwise a compaction could bring back an old conversation; a runner's conversation only grows by
  notices (`ReadersFit`).  All steps of a run are one of six changes of a transcript (`Shapes`).

`ChannelIngress_proofs`
- `BusyHolderTheorem`: `BusyIsHolder` by `IngressInv`: a handler past its lock is the one the lock names
  (`LockHeld`), an entry names a handler that came through `try_begin_active` and has not begun to leave,
  and each of these has its entry (`Entries`).  An entry alone would not do: it is the lock that keeps two
  handlers from writing the same entry.
- `IngressExclusion`: of two deliveries of a session that take its lock, by trying or by waiting, at most
  one is past it.  All that `AgentSession` does is a stutter of the registries.

`IngressTurns_proofs`
- `IngressTypeCorrect`: `IngressTypes` with the limit of the windows.
- `DeferredIsHeard`: `TextIsHeard` by `TextInv`: only a handler between `Take` and `WriteOverheard` has
  something in its hands (`HandsFit`), and what leaves a window goes there or is dropped by age or limit.
- `OverheardIsOnce`: `OverheardOnce` by `RecordsNeat` and `WindowsNeat`.  A window and what was taken from
  it have each id once; a message is taken up once by the deduplicator; what is on record is so in the
  copy of a compaction too.
- `GroupConversationsAreWhole`: `GroupTurnsAreWhole` by `GroupsFit`.  Overheard messages are written
  without the run lock; what keeps them out of another's turns is the ingress lock (`IngressExclusion`) and
  that a run under way has a handler waiting for it (`Driven`).
- `NoticesAreDue`: `NoticeIsDue` by `DueInv`.  On Feishu the last word of a conversation is a question only
  while its message is at work or if it was cut off (`LastWords`), for the conversation and for what a
  compaction has read of it; an apology stays the last word of its run until another one speaks
  (`ApologyLast`); nothing runs before recovery has ended (`BootQuiet`).
- The second and third are proved of setups in which a chat is a group or it is not (`GroupsApart`): the
  session of a group is named after the group (`session_identity`), no task runs in one, and iMessage has
  none.  All setups of the runs are such.

`CronStore_proofs`
- `TypeCorrect` and `OthersKept`: by `Basic`, which adds to the types what a save is (`OwnJobsOnly`): its
  document differs from the one it loaded only in its own jobs, the rows it deletes are not in its
  document, and files and rows do not mix.  So a foreign change must come from an old or failed load.
- `LimitHolds`: `LimitKept` by `DocsFit`, the same limit for every document on its way to the file; a
  torn file is empty, so an editor that loads it fits too.
- `EarlyRuns`: `EarlyOnlyOverMidnight` by `FoundInTime`: what waits in the batch was in its slot's past,
  or the tick straddled midnight.
- `FiresOnceHolds`: `FiresOnce` by `FireInv`.  As long as no save clobbered a job and nothing failed, a
  job fired in a period carries a stamp of it or its mark is pending (`FiredIsMarked`), and a batch holds
  only slots not fired yet (`BatchIsNew`).  To keep this through saves, stamps never go back
  (`StampsPast`), ids are not used twice (`IdsUsed`, `NewJobsUnknown`), and a tick is in one phase at a
  time (`OneTick`); `ClaimsKept` is the argument on Postgres, where a claim outlives faults.

`UnifiedDigest_proofs`
- `FlushMinuteIsAwake`: the minute at which quiet hours end lies outside of them, so a flush, which comes
  after the look at the window, can be reached.
- `TypeCorrect`: `TypeOK` of router and digest task together.
- `DispatchEndsOnce`: `OneFate` by `FateInv`, which adds that rows that end a dispatch are about stored
  events (`RowsKnown`): a new event therefore has no fate, and each step of a poller moves one pair from
  its work to one row or to `cut`.
- `CapHolds`: `CapCeiling` by `CapInv`.  A push is counted from the moment its poller waits for the
  channel; a poller that decides sees fewer rows than the cap, and the others have at most one push each
  in flight.
- `GapHolds`: `GapKept` by `GapInv`: digests lie in the past of the tick (`DigestsPast`), and a slot's
  digest being composed is more than the gap after them (`GapAhead`), since one task serves all.
- `CooldownHolds`, `BandsHold`: `CooldownKept` and `BandsClimb` by `SpreadInv`.  A poller that decides sees
  the logged pushes, not those in flight; but what two pollers carry comes from two sources
  (`SourcesApart`, which no step of a feed or a batch breaks), so nothing of its own source is logged
  between a decision and its row.  A push in flight keeps the distance to all logged pushes
  (`FlightsClear`), at its decision and while the clock goes on, and so do the logged ones to each other
  (`PushesClear`).
- `HeldIsSettledHolds`: `HeldIsSettled` by `HeldInv`.  The key of a flush in `fired` names a date and a
  minute; `FlushesSettled` says that it stands for an instant in the past at which all that was held in the
  window was settled or is in the digest being sent.  A digest that is sent, fails or is dropped settles
  what it has in hand (`SendingEnds`), and what is held later is outside the window.
- `QueuedIsKeptHolds`: `QueuedIsKept` by `QueueInv`.  The line of a logged event passes the preferences for
  as long as they stand (`PollersFit`), so the composer takes it (`Waiting`, `Curating`, `Kept`); that a
  flush does not let it go in favour of a held event of the same id is `OneFate`, with its rows and pairs
  those of events switched on (`RowsMean`, `PairsMean`).  A drain takes a line, leaves it, or enters it in
  `lost` (`DrainTakes`), where it stays (`LostStays`); a line that is written is in the buffer or lost
  (`NewQueued`).
- `ArrivesOnce`: `OneArrival` by `WaysInv`.  It counts what concerns a user, pushes and the items of the
  user's own pool, and not the world's news picked for everybody, which are meant to repeat these
  (section 5).  An event has one way to a user - a push, a line, a flush, a
  countdown - and a digest takes only what no way has brought yet (`OneWay`).  Lines and pushes exclude each
  other and what is held by `OneFate`; countdowns exclude all of these, being stored nowhere (`FeedsReal`);
  two countdowns of a day are excluded by the rows since its start (`DueUntouched`), and two flushes of one
  event by the clock: the minute of a flush comes again after a day, when what the last flush took is older
  than its window (`HeldUntouched`, `DayApart`).  For this the first flush must not be later than a day
  less `HeldWindow` after its minute; the ghost `late` names the actors whose flush was, and the property
  excepts them (section 5).

Only model-checked: the liveness properties (`OpenRowsGetClosed`, `EveryRequestEnds`,
`EventuallyServed`, `PollsEnd`), for the prover treats neither fairness nor ENABLED.  Every safety
property of a passing run is the subject of a theorem.

## 5. Observations

What the checks of true properties taught about the code, beside the five runs above.  Each is a
precondition or an exception written into a property, and the property fails without it.

- *Job files.*  While an editor has truncated the file, a mark loads an empty document and saves it: all
  jobs of the actor are gone without any fault.  `OthersAreKept` names the cause (a job the save had not
  loaded) and no property promises more.  On Postgres two adds at the limit both pass, since rows are
  merged; `LimitKept` is stated for files.
- *Midnight.*  A tick that reads the clock before midnight and asks for due jobs after it hands over all
  daily jobs of the new day at once (`EarlyOnlyOverMidnight`); a mark made after midnight counts as the
  new day's run, and that day's slot is not served (the exception in `Owed`).  A one-shot job that has
  run does not run again when its date is edited.
- *Cap.*  The cap is exceeded by up to one push per other poller (`CapCeiling`).  The counters of news
  upgrades are emptied by every poll, so `TickCap` bounds nothing across pollers (`pipeline.rs:38`).  A push
  whose channel failed counts as sent when the multi-channel sink falls back to the log
  (`sinks/multi.rs:57`; `router/sink.rs:20` speaks of a status `dryrun`).
- *Quiet hours.*  A flush looks back twelve hours, so longer quiet hours lose their first events; a flush
  missed by a long tick, or an edit that removes the quiet hours, leaves held events behind; a restart
  within the flush minute sends them again.  The query has no upper end: a tick that reaches a user more
  than twelve hours after its minute also takes what was held since, which the next day's flush sends a
  second time (the exception `late` in `OneArrival`, which `TwoNights` reaches).  An event held with a
  raised severity is filtered at the flush by its stored one (the exception in `HeldIsSettled`).  An
  immediate kind does not pass the filter of `min_severity`, which reads the severity before the override.
- *Ingress.*  A question of a Discord group has no `channel_message_id`, so a second delivery that is
  turned away is overheard again (the exception in `OverheardOnce`).  A write that fails half way loses the
  rest of what was taken; a message turned away in a direct chat of Feishu is kept nowhere.
- *Restart.*  A task that failed or was skipped leaves its prompt as the last message of the session, and
  a panic leaves the question: the user is told of an interruption that was none (the exceptions in
  `NoticeIsDue`).  The bounds of the query are UTC and `updated_at` is Beijing time, compared as text, so
  the half hour that is looked at lies eight hours back.
- *Digest buffer.*  The rename of a drain does not keep writers out (the second table of section 3): a line
  may be written to a file already read, or onto another writer's line, and is lost with a row that says
  queued.  A read that fails after the rename loses the rest of the file the same way, with a warning only
  (`unified_digest/scheduler.rs:356-365`).  Two rewrites, or a rewrite and an append, undo each other
  (`torn`).  These are the exceptions of `QueuedIsKept`.
- *Early window.*  The doc of `get_due_jobs` has jobs due before their minute, the code after it.
- *Global picks.*  A user may get as a pick what was pushed or digested to him before: the collector does
  not look at what single users got, by design (`global_digest/collector.rs:9-10`, and the test
  `does_not_dedup_against_per_actor_digest_channel`).  `OneArrival` therefore does not count picks.  The candidate filter asks for rows of the channel `global_digest`
  (`global_digest/collector.rs:65`); the digest writes `global_digest_item`, so it excludes nothing
  (`Broadcast` is empty) and news may be picked again the next day.

## 6. Plan

1. Done: `SlotDelivery`, `CronExecution`, `AgentSession`; `CronStore`; `RouterPolicy`, `EventRouter`,
   `UnifiedDigest`; their runs and proofs.
2. Done: `ChannelIngress` over `AgentSession`, with its run and proofs.
3. Done: proofs about conversations, windows, notices, claims and rows.
4. Done: proofs of `CooldownKept` and `BandsClimb` (the log against the push in flight), `HeldIsSettled`,
   `QueuedIsKept` and `OneArrival` (buffer, log and clock), `RefusedSlotStaysDue` for one process.
5. Abstract specifications of the conversation and of the delivery log, with the step-by-step proofs that
   `AgentSession` and `UnifiedDigest` implement them.

## 7. Not modelled

Runners, tools, skills and model clients are the environment of a run.  Renderers, pollers and
classifiers decide the content of events and messages.  The stores of portfolios, preferences and
accounts are single statements.  The scheduled deliveries of Telegram, Discord and iMessage are
those of Feishu without started rows, watchdog and recovery.  Process locks belong to the operating system;
CronExecution takes from them that local files have one process per channel.  The desktop shell, the
web front end, deployment files and the vendored programs hold no state of their own here.
