----------------------------- MODULE CronStore -----------------------------
(***************************************************************************)
(* The scheduled jobs of one actor (memory/src/cron_job/storage.rs): every *)
(* operation loads the whole document, changes it in memory and saves the  *)
(* whole document, without a lock.  The writers are the chat tool and the  *)
(* console (Editors) and the minute scheduler with its marks.              *)
(*                                                                         *)
(* conf.cloud = FALSE: a JSON file, truncated and then written.            *)
(* conf.cloud = TRUE: one Postgres row per job; a save lists the rows,     *)
(* deletes those the document lacks and upserts the others, one statement  *)
(* at a time.                                                              *)
(***************************************************************************)
EXTENDS Integers, Sequences, FiniteSets

CONSTANTS
  Editors,      \* requests of the chat tool and of the console
  Scheduler,    \* the scheduler of the actor's channel
  Jobs,         \* job ids
  None,
  Plans,        \* schedules of jobs
  DayLength,    \* minutes of a day
  Window,       \* DUE_WINDOW_MINUTES
  MaxEnabled,   \* MAX_ENABLED_JOBS_PER_ACTOR
  Setups        \* the configurations and documents a model starts from

Clients == Editors \cup {Scheduler}

\* A plan: repeat (the repeats by weekday are daily jobs with days off), minute of
\* the day, date of a one-shot job, and the minute its prompt declares, if any.
Never   == -1
Job     == [plan : Plans, enabled : BOOLEAN, born : Nat, ran : Nat \cup {Never}]
Doc     == [Jobs -> Job \cup {None}]
Empty   == [j \in Jobs |-> None]
Ids(d)  == {j \in Jobs : d[j] # None}
Enabled(d) == {j \in Ids(d) : d[j].enabled}

ASSUME CronStoreAssumption ==
  /\ Scheduler \notin Editors
  /\ IsFiniteSet(Jobs)
  /\ None \notin Job \cup Jobs \cup Nat
  /\ Plans \subseteq [repeat : {"daily", "once"}, slot : Nat, date : Nat \cup {None},
                      told : Nat \cup {None}]
  /\ \A p \in Plans : p.told # None => [p EXCEPT !.slot = p.told] \in Plans
  /\ DayLength \in Nat \ {0}
  /\ Window \in Nat
  /\ MaxEnabled \in Nat
  /\ \A s \in Setups : /\ s.cloud \in BOOLEAN
                       /\ s.admin \in BOOLEAN
                       /\ s.book \in Doc
                       /\ s.plans \subseteq Plans
                       /\ s.admin \/ Cardinality(Enabled(s.book)) <= MaxEnabled
                       /\ \A j \in Ids(s.book) : s.book[j].ran <= s.from
                       /\ {s.from, s.until, s.edits, s.faults} \subseteq Nat

VARIABLES
  conf,       \* the configuration, never changed
  now,        \* minutes, on the one clock everybody reads
  book,       \* the last whole document of the file, or the rows of the actor
  torn,       \* the file is truncated or half overwritten: nobody can parse it
  op,         \* op[c]: the save the client is in
  read,       \* when the scheduler read the clock in this tick
  looked,     \* it has read the clock and not yet asked for due jobs
  batch,      \* due jobs of this tick still to be handed over
  handed,     \* the job handed over and not yet marked, or None
  claimed,    \* cloud_cron_job_claims
  fired,      \* the hand-overs so far, in their order
  used,       \* job ids given out (ids are random)
  clobbered,  \* jobs whose record a save replaced by one loaded before it
  edits, faults    \* how many happened so far

docVars   == <<book, torn, op, clobbered>>
tickVars  == <<read, looked, batch, handed, claimed, fired>>
boundVars == <<edits, faults>>
vars == <<conf, now, docVars, tickVars, used, boundVars>>

Day(t)    == t \div DayLength
Minute(t) == t % DayLength

Keys  == [job : Jobs, repeat : {"daily", "once"}, day : Nat, slot : Nat]
Fires == [key : Keys, at : Nat, read : Nat]

\* ids: the jobs the save is about; base: the document it loaded; doc: the one to be
\* saved; todo: rows still to be deleted or upserted.
Phases == {"idle", "save", "write", "overwrite", "sweep", "upsert"}
Op   == [pc : Phases, ids : SUBSET Jobs, base : Doc, doc : Doc, todo : SUBSET Jobs]
Idle == [pc |-> "idle", ids |-> {}, base |-> Empty, doc |-> Empty, todo |-> {}]

TypeOK ==
  /\ conf \in Setups
  /\ now \in Nat
  /\ book \in Doc
  /\ torn \in BOOLEAN
  /\ op \in [Clients -> Op]
  /\ read \in Nat
  /\ looked \in BOOLEAN
  /\ batch \in SUBSET Keys
  /\ handed \in Jobs \cup {None}
  /\ claimed \in SUBSET Keys
  /\ fired \in Seq(Fires)
  /\ used \in SUBSET Jobs
  /\ clobbered \in SUBSET Jobs
  /\ edits \in Nat
  /\ faults \in Nat

Init ==
  /\ conf \in Setups
  /\ now = conf.from
  /\ book = conf.book
  /\ torn = FALSE
  /\ op = [c \in Clients |-> Idle]
  /\ read = conf.from
  /\ looked = FALSE
  /\ batch = {}
  /\ handed = None
  /\ claimed = {}
  /\ fired = <<>>
  /\ used = Ids(conf.book)
  /\ clobbered = {}
  /\ edits = 0
  /\ faults = 0

-----------------------------------------------------------------------------
(* Loading, and the changes made in memory.                                *)

Fault == faults < conf.faults /\ faults' = faults + 1

\* load_jobs: a file that is missing or does not parse, and a failed query, are an
\* empty document.
Load(d) ==
  \/ d = (IF torn THEN Empty ELSE book) /\ UNCHANGED faults
  \/ d = Empty /\ Fault

Begin(c, d, new, ids) ==
  op' = [op EXCEPT ![c] = [pc |-> "save", ids |-> ids, base |-> d, doc |-> new,
                           todo |-> {}]]

Conflict(p) == p.told \notin {None, p.slot}
Valid(p)    == (p.date # None => p.repeat = "once") /\ ~ Conflict(p)

HasRoomOffByOne(d) == Cardinality(Enabled(d)) <= MaxEnabled    \* mutant
HasRoom(d)         == Cardinality(Enabled(d)) < MaxEnabled
Overfull(d)        == Cardinality(Enabled(d)) > MaxEnabled

Editing(c) ==
  /\ op[c].pc = "idle"
  /\ edits < conf.edits
  /\ edits' = edits + 1
  /\ UNCHANGED <<conf, now, book, torn, clobbered, tickVars>>

\* add_job
Add(c) ==
  /\ Editing(c)
  /\ \E d \in {book, Empty}, j \in Jobs \ used, p \in conf.plans, on \in BOOLEAN :
       /\ Load(d)
       /\ on => conf.admin \/ HasRoom(d)
       /\ Valid(p)
       /\ used' = used \cup {j}
       /\ Begin(c, d, [d EXCEPT ![j] = [plan |-> p, enabled |-> on, born |-> now,
                                        ran |-> Never]], {j})

\* mutate_job_for_actor: a change of one job, refused when it would enable one too many.
Mutate(c, j, d, new) ==
  LET doc == [d EXCEPT ![j] = new]
  IN  /\ Load(d)
      /\ j \in Ids(d)
      /\ ~ d[j].enabled /\ new.enabled => conf.admin \/ ~ Overfull(doc)
      /\ Begin(c, d, doc, {j})

\* update_job: a schedule and a prompt, a switch, or both; last_run_at stays.
Update(c) ==
  /\ Editing(c)
  /\ UNCHANGED used
  /\ \E d \in {book, Empty}, j \in Jobs, p \in conf.plans, on \in BOOLEAN :
       /\ j \in Ids(d)
       /\ ~ Conflict(p)
       /\ Valid(p) \/ p = d[j].plan
       /\ Mutate(c, j, d, [d[j] EXCEPT !.plan = p, !.enabled = on])

\* toggle_job
Toggle(c) ==
  /\ Editing(c)
  /\ UNCHANGED used
  /\ \E d \in {book, Empty}, j \in Jobs :
       /\ j \in Ids(d)
       /\ Mutate(c, j, d, [d[j] EXCEPT !.enabled = ~ @])

\* delete_job and remove_job
Delete(c) ==
  /\ Editing(c)
  /\ UNCHANGED used
  /\ \E d \in {book, Empty}, j \in Jobs :
       /\ Load(d)
       /\ j \in Ids(d)
       /\ Begin(c, d, [d EXCEPT ![j] = None], {j})

-----------------------------------------------------------------------------
(* save_jobs.                                                              *)

\* The records that c, making the store b, replaces without having loaded them.
Clobbers(c, b) == {j \in Jobs : b[j] # book[j] /\ op[c].base[j] # book[j]}

\* The store becomes b by a step of c, which goes on with the operation o.
Settle(c, b, o) ==
  /\ book' = b
  /\ op' = [op EXCEPT ![c] = o]
  /\ clobbered' = clobbered \cup Clobbers(c, b)

\* std::fs::write opens with O_TRUNC: whoever is about to write starts from nothing.
Truncate(c) ==
  /\ ~ conf.cloud
  /\ op[c].pc = "save"
  /\ torn' = TRUE
  /\ op' = [d \in Clients |-> IF d = c \/ op[d].pc = "overwrite"
                            THEN [op[d] EXCEPT !.pc = "write"] ELSE op[d]]
  /\ UNCHANGED <<conf, now, book, clobbered, tickVars, used, boundVars>>

\* The write after somebody else's leaves remnants behind when it is the shorter one.
Write(c) ==
  /\ op[c].pc \in {"write", "overwrite"}
  /\ op' = [d \in Clients |-> IF d = c THEN Idle
                            ELSE IF op[d].pc = "write" THEN [op[d] EXCEPT !.pc = "overwrite"]
                            ELSE op[d]]
  /\ \/ /\ torn' = FALSE
        /\ book' = op[c].doc
        /\ clobbered' = clobbered \cup Clobbers(c, op[c].doc)
     \/ /\ op[c].pc = "overwrite"
        /\ torn' = TRUE
        /\ clobbered' = clobbered \cup op[c].ids
        /\ UNCHANGED book
  /\ UNCHANGED <<conf, now, tickVars, used, boundVars>>

\* What is left of a Postgres save once its deletes are those in gone.
Upserting(o)      == IF Ids(o.doc) = {} THEN Idle
                     ELSE [o EXCEPT !.pc = "upsert", !.todo = Ids(o.doc)]
Sweeping(o, gone) == IF gone = {} THEN Upserting(o)
                     ELSE [o EXCEPT !.pc = "sweep", !.todo = gone]

List(c) ==
  /\ conf.cloud
  /\ op[c].pc = "save"
  /\ op' = [op EXCEPT ![c] = Sweeping(op[c], Ids(book) \ Ids(op[c].doc))]
  /\ UNCHANGED <<conf, now, book, torn, clobbered, tickVars, used, boundVars>>

Sweep(c) ==
  /\ op[c].pc = "sweep"
  /\ \E j \in op[c].todo :
       Settle(c, [book EXCEPT ![j] = None], Sweeping(op[c], op[c].todo \ {j}))
  /\ UNCHANGED <<conf, now, torn, tickVars, used, boundVars>>

Upsert(c) ==
  /\ op[c].pc = "upsert"
  /\ \E j \in op[c].todo :
       Settle(c, [book EXCEPT ![j] = op[c].doc[j]],
              IF op[c].todo = {j} THEN Idle ELSE [op[c] EXCEPT !.todo = @ \ {j}])
  /\ UNCHANGED <<conf, now, torn, tickVars, used, boundVars>>

Saving(c) == Truncate(c) \/ Write(c) \/ List(c) \/ Sweep(c) \/ Upsert(c)

\* The save fails, times out or loses its process: what it has done so far stays.
Fail(c) ==
  /\ op[c].pc # "idle"
  /\ Fault
  /\ op' = [op EXCEPT ![c] = Idle]
  /\ UNCHANGED <<conf, now, book, torn, clobbered, tickVars, used, edits>>

-----------------------------------------------------------------------------
(* The scheduler's tick.                                                   *)

SlotOf(job, day) == day * DayLength + job.plan.slot

ComesAhead(job, m, day) ==                    \* mutant: the window that storage.rs:608 names
  /\ job.plan.repeat = "once" => job.plan.date \in {None, day}
  /\ job.plan.slot - Window <= m
  /\ m <= job.plan.slot \/ job.born <= SlotOf(job, day)

\* The plan asks for a run on this day at the minute m, or a little or, for a job that
\* existed in time, a lot before it.
Comes(job, m, day) ==
  /\ job.plan.repeat = "once" => job.plan.date \in {None, day}
  /\ job.plan.slot <= m
  /\ \/ m - Window <= job.plan.slot
     \/ job.born <= SlotOf(job, day)

RanToday(job, day) == job.ran # Never /\ Day(job.ran) = day    \* mutant: once as daily
RanInPeriod(job, day) ==
  /\ job.ran # Never
  /\ job.plan.repeat = "once" \/ Day(job.ran) = day

KeyOf(d, j) == [job |-> j, repeat |-> d[j].plan.repeat, day |-> Day(now),
                slot |-> d[j].plan.slot]

\* The minute is the caller's, the day is that of a second look at the clock.
DueKeys(d) == {KeyOf(d, j) : j \in {j \in Enabled(d) : /\ Comes(d[j], Minute(read), Day(now))
                                                   /\ ~ RanInPeriod(d[j], Day(now))}}

RepairedAlways(d) == [j \in Jobs |-> IF j \in Ids(d)  \* mutant: also without a declared time
                               THEN [d[j] EXCEPT !.plan.slot = d[j].plan.told] ELSE d[j]]

\* repair_legacy_prompt_schedule_mismatches
Repaired(d) == [j \in Jobs |-> IF j \in Ids(d) /\ Conflict(d[j].plan)
                               THEN [d[j] EXCEPT !.plan.slot = d[j].plan.told] ELSE d[j]]

TickIsOver == op[Scheduler].pc = "idle" /\ batch = {} /\ handed = None

LookAtClock ==
  /\ TickIsOver
  /\ ~ looked
  /\ read' = now
  /\ looked' = TRUE
  /\ UNCHANGED <<conf, now, docVars, batch, handed, claimed, fired, used, boundVars>>

\* get_due_jobs.  A failed list finds nothing, a failed claim leaves its job out; a
\* file that does not parse is passed over.
Scan ==
  LET d   == IF torn THEN Empty ELSE book
      doc == IF conf.cloud THEN d ELSE Repaired(d)
      due == DueKeys(doc) \ claimed
  IN  /\ looked
      /\ looked' = FALSE
      /\ \E S \in SUBSET due :
           /\ \/ S = due /\ UNCHANGED faults
              \/ conf.cloud /\ Fault
           /\ batch' = S
           /\ claimed' = IF conf.cloud THEN claimed \cup S ELSE claimed
      /\ \/ doc = d /\ UNCHANGED op
         \/ doc # d /\ Begin(Scheduler, d, doc, {j \in Jobs : doc[j] # d[j]})
      /\ UNCHANGED <<conf, now, book, torn, clobbered, read, handed, fired, used, edits>>

HandOver ==
  /\ op[Scheduler].pc = "idle"
  /\ handed = None
  /\ \E k \in batch :
       /\ batch' = batch \ {k}
       /\ handed' = k.job
       /\ fired' = Append(fired, [key |-> k, at |-> now, read |-> read])
  /\ UNCHANGED <<conf, now, docVars, read, looked, claimed, used, boundVars>>

MarkedAll(d, j) ==                                    \* mutant: no test of the job id
  [k \in Jobs |-> IF k \in Ids(d) THEN [d[k] EXCEPT !.ran = now] ELSE None]
Marked(d, j) ==
  IF j \notin Ids(d) THEN d
  ELSE [d EXCEPT ![j].ran = now,
                 ![j].enabled = @ /\ d[j].plan.repeat # "once"]

\* mark_job_run: the document is saved whether or not it holds the job.
Mark ==
  /\ op[Scheduler].pc = "idle"
  /\ handed # None
  /\ \E d \in {book, Empty} :
       Load(d) /\ Begin(Scheduler, d, Marked(d, handed), {handed})
  /\ handed' = None
  /\ UNCHANGED <<conf, now, book, torn, clobbered, read, looked, batch, claimed, fired,
                 used, edits>>

\* The scheduler's process is started again.
Restart ==
  /\ Fault
  /\ op' = [op EXCEPT ![Scheduler] = Idle]
  /\ looked' = FALSE
  /\ batch' = {}
  /\ handed' = None
  /\ UNCHANGED <<conf, now, book, torn, clobbered, read, claimed, fired, used, edits>>

Pass ==
  /\ now < conf.until
  /\ now' = now + 1
  /\ UNCHANGED <<conf, docVars, tickVars, used, boundVars>>

SchedulerStep == LookAtClock \/ Scan \/ HandOver \/ Mark
EditorStep(c) == Add(c) \/ Update(c) \/ Toggle(c) \/ Delete(c)

Next ==
  \/ \E c \in Editors : EditorStep(c)
  \/ \E c \in Clients : Saving(c) \/ Fail(c)
  \/ SchedulerStep
  \/ Restart
  \/ Pass

Spec == Init /\ [][Next]_vars

\* The scheduler's loop and every save go on; requests, faults and time need not.
Fairness == WF_vars(SchedulerStep) /\ \A c \in Clients : WF_vars(Saving(c))
FairSpec == Spec /\ Fairness

-----------------------------------------------------------------------------
(* Properties.                                                             *)

\* However the load and save of several writers overlap, the job file never holds
\* more enabled jobs than the limit, unless an administrator may exceed it.  (On
\* Postgres, where documents are merged row by row, it may.)
LimitKept == ~ conf.cloud /\ ~ conf.admin => ~ Overfull(book)

\* A save changes another job than its own only when it had loaded that job in
\* another state: from before another writer's save, or from a failed load.
OthersAreKept ==
  [][\A j \in Jobs : book'[j] # book[j] =>
       \E c \in Clients : /\ op'[c] # op[c]
                          /\ j \in op[c].ids \/ op[c].base[j] # book[j]]_vars

SamePeriod(k, l) == k.job = l.job /\ k.repeat = l.repeat /\ (k.repeat = "once" \/ k.day = l.day)

\* A job is handed over again in its period (a one-shot job: ever) only if a save
\* clobbered its mark or a fault lost it; with claims never for the same slot.
FiresOnce ==
  \A m, n \in DOMAIN fired : m < n /\ SamePeriod(fired[m].key, fired[n].key) =>
    /\ fired[n].key.job \in clobbered \/ faults > 0
    /\ conf.cloud => fired[m].key # fired[n].key

\* A job is handed over before the minute of its slot only by a tick that read the
\* clock before midnight and asked for due jobs after it.  (The doc of get_due_jobs,
\* storage.rs:608-609, has ordinary jobs due in a window that ends at the slot; the code
\* has the window begin there, storage.rs:58.)
EarlyOnlyOverMidnight ==
  \A n \in DOMAIN fired :
    LET k == fired[n].key
    IN  fired[n].at < k.day * DayLength + k.slot => Day(fired[n].read) < k.day

\* The slot of the day has come, and the user has not got it, although no run of an
\* earlier day was marked so late that it counts as today's.
Owed(j) ==
  /\ ~ torn
  /\ j \in Enabled(book)
  /\ Comes(book[j], Minute(now), Day(now))
  /\ book[j].plan.repeat = "once" => book[j].ran = Never
  /\ ~ \E n \in DOMAIN fired :
       /\ fired[n].key.job = j
       /\ \/ book[j].plan.repeat = "once"
          \/ fired[n].key.day = Day(now)
          \/ RanInPeriod(book[j], Day(now))
  /\ KeyOf(book, j) \notin claimed

\* Once the requests are over, no slot of the day that has come stays owed, however late
\* the tick is: while its day lasts a missed slot is caught up, unless the run of an
\* earlier day, marked late, counts as its run.
EventuallyServed == \A j \in Jobs : <>[] ~ Owed(j)
=============================================================================
