------------------------- MODULE CronStore_proofs -------------------------
(* Proofs about CronStore, for every value of its constants.               *)
EXTENDS CronStore, TLAPS, FiniteSetTheorems, SequenceTheorems

-----------------------------------------------------------------------------
(* The inductive invariants.                                               *)

\* The file, and every document on its way to it, keeps the limit.
DocsFit ==
  ~ conf.cloud /\ ~ conf.admin =>
    ~ Overfull(book) /\ \A c \in Clients : ~ Overfull(op[c].doc)

\* A save changes the document it loaded only in the jobs it is about; the rows it
\* deletes are not in its document; files and rows do not mix.
OwnJobsOnly ==
  \A c \in Clients :
    /\ \A j \in Jobs \ op[c].ids : op[c].doc[j] = op[c].base[j]
    /\ op[c].pc = "sweep" => \A j \in op[c].todo : op[c].doc[j] = None
    /\ op[c].pc \in {"sweep", "upsert"} => conf.cloud
    /\ op[c].pc \in {"write", "overwrite"} => ~ conf.cloud

\* c has still to write the job j of its document.
Unwritten(c, j) ==
  /\ op[c].pc # "idle"
  /\ op[c].doc[j] # None
  /\ op[c].pc = "upsert" => j \in op[c].todo

\* No stamp lies in the future, and no save takes one back.
InThePast(d) == \A j \in Ids(d) : d[j].ran <= now
StampsPast ==
  /\ InThePast(book)
  /\ \A c \in Clients :
       /\ InThePast(op[c].base) /\ InThePast(op[c].doc)
       /\ \A j \in Ids(op[c].base) \cap Ids(op[c].doc) :
            op[c].base[j].ran <= op[c].doc[j].ran

\* Nothing was handed over, or is about to be, for a day to come.
FiresPast ==
  /\ \A k \in batch : k.day <= Day(now)
  /\ \A n \in DOMAIN fired : fired[n].key.day <= Day(now)

\* Only a file is ever torn.
FilesTear == torn => ~ conf.cloud

\* Ids that anything in the store, in a request or in a tick speaks of were given out.
IdsUsed ==
  /\ Ids(book) \subseteq used
  /\ \A c \in Clients : Ids(op[c].base) \cup Ids(op[c].doc) \subseteq used
  /\ {k.job : k \in batch} \subseteq used
  /\ handed # None => handed \in used
  /\ \A n \in DOMAIN fired : fired[n].key.job \in used

\* A job on its way into the store is known to nobody else.
NewJobsUnknown ==
  \A c \in Clients, j \in Jobs : Unwritten(c, j) /\ op[c].base[j] = None =>
    /\ book[j] = None
    /\ \A d \in Clients \ {c} : op[d].base[j] = None /\ op[d].doc[j] = None
    /\ handed # j
    /\ \A k \in batch : k.job # j
    /\ \A n \in DOMAIN fired : fired[n].key.job # j

\* A tick looks for due jobs only when the last one is over; it has one slot a job.
OneTick ==
  /\ looked => TickIsOver
  /\ \A k, l \in batch : k.job = l.job => k = l

Clean(j) == j \notin clobbered /\ faults = 0
StampedFrom(r, day) == r # None => r.ran # Never /\ Day(r.ran) >= day

\* The mark of j is on its way.
MarkPending(j, day) ==
  /\ op[Scheduler].pc # "idle"
  /\ j \in op[Scheduler].ids
  /\ IF op[Scheduler].doc[j] = None THEN ~ conf.cloud
     ELSE StampedFrom(op[Scheduler].doc[j], day) /\ Unwritten(Scheduler, j)

\* What was handed over is marked, or about to be, unless something hurt the job.
FiredIsMarked ==
  \A n \in DOMAIN fired : Clean(fired[n].key.job) =>
    \/ handed = fired[n].key.job
    \/ MarkPending(fired[n].key.job, fired[n].key.day)
    \/ StampedFrom(book[fired[n].key.job], fired[n].key.day)

\* Nothing of this tick was handed over before in its period.
BatchIsNew ==
  \A k \in batch, n \in DOMAIN fired :
    /\ SamePeriod(fired[n].key, k) => ~ Clean(k.job)
    /\ conf.cloud => fired[n].key # k

ClaimsKept ==
  conf.cloud => batch \subseteq claimed /\ \A n \in DOMAIN fired : fired[n].key \in claimed

FireInv ==
  /\ StampsPast
  /\ FiresPast
  /\ FilesTear
  /\ IdsUsed
  /\ NewJobsUnknown
  /\ OneTick
  /\ FiredIsMarked
  /\ BatchIsNew
  /\ ClaimsKept
  /\ FiresOnce
-----------------------------------------------------------------------------
(* Type correctness.                                                       *)

\* Records are told from the absence of one.
LEMMA NoneIsNoJob ==
  /\ None \notin Job
  /\ None \notin Jobs
  /\ None \notin Nat
BY CronStoreAssumption

\* Changes of one job of a document, and of its record.
LEMMA SetJob ==
  ASSUME NEW d \in Doc, NEW j \in Jobs, NEW r \in Job \cup {None}
  PROVE  /\ [d EXCEPT ![j] = r] \in Doc
         /\ [d EXCEPT ![j] = r][j] = r
         /\ \A k \in Jobs \ {j} : [d EXCEPT ![j] = r][k] = d[k]
BY DEF Doc

LEMMA IdleType == Idle \in Op /\ Idle.pc = "idle" /\ Idle.doc = Empty /\ Idle.base = Empty
BY DEF Idle, Op, Phases, Empty, Doc

\* The repair of a record, and of a document.
LEMMA RepairedRecord ==
  ASSUME NEW r \in Job, Conflict(r.plan)
  PROVE  /\ [r EXCEPT !.plan.slot = r.plan.told] \in Job
         /\ [r EXCEPT !.plan.slot = r.plan.told].ran = r.ran
         /\ [r EXCEPT !.plan.slot = r.plan.told].enabled = r.enabled
<1>1. r.plan \in Plans /\ r.plan.told # None
  BY DEF Job, Conflict
<1>2. [r.plan EXCEPT !.slot = r.plan.told] \in Plans
  BY <1>1, CronStoreAssumption
<1> QED
  BY <1>1, <1>2 DEF Job

LEMMA RepairedType ==
  ASSUME NEW d \in Doc
  PROVE  /\ Repaired(d) \in Doc
         /\ Ids(Repaired(d)) = Ids(d)
         /\ \A j \in Ids(d) : /\ Repaired(d)[j].ran = d[j].ran
                              /\ Repaired(d)[j].enabled = d[j].enabled
<1>1. ASSUME NEW j \in Jobs, j \in Ids(d)
      PROVE  /\ Repaired(d)[j] \in Job
             /\ Repaired(d)[j].ran = d[j].ran
             /\ Repaired(d)[j].enabled = d[j].enabled
  <2>1. d[j] \in Job
    BY <1>1 DEF Doc, Ids
  <2>2. CASE Conflict(d[j].plan)
    <3>1. Repaired(d)[j] = [d[j] EXCEPT !.plan.slot = d[j].plan.told]
      BY <1>1, <2>2 DEF Repaired
    <3> QED
      BY <2>1, <2>2, <3>1, RepairedRecord
  <2>3. CASE ~ Conflict(d[j].plan)
    BY <1>1, <2>1, <2>3 DEF Repaired
  <2> QED
    BY <2>2, <2>3
<1>2. ASSUME NEW j \in Jobs, j \notin Ids(d) PROVE Repaired(d)[j] = None
  BY <1>2 DEF Repaired, Ids
<1>3. Repaired(d) \in Doc
  <2>1. \A j \in Jobs : Repaired(d)[j] \in Job \cup {None}
    BY <1>1, <1>2
  <2> QED
    BY <2>1 DEF Repaired, Doc
<1>4. Ids(Repaired(d)) = Ids(d)
  BY <1>1, <1>2, NoneIsNoJob DEF Ids
<1> QED
  BY <1>1, <1>3, <1>4 DEF Ids

\* The mark of a job in a document.
LEMMA MarkedType ==
  ASSUME NEW d \in Doc, NEW j \in Jobs, now \in Nat
  PROVE  /\ Marked(d, j) \in Doc
         /\ \A k \in Jobs \ {j} : Marked(d, j)[k] = d[k]
         /\ Marked(d, j)[j] = None <=> d[j] = None
         /\ d[j] # None => /\ Marked(d, j)[j].ran = now
                           /\ Marked(d, j)[j].enabled => d[j].enabled
<1>1. CASE j \notin Ids(d)
  BY <1>1 DEF Marked, Ids
<1>2. CASE j \in Ids(d)
  <2> DEFINE r == [d[j] EXCEPT !.ran = now, !.enabled = @ /\ d[j].plan.repeat # "once"]
  <2>1. d[j] \in Job
    BY <1>2 DEF Doc, Ids
  <2>2. r \in Job /\ r.ran = now /\ (r.enabled => d[j].enabled)
    BY <2>1 DEF Job
  <2>3. Marked(d, j) = [d EXCEPT ![j] = r]
    BY <1>2, <2>1 DEF Marked, Doc
  <2> HIDE DEF r
  <2>4. Marked(d, j)[j] = r /\ \A k \in Jobs \ {j} : Marked(d, j)[k] = d[k]
    BY <2>2, <2>3, SetJob
  <2>5. Marked(d, j) \in Doc
    <3>1. r \in Job \cup {None}
      BY <2>2
    <3> QED
      BY <2>3, <3>1 DEF Doc
  <2>6. r # None /\ d[j] # None
    BY <1>2, <2>2, NoneIsNoJob DEF Ids
  <2> QED
    BY <2>2, <2>4, <2>5, <2>6, Zenon
<1> QED
  BY <1>1, <1>2

\* Steps of one client.
LEMMA OpStep ==
  ASSUME TypeOK, NEW c \in Clients, NEW o \in Op, op' = [op EXCEPT ![c] = o]
  PROVE  op' \in [Clients -> Op] /\ op'[c] = o /\ \A e \in Clients \ {c} : op'[e] = op[e]
BY DEF TypeOK

LEMMA OpFields ==
  ASSUME TypeOK, NEW c \in Clients
  PROVE  /\ op[c] \in Op
         /\ op[c].pc \in Phases
         /\ op[c].ids \subseteq Jobs
         /\ op[c].base \in Doc
         /\ op[c].doc \in Doc
         /\ op[c].todo \subseteq Jobs
BY DEF TypeOK, Op

LEMMA BeginShape ==
  ASSUME TypeOK, NEW c \in Clients, NEW d \in Doc, NEW new \in Doc, NEW ids \in SUBSET Jobs,
         Begin(c, d, new, ids)
  PROVE  /\ op' \in [Clients -> Op]
         /\ op'[c].pc = "save"
         /\ op'[c].ids = ids
         /\ op'[c].base = d
         /\ op'[c].doc = new
         /\ op'[c].todo = {}
         /\ \A e \in Clients \ {c} : op'[e] = op[e]
<1> DEFINE o == [pc |-> "save", ids |-> ids, base |-> d, doc |-> new, todo |-> {}]
<1>1. /\ o \in Op
      /\ o.pc = "save" /\ o.ids = ids /\ o.base = d /\ o.doc = new /\ o.todo = {}
  BY DEF Op, Phases
<1>2. op' = [op EXCEPT ![c] = o]
  BY DEF Begin
<1> HIDE DEF o
<1> QED
  BY <1>1, <1>2, OpStep

\* A document that is loaded is the store's or an empty one.
LEMMA EmptyType == Empty \in Doc /\ (\A j \in Jobs : Empty[j] = None) /\ Ids(Empty) = {}
BY DEF Empty, Doc, Ids

LEMMA LoadShape ==
  ASSUME TypeOK, NEW d, Load(d)
  PROVE  /\ d \in Doc
         /\ d = book \/ d = Empty
         /\ d # book => torn \/ faults' > 0
         /\ faults' \in Nat
         /\ faults <= faults'
<1>1. Empty \in Doc /\ book \in Doc /\ faults \in Nat
  BY EmptyType DEF TypeOK
<1> QED
  BY <1>1 DEF Load, Fault

\* What an edit does: it begins to save a document that differs from the one it has
\* loaded in one job, which is new or keeps its last run.
EditOf(c, d, new, j) ==
  /\ Load(d)
  /\ Begin(c, d, new, {j})
  /\ \A k \in Jobs \ {j} : new[k] = d[k]
  /\ \/ j \notin used /\ used' = used \cup {j} /\ new[j] # None /\ new[j].ran = Never
     \/ d[j] # None /\ used' = used /\ (new[j] # None => new[j].ran = d[j].ran)
  /\ conf.admin \/ ~ Overfull(new) \/ HasRoom(d) \/ Enabled(new) \subseteq Enabled(d)

LEMMA MutateShape ==
  ASSUME TypeOK, NEW c \in Editors, NEW d, NEW j \in Jobs, NEW r \in Job,
         Mutate(c, j, d, r), used' = used, r.ran = d[j].ran
  PROVE  \E new \in Doc : EditOf(c, d, new, j)
<1> DEFINE new == [d EXCEPT ![j] = r]
<1>1. Load(d) /\ j \in Ids(d) /\ Begin(c, d, new, {j})
      /\ (~ d[j].enabled /\ r.enabled => conf.admin \/ ~ Overfull(new))
  BY DEF Mutate
<1>2. d \in Doc /\ d[j] # None /\ d[j] \in Job
  BY <1>1, LoadShape DEF Ids, Doc
<1>3. new \in Doc /\ new[j] = r /\ \A k \in Jobs \ {j} : new[k] = d[k]
  BY <1>2, SetJob
<1> HIDE DEF new
<1>4. (r.enabled => d[j].enabled) => Enabled(new) \subseteq Enabled(d)
  <2> SUFFICES ASSUME r.enabled => d[j].enabled, NEW k \in Enabled(new)
               PROVE  k \in Enabled(d)
    OBVIOUS
  <2>1. k \in Jobs /\ new[k] # None /\ new[k].enabled
    BY DEF Enabled, Ids
  <2>2. CASE k = j
    BY <1>2, <1>3, <2>1, <2>2 DEF Enabled, Ids
  <2>3. CASE k # j
    BY <1>3, <2>1, <2>3 DEF Enabled, Ids
  <2> QED
    BY <2>2, <2>3
<1>5. conf.admin \/ ~ Overfull(new) \/ HasRoom(d) \/ Enabled(new) \subseteq Enabled(d)
  BY <1>1, <1>4, Zenon
<1> QED
  BY <1>1, <1>2, <1>3, <1>5, Zenon DEF EditOf

LEMMA EditShape ==
  ASSUME TypeOK, NEW c \in Editors, EditorStep(c)
  PROVE  /\ op[c].pc = "idle"
         /\ edits' \in Nat
         /\ UNCHANGED <<conf, now, book, torn, clobbered, tickVars>>
         /\ \E d \in Doc, new \in Doc, j \in Jobs : EditOf(c, d, new, j)
<1>1. Editing(c)
  BY DEF EditorStep, Add, Update, Toggle, Delete
<1>2. /\ op[c].pc = "idle"
      /\ edits' \in Nat
      /\ UNCHANGED <<conf, now, book, torn, clobbered, tickVars>>
  BY <1>1 DEF Editing, TypeOK
<1>3. CASE Add(c)
  <2>1. PICK d \in {book, Empty}, j \in Jobs \ used, p \in conf.plans, on \in BOOLEAN :
          /\ Load(d)
          /\ on => conf.admin \/ HasRoom(d)
          /\ used' = used \cup {j}
          /\ Begin(c, d, [d EXCEPT ![j] = [plan |-> p, enabled |-> on, born |-> now,
                                           ran |-> Never]], {j})
    BY <1>3, Zenon DEF Add
  <2> DEFINE r == [plan |-> p, enabled |-> on, born |-> now, ran |-> Never]
             new == [d EXCEPT ![j] = r]
  <2>2. d \in Doc
    BY <2>1, LoadShape
  <2>3. r \in Job /\ r.ran = Never
    BY CronStoreAssumption DEF TypeOK, Job
  <2>4. r.enabled = on
    OBVIOUS
  <2>5. Begin(c, d, new, {j})
    BY <2>1
  <2> HIDE DEF r
  <2>6. new \in Doc /\ new[j] = r /\ \A k \in Jobs \ {j} : new[k] = d[k]
    BY <2>2, <2>3, SetJob
  <2> HIDE DEF new
  <2>7. ~ on => Enabled(new) \subseteq Enabled(d)
    <3> SUFFICES ASSUME ~ on, NEW k \in Enabled(new) PROVE k \in Enabled(d)
      OBVIOUS
    <3>1. k \in Jobs /\ new[k] # None /\ new[k].enabled
      BY DEF Enabled, Ids
    <3>2. k # j
      BY <2>4, <2>6, <3>1
    <3> QED
      BY <2>6, <3>1, <3>2 DEF Enabled, Ids
  <2>8. conf.admin \/ ~ Overfull(new) \/ HasRoom(d) \/ Enabled(new) \subseteq Enabled(d)
    BY <2>1, <2>7, Zenon
  <2>9. j \notin used /\ used' = used \cup {j} /\ new[j] # None /\ new[j].ran = Never
    BY <2>1, <2>3, <2>6, NoneIsNoJob
  <2>10. EditOf(c, d, new, j)
    BY <2>1, <2>5, <2>6, <2>8, <2>9, Zenon DEF EditOf
  <2> QED
    BY <1>2, <2>2, <2>6, <2>10
<1>4. CASE Update(c)
  <2>1. PICK d \in {book, Empty}, j \in Jobs, p \in conf.plans, on \in BOOLEAN :
          j \in Ids(d) /\ Mutate(c, j, d, [d[j] EXCEPT !.plan = p, !.enabled = on])
    BY <1>4, Zenon DEF Update
  <2>2. used' = used
    BY <1>4 DEF Update
  <2> DEFINE r == [d[j] EXCEPT !.plan = p, !.enabled = on]
  <2>3. d \in Doc
    BY EmptyType DEF TypeOK
  <2>4. d[j] \in Job
    BY <2>1, <2>3 DEF Ids, Doc
  <2>5. r \in Job /\ r.ran = d[j].ran
    BY <2>4, CronStoreAssumption DEF TypeOK, Job
  <2>6. Mutate(c, j, d, r)
    BY <2>1
  <2> HIDE DEF r
  <2> QED
    BY <1>2, <2>2, <2>3, <2>5, <2>6, MutateShape
<1>5. CASE Toggle(c)
  <2>1. PICK d \in {book, Empty}, j \in Jobs :
          j \in Ids(d) /\ Mutate(c, j, d, [d[j] EXCEPT !.enabled = ~ @])
    BY <1>5, Zenon DEF Toggle
  <2>2. used' = used
    BY <1>5 DEF Toggle
  <2> DEFINE r == [d[j] EXCEPT !.enabled = ~ @]
  <2>3. d \in Doc
    BY EmptyType DEF TypeOK
  <2>4. d[j] \in Job
    BY <2>1, <2>3 DEF Ids, Doc
  <2>5. r \in Job /\ r.ran = d[j].ran
    BY <2>4 DEF Job
  <2>6. Mutate(c, j, d, r)
    BY <2>1
  <2> HIDE DEF r
  <2> QED
    BY <1>2, <2>2, <2>3, <2>5, <2>6, MutateShape
<1>6. CASE Delete(c)
  <2>1. PICK d \in {book, Empty}, j \in Jobs :
          Load(d) /\ j \in Ids(d) /\ Begin(c, d, [d EXCEPT ![j] = None], {j})
    BY <1>6, Zenon DEF Delete
  <2>2. used' = used
    BY <1>6 DEF Delete
  <2> DEFINE new == [d EXCEPT ![j] = None]
  <2>3. d \in Doc /\ d[j] # None
    BY <2>1, LoadShape DEF Ids
  <2>4. new \in Doc /\ new[j] = None /\ \A k \in Jobs \ {j} : new[k] = d[k]
    BY <2>3, SetJob
  <2>5. Begin(c, d, new, {j})
    BY <2>1
  <2> HIDE DEF new
  <2>6. Enabled(new) \subseteq Enabled(d)
    BY <2>4 DEF Enabled, Ids
  <2>7. EditOf(c, d, new, j)
    BY <2>1, <2>2, <2>3, <2>4, <2>5, <2>6, Zenon DEF EditOf
  <2> QED
    BY <1>2, <2>3, <2>4, <2>7
<1> QED
  BY <1>3, <1>4, <1>5, <1>6 DEF EditorStep

-----------------------------------------------------------------------------
(* Steps of a save.                                                        *)

\* A save somebody else's write may turn into an overwriting one.
SameSave(o, n) ==
  /\ n.ids = o.ids /\ n.base = o.base /\ n.doc = o.doc /\ n.todo = o.todo
  /\ n.pc = o.pc \/ {o.pc, n.pc} \subseteq {"write", "overwrite"}

\* What a step of c's save does to the store and to the saves.
SaveOf(c) ==
  /\ UNCHANGED <<conf, now, tickVars, used, boundVars>>
  /\ op' \in [Clients -> Op] /\ book' \in Doc /\ torn' \in BOOLEAN
  /\ clobbered \subseteq clobbered' /\ clobbered' \subseteq Jobs
  /\ op[c].pc # "idle" /\ op'[c] # op[c]
  /\ \A e \in Clients \ {c} : SameSave(op[e], op'[e])
  /\ op'[c] = Idle \/ /\ op'[c].pc # "idle"
                      /\ op'[c].ids = op[c].ids
                      /\ op'[c].base = op[c].base
                      /\ op'[c].doc = op[c].doc
  /\ op'[c].pc = "sweep" => \A j \in op'[c].todo : op'[c].doc[j] = None
  /\ op'[c].pc \in {"sweep", "upsert"} => conf.cloud
  /\ op'[c].pc \in {"write", "overwrite"} => ~ conf.cloud
  /\ \A j \in Jobs : book'[j] # book[j] =>
       /\ book'[j] = op[c].doc[j]
       /\ book'[j] # None => Unwritten(c, j)
       /\ op[c].base[j] # book[j] => j \in clobbered'
  /\ torn' => torn \/ ~ conf.cloud
  /\ \A j \in Jobs : Unwritten(c, j)' => Unwritten(c, j) /\ book'[j] \in {book[j], None}
  /\ \A j \in Jobs : Unwritten(c, j) =>
       Unwritten(c, j)' \/ book'[j] = op[c].doc[j] \/ op[c].ids \subseteq clobbered'
  /\ ~ conf.cloud => book' \in {book, op[c].doc}
  /\ ~ conf.cloud /\ op'[c] = Idle => book' = op[c].doc \/ op[c].ids \subseteq clobbered'

LEMMA PhaseChange ==
  ASSUME NEW o \in Op, NEW p \in Phases
  PROVE  /\ [o EXCEPT !.pc = p] \in Op
         /\ [o EXCEPT !.pc = p].pc = p
         /\ [o EXCEPT !.pc = p].ids = o.ids
         /\ [o EXCEPT !.pc = p].base = o.base
         /\ [o EXCEPT !.pc = p].doc = o.doc
         /\ [o EXCEPT !.pc = p].todo = o.todo
BY DEF Op

LEMMA UpsertingShape ==
  ASSUME NEW o \in Op
  PROVE  /\ Upserting(o) \in Op
         /\ \/ Upserting(o) = Idle /\ Ids(o.doc) = {}
            \/ /\ Upserting(o).pc = "upsert" /\ Upserting(o).todo = Ids(o.doc)
               /\ Upserting(o).ids = o.ids /\ Upserting(o).base = o.base
               /\ Upserting(o).doc = o.doc
<1>1. Ids(o.doc) \in SUBSET Jobs /\ "upsert" \in Phases
  BY DEF Ids, Phases
<1>2. CASE Ids(o.doc) = {}
  BY <1>2, IdleType DEF Upserting
<1>3. CASE Ids(o.doc) # {}
  <2> DEFINE n == [o EXCEPT !.pc = "upsert", !.todo = Ids(o.doc)]
  <2>1. Upserting(o) = n
    BY <1>3 DEF Upserting
  <2>2. /\ n \in Op /\ n.pc = "upsert" /\ n.todo = Ids(o.doc)
        /\ n.ids = o.ids /\ n.base = o.base /\ n.doc = o.doc
    BY <1>1 DEF Op
  <2> HIDE DEF n
  <2> QED
    BY <2>1, <2>2
<1> QED
  BY <1>2, <1>3

LEMMA SweepingShape ==
  ASSUME NEW o \in Op, NEW gone \in SUBSET Jobs
  PROVE  /\ Sweeping(o, gone) \in Op
         /\ \/ Sweeping(o, gone) = Idle /\ Ids(o.doc) = {}
            \/ /\ Sweeping(o, gone).pc \in {"sweep", "upsert"}
               /\ Sweeping(o, gone).todo =
                    (IF Sweeping(o, gone).pc = "sweep" THEN gone ELSE Ids(o.doc))
               /\ Sweeping(o, gone).ids = o.ids /\ Sweeping(o, gone).base = o.base
               /\ Sweeping(o, gone).doc = o.doc
<1>1. CASE gone = {}
  BY <1>1, UpsertingShape DEF Sweeping
<1>2. CASE gone # {}
  <2>1. "sweep" \in Phases
    BY DEF Phases
  <2> DEFINE n == [o EXCEPT !.pc = "sweep", !.todo = gone]
  <2>2. Sweeping(o, gone) = n
    BY <1>2 DEF Sweeping
  <2>3. /\ n \in Op /\ n.pc = "sweep" /\ n.todo = gone
        /\ n.ids = o.ids /\ n.base = o.base /\ n.doc = o.doc
    BY <2>1 DEF Op
  <2> HIDE DEF n
  <2> QED
    BY <2>2, <2>3
<1> QED
  BY <1>1, <1>2

\* Who else is affected by the opening and the end of a write.
LEMMA WritePhases ==
  ASSUME TypeOK, NEW e \in Clients, NEW n, op[e].pc \in {"write", "overwrite"},
         \/ n = op[e]
         \/ n = [op[e] EXCEPT !.pc = "write"]
         \/ n = [op[e] EXCEPT !.pc = "overwrite"]
  PROVE  n \in Op /\ SameSave(op[e], n)
<1>1. op[e] \in Op /\ {"write", "overwrite"} \subseteq Phases
  BY DEF TypeOK, Phases
<1>2. CASE n = op[e]
  BY <1>1, <1>2 DEF SameSave
<1>3. CASE n = [op[e] EXCEPT !.pc = "write"]
  <2>1. /\ n \in Op /\ n.pc = "write" /\ n.ids = op[e].ids /\ n.base = op[e].base
        /\ n.doc = op[e].doc /\ n.todo = op[e].todo
    BY <1>1, <1>3, PhaseChange
  <2> QED
    BY <2>1 DEF SameSave
<1>4. CASE n = [op[e] EXCEPT !.pc = "overwrite"]
  <2>1. /\ n \in Op /\ n.pc = "overwrite" /\ n.ids = op[e].ids /\ n.base = op[e].base
        /\ n.doc = op[e].doc /\ n.todo = op[e].todo
    BY <1>1, <1>4, PhaseChange
  <2> QED
    BY <2>1 DEF SameSave
<1> QED
  BY <1>2, <1>3, <1>4

LEMMA TruncateShape ==
  ASSUME TypeOK, OwnJobsOnly, NEW c \in Clients, Truncate(c)
  PROVE  SaveOf(c)
<1> USE DEF Truncate
<1>1. /\ UNCHANGED <<conf, now, tickVars, used, boundVars>>
      /\ book' = book /\ clobbered' = clobbered /\ torn' = TRUE
      /\ op[c].pc = "save" /\ ~ conf.cloud
      /\ book' \in Doc /\ clobbered' \subseteq Jobs
  BY DEF TypeOK
<1>2. ASSUME NEW e \in Clients \ {c} PROVE op'[e] \in Op /\ SameSave(op[e], op'[e])
  <2>1. op[e] \in Op
    BY DEF TypeOK
  <2>2. CASE op[e].pc = "overwrite"
    BY <2>2, WritePhases
  <2>3. CASE op[e].pc # "overwrite"
    BY <2>1, <2>3 DEF SameSave
  <2> QED
    BY <2>2, <2>3
<1>3. /\ op'[c] \in Op /\ op'[c].pc = "write" /\ op'[c].ids = op[c].ids
      /\ op'[c].base = op[c].base /\ op'[c].doc = op[c].doc
  <2>1. op'[c] = [op[c] EXCEPT !.pc = "write"]
    OBVIOUS
  <2> QED
    BY <2>1, OpFields, PhaseChange DEF Phases
<1>4. op' \in [Clients -> Op]
  <2>1. \A e \in Clients : op'[e] \in Op
    BY <1>2, <1>3
  <2>2. op' = [e \in Clients |-> op'[e]]
    OBVIOUS
  <2> QED
    BY <2>1, <2>2
<1>5. \A j \in Jobs : Unwritten(c, j)' <=> Unwritten(c, j)
  BY <1>1, <1>3 DEF Unwritten
<1>6. op'[c] # Idle /\ op'[c] # op[c] /\ torn' \in BOOLEAN /\ clobbered \subseteq clobbered'
      /\ op'[c].pc \notin {"idle", "sweep", "upsert"} /\ op[c].pc # "idle"
  BY <1>1, <1>3, IdleType
<1>7. /\ \A j \in Jobs : book'[j] = book[j]
      /\ torn' => torn \/ ~ conf.cloud
  BY <1>1
<1>8. \A e \in Clients \ {c} : SameSave(op[e], op'[e])
  BY <1>2
<1>9. book' \in {book, op[c].doc}
  BY <1>1
<1> HIDE DEF Truncate
<1> QED
  BY <1>1, <1>3, <1>4, <1>5, <1>6, <1>7, <1>8, <1>9 DEF SaveOf

LEMMA WriteShape ==
  ASSUME TypeOK, OwnJobsOnly, NEW c \in Clients, Write(c)
  PROVE  SaveOf(c)
<1>1. /\ UNCHANGED <<conf, now, tickVars, used, boundVars>>
      /\ op[c].pc \in {"write", "overwrite"} /\ ~ conf.cloud
  BY DEF Write, OwnJobsOnly
<1>2. op'[c] = Idle /\ op'[c].pc = "idle" /\ op[c].pc # "idle" /\ op'[c] # op[c]
  BY IdleType DEF Write
<1>3. ASSUME NEW e \in Clients \ {c} PROVE op'[e] \in Op /\ SameSave(op[e], op'[e])
  <2>1. op[e] \in Op
    BY DEF TypeOK
  <2>2. CASE op[e].pc = "write"
    <3>1. op'[e] = [op[e] EXCEPT !.pc = "overwrite"]
      BY <2>2 DEF Write
    <3> QED
      BY <2>2, <3>1, WritePhases
  <2>3. CASE op[e].pc # "write"
    <3>1. op'[e] = op[e]
      BY <2>3 DEF Write
    <3> QED
      BY <2>1, <3>1 DEF SameSave
  <2> QED
    BY <2>2, <2>3
<1>4. op' \in [Clients -> Op]
  <2>1. \A e \in Clients : op'[e] \in Op
    BY <1>2, <1>3, IdleType
  <2>2. op' = [e \in Clients |-> op'[e]]
    BY DEF Write
  <2> QED
    BY <2>1, <2>2
<1>5. /\ book' \in Doc /\ torn' \in BOOLEAN
      /\ clobbered \subseteq clobbered' /\ clobbered' \subseteq Jobs
      /\ book' \in {book, op[c].doc}
      /\ book' = op[c].doc \/ op[c].ids \subseteq clobbered'
  <2>1. op[c].ids \subseteq Jobs /\ op[c].doc \in Doc /\ Clobbers(c, op[c].doc) \subseteq Jobs
    BY OpFields DEF Clobbers
  <2> QED
    BY <2>1 DEF Write, TypeOK
<1>6. ASSUME NEW j \in Jobs, book'[j] # book[j]
      PROVE  /\ book'[j] = op[c].doc[j]
             /\ book'[j] # None => Unwritten(c, j)
             /\ op[c].base[j] # book[j] => j \in clobbered'
  <2>1. book' = op[c].doc /\ clobbered' = clobbered \cup Clobbers(c, op[c].doc)
    BY <1>6 DEF Write
  <2> QED
    BY <1>1, <1>6, <2>1 DEF Unwritten, Clobbers
<1>7. \A j \in Jobs : ~ Unwritten(c, j)'
  BY <1>2 DEF Unwritten
<1>8. \A j \in Jobs : book'[j] = op[c].doc[j] \/ op[c].ids \subseteq clobbered'
  BY <1>5
<1> QED
  BY <1>1, <1>2, <1>3, <1>4, <1>5, <1>6, <1>7, <1>8 DEF SaveOf

\* A statement of a Postgres save that leaves c with the operation o.
LEMMA SettleShape ==
  ASSUME TypeOK, NEW c \in Clients, NEW b \in Doc, NEW o \in Op, Settle(c, b, o)
  PROVE  /\ op' \in [Clients -> Op] /\ book' = b /\ op'[c] = o
         /\ clobbered \subseteq clobbered' /\ clobbered' \subseteq Jobs
         /\ \A e \in Clients \ {c} : SameSave(op[e], op'[e])
         /\ \A j \in Jobs : b[j] # book[j] /\ op[c].base[j] # book[j] => j \in clobbered'
<1>1. Clobbers(c, b) \subseteq Jobs
  BY DEF Clobbers
<1>2. op' \in [Clients -> Op] /\ op'[c] = o /\ \A e \in Clients \ {c} : op'[e] = op[e]
  BY OpStep DEF Settle
<1> QED
  BY <1>1, <1>2 DEF Settle, Clobbers, SameSave, TypeOK

LEMMA ListShape ==
  ASSUME TypeOK, OwnJobsOnly, NEW c \in Clients, List(c)
  PROVE  SaveOf(c)
<1> DEFINE gone == Ids(book) \ Ids(op[c].doc)
           o == Sweeping(op[c], gone)
<1>1. /\ UNCHANGED <<conf, now, tickVars, used, boundVars>>
      /\ book' = book /\ clobbered' = clobbered /\ torn' \in BOOLEAN /\ torn' = torn
      /\ op[c].pc = "save" /\ conf.cloud
      /\ book' \in Doc /\ clobbered' \subseteq Jobs
  BY DEF List, TypeOK
<1>2. gone \in SUBSET Jobs /\ \A j \in gone : op[c].doc[j] = None
  BY DEF Ids
<1>3. op' = [op EXCEPT ![c] = o]
  BY DEF List
<1> HIDE DEF gone
<1>4. /\ o \in Op
      /\ \/ o = Idle /\ Ids(op[c].doc) = {}
         \/ /\ o.pc \in {"sweep", "upsert"}
            /\ o.todo = (IF o.pc = "sweep" THEN gone ELSE Ids(op[c].doc))
            /\ o.ids = op[c].ids /\ o.base = op[c].base /\ o.doc = op[c].doc
  BY <1>2, OpFields, SweepingShape
<1> HIDE DEF o
<1>5. op' \in [Clients -> Op] /\ op'[c] = o /\ \A e \in Clients \ {c} : op'[e] = op[e]
  BY <1>3, <1>4, OpStep
<1>6. \A j \in Jobs : Unwritten(c, j)' <=> Unwritten(c, j)
  BY <1>1, <1>4, <1>5, IdleType DEF Unwritten, Ids
<1>7. o.pc = "sweep" => \A j \in o.todo : o.doc[j] = None
  BY <1>2, <1>4, IdleType
<1>8. o.pc \notin {"write", "overwrite"} /\ o # op[c] /\ op[c].pc # "idle"
  BY <1>1, <1>4, IdleType
<1>9. \A e \in Clients \ {c} : SameSave(op[e], op'[e])
  BY <1>5 DEF SameSave
<1> QED
  BY <1>1, <1>4, <1>5, <1>6, <1>7, <1>8, <1>9 DEF SaveOf

LEMMA SweepShape ==
  ASSUME TypeOK, OwnJobsOnly, NEW c \in Clients, Sweep(c)
  PROVE  SaveOf(c)
<1>1. PICK j \in op[c].todo :
        Settle(c, [book EXCEPT ![j] = None], Sweeping(op[c], op[c].todo \ {j}))
  BY DEF Sweep
<1> DEFINE gone == op[c].todo \ {j}
           o == Sweeping(op[c], gone)
           b == [book EXCEPT ![j] = None]
<1>2. /\ UNCHANGED <<conf, now, tickVars, used, boundVars>>
      /\ torn' \in BOOLEAN /\ torn' = torn /\ op[c].pc = "sweep" /\ conf.cloud
  BY DEF Sweep, OwnJobsOnly, TypeOK
<1>3. j \in Jobs /\ gone \in SUBSET Jobs /\ op[c].doc[j] = None
      /\ \A k \in gone : op[c].doc[k] = None
  BY <1>2, OpFields DEF OwnJobsOnly
<1>4. b \in Doc /\ b[j] = None /\ \A k \in Jobs \ {j} : b[k] = book[k]
  BY <1>3, SetJob DEF TypeOK
<1> HIDE DEF gone, b
<1>5. /\ o \in Op
      /\ \/ o = Idle /\ Ids(op[c].doc) = {}
         \/ /\ o.pc \in {"sweep", "upsert"}
            /\ o.todo = (IF o.pc = "sweep" THEN gone ELSE Ids(op[c].doc))
            /\ o.ids = op[c].ids /\ o.base = op[c].base /\ o.doc = op[c].doc
  BY <1>3, OpFields, SweepingShape
<1>6. Settle(c, b, o)
  BY <1>1 DEF b, gone
<1> HIDE DEF o
<1>7. /\ op' \in [Clients -> Op] /\ book' = b /\ op'[c] = o
      /\ clobbered \subseteq clobbered' /\ clobbered' \subseteq Jobs
      /\ \A e \in Clients \ {c} : SameSave(op[e], op'[e])
      /\ \A k \in Jobs : b[k] # book[k] /\ op[c].base[k] # book[k] => k \in clobbered'
  BY <1>4, <1>5, <1>6, SettleShape
<1>8. \A k \in Jobs : Unwritten(c, k)' <=> Unwritten(c, k)
  BY <1>2, <1>5, <1>7, IdleType DEF Unwritten, Ids
<1>9. o.pc = "sweep" => \A k \in o.todo : o.doc[k] = None
  BY <1>3, <1>5, IdleType
<1>10. o.pc \notin {"write", "overwrite"} /\ o # op[c] /\ op[c].pc # "idle"
  BY <1>1, <1>2, <1>5, IdleType DEF gone
<1>11. \A k \in Jobs : book'[k] # book[k] => k = j /\ book'[k] = None
  BY <1>4, <1>7
<1> QED
  BY <1>2, <1>3, <1>4, <1>5, <1>7, <1>8, <1>9, <1>10, <1>11 DEF SaveOf

LEMMA UpsertShape ==
  ASSUME TypeOK, OwnJobsOnly, NEW c \in Clients, Upsert(c)
  PROVE  SaveOf(c)
<1>1. PICK j \in op[c].todo :
        Settle(c, [book EXCEPT ![j] = op[c].doc[j]],
               IF op[c].todo = {j} THEN Idle ELSE [op[c] EXCEPT !.todo = @ \ {j}])
  BY DEF Upsert
<1> DEFINE o == IF op[c].todo = {j} THEN Idle ELSE [op[c] EXCEPT !.todo = @ \ {j}]
           b == [book EXCEPT ![j] = op[c].doc[j]]
<1>2. /\ UNCHANGED <<conf, now, tickVars, used, boundVars>>
      /\ torn' \in BOOLEAN /\ torn' = torn /\ op[c].pc = "upsert" /\ conf.cloud
  BY DEF Upsert, OwnJobsOnly, TypeOK
<1>3. j \in Jobs /\ op[c].doc[j] \in Job \cup {None}
  BY OpFields DEF Doc
<1>4. b \in Doc /\ b[j] = op[c].doc[j] /\ \A k \in Jobs \ {j} : b[k] = book[k]
  BY <1>3, SetJob DEF TypeOK
<1>5. /\ o \in Op
      /\ \/ o = Idle /\ op[c].todo = {j}
         \/ /\ o.pc = "upsert" /\ o.todo = op[c].todo \ {j}
            /\ o.ids = op[c].ids /\ o.base = op[c].base /\ o.doc = op[c].doc
  <2>1. op[c] \in Op
    BY OpFields
  <2>2. CASE op[c].todo = {j}
    BY <2>2, IdleType
  <2>3. CASE op[c].todo # {j}
    BY <1>2, <2>1, <2>3 DEF Op
  <2> QED
    BY <2>2, <2>3
<1>6. Settle(c, b, o)
  BY <1>1
<1> HIDE DEF o, b
<1>7. /\ op' \in [Clients -> Op] /\ book' = b /\ op'[c] = o
      /\ clobbered \subseteq clobbered' /\ clobbered' \subseteq Jobs
      /\ \A e \in Clients \ {c} : SameSave(op[e], op'[e])
      /\ \A k \in Jobs : b[k] # book[k] /\ op[c].base[k] # book[k] => k \in clobbered'
  BY <1>4, <1>5, <1>6, SettleShape
<1>8. \A k \in Jobs : Unwritten(c, k)' => Unwritten(c, k) /\ book'[k] = book[k]
  BY <1>2, <1>4, <1>5, <1>7, IdleType DEF Unwritten
<1>9. \A k \in Jobs : Unwritten(c, k) => Unwritten(c, k)' \/ book'[k] = op[c].doc[k]
  BY <1>2, <1>4, <1>5, <1>7, IdleType DEF Unwritten
<1>10. o.pc \notin {"write", "overwrite", "sweep"} /\ o # op[c] /\ op[c].pc # "idle"
  BY <1>1, <1>2, <1>5, IdleType
<1>11. ASSUME NEW k \in Jobs, book'[k] # book[k]
       PROVE  book'[k] = op[c].doc[k] /\ (book'[k] # None => Unwritten(c, k))
  BY <1>2, <1>4, <1>7, <1>11 DEF Unwritten
<1> QED
  BY <1>2, <1>4, <1>5, <1>7, <1>8, <1>9, <1>10, <1>11 DEF SaveOf

LEMMA SaveShape ==
  ASSUME TypeOK, OwnJobsOnly, NEW c \in Clients, Saving(c)
  PROVE  SaveOf(c)
BY TruncateShape, WriteShape, ListShape, SweepShape, UpsertShape DEF Saving

-----------------------------------------------------------------------------
(* The tick.                                                               *)

\* Days, in their order.
LEMMA DayType ==
  ASSUME NEW t \in Nat
  PROVE  Day(t) \in Nat
BY CronStoreAssumption DEF Day

LEMMA DayGrows ==
  ASSUME NEW s \in Nat, NEW t \in Nat, s <= t
  PROVE  Day(s) <= Day(t)
<1> DEFINE p == s \div DayLength
           q == t \div DayLength
<1>1. DayLength \in Nat \ {0}
  BY CronStoreAssumption
<1>2. /\ p \in Nat /\ q \in Nat
      /\ DayLength * p <= s /\ t < DayLength * (q + 1)
  BY <1>1
<1>3. ASSUME q < p PROVE FALSE
  <2>1. DayLength * (q + 1) <= DayLength * p
    <3>1. PICK m \in Nat : p = q + 1 + m
      <4>1. p - (q + 1) \in Nat /\ p = q + 1 + (p - (q + 1))
        BY <1>2, <1>3
      <4> QED
        BY <4>1
    <3>2. DayLength * p = DayLength * (q + 1) + DayLength * m
      BY <1>1, <1>2, <3>1
    <3>3. DayLength * m \in Nat /\ DayLength * (q + 1) \in Nat
      BY <1>1, <1>2, <3>1
    <3> QED
      BY <3>2, <3>3
  <2> QED
    BY <1>2, <2>1, <1>1
<1> QED
  BY <1>2, <1>3 DEF Day

\* The key of a job, and of what is due in a document.
LEMMA KeyType ==
  ASSUME TypeOK, NEW d \in Doc, NEW j \in Ids(d)
  PROVE  /\ KeyOf(d, j) \in Keys
         /\ KeyOf(d, j).job = j
         /\ KeyOf(d, j).repeat = d[j].plan.repeat
         /\ KeyOf(d, j).day = Day(now)
<1>1. j \in Jobs /\ d[j] \in Job
  BY DEF Ids, Doc
<1>2. d[j].plan.repeat \in {"daily", "once"} /\ d[j].plan.slot \in Nat
  BY <1>1, CronStoreAssumption DEF Job
<1>3. Day(now) \in Nat
  BY DayType DEF TypeOK
<1> QED
  BY <1>1, <1>2, <1>3 DEF KeyOf, Keys

LEMMA DueShape ==
  ASSUME TypeOK, NEW d \in Doc, NEW k \in DueKeys(d)
  PROVE  /\ k \in Keys
         /\ k.job \in Ids(d)
         /\ k = KeyOf(d, k.job)
         /\ k.day = Day(now)
         /\ Comes(d[k.job], Minute(read), Day(now))
         /\ ~ RanInPeriod(d[k.job], Day(now))
<1>1. PICK j \in Enabled(d) : /\ k = KeyOf(d, j)
                              /\ Comes(d[j], Minute(read), Day(now))
                              /\ ~ RanInPeriod(d[j], Day(now))
  BY DEF DueKeys
<1>2. j \in Ids(d)
  BY <1>1 DEF Enabled
<1>3. k \in Keys /\ k.job = j /\ k.day = Day(now)
  BY <1>1, <1>2, KeyType
<1> QED
  BY <1>1, <1>2, <1>3

\* A scan reads the store, claims what it hands out and may begin to save the repaired
\* document.
LEMMA ScanShape ==
  ASSUME TypeOK, Scan
  PROVE  \E d \in Doc : LET doc == IF conf.cloud THEN d ELSE Repaired(d) IN
           /\ d = (IF torn THEN Empty ELSE book)
           /\ doc \in Doc
           /\ batch' \subseteq DueKeys(doc) \ claimed
           /\ claimed' = IF conf.cloud THEN claimed \cup batch' ELSE claimed
           /\ faults' \in Nat /\ faults <= faults'
           /\ \/ op' = op
              \/ /\ ~ conf.cloud
                 /\ \E ids \in SUBSET Jobs : /\ \A j \in Jobs \ ids : doc[j] = d[j]
                                             /\ Begin(Scheduler, d, doc, ids)
<1> DEFINE d == IF torn THEN Empty ELSE book
           doc == IF conf.cloud THEN d ELSE Repaired(d)
           ids == {j \in Jobs : doc[j] # d[j]}
<1>1. d \in Doc
  BY EmptyType DEF TypeOK
<1>2. doc \in Doc
  BY <1>1, RepairedType
<1>3. /\ batch' \subseteq DueKeys(doc) \ claimed
      /\ claimed' = IF conf.cloud THEN claimed \cup batch' ELSE claimed
  BY DEF Scan
<1>4. faults' \in Nat /\ faults <= faults'
  BY DEF Scan, Fault, TypeOK
<1>5. op' = op \/ (doc # d /\ Begin(Scheduler, d, doc, ids))
  BY DEF Scan
<1>6. doc # d => ~ conf.cloud
  OBVIOUS
<1>7. ids \in SUBSET Jobs /\ \A j \in Jobs \ ids : doc[j] = d[j]
  OBVIOUS
<1> HIDE DEF ids
<1> QED
  BY <1>1, <1>2, <1>3, <1>4, <1>5, <1>6, <1>7

\* A mark begins to save the document it has loaded, with the job's stamp.
LEMMA MarkShape ==
  ASSUME TypeOK, Mark
  PROVE  /\ op[Scheduler].pc = "idle" /\ handed \in Jobs /\ handed' = None
         /\ \E d \in Doc : /\ Load(d)
                           /\ Marked(d, handed) \in Doc
                           /\ Begin(Scheduler, d, Marked(d, handed), {handed})
<1>1. PICK d \in {book, Empty} : Load(d) /\ Begin(Scheduler, d, Marked(d, handed), {handed})
  BY DEF Mark
<1>2. handed \in Jobs /\ now \in Nat
  BY DEF Mark, TypeOK
<1>3. d \in Doc
  BY <1>1, LoadShape
<1> QED
  BY <1>1, <1>2, <1>3, MarkedType DEF Mark

-----------------------------------------------------------------------------
(* Type correctness.                                                       *)

Basic == TypeOK /\ OwnJobsOnly

\* A new save is about the jobs it changes.
LEMMA BeginOwn ==
  ASSUME Basic, NEW c \in Clients, NEW d \in Doc, NEW new \in Doc, NEW ids \in SUBSET Jobs,
         Begin(c, d, new, ids), \A j \in Jobs \ ids : new[j] = d[j], conf' = conf
  PROVE  op' \in [Clients -> Op] /\ OwnJobsOnly'
<1>1. /\ op' \in [Clients -> Op]
      /\ op'[c].pc = "save" /\ op'[c].ids = ids /\ op'[c].base = d /\ op'[c].doc = new
      /\ \A e \in Clients \ {c} : op'[e] = op[e]
  BY BeginShape DEF Basic
<1> QED
  BY <1>1 DEF Basic, OwnJobsOnly

LEMMA BasicInit == Init => Basic
<1> SUFFICES ASSUME Init PROVE Basic
  OBVIOUS
<1>1. conf \in Setups /\ conf.from \in Nat /\ conf.book \in Doc
  BY CronStoreAssumption DEF Init
<1>2. TypeOK
  <2>1. op \in [Clients -> Op]
    BY IdleType DEF Init
  <2>2. used \in SUBSET Jobs
    BY DEF Init, Ids
  <2>3. /\ conf \in Setups /\ now \in Nat /\ book \in Doc /\ torn \in BOOLEAN
        /\ read \in Nat /\ looked \in BOOLEAN /\ batch \in SUBSET Keys
        /\ handed \in Jobs \cup {None} /\ claimed \in SUBSET Keys
        /\ clobbered \in SUBSET Jobs /\ edits \in Nat /\ faults \in Nat
    BY <1>1 DEF Init
  <2>4. fired \in Seq(Fires)
    BY DEF Init
  <2> QED
    BY <2>1, <2>2, <2>3, <2>4 DEF TypeOK
<1>3. OwnJobsOnly
  BY IdleType DEF Init, OwnJobsOnly
<1> QED
  BY <1>2, <1>3 DEF Basic

LEMMA BasicEditor ==
  ASSUME Basic, NEW c \in Editors, EditorStep(c)
  PROVE  Basic'
<1>1. TypeOK /\ c \in Clients
  BY DEF Basic, Clients
<1>2. edits' \in Nat /\ UNCHANGED <<conf, now, book, torn, clobbered, tickVars>>
  BY <1>1, EditShape
<1>3. PICK d \in Doc, new \in Doc, j \in Jobs : EditOf(c, d, new, j)
  BY <1>1, EditShape
<1>4. Begin(c, d, new, {j}) /\ (\A k \in Jobs \ {j} : new[k] = d[k]) /\ {j} \in SUBSET Jobs
  BY <1>3 DEF EditOf
<1>5. op' \in [Clients -> Op] /\ OwnJobsOnly'
  BY <1>1, <1>2, <1>4, BeginOwn
<1>6. used' \in SUBSET Jobs /\ faults' \in Nat
  BY <1>1, <1>3, LoadShape DEF EditOf, TypeOK
<1> QED
  BY <1>1, <1>2, <1>5, <1>6 DEF Basic, TypeOK, tickVars

LEMMA BasicSave ==
  ASSUME Basic, NEW c \in Clients, Saving(c)
  PROVE  Basic'
<1>1. SaveOf(c)
  BY SaveShape DEF Basic
<1>2. TypeOK'
  BY <1>1 DEF Basic, TypeOK, SaveOf, tickVars, boundVars
<1>3. conf' = conf /\ \A e \in Clients \ {c} : SameSave(op[e], op'[e])
  BY <1>1 DEF SaveOf
<1>4. /\ op'[c].pc = "sweep" => \A j \in op'[c].todo : op'[c].doc[j] = None
      /\ op'[c].pc \in {"sweep", "upsert"} => conf'.cloud
      /\ op'[c].pc \in {"write", "overwrite"} => ~ conf'.cloud
  BY <1>1, <1>3 DEF SaveOf
<1>5. \A j \in Jobs \ op'[c].ids : op'[c].doc[j] = op'[c].base[j]
  BY <1>1, IdleType DEF SaveOf, Basic, OwnJobsOnly
<1>6. ASSUME NEW e \in Clients \ {c}
      PROVE  /\ \A j \in Jobs \ op'[e].ids : op'[e].doc[j] = op'[e].base[j]
             /\ op'[e].pc = "sweep" => \A j \in op'[e].todo : op'[e].doc[j] = None
             /\ op'[e].pc \in {"sweep", "upsert"} => conf'.cloud
             /\ op'[e].pc \in {"write", "overwrite"} => ~ conf'.cloud
  <2>1. SameSave(op[e], op'[e])
    BY <1>3
  <2> QED
    BY <1>3, <2>1 DEF SameSave, Basic, OwnJobsOnly
<1>7. OwnJobsOnly'
  BY <1>4, <1>5, <1>6 DEF OwnJobsOnly
<1> QED
  BY <1>2, <1>7 DEF Basic

LEMMA BasicStop ==
  ASSUME Basic, NEW c \in Clients, op' = [op EXCEPT ![c] = Idle], conf' = conf
  PROVE  op' \in [Clients -> Op] /\ OwnJobsOnly'
<1>1. op' \in [Clients -> Op] /\ op'[c] = Idle /\ \A e \in Clients \ {c} : op'[e] = op[e]
  BY IdleType, OpStep DEF Basic
<1> QED
  BY <1>1, IdleType DEF Basic, OwnJobsOnly

LEMMA BasicTick ==
  ASSUME Basic, SchedulerStep \/ Restart \/ Pass
  PROVE  Basic'
<1>1. TypeOK /\ Scheduler \in Clients
  BY DEF Basic, Clients
<1>2. CASE LookAtClock
  BY <1>1, <1>2 DEF LookAtClock, Basic, TypeOK, OwnJobsOnly, docVars, boundVars
<1>3. CASE Scan
  <2>1. PICK d \in Doc : LET doc == IF conf.cloud THEN d ELSE Repaired(d) IN
           /\ doc \in Doc
           /\ batch' \subseteq DueKeys(doc) \ claimed
           /\ claimed' = IF conf.cloud THEN claimed \cup batch' ELSE claimed
           /\ faults' \in Nat
           /\ \/ op' = op
              \/ /\ ~ conf.cloud
                 /\ \E ids \in SUBSET Jobs : /\ \A j \in Jobs \ ids : doc[j] = d[j]
                                             /\ Begin(Scheduler, d, doc, ids)
    BY <1>1, <1>3, ScanShape
  <2> DEFINE doc == IF conf.cloud THEN d ELSE Repaired(d)
  <2>2. /\ doc \in Doc /\ batch' \subseteq DueKeys(doc) \ claimed /\ faults' \in Nat
        /\ claimed' = IF conf.cloud THEN claimed \cup batch' ELSE claimed
    BY <2>1
  <2>3. \/ op' = op
        \/ \E ids \in SUBSET Jobs : /\ \A j \in Jobs \ ids : doc[j] = d[j]
                                    /\ Begin(Scheduler, d, doc, ids)
    BY <2>1
  <2> HIDE DEF doc
  <2>4. DueKeys(doc) \subseteq Keys
    BY <1>1, <2>2, DueShape
  <2>5. conf' = conf
    BY <1>3 DEF Scan
  <2>6. op' \in [Clients -> Op] /\ OwnJobsOnly'
    <3>1. CASE op' = op
      BY <2>5, <3>1 DEF Basic, TypeOK, OwnJobsOnly
    <3>2. CASE op' # op
      BY <1>1, <2>2, <2>3, <2>5, <3>2, BeginOwn
    <3> QED
      BY <3>1, <3>2
  <2>7. /\ UNCHANGED <<conf, now, book, torn, clobbered, read, handed, fired, used, edits>>
        /\ looked' = FALSE
    BY <1>3 DEF Scan
  <2> QED
    BY <1>1, <2>2, <2>4, <2>6, <2>7 DEF Basic, TypeOK
<1>4. CASE HandOver
  <2>1. PICK k \in batch : /\ batch' = batch \ {k}
                           /\ handed' = k.job
                           /\ fired' = Append(fired, [key |-> k, at |-> now, read |-> read])
    BY <1>4 DEF HandOver
  <2>2. k \in Keys /\ now \in Nat /\ read \in Nat /\ k.job \in Jobs
    BY <1>1 DEF TypeOK, Keys
  <2>3. [key |-> k, at |-> now, read |-> read] \in Fires
    BY <2>2 DEF Fires
  <2>4. fired' \in Seq(Fires)
    BY <1>1, <2>1, <2>3 DEF TypeOK
  <2>5. UNCHANGED <<conf, now, docVars, read, looked, claimed, used, boundVars>>
    BY <1>4 DEF HandOver
  <2>6. batch' \in SUBSET Keys
    BY <1>1, <2>1 DEF TypeOK
  <2> QED
    BY <1>1, <2>1, <2>2, <2>4, <2>5, <2>6 DEF Basic, TypeOK, OwnJobsOnly, docVars, boundVars
<1>5. CASE Mark
  <2>1. PICK d \in Doc : /\ Load(d)
                         /\ Marked(d, handed) \in Doc
                         /\ Begin(Scheduler, d, Marked(d, handed), {handed})
    BY <1>1, <1>5, MarkShape
  <2>2. handed \in Jobs /\ handed' = None /\ now \in Nat
    BY <1>1, <1>5, MarkShape DEF TypeOK
  <2>3. \A j \in Jobs \ {handed} : Marked(d, handed)[j] = d[j]
    BY <2>2, MarkedType
  <2>4. conf' = conf
    BY <1>5 DEF Mark
  <2>5. op' \in [Clients -> Op] /\ OwnJobsOnly'
    BY <1>1, <2>1, <2>2, <2>3, <2>4, BeginOwn
  <2>6. faults' \in Nat
    BY <1>1, <2>1, LoadShape
  <2>7. UNCHANGED <<conf, now, book, torn, clobbered, read, looked, batch, claimed, fired,
                    used, edits>>
    BY <1>5 DEF Mark
  <2> QED
    BY <1>1, <2>2, <2>5, <2>6, <2>7 DEF Basic, TypeOK
<1>6. CASE Restart
  <2>1. op' \in [Clients -> Op] /\ OwnJobsOnly'
    BY <1>1, <1>6, BasicStop DEF Restart
  <2>2. faults' \in Nat
    BY <1>1, <1>6 DEF Restart, Fault, TypeOK
  <2> QED
    BY <1>1, <1>6, <2>1, <2>2 DEF Restart, Basic, TypeOK
<1>7. CASE Pass
  BY <1>1, <1>7 DEF Pass, Basic, TypeOK, OwnJobsOnly, docVars, tickVars, boundVars
<1> QED
  BY <1>2, <1>3, <1>4, <1>5, <1>6, <1>7 DEF SchedulerStep

LEMMA BasicStep == Basic /\ [Next]_vars => Basic'
<1> SUFFICES ASSUME Basic, [Next]_vars PROVE Basic'
  OBVIOUS
<1>1. ASSUME NEW c \in Editors, EditorStep(c) PROVE Basic'
  BY <1>1, BasicEditor
<1>2. ASSUME NEW c \in Clients, Saving(c) PROVE Basic'
  BY <1>2, BasicSave
<1>3. ASSUME NEW c \in Clients, Fail(c) PROVE Basic'
  <2>1. op' \in [Clients -> Op] /\ OwnJobsOnly'
    BY <1>3, BasicStop DEF Fail
  <2>2. faults' \in Nat
    BY <1>3 DEF Fail, Fault, Basic, TypeOK
  <2> QED
    BY <1>3, <2>1, <2>2 DEF Fail, Basic, TypeOK, tickVars
<1>4. CASE SchedulerStep \/ Restart \/ Pass
  BY <1>4, BasicTick
<1>5. CASE UNCHANGED vars
  BY <1>5 DEF vars, docVars, tickVars, boundVars, Basic, TypeOK, OwnJobsOnly
<1> QED
  BY <1>1, <1>2, <1>3, <1>4, <1>5 DEF Next

LEMMA BasicHolds == Spec => []Basic
<1>1. Init => Basic
  BY BasicInit
<1>2. Basic /\ [Next]_vars => Basic'
  BY BasicStep
<1> QED
  BY <1>1, <1>2, PTL DEF Spec

\* The job document, the saves of its writers and the tick keep their types.
THEOREM TypeCorrect == Spec => []TypeOK
<1>1. Basic => TypeOK
  BY DEF Basic
<1> QED
  BY <1>1, BasicHolds, PTL

-----------------------------------------------------------------------------
(* Other jobs, and the limit.                                              *)

\* Nobody but a save touches the store.
LEMMA BookStep ==
  ASSUME Basic, [Next]_vars
  PROVE  \/ book' = book
         \/ \E c \in Clients : SaveOf(c)
<1>1. ASSUME NEW c \in Editors, EditorStep(c) PROVE book' = book
  <2>1. TypeOK
    BY DEF Basic
  <2> QED
    BY <1>1, <2>1, EditShape
<1>2. ASSUME NEW c \in Clients, Saving(c) PROVE SaveOf(c)
  BY <1>2, SaveShape DEF Basic
<1>3. ASSUME NEW c \in Clients, Fail(c) PROVE book' = book
  BY <1>3 DEF Fail
<1>4. CASE SchedulerStep \/ Restart \/ Pass
  BY <1>4 DEF SchedulerStep, LookAtClock, Scan, HandOver, Mark, Restart, Pass, docVars
<1>5. CASE UNCHANGED vars
  BY <1>5 DEF vars, docVars
<1> QED
  BY <1>1, <1>2, <1>3, <1>4, <1>5 DEF Next

\* A save changes another job than its own only when it had loaded that job in another
\* state: the documents go back whole, so a stale one takes the others with it.
THEOREM OthersKept == Spec => OthersAreKept
<1>1. Basic /\ [Next]_vars =>
        [\A j \in Jobs : book'[j] # book[j] =>
           \E c \in Clients : /\ op'[c] # op[c]
                              /\ j \in op[c].ids \/ op[c].base[j] # book[j]]_vars
  <2> SUFFICES ASSUME Basic, [Next]_vars, NEW j \in Jobs, book'[j] # book[j]
               PROVE  \E c \in Clients : /\ op'[c] # op[c]
                                         /\ j \in op[c].ids \/ op[c].base[j] # book[j]
    OBVIOUS
  <2>1. PICK c \in Clients : SaveOf(c)
    BY BookStep
  <2>2. op'[c] # op[c] /\ book'[j] = op[c].doc[j]
    BY <2>1 DEF SaveOf
  <2>3. j \notin op[c].ids => op[c].doc[j] = op[c].base[j]
    BY DEF Basic, OwnJobsOnly
  <2> QED
    BY <2>2, <2>3
<1> QED
  BY <1>1, BasicHolds, PTL DEF Spec, OthersAreKept

\* How many jobs a document enables.
LEMMA FewerEnabled ==
  ASSUME NEW d, NEW e, Enabled(d) \subseteq Enabled(e)
  PROVE  ~ Overfull(e) => ~ Overfull(d)
<1>1. IsFiniteSet(Enabled(e))
  BY CronStoreAssumption, FS_Subset DEF Enabled, Ids
<1>2. /\ Cardinality(Enabled(d)) \in Nat /\ Cardinality(Enabled(e)) \in Nat
      /\ Cardinality(Enabled(d)) <= Cardinality(Enabled(e))
  BY <1>1, FS_Subset, FS_CardinalityType
<1>3. MaxEnabled \in Nat
  BY CronStoreAssumption
<1> QED
  BY <1>2, <1>3 DEF Overfull

LEMMA OneMoreEnabled ==
  ASSUME NEW d \in Doc, NEW new \in Doc, NEW j \in Jobs, HasRoom(d),
         \A k \in Jobs \ {j} : new[k] = d[k]
  PROVE  ~ Overfull(new)
<1>1. IsFiniteSet(Enabled(d))
  BY CronStoreAssumption, FS_Subset DEF Enabled, Ids
<1>2. /\ IsFiniteSet(Enabled(d) \cup {j})
      /\ Cardinality(Enabled(d) \cup {j}) <= Cardinality(Enabled(d)) + 1
      /\ Cardinality(Enabled(d)) \in Nat
  <2> DEFINE S == Enabled(d)
  <2> HIDE DEF S
  <2>1. IsFiniteSet(S)
    BY <1>1 DEF S
  <2>2. Cardinality(S) \in Nat
    BY <2>1, FS_CardinalityType
  <2>3. /\ IsFiniteSet(S \cup {j})
        /\ Cardinality(S \cup {j}) = (IF j \in S THEN Cardinality(S) ELSE Cardinality(S) + 1)
    BY <2>1, FS_AddElement
  <2> QED
    BY <2>2, <2>3 DEF S
<1>3. Enabled(new) \subseteq Enabled(d) \cup {j}
  BY DEF Enabled, Ids
<1>4. /\ Cardinality(Enabled(new)) \in Nat
      /\ Cardinality(Enabled(d) \cup {j}) \in Nat
      /\ Cardinality(Enabled(new)) <= Cardinality(Enabled(d) \cup {j})
  BY <1>2, <1>3, FS_Subset, FS_CardinalityType
<1>5. MaxEnabled \in Nat
  BY CronStoreAssumption
<1> QED
  BY <1>2, <1>4, <1>5 DEF HasRoom, Overfull

LEMMA EmptyFits == ~ Overfull(Empty)
<1>1. Enabled(Empty) = {}
  BY EmptyType DEF Enabled
<1>2. Cardinality({}) = 0 /\ MaxEnabled \in Nat
  BY CronStoreAssumption, FS_EmptySet
<1> QED
  BY <1>1, <1>2 DEF Overfull

\* A client that takes to a document that fits.
LEMMA FitStep ==
  ASSUME DocsFit, NEW c \in Clients, ~ Overfull(op'[c].doc),
         \A e \in Clients \ {c} : op'[e].doc = op[e].doc, book' = book, conf' = conf
  PROVE  DocsFit'
<1>1. ASSUME NEW e \in Clients, ~ conf.cloud, ~ conf.admin PROVE ~ Overfull(op'[e].doc)
  BY <1>1 DEF DocsFit
<1> QED
  BY <1>1 DEF DocsFit, Overfull, Enabled, Ids

LEMMA FitBegin ==
  ASSUME Basic, DocsFit, NEW c \in Clients, NEW d \in Doc, NEW new \in Doc,
         NEW ids \in SUBSET Jobs, Begin(c, d, new, ids), ~ Overfull(new),
         book' = book, conf' = conf
  PROVE  DocsFit'
<1>1. op'[c].doc = new /\ \A e \in Clients \ {c} : op'[e].doc = op[e].doc
  BY BeginShape DEF Basic
<1> QED
  BY <1>1, FitStep

LEMMA LoadFits ==
  ASSUME Basic, DocsFit, ~ conf.cloud, ~ conf.admin, NEW d, Load(d)
  PROVE  ~ Overfull(d)
<1>1. d = book \/ d = Empty
  BY LoadShape DEF Basic
<1> QED
  BY <1>1, EmptyFits DEF DocsFit

LEMMA FitsInit == Init => DocsFit
<1> SUFFICES ASSUME Init, ~ conf.cloud, ~ conf.admin
             PROVE  ~ Overfull(book) /\ \A c \in Clients : ~ Overfull(op[c].doc)
  BY DEF DocsFit
<1>1. conf \in Setups /\ book = conf.book
  BY DEF Init
<1>2. Cardinality(Enabled(book)) <= MaxEnabled
  BY <1>1, CronStoreAssumption
<1>3. IsFiniteSet(Enabled(book))
  BY CronStoreAssumption, FS_Subset DEF Enabled, Ids
<1>4. Cardinality(Enabled(book)) \in Nat /\ MaxEnabled \in Nat
  BY <1>3, CronStoreAssumption, FS_CardinalityType
<1>5. ~ Overfull(book)
  BY <1>2, <1>4 DEF Overfull
<1>6. \A c \in Clients : op[c].doc = Empty
  BY IdleType DEF Init
<1> QED
  BY <1>5, <1>6, EmptyFits

LEMMA FitsEditor ==
  ASSUME Basic, DocsFit, NEW c \in Editors, EditorStep(c)
  PROVE  DocsFit'
<1>1. TypeOK /\ c \in Clients
  BY DEF Basic, Clients
<1>2. conf' = conf /\ book' = book
  BY <1>1, EditShape
<1>3. CASE conf.cloud \/ conf.admin
  BY <1>2, <1>3 DEF DocsFit
<1>4. CASE ~ conf.cloud /\ ~ conf.admin
  <2>1. PICK d \in Doc, new \in Doc, j \in Jobs : EditOf(c, d, new, j)
    BY <1>1, EditShape
  <2>2. /\ Load(d) /\ Begin(c, d, new, {j}) /\ {j} \in SUBSET Jobs
        /\ \A k \in Jobs \ {j} : new[k] = d[k]
        /\ ~ Overfull(new) \/ HasRoom(d) \/ Enabled(new) \subseteq Enabled(d)
    BY <1>4, <2>1 DEF EditOf
  <2>3. ~ Overfull(new)
    <3>1. CASE HasRoom(d)
      BY <2>2, <3>1, OneMoreEnabled
    <3>2. CASE Enabled(new) \subseteq Enabled(d)
      BY <1>4, <2>2, <3>2, LoadFits, FewerEnabled
    <3> QED
      BY <2>2, <3>1, <3>2
  <2> QED
    BY <1>1, <1>2, <2>2, <2>3, FitBegin
<1> QED
  BY <1>3, <1>4

LEMMA FitsStep == Basic /\ DocsFit /\ [Next]_vars => DocsFit'
<1> SUFFICES ASSUME Basic, DocsFit, [Next]_vars PROVE DocsFit'
  OBVIOUS
<1>0. TypeOK /\ Scheduler \in Clients
  BY DEF Basic, Clients
<1>1. ASSUME NEW c \in Editors, EditorStep(c) PROVE DocsFit'
  BY <1>1, FitsEditor
<1>2. ASSUME NEW c \in Clients, Saving(c) PROVE DocsFit'
  <2>1. SaveOf(c)
    BY <1>2, SaveShape DEF Basic
  <2>2. /\ conf' = conf
        /\ ~ conf.cloud => book' \in {book, op[c].doc}
        /\ \A e \in Clients \ {c} : op'[e].doc = op[e].doc
        /\ op'[c] = Idle \/ op'[c].doc = op[c].doc
    BY <2>1 DEF SaveOf, SameSave
  <2> SUFFICES ASSUME ~ conf.cloud, ~ conf.admin
               PROVE  ~ Overfull(book') /\ \A e \in Clients : ~ Overfull(op'[e].doc)
    BY <2>2 DEF DocsFit, Overfull, Enabled, Ids
  <2>3. ~ Overfull(book')
    BY <2>2 DEF DocsFit
  <2>4. ASSUME NEW e \in Clients PROVE ~ Overfull(op'[e].doc)
    <3>1. op'[e].doc = op[e].doc \/ op'[e].doc = Empty
      BY <2>2, IdleType
    <3> QED
      BY <3>1, EmptyFits DEF DocsFit
  <2> QED
    BY <2>3, <2>4
<1>3. ASSUME NEW c \in Clients, op' = [op EXCEPT ![c] = Idle], conf' = conf, book' = book
      PROVE  DocsFit'
  <2>1. op'[c].doc = Empty /\ \A e \in Clients \ {c} : op'[e].doc = op[e].doc
    BY <1>0, <1>3, IdleType, OpStep
  <2> QED
    BY <1>3, <2>1, EmptyFits, FitStep
<1>4. CASE Scan
  <2>1. conf' = conf /\ book' = book
    BY <1>4 DEF Scan
  <2>2. PICK d \in Doc : LET doc == IF conf.cloud THEN d ELSE Repaired(d) IN
           /\ d = (IF torn THEN Empty ELSE book)
           /\ doc \in Doc
           /\ \/ op' = op
              \/ /\ ~ conf.cloud
                 /\ \E ids \in SUBSET Jobs : Begin(Scheduler, d, doc, ids)
    BY <1>0, <1>4, ScanShape
  <2>3. CASE op' = op
    BY <2>1, <2>3 DEF DocsFit, Overfull, Enabled, Ids
  <2>4. CASE op' # op
    <3>1. PICK ids \in SUBSET Jobs : Begin(Scheduler, d, Repaired(d), ids)
      BY <2>2, <2>4
    <3>2. ~ conf.cloud /\ Repaired(d) \in Doc
      BY <2>2, <2>4
    <3>3. CASE conf.admin
      BY <2>1, <3>3 DEF DocsFit
    <3>4. CASE ~ conf.admin
      <4>1. ~ Overfull(d)
        BY <2>2, <3>2, <3>4, EmptyFits DEF DocsFit
      <4>2. Enabled(Repaired(d)) \subseteq Enabled(d)
        BY RepairedType DEF Enabled
      <4> QED
        BY <1>0, <2>1, <3>1, <3>2, <4>1, <4>2, FewerEnabled, FitBegin
    <3> QED
      BY <3>3, <3>4
  <2> QED
    BY <2>3, <2>4
<1>5. CASE Mark
  <2>1. conf' = conf /\ book' = book
    BY <1>5 DEF Mark
  <2>2. PICK d \in Doc : /\ Load(d)
                         /\ Marked(d, handed) \in Doc
                         /\ Begin(Scheduler, d, Marked(d, handed), {handed})
    BY <1>0, <1>5, MarkShape
  <2>3. handed \in Jobs /\ now \in Nat
    BY <1>0, <1>5, MarkShape DEF TypeOK
  <2>4. CASE conf.cloud \/ conf.admin
    BY <2>1, <2>4 DEF DocsFit
  <2>5. CASE ~ conf.cloud /\ ~ conf.admin
    <3>1. ~ Overfull(d)
      BY <2>2, <2>5, LoadFits
    <3>2. Enabled(Marked(d, handed)) \subseteq Enabled(d)
      <4> SUFFICES ASSUME NEW k \in Enabled(Marked(d, handed)) PROVE k \in Enabled(d)
        OBVIOUS
      <4>1. k \in Jobs /\ Marked(d, handed)[k] # None /\ Marked(d, handed)[k].enabled
        BY DEF Enabled, Ids
      <4>2. CASE k = handed
        BY <2>3, <4>1, <4>2, MarkedType DEF Enabled, Ids
      <4>3. CASE k # handed
        BY <2>3, <4>1, <4>3, MarkedType DEF Enabled, Ids
      <4> QED
        BY <4>2, <4>3
    <3> QED
      BY <1>0, <2>1, <2>2, <2>3, <3>1, <3>2, FewerEnabled, FitBegin
  <2> QED
    BY <2>4, <2>5
<1>6. ASSUME op' = op, conf' = conf, book' = book PROVE DocsFit'
  BY <1>6 DEF DocsFit, Overfull, Enabled, Ids
<1>7. CASE LookAtClock \/ HandOver \/ Pass
  BY <1>6, <1>7 DEF LookAtClock, HandOver, Pass, docVars
<1>8. ASSUME NEW c \in Clients, Fail(c) PROVE DocsFit'
  BY <1>3, <1>8 DEF Fail
<1>9. CASE Restart
  BY <1>0, <1>3, <1>9 DEF Restart
<1>10. CASE UNCHANGED vars
  BY <1>6, <1>10 DEF vars, docVars
<1> QED
  BY <1>1, <1>2, <1>4, <1>5, <1>7, <1>8, <1>9, <1>10 DEF Next, SchedulerStep

\* On files the limit of enabled jobs is kept under every overlap of loads and saves:
\* whole documents go back, and each of them was checked as a whole.
THEOREM LimitHolds == Spec => []LimitKept
<1>1. Init => DocsFit
  BY FitsInit
<1>2. Basic /\ DocsFit /\ [Next]_vars => DocsFit'
  BY FitsStep
<1>3. DocsFit => LimitKept
  BY DEF DocsFit, LimitKept
<1> QED
  BY <1>1, <1>2, <1>3, BasicHolds, PTL DEF Spec

-----------------------------------------------------------------------------
(* Early runs.                                                             *)

\* What a tick has found had come by the minute it read, of its own or of an earlier day.
FoundInTime ==
  /\ read <= now
  /\ \A k \in batch : k.slot <= Minute(read) /\ Day(read) <= k.day

\* A minute of a day.
LEMMA DaySplits ==
  ASSUME NEW t \in Nat
  PROVE  /\ Day(t) \in Nat /\ Minute(t) \in Nat
         /\ t = Day(t) * DayLength + Minute(t)
BY CronStoreAssumption DEF Day, Minute

LEMMA EarlyInit == Init => FoundInTime /\ EarlyOnlyOverMidnight
<1> SUFFICES ASSUME Init PROVE FoundInTime /\ EarlyOnlyOverMidnight
  OBVIOUS
<1>1. conf.from \in Nat
  BY CronStoreAssumption DEF Init
<1> QED
  BY <1>1 DEF Init, FoundInTime, EarlyOnlyOverMidnight

LEMMA EarlyScan ==
  ASSUME Basic, FoundInTime, Scan
  PROVE  \A k \in batch' : k.slot <= Minute(read) /\ Day(read) <= k.day
<1>1. TypeOK
  BY DEF Basic
<1>2. PICK d \in Doc : LET doc == IF conf.cloud THEN d ELSE Repaired(d) IN
         doc \in Doc /\ batch' \subseteq DueKeys(doc) \ claimed
  BY <1>1, ScanShape
<1> DEFINE doc == IF conf.cloud THEN d ELSE Repaired(d)
<1>3. doc \in Doc /\ batch' \subseteq DueKeys(doc)
  BY <1>2
<1> HIDE DEF doc
<1> SUFFICES ASSUME NEW k \in batch' PROVE k.slot <= Minute(read) /\ Day(read) <= k.day
  OBVIOUS
<1>4. k = KeyOf(doc, k.job) /\ k.day = Day(now) /\ Comes(doc[k.job], Minute(read), Day(now))
  BY <1>1, <1>3, DueShape
<1>5. k.slot = doc[k.job].plan.slot
  BY <1>4 DEF KeyOf
<1>6. k.slot <= Minute(read)
  BY <1>4, <1>5 DEF Comes
<1>7. Day(read) <= Day(now)
  BY <1>1, DayGrows DEF TypeOK, FoundInTime
<1> QED
  BY <1>4, <1>6, <1>7

LEMMA EarlyStep ==
  Basic /\ FoundInTime /\ EarlyOnlyOverMidnight /\ [Next]_vars
    => FoundInTime' /\ EarlyOnlyOverMidnight'
<1> SUFFICES ASSUME Basic, FoundInTime, EarlyOnlyOverMidnight, [Next]_vars
             PROVE  FoundInTime' /\ EarlyOnlyOverMidnight'
  OBVIOUS
<1>1. TypeOK
  BY DEF Basic
<1>2. ASSUME now' \in Nat, now <= now', read' = read, batch' \subseteq batch, fired' = fired
      PROVE  FoundInTime' /\ EarlyOnlyOverMidnight'
  <2>1. FoundInTime'
    BY <1>1, <1>2 DEF FoundInTime, TypeOK, Minute, Day
  <2>2. EarlyOnlyOverMidnight'
    BY <1>2 DEF EarlyOnlyOverMidnight, Day
  <2> QED
    BY <2>1, <2>2
<1>3. ASSUME NEW c \in Editors, EditorStep(c) PROVE FoundInTime' /\ EarlyOnlyOverMidnight'
  <2>1. UNCHANGED <<now, tickVars>>
    BY <1>1, <1>3, EditShape
  <2> QED
    BY <1>1, <1>2, <2>1 DEF tickVars, TypeOK
<1>4. ASSUME NEW c \in Clients, Saving(c) PROVE FoundInTime' /\ EarlyOnlyOverMidnight'
  <2>1. SaveOf(c)
    BY <1>4, SaveShape DEF Basic
  <2> QED
    BY <1>1, <1>2, <2>1 DEF SaveOf, tickVars, TypeOK
<1>5. ASSUME NEW c \in Clients, Fail(c) PROVE FoundInTime' /\ EarlyOnlyOverMidnight'
  BY <1>1, <1>2, <1>5 DEF Fail, tickVars, TypeOK
<1>6. CASE LookAtClock
  <2>1. read' = now /\ now' = now /\ batch = {} /\ batch' = batch /\ fired' = fired
    BY <1>6 DEF LookAtClock, TickIsOver
  <2>2. FoundInTime'
    BY <1>1, <2>1 DEF FoundInTime, TypeOK
  <2>3. EarlyOnlyOverMidnight'
    BY <2>1 DEF EarlyOnlyOverMidnight, Day
  <2> QED
    BY <2>2, <2>3
<1>7. CASE Scan
  <2>1. read' = read /\ now' = now /\ fired' = fired
    BY <1>7 DEF Scan
  <2>2. \A k \in batch' : k.slot <= Minute(read) /\ Day(read) <= k.day
    BY <1>7, EarlyScan
  <2>3. FoundInTime'
    BY <2>1, <2>2 DEF FoundInTime, Minute, Day
  <2>4. EarlyOnlyOverMidnight'
    BY <2>1 DEF EarlyOnlyOverMidnight, Day
  <2> QED
    BY <2>3, <2>4
<1>8. CASE HandOver
  <2>1. PICK k \in batch : /\ batch' = batch \ {k}
                           /\ fired' = Append(fired, [key |-> k, at |-> now, read |-> read])
    BY <1>8 DEF HandOver
  <2>2. read' = read /\ now' = now
    BY <1>8 DEF HandOver
  <2>3. FoundInTime'
    BY <2>1, <2>2 DEF FoundInTime, Minute, Day
  <2> DEFINE f == [key |-> k, at |-> now, read |-> read]
  <2>4. f.key = k /\ f.at = now /\ f.read = read
    OBVIOUS
  <2>5. k \in Keys /\ k.day \in Nat /\ k.slot \in Nat /\ now \in Nat /\ read \in Nat
    BY <1>1 DEF TypeOK, Keys
  <2>6. f \in Fires
    BY <2>5 DEF Fires
  <2>7. fired' = Append(fired, f)
    BY <2>1
  <2> HIDE DEF f
  <2>8. /\ fired \in Seq(Fires)
        /\ DOMAIN fired' = 1 .. Len(fired) + 1
        /\ DOMAIN fired = 1 .. Len(fired)
        /\ \A n \in DOMAIN fired : fired'[n] = fired[n]
        /\ fired'[Len(fired) + 1] = f
    BY <1>1, <2>6, <2>7 DEF TypeOK
  <2>9. now < k.day * DayLength + k.slot => Day(read) < k.day
    <3>1. k.slot <= Minute(read) /\ Day(read) <= k.day /\ read <= now
      BY DEF FoundInTime
    <3>2. read = Day(read) * DayLength + Minute(read) /\ Day(read) \in Nat /\ Minute(read) \in Nat
      BY <2>5, DaySplits
    <3>3. CASE Day(read) = k.day
      <4>1. read = k.day * DayLength + Minute(read)
        BY <3>2, <3>3
      <4>2. k.day * DayLength \in Nat
        BY <2>5, CronStoreAssumption
      <4> QED
        BY <2>5, <3>1, <3>2, <4>1, <4>2
    <3> QED
      BY <2>5, <3>1, <3>2, <3>3
  <2>10. ASSUME NEW n \in DOMAIN fired'
         PROVE  fired'[n].at < fired'[n].key.day * DayLength + fired'[n].key.slot
                  => Day(fired'[n].read) < fired'[n].key.day
    <3>1. CASE n \in DOMAIN fired
      BY <2>8, <3>1 DEF EarlyOnlyOverMidnight
    <3>2. CASE n = Len(fired) + 1
      BY <2>4, <2>8, <2>9, <3>2
    <3> QED
      BY <2>8, <3>1, <3>2
  <2>11. EarlyOnlyOverMidnight'
    BY <2>10 DEF EarlyOnlyOverMidnight, Day
  <2> QED
    BY <2>3, <2>11
<1>9. CASE Mark
  BY <1>1, <1>2, <1>9 DEF Mark, TypeOK
<1>10. CASE Restart
  BY <1>1, <1>2, <1>10 DEF Restart, TypeOK
<1>11. CASE Pass
  BY <1>1, <1>2, <1>11 DEF Pass, tickVars, TypeOK
<1>12. CASE UNCHANGED vars
  BY <1>1, <1>2, <1>12 DEF vars, tickVars, TypeOK
<1> QED
  BY <1>3, <1>4, <1>5, <1>6, <1>7, <1>8, <1>9, <1>10, <1>11, <1>12 DEF Next, SchedulerStep

\* Only a tick that reads the minute before midnight and the date after it runs a job
\* before the minute of its slot.
THEOREM EarlyRuns == Spec => []EarlyOnlyOverMidnight
<1>1. Init => FoundInTime /\ EarlyOnlyOverMidnight
  BY EarlyInit
<1>2. Basic /\ FoundInTime /\ EarlyOnlyOverMidnight /\ [Next]_vars
        => FoundInTime' /\ EarlyOnlyOverMidnight'
  BY EarlyStep
<1> QED
  BY <1>1, <1>2, BasicHolds, PTL DEF Spec

-----------------------------------------------------------------------------
(* Runs of one period.                                                     *)

\* The parts of a hand-over's record, and of a slot.
LEMMA FiredType ==
  ASSUME TypeOK, NEW n \in DOMAIN fired
  PROVE  /\ fired[n].key \in Keys
         /\ fired[n].key.job \in Jobs
         /\ fired[n].key.day \in Nat
<1>1. fired[n] \in Fires
  BY DEF TypeOK
<1> QED
  BY <1>1 DEF Fires, Keys

LEMMA KeyParts ==
  ASSUME NEW k \in Keys
  PROVE  k.job \in Jobs /\ k.day \in Nat /\ k.slot \in Nat
BY DEF Keys

\* The record of a job a document holds.
LEMMA RecordOf ==
  ASSUME NEW d \in Doc, NEW j \in Ids(d)
  PROVE  j \in Jobs /\ d[j] \in Job /\ d[j] # None /\ d[j].ran \in Int /\ d[j].ran >= Never
BY DEF Doc, Ids, Job, Never

LEMMA FireInit == Init => FireInv
<1> SUFFICES ASSUME Init PROVE FireInv
  OBVIOUS
<1>1. /\ conf \in Setups /\ book = conf.book /\ now = conf.from /\ faults = 0
      /\ used = Ids(book) /\ torn = FALSE /\ looked = FALSE /\ batch = {}
      /\ handed = None /\ fired = <<>> /\ DOMAIN fired = {}
  BY DEF Init
<1>2. ASSUME NEW c \in Clients
      PROVE  /\ op[c].pc = "idle" /\ op[c].base = Empty /\ op[c].doc = Empty
             /\ Ids(op[c].base) = {} /\ Ids(op[c].doc) = {}
  BY IdleType, EmptyType DEF Init
<1>3. \A j \in Ids(book) : book[j].ran <= now
  BY <1>1, CronStoreAssumption
<1>4. StampsPast
  BY <1>2, <1>3 DEF StampsPast, InThePast
<1>5. IdsUsed
  BY <1>1, <1>2 DEF IdsUsed
<1>6. NewJobsUnknown
  BY <1>2 DEF NewJobsUnknown, Unwritten
<1>7. FiresPast /\ FilesTear /\ OneTick /\ FiredIsMarked /\ BatchIsNew /\ ClaimsKept /\ FiresOnce
  BY <1>1 DEF FiresPast, FilesTear, OneTick, FiredIsMarked, BatchIsNew, ClaimsKept, FiresOnce
<1> QED
  BY <1>4, <1>5, <1>6, <1>7 DEF FireInv

\* Steps that neither change the store nor hand anything over: at most a save is lost.
LEMMA FireQuiet ==
  ASSUME Basic, FireInv,
         conf' = conf, book' = book, torn' = torn, clobbered' = clobbered, used' = used,
         fired' = fired, claimed' = claimed, batch' \subseteq batch,
         handed' = handed \/ (handed' = None /\ faults' > 0),
         looked' => looked \/ TickIsOver,
         faults' \in Nat, faults <= faults', now' \in Nat, now <= now',
         \A c \in Clients : op'[c] = op[c] \/ (op'[c] = Idle /\ faults' > 0)
  PROVE  FireInv'
<1> USE DEF Basic, FireInv
<1>0. TypeOK
  OBVIOUS
<1>1. StampsPast'
  <2>1. \A d \in Doc : InThePast(d) => InThePast(d)'
    <3> SUFFICES ASSUME NEW d \in Doc, InThePast(d), NEW j \in Ids(d) PROVE d[j].ran <= now'
      BY DEF InThePast, Ids
    <3>1. d[j].ran \in Int /\ d[j].ran <= now /\ now \in Nat
      BY <1>0, RecordOf DEF InThePast, TypeOK
    <3> QED
      BY <3>1
  <2>2. ASSUME NEW c \in Clients
        PROVE  /\ InThePast(op[c].base)' /\ InThePast(op[c].doc)'
               /\ \A j \in Ids(op'[c].base) \cap Ids(op'[c].doc) :
                    op'[c].base[j].ran <= op'[c].doc[j].ran
    <3>1. CASE op'[c] = op[c]
      BY <1>0, <2>1, <3>1, OpFields DEF StampsPast, InThePast, Ids
    <3>2. CASE op'[c] = Idle
      BY <3>2, IdleType, EmptyType DEF InThePast, Ids
    <3> QED
      BY <3>1, <3>2
  <2>3. InThePast(book)'
    BY <1>0, <2>1 DEF StampsPast, TypeOK, InThePast, Ids
  <2> QED
    BY <2>2, <2>3 DEF StampsPast, Ids
<1>2. FiresPast'
  <2>1. Day(now) \in Nat /\ Day(now') \in Nat /\ Day(now) <= Day(now')
    BY <1>0, DayGrows, DayType DEF TypeOK
  <2>2. \A k \in batch : k.day \in Nat
    BY <1>0, KeyParts DEF TypeOK
  <2>3. \A n \in DOMAIN fired : fired[n].key.day \in Nat
    BY <1>0, FiredType
  <2>4. \A k \in batch' : k.day <= Day(now')
    BY <2>1, <2>2 DEF FiresPast
  <2>5. \A n \in DOMAIN fired : fired[n].key.day <= Day(now')
    BY <2>1, <2>3 DEF FiresPast
  <2> QED
    BY <2>4, <2>5 DEF FiresPast, Day
<1>3. FilesTear'
  BY DEF FilesTear
<1>4. IdsUsed'
  <2>1. \A c \in Clients : Ids(op'[c].base) \cup Ids(op'[c].doc) \subseteq used
    BY IdleType, EmptyType DEF IdsUsed
  <2> QED
    BY <2>1 DEF IdsUsed, Ids
<1>5. NewJobsUnknown'
  <2> SUFFICES ASSUME NEW c \in Clients, NEW j \in Jobs, Unwritten(c, j)', op'[c].base[j] = None
               PROVE  /\ book'[j] = None
                      /\ \A d \in Clients \ {c} : op'[d].base[j] = None /\ op'[d].doc[j] = None
                      /\ handed' # j
                      /\ \A k \in batch' : k.job # j
                      /\ \A n \in DOMAIN fired' : fired'[n].key.job # j
    BY DEF NewJobsUnknown
  <2>1. op'[c] = op[c]
    BY IdleType DEF Unwritten
  <2>2. Unwritten(c, j)
    BY <2>1 DEF Unwritten
  <2>3. /\ book[j] = None
        /\ \A d \in Clients \ {c} : op[d].base[j] = None /\ op[d].doc[j] = None
        /\ handed # j
        /\ \A k \in batch : k.job # j
        /\ \A n \in DOMAIN fired : fired[n].key.job # j
    BY <2>1, <2>2 DEF NewJobsUnknown
  <2> QED
    BY <2>3, IdleType, EmptyType, NoneIsNoJob
<1>6. OneTick'
  <2>1. looked' => TickIsOver
    BY DEF OneTick
  <2>2. Scheduler \in Clients
    BY DEF Clients
  <2>3. looked' => TickIsOver'
    BY <2>1, <2>2, IdleType DEF TickIsOver
  <2> QED
    BY <2>3 DEF OneTick
<1>7. FiredIsMarked'
  <2> SUFFICES ASSUME NEW n \in DOMAIN fired, Clean(fired[n].key.job)'
               PROVE  \/ handed' = fired[n].key.job
                      \/ MarkPending(fired[n].key.job, fired[n].key.day)'
                      \/ StampedFrom(book[fired[n].key.job], fired[n].key.day)
    BY DEF FiredIsMarked, StampedFrom, Day
  <2>1. faults' = 0 /\ Clean(fired[n].key.job) /\ handed' = handed
    BY <1>0 DEF Clean, TypeOK
  <2>2. Scheduler \in Clients /\ op'[Scheduler] = op[Scheduler]
    BY <2>1 DEF Clients
  <2>3. MarkPending(fired[n].key.job, fired[n].key.day)
          => MarkPending(fired[n].key.job, fired[n].key.day)'
    BY <2>2 DEF MarkPending, StampedFrom, Unwritten, Day
  <2> QED
    BY <2>1, <2>3 DEF FiredIsMarked
<1>8. BatchIsNew'
  <2>1. \A j \in Jobs : Clean(j)' => Clean(j)
    BY <1>0 DEF Clean, TypeOK
  <2>2. \A k \in batch : k.job \in Jobs
    BY <1>0, KeyParts DEF TypeOK
  <2> QED
    BY <2>1, <2>2 DEF BatchIsNew, SamePeriod
<1>9. ClaimsKept'
  BY DEF ClaimsKept
<1>10. FiresOnce'
  BY <1>0 DEF FiresOnce, SamePeriod, TypeOK
<1> QED
  BY <1>1, <1>2, <1>3, <1>4, <1>5, <1>6, <1>7, <1>8, <1>9, <1>10

\* A save that begins.
LEMMA BeginStamps ==
  ASSUME Basic, StampsPast, NEW c \in Clients, NEW d \in Doc, NEW new \in Doc,
         NEW ids \in SUBSET Jobs, Begin(c, d, new, ids), now' = now, book' = book,
         InThePast(d), InThePast(new),
         \A j \in Ids(d) \cap Ids(new) : d[j].ran <= new[j].ran
  PROVE  StampsPast'
<1>1. /\ op'[c].base = d /\ op'[c].doc = new
      /\ \A e \in Clients \ {c} : op'[e] = op[e]
  BY BeginShape DEF Basic
<1>2. ASSUME NEW e \in Clients
      PROVE  /\ InThePast(op[e].base)' /\ InThePast(op[e].doc)'
             /\ \A j \in Ids(op'[e].base) \cap Ids(op'[e].doc) :
                  op'[e].base[j].ran <= op'[e].doc[j].ran
  <2>1. CASE e = c
    BY <1>1, <2>1 DEF InThePast, Ids
  <2>2. CASE e # c
    BY <1>1, <2>2 DEF StampsPast, InThePast, Ids
  <2> QED
    BY <2>1, <2>2
<1>3. InThePast(book)'
  BY DEF StampsPast, InThePast, Ids
<1> QED
  BY <1>2, <1>3 DEF StampsPast, Ids

LEMMA BeginUsed ==
  ASSUME Basic, IdsUsed, NEW c \in Clients, NEW d \in Doc, NEW new \in Doc,
         NEW ids \in SUBSET Jobs, Begin(c, d, new, ids), book' = book, fired' = fired,
         used \subseteq used', Ids(d) \subseteq used', Ids(new) \subseteq used',
         {k.job : k \in batch'} \subseteq used', handed' # None => handed' \in used'
  PROVE  IdsUsed'
<1>1. /\ op'[c].base = d /\ op'[c].doc = new
      /\ \A e \in Clients \ {c} : op'[e] = op[e]
  BY BeginShape DEF Basic
<1>2. ASSUME NEW e \in Clients
      PROVE  Ids(op'[e].base) \cup Ids(op'[e].doc) \subseteq used'
  <2>1. CASE e = c
    BY <1>1, <2>1
  <2>2. CASE e # c
    BY <1>1, <2>2 DEF IdsUsed
  <2> QED
    BY <2>1, <2>2
<1>3. Ids(book') \subseteq used' /\ \A n \in DOMAIN fired' : fired'[n].key.job \in used'
  BY DEF IdsUsed
<1> QED
  BY <1>2, <1>3 DEF IdsUsed, Ids

\* A save without a new job leaves new jobs unknown.
LEMMA BeginKnown ==
  ASSUME Basic, NewJobsUnknown, NEW c \in Clients, NEW d \in Doc, NEW new \in Doc,
         NEW ids \in SUBSET Jobs, Begin(c, d, new, ids), book' = book, fired' = fired,
         \A j \in Jobs : d[j] # None => book[j] # None,
         \A j \in Jobs : new[j] # None => d[j] # None,
         \A k \in batch' : k \in batch \/ d[k.job] # None,
         handed' \in {handed, None}
  PROVE  NewJobsUnknown'
<1> SUFFICES ASSUME NEW e \in Clients, NEW j \in Jobs, Unwritten(e, j)', op'[e].base[j] = None
             PROVE  /\ book'[j] = None
                    /\ \A f \in Clients \ {e} : op'[f].base[j] = None /\ op'[f].doc[j] = None
                    /\ handed' # j
                    /\ \A k \in batch' : k.job # j
                    /\ \A n \in DOMAIN fired' : fired'[n].key.job # j
  BY DEF NewJobsUnknown
<1>1. /\ op'[c].base = d /\ op'[c].doc = new
      /\ \A f \in Clients \ {c} : op'[f] = op[f]
  BY BeginShape DEF Basic
<1>2. e # c
  BY <1>1 DEF Unwritten
<1>3. Unwritten(e, j) /\ op[e].base[j] = None
  BY <1>1, <1>2 DEF Unwritten
<1>4. /\ book[j] = None
      /\ \A f \in Clients \ {e} : op[f].base[j] = None /\ op[f].doc[j] = None
      /\ handed # j
      /\ \A k \in batch : k.job # j
      /\ \A n \in DOMAIN fired : fired[n].key.job # j
  BY <1>3 DEF NewJobsUnknown
<1>5. d[j] = None /\ new[j] = None
  BY <1>4
<1>6. \A f \in Clients \ {e} : op'[f].base[j] = None /\ op'[f].doc[j] = None
  BY <1>1, <1>4, <1>5
<1>7. \A k \in batch' : k.job # j
  BY <1>4, <1>5
<1>8. handed' # j
  BY <1>4, NoneIsNoJob
<1> QED
  BY <1>4, <1>6, <1>7, <1>8

\* What a load knows, the store knows.
LEMMA LoadKnows ==
  ASSUME TypeOK, StampsPast, IdsUsed, NEW d, Load(d)
  PROVE  /\ d \in Doc
         /\ InThePast(d)
         /\ Ids(d) \subseteq used
         /\ \A j \in Jobs : d[j] # None => d[j] = book[j]
         /\ faults' \in Nat /\ faults <= faults'
<1>1. d \in Doc /\ (d = book \/ d = Empty) /\ faults' \in Nat /\ faults <= faults'
  BY LoadShape
<1>2. CASE d = book
  BY <1>1, <1>2 DEF StampsPast, IdsUsed
<1>3. CASE d = Empty
  BY <1>1, <1>3, EmptyType DEF InThePast
<1> QED
  BY <1>1, <1>2, <1>3

\* What the edits, the marks and the scans of a tick do not change goes on to hold.
LEMMA FireKept ==
  ASSUME TypeOK, fired' = fired, clobbered' = clobbered, faults' \in Nat, faults <= faults'
  PROVE  /\ \A j \in Jobs : Clean(j)' => Clean(j)
         /\ conf' = conf /\ FiresOnce => FiresOnce'
<1>1. \A j \in Jobs : Clean(j)' => Clean(j)
  BY DEF Clean, TypeOK
<1>2. conf' = conf /\ FiresOnce => FiresOnce'
  BY DEF FiresOnce, SamePeriod, TypeOK
<1> QED
  BY <1>1, <1>2

LEMMA FireEditor ==
  ASSUME Basic, FireInv, NEW c \in Editors, EditorStep(c)
  PROVE  FireInv'
<1> USE DEF Basic, FireInv
<1>0. TypeOK /\ c \in Clients /\ Scheduler \in Clients /\ c # Scheduler
  BY CronStoreAssumption DEF Clients
<1>1. UNCHANGED <<conf, now, book, torn, clobbered, tickVars>> /\ op[c].pc = "idle"
  BY <1>0, EditShape
<1>2. PICK d \in Doc, new \in Doc, j0 \in Jobs : EditOf(c, d, new, j0)
  BY <1>0, EditShape
<1>3. /\ Load(d) /\ Begin(c, d, new, {j0}) /\ {j0} \in SUBSET Jobs
      /\ \A k \in Jobs \ {j0} : new[k] = d[k]
      /\ \/ j0 \notin used /\ used' = used \cup {j0} /\ new[j0] # None /\ new[j0].ran = Never
         \/ d[j0] # None /\ used' = used /\ (new[j0] # None => new[j0].ran = d[j0].ran)
  BY <1>2 DEF EditOf
<1>4. /\ InThePast(d) /\ Ids(d) \subseteq used
      /\ \A j \in Jobs : d[j] # None => d[j] = book[j]
      /\ faults' \in Nat /\ faults <= faults'
  BY <1>0, <1>3, LoadKnows
<1>5. /\ op'[c].base = d /\ op'[c].doc = new
      /\ \A e \in Clients \ {c} : op'[e] = op[e]
  BY <1>0, <1>3, BeginShape
<1>6. j0 \notin used => d[j0] = None
  BY <1>4 DEF Ids
<1>7. StampsPast'
  <2>1. ASSUME NEW j \in Ids(new) PROVE new[j].ran <= now /\ (j \in Ids(d) => d[j].ran <= new[j].ran)
    <3>0. now \in Nat
      BY <1>0 DEF TypeOK
    <3>1. CASE j = j0 /\ j0 \notin used
      BY <1>3, <1>4, <1>6, <3>0, <3>1 DEF Ids, Never
    <3>2. CASE j = j0 /\ j0 \in used
      <4>1. j \in Ids(d) /\ new[j].ran = d[j].ran
        BY <1>3, <2>1, <3>2 DEF Ids
      <4>2. d[j].ran \in Int /\ d[j].ran <= now
        BY <1>4, <4>1, RecordOf DEF InThePast
      <4> QED
        BY <4>1, <4>2
    <3>3. CASE j # j0
      <4>1. j \in Ids(d) /\ new[j].ran = d[j].ran
        BY <1>3, <2>1, <3>3 DEF Ids
      <4>2. d[j].ran \in Int /\ d[j].ran <= now
        BY <1>4, <4>1, RecordOf DEF InThePast
      <4> QED
        BY <4>1, <4>2
    <3> QED
      BY <3>1, <3>2, <3>3
  <2>2. InThePast(new)
    BY <2>1 DEF InThePast
  <2> QED
    BY <1>0, <1>1, <1>3, <1>4, <2>1, <2>2, BeginStamps
<1>8. FiresPast' /\ FilesTear' /\ ClaimsKept'
  BY <1>1 DEF FiresPast, FilesTear, ClaimsKept, tickVars, Day
<1>9. IdsUsed'
  <2>1. used \subseteq used' /\ Ids(d) \subseteq used' /\ Ids(new) \subseteq used'
    <3>1. Ids(new) \subseteq Ids(d) \cup {j0}
      BY <1>3 DEF Ids
    <3>2. j0 \in used'
      BY <1>3, <1>4 DEF Ids
    <3> QED
      BY <1>3, <1>4, <3>1, <3>2
  <2>2. {k.job : k \in batch'} \subseteq used' /\ (handed' # None => handed' \in used')
    BY <1>1, <2>1 DEF tickVars, IdsUsed
  <2> QED
    BY <1>0, <1>1, <1>3, <2>1, <2>2, BeginUsed DEF tickVars
<1>10. NewJobsUnknown'
  <2> SUFFICES ASSUME NEW e \in Clients, NEW j \in Jobs, Unwritten(e, j)', op'[e].base[j] = None
               PROVE  /\ book'[j] = None
                      /\ \A f \in Clients \ {e} : op'[f].base[j] = None /\ op'[f].doc[j] = None
                      /\ handed' # j
                      /\ \A k \in batch' : k.job # j
                      /\ \A n \in DOMAIN fired' : fired'[n].key.job # j
    BY DEF NewJobsUnknown
  <2>1. CASE e = c
    <3>1. d[j] = None /\ new[j] # None
      BY <1>5, <2>1 DEF Unwritten
    <3>2. j = j0 /\ j \notin used
      BY <1>3, <3>1
    <3>3. book[j] = None /\ \A f \in Clients : op[f].base[j] = None /\ op[f].doc[j] = None
      BY <3>2 DEF IdsUsed, Ids
    <3>4. /\ handed # j
          /\ \A k \in batch : k.job # j
          /\ \A n \in DOMAIN fired : fired[n].key.job # j
      BY <3>2, NoneIsNoJob DEF IdsUsed
    <3> QED
      BY <1>1, <1>5, <2>1, <3>3, <3>4 DEF tickVars
  <2>2. CASE e # c
    <3>1. op'[e] = op[e]
      BY <1>5, <2>2
    <3>2. Unwritten(e, j) /\ op[e].doc[j] # None
      BY <3>1 DEF Unwritten
    <3>3. /\ book[j] = None
          /\ \A f \in Clients \ {e} : op[f].base[j] = None /\ op[f].doc[j] = None
          /\ handed # j
          /\ \A k \in batch : k.job # j
          /\ \A n \in DOMAIN fired : fired[n].key.job # j
      BY <3>1, <3>2 DEF NewJobsUnknown
    <3>4. j \in used /\ d[j] = None
      BY <1>4, <3>2, <3>3 DEF IdsUsed, Ids
    <3>5. new[j] = None
      BY <1>3, <3>4
    <3> QED
      BY <1>1, <1>5, <3>3, <3>4, <3>5 DEF tickVars
  <2> QED
    BY <2>1, <2>2
<1>11. op'[Scheduler] = op[Scheduler]
  BY <1>0, <1>5
<1>12. OneTick'
  BY <1>1, <1>11 DEF OneTick, TickIsOver, tickVars
<1>13. (\A j \in Jobs : Clean(j)' => Clean(j)) /\ FiresOnce'
  BY <1>0, <1>1, <1>4, FireKept DEF tickVars
<1>14. FiredIsMarked'
  <2> SUFFICES ASSUME NEW n \in DOMAIN fired, Clean(fired[n].key.job)'
               PROVE  \/ handed' = fired[n].key.job
                      \/ MarkPending(fired[n].key.job, fired[n].key.day)'
                      \/ StampedFrom(book[fired[n].key.job], fired[n].key.day)
    BY <1>1 DEF FiredIsMarked, StampedFrom, Day, tickVars
  <2>0. fired' = fired /\ fired[n].key.job \in Jobs
    BY <1>0, <1>1, FiredType DEF tickVars
  <2>1. Clean(fired[n].key.job)
    BY <1>13, <2>0
  <2>2. MarkPending(fired[n].key.job, fired[n].key.day)
          => MarkPending(fired[n].key.job, fired[n].key.day)'
    BY <1>1, <1>11, <2>0 DEF MarkPending, StampedFrom, Unwritten, Day
  <2> QED
    BY <1>1, <2>1, <2>2 DEF FiredIsMarked, tickVars
<1>15. BatchIsNew'
  <2>1. \A k \in batch : k.job \in Jobs
    BY <1>0, KeyParts DEF TypeOK
  <2> QED
    BY <1>1, <1>13, <2>1 DEF BatchIsNew, SamePeriod, tickVars
<1> QED
  BY <1>7, <1>8, <1>9, <1>10, <1>12, <1>13, <1>14, <1>15

\* A save puts no older stamp into the store, and no job back, that it had loaded.
LEMMA SaveStamps ==
  ASSUME Basic, FireInv, NEW c \in Clients, SaveOf(c), NEW n \in DOMAIN fired,
         NEW j \in Jobs, NEW day \in Nat, j = fired[n].key.job, j \notin clobbered',
         StampedFrom(book[j], day)
  PROVE  StampedFrom(book'[j], day)
<1> USE DEF Basic, FireInv
<1>0. TypeOK
  OBVIOUS
<1>1. CASE book'[j] = book[j]
  BY <1>1
<1>2. CASE book'[j] # book[j] /\ book'[j] = None
  BY <1>2 DEF StampedFrom
<1>3. CASE book'[j] # book[j] /\ book'[j] # None
  <2>1. book'[j] = op[c].doc[j] /\ Unwritten(c, j) /\ op[c].base[j] = book[j]
    BY <1>3 DEF SaveOf
  <2>2. book[j] # None
    BY <2>1 DEF NewJobsUnknown
  <2>3. j \in Ids(op[c].base) /\ j \in Ids(op[c].doc)
    BY <1>3, <2>1, <2>2 DEF Ids
  <2>4. op[c].base[j].ran <= op[c].doc[j].ran
    BY <2>3 DEF StampsPast
  <2>5. op[c].base[j] \in Job /\ op[c].doc[j] \in Job
    BY <1>0, <2>3, OpFields, RecordOf
  <2>6. book[j].ran # Never /\ Day(book[j].ran) >= day
    BY <2>2 DEF StampedFrom
  <2>7. op[c].base[j].ran \in Nat /\ op[c].doc[j].ran \in Nat
    BY <2>1, <2>4, <2>5, <2>6 DEF Job, Never
  <2>8. Day(op[c].base[j].ran) <= Day(op[c].doc[j].ran)
    BY <2>4, <2>7, DayGrows
  <2>9. Day(op[c].base[j].ran) \in Nat /\ Day(op[c].doc[j].ran) \in Nat
    BY <2>7, DayType
  <2>10. op[c].doc[j].ran # Never
    BY <2>7 DEF Never
  <2> QED
    BY <2>1, <2>6, <2>8, <2>9, <2>10 DEF StampedFrom
<1> QED
  BY <1>1, <1>2, <1>3

\* A mark that is on its way arrives, goes on, or is clobbered.
LEMMA SaveMarks ==
  ASSUME Basic, NEW c \in Clients, SaveOf(c), NEW j \in Jobs, NEW day \in Nat,
         j \notin clobbered', MarkPending(j, day)
  PROVE  MarkPending(j, day)' \/ StampedFrom(book'[j], day)
<1>0. Scheduler \in Clients /\ conf' = conf
  BY DEF Clients, SaveOf
<1>1. CASE c # Scheduler
  <2>1. SameSave(op[Scheduler], op'[Scheduler])
    BY <1>0, <1>1 DEF SaveOf
  <2> QED
    BY <1>0, <2>1 DEF SameSave, MarkPending, StampedFrom, Unwritten, Day
<1>2. CASE c = Scheduler
  <2>1. j \in op[c].ids
    BY <1>2 DEF MarkPending
  <2>2. ~ op[c].ids \subseteq clobbered'
    BY <2>1
  <2>3. CASE op[c].doc[j] = None
    <3>1. ~ conf.cloud
      BY <1>2, <2>3 DEF MarkPending
    <3>2. CASE op'[c] = Idle
      <4>1. book' = op[c].doc
        BY <2>2, <3>1, <3>2 DEF SaveOf
      <4> QED
        BY <2>3, <4>1 DEF StampedFrom
    <3>3. CASE op'[c] # Idle
      <4>1. op'[c].pc # "idle" /\ op'[c].ids = op[c].ids /\ op'[c].doc = op[c].doc
        BY <3>3 DEF SaveOf
      <4> QED
        BY <1>0, <1>2, <2>1, <2>3, <3>1, <4>1 DEF MarkPending
    <3> QED
      BY <3>2, <3>3
  <2>4. CASE op[c].doc[j] # None
    <3>1. StampedFrom(op[c].doc[j], day) /\ Unwritten(c, j)
      BY <1>2, <2>4 DEF MarkPending
    <3>2. Unwritten(c, j)' \/ book'[j] = op[c].doc[j]
      BY <2>2, <3>1 DEF SaveOf
    <3>3. CASE Unwritten(c, j)'
      <4>1. op'[c].pc # "idle"
        BY <3>3 DEF Unwritten
      <4>2. op'[c].ids = op[c].ids /\ op'[c].doc = op[c].doc
        BY <4>1, IdleType DEF SaveOf
      <4> QED
        BY <1>2, <2>1, <2>4, <3>1, <3>3, <4>1, <4>2 DEF MarkPending, StampedFrom, Day
    <3> QED
      BY <3>1, <3>2, <3>3
  <2> QED
    BY <2>3, <2>4
<1> QED
  BY <1>1, <1>2

LEMMA FireSave ==
  ASSUME Basic, FireInv, NEW c \in Clients, Saving(c)
  PROVE  FireInv'
<1> USE DEF Basic, FireInv
<1>0. TypeOK /\ Scheduler \in Clients
  BY DEF Clients
<1>1. SaveOf(c)
  BY SaveShape
<1>2. UNCHANGED <<conf, now, read, looked, batch, handed, claimed, fired, used, faults>>
  BY <1>1 DEF SaveOf, tickVars, boundVars
<1>3. ASSUME NEW e \in Clients
      PROVE  \/ op'[e].base = op[e].base /\ op'[e].doc = op[e].doc
             \/ op'[e].base = Empty /\ op'[e].doc = Empty /\ op'[e].pc = "idle"
  BY <1>1, IdleType DEF SaveOf, SameSave
<1>4. \A j \in Jobs : book'[j] \in {book[j], op[c].doc[j]}
  BY <1>1 DEF SaveOf
<1>5. book \in Doc /\ book' \in Doc /\ op[c].doc \in Doc
  BY <1>0, <1>1, OpFields DEF SaveOf, TypeOK
<1>6. StampsPast'
  <2>1. \A j \in Ids(book') : book'[j].ran <= now
    BY <1>4, <1>5 DEF StampsPast, InThePast, Ids
  <2>2. ASSUME NEW e \in Clients
        PROVE  /\ InThePast(op[e].base)' /\ InThePast(op[e].doc)'
               /\ \A j \in Ids(op'[e].base) \cap Ids(op'[e].doc) :
                    op'[e].base[j].ran <= op'[e].doc[j].ran
    BY <1>2, <1>3, EmptyType DEF StampsPast, InThePast, Ids
  <2> QED
    BY <1>2, <2>1, <2>2 DEF StampsPast, InThePast, Ids
<1>7. FiresPast' /\ ClaimsKept'
  BY <1>2 DEF FiresPast, ClaimsKept, Day
<1>8. FilesTear'
  BY <1>1, <1>2 DEF FilesTear, SaveOf
<1>9. IdsUsed'
  <2>1. Ids(book') \subseteq used
    BY <1>4 DEF Ids, IdsUsed
  <2>2. \A e \in Clients : Ids(op'[e].base) \cup Ids(op'[e].doc) \subseteq used
    BY <1>3, EmptyType DEF IdsUsed
  <2> QED
    BY <1>2, <2>1, <2>2 DEF IdsUsed, Ids
<1>10. NewJobsUnknown'
  <2> SUFFICES ASSUME NEW e \in Clients, NEW j \in Jobs, Unwritten(e, j)', op'[e].base[j] = None
               PROVE  /\ book'[j] = None
                      /\ \A f \in Clients \ {e} : op'[f].base[j] = None /\ op'[f].doc[j] = None
                      /\ handed' # j
                      /\ \A k \in batch' : k.job # j
                      /\ \A n \in DOMAIN fired' : fired'[n].key.job # j
    BY DEF NewJobsUnknown
  <2>1. op'[e].pc # "idle" /\ op[e].base[j] = None
    BY <1>3 DEF Unwritten
  <2>2. Unwritten(e, j) /\ (e = c => book'[j] \in {book[j], None})
    <3>1. CASE e = c
      BY <1>1, <3>1 DEF SaveOf
    <3>2. CASE e # c
      <4>1. SameSave(op[e], op'[e])
        BY <1>1, <3>2 DEF SaveOf
      <4> QED
        BY <3>2, <4>1 DEF SameSave, Unwritten
    <3> QED
      BY <3>1, <3>2
  <2>3. /\ book[j] = None
        /\ \A f \in Clients \ {e} : op[f].base[j] = None /\ op[f].doc[j] = None
        /\ handed # j
        /\ \A k \in batch : k.job # j
        /\ \A n \in DOMAIN fired : fired[n].key.job # j
    BY <2>1, <2>2 DEF NewJobsUnknown
  <2>4. book'[j] = None
    BY <1>4, <2>2, <2>3
  <2>5. \A f \in Clients \ {e} : op'[f].base[j] = None /\ op'[f].doc[j] = None
    BY <1>3, <2>3, EmptyType
  <2> QED
    BY <1>2, <2>3, <2>4, <2>5
<1>11. OneTick'
  <2>1. looked => op'[Scheduler].pc = "idle"
    <3> SUFFICES ASSUME looked PROVE op'[Scheduler].pc = "idle"
      OBVIOUS
    <3>1. op[Scheduler].pc = "idle"
      BY DEF OneTick, TickIsOver
    <3>2. c # Scheduler
      BY <1>1, <3>1 DEF SaveOf
    <3>3. SameSave(op[Scheduler], op'[Scheduler])
      BY <1>0, <1>1, <3>2 DEF SaveOf
    <3> QED
      BY <3>1, <3>3 DEF SameSave
  <2> QED
    BY <1>2, <2>1 DEF OneTick, TickIsOver
<1>12. \A j \in Jobs : Clean(j)' => Clean(j) /\ j \notin clobbered'
  BY <1>1, <1>2 DEF Clean, SaveOf
<1>13. FiredIsMarked'
  <2> SUFFICES ASSUME NEW n \in DOMAIN fired', Clean(fired[n].key.job)'
               PROVE  \/ handed' = fired'[n].key.job
                      \/ MarkPending(fired[n].key.job, fired[n].key.day)'
                      \/ StampedFrom(book'[fired'[n].key.job], fired'[n].key.day)
    BY DEF FiredIsMarked, StampedFrom, Day
  <2> DEFINE j == fired[n].key.job
             day == fired[n].key.day
  <2>1. n \in DOMAIN fired /\ j \in Jobs /\ day \in Nat
    BY <1>0, <1>2, FiredType
  <2>2. fired' = fired /\ j \notin clobbered' /\ Clean(j)
    BY <1>1, <1>2, <2>1 DEF Clean, SaveOf
  <2>3. handed = j \/ MarkPending(j, day) \/ StampedFrom(book[j], day)
    BY <2>1, <2>2 DEF FiredIsMarked
  <2>4. CASE handed = j
    BY <1>2, <2>2, <2>4
  <2>5. CASE StampedFrom(book[j], day)
    <3>1. StampedFrom(book'[j], day)
      BY <1>1, <2>1, <2>2, <2>5, SaveStamps
    <3> QED
      BY <2>2, <3>1
  <2>6. CASE MarkPending(j, day)
    <3>1. ASSUME NEW i \in Jobs, NEW e \in Nat, i \notin clobbered', MarkPending(i, e)
          PROVE  MarkPending(i, e)' \/ StampedFrom(book'[i], e)
      BY <1>1, <3>1, SaveMarks
    <3>2. \A i \in Jobs, e \in Nat : i \notin clobbered' /\ MarkPending(i, e)
                                       => MarkPending(i, e)' \/ StampedFrom(book'[i], e)
      BY <3>1
    <3> QED
      BY <2>1, <2>2, <2>6, <3>2
  <2> QED
    BY <2>3, <2>4, <2>5, <2>6
<1>14. BatchIsNew'
  <2>1. \A k \in batch : k.job \in Jobs
    BY <1>0, KeyParts DEF TypeOK
  <2> QED
    BY <1>2, <1>12, <2>1 DEF BatchIsNew, SamePeriod
<1>15. FiresOnce'
  BY <1>1, <1>2 DEF FiresOnce, SamePeriod, SaveOf
<1> QED
  BY <1>6, <1>7, <1>8, <1>9, <1>10, <1>11, <1>13, <1>14, <1>15

LEMMA FireScan ==
  ASSUME Basic, FireInv, Scan
  PROVE  FireInv'
<1> USE DEF Basic, FireInv
<1>0. TypeOK /\ Scheduler \in Clients
  BY DEF Clients
<1>1. /\ UNCHANGED <<conf, now, book, torn, clobbered, read, handed, fired, used, edits>>
      /\ looked /\ looked' = FALSE
  BY DEF Scan
<1>2. op[Scheduler].pc = "idle" /\ batch = {} /\ handed = None
  BY <1>1 DEF OneTick, TickIsOver
<1>3. PICK d \in Doc : LET doc == IF conf.cloud THEN d ELSE Repaired(d) IN
         /\ d = (IF torn THEN Empty ELSE book)
         /\ doc \in Doc
         /\ batch' \subseteq DueKeys(doc) \ claimed
         /\ claimed' = IF conf.cloud THEN claimed \cup batch' ELSE claimed
         /\ faults' \in Nat /\ faults <= faults'
         /\ \/ op' = op
            \/ /\ ~ conf.cloud
               /\ \E ids \in SUBSET Jobs : /\ \A j \in Jobs \ ids : doc[j] = d[j]
                                           /\ Begin(Scheduler, d, doc, ids)
  BY <1>0, ScanShape
<1> DEFINE doc == IF conf.cloud THEN d ELSE Repaired(d)
<1>4. /\ doc \in Doc /\ batch' \subseteq DueKeys(doc) \ claimed
      /\ claimed' = IF conf.cloud THEN claimed \cup batch' ELSE claimed
      /\ faults' \in Nat /\ faults <= faults'
      /\ op' = op \/ \E ids \in SUBSET Jobs : Begin(Scheduler, d, doc, ids)
  BY <1>3
<1>5. /\ InThePast(d) /\ Ids(d) \subseteq used
      /\ \A j \in Jobs : d[j] # None => d[j] = book[j]
  <2>1. d = book \/ d = Empty
    BY <1>3
  <2>2. CASE d = book
    BY <2>2 DEF StampsPast, IdsUsed
  <2>3. CASE d = Empty
    BY <2>3, EmptyType DEF InThePast
  <2> QED
    BY <2>1, <2>2, <2>3
<1>6. /\ Ids(doc) = Ids(d)
      /\ \A j \in Ids(d) : doc[j].ran = d[j].ran
  BY RepairedType
<1> HIDE DEF doc
<1>7. ASSUME NEW k \in batch'
      PROVE  /\ k \in Keys /\ k.job \in Jobs /\ k.job \in Ids(d) /\ k = KeyOf(doc, k.job)
             /\ k.day = Day(now) /\ k.repeat = doc[k.job].plan.repeat
             /\ ~ RanInPeriod(doc[k.job], Day(now))
             /\ k \notin claimed
  <2>1. k \in DueKeys(doc) /\ k \notin claimed
    BY <1>4
  <2>2. /\ k \in Keys /\ k.job \in Ids(doc) /\ k = KeyOf(doc, k.job)
        /\ k.day = Day(now) /\ ~ RanInPeriod(doc[k.job], Day(now))
    BY <1>0, <1>4, <2>1, DueShape
  <2>3. k.repeat = doc[k.job].plan.repeat
    BY <1>0, <1>4, <2>2, KeyType
  <2> QED
    BY <1>6, <2>1, <2>2, <2>3, KeyParts
<1>8. ASSUME NEW j \in Ids(d)
      PROVE  doc[j].ran <= now /\ d[j].ran <= doc[j].ran /\ doc[j].ran = book[j].ran
             /\ book[j] # None /\ doc[j].ran \in Int
  <2>1. d[j].ran \in Int /\ d[j].ran <= now /\ j \in Jobs /\ d[j] # None
    BY <1>5, RecordOf DEF InThePast
  <2>2. doc[j].ran = d[j].ran /\ d[j] = book[j]
    BY <1>5, <1>6, <2>1
  <2> QED
    BY <2>1, <2>2
<1>9. StampsPast'
  <2>1. CASE op' = op
    BY <1>1, <2>1 DEF StampsPast, InThePast, Ids
  <2>2. CASE op' # op
    <3>1. PICK ids \in SUBSET Jobs : Begin(Scheduler, d, doc, ids)
      BY <1>4, <2>2
    <3>2. InThePast(doc)
      BY <1>6, <1>8 DEF InThePast
    <3> QED
      BY <1>0, <1>1, <1>4, <1>5, <1>8, <3>1, <3>2, BeginStamps
  <2> QED
    BY <2>1, <2>2
<1>10. FiresPast'
  <2>1. \A k \in batch' : k.day <= Day(now)
    BY <1>0, <1>7, DayType DEF TypeOK
  <2> QED
    BY <1>1, <2>1 DEF FiresPast, Day
<1>11. FilesTear'
  BY <1>1 DEF FilesTear
<1>12. {k.job : k \in batch'} \subseteq used
  BY <1>5, <1>7
<1>13. IdsUsed'
  <2>1. CASE op' = op
    BY <1>1, <1>12, <2>1 DEF IdsUsed, Ids
  <2>2. CASE op' # op
    <3>1. PICK ids \in SUBSET Jobs : Begin(Scheduler, d, doc, ids)
      BY <1>4, <2>2
    <3> QED
      BY <1>0, <1>1, <1>2, <1>4, <1>5, <1>6, <1>12, <3>1, BeginUsed
  <2> QED
    BY <2>1, <2>2
<1>14. \A k \in batch' : d[k.job] # None
  BY <1>7 DEF Ids
<1>15. NewJobsUnknown'
  <2>1. CASE op' = op
    <3> SUFFICES ASSUME NEW e \in Clients, NEW j \in Jobs, Unwritten(e, j)',
                        op'[e].base[j] = None
                 PROVE  /\ book'[j] = None
                        /\ \A f \in Clients \ {e} : op'[f].base[j] = None /\ op'[f].doc[j] = None
                        /\ handed' # j
                        /\ \A k \in batch' : k.job # j
                        /\ \A n \in DOMAIN fired' : fired'[n].key.job # j
      BY DEF NewJobsUnknown
    <3>1. Unwritten(e, j) /\ op[e].base[j] = None
      BY <2>1 DEF Unwritten
    <3>2. /\ book[j] = None
          /\ \A f \in Clients \ {e} : op[f].base[j] = None /\ op[f].doc[j] = None
          /\ handed # j
          /\ \A n \in DOMAIN fired : fired[n].key.job # j
      BY <3>1 DEF NewJobsUnknown
    <3>3. d[j] = None
      BY <1>5, <3>2
    <3> QED
      BY <1>1, <1>14, <2>1, <3>2, <3>3
  <2>2. CASE op' # op
    <3>1. PICK ids \in SUBSET Jobs : Begin(Scheduler, d, doc, ids)
      BY <1>4, <2>2
    <3>2. /\ \A j \in Jobs : d[j] # None => book[j] # None
          /\ \A j \in Jobs : doc[j] # None => d[j] # None
      BY <1>5, <1>6 DEF Ids
    <3> QED
      BY <1>0, <1>1, <1>4, <1>14, <3>1, <3>2, BeginKnown
  <2> QED
    BY <2>1, <2>2
<1>16. OneTick'
  BY <1>1, <1>7 DEF OneTick
<1>17. (\A j \in Jobs : Clean(j)' => Clean(j)) /\ FiresOnce'
  BY <1>0, <1>1, <1>4, FireKept
<1>18. \A n \in DOMAIN fired : Clean(fired[n].key.job)
         => StampedFrom(book[fired[n].key.job], fired[n].key.day)
  <2> SUFFICES ASSUME NEW n \in DOMAIN fired, Clean(fired[n].key.job)
               PROVE  StampedFrom(book[fired[n].key.job], fired[n].key.day)
    OBVIOUS
  <2>1. handed # fired[n].key.job
    BY <1>0, <1>2, FiredType, NoneIsNoJob
  <2>2. ~ MarkPending(fired[n].key.job, fired[n].key.day)
    BY <1>2 DEF MarkPending
  <2> QED
    BY <2>1, <2>2 DEF FiredIsMarked
<1>19. FiredIsMarked'
  <2> SUFFICES ASSUME NEW n \in DOMAIN fired', Clean(fired[n].key.job)'
               PROVE  StampedFrom(book'[fired'[n].key.job], fired'[n].key.day)
    BY DEF FiredIsMarked, StampedFrom, Day
  <2>1. n \in DOMAIN fired /\ fired' = fired /\ fired[n].key.job \in Jobs
    BY <1>0, <1>1, FiredType
  <2>2. Clean(fired[n].key.job)
    BY <1>17, <2>1
  <2> QED
    BY <1>1, <1>18, <2>1, <2>2
<1>20. BatchIsNew'
  <2> SUFFICES ASSUME NEW k \in batch', NEW n \in DOMAIN fired
               PROVE  /\ SamePeriod(fired[n].key, k) => ~ Clean(k.job)
                      /\ conf.cloud => fired[n].key # k
    BY <1>1, <1>7, <1>17 DEF BatchIsNew, SamePeriod
  <2>1. conf.cloud => fired[n].key # k
    BY <1>7 DEF ClaimsKept
  <2>2. ASSUME SamePeriod(fired[n].key, k), Clean(k.job) PROVE FALSE
    <3> DEFINE j == k.job
               day == fired[n].key.day
    <3>1. /\ fired[n].key.job = j /\ j \in Jobs /\ j \in Ids(d)
          /\ fired[n].key.repeat = doc[j].plan.repeat
          /\ doc[j].plan.repeat = "once" \/ day = Day(now)
      BY <1>7, <2>2 DEF SamePeriod
    <3>2. StampedFrom(book[j], day)
      BY <1>18, <2>2, <3>1
    <3>3. book[j].ran # Never /\ Day(book[j].ran) >= day
      BY <1>8, <3>1, <3>2 DEF StampedFrom
    <3>4. doc[j].ran = book[j].ran /\ doc[j].ran <= now
      BY <1>8, <3>1
    <3>5. doc[j].ran \in Nat /\ now \in Nat
      <4>1. d[j] \in Job /\ doc[j].ran = d[j].ran
        BY <1>6, <3>1, RecordOf
      <4> QED
        BY <1>0, <3>3, <3>4, <4>1 DEF Job, TypeOK
    <3>6. Day(doc[j].ran) <= Day(now) /\ Day(doc[j].ran) \in Nat /\ Day(now) \in Nat
      BY <3>4, <3>5, DayGrows, DayType
    <3>7. RanInPeriod(doc[j], Day(now))
      <4>1. CASE doc[j].plan.repeat = "once"
        BY <3>3, <3>4, <4>1 DEF RanInPeriod
      <4>2. CASE day = Day(now)
        <5>1. Day(doc[j].ran) = Day(now)
          BY <3>3, <3>4, <3>6, <4>2
        <5> QED
          BY <3>3, <3>4, <5>1 DEF RanInPeriod
      <4> QED
        BY <3>1, <4>1, <4>2
    <3> QED
      BY <1>7, <3>7
  <2> QED
    BY <2>1, <2>2
<1>21. ClaimsKept'
  BY <1>1, <1>4 DEF ClaimsKept
<1> QED
  BY <1>9, <1>10, <1>11, <1>13, <1>15, <1>16, <1>17, <1>19, <1>20, <1>21

LEMMA FireHandOver ==
  ASSUME Basic, FireInv, HandOver
  PROVE  FireInv'
<1> USE DEF Basic, FireInv
<1>0. TypeOK
  OBVIOUS
<1>1. PICK k \in batch : /\ batch' = batch \ {k}
                         /\ handed' = k.job
                         /\ fired' = Append(fired, [key |-> k, at |-> now, read |-> read])
  BY DEF HandOver
<1>2. /\ op[Scheduler].pc = "idle" /\ handed = None
      /\ UNCHANGED <<conf, now, book, torn, op, clobbered, read, looked, claimed, used, faults>>
  BY DEF HandOver, docVars, boundVars
<1>3. k \in Keys /\ k.job \in Jobs /\ k.day \in Nat
  BY <1>0, KeyParts DEF TypeOK
<1> DEFINE f == [key |-> k, at |-> now, read |-> read]
<1>4. f.key = k /\ f \in Fires /\ fired' = Append(fired, f)
  BY <1>0, <1>1, <1>3 DEF Fires, TypeOK
<1> HIDE DEF f
<1>5. /\ fired \in Seq(Fires)
      /\ DOMAIN fired' = 1 .. Len(fired) + 1
      /\ DOMAIN fired = 1 .. Len(fired)
      /\ \A n \in DOMAIN fired : fired'[n] = fired[n]
      /\ fired'[Len(fired) + 1] = f
  BY <1>0, <1>4 DEF TypeOK
<1>6. /\ \A n \in DOMAIN fired : n \in DOMAIN fired' /\ fired'[n].key = fired[n].key
      /\ fired'[Len(fired) + 1].key = k
      /\ \A n \in DOMAIN fired' : n \in DOMAIN fired \/ n = Len(fired) + 1
  BY <1>4, <1>5
<1>7. StampsPast'
  BY <1>2 DEF StampsPast, InThePast, Ids
<1>8. FiresPast'
  BY <1>1, <1>2, <1>6 DEF FiresPast, Day
<1>9. FilesTear'
  BY <1>2 DEF FilesTear
<1>10. IdsUsed'
  <2>1. k.job \in used
    BY DEF IdsUsed
  <2>2. \A n \in DOMAIN fired' : fired'[n].key.job \in used
    BY <1>6, <2>1 DEF IdsUsed
  <2> QED
    BY <1>1, <1>2, <2>1, <2>2 DEF IdsUsed, Ids
<1>11. NewJobsUnknown'
  <2> SUFFICES ASSUME NEW e \in Clients, NEW j \in Jobs, Unwritten(e, j), op[e].base[j] = None
               PROVE  /\ book[j] = None
                      /\ \A c \in Clients \ {e} : op[c].base[j] = None /\ op[c].doc[j] = None
                      /\ handed' # j
                      /\ \A l \in batch' : l.job # j
                      /\ \A n \in DOMAIN fired' : fired'[n].key.job # j
    BY <1>2 DEF NewJobsUnknown, Unwritten
  <2>1. /\ book[j] = None
        /\ \A c \in Clients \ {e} : op[c].base[j] = None /\ op[c].doc[j] = None
        /\ \A l \in batch : l.job # j
        /\ \A n \in DOMAIN fired : fired[n].key.job # j
    BY DEF NewJobsUnknown
  <2> QED
    BY <1>1, <1>6, <2>1
<1>12. OneTick'
  <2>1. ~ looked
    BY DEF OneTick, TickIsOver
  <2> QED
    BY <1>1, <1>2, <2>1 DEF OneTick
<1>13. FiredIsMarked'
  <2> SUFFICES ASSUME NEW n \in DOMAIN fired', Clean(fired[n].key.job)'
               PROVE  \/ handed' = fired'[n].key.job
                      \/ StampedFrom(book'[fired'[n].key.job], fired'[n].key.day)
    BY DEF FiredIsMarked, StampedFrom, Day
  <2>1. CASE n = Len(fired) + 1
    BY <1>1, <1>6, <2>1
  <2>2. CASE n \in DOMAIN fired
    <3>1. fired'[n].key = fired[n].key /\ fired[n].key.job \in Jobs
      BY <1>0, <1>6, <2>2, FiredType
    <3>2. Clean(fired[n].key.job)
      BY <1>2, <3>1 DEF Clean
    <3>3. handed # fired[n].key.job
      BY <1>2, <3>1, NoneIsNoJob
    <3>4. ~ MarkPending(fired[n].key.job, fired[n].key.day)
      BY <1>2 DEF MarkPending
    <3>5. StampedFrom(book[fired[n].key.job], fired[n].key.day)
      BY <2>2, <3>2, <3>3, <3>4 DEF FiredIsMarked
    <3> QED
      BY <1>2, <3>1, <3>5
  <2> QED
    BY <1>6, <2>1, <2>2
<1>14. BatchIsNew'
  <2> SUFFICES ASSUME NEW l \in batch', NEW n \in DOMAIN fired'
               PROVE  /\ SamePeriod(fired'[n].key, l) => ~ Clean(l.job)
                      /\ conf.cloud => fired'[n].key # l
    BY <1>2 DEF BatchIsNew, SamePeriod, Clean
  <2>1. l \in batch /\ l # k
    BY <1>1
  <2>2. CASE n \in DOMAIN fired
    BY <1>6, <2>1, <2>2 DEF BatchIsNew
  <2>3. CASE n = Len(fired) + 1
    <3>1. l.job # k.job
      BY <2>1 DEF OneTick
    <3> QED
      BY <1>6, <2>1, <2>3, <3>1 DEF SamePeriod
  <2> QED
    BY <1>6, <2>2, <2>3
<1>15. ClaimsKept'
  BY <1>1, <1>2, <1>6 DEF ClaimsKept
<1>16. FiresOnce'
  <2> SUFFICES ASSUME NEW m \in DOMAIN fired', NEW n \in DOMAIN fired', m < n,
                      SamePeriod(fired'[m].key, fired'[n].key)
               PROVE  /\ fired'[n].key.job \in clobbered \/ faults > 0
                      /\ conf.cloud => fired'[m].key # fired'[n].key
    BY <1>2 DEF FiresOnce, SamePeriod
  <2>1. m \in DOMAIN fired
    BY <1>5
  <2>2. CASE n \in DOMAIN fired
    BY <1>6, <2>1, <2>2 DEF FiresOnce
  <2>3. CASE n = Len(fired) + 1
    <3>1. ~ Clean(k.job) /\ (conf.cloud => fired[m].key # k)
      BY <1>6, <2>1, <2>3 DEF BatchIsNew
    <3>2. k.job \in clobbered \/ faults > 0
      BY <1>0, <3>1 DEF Clean, TypeOK
    <3> QED
      BY <1>6, <2>1, <2>3, <3>1, <3>2
  <2> QED
    BY <1>6, <2>2, <2>3
<1> QED
  BY <1>7, <1>8, <1>9, <1>10, <1>11, <1>12, <1>13, <1>14, <1>15, <1>16

LEMMA FireMark ==
  ASSUME Basic, FireInv, Mark
  PROVE  FireInv'
<1> USE DEF Basic, FireInv
<1>0. TypeOK /\ Scheduler \in Clients /\ now \in Nat
  BY DEF Clients, TypeOK
<1>1. /\ UNCHANGED <<conf, now, book, torn, clobbered, read, looked, batch, claimed, fired,
                     used, edits>>
  BY DEF Mark
<1>2. op[Scheduler].pc = "idle" /\ handed \in Jobs /\ handed' = None
  BY <1>0, MarkShape
<1>3. PICK d \in Doc : /\ Load(d)
                       /\ Marked(d, handed) \in Doc
                       /\ Begin(Scheduler, d, Marked(d, handed), {handed})
  BY <1>0, MarkShape
<1> DEFINE new == Marked(d, handed)
<1>4. /\ InThePast(d) /\ Ids(d) \subseteq used
      /\ \A j \in Jobs : d[j] # None => d[j] = book[j]
      /\ faults' \in Nat /\ faults <= faults'
  BY <1>0, <1>3, LoadKnows
<1>5. /\ new \in Doc
      /\ \A k \in Jobs \ {handed} : new[k] = d[k]
      /\ new[handed] = None <=> d[handed] = None
      /\ d[handed] # None => new[handed].ran = now
  BY <1>0, <1>2, MarkedType
<1>6. Begin(Scheduler, d, new, {handed}) /\ {handed} \in SUBSET Jobs
  BY <1>2, <1>3
<1> HIDE DEF new
<1>7. /\ op'[Scheduler].pc = "save" /\ op'[Scheduler].ids = {handed}
      /\ op'[Scheduler].base = d /\ op'[Scheduler].doc = new
  BY <1>0, <1>5, <1>6, BeginShape
<1>8. Ids(new) = Ids(d)
  BY <1>5 DEF Ids
<1>9. StampsPast'
  <2>1. ASSUME NEW j \in Ids(d) PROVE new[j].ran <= now /\ d[j].ran <= new[j].ran
    <3>1. d[j].ran \in Int /\ d[j].ran <= now /\ j \in Jobs /\ d[j] # None
      BY <1>4, RecordOf DEF InThePast
    <3>2. new[j].ran \in {now, d[j].ran}
      BY <1>5, <3>1
    <3> QED
      BY <1>0, <3>1, <3>2
  <2>2. InThePast(new)
    BY <1>8, <2>1 DEF InThePast
  <2> QED
    BY <1>0, <1>1, <1>4, <1>5, <1>6, <2>1, <2>2, BeginStamps
<1>10. FiresPast' /\ FilesTear' /\ ClaimsKept'
  BY <1>1 DEF FiresPast, FilesTear, ClaimsKept, Day
<1>11. IdsUsed'
  <2>1. {k.job : k \in batch} \subseteq used
    BY DEF IdsUsed
  <2> QED
    BY <1>0, <1>1, <1>2, <1>4, <1>5, <1>6, <1>8, <2>1, BeginUsed
<1>12. NewJobsUnknown'
  <2>1. /\ \A j \in Jobs : d[j] # None => book[j] # None
        /\ \A j \in Jobs : new[j] # None => d[j] # None
    BY <1>4, <1>5
  <2> QED
    BY <1>0, <1>1, <1>2, <1>5, <1>6, <2>1, BeginKnown
<1>13. OneTick'
  <2>1. ~ looked
    BY <1>2, NoneIsNoJob DEF OneTick, TickIsOver
  <2> QED
    BY <1>1, <2>1 DEF OneTick
<1>14. (\A j \in Jobs : Clean(j)' => Clean(j)) /\ FiresOnce'
  BY <1>0, <1>1, <1>4, FireKept
<1>15. FiredIsMarked'
  <2> SUFFICES ASSUME NEW n \in DOMAIN fired', Clean(fired[n].key.job)'
               PROVE  \/ MarkPending(fired[n].key.job, fired[n].key.day)'
                      \/ StampedFrom(book'[fired'[n].key.job], fired'[n].key.day)
    BY DEF FiredIsMarked, StampedFrom, Day
  <2> DEFINE j == fired[n].key.job
             day == fired[n].key.day
  <2>1. n \in DOMAIN fired /\ fired' = fired /\ j \in Jobs /\ day \in Nat
    BY <1>0, <1>1, FiredType
  <2>2. Clean(j) /\ faults' = 0
    <3>1. faults' = 0
      BY DEF Clean
    <3> QED
      BY <1>14, <2>1, <3>1
  <2>3. ~ MarkPending(j, day)
    BY <1>2 DEF MarkPending
  <2>4. CASE StampedFrom(book[j], day)
    BY <1>1, <2>1, <2>4
  <2>5. CASE handed = j
    <3>1. CASE new[j] = None /\ ~ conf.cloud
      BY <1>1, <1>7, <2>1, <2>5, <3>1 DEF MarkPending
    <3>2. CASE new[j] = None /\ conf.cloud
      <4>1. d = book
        BY <1>0, <1>3, <2>2, <3>2, LoadShape DEF FilesTear
      <4>2. book[j] = None
        BY <1>5, <2>5, <3>2, <4>1
      <4> QED
        BY <1>1, <2>1, <4>2 DEF StampedFrom
    <3>3. CASE new[j] # None
      <4>1. new[j].ran = now /\ day <= Day(now) /\ Day(now) \in Nat
        BY <1>0, <1>5, <2>1, <2>5, <3>3, DayType DEF FiresPast
      <4>2. StampedFrom(new[j], day)
        BY <1>0, <2>1, <4>1 DEF StampedFrom, Never
      <4>3. Unwritten(Scheduler, j)'
        BY <1>7, <2>1, <3>3 DEF Unwritten
      <4>4. Unwritten(Scheduler, fired[n].key.job)'
        BY <2>1, <4>3
      <4> QED
        BY <1>7, <2>1, <2>5, <3>3, <4>2, <4>4 DEF MarkPending, StampedFrom, Day
    <3> QED
      BY <3>1, <3>2, <3>3
  <2> QED
    BY <2>1, <2>2, <2>3, <2>4, <2>5 DEF FiredIsMarked
<1>16. BatchIsNew'
  <2>1. \A k \in batch : k.job \in Jobs
    BY <1>0, KeyParts DEF TypeOK
  <2> QED
    BY <1>1, <1>14, <2>1 DEF BatchIsNew, SamePeriod
<1> QED
  BY <1>9, <1>10, <1>11, <1>12, <1>13, <1>14, <1>15, <1>16

LEMMA FireStep == Basic /\ FireInv /\ [Next]_vars => FireInv'
<1> SUFFICES ASSUME Basic, FireInv, [Next]_vars PROVE FireInv'
  OBVIOUS
<1>0. TypeOK /\ Scheduler \in Clients /\ now \in Nat /\ faults \in Nat
  BY DEF Basic, Clients, TypeOK
<1>1. ASSUME NEW c \in Editors, EditorStep(c) PROVE FireInv'
  BY <1>1, FireEditor
<1>2. ASSUME NEW c \in Clients, Saving(c) PROVE FireInv'
  BY <1>2, FireSave
<1>3. ASSUME NEW c \in Clients, Fail(c) PROVE FireInv'
  <2>1. /\ faults' \in Nat /\ faults <= faults' /\ faults' > 0
        /\ op' = [op EXCEPT ![c] = Idle]
        /\ UNCHANGED <<conf, now, book, torn, clobbered, tickVars, used>>
    BY <1>0, <1>3 DEF Fail, Fault
  <2>2. \A e \in Clients : op'[e] = op[e] \/ op'[e] = Idle
    BY <1>0, <1>3, <2>1, IdleType, OpStep
  <2> QED
    BY <1>0, <2>1, <2>2, FireQuiet DEF tickVars
<1>4. CASE LookAtClock
  <2>1. /\ UNCHANGED <<conf, now, docVars, batch, handed, claimed, fired, used, boundVars>>
        /\ TickIsOver
    BY <1>4 DEF LookAtClock
  <2> QED
    BY <1>0, <2>1, FireQuiet DEF docVars, boundVars
<1>5. CASE Scan
  BY <1>5, FireScan
<1>6. CASE HandOver
  BY <1>6, FireHandOver
<1>7. CASE Mark
  BY <1>7, FireMark
<1>8. CASE Restart
  <2>1. /\ faults' \in Nat /\ faults <= faults' /\ faults' > 0
        /\ op' = [op EXCEPT ![Scheduler] = Idle]
        /\ looked' = FALSE /\ batch' = {} /\ handed' = None
        /\ UNCHANGED <<conf, now, book, torn, clobbered, read, claimed, fired, used>>
    BY <1>0, <1>8 DEF Restart, Fault
  <2>2. \A e \in Clients : op'[e] = op[e] \/ op'[e] = Idle
    BY <1>0, <2>1, IdleType, OpStep
  <2> QED
    BY <1>0, <2>1, <2>2, FireQuiet
<1>9. CASE Pass
  <2>1. /\ now' \in Nat /\ now <= now'
        /\ UNCHANGED <<conf, docVars, tickVars, used, boundVars>>
    BY <1>0, <1>9 DEF Pass
  <2> QED
    BY <1>0, <2>1, FireQuiet DEF docVars, tickVars, boundVars
<1>10. CASE UNCHANGED vars
  BY <1>0, <1>10, FireQuiet DEF vars, docVars, tickVars, boundVars
<1> QED
  BY <1>1, <1>2, <1>3, <1>4, <1>5, <1>6, <1>7, <1>8, <1>9, <1>10 DEF Next, SchedulerStep

\* A job runs again in its period only when a save clobbered its mark or a fault lost it,
\* and where slots are claimed never for the same slot: the mark of a run is on its way
\* or in the store, and whoever replaces the record without a clobber keeps the stamp.
THEOREM FiresOnceHolds == Spec => []FiresOnce
<1>1. Init => FireInv
  BY FireInit
<1>2. Basic /\ FireInv /\ [Next]_vars => FireInv'
  BY FireStep
<1>3. FireInv => FiresOnce
  BY DEF FireInv
<1> QED
  BY <1>1, <1>2, <1>3, BasicHolds, PTL DEF Spec

=============================================================================
