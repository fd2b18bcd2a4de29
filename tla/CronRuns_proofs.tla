-------------------------- MODULE CronRuns_proofs --------------------------
(* What becomes of a slot that fell due: proofs about CronExecution, for   *)
(* every value of its constants.                                           *)
EXTENDS CronExecution_proofs, FiniteSetTheorems

-----------------------------------------------------------------------------
(* The open rows of a ledger.                                              *)

OpenIn(r, k) == {i \in DOMAIN r : r[i].send = "pending" /\ r[i].key = k}

\* Ledger r has no open row that the present one has not.
OpensNone(r) == \A q : OpenIn(r, q) \subseteq OpenFor(q)

\* A row is opened for the slot it is started for, and for no other.
LEMMA StartOpens ==
  ASSUME rows \in Seq(Rows), now \in Nat, NEW k \in Keys
  PROVE  LET r == Append(rows, Row(k, "pending"))
         IN  \E i : \A q : OpenIn(r, q) \subseteq OpenFor(q) \cup (IF q = k THEN {i} ELSE {})
<1> DEFINE r == Append(rows, Row(k, "pending"))
<1>1. /\ DOMAIN rows = 1 .. Len(rows) /\ Len(rows) \in Nat
      /\ DOMAIN r = 1 .. Len(rows) + 1 /\ r[Len(rows) + 1] = Row(k, "pending")
      /\ \A i \in DOMAIN rows : r[i] = rows[i]
  BY LenProperties, AppendProperties, RowType DEF SendStatus
<1> HIDE DEF r
<1>2. \A q : OpenIn(r, q) \subseteq OpenFor(q) \cup (IF q = k THEN {Len(rows) + 1} ELSE {})
  BY <1>1 DEF OpenIn, OpenFor, Open, Row
<1> QED
  BY <1>2 DEF r

\* A terminal record opens no row, and closes one of its slot's if there is any.
LEMMA RecordCloses ==
  ASSUME rows \in Seq(Rows), now \in Nat, RowsInPast, NEW k \in Keys,
         NEW s \in SendStatus \ {"pending"}
  PROVE  /\ OpensNone(Recorded(k, s))
         /\ \/ OpenFor(k) = {}
            \/ \E i \in OpenFor(k) : OpenIn(Recorded(k, s), k) \subseteq OpenFor(k) \ {i}
<1> DEFINE r == Recorded(k, s)
<1>1. DOMAIN rows = 1 .. Len(rows) /\ Len(rows) \in Nat /\ Row(k, s) \in Rows
  BY LenProperties, RowType
<1>2. ASSUME NEW S \in SUBSET DOMAIN rows, S # {}, r = [rows EXCEPT ![Latest(S)] = Row(k, s)]
      PROVE  Latest(S) \in S /\ \A q : OpenIn(r, q) \subseteq OpenFor(q) \ {Latest(S)}
  <2>1. Latest(S) \in S
    BY <1>2, LatestIn
  <2> HIDE DEF r
  <2>2. DOMAIN r = DOMAIN rows /\ r[Latest(S)] = Row(k, s)
        /\ \A i \in DOMAIN rows : i # Latest(S) => r[i] = rows[i]
    BY <1>2, <2>1
  <2> QED
    BY <2>1, <2>2 DEF OpenIn, OpenFor, Open, Row
<1>3. CASE OpenFor(k) # {}
  <2>1. OpenFor(k) \in SUBSET DOMAIN rows /\ r = [rows EXCEPT ![Latest(OpenFor(k))] = Row(k, s)]
    BY <1>3 DEF Recorded, OpenFor
  <2>2. Latest(OpenFor(k)) \in OpenFor(k)
        /\ \A q : OpenIn(r, q) \subseteq OpenFor(q) \ {Latest(OpenFor(k))}
    BY <1>2, <1>3, <2>1
  <2> HIDE DEF r
  <2>3. OpensNone(r) /\ \E i \in OpenFor(k) : OpenIn(r, k) \subseteq OpenFor(k) \ {i}
    BY <2>2 DEF OpensNone
  <2> QED
    BY <2>3 DEF r
<1>4. CASE OpenFor(k) = {} /\ OpenNear(k) # {}
  <2>1. OpenNear(k) \in SUBSET DOMAIN rows /\ r = [rows EXCEPT ![Latest(OpenNear(k))] = Row(k, s)]
    BY <1>4 DEF Recorded, OpenNear
  <2>2. \A q : OpenIn(r, q) \subseteq OpenFor(q) \ {Latest(OpenNear(k))}
    BY <1>2, <1>4, <2>1
  <2> HIDE DEF r
  <2>3. OpensNone(r)
    BY <2>2 DEF OpensNone
  <2> QED
    BY <1>4, <2>3 DEF r
<1>5. CASE OpenFor(k) = {} /\ OpenNear(k) = {}
  <2>1. r = Append(rows, Row(k, s))
    BY <1>5 DEF Recorded
  <2> HIDE DEF r
  <2>2. DOMAIN r = 1 .. Len(rows) + 1 /\ r[Len(rows) + 1] = Row(k, s)
        /\ \A i \in DOMAIN rows : r[i] = rows[i]
    BY <1>1, <2>1, AppendProperties
  <2>3. OpensNone(r)
    BY <1>1, <2>2 DEF OpensNone, OpenIn, OpenFor, Open, Row
  <2> QED
    BY <1>5, <2>3 DEF r
<1> QED
  BY <1>3, <1>4, <1>5

\* The UPDATE over a set of rows opens none; over a slot's open rows, it leaves none.
LEMMA UpdateCloses ==
  ASSUME rows \in Seq(Rows), NEW S, NEW s \in SendStatus \ {"pending"}
  PROVE  /\ OpensNone(Closed(S, s))
         /\ \A k : S = OpenFor(k) => OpenIn(Closed(S, s), k) = {}
BY DEF Closed, OpensNone, OpenIn, OpenFor, Open, Row

-----------------------------------------------------------------------------
(* No open row without a task at work.                                     *)

\* The tasks that still owe slot k the end of a row: at work, and not told
\* (or about to be told) that the watchdog ended it for them.
Owing(k) == {e \in Events : /\ ev[e].key = k
                            /\ ev[e].stage \in InHandler
                            /\ ~ ev[e].recovered
                            /\ ev[e].watchdog # "closed"}

\* A slot's open rows are not more than the tasks that owe it an end.
RowsAreOwed == \A k \in Keys : Cardinality(OpenFor(k)) <= Cardinality(Owing(k))

\* A task that is not yet started has no watchdog that could have closed its row.
FreshBeforeStart == \A e \in Events : ev[e].stage \in {"free", "queued"}
                                      => ~ ev[e].recovered /\ ev[e].watchdog = "off"

RowInv == LedgerInv /\ (Undisturbed => FreshBeforeStart /\ RowsAreOwed)

\* The open rows of a ledger and any tasks can be counted.
LEMMA RowsCount ==
  ASSUME NEW r \in Seq(Rows), NEW k
  PROVE  IsFiniteSet(OpenIn(r, k))
<1>1. DOMAIN r = 1 .. Len(r) /\ Len(r) \in Nat
  BY LenProperties
<1>2. IsFiniteSet(DOMAIN r)
  BY <1>1, FS_Interval
<1> QED
  BY <1>2, FS_Subset DEF OpenIn

LEMMA TasksCount ==
  ASSUME NEW T \in SUBSET Events
  PROVE  IsFiniteSet(T)
BY CronAssumption, FS_Subset

\* From rows R and tasks T to R1 and T1: no more rows and no fewer tasks, no
\* rows at all, one more of each, or one fewer of each.
Follow(R, T, R1, T1) ==
  \/ R1 \subseteq R /\ T \subseteq T1
  \/ R1 = {}
  \/ \E i, e : R1 \subseteq R \cup {i} /\ e \notin T /\ T \cup {e} \subseteq T1
  \/ \E i \in R : \E e : R1 \subseteq R \ {i} /\ T \ {e} \subseteq T1

LEMMA StillCovered ==
  ASSUME NEW R, NEW T, IsFiniteSet(R), IsFiniteSet(T), Cardinality(R) <= Cardinality(T),
         NEW R1, NEW T1, IsFiniteSet(R1), IsFiniteSet(T1), Follow(R, T, R1, T1)
  PROVE  Cardinality(R1) <= Cardinality(T1)
<1>0. /\ Cardinality(R) \in Nat /\ Cardinality(T) \in Nat
      /\ Cardinality(R1) \in Nat /\ Cardinality(T1) \in Nat
  BY FS_CardinalityType
<1>1. CASE R1 \subseteq R /\ T \subseteq T1
  <2>1. Cardinality(R1) <= Cardinality(R) /\ Cardinality(T) <= Cardinality(T1)
    BY <1>1, FS_Subset
  <2> QED
    BY <1>0, <2>1
<1>2. CASE R1 = {}
  BY <1>0, <1>2, FS_EmptySet
<1>3. ASSUME NEW i, NEW e, R1 \subseteq R \cup {i}, e \notin T, T \cup {e} \subseteq T1
      PROVE  Cardinality(R1) <= Cardinality(T1)
  <2>1. /\ IsFiniteSet(R \cup {i}) /\ Cardinality(R \cup {i}) \in {Cardinality(R), Cardinality(R) + 1}
        /\ IsFiniteSet(T \cup {e}) /\ Cardinality(T \cup {e}) = Cardinality(T) + 1
    BY <1>3, FS_AddElement
  <2>2. Cardinality(R1) <= Cardinality(R \cup {i}) /\ Cardinality(T \cup {e}) <= Cardinality(T1)
    BY <1>3, <2>1, FS_Subset
  <2> QED
    BY <1>0, <2>1, <2>2
<1>4. ASSUME NEW i \in R, NEW e, R1 \subseteq R \ {i}, T \ {e} \subseteq T1
      PROVE  Cardinality(R1) <= Cardinality(T1)
  <2>1. /\ IsFiniteSet(R \ {i}) /\ Cardinality(R \ {i}) = Cardinality(R) - 1
        /\ IsFiniteSet(T \ {e}) /\ Cardinality(T \ {e}) \in {Cardinality(T), Cardinality(T) - 1}
    BY FS_RemoveElement
  <2>2. Cardinality(R1) <= Cardinality(R \ {i}) /\ Cardinality(T \ {e}) <= Cardinality(T1)
    BY <1>4, <2>1, FS_Subset
  <2> QED
    BY <1>0, <2>1, <2>2
<1> QED
  BY <1>1, <1>2, <1>3, <1>4 DEF Follow

\* A step does so for every slot.
RowsFollow == \A k \in Keys : Follow(OpenFor(k), Owing(k), OpenIn(rows', k), Owing(k)')

LEMMA FollowedRowsAreOwed ==
  ASSUME TypeInv, TypeInv', RowsAreOwed, RowsFollow
  PROVE  RowsAreOwed'
<1> SUFFICES ASSUME NEW k \in Keys PROVE Cardinality(OpenFor(k)') <= Cardinality(Owing(k)')
  BY DEF RowsAreOwed
<1> DEFINE R == OpenFor(k)  R1 == OpenFor(k)'  T == Owing(k)  T1 == Owing(k)'
<1>1. rows \in Seq(Rows) /\ rows' \in Seq(Rows)
  BY DEF TypeInv, TypeOK
<1>2. R = OpenIn(rows, k) /\ R1 = OpenIn(rows', k)
  BY DEF OpenIn, OpenFor, Open
<1>3. T \in SUBSET Events /\ T1 \in SUBSET Events
  BY DEF Owing
<1>4. IsFiniteSet(R) /\ IsFiniteSet(R1) /\ IsFiniteSet(T) /\ IsFiniteSet(T1)
  BY <1>1, <1>2, <1>3, RowsCount, TasksCount
<1>5. Cardinality(R) <= Cardinality(T)
  BY DEF RowsAreOwed
<1>6. Follow(R, T, R1, T1)
  BY <1>2 DEF RowsFollow
<1> HIDE DEF R, R1, T, T1
<1>7. Cardinality(R1) <= Cardinality(T1)
  BY <1>4, <1>5, <1>6, StillCovered
<1> QED
  BY <1>7 DEF R1, T1

\* A step that writes no row and takes no task from what it owes.
LEMMA QuietRows ==
  ASSUME rows' = rows, \A k \in Keys : Owing(k) \subseteq Owing(k)'
  PROVE  RowsFollow
BY DEF RowsFollow, Follow, OpenIn, OpenFor, Open

\* A task's step changes the task alone.
LEMMA OtherTasks ==
  ASSUME ev \in [Events -> Handler], NEW e \in Events, TaskStep(e), NEW x \in Events, x # e
  PROVE  ev'[x] = ev[x]
BY DEF TaskStep, Start, RunReturns, Conclude, SkipLateResult, AbortWatchdog,
       NothingToDeliver, TargetUnresolved, SuppressDuplicate, BeginSend, SendSucceeds,
       SendFails, ReportSend, Finish, Watchdog, WatchdogWakes, WatchdogCloses, WatchdogTells

\* So it can only change what is owed for its own slot, and by itself.
LEMMA OwnSlotOnly ==
  ASSUME ev \in [Events -> Handler], NEW e \in Events, TaskStep(e), NEW k
  PROVE  /\ Owing(k) \ {e} \subseteq Owing(k)'
         /\ ev[e].key # k => Owing(k) \subseteq Owing(k)'
BY OtherTasks DEF Owing

\* A started task owes its slot a row's end.
LEMMA StartOwes ==
  ASSUME LedgerInv, FreshBeforeStart, NEW e \in Events, Start(e), faults' = 0
  PROVE  RowsFollow /\ FreshBeforeStart'
<1>0. /\ ev \in [Events -> Handler] /\ rows \in Seq(Rows) /\ now \in Nat /\ faults \in Nat
      /\ ev[e].stage = "queued" /\ ev[e].key \in Keys
      /\ ~ ev[e].recovered
  BY DEF LedgerInv, TypeInv, TypeOK, FiredHasSlot, Fired, Start, At, FreshBeforeStart
<1>k. PICK k \in Keys : k = ev[e].key
  BY <1>0
<1>1. rows' = Append(rows, Row(k, "pending"))
  BY <1>0, <1>k DEF Start, Save, Lose
<1>2. /\ ev'[e].stage = "running" /\ ev'[e].watchdog = "sleeping"
      /\ ev'[e].key = k /\ ~ ev'[e].recovered
      /\ \A x \in Events \ {e} : ev'[x] = ev[x]
  BY <1>0, <1>k DEF Start
<1>3. PICK i : \A q : OpenIn(rows', q) \subseteq OpenFor(q) \cup (IF q = k THEN {i} ELSE {})
  BY <1>0, <1>1, StartOpens
<1>4. e \notin Owing(k) /\ Owing(k) \cup {e} \subseteq Owing(k)'
      /\ \A q : q # k => Owing(q) \subseteq Owing(q)'
  BY <1>0, <1>k, <1>2 DEF Owing, InHandler
<1>5. ASSUME NEW q \in Keys PROVE Follow(OpenFor(q), Owing(q), OpenIn(rows', q), Owing(q)')
  <2>1. CASE q = k
    <3>1. OpenIn(rows', q) \subseteq OpenFor(q) \cup {i}
      BY <1>3, <2>1
    <3>2. e \notin Owing(q) /\ Owing(q) \cup {e} \subseteq Owing(q)'
      BY <1>4, <2>1
    <3> QED
      BY <3>1, <3>2 DEF Follow
  <2>2. CASE q # k
    <3>1. OpenIn(rows', q) \subseteq OpenFor(q)
      BY <1>3, <2>2
    <3> QED
      BY <1>4, <2>2, <3>1 DEF Follow
  <2> QED
    BY <2>1, <2>2
<1>6. FreshBeforeStart'
  BY <1>2 DEF FreshBeforeStart
<1> QED
  BY <1>5, <1>6 DEF RowsFollow

\* A task that ends with its terminal row pays what it owes.
LEMMA FinishPays ==
  ASSUME LedgerInv, FreshBeforeStart, NEW e \in Events, NEW s \in SendStatus \ {"pending"}, Finish(e, s), TaskStep(e),
         Fired(e), faults' = 0
  PROVE  RowsFollow /\ FreshBeforeStart'
<1>0. /\ ev \in [Events -> Handler] /\ rows \in Seq(Rows) /\ now \in Nat /\ faults \in Nat
      /\ RowsInPast /\ ev[e].key \in Keys
  BY DEF LedgerInv, TypeInv, TypeOK, FiredHasSlot
<1> DEFINE k == ev[e].key
<1>1. rows' = Recorded(k, s)
  BY <1>0 DEF Finish, Save, Lose
<1>2. /\ OpensNone(rows')
      /\ OpenFor(k) = {} \/ \E i \in OpenFor(k) : OpenIn(rows', k) \subseteq OpenFor(k) \ {i}
  BY <1>0, <1>1, RecordCloses
<1>3. ASSUME NEW q \in Keys PROVE Follow(OpenFor(q), Owing(q), OpenIn(rows', q), Owing(q)')
  <2>1. CASE q # k
    BY <1>0, <1>2, <2>1, OwnSlotOnly DEF Follow, OpensNone
  <2>2. CASE q = k /\ OpenFor(k) = {}
    BY <1>2, <2>2 DEF Follow, OpensNone
  <2>3. CASE q = k /\ OpenFor(k) # {}
    <3>1. Owing(q) \ {e} \subseteq Owing(q)'
      BY <1>0, OwnSlotOnly
    <3>2. PICK i \in OpenFor(q) : OpenIn(rows', q) \subseteq OpenFor(q) \ {i}
      BY <1>2, <2>3
    <3> QED
      BY <3>1, <3>2 DEF Follow
  <2> QED
    BY <2>1, <2>2, <2>3
<1>4. FreshBeforeStart'
  BY <1>0 DEF FreshBeforeStart, Finish
<1> QED
  BY <1>3, <1>4 DEF RowsFollow

\* A watchdog that closes its slot's rows leaves none open, whoever owes them.
LEMMA WatchdogPays ==
  ASSUME LedgerInv, FreshBeforeStart, NEW e \in Events, WatchdogCloses(e), faults' = 0
  PROVE  RowsFollow /\ FreshBeforeStart'
<1>0. /\ ev \in [Events -> Handler] /\ rows \in Seq(Rows) /\ faults \in Nat
      /\ ev[e].watchdog = "armed" /\ TaskStep(e)
  BY DEF LedgerInv, TypeInv, TypeOK, WatchdogCloses, TaskStep, Watchdog
<1> DEFINE k == ev[e].key
<1>1. rows' = Closed(OpenFor(k), "skipped_error")
  BY <1>0 DEF WatchdogCloses, Lose
<1>2. OpensNone(rows') /\ OpenIn(rows', k) = {}
  BY <1>0, <1>1, UpdateCloses DEF SendStatus
<1>3. RowsFollow
  BY <1>0, <1>2, OwnSlotOnly DEF RowsFollow, Follow, OpensNone
<1>4. ev'[e].stage = ev[e].stage /\ ev[e].stage \notin {"free", "queued"}
      /\ \A x \in Events \ {e} : ev'[x] = ev[x]
  <2>1. ev[e].stage \notin {"free", "queued"}
    BY <1>0 DEF FreshBeforeStart
  <2>2. \E w : ev' = [ev EXCEPT ![e].watchdog = w]
    BY DEF WatchdogCloses
  <2> QED
    BY <1>0, <2>1, <2>2
<1> QED
  BY <1>3, <1>4 DEF FreshBeforeStart

\* The other steps of a task write no row, and leave it owing what it owed.
LEMMA WorkOwes ==
  ASSUME LedgerInv, FreshBeforeStart, NEW e \in Events,
         \/ RunReturns(e) \/ SkipLateResult(e) \/ AbortWatchdog(e) \/ BeginSend(e)
         \/ SendSucceeds(e) \/ SendFails(e) \/ WatchdogWakes(e) \/ WatchdogTells(e)
  PROVE  RowsFollow /\ FreshBeforeStart'
<1>0. ev \in [Events -> Handler] /\ ev[e] \in Handler /\ FreshBeforeStart
  BY DEF LedgerInv, TypeInv, TypeOK
<1>1. rows' = rows
  BY DEF RunReturns, SkipLateResult, AbortWatchdog, BeginSend, SendSucceeds, SendFails,
         WatchdogWakes, WatchdogTells
<1>2. ASSUME NEW h \in Handler, ev' = [ev EXCEPT ![e] = h], h.key = ev[e].key,
             ev[e].stage \in InHandler /\ ~ ev[e].recovered /\ ev[e].watchdog # "closed"
               => h.stage \in InHandler /\ ~ h.recovered /\ h.watchdog # "closed",
             h.stage \in {"free", "queued"} => ~ h.recovered /\ h.watchdog = "off"
      PROVE  RowsFollow /\ FreshBeforeStart'
  <2>1. /\ ev'[e] = h
        /\ \A x \in Events \ {e} : ev'[x] = ev[x]
    BY <1>0, <1>2
  <2>2. \A k \in Keys : Owing(k) \subseteq Owing(k)'
    BY <1>0, <1>2, <2>1 DEF Owing
  <2>3. FreshBeforeStart'
    BY <1>0, <1>2, <2>1 DEF FreshBeforeStart
  <2> QED
    BY <1>1, <2>2, <2>3, QuietRows
<1> USE DEF At, Handler, Stages, InHandler
<1>3. CASE RunReturns(e)
  <2>1. PICK o \in Outcomes : ev' = [ev EXCEPT ![e].stage = "completed", ![e].text = o]
    BY <1>3 DEF RunReturns
  <2> DEFINE h == [ev[e] EXCEPT !.stage = "completed", !.text = o]
  <2>2. h \in Handler /\ h.stage = "completed" /\ h.key = ev[e].key
        /\ h.recovered = ev[e].recovered /\ h.watchdog = ev[e].watchdog
    BY <1>0
  <2>3. ev' = [ev EXCEPT ![e] = h] /\ ev[e].stage = "running"
    BY <1>3, <2>1 DEF RunReturns
  <2> HIDE DEF h
  <2> QED
    BY <1>2, <2>2, <2>3
<1>4. CASE SkipLateResult(e)
  <2> DEFINE h == [ev[e] EXCEPT !.stage = "done", !.text = None]
  <2>1. h \in Handler /\ h.stage = "done" /\ h.key = ev[e].key
    BY <1>0
  <2>2. ev' = [ev EXCEPT ![e] = h] /\ ev[e].recovered
    BY <1>4 DEF SkipLateResult
  <2> HIDE DEF h
  <2> QED
    BY <1>2, <2>1, <2>2
<1>5. CASE AbortWatchdog(e)
  <2> DEFINE h == [ev[e] EXCEPT !.stage = "reporting",
                                !.watchdog = IF @ = "sleeping" THEN "off" ELSE @]
  <2>1. h \in Handler /\ h.stage = "reporting" /\ h.key = ev[e].key
        /\ h.recovered = ev[e].recovered /\ h.watchdog \in {ev[e].watchdog, "off"}
    BY <1>0
  <2>2. ev' = [ev EXCEPT ![e] = h] /\ ev[e].stage = "completed"
    BY <1>5 DEF AbortWatchdog
  <2> HIDE DEF h
  <2> QED
    BY <1>2, <2>1, <2>2
<1>6. CASE BeginSend(e)
  <2> DEFINE h == [ev[e] EXCEPT !.stage = "sending"]
  <2>1. h \in Handler /\ h.stage = "sending" /\ h.key = ev[e].key
        /\ h.recovered = ev[e].recovered /\ h.watchdog = ev[e].watchdog
    BY <1>0
  <2>2. ev' = [ev EXCEPT ![e] = h]
    BY <1>6 DEF BeginSend
  <2> HIDE DEF h
  <2> QED
    BY <1>2, <2>1, <2>2
<1>7. ASSUME NEW stage \in {"sent", "unsent"}, NEW d \in BOOLEAN,
             ev' = [ev EXCEPT ![e].stage = stage, ![e].delivered = d]
      PROVE  RowsFollow /\ FreshBeforeStart'
  <2> DEFINE h == [ev[e] EXCEPT !.stage = stage, !.delivered = d]
  <2>1. h \in Handler /\ h.stage \in {"sent", "unsent"} /\ h.key = ev[e].key
        /\ h.recovered = ev[e].recovered /\ h.watchdog = ev[e].watchdog
    BY <1>0
  <2>2. ev' = [ev EXCEPT ![e] = h]
    BY <1>7
  <2> HIDE DEF h
  <2> QED
    BY <1>2, <2>1, <2>2
<1>8. CASE SendSucceeds(e) \/ SendFails(e)
  BY <1>7, <1>8 DEF SendSucceeds, SendFails
<1>9. CASE WatchdogWakes(e)
  <2>1. PICK w \in {"armed", "off"} : ev' = [ev EXCEPT ![e].watchdog = w]
    BY <1>9 DEF WatchdogWakes
  <2> DEFINE h == [ev[e] EXCEPT !.watchdog = w]
  <2>2. h \in Handler /\ h.stage = ev[e].stage /\ h.key = ev[e].key
        /\ h.recovered = ev[e].recovered /\ h.watchdog = w
    BY <1>0
  <2>3. ev' = [ev EXCEPT ![e] = h] /\ ev[e].stage \notin {"free", "queued"}
    BY <1>0, <1>9, <2>1 DEF WatchdogWakes, FreshBeforeStart
  <2> HIDE DEF h
  <2> QED
    BY <1>2, <2>2, <2>3
<1>10. CASE WatchdogTells(e)
  <2> DEFINE h == [ev[e] EXCEPT !.watchdog = "off", !.recovered = TRUE]
  <2>1. h \in Handler /\ h.stage = ev[e].stage /\ h.key = ev[e].key
    BY <1>0
  <2>2. ev' = [ev EXCEPT ![e] = h] /\ ev[e].watchdog = "closed" /\ ev[e].stage \notin {"free", "queued"}
    BY <1>0, <1>10 DEF WatchdogTells, FreshBeforeStart
  <2> HIDE DEF h
  <2> QED
    BY <1>2, <2>1, <2>2
<1> QED
  BY <1>3, <1>4, <1>5, <1>6, <1>8, <1>9, <1>10

\* The steps of a task, all together.
LEMMA TaskRows ==
  ASSUME LedgerInv, FreshBeforeStart, NEW e \in Events, TaskStep(e), faults' = 0
  PROVE  RowsFollow /\ FreshBeforeStart'
<1>1. CASE NothingToDeliver(e) \/ TargetUnresolved(e) \/ SuppressDuplicate(e) \/ ReportSend(e)
  <2>1. \E s \in SendStatus \ {"pending"} : Finish(e, s) /\ Fired(e)
    BY <1>1 DEF NothingToDeliver, TargetUnresolved, SuppressDuplicate, ReportSend,
                At, SendStatus, Fired
  <2> QED
    BY <2>1, FinishPays
<1> QED
  BY <1>1, StartOwes, WatchdogPays, WorkOwes DEF TaskStep, Conclude, Watchdog

\* A scheduler or a process, while nothing fails, starts nothing and gives up nothing.
LEMMA SchedulerRows ==
  ASSUME LedgerInv, FreshBeforeStart, NEW p \in Procs, Scheduler(p), faults' = 0
  PROVE  RowsFollow /\ FreshBeforeStart'
<1>0. /\ ev \in [Events -> Handler] /\ rows \in Seq(Rows) /\ now \in Nat /\ faults \in Nat
      /\ RowsInPast /\ batch \in [Procs -> SUBSET Keys]
  BY DEF LedgerInv, TypeInv, TypeOK
<1>1. ASSUME NEW k \in batch[p], HandOver(p, k) PROVE RowsFollow /\ FreshBeforeStart'
  <2>1. PICK e \in FreeEvents : ev' = [ev EXCEPT ![e] = [Idle EXCEPT !.stage = "queued", !.key = k, !.proc = p]]
    BY <1>1 DEF HandOver
  <2>2. /\ ev'[e].stage = "queued" /\ ~ ev'[e].recovered /\ ev'[e].watchdog = "off"
        /\ ev[e].stage = "free" /\ e \in Events
        /\ \A x \in Events \ {e} : ev'[x] = ev[x]
    BY <1>0, <2>1 DEF Idle, FreeEvents
  <2>3. \A q \in Keys : Owing(q) \subseteq Owing(q)'
    BY <2>2 DEF Owing, InHandler
  <2>4. FreshBeforeStart'
    BY <2>2 DEF FreshBeforeStart
  <2> QED
    BY <1>1, <2>3, <2>4, QuietRows DEF HandOver
<1>2. ASSUME NEW k \in batch[p], TargetMissing(p, k) PROVE RowsFollow /\ FreshBeforeStart'
  <2>1. rows' = Recorded(k, "target_missing") /\ ev' = ev /\ k \in Keys
    BY <1>0, <1>2 DEF TargetMissing, Save, Lose
  <2>2. OpensNone(rows')
    BY <1>0, <2>1, RecordCloses DEF SendStatus
  <2> QED
    BY <2>1, <2>2 DEF RowsFollow, Follow, OpensNone, Owing, FreshBeforeStart
<1>3. ASSUME rows' = rows, ev' = ev PROVE RowsFollow /\ FreshBeforeStart'
  BY <1>3, QuietRows DEF Owing, FreshBeforeStart
<1> QED
  BY <1>1, <1>2, <1>3 DEF Scheduler, ScanFiles, ClaimDue, HandOverRefused, Mark, SchedulerPanics

LEMMA ProcessRows ==
  ASSUME LedgerInv, FreshBeforeStart, NEW p \in Procs, Process(p), Undisturbed'
  PROVE  RowsFollow /\ FreshBeforeStart'
<1>0. rows \in Seq(Rows) /\ faults \in Nat /\ crashes \in Nat /\ faults' = 0 /\ crashes' = 0
  BY DEF LedgerInv, TypeInv, TypeOK, Undisturbed
<1>1. CASE Recover(p)
  <2>1. rows' = Closed(StaleRows, "send_failed") /\ ev' = ev
    BY <1>0, <1>1 DEF Recover, Save, Lose
  <2>2. OpensNone(rows')
    BY <1>0, <2>1, UpdateCloses DEF SendStatus
  <2> QED
    BY <2>1, <2>2 DEF RowsFollow, Follow, OpensNone, Owing, FreshBeforeStart
<1>2. CASE Boot(p) \/ DedupExpires(p)
  BY <1>2, QuietRows DEF Boot, DedupExpires, Owing, FreshBeforeStart
<1>3. ~ Crash(p) /\ ~ ReceiverDies(p)
  <2>1. crashes' # crashes + 1 /\ faults' # faults + 1
    BY <1>0
  <2> QED
    BY <2>1 DEF Crash, ReceiverDies, Lose
<1> QED
  BY <1>1, <1>2, <1>3 DEF Process

\* A step into an undisturbed state is from one.
LEMMA StillUndisturbed ==
  ASSUME TypeInv, [Next]_vars, Undisturbed'
  PROVE  Undisturbed /\ faults' = 0 /\ crashes' = 0
<1>1. faults' \in {faults, faults + 1} /\ crashes' \in {crashes, crashes + 1}
  BY StepFaults
<1> QED
  BY <1>1 DEF TypeInv, TypeOK, Undisturbed

LEMMA RowInit == Init => RowInv
<1> SUFFICES ASSUME Init PROVE RowInv
  OBVIOUS
<1>1. LedgerInv
  BY LedgerInit
<1>2. FreshBeforeStart
  BY DEF Init, FreshBeforeStart, Idle
<1>3. ASSUME NEW k \in Keys PROVE Cardinality(OpenFor(k)) <= Cardinality(Owing(k))
  <2>1. OpenFor(k) = {} /\ Owing(k) = {}
    BY DEF Init, OpenFor, Owing, Idle, InHandler
  <2> QED
    BY <2>1, FS_EmptySet
<1> QED
  BY <1>1, <1>2, <1>3 DEF RowInv, RowsAreOwed

LEMMA RowStep ==
  ASSUME RowInv, [Next]_vars
  PROVE  RowInv'
<1>1. LedgerInv /\ LedgerInv' /\ TypeInv /\ TypeInv'
  BY LedgerStep DEF RowInv, LedgerInv
<1>2. ASSUME Undisturbed' PROVE FreshBeforeStart' /\ RowsAreOwed'
  <2>1. Undisturbed /\ faults' = 0 /\ FreshBeforeStart /\ RowsAreOwed
    BY <1>1, <1>2, StillUndisturbed DEF RowInv
  <2>2. CASE Clock \/ UNCHANGED vars
    <3>1. rows' = rows /\ ev' = ev
      BY <2>2 DEF Clock, vars
    <3> QED
      BY <1>1, <2>1, <3>1, QuietRows, FollowedRowsAreOwed DEF Owing, FreshBeforeStart
  <2>3. RowsFollow /\ FreshBeforeStart'
    BY <1>1, <1>2, <2>1, <2>2, TaskRows, SchedulerRows, ProcessRows, QuietRows
       DEF Next, TaskStep, Clock, vars, Owing, FreshBeforeStart
  <2> QED
    BY <1>1, <2>1, <2>3, FollowedRowsAreOwed
<1> QED
  BY <1>1, <1>2 DEF RowInv

\* While nothing fails, a row left open has a task at work for its slot: no
\* run ends, by its report, its watchdog or its late answer, and leaves the
\* history saying "running".
THEOREM OpenRowsAreLive == Spec => []OpenRowHasLiveTask
<1>1. RowInv /\ [Next]_vars => RowInv'
  BY RowStep
<1>2. ASSUME RowInv PROVE OpenRowHasLiveTask
  <2> SUFFICES ASSUME Undisturbed, NEW i \in DOMAIN rows, Open(i)
               PROVE  \E e \in Events : ev[e].key = rows[i].key /\ ev[e].stage \in InHandler
    BY DEF OpenRowHasLiveTask
  <2> DEFINE k == rows[i].key
  <2>1. rows \in Seq(Rows) /\ k \in Keys
    <3>1. rows \in [1 .. Len(rows) -> Rows]
      BY <1>2, LenProperties DEF RowInv, LedgerInv, TypeInv, TypeOK
    <3> QED
      BY <1>2, <3>1 DEF RowInv, LedgerInv, TypeInv, TypeOK, Rows
  <2>2. IsFiniteSet(OpenFor(k)) /\ OpenFor(k) # {} /\ IsFiniteSet(Owing(k))
    <3>1. OpenFor(k) = OpenIn(rows, k) /\ i \in OpenFor(k) /\ Owing(k) \in SUBSET Events
      BY DEF OpenFor, OpenIn, Open, Owing
    <3> QED
      BY <2>1, <3>1, RowsCount, TasksCount
  <2>3. Cardinality(OpenFor(k)) <= Cardinality(Owing(k))
    BY <1>2, <2>1 DEF RowInv, RowsAreOwed
  <2>4. Owing(k) # {}
    <3>1. Cardinality(OpenFor(k)) \in Nat \ {0} /\ Cardinality(Owing(k)) \in Nat
      BY <2>2, FS_CardinalityType, FS_EmptySet
    <3>2. Cardinality(Owing(k)) # 0
      BY <2>3, <3>1
    <3> QED
      BY <2>2, <3>2, FS_EmptySet
  <2> QED
    BY <2>4 DEF Owing
<1> QED
  BY RowInit, <1>1, <1>2, PTL DEF Spec

-----------------------------------------------------------------------------
(* No claim is forgotten.                                                  *)

NoneDeaf == \A p \in Procs : up[p] # "deaf"

InTick(k)   == \E p \in Procs : k \in batch[p]
HasTask(k)  == \E e \in Events : Fired(e) /\ ev[e].key = k
NoTargetRow(k) == \E i \in DOMAIN rows : rows[i].key = k /\ rows[i].send = "target_missing"
Handled(k)  == InTick(k) \/ HasTask(k) \/ NoTargetRow(k)

ClaimInv == LedgerInv /\ (Undisturbed => NoneDeaf /\ \A k \in claimed : Handled(k))

\* A task and a row that say what became of a slot stay.
LEMMA HandledStays ==
  ASSUME LedgerInv, [Next]_vars, NEW k, HasTask(k) \/ NoTargetRow(k)
  PROVE  (HasTask(k) \/ NoTargetRow(k))'
<1>0. ev \in [Events -> Handler] /\ TypeInv /\ DeliveredPastSend
  BY DEF LedgerInv, TypeInv, TypeOK
<1>1. CASE NoTargetRow(k)
  <2>1. Frozen(rows')
    BY LedgerStep DEF LedgerKept
  <2> QED
    BY <1>1, <2>1 DEF NoTargetRow, Frozen
<1>2. ASSUME NEW e \in Events, Fired(e), ev[e].key = k PROVE HasTask(k)'
  <2>1. ASSUME NEW p \in Procs, Scheduler(p) PROVE ev'[e] = ev[e]
    <3>1. ASSUME NEW q \in batch[p], HandOver(p, q) PROVE ev'[e] = ev[e]
      <4>1. PICK x \in FreeEvents : ev' = [ev EXCEPT ![x] = [Idle EXCEPT !.stage = "queued", !.key = q, !.proc = p]]
        BY <3>1 DEF HandOver
      <4> QED
        BY <1>0, <1>2, <4>1 DEF FreeEvents, Fired
    <3> QED
      BY <2>1, <3>1 DEF Scheduler, ScanFiles, ClaimDue, HandOverRefused, TargetMissing, Mark, SchedulerPanics
  <2>2. CASE KeepsSlots
    BY <1>2, <2>2 DEF KeepsSlots, HasTask, Fired
  <2>3. CASE ev'[e] = ev[e]
    BY <1>2, <2>3 DEF HasTask, Fired
  <2> QED
    BY <1>0, <2>1, <2>2, <2>3, TaskKeepsSlots, ProcessKeepsSlots DEF Next, TaskStep, Clock, vars
<1> QED
  BY <1>1, <1>2 DEF HasTask

\* A slot leaves a tick, while nothing fails, with a task or a row.
LEMMA TickHandles ==
  ASSUME LedgerInv, NoneDeaf, NEW p \in Procs, Scheduler(p), faults' = 0,
         NEW q \in Procs, NEW k \in batch[q]
  PROVE  Handled(k)'
<1>0. /\ ev \in [Events -> Handler] /\ rows \in Seq(Rows) /\ now \in Nat /\ faults \in Nat
      /\ RowsInPast /\ batch \in [Procs -> SUBSET Keys]
  BY DEF LedgerInv, TypeInv, TypeOK
<1>1. CASE k \in batch'[q]
  BY <1>1 DEF Handled, InTick
<1>2. CASE ScanFiles(p) \/ ClaimDue(p)
  <2>1. batch[p] = {} /\ \A x \in Procs : x # p => batch'[x] = batch[x]
    BY <1>0, <1>2 DEF ScanFiles, ClaimDue, Ticking
  <2> QED
    BY <1>1, <2>1
<1>3. ASSUME NEW c \in batch[p], HandOver(p, c) PROVE Handled(k)'
  <2>1. PICK e \in FreeEvents : ev' = [ev EXCEPT ![e] = [Idle EXCEPT !.stage = "queued", !.key = c, !.proc = p]]
    BY <1>3 DEF HandOver
  <2>2. ev'[e].stage = "queued" /\ ev'[e].key = c /\ e \in Events
    BY <1>0, <2>1 DEF Idle, FreeEvents
  <2>3. batch' = [batch EXCEPT ![p] = batch[p] \ {c}]
    BY <1>3 DEF HandOver, Rest
  <2>4. CASE c = k
    BY <2>2, <2>4 DEF Handled, HasTask, Fired
  <2>5. CASE c # k
    BY <1>0, <1>1, <2>3, <2>5
  <2> QED
    BY <2>4, <2>5
<1>4. ASSUME NEW c \in batch[p], TargetMissing(p, c) PROVE Handled(k)'
  <2>1. rows' = Recorded(c, "target_missing") /\ c \in Keys
        /\ batch' = [batch EXCEPT ![p] = batch[p] \ {c}]
    BY <1>0, <1>4 DEF TargetMissing, Save, Lose, Rest
  <2>2. PICK i \in DOMAIN rows' : rows'[i] = Row(c, "target_missing")
    BY <1>0, <2>1, RecordedKeeps DEF SendStatus
  <2>3. CASE c = k
    BY <2>2, <2>3 DEF Handled, NoTargetRow, Row
  <2>4. CASE c # k
    BY <1>0, <1>1, <2>1, <2>4
  <2> QED
    BY <2>3, <2>4
<1>5. CASE Mark(p)
  BY <1>1, <1>5 DEF Mark
<1>6. ~ SchedulerPanics(p) /\ \A c \in batch[p] : ~ HandOverRefused(p, c)
  <2>1. faults' # faults + 1
    BY <1>0
  <2> QED
    BY <2>1 DEF SchedulerPanics, Lose, HandOverRefused, NoneDeaf
<1> QED
  BY <1>2, <1>3, <1>4, <1>5, <1>6 DEF Scheduler

\* Only a claim adds to the claims, and what it adds is in the tick.
LEMMA ClaimsAreTaken ==
  ASSUME TypeInv, [Next]_vars, NEW k \in claimed' \ claimed
  PROVE  InTick(k)'
<1>1. ASSUME NEW p \in Procs, ClaimDue(p) PROVE InTick(k)'
  BY <1>1 DEF ClaimDue, InTick, TypeInv, TypeOK
<1>2. ASSUME NEW p \in Procs, Scheduler(p), ~ ClaimDue(p) PROVE claimed' = claimed
  BY <1>2 DEF Scheduler, ScanFiles, HandOver, HandOverRefused, TargetMissing, Mark, SchedulerPanics
<1>3. ASSUME NEW e \in Events, TaskStep(e) PROVE claimed' = claimed
  BY <1>3 DEF TaskStep, Start, RunReturns, Conclude, SkipLateResult, AbortWatchdog,
              NothingToDeliver, TargetUnresolved, SuppressDuplicate, BeginSend, SendSucceeds,
              SendFails, ReportSend, Finish, Watchdog, WatchdogWakes, WatchdogCloses, WatchdogTells
<1>4. ASSUME NEW p \in Procs, Process(p) PROVE claimed' = claimed
  BY <1>4 DEF Process, Recover, Crash, Boot, ReceiverDies, DedupExpires
<1>5. CASE Clock \/ UNCHANGED vars
  BY <1>5 DEF Clock, vars
<1> QED
  BY <1>1, <1>2, <1>3, <1>4, <1>5 DEF Next, TaskStep

\* While nothing fails, no receiver dies, and only a scheduler empties a tick.
LEMMA TicksStay ==
  ASSUME TypeInv, NoneDeaf, [Next]_vars, Undisturbed'
  PROVE  /\ NoneDeaf'
         /\ batch' = batch \/ \E p \in Procs : Scheduler(p)
<1>0. faults' # faults + 1 /\ crashes' # crashes + 1 /\ up \in [Procs -> {"down", "starting", "up", "deaf"}]
  BY DEF TypeInv, TypeOK, Undisturbed
<1>1. ASSUME NEW p \in Procs, Scheduler(p) PROVE up' = up
  BY <1>1 DEF Scheduler, ScanFiles, ClaimDue, HandOver, HandOverRefused, TargetMissing, Mark, SchedulerPanics
<1>2. ASSUME NEW e \in Events, TaskStep(e) PROVE up' = up /\ batch' = batch
  BY <1>2 DEF TaskStep, Start, RunReturns, Conclude, SkipLateResult, AbortWatchdog,
              NothingToDeliver, TargetUnresolved, SuppressDuplicate, BeginSend, SendSucceeds,
              SendFails, ReportSend, Finish, Watchdog, WatchdogWakes, WatchdogCloses, WatchdogTells
<1>3. ASSUME NEW p \in Procs, Process(p) PROVE NoneDeaf' /\ batch' = batch
  BY <1>0, <1>3 DEF Process, Recover, Crash, Boot, ReceiverDies, DedupExpires, Lose, NoneDeaf
<1>4. CASE Clock \/ UNCHANGED vars
  BY <1>4 DEF Clock, vars, NoneDeaf
<1> QED
  BY <1>1, <1>2, <1>3, <1>4 DEF Next, TaskStep, NoneDeaf

LEMMA ClaimStep ==
  ASSUME ClaimInv, [Next]_vars
  PROVE  ClaimInv'
<1>1. LedgerInv /\ LedgerInv' /\ TypeInv
  BY LedgerStep DEF ClaimInv, LedgerInv
<1>2. ASSUME Undisturbed' PROVE NoneDeaf' /\ \A k \in claimed' : Handled(k)'
  <2>1. Undisturbed /\ faults' = 0 /\ NoneDeaf /\ \A k \in claimed : Handled(k)
    BY <1>1, <1>2, StillUndisturbed DEF ClaimInv
  <2>2. NoneDeaf' /\ (batch' = batch \/ \E p \in Procs : Scheduler(p))
    BY <1>1, <1>2, <2>1, TicksStay
  <2>3. ASSUME NEW k \in claimed' PROVE Handled(k)'
    <3>1. CASE k \notin claimed
      BY <1>1, <3>1, ClaimsAreTaken DEF Handled
    <3>2. CASE HasTask(k) \/ NoTargetRow(k)
      BY <1>1, <3>2, HandledStays DEF Handled
    <3>3. CASE InTick(k) /\ batch' = batch
      BY <3>3 DEF Handled, InTick
    <3>4. ASSUME InTick(k), NEW p \in Procs, Scheduler(p) PROVE Handled(k)'
      BY <1>1, <2>1, <3>4, TickHandles DEF InTick
    <3> QED
      BY <2>1, <2>2, <3>1, <3>2, <3>3, <3>4 DEF Handled
  <2> QED
    BY <2>2, <2>3
<1> QED
  BY <1>1, <1>2 DEF ClaimInv

\* A claim is one write ahead of the work it stands for, and never given back:
\* while nothing fails, the work is still to be found.
THEOREM ClaimsAreHandled == Spec => []ClaimedIsHandled
<1>1. Init => ClaimInv
  BY LedgerInit DEF Init, ClaimInv, NoneDeaf
<1>2. ClaimInv /\ [Next]_vars => ClaimInv'
  BY ClaimStep
<1>3. ClaimInv => ClaimedIsHandled
  BY DEF ClaimInv, Handled, InTick, HasTask, NoTargetRow, ClaimedIsHandled
<1> QED
  BY <1>1, <1>2, <1>3, PTL DEF Spec

-----------------------------------------------------------------------------
(* Resends over local files, in one process.                               *)

FiredFor(k) == {e \in Events : Fired(e) /\ ev[e].key = k}

\* No tick fires slot k again: it is in none, and handed over, past, or marked.
Over(k) == /\ \A p \in Procs : k \notin batch[p]
           /\ \/ \E p \in Procs : handed[p] = k
              \/ k[2] < PeriodOf(now)
              \/ lastRun[JobOf(k)] # -1 /\ k[2] <= PeriodOf(lastRun[JobOf(k)])

\* A tick and a mark are of the present or the past.
NothingAhead == /\ \A j \in Jobs : lastRun[j] <= now
                /\ \A p \in Procs : \A k \in batch[p] : k[2] <= PeriodOf(now)
                /\ \A p \in Procs : handed[p] # None => handed[p][2] <= PeriodOf(now)

\* A slot is fired once more than things failed only if it is over.
Paid(k) == \/ Cardinality(FiredFor(k)) <= crashes + faults
           \/ Cardinality(FiredFor(k)) <= 1 + crashes + faults /\ Over(k)

ResendInv == LedgerInv /\ NothingAhead /\ \A k \in Keys : Paid(k)

\* Periods, in their order.
LEMMA PeriodType ==
  ASSUME NEW t \in Nat
  PROVE  PeriodOf(t) \in Nat
BY CronAssumption DEF PeriodOf

LEMMA PeriodGrows ==
  ASSUME NEW s \in Nat, NEW t \in Nat, s <= t
  PROVE  PeriodOf(s) <= PeriodOf(t)
<1> DEFINE p == s \div Period
           q == t \div Period
<1>1. Period \in Nat \ {0}
  BY CronAssumption
<1>2. /\ p \in Nat /\ q \in Nat
      /\ Period * p <= s /\ t < Period * (q + 1)
  BY <1>1
<1>3. ASSUME q < p PROVE FALSE
  <2>1. PICK m \in Nat : p = q + 1 + m
    <3>1. p - (q + 1) \in Nat /\ p = q + 1 + (p - (q + 1))
      BY <1>2, <1>3
    <3> QED
      BY <3>1
  <2>2. Period * p = Period * (q + 1) + Period * m
    BY <1>1, <1>2, <2>1
  <2>3. Period * m \in Nat /\ Period * (q + 1) \in Nat /\ Period * p \in Nat
    BY <1>1, <1>2, <2>1
  <2> HIDE DEF p, q
  <2> QED
    BY <1>2, <2>2, <2>3
<1> QED
  BY <1>2, <1>3 DEF PeriodOf

\* The least a step must show for what is paid to stay paid.
LEMMA StaysPaid ==
  ASSUME TypeInv, TypeInv', [Next]_vars, NEW k \in Keys, Paid(k), FiredFor(k)' = FiredFor(k),
         (Over(k) => Over(k)') \/ crashes' = crashes + 1 \/ faults' = faults + 1
  PROVE  Paid(k)'
<1>1. faults' \in {faults, faults + 1} /\ crashes' \in {crashes, crashes + 1}
  BY StepFaults
<1>2. FiredFor(k) \in SUBSET Events
  BY DEF FiredFor
<1>3. Cardinality(FiredFor(k)) \in Nat /\ crashes \in Nat /\ faults \in Nat
  BY <1>2, TasksCount, FS_CardinalityType DEF TypeInv, TypeOK
<1> QED
  BY <1>1, <1>3 DEF Paid

\* Slots, and the instants that go with them.
LEMMA SlotInstants ==
  ASSUME TypeInv
  PROVE  /\ now \in Nat /\ PeriodOf(now) \in Nat
         /\ \A k \in Keys : JobOf(k) \in Jobs /\ k[2] \in Nat
         /\ \A j \in Jobs : lastRun[j] \in Nat \cup {-1}
         /\ \A p \in Procs : batch[p] \subseteq Keys /\ (handed[p] # None => handed[p] \in Keys)
BY PeriodType DEF TypeInv, TypeOK, Keys, JobOf

\* A due slot is not over: its job was not marked in this period.
LEMMA DueIsNotOver ==
  ASSUME TypeInv, NothingAhead, NEW k \in DueKeys, \A p \in Procs : handed[p] = None
  PROVE  k \in Keys /\ k[2] = PeriodOf(now) /\ ~ Over(k)
<1>1. PICK j \in Jobs : /\ k = <<j, PeriodOf(now)>>
                        /\ lastRun[j] = -1 \/ PeriodOf(lastRun[j]) # PeriodOf(now)
  BY DEF DueKeys
<1>2. k \in Keys /\ k[2] = PeriodOf(now) /\ JobOf(k) = j /\ PeriodOf(now) \in Nat
  <2>1. PeriodOf(now) \in Nat
    BY SlotInstants
  <2>2. PICK t \in Nat : t = PeriodOf(now) /\ k = <<j, t>>
    BY <1>1, <2>1
  <2>3. k \in Jobs \X Nat /\ k[1] = j /\ k[2] = t
    BY <2>2
  <2> QED
    BY <2>1, <2>2, <2>3 DEF Keys, JobOf
<1>3. \A p \in Procs : handed[p] # k
  BY <1>2, CronAssumption DEF Keys
<1>4. lastRun[j] # -1 => PeriodOf(lastRun[j]) \in Nat /\ PeriodOf(lastRun[j]) <= PeriodOf(now)
  BY SlotInstants, PeriodGrows, PeriodType DEF NothingAhead
<1>5. lastRun[j] # -1 => ~ (k[2] <= PeriodOf(lastRun[j]))
  BY <1>1, <1>2, <1>4
<1> QED
  BY <1>2, <1>3, <1>5 DEF Over

\* A tick takes slots up that are not over, and so not yet fired more than paid for.
LEMMA TickPays ==
  ASSUME ResendInv, TypeInv', [Next]_vars, \A q, r \in Procs : q = r,
         NEW p \in Procs, ScanFiles(p) \/ ClaimDue(p)
  PROVE  NothingAhead' /\ \A k \in Keys : Paid(k)'
<1>0. TypeInv /\ NothingAhead /\ batch \in [Procs -> SUBSET Keys]
  BY DEF ResendInv, LedgerInv, TypeInv, TypeOK
<1>1. /\ now' = now /\ lastRun' = lastRun /\ handed' = handed /\ ev' = ev
      /\ handed[p] = None /\ batch'[p] \subseteq DueKeys
  BY <1>0 DEF ScanFiles, ClaimDue, Ticking, Claimable
<1>2. \A k \in DueKeys : k \in Keys /\ k[2] = PeriodOf(now) /\ ~ Over(k)
  BY <1>0, <1>1, DueIsNotOver
<1>3. NothingAhead'
  BY <1>0, <1>1, <1>2, SlotInstants DEF NothingAhead
<1>4. ASSUME NEW k \in Keys PROVE Paid(k)'
  <2>1. Over(k) => Over(k)'
    BY <1>1, <1>2 DEF Over
  <2>2. FiredFor(k)' = FiredFor(k)
    BY <1>1 DEF FiredFor, Fired
  <2> QED
    BY <1>0, <2>1, <2>2, StaysPaid DEF ResendInv
<1> QED
  BY <1>3, <1>4

\* A slot handed over was not over, and is now.
LEMMA HandOverPays ==
  ASSUME ResendInv, TypeInv', [Next]_vars, \A q, r \in Procs : q = r,
         NEW p \in Procs, NEW c \in batch[p], HandOver(p, c)
  PROVE  NothingAhead' /\ \A k \in Keys : Paid(k)'
<1>0. /\ TypeInv /\ NothingAhead /\ batch \in [Procs -> SUBSET Keys] /\ ev \in [Events -> Handler]
      /\ handed \in [Procs -> Keys \cup {None}] /\ c \in Keys
      /\ crashes \in Nat /\ faults \in Nat
  BY DEF ResendInv, LedgerInv, TypeInv, TypeOK
<1>1. /\ now' = now /\ lastRun' = lastRun /\ crashes' = crashes /\ faults' = faults
      /\ handed[p] = None /\ handed' = [handed EXCEPT ![p] = c]
      /\ batch' = [batch EXCEPT ![p] = batch[p] \ {c}]
  BY DEF HandOver, Rest
<1>2. PICK e \in FreeEvents : ev' = [ev EXCEPT ![e] = [Idle EXCEPT !.stage = "queued", !.key = c, !.proc = p]]
  BY DEF HandOver
<1>3. /\ e \in Events /\ ~ Fired(e) /\ ev'[e].stage = "queued" /\ ev'[e].key = c
      /\ \A x \in Events \ {e} : ev'[x] = ev[x]
  BY <1>0, <1>2 DEF FreeEvents, Fired, Idle
<1>4. NothingAhead'
  BY <1>0, <1>1, SlotInstants DEF NothingAhead
<1>5. ASSUME NEW k \in Keys, k # c PROVE Paid(k)'
  <2>1. FiredFor(k)' = FiredFor(k)
    BY <1>3, <1>5 DEF FiredFor, Fired
  <2>2. \A q \in Procs : handed[q] # k
    BY <1>1, CronAssumption DEF Keys
  <2>3. Over(k) => Over(k)'
    BY <1>0, <1>1, <2>2 DEF Over
  <2> QED
    BY <1>0, <2>1, <2>3, StaysPaid DEF ResendInv
<1>6. Paid(c)'
  <2>1. ~ Over(c) /\ Over(c)'
    BY <1>0, <1>1 DEF Over
  <2>2. FiredFor(c)' = FiredFor(c) \cup {e} /\ e \notin FiredFor(c) /\ FiredFor(c) \in SUBSET Events
    BY <1>3 DEF FiredFor, Fired
  <2>3. /\ Cardinality(FiredFor(c)) \in Nat
        /\ Cardinality(FiredFor(c)') = Cardinality(FiredFor(c)) + 1
    BY <2>2, TasksCount, FS_CardinalityType, FS_AddElement
  <2>4. Cardinality(FiredFor(c)) <= crashes + faults
    BY <1>0, <2>1 DEF ResendInv, Paid
  <2> QED
    BY <1>0, <1>1, <2>1, <2>3, <2>4 DEF Paid
<1> QED
  BY <1>4, <1>5, <1>6

\* A mark puts its slot behind; a mark that is lost is a fault.
LEMMA MarkPays ==
  ASSUME ResendInv, TypeInv', [Next]_vars, \A q, r \in Procs : q = r,
         NEW p \in Procs, Mark(p)
  PROVE  NothingAhead' /\ \A k \in Keys : Paid(k)'
<1>0. /\ TypeInv /\ NothingAhead /\ lastRun \in [Jobs -> Nat \cup {-1}]
      /\ handed \in [Procs -> Keys \cup {None}] /\ handed[p] \in Keys
  BY DEF ResendInv, LedgerInv, TypeInv, TypeOK, Mark
<1>1. /\ now' = now /\ batch' = batch /\ ev' = ev /\ handed' = [handed EXCEPT ![p] = None]
      /\ \/ lastRun' = [lastRun EXCEPT ![JobOf(handed[p])] = now]
         \/ lastRun' = lastRun /\ faults' = faults + 1
  BY DEF Mark, Lose
<1>2. /\ JobOf(handed[p]) \in Jobs /\ now \in Nat /\ handed[p][2] <= PeriodOf(now)
      /\ \A j \in Jobs : lastRun[j] <= now
  <2>1. now \in Nat /\ JobOf(handed[p]) \in Jobs
    BY <1>0, SlotInstants
  <2>2. handed[p] # None
    BY DEF Mark
  <2> QED
    BY <1>0, <2>1, <2>2 DEF NothingAhead
<1>3. NothingAhead'
  BY <1>0, <1>1, <1>2 DEF NothingAhead
<1>4. ASSUME NEW k \in Keys PROVE Paid(k)'
  <2>1. FiredFor(k)' = FiredFor(k)
    BY <1>1 DEF FiredFor, Fired
  <2>2. ASSUME lastRun' = [lastRun EXCEPT ![JobOf(handed[p])] = now], Over(k) PROVE Over(k)'
    <3>1. CASE handed[p] = k
      <4>1. lastRun'[JobOf(k)] = now /\ now # -1
        BY <1>0, <1>2, <2>2, <3>1
      <4> QED
        BY <1>1, <1>2, <2>2, <3>1, <4>1 DEF Over
    <3>2. CASE k[2] < PeriodOf(now)
      BY <1>1, <2>2, <3>2 DEF Over
    <3>3. CASE lastRun[JobOf(k)] # -1 /\ k[2] <= PeriodOf(lastRun[JobOf(k)])
      <4>1. JobOf(k) \in Jobs /\ k[2] \in Nat /\ lastRun[JobOf(k)] \in Nat
        BY <1>0, <3>3, SlotInstants
      <4>2. lastRun'[JobOf(k)] \in {lastRun[JobOf(k)], now}
        BY <1>0, <2>2, <4>1
      <4>3. PeriodOf(lastRun[JobOf(k)]) <= PeriodOf(now)
            /\ PeriodOf(lastRun[JobOf(k)]) \in Nat /\ PeriodOf(now) \in Nat
        BY <1>2, <4>1, PeriodGrows, PeriodType
      <4>4. lastRun'[JobOf(k)] # -1 /\ k[2] <= PeriodOf(lastRun'[JobOf(k)])
        BY <1>2, <3>3, <4>1, <4>2, <4>3
      <4> QED
        BY <1>1, <2>2, <4>4 DEF Over
    <3> QED
      BY <2>2, <3>1, <3>2, <3>3 DEF Over
  <2> QED
    BY <1>0, <1>1, <2>1, <2>2, StaysPaid DEF ResendInv
<1> QED
  BY <1>3, <1>4

\* The other steps of a scheduler: a slot leaves the tick or all of it is lost.
LEMMA TickEndPays ==
  ASSUME ResendInv, TypeInv', [Next]_vars, \A q, r \in Procs : q = r, NEW p \in Procs,
         \/ \E c \in batch[p] : HandOverRefused(p, c) \/ TargetMissing(p, c)
         \/ SchedulerPanics(p)
  PROVE  NothingAhead' /\ \A k \in Keys : Paid(k)'
<1>0. /\ TypeInv /\ NothingAhead /\ batch \in [Procs -> SUBSET Keys]
      /\ handed \in [Procs -> Keys \cup {None}]
  BY DEF ResendInv, LedgerInv, TypeInv, TypeOK
<1>1. ASSUME NEW c \in batch[p], HandOverRefused(p, c) \/ TargetMissing(p, c)
      PROVE  /\ now' = now /\ lastRun' = lastRun /\ ev' = ev
             /\ batch' = [batch EXCEPT ![p] = batch[p] \ {c}]
             /\ \/ handed' = handed
                \/ handed[p] = None /\ handed' = [handed EXCEPT ![p] = c]
  <2>1. CASE HandOverRefused(p, c)
    BY <2>1 DEF HandOverRefused, Rest
  <2>2. CASE TargetMissing(p, c)
    BY <2>2 DEF TargetMissing, Rest
  <2> QED
    BY <1>1, <2>1, <2>2
<1>2. CASE SchedulerPanics(p)
  <2>1. /\ now' = now /\ lastRun' = lastRun /\ ev' = ev /\ faults' = faults + 1
        /\ batch' = [batch EXCEPT ![p] = {}] /\ handed' = [handed EXCEPT ![p] = None]
    BY <1>2 DEF SchedulerPanics, Lose
  <2>2. NothingAhead'
    BY <1>0, <2>1 DEF NothingAhead
  <2>3. \A k \in Keys : FiredFor(k)' = FiredFor(k)
    BY <2>1 DEF FiredFor, Fired
  <2> QED
    BY <1>0, <2>1, <2>2, <2>3, StaysPaid DEF ResendInv
<1>3. ASSUME NEW c \in batch[p], HandOverRefused(p, c) \/ TargetMissing(p, c)
      PROVE  NothingAhead' /\ \A k \in Keys : Paid(k)'
  <2>1. NothingAhead'
    BY <1>0, <1>1, <1>3 DEF NothingAhead
  <2>2. ASSUME NEW k \in Keys PROVE Paid(k)'
    <3>1. FiredFor(k)' = FiredFor(k)
      BY <1>1, <1>3 DEF FiredFor, Fired
    <3>2. handed[p] = None => \A q \in Procs : handed[q] # k
      BY CronAssumption DEF Keys
    <3>3. Over(k) => Over(k)'
      BY <1>0, <1>1, <1>3, <3>2 DEF Over
    <3> QED
      BY <1>0, <3>1, <3>3, StaysPaid DEF ResendInv
  <2> QED
    BY <2>1, <2>2
<1> QED
  BY <1>2, <1>3

\* Time passes: what is over stays over.
LEMMA ClockPays ==
  ASSUME ResendInv, TypeInv', Clock
  PROVE  NothingAhead' /\ \A k \in Keys : Paid(k)'
<1>0. TypeInv /\ NothingAhead /\ [Next]_vars
  BY DEF ResendInv, LedgerInv, Next
<1>1. /\ now' = now + 1 /\ batch' = batch /\ handed' = handed /\ lastRun' = lastRun /\ ev' = ev
      /\ now \in Nat /\ PeriodOf(now) \in Nat /\ PeriodOf(now + 1) \in Nat
      /\ PeriodOf(now) <= PeriodOf(now + 1)
  <2>1. now \in Nat
    BY <1>0, SlotInstants
  <2> QED
    BY <2>1, PeriodGrows, PeriodType DEF Clock
<1>2. PeriodOf(now)' = PeriodOf(now + 1)
  BY <1>1 DEF PeriodOf
<1>3. NothingAhead'
  <2>1. \A j \in Jobs : lastRun[j] \in Int /\ lastRun[j] <= now
    BY <1>0, SlotInstants DEF NothingAhead
  <2>2. \A p \in Procs : \A k \in batch[p] : k[2] \in Nat /\ k[2] <= PeriodOf(now)
    BY <1>0, SlotInstants DEF NothingAhead
  <2>3. \A p \in Procs : handed[p] # None => handed[p][2] \in Nat /\ handed[p][2] <= PeriodOf(now)
    BY <1>0, SlotInstants DEF NothingAhead
  <2> QED
    BY <1>1, <1>2, <2>1, <2>2, <2>3 DEF NothingAhead
<1>4. ASSUME NEW k \in Keys PROVE Paid(k)'
  <2>1. FiredFor(k)' = FiredFor(k)
    BY <1>1 DEF FiredFor, Fired
  <2>2. k[2] \in Nat
    BY <1>0, SlotInstants
  <2>3. k[2] < PeriodOf(now) => k[2] < PeriodOf(now)'
    BY <1>1, <1>2, <2>2
  <2>4. PeriodOf(lastRun[JobOf(k)])' = PeriodOf(lastRun[JobOf(k)])
    BY <1>1 DEF PeriodOf
  <2>5. Over(k) => Over(k)'
    BY <1>1, <2>3, <2>4 DEF Over
  <2> QED
    BY <1>0, <2>1, <2>5, StaysPaid DEF ResendInv
<1> QED
  BY <1>3, <1>4

\* Tasks fire nothing; a process that ends loses its tick, and that is counted.
LEMMA OthersPay ==
  ASSUME ResendInv, TypeInv', [Next]_vars,
         \/ \E e \in Events : TaskStep(e)
         \/ \E p \in Procs : Process(p)
         \/ UNCHANGED vars
  PROVE  NothingAhead' /\ \A k \in Keys : Paid(k)'
<1>0. /\ TypeInv /\ NothingAhead /\ ev \in [Events -> Handler]
      /\ batch \in [Procs -> SUBSET Keys] /\ handed \in [Procs -> Keys \cup {None}]
  BY DEF ResendInv, LedgerInv, TypeInv, TypeOK
<1>1. KeepsSlots => \A k \in Keys : FiredFor(k)' = FiredFor(k)
  BY DEF KeepsSlots, FiredFor, Fired
<1>2. ASSUME KeepsSlots, now' = now, lastRun' = lastRun, batch' = batch, handed' = handed
      PROVE  NothingAhead' /\ \A k \in Keys : Paid(k)'
  <2>1. NothingAhead'
    BY <1>0, <1>2 DEF NothingAhead
  <2>2. \A k \in Keys : Over(k) => Over(k)'
    BY <1>2 DEF Over
  <2> QED
    BY <1>0, <1>1, <1>2, <2>1, <2>2, StaysPaid DEF ResendInv
<1>3. ASSUME NEW e \in Events, TaskStep(e) PROVE NothingAhead' /\ \A k \in Keys : Paid(k)'
  <2>1. now' = now /\ lastRun' = lastRun /\ batch' = batch /\ handed' = handed
    BY <1>3 DEF TaskStep, Start, RunReturns, Conclude, SkipLateResult, AbortWatchdog,
                NothingToDeliver, TargetUnresolved, SuppressDuplicate, BeginSend, SendSucceeds,
                SendFails, ReportSend, Finish, Watchdog, WatchdogWakes, WatchdogCloses, WatchdogTells
  <2> QED
    BY <1>0, <1>2, <1>3, <2>1, TaskKeepsSlots
<1>4. ASSUME NEW p \in Procs, Process(p) PROVE NothingAhead' /\ \A k \in Keys : Paid(k)'
  <2>1. KeepsSlots
    BY <1>0, <1>4, ProcessKeepsSlots
  <2>2. CASE Crash(p)
    <3>1. /\ now' = now /\ lastRun' = lastRun /\ crashes' = crashes + 1
          /\ batch' = [batch EXCEPT ![p] = {}] /\ handed' = [handed EXCEPT ![p] = None]
      BY <2>2 DEF Crash
    <3>2. NothingAhead'
      BY <1>0, <3>1 DEF NothingAhead
    <3> QED
      BY <1>0, <1>1, <2>1, <3>1, <3>2, StaysPaid DEF ResendInv
  <2>3. CASE Recover(p) \/ Boot(p) \/ ReceiverDies(p) \/ DedupExpires(p)
    BY <1>2, <2>1, <2>3 DEF Recover, Boot, ReceiverDies, DedupExpires
  <2> QED
    BY <1>4, <2>2, <2>3 DEF Process
<1>5. CASE UNCHANGED vars
  BY <1>2, <1>5 DEF vars, KeepsSlots
<1> QED
  BY <1>3, <1>4, <1>5

LEMMA ResendInit == Init => ResendInv
<1> SUFFICES ASSUME Init PROVE ResendInv
  OBVIOUS
<1>1. LedgerInv
  BY LedgerInit
<1>2. NothingAhead
  BY DEF Init, NothingAhead
<1>3. ASSUME NEW k \in Keys PROVE Paid(k)
  <2>1. FiredFor(k) = {}
    BY DEF Init, FiredFor, Fired, Idle
  <2> QED
    BY <2>1, FS_EmptySet DEF Init, Paid
<1> QED
  BY <1>1, <1>2, <1>3 DEF ResendInv

LEMMA ResendStep ==
  ASSUME ResendInv, [Next]_vars, \A q, r \in Procs : q = r
  PROVE  ResendInv'
<1>1. LedgerInv' /\ TypeInv'
  BY LedgerStep DEF ResendInv, LedgerInv
<1>2. ASSUME NEW p \in Procs, Scheduler(p) PROVE NothingAhead' /\ \A k \in Keys : Paid(k)'
  BY <1>1, <1>2, TickPays, HandOverPays, MarkPays, TickEndPays DEF Scheduler
<1>3. NothingAhead' /\ \A k \in Keys : Paid(k)'
  BY <1>1, <1>2, ClockPays, OthersPay DEF Next, TaskStep
<1> QED
  BY <1>1, <1>3 DEF ResendInv

\* Over Postgres, or over the files of one process, each delivery of a slot
\* beyond the first is paid for by a crash, a panic or a lost write.
THEOREM ResendsNeedCause ==
  ASSUME Cloud \/ \A q, r \in Procs : q = r
  PROVE  Spec => []ResendNeedsCause
<1>1. ASSUME \A q, r \in Procs : q = r PROVE Spec => []ResendNeedsCause
  <2>1. ResendInv /\ [Next]_vars => ResendInv'
    BY <1>1, ResendStep
  <2>2. ASSUME ResendInv PROVE ResendNeedsCause
    <3> SUFFICES ASSUME NEW e \in Events, ev[e].delivered
                 PROVE  Cardinality(Deliveries(ev[e].key)) <= 1 + crashes + faults
      BY DEF ResendNeedsCause
    <3> DEFINE k == ev[e].key
    <3>1. \A x \in Events : ev[x].delivered => Fired(x)
      BY <2>2 DEF ResendInv, LedgerInv, DeliveredPastSend, PastSend, Fired
    <3>2. k \in Keys /\ crashes \in Nat /\ faults \in Nat
      BY <2>2, <3>1 DEF ResendInv, LedgerInv, TypeInv, TypeOK, FiredHasSlot
    <3>3. Deliveries(k) \subseteq FiredFor(k) /\ FiredFor(k) \in SUBSET Events
      BY <3>1 DEF Deliveries, FiredFor
    <3>4. /\ Cardinality(Deliveries(k)) <= Cardinality(FiredFor(k))
          /\ Cardinality(Deliveries(k)) \in Nat /\ Cardinality(FiredFor(k)) \in Nat
      BY <3>3, TasksCount, FS_Subset, FS_CardinalityType
    <3>5. Cardinality(FiredFor(k)) <= 1 + crashes + faults
      BY <2>2, <3>2, <3>4 DEF ResendInv, Paid
    <3> QED
      BY <3>2, <3>4, <3>5
  <2> QED
    BY ResendInit, <2>1, <2>2, PTL DEF Spec
<1>2. ASSUME Cloud PROVE Spec => []ResendNeedsCause
  <2>1. ASSUME TypeOK, NoDoubleDelivery PROVE ResendNeedsCause
    <3> SUFFICES ASSUME NEW e \in Events, ev[e].delivered
                 PROVE  Cardinality(Deliveries(ev[e].key)) <= 1 + crashes + faults
      BY DEF ResendNeedsCause
    <3>1. Deliveries(ev[e].key) = {e}
      BY <2>1 DEF Deliveries, NoDoubleDelivery
    <3>2. Cardinality(Deliveries(ev[e].key)) = 1
      BY <3>1, FS_Singleton
    <3> QED
      BY <2>1, <3>2 DEF TypeOK
  <2> QED
    BY <1>2, <2>1, TypeCorrect, DeliveredOnce, PTL
<1> QED
  BY <1>1, <1>2

-----------------------------------------------------------------------------
(* A slot refused by a closed channel, with one process over files.  What   *)
(* is in the batch has not been marked in its period: a mark is of the slot *)
(* just handed over, and the batch has one slot of each job.                *)

\* The job has not been marked in the period of its slot.
Unmarked(k) == lastRun[JobOf(k)] = -1 \/ PeriodOf(lastRun[JobOf(k)]) # k[2]

BatchUnmarked ==
  \A p \in Procs :
    /\ \A k \in batch[p] : Unmarked(k) /\ (handed[p] # None => JobOf(handed[p]) # JobOf(k))
    /\ \A k, q \in batch[p] : JobOf(k) = JobOf(q) => k = q

RefusalInv == TypeOK /\ BatchUnmarked

LEMMA ScanUnmarked ==
  ASSUME TypeOK
  PROVE  /\ \A k \in DueKeys : Unmarked(k)
         /\ \A k, q \in DueKeys : JobOf(k) = JobOf(q) => k = q
BY DEF DueKeys, Unmarked, JobOf

LEMMA SchedulerUnmarked ==
  ASSUME RefusalInv, ~Cloud, \A x, y \in Procs : x = y, NEW p \in Procs, Scheduler(p)
  PROVE  BatchUnmarked'
<1>1. /\ batch \in [Procs -> SUBSET Keys] /\ handed \in [Procs -> Keys \cup {None}]
      /\ lastRun \in [Jobs -> Nat \cup {-1}] /\ TypeOK /\ Procs = {p}
  BY DEF RefusalInv, TypeOK
<1>2. CASE ScanFiles(p)
  <2>1. batch'[p] = DueKeys /\ handed'[p] = None /\ lastRun' = lastRun
    BY <1>1, <1>2 DEF ScanFiles, Ticking
  <2> QED
    BY <1>1, <2>1, ScanUnmarked DEF BatchUnmarked, Unmarked
<1>3. ASSUME NEW c \in batch[p], HandOver(p, c) \/ TargetMissing(p, c) PROVE BatchUnmarked'
  <2>1. /\ batch'[p] = batch[p] \ {c} /\ handed'[p] = c /\ lastRun' = lastRun
    BY <1>1, <1>3 DEF HandOver, TargetMissing, Rest
  <2> QED
    BY <1>1, <2>1 DEF RefusalInv, BatchUnmarked, Unmarked
<1>4. ASSUME NEW c \in batch[p], HandOverRefused(p, c) PROVE BatchUnmarked'
  <2>1. batch'[p] = batch[p] \ {c} /\ UNCHANGED <<handed, lastRun>>
    BY <1>1, <1>4 DEF HandOverRefused, Rest
  <2> QED
    BY <1>1, <2>1 DEF RefusalInv, BatchUnmarked, Unmarked
<1>5. CASE Mark(p)
  <2>1. /\ batch' = batch /\ handed'[p] = None /\ handed[p] # None
        /\ \A j \in Jobs : j # JobOf(handed[p]) => lastRun'[j] = lastRun[j]
    BY <1>1, <1>5 DEF Mark
  <2>2. ASSUME NEW k \in batch[p] PROVE Unmarked(k)'
    <3>1. JobOf(k) \in Jobs /\ JobOf(k) # JobOf(handed[p]) /\ Unmarked(k)
      BY <1>1, <2>1 DEF RefusalInv, BatchUnmarked, Keys, JobOf
    <3> QED
      BY <2>1, <3>1 DEF Unmarked
  <2> QED
    BY <1>1, <2>1, <2>2 DEF RefusalInv, BatchUnmarked
<1>6. CASE SchedulerPanics(p)
  <2>1. batch'[p] = {}
    BY <1>1, <1>6 DEF SchedulerPanics
  <2> QED
    BY <1>1, <2>1 DEF BatchUnmarked
<1> QED
  BY <1>2, <1>3, <1>4, <1>5, <1>6 DEF Scheduler, ClaimDue

LEMMA RefusalStep ==
  ASSUME RefusalInv, ~Cloud, \A x, y \in Procs : x = y, [Next]_vars
  PROVE  BatchUnmarked'
<1>1. CASE \E p \in Procs : Scheduler(p)
  BY <1>1, SchedulerUnmarked
<1>2. CASE UNCHANGED <<lastRun, batch, handed>>
  BY <1>2 DEF RefusalInv, BatchUnmarked, Unmarked
<1>3. CASE \E p \in Procs : Crash(p)
  <2>1. PICK p \in Procs : Crash(p)
    BY <1>3
  <2>2. batch'[p] = {} /\ Procs = {p}
    BY <2>1 DEF Crash, RefusalInv, TypeOK
  <2> QED
    BY <2>2 DEF BatchUnmarked
<1>4. ASSUME NEW p \in Procs, Process(p), ~Crash(p) PROVE UNCHANGED <<lastRun, batch, handed>>
  BY <1>4 DEF Process, Recover, Boot, ReceiverDies, DedupExpires
<1>5. ASSUME NEW e \in Events, Start(e) \/ RunReturns(e) \/ Conclude(e) \/ Watchdog(e)
      PROVE  UNCHANGED <<lastRun, batch, handed>>
  BY <1>5 DEF Start, RunReturns, Conclude, SkipLateResult, AbortWatchdog, NothingToDeliver,
     TargetUnresolved, SuppressDuplicate, BeginSend, SendSucceeds, SendFails, ReportSend, Finish,
     Watchdog, WatchdogWakes, WatchdogCloses, WatchdogTells
<1>6. CASE Clock \/ UNCHANGED vars
  BY <1>2, <1>6 DEF Clock, vars
<1> QED
  BY <1>1, <1>2, <1>3, <1>4, <1>5, <1>6 DEF Next

\* With one process over local files a slot whose hand-over is refused is due again at
\* once: nothing else has marked it since it was found due.
THEOREM RefusalsStayDue ==
  ASSUME ~Cloud, \A x, y \in Procs : x = y
  PROVE  Spec => RefusedSlotStaysDue
<1>1. Init => BatchUnmarked
  BY DEF Init, BatchUnmarked
<1>2. RefusalInv /\ [Next]_vars => BatchUnmarked'
  BY RefusalStep
<1>3. ASSUME RefusalInv, NEW p \in Procs, NEW k \in batch[p], HandOverRefused(p, k),
             k[2] = PeriodOf(now), now % Period \in DueFrom .. DueTo
      PROVE  Eligible(k)'
  <2>1. k = <<JobOf(k), PeriodOf(now)>> /\ JobOf(k) \in Jobs /\ UNCHANGED <<now, lastRun>>
    BY <1>3 DEF HandOverRefused, RefusalInv, TypeOK, Keys, JobOf
  <2>2. Unmarked(k)
    BY <1>3 DEF RefusalInv, BatchUnmarked
  <2>3. k \in DueKeys
    BY <1>3, <2>1, <2>2 DEF DueKeys, Unmarked
  <2>4. DueKeys' = DueKeys
    BY <2>1 DEF DueKeys
  <2> QED
    BY <2>3, <2>4 DEF Eligible
<1>4. RefusalInv => [\A p \in Procs : \A k \in batch[p] :
                       /\ HandOverRefused(p, k)
                       /\ k[2] = PeriodOf(now) /\ now % Period \in DueFrom .. DueTo
                       => Eligible(k)']_vars
  BY <1>3
<1> QED
  BY <1>1, <1>2, <1>4, TypeCorrect, PTL DEF Spec, RefusedSlotStaysDue, RefusalInv
=============================================================================
