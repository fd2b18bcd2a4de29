----------------------- MODULE UnifiedDigest_proofs -----------------------
(* Proofs about the event pipeline and the digest, for every value of the *)
(* constants.                                                              *)
EXTENDS UnifiedDigest, TLAPS, FiniteSetTheorems

-----------------------------------------------------------------------------
(* Quiet hours.                                                            *)

\* The minute at which quiet hours end lies outside of them, so the flush of
\* tick_once, which comes after the look at the quiet window, can be reached.
THEOREM FlushMinuteIsAwake ==
  ASSUME NEW pr, NEW t, pr.quiet.from \in Int, pr.quiet.to \in Int, FlushDue(pr, t)
  PROVE  ~Quiet(pr, t)
BY DEF FlushDue, Quiet, InQuiet

-----------------------------------------------------------------------------
(* Type correctness.                                                       *)

\* The severity policies return severities.
LEMMA SystemPolicyType ==
  ASSUME NEW e \in Events, NEW s \in Severities, NEW t
  PROVE  SystemPolicy(e, s, t) \in Severities
BY DEF SystemPolicy, Severities, Low, Medium, High

LEMMA ActorSeverityType ==
  ASSUME NEW e, NEW s \in Severities, NEW pr
  PROVE  ActorSeverity(e, s, pr) \in Severities
BY SMTT(30) DEF ActorSeverity, QuietMode, ActorOverride, Severities, Low, Medium, High

\* A poller between two polls.
LEMMA IdleType ==
  /\ Idle \in PollStates /\ \A known : PollOK(Idle, known)
  /\ Idle.pc = "idle" /\ Idle.todo = {} /\ Idle.a = None
BY DEF Idle, PollStates, PollOK, Low, Severities, High

\* The rest of a batch.
LEMMA NextEventType ==
  ASSUME NEW p \in Pollers, poll[p].batch \in Seq(Events), poll[p].batch # <<>>,
         NEW known
  PROVE  /\ NextEvent(p) \in PollStates /\ PollOK(NextEvent(p), known)
         /\ NextEvent(p).pc # "send" /\ NextEvent(p).todo = {} /\ NextEvent(p).a = None
<1> DEFINE rest == Tail(poll[p].batch)
<1>1. rest \in Seq(Events)
  OBVIOUS
<1>2. CASE rest = <<>>
  BY <1>2, IdleType DEF NextEvent
<1>3. CASE rest # <<>>
  BY <1>1, <1>3, IdleType DEF NextEvent, PollStates, PollOK
<1> QED
  BY <1>2, <1>3

\* What a poller that is done with an actor turns to.
LEMMA NextActorType ==
  ASSUME NEW p \in Pollers, poll[p] \in PollStates, NEW known, poll[p].e \in known,
         poll[p].batch # <<>>, known \subseteq Events
  PROVE  /\ NextActor(p) \in PollStates /\ PollOK(NextActor(p), known)
         /\ NextActor(p).pc # "send" /\ NextActor(p).todo = poll[p].todo
         /\ NextActor(p).a = None
         /\ NextActor(p).todo # {} => NextActor(p).e = poll[p].e
<1>1. poll[p].batch \in Seq(Events) /\ poll[p].sev \in Severities
      /\ poll[p].todo \subseteq Actors /\ poll[p].e \in Events
  BY DEF PollStates
<1>2. CASE poll[p].todo = {}
  BY <1>1, <1>2, NextEventType DEF NextActor
<1>3. CASE poll[p].todo # {}
  BY <1>1, <1>3, IdleType DEF NextActor, PollStates, PollOK
<1> QED
  BY <1>2, <1>3

\* A poller that takes a good state leaves the others good.
LEMMA PollStep ==
  ASSUME TypeOK, NEW p \in Pollers, NEW x \in PollStates, PollOK(x, stored'),
         stored \subseteq stored', poll' = [poll EXCEPT ![p] = x]
  PROVE  /\ poll' \in [Pollers -> PollStates]
         /\ \A q \in Pollers : PollOK(poll'[q], stored')
<1>1. poll' \in [Pollers -> PollStates]
  BY DEF TypeOK
<1>2. ASSUME NEW q \in Pollers PROVE PollOK(poll'[q], stored')
  <2>1. CASE q = p
    BY <2>1 DEF TypeOK
  <2>2. CASE q # p
    <3>1. poll'[q] = poll[q] /\ PollOK(poll[q], stored)
      BY <2>2 DEF TypeOK
    <3> QED
      BY <3>1 DEF PollOK
  <2> QED
    BY <2>1, <2>2
<1> QED
  BY <1>1, <1>2

\* Rows the code writes.
LEMMA RowType ==
  ASSUME TypeOK, NEW e \in Events \cup {"slot", "flush"}, NEW a \in Actors \cup {None},
         NEW ch \in Channels, NEW st \in Statuses, NEW s \in Severities \cup {None}
  PROVE  Row(e, a, ch, st, s) \in Rows
BY DEF Row, Rows, TypeOK

\* A dispatch to an actor that ends with a row.
LEMMA LogType ==
  ASSUME TypeOK, NEW p \in Pollers, poll[p].pc \in {"decide", "send", "append", "rewrite"},
         NEW ch \in Channels, NEW st \in Statuses, NEW s \in Severities,
         Log(p, ch, st, s), stored' = stored
  PROVE  /\ log' \subseteq Rows /\ poll' \in [Pollers -> PollStates]
         /\ \A q \in Pollers : PollOK(poll'[q], stored')
<1>1. /\ poll[p] \in PollStates /\ poll[p].e \in stored /\ poll[p].batch # <<>>
      /\ poll[p].a \in Actors /\ stored \subseteq Events
  BY DEF TypeOK, PollOK
<1>2. Row(poll[p].e, poll[p].a, ch, st, s) \in Rows
  BY <1>1, RowType
<1>3. NextActor(p) \in PollStates /\ PollOK(NextActor(p), stored')
  BY <1>1, NextActorType
<1> QED
  BY <1>2, <1>3, PollStep DEF Log, TypeOK

\* The actors of an event have a portfolio.
LEMMA ResolveType ==
  ASSUME TypeOK, NEW e
  PROVE  Resolve(e) \subseteq Actors
BY RouterAssumption DEF TypeOK, Resolve

\* A step of a poller or of the clock keeps the types.
LEMMA PollType ==
  ASSUME TypeOK, NEW p \in Pollers, Poll(p) \/ PassOver(p), UNCHANGED digestVars
  PROVE  TypeOK'
<1> USE DEF TypeOK, digestVars
<1>1. CASE Poll(p)
  <2>1. feed[p] \in Seq(Seq(Events)) /\ feed[p] # <<>>
    BY <1>1 DEF Poll
  <2>2. Head(feed[p]) \in Seq(Events) /\ Tail(feed[p]) \in Seq(Seq(Events))
    BY <2>1
  <2>3. feed' \in [Pollers -> Seq(Seq(Events))] /\ stored' = stored
    BY <1>1, <2>2 DEF Poll
  <2>4. ticks' \in [all : Nat, by : [Symbols -> Nat]]
    BY <1>1 DEF Poll, NoTicks
  <2>5. CASE Head(feed[p]) = <<>>
    BY <1>1, <2>3, <2>4, <2>5 DEF Poll
  <2>6. CASE Head(feed[p]) # <<>>
    <3> DEFINE x == [Idle EXCEPT !.pc = "insert", !.batch = Head(feed[p])]
    <3>1. x \in PollStates /\ PollOK(x, stored')
      BY <2>2, <2>6, IdleType DEF PollStates, PollOK
    <3>2. poll' = [poll EXCEPT ![p] = x]
      BY <1>1, <2>6 DEF Poll
    <3> HIDE DEF x
    <3>3. poll' \in [Pollers -> PollStates] /\ \A q \in Pollers : PollOK(poll'[q], stored')
      BY <2>3, <3>1, <3>2, PollStep
    <3> QED
      BY <1>1, <2>3, <2>4, <3>3 DEF Poll
  <2> QED
    BY <2>5, <2>6
<1>2. CASE PassOver(p)
  <2>1. poll[p].batch \in Seq(Events) /\ poll[p].batch # <<>> /\ stored' = stored
    BY <1>2 DEF PassOver, PollStates, PollOK
  <2>2. NextEvent(p) \in PollStates /\ PollOK(NextEvent(p), stored')
    BY <2>1, NextEventType
  <2>3. poll' \in [Pollers -> PollStates] /\ \A q \in Pollers : PollOK(poll'[q], stored')
    BY <1>2, <2>1, <2>2, PollStep DEF PassOver
  <2> QED
    BY <1>2, <2>3 DEF PassOver
<1> QED
  BY <1>1, <1>2

LEMMA InsertType ==
  ASSUME TypeOK, NEW p \in Pollers, Insert(p), UNCHANGED digestVars
  PROVE  TypeOK'
<1> USE DEF TypeOK, digestVars
<1> DEFINE e == Head(poll[p].batch)
           on == EventOf[e].kind \notin Disabled
<1>1. poll[p] \in PollStates /\ poll[p].batch # <<>> /\ poll[p].todo = {} /\ poll[p].a = None
  BY DEF Insert, PollOK
<1>2. e \in Events
  BY <1>1 DEF PollStates
<1>3. stored' = stored \cup {e}
  BY DEF Insert
<1>4. PICK up \in BOOLEAN :
        LET s == SystemPolicy(e, IF up THEN Medium ELSE EventOf[e].sev, now)
        IN  /\ ticks' = IF up THEN CountUpgrade(e) ELSE ticks
            /\ log' = IF on /\ Resolve(e) = {}
                      THEN log \cup {Row(e, None, "router", "no_actor", s)} ELSE log
            /\ poll' = [poll EXCEPT ![p] =
                          IF ~on \/ Resolve(e) = {} THEN NextEvent(p)
                          ELSE [@ EXCEPT !.pc = "route", !.e = e, !.sev = s,
                                         !.todo = Resolve(e)]]
  BY DEF Insert
<1> DEFINE s == SystemPolicy(e, IF up THEN Medium ELSE EventOf[e].sev, now)
           x == IF ~on \/ Resolve(e) = {} THEN NextEvent(p)
                ELSE [poll[p] EXCEPT !.pc = "route", !.e = e, !.sev = s, !.todo = Resolve(e)]
<1>5. s \in Severities
  <2>1. EventOf[e].sev \in Severities
    BY <1>2, PolicyAssumption DEF EventFields
  <2>2. (IF up THEN Medium ELSE EventOf[e].sev) \in Severities
    BY <2>1 DEF Severities, Medium, Low, High
  <2> HIDE DEF e
  <2> QED
    BY <1>2, <2>2, SystemPolicyType
<1>6. ticks' \in [all : Nat, by : [Symbols -> Nat]]
  BY <1>4 DEF CountUpgrade
<1>7. log' \subseteq Rows
  <2>1. Row(e, None, "router", "no_actor", s) \in Rows
    BY <1>2, <1>5, RowType DEF Channels, Statuses
  <2> HIDE DEF s
  <2> QED
    BY <1>4, <2>1 DEF s
<1>8. x \in PollStates /\ PollOK(x, stored')
  <2>1. CASE ~on \/ Resolve(e) = {}
    BY <1>1, <2>1, NextEventType DEF PollStates
  <2>2. CASE on /\ Resolve(e) # {}
    <3>1. Resolve(e) \subseteq Actors
      BY ResolveType
    <3> HIDE DEF s, e, on
    <3> QED
      BY ZenonT(30), <1>1, <1>2, <1>3, <1>5, <2>2, <3>1 DEF PollStates, PollOK
  <2> QED
    BY <2>1, <2>2
<1>9. poll' = [poll EXCEPT ![p] = x]
  BY <1>1, <1>4
<1>10. poll' \in [Pollers -> PollStates] /\ \A q \in Pollers : PollOK(poll'[q], stored')
  <2> HIDE DEF x
  <2> QED
    BY <1>3, <1>8, <1>9, PollStep
<1>11. cut' \subseteq stored' \X Actors
  BY <1>3 DEF Insert
<1>12. picks' = picks /\ \A c \in picks' : c.ranked \subseteq stored'
  BY <1>3
<1>13. stored' \subseteq Events
  BY <1>2, <1>3
<1> HIDE DEF e, on, s, x
<1> QED
  BY <1>6, <1>7, <1>10, <1>11, <1>12, <1>13 DEF Insert

\* Picking an actor and hearing the classifier.
LEMMA AskType ==
  ASSUME TypeOK, NEW p \in Pollers, UNCHANGED digestVars,
         PickActor(p) \/ Judged(p) \/ Push(p) \/ OpenBuffer(p) \/ ReadBuffer(p)
  PROVE  TypeOK'
<1> USE DEF TypeOK, digestVars
<1>1. poll[p] \in PollStates /\ PollOK(poll[p], stored) /\ stored' = stored
  BY DEF PickActor, Judged, Push, OpenBuffer, ReadBuffer
<1>2. \E x \in PollStates : PollOK(x, stored') /\ poll' = [poll EXCEPT ![p] = x]
  <2>1. CASE PickActor(p)
    <3>1. PICK a \in poll[p].todo : poll' = [poll EXCEPT ![p] = Facing(p, a)]
      BY <2>1 DEF PickActor
    <3>2. a \in Actors /\ prefs[a] \in Prefs
      BY <1>1 DEF PollStates
    <3>3. poll[p].pc = "route"
      BY <2>1 DEF PickActor
    <3>4. Facing(p, a) \in PollStates /\ PollOK(Facing(p, a), stored')
      <4> DEFINE pc == IF conf.llm /\ AsksClassifier(poll[p].e, poll[p].sev)
                       THEN "judge" ELSE "decide"
      <4>1. pc \in {"judge", "decide"}
        OBVIOUS
      <4>2. Facing(p, a) = [poll[p] EXCEPT !.a = a, !.todo = poll[p].todo \ {a},
                              !.pr = prefs[a], !.asev = poll[p].sev, !.pc = pc]
        BY Zenon DEF Facing
      <4>3. poll[p].e \in stored' /\ poll[p].batch # <<>> /\ poll[p].sev \in Severities
        BY <1>1, <3>3 DEF PollStates, PollOK
      <4> HIDE DEF pc
      <4>4. Facing(p, a) \in PollStates
        BY ZenonT(30), <1>1, <3>2, <4>1, <4>2, <4>3 DEF PollStates
      <4>5. /\ Facing(p, a).pc = pc /\ Facing(p, a).a = a /\ Facing(p, a).e = poll[p].e
            /\ Facing(p, a).batch = poll[p].batch
            /\ Facing(p, a).todo = poll[p].todo \ {a}
        BY <1>1, <4>2 DEF PollStates
      <4> QED
        BY <3>2, <4>1, <4>3, <4>4, <4>5 DEF PollOK
    <3> QED
      BY <3>1, <3>4
  <2>2. CASE Judged(p)
    <3>1. PICK s \in {Low, Medium} :
            poll' = [poll EXCEPT ![p] = [@ EXCEPT !.pc = "decide", !.asev = s]]
      BY <2>2 DEF Judged
    <3> DEFINE x == [poll[p] EXCEPT !.pc = "decide", !.asev = s]
    <3>2. s \in Severities /\ poll[p].pc = "judge"
      BY <2>2 DEF Judged, Severities, Low, Medium, High
    <3>3. x \in PollStates /\ PollOK(x, stored')
      BY <1>1, <3>2 DEF PollStates, PollOK
    <3> QED
      BY <3>1, <3>3
  <2>3. CASE Push(p)
    <3> DEFINE x == [poll[p] EXCEPT !.pc = "send"]
    <3>1. x \in PollStates /\ PollOK(x, stored')
      BY <1>1, <2>3 DEF Push, Deciding, PollStates, PollOK
    <3> QED
      BY <2>3, <3>1 DEF Push
  <2>4. CASE ReadBuffer(p)
    <3>1. PICK read \in SUBSET buf[poll[p].a] :
            poll' = [poll EXCEPT ![p] = [@ EXCEPT !.pc = "rewrite",
                                           !.st = QueueStatus(p), !.seen = read]]
      BY <2>4 DEF ReadBuffer
    <3> DEFINE x == [poll[p] EXCEPT !.pc = "rewrite", !.st = QueueStatus(p),
                                    !.seen = read]
    <3>2. QueueStatus(p) \in QueueStatuses
      BY <2>4 DEF ReadBuffer, Direct, QueueStatus, QueueStatuses
    <3>3. x \in PollStates /\ PollOK(x, stored')
      BY <1>1, <2>4, <3>2 DEF ReadBuffer, Deciding, PollStates, PollOK, Statuses
    <3> QED
      BY <3>1, <3>3
  <2>5. CASE OpenBuffer(p)
    <3> DEFINE x == [poll[p] EXCEPT !.pc = "append", !.st = QueueStatus(p)]
    <3>1. QueueStatus(p) \in QueueStatuses
      BY <2>5 DEF OpenBuffer, Direct, QueueStatus, QueueStatuses
    <3>2. x \in PollStates /\ PollOK(x, stored')
      BY <1>1, <2>5, <3>1 DEF OpenBuffer, Deciding, PollStates, PollOK, Statuses
    <3> QED
      BY <2>5, <3>2 DEF OpenBuffer
  <2> QED
    BY <2>1, <2>2, <2>3, <2>4, <2>5
<1>3. poll' \in [Pollers -> PollStates] /\ \A q \in Pollers : PollOK(poll'[q], stored')
  BY <1>1, <1>2, PollStep
<1> QED
  BY <1>3 DEF PickActor, Judged, Push, OpenBuffer, ReadBuffer

\* Severities and statuses a dispatch logs.
LEMMA WantedType ==
  ASSUME TypeOK, NEW p \in Pollers
  PROVE  Wanted(p) \in Severities
<1>1. poll[p].asev \in Severities
  BY DEF TypeOK, PollStates
<1> QED
  BY <1>1, ActorSeverityType DEF Wanted

\* What counts arrivals keeps to two.
LEMMA ArrivesType ==
  ASSUME TypeOK, NEW e \in Events, NEW a \in Actors
  PROVE  Arrives(e, a) \in [Events \X Actors -> 0..2]
<1>1. got[<<e, a>>] \in 0..2
  BY DEF TypeOK
<1> QED
  BY <1>1 DEF TypeOK, Arrives

\* A dispatch that ends with a row keeps the types.
LEMMA EndType ==
  ASSUME TypeOK, NEW p \in Pollers, UNCHANGED digestVars,
         \/ Filter(p) \/ Hold(p) \/ AppendLine(p) \/ Rewrite(p) \/ EnqueueFails(p)
         \/ Pushed(p) \/ PushFails(p)
  PROVE  TypeOK'
<1> USE DEF TypeOK, digestVars
<1>1. /\ poll[p] \in PollStates /\ PollOK(poll[p], stored)
      /\ poll[p].pc \in {"decide", "send", "append", "rewrite"}
  BY DEF Filter, Hold, AppendLine, Rewrite, EnqueueFails, Pushed, PushFails, Deciding
<1>2. /\ poll[p].e \in stored /\ poll[p].e \in Events /\ poll[p].a \in Actors
      /\ poll[p].asev \in Severities /\ poll[p].seen \subseteq Lines
  BY <1>1 DEF PollOK, PollStates
<1>3. Line(p) \in Lines
  BY SMTT(30), <1>2 DEF Line, Lines
<1>4. /\ stored' = stored /\ now' = now /\ conf' = conf /\ prefs' = prefs /\ feed' = feed
      /\ ticks' = ticks /\ cut' = cut
  BY SMTT(30) DEF Filter, Hold, AppendLine, Rewrite, EnqueueFails, Pushed, PushFails
<1>5. \E ch \in Channels, st \in Statuses, s \in Severities : Log(p, ch, st, s)
  <2>1. Wanted(p) \in Severities /\ High \in Severities
    BY WantedType DEF Severities, High, Low
  <2>2. CASE Filter(p)
    BY <2>1, <2>2 DEF Filter, Channels, Statuses
  <2>3. CASE Hold(p)
    BY <2>1, <2>3 DEF Hold, Channels, Statuses
  <2>4. CASE AppendLine(p)
    BY <1>1, <2>1, <2>4 DEF AppendLine, PollOK, Channels, Statuses
  <2>5. CASE Rewrite(p)
    BY <1>1, <2>1, <2>5 DEF Rewrite, PollOK, Channels, Statuses
  <2>6. CASE EnqueueFails(p)
    BY ZenonT(30), <2>1, <2>6 DEF EnqueueFails, Channels, Statuses
  <2>7. CASE Pushed(p)
    BY <2>1, <2>7 DEF Pushed, Channels, Statuses, Acknowledged
  <2>8. CASE PushFails(p)
    BY <2>1, <2>8 DEF PushFails, Channels, Statuses, Acknowledged
  <2> QED
    BY <2>2, <2>3, <2>4, <2>5, <2>6, <2>7, <2>8
<1>6. /\ log' \subseteq Rows /\ poll' \in [Pollers -> PollStates]
      /\ \A q \in Pollers : PollOK(poll'[q], stored')
  BY <1>1, <1>4, <1>5, LogType
<1>7. buf' \in [Actors -> SUBSET Lines]
  <2>1. CASE Filter(p) \/ Hold(p) \/ EnqueueFails(p) \/ Pushed(p) \/ PushFails(p)
    BY <2>1 DEF Filter, Hold, EnqueueFails, Pushed, PushFails
  <2>2. CASE AppendLine(p)
    BY <1>2, <1>3, <2>2 DEF AppendLine
  <2>3. CASE Rewrite(p)
    BY <1>2, <1>3, <2>3 DEF Rewrite
  <2> QED
    BY <2>1, <2>2, <2>3
<1>8. got' \in [Events \X Actors -> 0..2]
  <2>1. CASE Filter(p) \/ Hold(p) \/ AppendLine(p) \/ Rewrite(p) \/ EnqueueFails(p)
             \/ PushFails(p)
    BY <2>1 DEF Filter, Hold, AppendLine, Rewrite, EnqueueFails, PushFails
  <2>2. CASE Pushed(p)
    BY <1>2, <2>2, ArrivesType DEF Pushed
  <2> QED
    BY <2>1, <2>2
<1>9. torn' \subseteq Actors
  BY <1>2 DEF Filter, Hold, AppendLine, Rewrite, EnqueueFails, Pushed, PushFails
<1>10. lost' \subseteq Events \X Actors /\ astray' \subseteq Pollers
  <2>1. \A a : Writers(a) \subseteq Pollers
    BY DEF Writers
  <2>2. CASE AppendLine(p)
    BY <1>2, <2>1, <2>2 DEF AppendLine
  <2>3. CASE ~AppendLine(p)
    BY <2>1, <2>3 DEF Filter, Hold, Rewrite, EnqueueFails, Pushed, PushFails
  <2> QED
    BY <2>2, <2>3
<1> QED
  BY <1>4, <1>6, <1>7, <1>8, <1>9, <1>10

\* The pairs a poller has in progress.
LEMMA InProgressType ==
  ASSUME TypeOK, NEW p \in Pollers
  PROVE  InProgress(p) \subseteq stored \X Actors
<1>1. poll[p] \in PollStates /\ PollOK(poll[p], stored)
  BY DEF TypeOK
<1>2. CASE poll[p].pc \in {"idle", "insert"}
  BY <1>1, <1>2 DEF InProgress, PollOK
<1>3. CASE poll[p].pc \notin {"idle", "insert"}
  BY <1>1, <1>3 DEF InProgress, PollOK, PollStates
<1> QED
  BY <1>2, <1>3

LEMMA TimeOutType ==
  ASSUME TypeOK, NEW p \in Pollers, TimeOut(p), UNCHANGED digestVars
  PROVE  TypeOK'
<1> USE DEF TypeOK, digestVars
<1>1. /\ stored' = stored /\ poll' = [poll EXCEPT ![p] = Idle]
      /\ poll[p] \in PollStates /\ PollOK(poll[p], stored)
      /\ poll[p].pc \in {"judge", "send"}
  BY DEF TimeOut
<1>2. poll' \in [Pollers -> PollStates] /\ \A q \in Pollers : PollOK(poll'[q], stored')
  BY <1>1, IdleType, PollStep
<1>3. cut' \subseteq stored' \X Actors
  BY <1>1, InProgressType DEF TimeOut
<1>4. got' \in [Events \X Actors -> 0..2]
  <2>1. poll[p].e \in Events /\ poll[p].a \in Actors
    BY <1>1 DEF PollOK
  <2> QED
    BY <2>1, ArrivesType DEF TimeOut
<1> QED
  BY <1>1, <1>2, <1>3, <1>4 DEF TimeOut

LEMMA RouterType ==
  ASSUME TypeOK, RouterStep
  PROVE  TypeOK'
<1>1. UNCHANGED digestVars
  BY DEF RouterStep
<1>2. CASE AdvanceTime
  BY <1>1, <1>2 DEF AdvanceTime, TypeOK, digestVars
<1>3. ASSUME NEW p \in Pollers, PollerStep(p) PROVE TypeOK'
  BY <1>1, <1>3, PollType, InsertType, AskType, EndType, TimeOutType
     DEF PollerStep, Work, Answer
<1> QED
  BY <1>2, <1>3 DEF RouterStep

\* The scheduler between two ticks, and between two actors.
LEMMA RestingType ==
  /\ Resting \in SchedStates /\ SchedOK(Resting)
  /\ Resting.pc = "idle" /\ Resting.a = None
BY DEF Resting, SchedStates, SchedOK

LEMMA LeaveType ==
  ASSUME TypeOK, NEW todo \in SUBSET Actors
  PROVE  Leave(todo) \in SchedStates /\ SchedOK(Leave(todo))
<1>1. sched.t \in Nat /\ sched.due \subseteq Events \X Actors
  BY DEF TypeOK, SchedStates
<1>2. CASE todo = {}
  BY <1>2, RestingType DEF Leave
<1>3. CASE todo # {}
  <2> DEFINE h == [Resting EXCEPT !.pc = "visit", !.t = sched.t, !.due = sched.due,
                                  !.todo = todo]
  <2>1. Leave(todo) = h
    BY <1>3 DEF Leave
  <2>2. h \in SchedStates /\ h.pc = "visit"
    BY <1>1, RestingType DEF SchedStates
  <2> HIDE DEF h
  <2> QED
    BY <2>1, <2>2 DEF SchedOK
<1> QED
  BY <1>2, <1>3

LEMMA TickType ==
  ASSUME TypeOK, Tick
  PROVE  TypeOK'
<1> USE DEF TypeOK, routerVars
<1> DEFINE h == [Resting EXCEPT !.pc = "visit", !.t = now, !.due = Countdowns(now),
                                !.todo = conf.users]
<1>1. Countdowns(now) \subseteq Events \X Actors
  BY DEF Countdowns
<1>2. conf.users \subseteq Actors
  BY RouterAssumption
<1>3. sched' = h
  BY DEF Tick
<1>4. h \in SchedStates /\ h.pc = "visit"
  BY <1>1, <1>2, RestingType DEF SchedStates
<1> HIDE DEF h
<1>5. sched' \in SchedStates /\ SchedOK(sched')
  BY <1>3, <1>4 DEF SchedOK
<1>6. \A c \in picks' : c.ranked \subseteq stored'
  BY DEF Tick
<1>7. UNCHANGED <<routerVars, late>>
  BY DEF Tick
<1> QED
  BY <1>5, <1>6, <1>7

LEMMA VisitType ==
  ASSUME TypeOK, NEW a \in Actors, Skip(a) \/ TooSoon(a)
  PROVE  TypeOK'
<1>1. sched.todo \ {a} \in SUBSET Actors
  BY DEF TypeOK, SchedStates
<1>2. sched' = Leave(sched.todo \ {a}) /\ UNCHANGED <<routerVars, picks, late>>
  BY DEF Skip, TooSoon
<1>3. sched' \in SchedStates /\ SchedOK(sched')
  BY <1>1, <1>2, LeaveType
<1> QED
  BY <1>2, <1>3 DEF TypeOK, routerVars

\* Rows for what a digest leaves out.
LEMMA OmitRowsType ==
  ASSUME TypeOK, NEW a \in Actors, NEW omit \in SUBSET Items
  PROVE  OmitRows(a, omit) \subseteq Rows
<1> SUFFICES ASSUME NEW i \in omit
             PROVE  Row(i.e, a, "digest_item", "omitted", i.sev) \in Rows
  BY DEF OmitRows
<1> QED
  BY RowType DEF Items, Channels, Statuses

LEMMA ComposeType ==
  ASSUME TypeOK, NEW a \in Actors, NEW pr, NEW what \in {"slot", "flush"},
         NEW items \in SUBSET Items, NEW floor, NEW world \in SUBSET Events,
         NEW rows \in SUBSET Rows, Compose(a, pr, what, items, floor, world, rows)
  PROVE  log' \subseteq Rows /\ sched' \in SchedStates /\ SchedOK(sched')
<1>1. sched \in SchedStates /\ sched.todo \ {a} \in SUBSET Actors /\ log \subseteq Rows
  BY DEF TypeOK, SchedStates
<1>2. PICK omit \in SUBSET items :
        IF items = omit
        THEN /\ log' = log \cup rows \cup OmitRows(a, omit)
             /\ sched' = Leave(sched.todo \ {a})
        ELSE \E cutoff \in SUBSET (items \ omit) :
               /\ log' = log \cup rows
               /\ sched' = [sched EXCEPT
                     !.pc = "send", !.todo = @ \ {a}, !.a = a, !.pr = None,
                     !.what = what, !.mine = items \ (omit \cup cutoff),
                     !.world = world, !.omit = omit \cup cutoff]
  BY DEF Compose
<1>3. CASE items = omit
  <2>1. OmitRows(a, omit) \subseteq Rows
    BY OmitRowsType
  <2> QED
    BY <1>1, <1>2, <1>3, <2>1, LeaveType
<1>4. CASE items # omit
  <2>1. PICK cutoff \in SUBSET (items \ omit) :
          /\ log' = log \cup rows
          /\ sched' = [sched EXCEPT
                !.pc = "send", !.todo = @ \ {a}, !.a = a, !.pr = None,
                !.what = what, !.mine = items \ (omit \cup cutoff),
                !.world = world, !.omit = omit \cup cutoff]
    BY <1>2, <1>4
  <2>2. sched' \in SchedStates
    BY <1>1, <2>1 DEF SchedStates
  <2>3. sched'.a = a /\ sched'.what = what
    BY <1>1, <2>1 DEF SchedStates
  <2> QED
    BY <1>1, <2>1, <2>2, <2>3 DEF SchedOK
<1> QED
  BY <1>3, <1>4

\* Severities of stored events.
LEMMA OwnType ==
  ASSUME NEW e \in Events, NEW s \in Severities
  PROVE  Own(e, s) \in Items /\ Own(e, s).e = e /\ Own(e, s).sev = s /\ ~Own(e, s).world
BY DEF Own, Items

LEMMA EventSeverity ==
  ASSUME NEW e \in Events
  PROVE  EventOf[e].sev \in Severities
BY PolicyAssumption DEF EventFields

\* A drain takes lines from one buffer; a line it neither takes nor leaves is lost.
LEMMA DrainTakes ==
  ASSUME TypeOK, NEW a \in Actors, NEW lines \in SUBSET buf[a], Drain(a, lines)
  PROVE  /\ buf' \in [Actors -> SUBSET Lines] /\ astray' \subseteq Pollers
         /\ lost \subseteq lost' /\ lost' \subseteq Events \X Actors
         /\ \A b \in Actors \ {a} : buf'[b] = buf[b]
         /\ \A l \in buf[a] : l \in lines \/ l \in buf'[a] \/ <<l.e, a>> \in lost'
         /\ (lines = {} \/ buf'[a] = {}) /\ buf'[a] \subseteq buf[a]
<1> DEFINE gone == {<<l.e, a>> : l \in buf[a] \ lines}
<1>1. buf \in [Actors -> SUBSET Lines] /\ buf[a] \subseteq Lines
      /\ lost \subseteq Events \X Actors /\ astray \subseteq Pollers
      /\ Writers(a) \subseteq Pollers
  BY DEF TypeOK, Writers
<1>2. gone \subseteq Events \X Actors /\ \A l \in buf[a] \ lines : <<l.e, a>> \in gone
  BY <1>1 DEF Lines
<1>3. /\ (lost' = lost \/ lost' = lost \cup gone)
      /\ (astray' = astray \/ astray' = astray \cup Writers(a))
      /\ \/ buf' = buf /\ lines = {}
         \/ buf' = [buf EXCEPT ![a] = {}] /\ (lines = buf[a] \/ lost' = lost \cup gone)
  BY DEF Drain
<1> HIDE DEF gone
<1> QED
  BY <1>1, <1>2, <1>3

LEMMA FlushType ==
  ASSUME TypeOK, NEW a \in Actors, Flush(a)
  PROVE  TypeOK'
<1> PICK drained \in SUBSET buf[a] : Drain(a, drained) /\ FlushLines(a, drained)
  BY DEF Flush
<1> DEFINE held == Held(a, sched.t - HeldWindow)
           stale == {e \in held : ~Fresh(e, sched.t) /\ EventOf[e].kind # "price"}
           lines == {l \in drained : l.e \notin held \ stale}
           all == {Own(e, EventOf[e].sev) : e \in held \ stale}
                    \cup {Own(l.e, l.sev) : l \in lines}
           items == {i \in all : ShouldDeliver(i.e, i.sev, prefs[a])}
           rows == {Row(e, a, "sink", "quiet_dropped", EventOf[e].sev) : e \in stale}
<1>1. held \subseteq Events /\ buf[a] \subseteq Lines
  BY DEF Held, TypeOK
<1>2. stale \subseteq held /\ lines \subseteq buf[a]
  BY DEF Flush
<1> HIDE DEF held, stale, lines
<1>3. all \subseteq Items
  BY <1>1, <1>2, OwnType, EventSeverity DEF Lines
<1>4. items \in SUBSET Items
  <2> HIDE DEF all
  <2> QED
    BY <1>3
<1>5. rows \in SUBSET Rows
  <2> SUFFICES ASSUME NEW e \in stale
               PROVE  Row(e, a, "sink", "quiet_dropped", EventOf[e].sev) \in Rows
    OBVIOUS
  <2> QED
    BY <1>1, <1>2, EventSeverity, RowType DEF Channels, Statuses
<1>6. Compose(a, prefs[a], "flush", items, {}, {}, rows)
  BY DEF FlushLines, held, stale, lines
<1>7. log' \subseteq Rows /\ sched' \in SchedStates /\ SchedOK(sched')
  <2> HIDE DEF items, rows
  <2> QED
    BY <1>4, <1>5, <1>6, ComposeType
<1>8. /\ buf' \in [Actors -> SUBSET Lines] /\ lost' \subseteq Events \X Actors
      /\ astray' \subseteq Pollers
  BY DrainTakes
<1> HIDE DEF items, rows
<1> QED
  BY <1>7, <1>8 DEF Flush, TypeOK

LEMMA OpenSlotType ==
  ASSUME TypeOK, NEW a \in Actors, OpenSlot(a)
  PROVE  TypeOK'
<1> DEFINE new == {x[1] : x \in {x \in sched.due : x[2] = a}}
                    \ DeliveredSince(a, DayStart(sched.t))
<1> PICK drained \in SUBSET buf[a] :
      /\ Drain(a, drained)
      /\ sched' = [sched EXCEPT !.pc = "curate", !.todo = @ \ {a}, !.a = a,
                     !.pr = prefs[a],
                     !.mine = {Own(l.e, l.sev) : l \in drained}
                                \cup {Own(c, Medium) : c \in new}]
  BY DEF OpenSlot
<1> DEFINE mine == {Own(l.e, l.sev) : l \in drained} \cup {Own(c, Medium) : c \in new}
           h == [sched EXCEPT !.pc = "curate", !.todo = sched.todo \ {a}, !.a = a,
                              !.pr = prefs[a], !.mine = mine]
<1>1. /\ sched \in SchedStates /\ sched.due \subseteq Events \X Actors
      /\ sched.todo \ {a} \subseteq Actors /\ prefs[a] \in Prefs /\ buf[a] \subseteq Lines
  BY DEF TypeOK, SchedStates
<1>2. new \subseteq Events
  BY <1>1
<1>3. mine \subseteq Items
  <2> HIDE DEF new
  <2>1. Medium \in Severities
    BY DEF Medium, Severities, Low, High
  <2> QED
    BY <1>1, <1>2, <2>1, OwnType DEF Lines
<1>4. sched' = h
  OBVIOUS
<1> HIDE DEF mine
<1>5. h \in SchedStates /\ h.a = a /\ h.pc = "curate"
  BY <1>1, <1>3 DEF SchedStates
<1> HIDE DEF h
<1>6. sched' \in SchedStates /\ SchedOK(sched')
  BY <1>4, <1>5 DEF SchedOK
<1>7. /\ buf' \in [Actors -> SUBSET Lines] /\ lost' \subseteq Events \X Actors
      /\ astray' \subseteq Pollers
  BY DrainTakes
<1> QED
  BY <1>6, <1>7 DEF OpenSlot, TypeOK

LEMMA ServeType ==
  ASSUME TypeOK, NEW a \in Actors, NEW pr, NEW world \in SUBSET Events,
         sched.mine \subseteq Items, NEW macro, Serve(a, pr, world, macro)
  PROVE  log' \subseteq Rows /\ sched' \in SchedStates /\ SchedOK(sched')
<1> DEFINE liked == {e \in world : ShouldDeliver(e, EventOf[e].sev, pr)}
           items == {i \in sched.mine : ShouldDeliver(i.e, i.sev, pr)}
                      \cup {Picked(e) : e \in {e \in liked : InFocus(e, a)}}
           floor == {i \in items : Floor(i.e, i.sev, pr) \/ (i.world /\ i.e \in macro)}
           rows == {Row(e, a, "global_digest_item", "filtered_focus", EventOf[e].sev) :
                      e \in {e \in liked : ~InFocus(e, a)}}
<1>1. items \in SUBSET Items
  <2>1. ASSUME NEW e \in liked PROVE Picked(e) \in Items
    BY EventSeverity DEF Picked, Items
  <2> HIDE DEF liked
  <2> QED
    BY <2>1
<1>2. rows \in SUBSET Rows
  <2> SUFFICES ASSUME NEW e \in liked
               PROVE  Row(e, a, "global_digest_item", "filtered_focus", EventOf[e].sev) \in Rows
    OBVIOUS
  <2> QED
    BY EventSeverity, RowType DEF Channels, Statuses
<1>3. Compose(a, pr, "slot", items, floor, world, rows)
  BY DEF Serve
<1> HIDE DEF items, floor, rows
<1> QED
  BY <1>1, <1>2, <1>3, ComposeType

LEMMA CurateType ==
  ASSUME TypeOK, Curate
  PROVE  TypeOK'
<1>1. sched \in SchedStates /\ sched.a \in Actors /\ sched.mine \subseteq Items
      /\ stored \subseteq Events
  BY DEF Curate, TypeOK, SchedOK, SchedStates
<1>2. PICK ranked \in RankedChoices :
        /\ picks' = IF conf.curator
                    THEN picks \cup {[key |-> SlotKey, ranked |-> ranked]} ELSE picks
        /\ \E world \in SUBSET ranked : \E macro \in SUBSET world :
             Serve(sched.a, sched.pr, world, macro)
  BY DEF Curate
<1>3. ranked \subseteq stored
  <2>1. CASE \E c \in picks : c.key = SlotKey
    BY <2>1 DEF RankedChoices, TypeOK
  <2>2. CASE ~\E c \in picks : c.key = SlotKey
    BY <2>2 DEF RankedChoices, Candidates
  <2> QED
    BY <2>1, <2>2
<1>4. PICK world \in SUBSET ranked : \E macro \in SUBSET world :
        Serve(sched.a, sched.pr, world, macro)
  BY <1>2
<1>5. log' \subseteq Rows /\ sched' \in SchedStates /\ SchedOK(sched')
  <2>1. world \in SUBSET Events
    BY <1>1, <1>3
  <2> QED
    BY <1>1, <1>4, <2>1, ServeType
<1>6. stored' = stored /\ \A c \in picks' : c.ranked \subseteq stored'
  <2>1. stored' = stored
    BY DEF Curate
  <2> DEFINE new == [key |-> SlotKey, ranked |-> ranked]
  <2>2. picks' \subseteq picks \cup {new}
    BY <1>2
  <2>3. new.ranked = ranked
    OBVIOUS
  <2> HIDE DEF new
  <2> QED
    BY <1>3, <2>1, <2>2, <2>3 DEF TypeOK
<1> QED
  BY <1>5, <1>6 DEF Curate, TypeOK

\* The rows of a digest.
LEMMA SentRowsType ==
  ASSUME TypeOK, sched.pc = "send", NEW st \in {"sent", "dryrun", "failed"}
  PROVE  SentRows(st) \subseteq Rows /\ BatchRow(st) \in Rows
<1>1. /\ sched \in SchedStates /\ sched.a \in Actors /\ sched.what \in {"slot", "flush"}
      /\ sched.mine \subseteq Items /\ sched.omit \subseteq Items /\ sched.world \subseteq Events
  BY DEF TypeOK, SchedOK, SchedStates
<1>2. BatchRow(st) \in Rows
  BY <1>1, RowType DEF BatchRow, Channels, Statuses
<1>3. OmitRows(sched.a, sched.omit) \subseteq Rows
  BY <1>1, OmitRowsType
<1>4. ASSUME NEW i \in sched.mine
      PROVE  Row(i.e, sched.a, "digest_item", st, i.sev) \in Rows
  BY <1>1, RowType DEF Items, Channels, Statuses
<1>5. ASSUME NEW e \in sched.world
      PROVE  Row(e, sched.a, "global_digest_item", st, EventOf[e].sev) \in Rows
  BY <1>1, EventSeverity, RowType DEF Channels, Statuses
<1> QED
  BY <1>2, <1>3, <1>4, <1>5 DEF SentRows

LEMMA SendType ==
  ASSUME TypeOK, DigestSent \/ DigestFails
  PROVE  TypeOK'
<1>1. sched.pc = "send" /\ sched.todo \in SUBSET Actors
  BY DEF DigestSent, DigestFails, TypeOK, SchedStates
<1>2. sched' = Leave(sched.todo) /\ sched' \in SchedStates /\ SchedOK(sched')
  BY <1>1, LeaveType DEF DigestSent, DigestFails
<1>3. log' \subseteq Rows
  BY <1>1, SentRowsType DEF DigestSent, DigestFails, Acknowledged, TypeOK
<1>4. got' \in [Events \X Actors -> 0..2]
  <2>1. CASE DigestFails
    BY <2>1 DEF DigestFails, TypeOK
  <2>2. CASE DigestSent
    <3>1. ASSUME NEW x \in Events \X Actors
          PROVE  Arrives(x[1], x[2])[x] \in 0..2 /\ got[x] \in 0..2
      BY ArrivesType DEF TypeOK
    <3>2. CASE conf.sink = "log"
      BY <2>2, <3>2 DEF DigestSent, TypeOK
    <3>3. CASE conf.sink # "log"
      BY <2>2, <3>1, <3>3 DEF DigestSent
    <3> QED
      BY <3>2, <3>3
  <2> QED
    BY <2>1, <2>2
<1> QED
  BY <1>2, <1>3, <1>4 DEF DigestSent, DigestFails, TypeOK

LEMMA EditType ==
  ASSUME TypeOK, NEW a \in Actors, EditPrefs(a)
  PROVE  TypeOK'
BY DEF EditPrefs, TypeOK, Prefs

LEMMA CrashType ==
  ASSUME TypeOK, Crash
  PROVE  TypeOK'
<1>1. /\ stored' = stored /\ poll' = [p \in Pollers |-> Idle] /\ sched' = Resting
      /\ picks' = {}
  BY DEF Crash
<1>2. poll' \in [Pollers -> PollStates] /\ \A q \in Pollers : PollOK(poll'[q], stored')
  BY <1>1, IdleType
<1>3. cut' \subseteq stored' \X Actors
  BY <1>1, InProgressType DEF Crash, TypeOK
<1>4. ticks' \in [all : Nat, by : [Symbols -> Nat]]
  BY DEF Crash, NoTicks
<1> QED
  BY <1>1, <1>2, <1>3, <1>4, RestingType DEF Crash, TypeOK

LEMMA InitType ==
  ASSUME DigestInit
  PROVE  TypeOK
<1>1. PICK s \in Setups : /\ conf = s.conf /\ prefs = s.prefs /\ feed = s.feed
                          /\ now = s.conf.from
  BY DEF DigestInit, Init
<1>2. prefs \in [Actors -> Prefs]
  BY <1>1, RouterAssumption DEF Prefs
<1>3. ticks \in [all : Nat, by : [Symbols -> Nat]]
  BY DEF DigestInit, Init, NoTicks
<1>4. poll \in [Pollers -> PollStates] /\ \A p \in Pollers : PollOK(poll[p], stored)
  BY IdleType DEF DigestInit, Init
<1> QED
  BY <1>1, <1>2, <1>3, <1>4, RouterAssumption, RestingType DEF DigestInit, Init, TypeOK

LEMMA NextType ==
  ASSUME TypeOK, [Next]_vars
  PROVE  TypeOK'
<1>1. CASE RouterStep
  BY <1>1, RouterType
<1>2. CASE SchedulerStep
  BY <1>2, TickType, CurateType, SendType, VisitType, FlushType, OpenSlotType
     DEF SchedulerStep
<1>3. CASE Crash
  BY <1>3, CrashType
<1>4. CASE \E a \in Actors : EditPrefs(a)
  BY <1>4, EditType
<1>5. CASE UNCHANGED vars
  BY <1>5 DEF vars, routerVars, digestVars, TypeOK
<1> QED
  BY <1>1, <1>2, <1>3, <1>4, <1>5 DEF Next

\* The tables, the buffers and the tasks keep their types in every state: no row
\* without a known channel and status, no dispatch without its event and actor.
THEOREM TypeCorrect == Spec => []TypeOK
<1>1. DigestInit => TypeOK
  BY InitType
<1>2. TypeOK /\ [Next]_vars => TypeOK'
  BY NextType
<1> QED
  BY <1>1, <1>2, PTL DEF Spec

-----------------------------------------------------------------------------
(* The fate of every event.                                                *)

FateRow(r) == r.ch \in {"prefs", "sink", "digest"} /\ r.st # "quiet_dropped"

\* Rows that end a dispatch are about stored events.
RowsKnown == \A r \in log : FateRow(r) => r.e \in stored \cup {"slot", "flush"}

FateInv == TypeOK /\ RowsKnown /\ OneFate

LEMMA InProgressIs ==
  ASSUME NEW p, NEW e, NEW a
  PROVE  <<e, a>> \in InProgress(p)
         <=> e = poll[p].e /\ a # None /\ (a \in poll[p].todo \/ a = poll[p].a)
BY DEF InProgress

LEMMA InProgressNext ==
  ASSUME NEW p, NEW e, NEW a
  PROVE  <<e, a>> \in InProgress(p)'
         <=> e = poll'[p].e /\ a # None /\ (a \in poll'[p].todo \/ a = poll'[p].a)
BY DEF InProgress

\* A pair that a step leaves alone stays accounted for.
LEMMA SameFate ==
  ASSUME NEW e, NEW a, Accounted(e, a), Fates(e, a)' = Fates(e, a),
         \A p \in Pollers : <<e, a>> \in InProgress(p)' <=> <<e, a>> \in InProgress(p),
         <<e, a>> \in cut' <=> <<e, a>> \in cut
  PROVE  Accounted(e, a)'
<1>1. {p \in Pollers : <<e, a>> \in InProgress(p)'} = {p \in Pollers : <<e, a>> \in InProgress(p)}
  OBVIOUS
<1> QED
  BY <1>1 DEF Accounted

\* Rows of other kinds, and those of whole digests, are no fates of an event.
LEMMA OtherRows ==
  ASSUME NEW rows, log' = log \cup rows, NEW e, e \notin {"slot", "flush"}, NEW a,
         \A r \in rows : FateRow(r) => r.e \in {"slot", "flush"}
  PROVE  Fates(e, a)' = Fates(e, a)
BY DEF Fates, FateRow

\* Steps that leave the pollers alone and log no fate.
LEMMA QuietStep ==
  ASSUME FateInv, UNCHANGED <<stored, conf, poll, cut>>, NEW rows, log' = log \cup rows,
         \A r \in rows : FateRow(r) => r.e \in {"slot", "flush"}
  PROVE  RowsKnown' /\ OneFate'
<1>1. RowsKnown'
  BY DEF FateInv, RowsKnown
<1>2. ASSUME NEW e \in stored', NEW a \in Actors, EventOf[e].kind \notin Disabled,
             a \in Resolve(e)'
      PROVE  Accounted(e, a)'
  <2>1. Resolve(e)' = Resolve(e)
    BY DEF Resolve
  <2>2. Accounted(e, a)
    BY <1>2, <2>1 DEF FateInv, OneFate
  <2>3. e \notin {"slot", "flush"}
    BY DigestAssumption DEF FateInv, TypeOK
  <2>4. Fates(e, a)' = Fates(e, a)
    BY <2>3, OtherRows
  <2>5. \A p \in Pollers : <<e, a>> \in InProgress(p)' <=> <<e, a>> \in InProgress(p)
    BY DEF InProgress
  <2> QED
    BY <2>2, <2>4, <2>5, SameFate
<1> QED
  BY <1>1, <1>2 DEF OneFate

\* Steps of a poller that keep the pairs it has in progress.
LEMMA SamePairs ==
  ASSUME FateInv, UNCHANGED <<stored, conf, log, cut>>, NEW p \in Pollers,
         \A q \in Pollers : q # p => poll'[q] = poll[q],
         \A e, a : <<e, a>> \in InProgress(p)' <=> <<e, a>> \in InProgress(p)
  PROVE  RowsKnown' /\ OneFate'
<1>1. RowsKnown'
  BY DEF FateInv, RowsKnown
<1>2. ASSUME NEW e \in stored', NEW a \in Actors, EventOf[e].kind \notin Disabled,
             a \in Resolve(e)'
      PROVE  Accounted(e, a)'
  <2>1. Resolve(e)' = Resolve(e) /\ Fates(e, a)' = Fates(e, a)
    BY DEF Resolve, Fates
  <2>2. Accounted(e, a)
    BY <1>2, <2>1 DEF FateInv, OneFate
  <2>3. \A q \in Pollers : <<e, a>> \in InProgress(q)' <=> <<e, a>> \in InProgress(q)
    BY InProgressIs, InProgressNext
  <2> QED
    BY <2>1, <2>2, <2>3, SameFate
<1> QED
  BY <1>1, <1>2 DEF OneFate

\* A poller that goes on works on nothing, or on the pairs it had but one.
LEMMA NextActorPairs ==
  ASSUME TypeOK, NEW p \in Pollers, poll[p].pc \in {"decide", "send", "append", "rewrite"},
         poll' = [poll EXCEPT ![p] = NextActor(p)], NEW e, NEW a
  PROVE  <<e, a>> \in InProgress(p)'
         <=> <<e, a>> \in InProgress(p) /\ <<e, a>> # <<poll[p].e, poll[p].a>>
<1>1. /\ poll[p] \in PollStates /\ poll[p].e \in stored /\ poll[p].batch # <<>>
      /\ poll[p].a \in Actors \ poll[p].todo /\ stored \subseteq Events
      /\ poll[p].todo \subseteq Actors
  BY DEF TypeOK, PollOK, PollStates
<1>2. /\ NextActor(p).todo = poll[p].todo /\ NextActor(p).a = None
      /\ NextActor(p).todo # {} => NextActor(p).e = poll[p].e
  BY <1>1, NextActorType
<1>3. poll'[p] = NextActor(p)
  BY DEF TypeOK
<1> QED
  BY <1>1, <1>2, <1>3, InProgressIs, InProgressNext

\* A dispatch that ends with its row: the pair has the row, and no poller any more.
LEMMA EndFate ==
  ASSUME FateInv, UNCHANGED <<stored, conf, cut>>, NEW p \in Pollers,
         poll[p].pc \in {"decide", "send", "append", "rewrite"},
         NEW ch \in {"prefs", "sink", "digest"}, NEW st, st # "quiet_dropped", NEW s,
         Log(p, ch, st, s)
  PROVE  RowsKnown' /\ OneFate'
<1> DEFINE row == Row(poll[p].e, poll[p].a, ch, st, s)
<1>1. /\ row.e = poll[p].e /\ row.a = poll[p].a /\ row.ch = ch /\ row.st = st
      /\ log' = log \cup {row} /\ poll' = [poll EXCEPT ![p] = NextActor(p)]
  BY DEF Row, Log
<1>2. /\ poll[p].e \in stored /\ poll[p].a \in Actors /\ None \notin Actors
      /\ poll \in [Pollers -> PollStates]
  BY RouterAssumption DEF FateInv, TypeOK, PollOK
<1> HIDE DEF row
<1>3. RowsKnown'
  BY <1>1, <1>2 DEF FateInv, RowsKnown
<1>4. ASSUME NEW e \in stored', NEW a \in Actors, EventOf[e].kind \notin Disabled,
             a \in Resolve(e)'
      PROVE  Accounted(e, a)'
  <2>1. Resolve(e)' = Resolve(e)
    BY DEF Resolve
  <2>2. Accounted(e, a)
    BY <1>4, <2>1 DEF FateInv, OneFate
  <2>3. \A q \in Pollers : q # p => (<<e, a>> \in InProgress(q)' <=> <<e, a>> \in InProgress(q))
    BY <1>1, <1>2, InProgressIs, InProgressNext
  <2>4. <<e, a>> \in InProgress(p)'
        <=> <<e, a>> \in InProgress(p) /\ <<e, a>> # <<poll[p].e, poll[p].a>>
    BY <1>1, NextActorPairs DEF FateInv
  <2>5. CASE <<e, a>> # <<poll[p].e, poll[p].a>>
    <3>1. Fates(e, a)' = Fates(e, a)
      BY <1>1, <2>5 DEF Fates
    <3>2. \A q \in Pollers : <<e, a>> \in InProgress(q)' <=> <<e, a>> \in InProgress(q)
      BY <2>3, <2>4, <2>5
    <3> QED
      BY <2>2, <3>1, <3>2, SameFate
  <2>6. CASE <<e, a>> = <<poll[p].e, poll[p].a>>
    <3>1. <<e, a>> \in InProgress(p)
      BY <1>2, <2>6, InProgressIs
    <3>2. /\ Fates(e, a) = {} /\ <<e, a>> \notin cut
          /\ \A q \in Pollers : q # p => <<e, a>> \notin InProgress(q)
      BY <2>2, <3>1 DEF Accounted
    <3>3. \A q \in Pollers : <<e, a>> \notin InProgress(q)'
      BY <2>3, <2>4, <2>6, <3>2
    <3>4. Fates(e, a)' = {row}
      <4>1. e = poll[p].e /\ a = poll[p].a
        BY <2>6
      <4> QED
        BY <1>1, <3>2, <4>1 DEF Fates
    <3> QED
      BY <3>2, <3>3, <3>4 DEF Accounted
  <2> QED
    BY <2>5, <2>6
<1> QED
  BY <1>3, <1>4 DEF OneFate

\* Dispatches that die with their pollers: their pairs are cut.
LEMMA CutFate ==
  ASSUME FateInv, UNCHANGED <<stored, conf, log>>, NEW dead \in SUBSET Pollers,
         \A p \in dead : poll'[p] = Idle, \A p \in Pollers \ dead : poll'[p] = poll[p],
         cut' = cut \cup UNION {InProgress(p) : p \in dead}
  PROVE  RowsKnown' /\ OneFate'
<1>1. RowsKnown'
  BY DEF FateInv, RowsKnown
<1>2. ASSUME NEW e \in stored', NEW a \in Actors, EventOf[e].kind \notin Disabled,
             a \in Resolve(e)'
      PROVE  Accounted(e, a)'
  <2>1. Resolve(e)' = Resolve(e) /\ Fates(e, a)' = Fates(e, a)
    BY DEF Resolve, Fates
  <2>2. Accounted(e, a)
    BY <1>2, <2>1 DEF FateInv, OneFate
  <2>3. \A q \in Pollers \ dead : <<e, a>> \in InProgress(q)' <=> <<e, a>> \in InProgress(q)
    BY InProgressIs, InProgressNext
  <2>4. \A q \in dead : <<e, a>> \notin InProgress(q)'
    BY IdleType, InProgressNext
  <2>5. <<e, a>> \in cut' <=> <<e, a>> \in cut \/ \E q \in dead : <<e, a>> \in InProgress(q)
    OBVIOUS
  <2>6. CASE \E q \in dead : <<e, a>> \in InProgress(q)
    <3>1. PICK q \in dead : <<e, a>> \in InProgress(q)
      BY <2>6
    <3>2. Fates(e, a) = {} /\ \A r \in Pollers : r # q => <<e, a>> \notin InProgress(r)
      BY <2>2, <3>1 DEF Accounted
    <3>3. \A r \in Pollers : <<e, a>> \notin InProgress(r)'
      BY <2>3, <2>4, <3>1, <3>2
    <3> QED
      BY <2>1, <2>5, <2>6, <3>2, <3>3 DEF Accounted
  <2>7. CASE ~\E q \in dead : <<e, a>> \in InProgress(q)
    <3>1. \A q \in Pollers : <<e, a>> \in InProgress(q)' <=> <<e, a>> \in InProgress(q)
      BY <2>3, <2>4, <2>7
    <3> QED
      BY <2>1, <2>2, <2>5, <2>7, <3>1, SameFate
  <2> QED
    BY <2>6, <2>7
<1> QED
  BY <1>1, <1>2 DEF OneFate

\* A new event is nobody's yet, and turns to all the actors it concerns.
LEMMA InsertFate ==
  ASSUME FateInv, NEW p \in Pollers, Insert(p)
  PROVE  RowsKnown' /\ OneFate'
<1> DEFINE new == Head(poll[p].batch)
           on == EventOf[new].kind \notin Disabled
<1>1. /\ poll[p] \in PollStates /\ poll[p].batch # <<>> /\ poll[p].todo = {}
      /\ poll[p].a = None /\ poll[p].pc = "insert" /\ poll \in [Pollers -> PollStates]
      /\ stored \subseteq Events /\ cut \subseteq stored \X Actors
  BY DEF Insert, FateInv, TypeOK, PollOK
<1>2. new \in Events /\ new \notin stored /\ stored' = stored \cup {new}
      /\ new \notin {"slot", "flush"} /\ cut' = cut /\ conf' = conf
  BY <1>1, DigestAssumption DEF Insert, PollStates
<1>3. PICK up \in BOOLEAN :
        LET s == SystemPolicy(new, IF up THEN Medium ELSE EventOf[new].sev, now)
        IN  /\ log' = IF on /\ Resolve(new) = {}
                      THEN log \cup {Row(new, None, "router", "no_actor", s)} ELSE log
            /\ poll' = [poll EXCEPT ![p] =
                          IF ~on \/ Resolve(new) = {} THEN NextEvent(p)
                          ELSE [@ EXCEPT !.pc = "route", !.e = new, !.sev = s,
                                         !.todo = Resolve(new)]]
  BY DEF Insert
<1> DEFINE s == SystemPolicy(new, IF up THEN Medium ELSE EventOf[new].sev, now)
           rows == IF on /\ Resolve(new) = {}
                   THEN {Row(new, None, "router", "no_actor", s)} ELSE {}
           x == IF ~on \/ Resolve(new) = {} THEN NextEvent(p)
                ELSE [poll[p] EXCEPT !.pc = "route", !.e = new, !.sev = s,
                                     !.todo = Resolve(new)]
<1>4. log' = log \cup rows /\ \A r \in rows : ~FateRow(r)
  <2> HIDE DEF s, new, on
  <2>1. ~FateRow(Row(new, None, "router", "no_actor", s))
    BY DEF FateRow, Row
  <2> QED
    BY <1>3, <2>1 DEF s, on
<1>5. poll'[p] = x /\ \A q \in Pollers : q # p => poll'[q] = poll[q]
  BY <1>1, <1>3
<1>6. /\ x.a = None
      /\ on => x.todo = Resolve(new) /\ (Resolve(new) # {} => x.e = new)
      /\ ~on => x.todo = {}
  <2>1. CASE ~on \/ Resolve(new) = {}
    <3>1. NextEvent(p).todo = {} /\ NextEvent(p).a = None
      BY <1>1, NextEventType DEF PollStates
    <3> QED
      BY <2>1, <3>1
  <2>2. CASE on /\ Resolve(new) # {}
    <3> HIDE DEF new, on, s
    <3> QED
      BY <1>1, <2>2 DEF PollStates
  <2> QED
    BY <2>1, <2>2
<1> HIDE DEF new, on, s, rows, x
<1>7. RowsKnown'
  BY <1>2, <1>4 DEF FateInv, RowsKnown
<1>8. ASSUME NEW e \in stored', NEW a \in Actors, EventOf[e].kind \notin Disabled,
             a \in Resolve(e)'
      PROVE  Accounted(e, a)'
  <2>1. Resolve(e)' = Resolve(e)
    BY <1>2 DEF Resolve
  <2>2. Fates(e, a)' = Fates(e, a) /\ a # None
    BY <1>4, RouterAssumption DEF Fates, FateRow
  <2>3. \A q \in Pollers : q # p => (<<e, a>> \in InProgress(q)' <=> <<e, a>> \in InProgress(q))
    BY <1>5, InProgressIs, InProgressNext
  <2>4. <<e, a>> \notin InProgress(p)
    BY <1>1, <2>2, InProgressIs
  <2>5. CASE e # new
    <3>1. <<e, a>> \notin InProgress(p)'
      BY <1>5, <1>6, <2>2, <2>5, InProgressNext
    <3>2. Accounted(e, a)
      BY <1>2, <1>8, <2>1, <2>5 DEF FateInv, OneFate
    <3>3. \A q \in Pollers : <<e, a>> \in InProgress(q)' <=> <<e, a>> \in InProgress(q)
      BY <2>3, <2>4, <3>1
    <3> QED
      BY <1>2, <2>2, <3>2, <3>3, SameFate
  <2>6. CASE e = new
    <3>1. <<e, a>> \in InProgress(p)'
      BY <1>5, <1>6, <1>8, <2>1, <2>2, <2>6, InProgressNext DEF on
    <3>2. \A q \in Pollers : <<e, a>> \notin InProgress(q)
      BY <1>2, <2>6, InProgressType DEF FateInv
    <3>3. Fates(e, a) = {} /\ <<e, a>> \notin cut'
      BY <1>1, <1>2, <2>6 DEF FateInv, RowsKnown, Fates, FateRow
    <3>4. {q \in Pollers : <<e, a>> \in InProgress(q)'} = {p}
      BY <2>3, <3>1, <3>2
    <3> QED
      BY <2>2, <3>3, <3>4 DEF Accounted
  <2> QED
    BY <2>5, <2>6
<1> QED
  BY <1>7, <1>8 DEF OneFate

\* Turning to the buffer, a poller keeps all it has in hand.
LEMMA OpensOwn ==
  ASSUME TypeOK, NEW p \in Pollers, OpenBuffer(p) \/ ReadBuffer(p)
  PROVE  /\ poll'[p].pc \in {"append", "rewrite"}
         /\ poll'[p].pc = "append" \/ PriceKey(poll[p].e) # None
         /\ poll'[p].e = poll[p].e /\ poll'[p].batch = poll[p].batch
         /\ poll'[p].todo = poll[p].todo /\ poll'[p].a = poll[p].a
         /\ poll'[p].pr = poll[p].pr /\ poll'[p].asev = poll[p].asev
<1>1. poll \in [Pollers -> PollStates] /\ poll[p] \in PollStates
  BY DEF TypeOK
<1>2. CASE OpenBuffer(p)
  BY <1>1, <1>2 DEF OpenBuffer, PollStates
<1>3. CASE ReadBuffer(p)
  <2>1. PICK read \in SUBSET buf[poll[p].a] :
          poll' = [poll EXCEPT ![p] = [@ EXCEPT !.pc = "rewrite", !.st = QueueStatus(p),
                                                !.seen = read]]
    BY <1>3 DEF ReadBuffer
  <2> QED
    BY <1>1, <1>3, <2>1 DEF ReadBuffer, PollStates
<1> QED
  BY <1>2, <1>3

\* Steps of a poller.
LEMMA PollerFate ==
  ASSUME FateInv, NEW p \in Pollers, PollerStep(p)
  PROVE  RowsKnown' /\ OneFate'
<1>1. poll \in [Pollers -> PollStates] /\ poll[p] \in PollStates /\ PollOK(poll[p], stored)
  BY DEF FateInv, TypeOK
<1>2. CASE Insert(p)
  BY <1>2, InsertFate
<1>3. CASE Poll(p) \/ PassOver(p)
  <2>1. UNCHANGED <<stored, conf, log, cut>> /\ poll[p].pc \in {"idle", "insert"}
        /\ \A q \in Pollers : q # p => poll'[q] = poll[q]
    BY <1>1, <1>3 DEF Poll, PassOver
  <2>2. poll[p].todo = {} /\ poll[p].a = None
    BY <1>1, <2>1 DEF PollOK
  <2>3. poll'[p].todo = {} /\ poll'[p].a = None
    <3>1. CASE PassOver(p)
      BY <1>1, <3>1, NextEventType DEF PassOver, PollOK, PollStates
    <3>2. CASE Poll(p) /\ Head(feed[p]) = <<>>
      BY <2>2, <3>2 DEF Poll
    <3>3. CASE Poll(p) /\ Head(feed[p]) # <<>>
      <4> DEFINE x == [Idle EXCEPT !.pc = "insert", !.batch = Head(feed[p])]
      <4>1. x.todo = {} /\ x.a = None
        BY IdleType DEF PollStates
      <4> HIDE DEF x
      <4>2. poll'[p] = x
        BY <1>1, <3>3 DEF Poll, x
      <4> QED
        BY <4>1, <4>2
    <3> QED
      BY <1>3, <3>1, <3>2, <3>3
  <2>4. \A e, a : <<e, a>> \in InProgress(p)' <=> <<e, a>> \in InProgress(p)
    BY <2>2, <2>3, InProgressIs, InProgressNext
  <2> QED
    BY <2>1, <2>4, SamePairs
<1>4. CASE PickActor(p) \/ Judged(p) \/ Push(p) \/ OpenBuffer(p) \/ ReadBuffer(p)
  <2>1. UNCHANGED <<stored, conf, log, cut>> /\ \A q \in Pollers : q # p => poll'[q] = poll[q]
    BY <1>1, <1>4 DEF PickActor, Judged, Push, OpenBuffer, ReadBuffer
  <2>2. poll'[p].e = poll[p].e
        /\ poll'[p].todo \cup ({poll'[p].a} \ {None}) = poll[p].todo \cup ({poll[p].a} \ {None})
    <3>1. CASE PickActor(p)
      <4>1. PICK a \in poll[p].todo : poll' = [poll EXCEPT ![p] = Facing(p, a)]
        BY <3>1 DEF PickActor
      <4>2. poll[p].a = None /\ a # None
        BY <1>1, <3>1, RouterAssumption DEF PickActor, PollOK, PollStates
      <4>3. /\ Facing(p, a).a = a /\ Facing(p, a).e = poll[p].e
            /\ Facing(p, a).todo = poll[p].todo \ {a}
        BY <1>1 DEF Facing, PollStates
      <4> QED
        BY <1>1, <4>1, <4>2, <4>3
    <3>2. CASE Judged(p)
      BY <1>1, <3>2 DEF Judged, PollStates
    <3>3. CASE Push(p)
      BY <1>1, <3>3 DEF Push, PollStates
    <3>4. CASE OpenBuffer(p) \/ ReadBuffer(p)
      BY <3>4, OpensOwn DEF FateInv
    <3> QED
      BY <1>4, <3>1, <3>2, <3>3, <3>4
  <2>3. ASSUME NEW e, NEW a
        PROVE  <<e, a>> \in InProgress(p)' <=> <<e, a>> \in InProgress(p)
    <3>1. a \in poll'[p].todo \cup ({poll'[p].a} \ {None})
          <=> a \in poll[p].todo \cup ({poll[p].a} \ {None})
      BY <2>2
    <3> QED
      BY <2>2, <3>1, InProgressIs, InProgressNext
  <2> QED
    BY <2>1, <2>3, SamePairs
<1>5. CASE Filter(p) \/ Hold(p) \/ AppendLine(p) \/ EnqueueFails(p) \/ Rewrite(p)
           \/ Pushed(p) \/ PushFails(p)
  <2>1. UNCHANGED <<stored, conf, cut>> /\ poll[p].pc \in {"decide", "send", "append", "rewrite"}
    BY <1>5 DEF Filter, Hold, AppendLine, EnqueueFails, Rewrite, Pushed, PushFails, Deciding
  <2>2. \E ch \in {"prefs", "sink", "digest"} : \E st, s :
          st # "quiet_dropped" /\ Log(p, ch, st, s)
    <3>1. CASE Filter(p) \/ Hold(p) \/ EnqueueFails(p)
      BY <3>1 DEF Filter, Hold, EnqueueFails
    <3>2. CASE AppendLine(p) \/ Rewrite(p)
      <4>1. poll[p].st # "quiet_dropped"
        BY <3>2 DEF FateInv, TypeOK, PollOK, AppendLine, Rewrite, QueueStatuses
      <4> QED
        BY <3>2, <4>1 DEF AppendLine, Rewrite
    <3>3. CASE Pushed(p) \/ PushFails(p)
      BY <3>3 DEF Pushed, PushFails, Acknowledged
    <3> QED
      BY <1>5, <3>1, <3>2, <3>3
  <2> QED
    BY <2>1, <2>2, EndFate
<1>6. CASE TimeOut(p)
  <2>1. cut' = cut \cup UNION {InProgress(q) : q \in {p}}
    BY <1>6 DEF TimeOut
  <2>2. poll'[p] = Idle /\ \A q \in Pollers \ {p} : poll'[q] = poll[q]
    BY <1>1, <1>6 DEF TimeOut
  <2> QED
    BY <1>6, <2>1, <2>2, CutFate DEF TimeOut
<1> QED
  BY <1>2, <1>3, <1>4, <1>5, <1>6 DEF PollerStep, Work, Answer

\* The rows the digest scheduler writes; none is the fate of an event or a push.
ItemRow(r) ==
  /\ r.at = now
  /\ \/ r.ch \in {"digest_item", "global_digest_item"}
     \/ r.ch = "sink" /\ r.st = "quiet_dropped"
ItemRows(rows) == \A r \in rows : ItemRow(r)
DigestRows(rows) ==
  \A r \in rows :
    ItemRow(r) \/ (r.at = now /\ r.ch = "digest" /\ r.e \in {"slot", "flush"})

LEMMA NothingLogged ==
  ASSUME log' = log
  PROVE  \E more : log' = log \cup more /\ DigestRows(more)
<1>1. log' = log \cup {} /\ DigestRows({})
  BY DEF DigestRows
<1> QED
  BY <1>1

LEMMA OmitRowsKind ==
  ASSUME NEW a, NEW omit
  PROVE  ItemRows(OmitRows(a, omit))
BY DEF ItemRows, ItemRow, OmitRows, Row

LEMMA ComposeRows ==
  ASSUME NEW a, NEW pr, NEW what, NEW items, NEW floor, NEW world, NEW rows,
         ItemRows(rows), Compose(a, pr, what, items, floor, world, rows)
  PROVE  \E more : log' = log \cup more /\ ItemRows(more)
<1>1. PICK omit \in SUBSET items :
        IF items = omit THEN log' = log \cup rows \cup OmitRows(a, omit)
        ELSE log' = log \cup rows
  BY DEF Compose
<1>2. CASE items = omit
  <2>1. log' = log \cup (rows \cup OmitRows(a, omit))
    BY <1>1, <1>2
  <2>2. ItemRows(rows \cup OmitRows(a, omit))
    BY OmitRowsKind DEF ItemRows
  <2> QED
    BY <2>1, <2>2
<1>3. CASE items # omit
  BY <1>1, <1>3
<1> QED
  BY <1>2, <1>3

\* What a flush and a slot hand to the composer.
LEMMA FlushComposes ==
  ASSUME NEW a, Flush(a)
  PROVE  \E items, rows : ItemRows(rows) /\ Compose(a, prefs[a], "flush", items, {}, {}, rows)
<1> PICK drained : FlushLines(a, drained)
  BY DEF Flush
<1> DEFINE held == Held(a, sched.t - HeldWindow)
           stale == {e \in held : ~Fresh(e, sched.t) /\ EventOf[e].kind # "price"}
           lines == {l \in drained : l.e \notin held \ stale}
           all == {Own(e, EventOf[e].sev) : e \in held \ stale}
                    \cup {Own(l.e, l.sev) : l \in lines}
           items == {i \in all : ShouldDeliver(i.e, i.sev, prefs[a])}
           rows == {Row(e, a, "sink", "quiet_dropped", EventOf[e].sev) : e \in stale}
<1>1. Compose(a, prefs[a], "flush", items, {}, {}, rows)
  BY DEF FlushLines
<1>2. ItemRows(rows)
  <2> HIDE DEF stale
  <2> QED
    BY DEF ItemRows, ItemRow, Row
<1> HIDE DEF items, rows
<1> QED
  BY <1>1, <1>2

LEMMA CurateComposes ==
  ASSUME Curate
  PROVE  \E items, floor, world, rows :
           ItemRows(rows) /\ Compose(sched.a, sched.pr, "slot", items, floor, world, rows)
<1>1. PICK world, macro : Serve(sched.a, sched.pr, world, macro)
  BY DEF Curate
<1> DEFINE liked == {e \in world : ShouldDeliver(e, EventOf[e].sev, sched.pr)}
           items == {i \in sched.mine : ShouldDeliver(i.e, i.sev, sched.pr)}
                      \cup {Picked(e) : e \in {e \in liked : InFocus(e, sched.a)}}
           floor == {i \in items : \/ Floor(i.e, i.sev, sched.pr)
                                   \/ (i.world /\ i.e \in macro)}
           rows == {Row(e, sched.a, "global_digest_item", "filtered_focus", EventOf[e].sev) :
                      e \in {e \in liked : ~InFocus(e, sched.a)}}
<1>2. Compose(sched.a, sched.pr, "slot", items, floor, world, rows)
  BY <1>1 DEF Serve
<1>3. ItemRows(rows)
  <2> HIDE DEF liked
  <2> QED
    BY DEF ItemRows, ItemRow, Row
<1> HIDE DEF items, floor, rows
<1> QED
  BY <1>2, <1>3

LEMMA SentRowsKind ==
  ASSUME TypeOK, sched.pc = "send", NEW st
  PROVE  DigestRows(SentRows(st)) /\ DigestRows({BatchRow(st)})
<1>1. sched.what \in {"slot", "flush"}
  BY DEF TypeOK, SchedOK
<1>2. DigestRows({BatchRow(st)})
  BY <1>1 DEF DigestRows, ItemRow, BatchRow, Row
<1>3. DigestRows({Row(i.e, sched.a, "digest_item", st, i.sev) : i \in sched.mine})
  BY DEF DigestRows, ItemRow, Row
<1>4. DigestRows({Row(e, sched.a, "global_digest_item", st, EventOf[e].sev) :
                 e \in sched.world \cap {i.e : i \in sched.mine}})
  BY DEF DigestRows, ItemRow, Row
<1>5. DigestRows(OmitRows(sched.a, sched.omit))
  BY OmitRowsKind DEF DigestRows, ItemRows
<1> QED
  BY <1>2, <1>3, <1>4, <1>5 DEF DigestRows, SentRows

\* A step of the scheduler leaves the pollers alone and writes rows of its own.
LEMMA SchedulerRows ==
  ASSUME TypeOK, SchedulerStep
  PROVE  /\ UNCHANGED <<now, stored, conf, poll, cut>>
         /\ \E more : log' = log \cup more /\ DigestRows(more)
<1>1. UNCHANGED <<now, stored, conf, poll, cut>>
  BY DEF SchedulerStep, Tick, Curate, DigestSent, DigestFails, Skip, TooSoon, Flush, OpenSlot,
         routerVars
<1>2. \E more : log' = log \cup more /\ DigestRows(more)
  <2>1. CASE log' = log
    BY <2>1, NothingLogged
  <2>2. CASE \E a \in Actors : Flush(a)
    BY <2>2, FlushComposes, ComposeRows DEF ItemRows, DigestRows
  <2>3. CASE Curate
    BY <2>3, CurateComposes, ComposeRows DEF ItemRows, DigestRows
  <2>4. CASE DigestSent \/ DigestFails
    <3>1. sched.pc = "send"
      BY <2>4 DEF DigestSent, DigestFails
    <3> QED
      BY <2>4, <3>1, SentRowsKind DEF DigestSent, DigestFails
  <2> QED
    BY <2>1, <2>2, <2>3, <2>4 DEF SchedulerStep, Tick, Skip, TooSoon, OpenSlot, routerVars
<1> QED
  BY <1>1, <1>2

LEMMA SchedulerFate ==
  ASSUME FateInv, UNCHANGED <<stored, conf, poll, cut>>,
         \E more : log' = log \cup more /\ DigestRows(more)
  PROVE  RowsKnown' /\ OneFate'
<1>1. PICK more : log' = log \cup more /\ DigestRows(more)
  OBVIOUS
<1>2. \A r \in more : FateRow(r) => r.e \in {"slot", "flush"}
  BY <1>1 DEF DigestRows, ItemRow, FateRow
<1> QED
  BY <1>1, <1>2, QuietStep

LEMMA FateInit ==
  ASSUME DigestInit
  PROVE  FateInv
BY InitType DEF FateInv, DigestInit, Init, RowsKnown, OneFate

LEMMA FateNext ==
  ASSUME FateInv, [Next]_vars
  PROVE  FateInv'
<1> SUFFICES RowsKnown' /\ OneFate' /\ TypeOK'
  BY DEF FateInv
<1>1. TypeOK'
  BY NextType DEF FateInv
<1>2. CASE RouterStep
  <2>1. CASE AdvanceTime
    <3>1. UNCHANGED <<stored, conf, poll, cut>> /\ log' = log
      BY <2>1 DEF AdvanceTime
    <3>2. \E more : log' = log \cup more /\ DigestRows(more)
      BY <3>1, NothingLogged
    <3> QED
      BY <1>1, <3>1, <3>2, SchedulerFate
  <2> QED
    BY <1>1, <1>2, <2>1, PollerFate DEF RouterStep
<1>3. CASE SchedulerStep
  BY <1>1, <1>3, SchedulerRows, SchedulerFate DEF FateInv
<1>4. CASE Crash
  BY <1>1, <1>4, CutFate DEF Crash
<1>5. CASE (\E a \in Actors : EditPrefs(a)) \/ UNCHANGED vars
  <2>1. UNCHANGED <<stored, conf, poll, cut>>
        /\ \E more : log' = log \cup more /\ DigestRows(more)
    BY <1>5, NothingLogged DEF EditPrefs, vars, routerVars
  <2> QED
    BY <1>1, <2>1, SchedulerFate
<1> QED
  BY <1>2, <1>3, <1>4, <1>5 DEF Next

\* For every stored event and actor the dispatch is under way in one poller, ended
\* with exactly one row, or was cut off, in every state of every instance.
THEOREM DispatchEndsOnce == Spec => []OneFate
<1>1. FateInv => OneFate
  BY DEF FateInv
<1> QED
  BY <1>1, FateInit, FateNext, PTL DEF Spec

-----------------------------------------------------------------------------
(* The daily cap.  A push is counted from the moment its poller waits for  *)
(* the channel: what is logged and what is in flight grow together.        *)

IsPush(r) == r.ch = "sink" /\ r.st = "sent"
Pushes == {r \in log : IsPush(r)}

\* High pushes of a category to an actor since an instant, whatever is stored.
PushesSince(a, c, since) ==
  {r \in Pushes : r.a = a /\ r.sev = High /\ r.at >= since /\ Category(r.e) = c}

PushesKnown == IsFiniteSet(Pushes) /\ \A r \in Pushes : r.e \in stored

\* The ceiling for every category, one that no event of the store has among them.
Ceiling(a, c) ==
  Cardinality(PushesSince(a, c, DayStart(now))) + Cardinality(InFlight(a, c))
    <= HighCap + Cardinality(Pollers) - 1

CapInv == TypeOK /\ PushesKnown /\ (HighCap > 0 => \A a \in Actors : \A c : Ceiling(a, c))

LEMMA PushesAreHighSent ==
  ASSUME PushesKnown, NEW a, NEW c, NEW since
  PROVE  HighSentOf(a, c, since) = PushesSince(a, c, since)
BY DEF PushesKnown, HighSentOf, HighSent, PushesSince, Pushes, IsPush

\* A later instant has no earlier start of its day.
LEMMA DayStartGrows ==
  ASSUME NEW t \in Nat
  PROVE  DayStart(t) \in Int /\ DayStart(t) <= DayStart(t + 1)
<1> DEFINE q == t \div DayLen
           r == (t + 1) \div DayLen
<1>1. DayLen \in Nat \ {0}
  BY PolicyAssumption
<1>2. q \in Int /\ r \in Int /\ q <= r
  BY <1>1
<1>3. q * DayLen <= r * DayLen
  <2> HIDE DEF q, r
  <2> QED
    BY <1>1, <1>2
<1> QED
  BY <1>1, <1>2, <1>3 DEF DayStart, Day

LEMMA SomePollers ==
  ASSUME NEW S \in SUBSET Pollers
  PROVE  /\ IsFiniteSet(S) /\ Cardinality(S) \in Nat /\ Cardinality(Pollers) \in Nat
         /\ Cardinality(S) <= Cardinality(Pollers)
BY RouterAssumption, FS_Subset, FS_CardinalityType

\* Steps that push nothing and take no answer.
LEMMA NoPushStep ==
  ASSUME CapInv, Pushes' = Pushes, stored \subseteq stored',
         now' = now \/ now' = now + 1,
         \A a \in Actors : \A c : InFlight(a, c)' \subseteq InFlight(a, c)
  PROVE  PushesKnown' /\ (HighCap > 0 => \A a \in Actors : \A c : Ceiling(a, c)')
<1>1. PushesKnown'
  BY DEF CapInv, PushesKnown
<1>2. ASSUME HighCap > 0, NEW a \in Actors, NEW c
      PROVE  Ceiling(a, c)'
  <2>1. DayStart(now) \in Int /\ DayStart(now') \in Int /\ DayStart(now) <= DayStart(now')
    <3>1. now \in Nat /\ DayStart(now) \in Int
      BY DayStartGrows DEF CapInv, TypeOK
    <3>2. CASE now' = now
      BY <3>1, <3>2
    <3>3. CASE now' = now + 1
      BY <3>1, <3>3, DayStartGrows
    <3> QED
      BY <3>2, <3>3
  <2>2. \A r \in Pushes : r.at \in Int
    BY DEF CapInv, TypeOK, Pushes, Rows
  <2>3. PushesSince(a, c, DayStart(now))' \subseteq PushesSince(a, c, DayStart(now))
    BY <2>1, <2>2 DEF PushesSince
  <2>4. /\ IsFiniteSet(PushesSince(a, c, DayStart(now)))
        /\ PushesSince(a, c, DayStart(now)) \subseteq Pushes
    BY FS_Subset DEF PushesSince, CapInv, PushesKnown
  <2>5. /\ Cardinality(PushesSince(a, c, DayStart(now)))' <= Cardinality(PushesSince(a, c, DayStart(now)))
        /\ Cardinality(PushesSince(a, c, DayStart(now)))' \in Nat
        /\ Cardinality(PushesSince(a, c, DayStart(now))) \in Nat
    BY <2>3, <2>4, FS_Subset, FS_CardinalityType
  <2>6. /\ Cardinality(InFlight(a, c))' <= Cardinality(InFlight(a, c))
        /\ Cardinality(InFlight(a, c))' \in Nat /\ Cardinality(InFlight(a, c)) \in Nat
    <3>1. InFlight(a, c) \in SUBSET Pollers
      BY DEF InFlight
    <3> QED
      BY <3>1, SomePollers, FS_Subset, FS_CardinalityType
  <2>7. Ceiling(a, c)
    BY <1>2 DEF CapInv
  <2>8. HighCap \in Int /\ Cardinality(Pollers) \in Int
    BY RouterAssumption, FS_CardinalityType
  <2> QED
    BY <2>5, <2>6, <2>7, <2>8 DEF Ceiling
<1> QED
  BY <1>1, <1>2

\* A push starts below the cap.
LEMMA PushCeiling ==
  ASSUME CapInv, NEW p \in Pollers, Push(p)
  PROVE  PushesKnown' /\ (HighCap > 0 => \A a \in Actors : \A c : Ceiling(a, c)')
<1>1. UNCHANGED <<now, stored, log>> /\ poll' = [poll EXCEPT ![p].pc = "send"]
  BY DEF Push
<1>2. PushesKnown' /\ Pushes' = Pushes
  BY <1>1 DEF CapInv, PushesKnown, Pushes
<1>3. ASSUME HighCap > 0, NEW a \in Actors, NEW c
      PROVE  Ceiling(a, c)'
  <2>1. PushesSince(a, c, DayStart(now))' = PushesSince(a, c, DayStart(now))
    BY <1>1, <1>2 DEF PushesSince, DayStart, Day
  <2>2. IsFiniteSet(PushesSince(a, c, DayStart(now)))
    BY FS_Subset DEF PushesSince, CapInv, PushesKnown
  <2>3. /\ Cardinality(PushesSince(a, c, DayStart(now))) \in Nat /\ HighCap \in Nat
        /\ Cardinality(InFlight(a, c))' \in Nat /\ Cardinality(Pollers) \in Nat
        /\ Cardinality(InFlight(a, c))' <= Cardinality(Pollers)
    <3>1. InFlight(a, c)' \in SUBSET Pollers
      BY DEF InFlight
    <3> QED
      BY <2>2, <3>1, FS_CardinalityType, SomePollers, RouterAssumption
  <2>4. CASE a = poll[p].a /\ c = Category(poll[p].e)
    <3>1. ~Capped(p)
      BY <1>3 DEF Push, Direct, QueueStatus
    <3>2. ~(Cardinality(PushesSince(a, c, DayStart(now))) >= HighCap)
      BY <1>3, <2>4, <3>1, PushesAreHighSent DEF Capped, CapInv
    <3> QED
      BY <2>1, <2>3, <3>2 DEF Ceiling
  <2>5. CASE ~(a = poll[p].a /\ c = Category(poll[p].e))
    <3>1. \A q \in Pollers : /\ poll'[q].a = poll[q].a /\ poll'[q].e = poll[q].e
                             /\ q # p => poll'[q].pc = poll[q].pc
      BY <1>1 DEF CapInv, TypeOK, PollStates
    <3>2. InFlight(a, c)' = InFlight(a, c)
      <4>1. p \notin InFlight(a, c)' /\ p \notin InFlight(a, c)
        BY <2>5, <3>1 DEF InFlight
      <4>2. \A q \in Pollers : q # p => (q \in InFlight(a, c)' <=> q \in InFlight(a, c))
        BY <3>1 DEF InFlight
      <4> QED
        BY <4>1, <4>2 DEF InFlight
    <3>3. Ceiling(a, c)
      BY <1>3 DEF CapInv
    <3> QED
      BY <2>1, <3>2, <3>3 DEF Ceiling
  <2> QED
    BY <2>4, <2>5
<1> QED
  BY <1>2, <1>3

\* A poller whose push was answered is in flight no longer.
LEMMA Landed ==
  ASSUME TypeOK, NEW p \in Pollers, poll[p].pc \in {"decide", "send", "append", "rewrite"},
         poll' = [poll EXCEPT ![p] = NextActor(p)], NEW a, NEW c
  PROVE  InFlight(a, c)' = InFlight(a, c) \ {p}
<1>1. /\ poll[p] \in PollStates /\ poll[p].e \in stored /\ poll[p].batch # <<>>
      /\ stored \subseteq Events /\ poll \in [Pollers -> PollStates]
  BY DEF TypeOK, PollOK
<1>2. NextActor(p).pc # "send"
  BY <1>1, NextActorType
<1>3. poll'[p].pc # "send" /\ \A q \in Pollers : q # p => poll'[q] = poll[q]
  BY <1>1, <1>2
<1> QED
  BY <1>3 DEF InFlight

\* An acknowledged push moves from those in flight to those logged.
LEMMA AnswerCeiling ==
  ASSUME CapInv, NEW p \in Pollers, poll[p].pc = "send", UNCHANGED <<now, stored>>,
         NEW st, Log(p, "sink", st, High)
  PROVE  PushesKnown' /\ (HighCap > 0 => \A a \in Actors : \A c : Ceiling(a, c)')
<1> DEFINE row == Row(poll[p].e, poll[p].a, "sink", st, High)
<1>1. /\ row.e = poll[p].e /\ row.a = poll[p].a /\ row.ch = "sink" /\ row.st = st
      /\ row.sev = High
      /\ log' = log \cup {row} /\ poll' = [poll EXCEPT ![p] = NextActor(p)]
  BY DEF Row, Log
<1> HIDE DEF row
<1>2. \A a, c : InFlight(a, c)' = InFlight(a, c) \ {p}
  BY <1>1, Landed DEF CapInv
<1>3. CASE st # "sent"
  <2>1. Pushes' = Pushes
    BY <1>1, <1>3 DEF Pushes, IsPush
  <2>2. \A a \in Actors : \A c : InFlight(a, c)' \subseteq InFlight(a, c)
    BY <1>2
  <2> QED
    BY <2>1, <2>2, NoPushStep
<1>4. CASE st = "sent"
  <2>1. Pushes' = Pushes \cup {row}
    BY <1>1, <1>4 DEF Pushes, IsPush
  <2>2. row.e \in stored
    BY <1>1 DEF CapInv, TypeOK, PollOK
  <2>3. PushesKnown'
    BY <2>1, <2>2, FS_AddElement DEF CapInv, PushesKnown
  <2>4. ASSUME HighCap > 0, NEW a \in Actors, NEW c
        PROVE  Ceiling(a, c)'
    <3> DEFINE S == PushesSince(a, c, DayStart(now))
               F == InFlight(a, c)
    <3>1. IsFiniteSet(S) /\ Cardinality(S) \in Nat
      BY FS_Subset, FS_CardinalityType DEF PushesSince, CapInv, PushesKnown
    <3>2. IsFiniteSet(F) /\ Cardinality(F) \in Nat /\ Cardinality(Pollers) \in Nat
          /\ HighCap \in Nat
      <4>1. F \in SUBSET Pollers
        BY DEF InFlight
      <4> QED
        BY <4>1, SomePollers, RouterAssumption
    <3>3. DayStart(now)' = DayStart(now)
      BY DEF DayStart, Day
    <3>4. Cardinality(S) + Cardinality(F) <= HighCap + Cardinality(Pollers) - 1
      BY <2>4 DEF CapInv, Ceiling
    <3>5. CASE a = poll[p].a /\ c = Category(poll[p].e)
      <4>1. S' \subseteq S \cup {row}
        BY <2>1, <3>3 DEF PushesSince
      <4>2. /\ IsFiniteSet(S \cup {row}) /\ Cardinality(S \cup {row}) \in Nat
            /\ Cardinality(S \cup {row}) <= Cardinality(S) + 1
        <5>1. CASE row \in S
          <6>1. S \cup {row} = S
            BY <5>1
          <6> HIDE DEF S
          <6> QED
            BY <3>1, <6>1
        <5>2. CASE row \notin S
          <6> HIDE DEF S
          <6>1. /\ IsFiniteSet(S \cup {row})
                /\ Cardinality(S \cup {row}) = Cardinality(S) + 1
            BY <3>1, <5>2, FS_AddElement
          <6> QED
            BY <3>1, <6>1
        <5> QED
          BY <5>1, <5>2
      <4>3. Cardinality(S') <= Cardinality(S) + 1 /\ Cardinality(S') \in Nat
        BY <3>1, <4>1, <4>2, FS_Subset, FS_CardinalityType
      <4>4. p \in F
        BY <3>5 DEF InFlight
      <4>5. F' = F \ {p}
        BY <1>2
      <4>6. Cardinality(F') = Cardinality(F) - 1
        BY <3>2, <4>4, <4>5, FS_RemoveElement
      <4> HIDE DEF S, F
      <4>7. Cardinality(S') + Cardinality(F') <= HighCap + Cardinality(Pollers) - 1
        BY <3>1, <3>2, <3>4, <4>3, <4>6
      <4> QED
        BY <4>7 DEF Ceiling, S, F
    <3>6. CASE ~(a = poll[p].a /\ c = Category(poll[p].e))
      <4>1. S' = S
        BY <1>1, <2>1, <3>3, <3>6 DEF PushesSince
      <4>2. p \notin F
        BY <3>6 DEF InFlight
      <4>3. F' = F
        BY <1>2, <4>2
      <4> HIDE DEF S, F
      <4>4. Cardinality(S') + Cardinality(F') <= HighCap + Cardinality(Pollers) - 1
        BY <3>4, <4>1, <4>3
      <4> QED
        BY <4>4 DEF Ceiling, S, F
    <3> QED
      BY <3>5, <3>6
  <2> QED
    BY <2>3, <2>4
<1> QED
  BY <1>3, <1>4

\* A step of a poller that starts no push and takes no answer to one.
Rests(p) == /\ now' = now /\ stored \subseteq stored' /\ Pushes' = Pushes
            /\ poll'[p].pc # "send" /\ \A q \in Pollers : q # p => poll'[q] = poll[q]

Answered(p) == /\ poll[p].pc = "send" /\ UNCHANGED <<now, stored>>
               /\ \E st : Log(p, "sink", st, High)

LEMMA PollerPushes ==
  ASSUME TypeOK, NEW p \in Pollers, PollerStep(p)
  PROVE  Push(p) \/ Answered(p) \/ Rests(p)
<1>1. /\ poll \in [Pollers -> PollStates] /\ poll[p] \in PollStates
      /\ PollOK(poll[p], stored)
  BY DEF TypeOK
<1>2. CASE Push(p)
  BY <1>2
<1>3. CASE Pushed(p) \/ PushFails(p)
  BY <1>3 DEF Pushed, PushFails, Answered
<1>4. CASE Filter(p) \/ Hold(p) \/ AppendLine(p) \/ EnqueueFails(p) \/ Rewrite(p)
  <2>1. UNCHANGED <<now, stored>> /\ poll[p].pc \in {"decide", "send", "append", "rewrite"}
    BY <1>4 DEF Filter, Hold, AppendLine, EnqueueFails, Rewrite, Deciding
  <2>2. PICK ch, st, s : Log(p, ch, st, s) /\ (ch # "sink" \/ st # "sent")
    BY <1>4 DEF Filter, Hold, AppendLine, EnqueueFails, Rewrite
  <2>3. Pushes' = Pushes
    BY <2>2 DEF Log, Row, Pushes, IsPush
  <2>4. poll' = [poll EXCEPT ![p] = NextActor(p)]
    BY <2>2 DEF Log
  <2>5. poll'[p].pc # "send"
    <3>1. poll[p].e \in stored /\ poll[p].batch # <<>> /\ stored \subseteq Events
      BY <1>1, <2>1 DEF PollOK, TypeOK
    <3>2. NextActor(p).pc # "send"
      BY <1>1, <3>1, NextActorType
    <3> QED
      BY <1>1, <2>4, <3>2
  <2> QED
    BY <1>1, <2>1, <2>3, <2>4, <2>5 DEF Rests
<1>5. CASE Poll(p) \/ PassOver(p) \/ Insert(p) \/ PickActor(p) \/ Judged(p)
           \/ OpenBuffer(p) \/ ReadBuffer(p) \/ TimeOut(p)
  <2>1. now' = now /\ stored \subseteq stored' /\ \A q \in Pollers : q # p => poll'[q] = poll[q]
    BY <1>1, <1>5 DEF Poll, PassOver, Insert, PickActor, Judged, OpenBuffer, ReadBuffer, TimeOut
  <2>2. Pushes' = Pushes
    <3>1. CASE Insert(p)
      <4>1. log' = log \/ \E e, s : log' = log \cup {Row(e, None, "router", "no_actor", s)}
        BY <3>1 DEF Insert
      <4>2. \A e, s : Row(e, None, "router", "no_actor", s).ch = "router"
        BY DEF Row
      <4>3. CASE log' = log
        BY <4>3 DEF Pushes
      <4>4. CASE \E e, s : log' = log \cup {Row(e, None, "router", "no_actor", s)}
        <5>1. PICK e, s : log' = log \cup {Row(e, None, "router", "no_actor", s)}
          BY <4>4
        <5> DEFINE row == Row(e, None, "router", "no_actor", s)
        <5>2. ~IsPush(row)
          BY <4>2 DEF IsPush
        <5> HIDE DEF row
        <5> QED
          BY <5>1, <5>2 DEF Pushes, row
      <4> QED
        BY <4>1, <4>3, <4>4
    <3>2. CASE ~Insert(p)
      BY <1>5, <3>2 DEF Poll, PassOver, PickActor, Judged, OpenBuffer, ReadBuffer, TimeOut,
                        Pushes
    <3> QED
      BY <3>1, <3>2
  <2>3. poll'[p].pc # "send"
    <3>1. CASE Poll(p)
      <4> DEFINE x == [Idle EXCEPT !.pc = "insert", !.batch = Head(feed[p])]
      <4>1. x.pc = "insert"
        BY IdleType DEF PollStates
      <4>2. poll' = poll \/ poll' = [poll EXCEPT ![p] = x]
        BY <3>1 DEF Poll
      <4> HIDE DEF x
      <4>3. poll[p].pc = "idle"
        BY <3>1 DEF Poll
      <4> QED
        BY <1>1, <4>1, <4>2, <4>3
    <3>2. CASE PassOver(p)
      BY <1>1, <3>2, NextEventType DEF PassOver, PollStates, PollOK
    <3>3. CASE Insert(p)
      <4>1. NextEvent(p).pc # "send"
        BY <1>1, <3>3, NextEventType DEF Insert, PollStates, PollOK
      <4> DEFINE new == Head(poll[p].batch)
                 x(up) == [poll[p] EXCEPT !.pc = "route", !.e = new, !.todo = Resolve(new),
                             !.sev = SystemPolicy(new, IF up THEN Medium ELSE EventOf[new].sev, now)]
      <4>2. \A up : x(up).pc = "route"
        BY <1>1 DEF PollStates
      <4>3. \E up \in BOOLEAN : \/ poll' = [poll EXCEPT ![p] = NextEvent(p)]
                               \/ poll' = [poll EXCEPT ![p] = x(up)]
        BY <3>3 DEF Insert
      <4> HIDE DEF x
      <4> QED
        BY <1>1, <4>1, <4>2, <4>3
    <3>4. CASE PickActor(p)
      <4>1. \A a : Facing(p, a).pc # "send"
        BY <1>1 DEF Facing, PollStates
      <4> QED
        BY <1>1, <3>4, <4>1 DEF PickActor
    <3>5. CASE Judged(p)
      BY <1>1, <3>5 DEF Judged, PollStates
    <3>6. CASE OpenBuffer(p) \/ ReadBuffer(p)
      BY <3>6, OpensOwn DEF CapInv
    <3>7. CASE TimeOut(p)
      BY <1>1, <3>7, IdleType DEF TimeOut
    <3> QED
      BY <1>5, <3>1, <3>2, <3>3, <3>4, <3>5, <3>6, <3>7
  <2> QED
    BY <2>1, <2>2, <2>3 DEF Rests
<1> QED
  BY <1>2, <1>3, <1>4, <1>5 DEF PollerStep, Work, Answer

LEMMA PollerCeiling ==
  ASSUME CapInv, NEW p \in Pollers, PollerStep(p)
  PROVE  PushesKnown' /\ (HighCap > 0 => \A a \in Actors : \A c : Ceiling(a, c)')
<1>1. CASE Push(p)
  BY <1>1, PushCeiling
<1>2. CASE Answered(p)
  BY <1>2, AnswerCeiling DEF Answered
<1>3. CASE Rests(p)
  <2>1. \A a \in Actors : \A c : InFlight(a, c)' \subseteq InFlight(a, c)
    BY <1>3 DEF InFlight, Rests
  <2> QED
    BY <1>3, <2>1, NoPushStep DEF Rests
<1> QED
  BY <1>1, <1>2, <1>3, PollerPushes DEF CapInv

\* A user gets no more High pushes of a category in a day than the cap and one for
\* each other poller, however many pollers and users there are.
THEOREM CapHolds == Spec => []CapCeiling
<1>1. DigestInit => CapInv
  <2> SUFFICES ASSUME DigestInit
               PROVE  TypeOK /\ PushesKnown /\ (HighCap > 0 => \A a \in Actors : \A c : Ceiling(a, c))
    BY DEF CapInv
  <2>1. Pushes = {} /\ \A p \in Pollers : poll[p].pc # "send"
    BY IdleType DEF DigestInit, Init, Pushes
  <2>2. TypeOK /\ PushesKnown
    BY <2>1, InitType, FS_EmptySet DEF PushesKnown
  <2>3. ASSUME HighCap > 0, NEW a \in Actors, NEW c PROVE Ceiling(a, c)
    <3>1. PushesSince(a, c, DayStart(now)) = {} /\ InFlight(a, c) = {}
      BY <2>1 DEF PushesSince, InFlight
    <3>2. Cardinality({}) = 0 /\ Cardinality(Pollers) \in Nat /\ HighCap \in Nat
      BY FS_EmptySet, FS_CardinalityType, RouterAssumption
    <3> QED
      BY <2>3, <3>1, <3>2 DEF Ceiling
  <2> QED
    BY <2>2, <2>3
<1>2. CapInv /\ [Next]_vars => CapInv'
  <2> SUFFICES ASSUME CapInv, [Next]_vars
               PROVE  TypeOK' /\ PushesKnown' /\ (HighCap > 0 => \A a \in Actors : \A c : Ceiling(a, c)')
    BY DEF CapInv
  <2>1. TypeOK'
    BY NextType DEF CapInv
  <2>2. CASE \E p \in Pollers : PollerStep(p)
    BY <2>1, <2>2, PollerCeiling
  <2>3. CASE AdvanceTime \/ (\E a \in Actors : EditPrefs(a)) \/ UNCHANGED vars
    <3>1. UNCHANGED <<stored, log, poll>> /\ (now' = now \/ now' = now + 1)
      BY <2>3 DEF AdvanceTime, EditPrefs, vars, routerVars
    <3>2. Pushes' = Pushes /\ \A a \in Actors : \A c : InFlight(a, c)' \subseteq InFlight(a, c)
      BY <3>1 DEF Pushes, InFlight
    <3> QED
      BY <2>1, <3>1, <3>2, NoPushStep
  <2>4. CASE SchedulerStep
    <3>1. UNCHANGED <<now, stored, poll>>
          /\ \E more : log' = log \cup more /\ DigestRows(more)
      BY <2>4, SchedulerRows DEF CapInv
    <3>2. Pushes' = Pushes
      BY <3>1 DEF Pushes, IsPush, DigestRows, ItemRow
    <3>3. \A a \in Actors : \A c : InFlight(a, c)' \subseteq InFlight(a, c)
      BY <3>1 DEF InFlight
    <3> QED
      BY <2>1, <3>1, <3>2, <3>3, NoPushStep
  <2>5. CASE Crash
    <3>1. UNCHANGED <<now, stored, log>> /\ \A p \in Pollers : poll'[p].pc # "send"
      BY <2>5, IdleType DEF Crash
    <3>2. Pushes' = Pushes /\ \A a \in Actors : \A c : InFlight(a, c)' \subseteq InFlight(a, c)
      BY <3>1 DEF Pushes, InFlight
    <3> QED
      BY <2>1, <3>1, <3>2, NoPushStep
  <2> QED
    BY <2>2, <2>3, <2>4, <2>5 DEF Next, RouterStep
<1>3. CapInv => CapCeiling
  <2> SUFFICES ASSUME CapInv, HighCap > 0, NEW a \in Actors,
                      NEW c \in {Category(e) : e \in stored}
               PROVE  Cardinality(HighSentOf(a, c, DayStart(now))) + Cardinality(InFlight(a, c))
                        <= HighCap + Cardinality(Pollers) - 1
    BY DEF CapCeiling
  <2>1. HighSentOf(a, c, DayStart(now)) = PushesSince(a, c, DayStart(now))
    BY PushesAreHighSent DEF CapInv
  <2> QED
    BY <2>1 DEF CapInv, Ceiling
<1> QED
  BY <1>1, <1>2, <1>3, PTL DEF Spec

-----------------------------------------------------------------------------
(* The gap between two digests.  While a slot's digest is made, the user's *)
(* other digests lie more than the gap before the tick that opened it.     *)

Digests == {r \in log : r.ch = "digest" /\ Delivered(r)}

DigestsPast == sched.t <= now /\ \A r \in Digests : r.at <= now

GapAhead ==
  sched.pc = "curate" \/ (sched.pc = "send" /\ sched.what = "slot") =>
    \A q \in Digests : q.a = sched.a => q.at < sched.t - MinGap

GapInv == TypeOK /\ (MinGap > 0 => DigestsPast /\ GapAhead /\ GapKept)

LEMMA DigestTimes ==
  ASSUME TypeOK
  PROVE  now \in Nat /\ sched.t \in Nat /\ MinGap \in Nat /\ \A r \in Digests : r.at \in Nat
BY DigestAssumption DEF TypeOK, SchedStates, Rows, Digests

\* Steps that write no digest and do not open or carry on a slot's.
LEMMA SameDigests ==
  ASSUME GapInv, MinGap > 0, Digests' = Digests, now' \in {now, now + 1},
         sched'.t <= now',
         sched'.pc = "curate" \/ (sched'.pc = "send" /\ sched'.what = "slot") =>
           \A q \in Digests : q.a = sched'.a => q.at < sched'.t - MinGap
  PROVE  DigestsPast' /\ GapAhead' /\ GapKept'
<1>1. DigestsPast'
  BY DigestTimes DEF GapInv, DigestsPast
<1>2. GapAhead'
  BY DEF GapAhead
<1>3. GapKept'
  <2> SUFFICES ASSUME NEW r \in log', NEW q \in log', r.a = q.a, r.ch = "digest",
                      q.ch = "digest", Delivered(r), Delivered(q), r.e = "slot", q.at < r.at
               PROVE  r.at - q.at > MinGap
    BY DEF GapKept, Delivered
  <2>1. r \in Digests' /\ q \in Digests'
    BY DEF Digests, Delivered
  <2>2. r \in log /\ q \in log
    BY <2>1 DEF Digests
  <2> QED
    BY <2>2 DEF GapInv, GapKept
<1> QED
  BY <1>1, <1>2, <1>3

\* The task goes on with no digest in hand.
LEMMA LeaveGap ==
  ASSUME TypeOK, NEW todo \in SUBSET Actors
  PROVE  Leave(todo).pc \notin {"curate", "send"} /\ Leave(todo).t \in {0, sched.t}
<1>1. sched.t \in Nat /\ sched.due \subseteq Events \X Actors
  BY DEF TypeOK, SchedStates
<1>2. Resting.t = 0
  BY DEF Resting
<1>3. CASE todo = {}
  BY <1>2, <1>3, RestingType DEF Leave
<1>4. CASE todo # {}
  <2> DEFINE h == [Resting EXCEPT !.pc = "visit", !.t = sched.t, !.due = sched.due,
                                  !.todo = todo]
  <2>1. h.pc = "visit" /\ h.t = sched.t
    BY <1>1, RestingType DEF SchedStates
  <2>2. Leave(todo) = h
    BY <1>4 DEF Leave
  <2> HIDE DEF h
  <2> QED
    BY <2>1, <2>2
<1> QED
  BY <1>3, <1>4

\* Composing writes no digest, and hands on the one it composed.
LEMMA ComposeGap ==
  ASSUME TypeOK, NEW a \in Actors, NEW pr, NEW what, NEW items, NEW floor, NEW world, NEW rows,
         ItemRows(rows), Compose(a, pr, what, items, floor, world, rows)
  PROVE  /\ Digests' = Digests
         /\ \/ sched'.pc \notin {"curate", "send"} /\ sched'.t \in {0, sched.t}
            \/ sched'.pc = "send" /\ sched'.what = what /\ sched'.a = a /\ sched'.t = sched.t
<1>1. PICK more : log' = log \cup more /\ ItemRows(more)
  BY ComposeRows
<1>2. Digests' = Digests
  BY <1>1 DEF Digests, Delivered, ItemRows, ItemRow
<1>3. sched \in SchedStates /\ sched.todo \ {a} \in SUBSET Actors
  BY DEF TypeOK, SchedStates
<1>4. CASE sched' = Leave(sched.todo \ {a})
  BY <1>2, <1>3, <1>4, LeaveGap
<1>5. CASE sched' # Leave(sched.todo \ {a})
  <2>1. PICK omit, cutoff :
          sched' = [sched EXCEPT !.pc = "send", !.todo = @ \ {a}, !.a = a, !.pr = None,
                      !.what = what, !.mine = items \ (omit \cup cutoff),
                      !.world = world, !.omit = omit \cup cutoff]
    BY <1>5 DEF Compose
  <2>2. sched'.pc = "send" /\ sched'.what = what /\ sched'.a = a /\ sched'.t = sched.t
    BY <1>3, <2>1 DEF SchedStates
  <2> QED
    BY <1>2, <2>2
<1> QED
  BY <1>4, <1>5

\* A digest goes out, or its channel fails.
LEMMA SendGap ==
  ASSUME GapInv, MinGap > 0, DigestSent \/ DigestFails
  PROVE  DigestsPast' /\ GapAhead' /\ GapKept'
<1>1. /\ sched.pc = "send" /\ now' = now /\ sched' = Leave(sched.todo)
      /\ sched.todo \in SUBSET Actors /\ TypeOK
  BY DEF DigestSent, DigestFails, GapInv, TypeOK, SchedStates
<1>2. sched'.pc \notin {"curate", "send"} /\ sched'.t \in {0, sched.t}
  BY <1>1, LeaveGap
<1>3. sched'.t <= now'
  BY <1>1, <1>2, DigestTimes DEF GapInv, DigestsPast
<1>4. PICK st : Digests' \subseteq Digests \cup {BatchRow(st)} /\ Digests \subseteq Digests'
  <2>1. ASSUME NEW st, log' = log \cup SentRows(st)
        PROVE  Digests' \subseteq Digests \cup {BatchRow(st)} /\ Digests \subseteq Digests'
    <3>1. \A r \in SentRows(st) : r.ch = "digest" => r = BatchRow(st)
      BY DEF SentRows, OmitRows, Row
    <3> QED
      BY <2>1, <3>1 DEF Digests, Delivered
  <2>2. CASE log' = log \cup {BatchRow("failed")}
    BY <2>2 DEF Digests, Delivered
  <2> QED
    BY <2>1, <2>2 DEF DigestSent, DigestFails
<1> DEFINE row == BatchRow(st)
<1>5. row.e = sched.what /\ row.a = sched.a /\ row.at = now
  BY DEF BatchRow, Row
<1> HIDE DEF row
<1>6. DigestsPast'
  BY <1>1, <1>3, <1>4, <1>5, DigestTimes DEF DigestsPast, GapInv, row
<1>7. GapAhead'
  BY <1>2 DEF GapAhead
<1>8. GapKept'
  <2> SUFFICES ASSUME NEW r \in log', NEW q \in log', r.a = q.a, r.ch = "digest",
                      q.ch = "digest", Delivered(r), Delivered(q), r.e = "slot", q.at < r.at
               PROVE  r.at - q.at > MinGap
    BY DEF GapKept, Delivered
  <2>1. r \in Digests \cup {row} /\ q \in Digests \cup {row}
    BY <1>4 DEF Digests, Delivered, row
  <2>2. CASE r \in Digests /\ q \in Digests
    BY <2>2 DEF GapInv, GapKept, Digests
  <2>3. CASE r = row /\ q \in Digests
    <3>1. q.at < sched.t - MinGap
      BY <1>1, <1>5, <2>3 DEF GapInv, GapAhead
    <3>2. sched.t <= now /\ r.at = now
      BY <1>5, <2>3 DEF GapInv, DigestsPast
    <3> QED
      BY <1>1, <2>3, <3>1, <3>2, DigestTimes
  <2>4. CASE q = row
    <3>1. r.at <= now /\ r.at \in Nat /\ now \in Nat
      BY <1>1, <1>5, <2>1, DigestTimes DEF GapInv, DigestsPast
    <3> QED
      BY <1>5, <2>4, <3>1
  <2> QED
    BY <2>1, <2>2, <2>3, <2>4
<1> QED
  BY <1>6, <1>7, <1>8

\* A poller logs under "digest" only what it put in the buffer, or failed to.
LEMMA PollerDigests ==
  ASSUME TypeOK, NEW p \in Pollers, PollerStep(p)
  PROVE  Digests' = Digests /\ now' = now
<1>1. now' = now
  BY DEF PollerStep, Work, Answer, Poll, PassOver, Insert, PickActor, Judged, Filter, Hold,
         Push,
         AppendLine, OpenBuffer, ReadBuffer, Rewrite, EnqueueFails, Pushed, PushFails, TimeOut
<1>2. CASE log' = log
  BY <1>1, <1>2 DEF Digests
<1>3. CASE Insert(p)
  <2>1. log' = log \/ \E e, s : log' = log \cup {Row(e, None, "router", "no_actor", s)}
    BY <1>3 DEF Insert
  <2>2. CASE \E e, s : log' = log \cup {Row(e, None, "router", "no_actor", s)}
    <3>1. PICK e, s : log' = log \cup {Row(e, None, "router", "no_actor", s)}
      BY <2>2
    <3> DEFINE row == Row(e, None, "router", "no_actor", s)
    <3>2. row.ch = "router"
      BY DEF Row
    <3> HIDE DEF row
    <3> QED
      BY <1>1, <3>1, <3>2 DEF Digests, Delivered, row
  <2> QED
    BY <1>2, <2>1, <2>2
<1>4. CASE Filter(p) \/ Hold(p) \/ AppendLine(p) \/ EnqueueFails(p) \/ Rewrite(p)
           \/ Pushed(p) \/ PushFails(p)
  <2>1. PICK ch, st, s : Log(p, ch, st, s) /\ (ch # "digest" \/ st \notin {"sent", "dryrun"})
    <3>1. CASE Filter(p) \/ Hold(p) \/ EnqueueFails(p) \/ Pushed(p) \/ PushFails(p)
      BY <3>1 DEF Filter, Hold, EnqueueFails, Pushed, PushFails
    <3>2. CASE AppendLine(p)
      <4>1. poll[p].st \notin {"sent", "dryrun"}
        BY <3>2 DEF TypeOK, PollOK, AppendLine, QueueStatuses
      <4> QED
        BY <3>2, <4>1 DEF AppendLine
    <3>3. CASE Rewrite(p)
      <4>1. poll[p].st \notin {"sent", "dryrun"}
        BY <3>3 DEF TypeOK, PollOK, Rewrite, QueueStatuses
      <4> QED
        BY <3>3, <4>1 DEF Rewrite
    <3> QED
      BY <1>4, <3>1, <3>2, <3>3
  <2> QED
    BY <1>1, <2>1 DEF Log, Row, Digests, Delivered
<1> QED
  BY <1>2, <1>3, <1>4 DEF PollerStep, Work, Answer, Poll, PassOver, PickActor, Judged, Push,
                          OpenBuffer, ReadBuffer, TimeOut

\* A step of the scheduler.
LEMMA SchedulerGap ==
  ASSUME GapInv, MinGap > 0, SchedulerStep
  PROVE  DigestsPast' /\ GapAhead' /\ GapKept'
<1>1. TypeOK /\ now' = now /\ sched.t <= now /\ sched \in SchedStates /\ now \in Nat
  <2>1. TypeOK /\ sched.t <= now
    BY DEF GapInv, DigestsPast
  <2> QED
    BY <2>1, SchedulerRows, DigestTimes DEF TypeOK
<1>2. CASE DigestSent \/ DigestFails
  BY <1>2, SendGap
<1>3. CASE Tick
  <2> DEFINE h == [Resting EXCEPT !.pc = "visit", !.t = now, !.due = Countdowns(now),
                                  !.todo = conf.users]
  <2>1. h.pc = "visit" /\ h.t = now
    BY RestingType DEF SchedStates
  <2>2. sched' = h /\ log' = log
    BY <1>3 DEF Tick, routerVars
  <2> HIDE DEF h
  <2>3. Digests' = Digests
    BY <2>2 DEF Digests
  <2> QED
    BY <1>1, <2>1, <2>2, <2>3, SameDigests
<1>4. ASSUME NEW a \in Actors, Skip(a) \/ TooSoon(a)
      PROVE  DigestsPast' /\ GapAhead' /\ GapKept'
  <2>1. sched' = Leave(sched.todo \ {a}) /\ log' = log
    BY <1>4 DEF Skip, TooSoon, routerVars
  <2>2. sched'.pc \notin {"curate", "send"} /\ sched'.t \in {0, sched.t}
    BY <1>1, <2>1, LeaveGap DEF SchedStates
  <2>3. Digests' = Digests
    BY <2>1 DEF Digests
  <2> QED
    BY <1>1, <2>2, <2>3, SameDigests
<1>5. ASSUME NEW a \in Actors, Flush(a)
      PROVE  DigestsPast' /\ GapAhead' /\ GapKept'
  <2>1. PICK items, rows : ItemRows(rows) /\ Compose(a, prefs[a], "flush", items, {}, {}, rows)
    BY <1>5, FlushComposes
  <2>2. /\ Digests' = Digests /\ sched'.t \in {0, sched.t}
        /\ sched'.pc \notin {"curate", "send"} \/ (sched'.pc = "send" /\ sched'.what = "flush")
    BY <1>1, <2>1, ComposeGap
  <2> QED
    BY <1>1, <2>2, SameDigests
<1>6. ASSUME NEW a \in Actors, OpenSlot(a)
      PROVE  DigestsPast' /\ GapAhead' /\ GapKept'
  <2>1. \E mine : sched' = [sched EXCEPT !.pc = "curate", !.todo = @ \ {a}, !.a = a,
                               !.pr = prefs[a], !.mine = mine]
    BY <1>6 DEF OpenSlot
  <2>2. sched'.a = a /\ sched'.t = sched.t
    BY <1>1, <2>1 DEF SchedStates
  <2>3. log' = log /\ DigestsSince(a, sched.t - MinGap) = {}
    BY <1>6 DEF OpenSlot, RecentDigest
  <2>4. \A q \in Digests : q.a = a => q.at < sched.t - MinGap
    BY <1>1, <2>3, DigestTimes DEF DigestsSince, Digests
  <2>5. Digests' = Digests
    BY <2>3 DEF Digests
  <2> QED
    BY <1>1, <2>2, <2>4, <2>5, SameDigests
<1>7. CASE Curate
  <2>1. PICK items, floor, world, rows :
          ItemRows(rows) /\ Compose(sched.a, sched.pr, "slot", items, floor, world, rows)
    BY <1>7, CurateComposes
  <2>2. sched.a \in Actors /\ sched.pc = "curate"
    BY <1>1, <1>7 DEF Curate, TypeOK, SchedOK
  <2>3. /\ Digests' = Digests /\ sched'.t \in {0, sched.t}
        /\ \/ sched'.pc \notin {"curate", "send"}
           \/ sched'.a = sched.a /\ sched'.t = sched.t
    BY <1>1, <2>1, <2>2, ComposeGap
  <2>4. \A q \in Digests : q.a = sched.a => q.at < sched.t - MinGap
    BY <2>2 DEF GapInv, GapAhead
  <2> QED
    BY <1>1, <2>3, <2>4, SameDigests
<1> QED
  BY <1>2, <1>3, <1>4, <1>5, <1>6, <1>7 DEF SchedulerStep

\* A slot's digest follows the user's last digest by more than the minimum gap, in
\* every state, over restarts and edits of the preferences.
THEOREM GapHolds == Spec => []GapKept
<1>1. DigestInit => GapInv
  <2> SUFFICES ASSUME DigestInit PROVE TypeOK /\ DigestsPast /\ GapAhead /\ GapKept
    BY DEF GapInv
  <2>1. TypeOK /\ log = {} /\ sched = Resting /\ now \in Nat
    BY InitType DEF DigestInit, Init, TypeOK
  <2>2. sched.t = 0 /\ sched.pc = "idle"
    BY <2>1 DEF Resting
  <2> QED
    BY <2>1, <2>2 DEF DigestsPast, GapAhead, GapKept, Digests
<1>2. GapInv /\ [Next]_vars => GapInv'
  <2> SUFFICES ASSUME GapInv, [Next]_vars
               PROVE  TypeOK' /\ (MinGap > 0 => DigestsPast' /\ GapAhead' /\ GapKept')
    BY DEF GapInv
  <2>1. TypeOK'
    BY NextType DEF GapInv
  <2> SUFFICES ASSUME MinGap > 0 PROVE DigestsPast' /\ GapAhead' /\ GapKept'
    BY <2>1
  <2>2. TypeOK /\ sched.t <= now /\ now \in Nat /\ sched.t \in Nat
        /\ (sched.pc = "curate" \/ (sched.pc = "send" /\ sched.what = "slot") =>
              \A q \in Digests : q.a = sched.a => q.at < sched.t - MinGap)
    BY DigestTimes DEF GapInv, DigestsPast, GapAhead
  <2>3. CASE RouterStep
    <3>1. sched' = sched
      BY <2>3 DEF RouterStep, digestVars
    <3>2. Digests' = Digests /\ now' \in {now, now + 1}
      <4>1. CASE AdvanceTime
        BY <4>1 DEF AdvanceTime, Digests
      <4>2. CASE \E p \in Pollers : PollerStep(p)
        BY <2>2, <4>2, PollerDigests
      <4> QED
        BY <2>3, <4>1, <4>2 DEF RouterStep
    <3> QED
      BY <2>2, <3>1, <3>2, SameDigests
  <2>4. CASE SchedulerStep
    BY <2>4, SchedulerGap
  <2>5. CASE Crash
    <3>1. sched'.pc = "idle" /\ sched'.t = 0 /\ log' = log /\ now' = now
      BY <2>5 DEF Crash, Resting
    <3>2. Digests' = Digests
      BY <3>1 DEF Digests
    <3> QED
      BY <2>2, <3>1, <3>2, SameDigests
  <2>6. CASE (\E a \in Actors : EditPrefs(a)) \/ UNCHANGED vars
    <3>1. UNCHANGED <<sched, log, now>>
      BY <2>6 DEF EditPrefs, vars, routerVars, digestVars
    <3>2. Digests' = Digests
      BY <3>1 DEF Digests
    <3> QED
      BY <2>2, <3>1, <3>2, SameDigests
  <2> QED
    BY <2>3, <2>4, <2>5, <2>6 DEF Next
<1>3. GapInv => GapKept
  BY DEF GapInv, GapKept
<1> QED
  BY <1>1, <1>2, <1>3, PTL DEF Spec

-----------------------------------------------------------------------------
(* Where events come from.                                                  *)

\* Poller p has event e at hand, in its batch, or still to come.
Carries(p, e) ==
  \/ e = poll[p].e
  \/ \E j \in DOMAIN poll[p].batch : e = poll[p].batch[j]
  \/ \E i \in DOMAIN feed[p] : \E j \in DOMAIN feed[p][i] : e = feed[p][i][j]

\* What two pollers have comes from two sources.
SourcesApart ==
  \A p, q \in Pollers : \A e, f \in Events :
    p # q /\ Carries(p, e) /\ Carries(q, f) => EventOf[e].source # EventOf[f].source

\* A poller's next state x has no event but those of its state now.
Follows(p, x) ==
  LET b == poll[p].batch
  IN  /\ x.e \in {None, poll[p].e} \/ (b # <<>> /\ x.e = Head(b))
      /\ x.batch \in {<<>>, b} \/ (b # <<>> /\ x.batch = Tail(b))

LEMMA NextEventFollows ==
  ASSUME NEW p \in Pollers, poll[p].batch \in Seq(Events), poll[p].batch # <<>>
  PROVE  Follows(p, NextEvent(p))
<1> DEFINE rest == Tail(poll[p].batch)
<1>1. rest \in Seq(Events)
  OBVIOUS
<1>2. Idle.e = None /\ Idle.batch = <<>>
  BY DEF Idle
<1>3. CASE rest = <<>>
  BY <1>2, <1>3 DEF NextEvent, Follows
<1>4. CASE rest # <<>>
  <2> DEFINE x == [Idle EXCEPT !.pc = "insert", !.batch = rest]
  <2>1. x.e = None /\ x.batch = rest
    BY DEF Idle
  <2>2. NextEvent(p) = x
    BY <1>4 DEF NextEvent
  <2> HIDE DEF x
  <2> QED
    BY <2>1, <2>2 DEF Follows
<1> QED
  BY <1>3, <1>4

LEMMA NextActorFollows ==
  ASSUME NEW p \in Pollers, poll[p].batch \in Seq(Events), poll[p].batch # <<>>
  PROVE  Follows(p, NextActor(p))
<1>1. CASE poll[p].todo = {}
  BY <1>1, NextEventFollows DEF NextActor
<1>2. CASE poll[p].todo # {}
  <2> DEFINE x == [Idle EXCEPT !.pc = "route", !.batch = poll[p].batch, !.e = poll[p].e,
                               !.sev = poll[p].sev, !.todo = poll[p].todo]
  <2>1. x.e = poll[p].e /\ x.batch = poll[p].batch
    BY DEF Idle
  <2>2. NextActor(p) = x
    BY <1>2 DEF NextActor
  <2> HIDE DEF x
  <2> QED
    BY <2>1, <2>2 DEF Follows
<1> QED
  BY <1>1, <1>2

\* Only a poll brings new events, out of the poller's feed.
LEMMA PollerFollows ==
  ASSUME TypeOK, NEW p \in Pollers, PollerStep(p), ~Poll(p)
  PROVE  /\ feed' = feed /\ Follows(p, poll'[p])
         /\ \A q \in Pollers : q # p => poll'[q] = poll[q]
<1>1. /\ poll \in [Pollers -> PollStates] /\ poll[p] \in PollStates
      /\ poll[p].batch \in Seq(Events) /\ (poll[p].pc # "idle" => poll[p].batch # <<>>)
  BY DEF TypeOK, PollStates, PollOK
<1>2. CASE PassOver(p)
  BY <1>1, <1>2, NextEventFollows DEF PassOver
<1>3. CASE Insert(p)
  <2>1. Follows(p, NextEvent(p))
    BY <1>1, <1>3, NextEventFollows DEF Insert
  <2> DEFINE new == Head(poll[p].batch)
             x(up) == [poll[p] EXCEPT !.pc = "route", !.e = new, !.todo = Resolve(new),
                         !.sev = SystemPolicy(new, IF up THEN Medium ELSE EventOf[new].sev, now)]
  <2>2. poll[p].batch # <<>>
    BY <1>1, <1>3 DEF Insert
  <2>3. \A up : x(up).e = new /\ x(up).batch = poll[p].batch
    BY <1>1 DEF PollStates
  <2>4. \A up : Follows(p, x(up))
    BY <2>2, <2>3 DEF Follows
  <2>5. \E up \in BOOLEAN : \/ poll' = [poll EXCEPT ![p] = NextEvent(p)]
                           \/ poll' = [poll EXCEPT ![p] = x(up)]
    BY <1>3 DEF Insert
  <2>6. feed' = feed
    BY <1>3 DEF Insert
  <2> HIDE DEF x
  <2> QED
    BY <1>1, <2>1, <2>4, <2>5, <2>6
<1>4. CASE PickActor(p)
  <2>1. \A a : Facing(p, a).e = poll[p].e /\ Facing(p, a).batch = poll[p].batch
    BY <1>1 DEF Facing, PollStates
  <2>2. \A a : Follows(p, Facing(p, a))
    BY <2>1 DEF Follows
  <2> QED
    BY <1>1, <1>4, <2>2 DEF PickActor
<1>5. CASE Judged(p) \/ Push(p) \/ OpenBuffer(p) \/ ReadBuffer(p)
  <2>1. poll'[p].e = poll[p].e /\ poll'[p].batch = poll[p].batch
    <3>1. \A s : LET x == [poll[p] EXCEPT !.pc = "decide", !.asev = s]
                 IN  x.e = poll[p].e /\ x.batch = poll[p].batch
      BY <1>1 DEF PollStates
    <3>2. CASE Judged(p)
      BY <1>1, <3>1, <3>2 DEF Judged
    <3>3. CASE Push(p)
      BY <1>1, <3>3 DEF Push, PollStates
    <3>4. CASE OpenBuffer(p) \/ ReadBuffer(p)
      BY <3>4, OpensOwn DEF FateInv
    <3> QED
      BY <1>5, <3>2, <3>3, <3>4
  <2>2. feed' = feed /\ \A q \in Pollers : q # p => poll'[q] = poll[q]
    BY <1>1, <1>5 DEF Judged, Push, OpenBuffer, ReadBuffer
  <2> QED
    BY <2>1, <2>2 DEF Follows
<1>6. CASE Filter(p) \/ Hold(p) \/ AppendLine(p) \/ EnqueueFails(p) \/ Rewrite(p) \/ Pushed(p)
           \/ PushFails(p)
  <2>1. feed' = feed /\ poll' = [poll EXCEPT ![p] = NextActor(p)] /\ poll[p].pc # "idle"
    BY <1>6 DEF Filter, Hold, AppendLine, EnqueueFails, Rewrite, Pushed, PushFails, Log,
                Deciding
  <2> QED
    BY <1>1, <2>1, NextActorFollows
<1>7. CASE TimeOut(p)
  <2>1. Idle.e = None /\ Idle.batch = <<>>
    BY DEF Idle
  <2>2. Follows(p, Idle)
    BY <2>1 DEF Follows
  <2> QED
    BY <1>1, <1>7, <2>2 DEF TimeOut
<1> QED
  BY <1>2, <1>3, <1>4, <1>5, <1>6, <1>7 DEF PollerStep, Work, Answer

\* No step gives a poller an event it did not have.
LEMMA NothingNewCarried ==
  ASSUME TypeOK, [Next]_vars, NEW q \in Pollers, NEW e \in Events, Carries(q, e)'
  PROVE  Carries(q, e)
<1>0. /\ poll \in [Pollers -> PollStates] /\ feed \in [Pollers -> Seq(Seq(Events))]
      /\ feed[q] \in Seq(Seq(Events)) /\ poll[q].batch \in Seq(Events) /\ e # None
  BY RouterAssumption DEF TypeOK, PollStates
<1>1. ASSUME NEW p \in Pollers, PollerStep(p), ~Poll(p) PROVE Carries(q, e)
  <2>1. /\ feed' = feed /\ Follows(p, poll'[p])
        /\ \A r \in Pollers : r # p => poll'[r] = poll[r]
    BY <1>1, PollerFollows
  <2>2. CASE q # p
    BY <2>1, <2>2 DEF Carries
  <2>3. CASE q = p
    <3> DEFINE b == poll[p].batch  x == poll'[p]
    <3>1. \/ e = x.e \/ \E j \in DOMAIN x.batch : e = x.batch[j]
          \/ \E i \in DOMAIN feed[p] : \E j \in DOMAIN feed[p][i] : e = feed[p][i][j]
      BY <2>1, <2>3 DEF Carries
    <3>2. b \in Seq(Events)
      BY <1>0, <2>3
    <3>3. b # <<>> => /\ Head(b) = b[1] /\ 1 \in DOMAIN b
                      /\ \A j \in DOMAIN Tail(b) : j + 1 \in DOMAIN b /\ Tail(b)[j] = b[j + 1]
      BY <3>2
    <3>4. \A j \in DOMAIN <<>> : FALSE
      OBVIOUS
    <3> HIDE DEF x
    <3>5. x.e \in {None, poll[p].e} \/ (b # <<>> /\ x.e = Head(b))
      BY <2>1 DEF Follows, x
    <3>6. x.batch \in {<<>>, b} \/ (b # <<>> /\ x.batch = Tail(b))
      BY <2>1 DEF Follows, x
    <3>7. CASE e = x.e
      BY <1>0, <2>3, <3>3, <3>5, <3>7 DEF Carries
    <3>8. CASE \E j \in DOMAIN x.batch : e = x.batch[j]
      <4>1. x.batch # <<>>
        BY <3>4, <3>8
      <4>2. CASE x.batch = b
        BY <2>3, <3>8, <4>2 DEF Carries
      <4>3. CASE b # <<>> /\ x.batch = Tail(b)
        <5>1. PICK j \in DOMAIN Tail(b) : e = Tail(b)[j]
          BY <3>8, <4>3
        <5>2. j + 1 \in DOMAIN b /\ e = b[j + 1]
          BY <3>3, <4>3, <5>1
        <5> QED
          BY <2>3, <5>2 DEF Carries
      <4> QED
        BY <3>6, <4>1, <4>2, <4>3
    <3> QED
      BY <2>3, <3>1, <3>7, <3>8 DEF Carries
  <2> QED
    BY <2>2, <2>3
<1>2. ASSUME NEW p \in Pollers, Poll(p) PROVE Carries(q, e)
  <2>1. /\ poll[p].pc = "idle" /\ feed[p] # <<>> /\ feed' = [feed EXCEPT ![p] = Tail(@)]
        /\ \/ poll' = poll
           \/ poll' = [poll EXCEPT ![p] = [Idle EXCEPT !.pc = "insert", !.batch = Head(feed[p])]]
    BY <1>2 DEF Poll
  <2>2. CASE q # p
    BY <1>0, <2>1, <2>2 DEF Carries
  <2>3. CASE q = p
    <3> DEFINE f == feed[p]  x == [Idle EXCEPT !.pc = "insert", !.batch = Head(feed[p])]
    <3>1. f \in Seq(Seq(Events)) /\ f # <<>>
      BY <1>0, <2>1
    <3>2. /\ Head(f) = f[1] /\ 1 \in DOMAIN f
          /\ \A i \in DOMAIN Tail(f) : i + 1 \in DOMAIN f /\ Tail(f)[i] = f[i + 1]
      BY <3>1
    <3>3. x.e = None /\ x.batch = Head(f)
      BY DEF Idle
    <3>4. feed'[p] = Tail(f)
      BY <1>0, <2>1
    <3>5. poll'[p] = poll[p] \/ poll'[p] = x
      BY <1>0, <2>1
    <3> HIDE DEF x, f
    <3>6. \/ e = poll'[p].e \/ \E j \in DOMAIN poll'[p].batch : e = poll'[p].batch[j]
          \/ \E i \in DOMAIN Tail(f) : \E j \in DOMAIN Tail(f)[i] : e = Tail(f)[i][j]
      BY <2>3, <3>4 DEF Carries
    <3>7. CASE \E i \in DOMAIN Tail(f) : \E j \in DOMAIN Tail(f)[i] : e = Tail(f)[i][j]
      BY <2>3, <3>2, <3>7 DEF Carries, f
    <3>8. CASE poll'[p] = poll[p]
      BY <2>3, <3>6, <3>7, <3>8 DEF Carries
    <3>9. CASE poll'[p] = x /\ \E j \in DOMAIN x.batch : e = x.batch[j]
      BY <2>3, <3>2, <3>3, <3>9 DEF Carries, f
    <3> QED
      BY <1>0, <3>3, <3>5, <3>6, <3>7, <3>8, <3>9
  <2> QED
    BY <2>2, <2>3
<1>3. CASE AdvanceTime \/ SchedulerStep \/ (\E a \in Actors : EditPrefs(a)) \/ UNCHANGED vars
  <2>1. UNCHANGED <<poll, feed>>
    BY <1>3 DEF AdvanceTime, SchedulerStep, Tick, Curate, DigestSent, DigestFails, Skip,
                TooSoon,
                Flush, OpenSlot, EditPrefs, vars, routerVars
  <2> QED
    BY <2>1 DEF Carries
<1>4. CASE Crash
  <2>1. feed' = feed /\ poll'[q] = Idle
    BY <1>4 DEF Crash
  <2>2. Idle.e = None /\ Idle.batch = <<>> /\ \A j \in DOMAIN <<>> : FALSE
    BY DEF Idle
  <2> QED
    BY <1>0, <2>1, <2>2 DEF Carries
<1> QED
  BY <1>1, <1>2, <1>3, <1>4 DEF Next, RouterStep

LEMMA SourcesNext ==
  ASSUME TypeOK, SourcesApart, [Next]_vars
  PROVE  SourcesApart'
BY NothingNewCarried DEF SourcesApart

LEMMA SourcesInit ==
  ASSUME DigestInit
  PROVE  SourcesApart
<1>1. PICK s \in Setups : feed = s.feed
  BY DEF DigestInit, Init
<1>2. \A p \in Pollers : poll[p].e = None /\ poll[p].batch = <<>>
  BY DEF DigestInit, Init, Idle
<1>3. \A j \in DOMAIN <<>> : FALSE
  OBVIOUS
<1>4. ASSUME NEW p \in Pollers, NEW e \in Events, Carries(p, e)
      PROVE  EventOf[e].source \in SourcesOf(s.feed[p])
  <2>1. e # None
    BY RouterAssumption
  <2>2. PICK i \in DOMAIN feed[p] : \E j \in DOMAIN feed[p][i] : e = feed[p][i][j]
    BY <1>2, <1>3, <1>4, <2>1 DEF Carries
  <2> QED
    BY <1>1, <2>2 DEF SourcesOf
<1> QED
  BY <1>4, SourceAssumption DEF SourcesApart

-----------------------------------------------------------------------------
(* The distance between pushes of one source.  One poller has the source,  *)
(* so nothing of it is logged between a decision and the row it leads to.  *)

\* Two events of one topic, and two bands of one symbol and direction.
SameTopic(e, f) ==
  /\ ~IsBand(e) /\ ~IsBand(f) /\ Category(e) = Category(f)
  /\ EventOf[e].syms \cap EventOf[f].syms # {} /\ EventOf[e].firm = EventOf[f].firm
SameLane(e, f) ==
  IsBand(e) /\ IsBand(f) /\ EventOf[e].head = EventOf[f].head /\ Up(e) = Up(f)

FarApart(e, f) == \/ EventOf[e].band >= EventOf[f].band + MinAdvance
                  \/ EventOf[f].band >= EventOf[e].band + MinAdvance

\* A push of e to a at t keeps the distance to the logged push r.
Clear(e, a, t, r) ==
  r.a = a /\ r.e # e /\ EventOf[r.e].source = EventOf[e].source =>
    /\ Cooldown > 0 /\ SameTopic(e, r.e) => t - r.at > Cooldown
    /\ SameLane(e, r.e) /\ Day(t) = Day(r.at) => FarApart(e, r.e)

PushesPast == \A r \in Pushes : r.at <= now /\ r.sev = High /\ r.e \in stored
PushesClear == \A r, q \in Pushes : q.at <= r.at => Clear(r.e, r.a, r.at, q)
FlightsClear ==
  \A p \in Pollers : poll[p].pc = "send" =>
    \A q \in Pushes : Clear(poll[p].e, poll[p].a, now, q)

SpreadInv == TypeOK /\ SourcesApart /\ PushesPast /\ PushesClear /\ FlightsClear

LEMMA PushTypes ==
  ASSUME TypeOK
  PROVE  now \in Nat /\ \A r \in Pushes : r.at \in Nat
BY DEF TypeOK, Rows, Pushes

\* Days and their starts.
LEMMA DayFacts ==
  ASSUME NEW t \in Nat
  PROVE  /\ Day(t) \in Int /\ DayStart(t) <= t /\ Day(t) <= Day(t + 1)
         /\ DayStart(t) \in Int
<1> DEFINE q == t \div DayLen
           r == (t + 1) \div DayLen
<1>1. DayLen \in Nat \ {0}
  BY PolicyAssumption
<1>2. q \in Int /\ r \in Int /\ q <= r /\ DayLen * q <= t
  BY <1>1
<1>3. q * DayLen = DayLen * q /\ q * DayLen \in Int
  <2> HIDE DEF q
  <2> QED
    BY <1>1, <1>2
<1> QED
  BY <1>2, <1>3 DEF DayStart, Day

\* What is clear of a push of the past stays so.
LEMMA ClearLater ==
  ASSUME NEW t \in Nat, NEW r, r.at \in Nat, r.at <= t, NEW e, NEW a, Clear(e, a, t, r)
  PROVE  Clear(e, a, t + 1, r)
<1>1. /\ Day(r.at) \in Int /\ Day(t) \in Int /\ Day(t + 1) \in Int
      /\ Day(t) <= Day(t + 1) /\ Day(r.at) <= Day(t)
  <2> DEFINE x == r.at
  <2> HIDE DEF x
  <2>1. x \in Nat /\ x <= t /\ DayLen \in Nat \ {0}
    BY PolicyAssumption DEF x
  <2>2. x \div DayLen <= t \div DayLen /\ x \div DayLen \in Int
    BY <2>1
  <2> QED
    BY <2>2, DayFacts DEF Day, x
<1>2. Cooldown \in Nat
  BY SourceAssumption
<1>3. t - r.at > Cooldown => t + 1 - r.at > Cooldown
  BY <1>2
<1>4. Day(t + 1) = Day(r.at) => Day(t) = Day(r.at)
  BY <1>1
<1> QED
  BY <1>3, <1>4 DEF Clear

\* Steps that log no push and start none.
LEMMA SameSpread ==
  ASSUME SpreadInv, Pushes' = Pushes, stored \subseteq stored',
         now' = now \/ now' = now + 1,
         \A p \in Pollers : poll'[p].pc = "send" => poll'[p] = poll[p]
  PROVE  PushesPast' /\ PushesClear' /\ FlightsClear'
<1>0. now \in Nat /\ \A r \in Pushes : r.at \in Nat /\ r.at <= now
  BY PushTypes DEF SpreadInv, PushesPast
<1>1. PushesPast'
  <2> SUFFICES ASSUME NEW r \in Pushes PROVE r.at <= now' /\ r.sev = High /\ r.e \in stored'
    BY DEF PushesPast
  <2>1. r.at \in Nat /\ r.at <= now /\ r.sev = High /\ r.e \in stored
    BY <1>0 DEF SpreadInv, PushesPast
  <2> QED
    BY <1>0, <2>1
<1>2. PushesClear'
  BY DEF SpreadInv, PushesClear, Clear, SameTopic, SameLane, FarApart
<1>3. FlightsClear'
  <2> SUFFICES ASSUME NEW p \in Pollers, poll'[p].pc = "send", NEW q \in Pushes
               PROVE  Clear(poll'[p].e, poll'[p].a, now', q)
    BY DEF FlightsClear, Clear, SameTopic, SameLane, FarApart
  <2>1. Clear(poll[p].e, poll[p].a, now, q) /\ poll'[p] = poll[p]
    BY DEF SpreadInv, FlightsClear
  <2> QED
    BY <1>0, <2>1, ClearLater
<1> QED
  BY <1>1, <1>2, <1>3

\* The queries of a decision look far enough.
LEMMA DecidedClear ==
  ASSUME SpreadInv, NEW p \in Pollers, poll[p].e \in Events, Direct(p), NEW q \in Pushes
  PROVE  Clear(poll[p].e, poll[p].a, now, q)
<1> DEFINE e == poll[p].e
<1>0. /\ now \in Nat /\ q.at \in Nat /\ q.at <= now /\ q.sev = High /\ q.e \in stored
      /\ q \in log /\ q.ch = "sink" /\ q.st = "sent" /\ q.e \in Events
      /\ Cooldown \in Nat /\ MinAdvance \in Nat
  BY PushTypes, SourceAssumption DEF SpreadInv, PushesPast, Pushes, IsPush, TypeOK
<1>1. ~SlowBand(p) /\ ~CooledDown(p)
  BY DEF Direct, QueueStatus
<1>2. ASSUME q.a = poll[p].a, Cooldown > 0, SameTopic(e, q.e)
      PROVE  now - q.at > Cooldown
  <2>1. ASSUME q.at >= now - Cooldown PROVE FALSE
    <3>1. q \in HighSent(poll[p].a, now - Cooldown)
      BY <1>0, <1>2, <2>1 DEF HighSent
    <3>2. q \in HighSentOf(poll[p].a, Category(e), now - Cooldown)
      BY <1>2, <3>1 DEF HighSentOf, SameTopic
    <3>3. SameSymbol(p)
      BY <1>2, <3>2 DEF SameSymbol, SameTopic
    <3> QED
      BY <1>1, <1>2, <3>3 DEF CooledDown
  <2> QED
    BY <1>0, <2>1
<1>3. ASSUME q.a = poll[p].a, SameLane(e, q.e), Day(now) = Day(q.at)
      PROVE  FarApart(e, q.e)
  <2>1. /\ EventOf[e].band \in Nat /\ EventOf[q.e].band \in Nat
        /\ EventOf[e].head # None /\ EventOf[e].pct # None
    <3>1. /\ EventOf[e].band \in Nat \cup {None} /\ EventOf[q.e].band \in Nat \cup {None}
      BY <1>0, PolicyAssumption DEF EventFields
    <3> QED
      BY <1>3, <3>1, SourceAssumption DEF SameLane, IsBand
  <2>2. CASE MinAdvance = 0
    BY <2>1, <2>2 DEF FarApart
  <2>3. CASE MinAdvance > 0
    <3>1. DayStart(now) = DayStart(q.at) /\ DayStart(q.at) <= q.at
      BY <1>0, <1>3, DayFacts DEF DayStart
    <3>2. q \in HighSent(poll[p].a, DayStart(now))
      BY <1>0, <1>3, <3>1 DEF HighSent
    <3>3. ~(EventOf[e].band < EventOf[q.e].band + MinAdvance)
      BY <1>1, <1>3, <2>1, <2>3, <3>2 DEF SlowBand, SameLane
    <3> QED
      BY <1>0, <2>1, <3>3 DEF FarApart
  <2> QED
    BY <1>0, <2>2, <2>3
<1> QED
  BY <1>2, <1>3 DEF Clear

LEMMA PushSpread ==
  ASSUME SpreadInv, NEW p \in Pollers, Push(p)
  PROVE  PushesPast' /\ PushesClear' /\ FlightsClear'
<1>1. /\ UNCHANGED <<now, stored, log>> /\ poll' = [poll EXCEPT ![p].pc = "send"]
      /\ Direct(p) /\ poll[p].pc = "decide"
  BY DEF Push, Deciding
<1>2. /\ poll \in [Pollers -> PollStates] /\ poll[p] \in PollStates /\ poll[p].e \in Events
  BY <1>1 DEF SpreadInv, TypeOK, PollOK
<1>3. Pushes' = Pushes
  BY <1>1 DEF Pushes
<1>4. PushesPast' /\ PushesClear'
  BY <1>1, <1>3 DEF SpreadInv, PushesPast, PushesClear, Clear, SameTopic, SameLane, FarApart
<1>5. FlightsClear'
  <2> SUFFICES ASSUME NEW r \in Pollers, poll'[r].pc = "send", NEW q \in Pushes
               PROVE  Clear(poll'[r].e, poll'[r].a, now, q)
    BY <1>1, <1>3 DEF FlightsClear, Clear, SameTopic, SameLane, FarApart
  <2>1. CASE r = p
    <3>1. poll'[p].e = poll[p].e /\ poll'[p].a = poll[p].a
      BY <1>1, <1>2 DEF PollStates
    <3> QED
      BY <1>1, <1>2, <2>1, <3>1, DecidedClear
  <2>2. CASE r # p
    <3>1. poll'[r] = poll[r]
      BY <1>1, <1>2, <2>2
    <3> QED
      BY <3>1 DEF SpreadInv, FlightsClear
  <2> QED
    BY <2>1, <2>2
<1> QED
  BY <1>4, <1>5

\* To keep a distance is mutual between pushes of one instant.
LEMMA ClearMutual ==
  ASSUME NEW x, NEW y, x.at \in Nat, y.at = x.at, x.e \in Events, y.e \in Events,
         Clear(x.e, x.a, x.at, y)
  PROVE  Clear(y.e, y.a, y.at, x)
<1>1. Cooldown \in Nat /\ x.at - y.at = 0
  BY SourceAssumption
<1>2. SameTopic(y.e, x.e) => SameTopic(x.e, y.e)
  BY DEF SameTopic
<1>3. SameLane(y.e, x.e) => SameLane(x.e, y.e)
  BY DEF SameLane
<1>4. FarApart(x.e, y.e) => FarApart(y.e, x.e)
  BY DEF FarApart
<1>5. ~(Cooldown > 0 /\ x.at - y.at > Cooldown)
  BY <1>1
<1> QED
  BY <1>2, <1>3, <1>4, <1>5 DEF Clear

LEMMA AnswerSpread ==
  ASSUME SpreadInv, NEW p \in Pollers, Answered(p)
  PROVE  PushesPast' /\ PushesClear' /\ FlightsClear'
<1>1. PICK st : Log(p, "sink", st, High)
  BY DEF Answered
<1> DEFINE row == Row(poll[p].e, poll[p].a, "sink", st, High)
<1>2. /\ row.e = poll[p].e /\ row.a = poll[p].a /\ row.ch = "sink" /\ row.st = st
      /\ row.sev = High /\ row.at = now
      /\ log' = log \cup {row} /\ poll' = [poll EXCEPT ![p] = NextActor(p)]
  BY <1>1 DEF Row, Log
<1> HIDE DEF row
<1>3. /\ poll[p].pc = "send" /\ UNCHANGED <<now, stored>> /\ poll \in [Pollers -> PollStates]
      /\ poll[p] \in PollStates /\ poll[p].e \in stored /\ stored \subseteq Events
      /\ poll[p].batch # <<>> /\ now \in Nat
  BY DEF Answered, SpreadInv, TypeOK, PollOK
<1>4. poll'[p].pc # "send" /\ \A q \in Pollers : q # p => poll'[q] = poll[q]
  BY <1>2, <1>3, NextActorType
<1>5. CASE st # "sent"
  <2>1. Pushes' = Pushes
    BY <1>2, <1>5 DEF Pushes, IsPush
  <2> QED
    BY <1>3, <1>4, <2>1, SameSpread
<1>6. CASE st = "sent"
  <2>1. Pushes' = Pushes \cup {row}
    BY <1>2, <1>6 DEF Pushes, IsPush
  <2>2. PushesPast'
    BY <1>2, <1>3, <2>1 DEF SpreadInv, PushesPast
  <2>3. \A q \in Pushes : Clear(row.e, row.a, now, q)
    BY <1>2, <1>3 DEF SpreadInv, FlightsClear
  <2>4. PushesClear'
    <3> SUFFICES ASSUME NEW r \in Pushes', NEW q \in Pushes', q.at <= r.at
                 PROVE  Clear(r.e, r.a, r.at, q)
      BY DEF PushesClear, Clear, SameTopic, SameLane, FarApart
    <3>1. CASE r \in Pushes /\ q \in Pushes
      BY <3>1 DEF SpreadInv, PushesClear
    <3>2. CASE r = row /\ q = row
      BY <3>2 DEF Clear
    <3>3. CASE r = row /\ q \in Pushes
      BY <1>2, <2>3, <3>3
    <3>4. CASE r \in Pushes /\ q = row
      <4>1. r.at \in Nat /\ r.at <= now /\ r.e \in Events
        BY <1>3, <3>4, PushTypes DEF SpreadInv, PushesPast
      <4>2. r.at = now
        BY <1>2, <1>3, <3>4, <4>1
      <4> QED
        BY <1>2, <1>3, <2>3, <3>4, <4>1, <4>2, ClearMutual
    <3> QED
      BY <2>1, <3>1, <3>2, <3>3, <3>4
  <2>5. FlightsClear'
    <3> SUFFICES ASSUME NEW r \in Pollers, poll'[r].pc = "send", NEW q \in Pushes'
                 PROVE  Clear(poll'[r].e, poll'[r].a, now, q)
      BY <1>3 DEF FlightsClear, Clear, SameTopic, SameLane, FarApart
    <3>1. r # p /\ poll'[r] = poll[r]
      BY <1>4
    <3>2. CASE q \in Pushes
      BY <3>1, <3>2 DEF SpreadInv, FlightsClear
    <3>3. CASE q = row
      <4>1. poll[r].e \in Events
        BY <3>1 DEF SpreadInv, TypeOK, PollOK
      <4>2. EventOf[poll[p].e].source # EventOf[poll[r].e].source
        BY <1>3, <3>1, <4>1 DEF SpreadInv, SourcesApart, Carries
      <4> QED
        BY <1>2, <3>1, <3>3, <4>2 DEF Clear
    <3> QED
      BY <2>1, <3>2, <3>3
  <2> QED
    BY <2>2, <2>4, <2>5
<1> QED
  BY <1>5, <1>6

LEMMA SpreadNext ==
  ASSUME SpreadInv, [Next]_vars
  PROVE  SpreadInv'
<1>1. TypeOK' /\ SourcesApart'
  BY NextType, SourcesNext DEF SpreadInv
<1>2. CASE \E p \in Pollers : PollerStep(p)
  <2>1. PICK p \in Pollers : PollerStep(p)
    BY <1>2
  <2>2. CASE Rests(p)
    BY <1>1, <2>2, SameSpread DEF Rests, SpreadInv
  <2> QED
    BY <1>1, <2>1, <2>2, PollerPushes, PushSpread, AnswerSpread DEF SpreadInv
<1>3. CASE AdvanceTime \/ (\E a \in Actors : EditPrefs(a)) \/ UNCHANGED vars
  <2>1. UNCHANGED <<stored, log, poll>> /\ (now' = now \/ now' = now + 1)
    BY <1>3 DEF AdvanceTime, EditPrefs, vars, routerVars
  <2>2. Pushes' = Pushes
    BY <2>1 DEF Pushes
  <2> QED
    BY <1>1, <2>1, <2>2, SameSpread DEF SpreadInv
<1>4. CASE SchedulerStep
  <2>1. UNCHANGED <<now, stored, poll>>
        /\ \E more : log' = log \cup more /\ DigestRows(more)
    BY <1>4, SchedulerRows DEF SpreadInv
  <2>2. Pushes' = Pushes
    BY <2>1 DEF Pushes, IsPush, DigestRows, ItemRow
  <2> QED
    BY <1>1, <2>1, <2>2, SameSpread DEF SpreadInv
<1>5. CASE Crash
  <2>1. UNCHANGED <<now, stored, log>> /\ \A p \in Pollers : poll'[p].pc # "send"
    BY <1>5, IdleType DEF Crash
  <2>2. Pushes' = Pushes
    BY <2>1 DEF Pushes
  <2> QED
    BY <1>1, <2>1, <2>2, SameSpread DEF SpreadInv
<1> QED
  BY <1>2, <1>3, <1>4, <1>5 DEF Next, RouterStep

LEMMA SpreadInvariant == Spec => []SpreadInv
<1>1. DigestInit => SpreadInv
  <2> SUFFICES ASSUME DigestInit PROVE SpreadInv
    OBVIOUS
  <2>1. Pushes = {} /\ \A p \in Pollers : poll[p].pc # "send"
    BY IdleType DEF DigestInit, Init, Pushes
  <2> QED
    BY <2>1, InitType, SourcesInit DEF SpreadInv, PushesPast, PushesClear, FlightsClear
<1> QED
  BY <1>1, SpreadNext, PTL DEF Spec

\* Two pushes of a source to one user, the earlier first.
LEMMA PairsClear ==
  ASSUME SpreadInv, NEW x \in PushedPairs
  PROVE  /\ Clear(x[2].e, x[2].a, x[2].at, x[1]) /\ x[1].e # x[2].e /\ x[1].a = x[2].a
         /\ EventOf[x[1].e].source = EventOf[x[2].e].source
BY DEF PushedPairs, SpreadInv, PushesClear, Pushes, IsPush

\* Two High pushes on a symbol in one category, from one source to one user, are more
\* than same_symbol_cooldown_minutes apart, over restarts, timeouts and midnight.
THEOREM CooldownHolds == Spec => []CooldownKept
<1>1. SpreadInv => CooldownKept
  <2> SUFFICES ASSUME SpreadInv, Cooldown > 0, NEW x \in PushedPairs,
                      SameTopic(x[1].e, x[2].e)
               PROVE  x[2].at - x[1].at > Cooldown
    BY DEF CooldownKept, SameTopic
  <2>1. SameTopic(x[2].e, x[1].e)
    BY DEF SameTopic
  <2> QED
    BY <2>1, PairsClear DEF Clear
<1> QED
  BY <1>1, SpreadInvariant, PTL

\* Two price bands of a symbol and direction pushed to a user in one day lie at least
\* price_band_min_advance_pct apart, whatever other pollers and restarts do in between.
THEOREM BandsHold == Spec => []BandsClimb
<1>1. SpreadInv => BandsClimb
  <2> SUFFICES ASSUME SpreadInv, NEW x \in PushedPairs, SameLane(x[1].e, x[2].e),
                      Day(x[1].at) = Day(x[2].at)
               PROVE  FarApart(x[1].e, x[2].e)
    BY DEF BandsClimb, SameLane, FarApart
  <2>1. SameLane(x[2].e, x[1].e)
    BY DEF SameLane
  <2>2. FarApart(x[2].e, x[1].e)
    BY <2>1, PairsClear DEF Clear
  <2> QED
    BY <2>2 DEF FarApart
<1> QED
  BY <1>1, SpreadInvariant, PTL

-----------------------------------------------------------------------------
(* The clock, and what every step does to the log.                          *)

\* Nothing is stamped ahead of the clock, and the counters count up from zero.
ClockInv ==
  /\ TypeOK /\ edits \in Nat /\ crashes \in Nat
  /\ sched.t <= now /\ \A r \in log : r.at <= now

LEMMA PollerLogs ==
  ASSUME TypeOK, NEW p \in Pollers, PollerStep(p)
  PROVE  \/ log' = log
         \/ \E e, s : log' = log \cup {Row(e, None, "router", "no_actor", s)}
         \/ /\ poll[p].pc \in {"decide", "send", "append", "rewrite"} /\ stored' = stored
            /\ \E ch, st, s : Log(p, ch, st, s) /\ st # "quiet_dropped"
<1>1. CASE Filter(p) \/ Hold(p) \/ EnqueueFails(p) \/ Pushed(p) \/ PushFails(p)
  BY <1>1 DEF Filter, Hold, EnqueueFails, Pushed, PushFails, Acknowledged, Deciding
<1>2. CASE AppendLine(p)
  <2>1. poll[p].st # "quiet_dropped"
    BY <1>2 DEF AppendLine, TypeOK, PollOK, QueueStatuses
  <2> QED
    BY <1>2, <2>1 DEF AppendLine, Deciding
<1>3. CASE Rewrite(p)
  <2>1. poll[p].st # "quiet_dropped"
    BY <1>3 DEF Rewrite, TypeOK, PollOK, QueueStatuses
  <2> QED
    BY <1>3, <2>1 DEF Rewrite
<1>4. CASE Insert(p)
  BY <1>4 DEF Insert
<1>5. CASE Poll(p) \/ PassOver(p) \/ PickActor(p) \/ Judged(p) \/ OpenBuffer(p) \/ ReadBuffer(p) \/ Push(p)
           \/ TimeOut(p)
  BY <1>5 DEF Poll, PassOver, PickActor, Judged, OpenBuffer, ReadBuffer, Push, TimeOut
<1> QED
  BY <1>1, <1>2, <1>3, <1>4, <1>5 DEF PollerStep, Work, Answer

\* The log only grows, by rows stamped now.
LogGrows == \E more : log' = log \cup more /\ \A r \in more : r.at = now

LEMMA StepLogs ==
  ASSUME TypeOK, [Next]_vars
  PROVE  LogGrows
<1>1. ASSUME NEW x, x.at = now, log' = log \cup {x} PROVE LogGrows
  <2> DEFINE more == {x}
  <2>1. log' = log \cup more /\ \A r \in more : r.at = now
    BY <1>1
  <2> HIDE DEF more
  <2> QED
    BY <2>1 DEF LogGrows
<1>2. ASSUME log' = log PROVE LogGrows
  <2> DEFINE more == {}
  <2>1. log' = log \cup more /\ \A r \in more : r.at = now
    BY <1>2
  <2> HIDE DEF more
  <2> QED
    BY <2>1 DEF LogGrows
<1>3. \A e, a, ch, st, s : Row(e, a, ch, st, s).at = now
  BY DEF Row
<1>4. CASE \E p \in Pollers : PollerStep(p)
  <2>1. PICK p \in Pollers : PollerStep(p)
    BY <1>4
  <2>2. CASE \E e, s : log' = log \cup {Row(e, None, "router", "no_actor", s)}
    BY <1>1, <1>3, <2>2
  <2>3. CASE \E ch, st, s : Log(p, ch, st, s)
    BY <1>1, <1>3, <2>3 DEF Log
  <2> QED
    BY <1>2, <2>1, <2>2, <2>3, PollerLogs
<1>5. CASE SchedulerStep
  BY <1>5, SchedulerRows DEF DigestRows, ItemRow, LogGrows
<1>6. CASE AdvanceTime \/ Crash \/ (\E a \in Actors : EditPrefs(a)) \/ UNCHANGED vars
  BY <1>2, <1>6 DEF AdvanceTime, Crash, EditPrefs, vars, routerVars
<1> QED
  BY <1>4, <1>5, <1>6 DEF Next, RouterStep

\* Where the rows come from: a dispatch, an event nobody is to hear of, a digest.
FromDispatch(p, r) ==
  /\ poll[p].pc \in {"decide", "send", "append", "rewrite"}
  /\ r.e = poll[p].e /\ r.a = poll[p].a /\ r.at = now /\ r.st # "quiet_dropped"

LEMMA NewRows ==
  ASSUME TypeOK, [Next]_vars, NEW r \in log'
  PROVE  \/ r \in log \/ r.ch = "router" \/ \E p \in Pollers : FromDispatch(p, r)
         \/ ItemRow(r) \/ (r.ch = "digest" /\ r.e \in {"slot", "flush"})
<1>1. CASE \E p \in Pollers : PollerStep(p)
  <2>1. PICK p \in Pollers : PollerStep(p)
    BY <1>1
  <2>2. CASE \E e, s : log' = log \cup {Row(e, None, "router", "no_actor", s)}
    BY <2>2 DEF Row
  <2>3. CASE /\ poll[p].pc \in {"decide", "send", "append", "rewrite"}
             /\ \E ch, st, s : Log(p, ch, st, s) /\ st # "quiet_dropped"
    <3>1. PICK ch, st, s : Log(p, ch, st, s) /\ st # "quiet_dropped"
      BY <2>3
    <3>2. r \in log \/ r = Row(poll[p].e, poll[p].a, ch, st, s)
      BY <3>1 DEF Log
    <3> QED
      BY <2>3, <3>1, <3>2 DEF Row, FromDispatch
  <2> QED
    BY <2>1, <2>2, <2>3, PollerLogs
<1>2. CASE SchedulerStep
  BY <1>2, SchedulerRows DEF DigestRows
<1>3. CASE AdvanceTime \/ Crash \/ (\E a \in Actors : EditPrefs(a)) \/ UNCHANGED vars
  BY <1>3 DEF AdvanceTime, Crash, EditPrefs, vars, routerVars
<1> QED
  BY <1>1, <1>2, <1>3 DEF Next, RouterStep

\* What the parts of a step leave alone.
LEMMA RouterKeeps ==
  ASSUME RouterStep
  PROVE  /\ UNCHANGED <<prefs, sched, fired, edits, crashes, conf>>
         /\ now' \in {now, now + 1} /\ stored \subseteq stored'
<1>1. UNCHANGED <<sched, fired, edits, crashes>>
  BY DEF RouterStep, digestVars
<1>2. CASE AdvanceTime
  BY <1>1, <1>2 DEF AdvanceTime
<1>3. ASSUME NEW p \in Pollers, PollerStep(p)
      PROVE  UNCHANGED <<prefs, now, conf>> /\ stored \subseteq stored'
  <2>1. CASE Filter(p) \/ Hold(p) \/ AppendLine(p) \/ EnqueueFails(p) \/ Rewrite(p) \/ Pushed(p)
             \/ PushFails(p)
    BY <2>1 DEF Filter, Hold, AppendLine, EnqueueFails, Rewrite, Pushed, PushFails
  <2>2. CASE Poll(p) \/ PassOver(p) \/ Insert(p) \/ PickActor(p) \/ Judged(p) \/ OpenBuffer(p) \/ ReadBuffer(p)
             \/ Push(p) \/ TimeOut(p)
    BY <2>2 DEF Poll, PassOver, Insert, PickActor, Judged, OpenBuffer, ReadBuffer, Push, TimeOut
  <2> QED
    BY <1>3, <2>1, <2>2 DEF PollerStep, Work, Answer
<1> QED
  BY <1>1, <1>2, <1>3 DEF RouterStep

LEMMA SchedulerKeeps ==
  ASSUME SchedulerStep
  PROVE  UNCHANGED <<prefs, now, stored, conf, poll, torn, edits, crashes>>
BY DEF SchedulerStep, Tick, Curate, DigestSent, DigestFails, Skip, TooSoon, Flush, OpenSlot,
       routerVars

LEMMA TickTime ==
  ASSUME TypeOK, SchedulerStep
  PROVE  sched'.t \in {0, now, sched.t}
<1>1. sched \in SchedStates
  BY DEF TypeOK
<1>2. ASSUME NEW a \in Actors PROVE sched.todo \ {a} \in SUBSET Actors
  BY <1>1 DEF SchedStates
<1>3. CASE Tick
  <2> DEFINE x == [Resting EXCEPT !.pc = "visit", !.t = now, !.due = Countdowns(now),
                                  !.todo = conf.users]
  <2>1. x.t = now
    BY DEF Resting
  <2>2. sched' = x
    BY <1>3 DEF Tick
  <2> HIDE DEF x
  <2> QED
    BY <2>1, <2>2
<1>4. CASE Curate
  <2>1. sched.a \in Actors
    BY <1>4 DEF Curate, TypeOK, SchedOK
  <2> QED
    BY <1>4, <2>1, CurateComposes, ComposeGap
<1>5. CASE DigestSent \/ DigestFails
  BY <1>1, <1>5, LeaveGap DEF DigestSent, DigestFails, SchedStates
<1>6. ASSUME NEW a \in Actors, Skip(a) \/ TooSoon(a) PROVE sched'.t \in {0, sched.t}
  BY <1>2, <1>6, LeaveGap DEF Skip, TooSoon
<1>7. ASSUME NEW a \in Actors, Flush(a) PROVE sched'.t \in {0, sched.t}
  BY <1>7, FlushComposes, ComposeGap
<1>8. ASSUME NEW a \in Actors, OpenSlot(a) PROVE sched'.t = sched.t
  BY <1>1, <1>8 DEF OpenSlot, SchedStates
<1> QED
  BY <1>3, <1>4, <1>5, <1>6, <1>7, <1>8 DEF SchedulerStep

LEMMA ClockNext ==
  ASSUME ClockInv, [Next]_vars
  PROVE  ClockInv'
<1>0. now \in Nat /\ sched.t \in Nat /\ \A r \in log : r.at \in Nat
  BY DEF ClockInv, TypeOK, SchedStates, Rows
<1>1. TypeOK'
  BY NextType DEF ClockInv
<1>2. /\ edits' \in Nat /\ crashes' \in Nat /\ now' \in {now, now + 1}
      /\ sched'.t \in {0, now, sched.t}
  <2>1. CASE RouterStep
    BY <2>1, RouterKeeps DEF ClockInv
  <2>2. CASE SchedulerStep
    BY <2>2, SchedulerKeeps, TickTime DEF ClockInv
  <2>3. CASE Crash
    BY <2>3 DEF Crash, ClockInv, Resting
  <2>4. CASE (\E a \in Actors : EditPrefs(a)) \/ UNCHANGED vars
    BY <2>4 DEF EditPrefs, ClockInv, vars, routerVars, digestVars
  <2> QED
    BY <2>1, <2>2, <2>3, <2>4 DEF Next
<1>3. sched'.t <= now'
  BY <1>0, <1>2 DEF ClockInv
<1>4. \A r \in log' : r.at <= now'
  <2>1. PICK more : log' = log \cup more /\ \A r \in more : r.at = now
    BY StepLogs DEF ClockInv, LogGrows
  <2> SUFFICES ASSUME NEW r \in log' PROVE r.at <= now'
    OBVIOUS
  <2>2. r.at \in Nat /\ r.at <= now
    BY <1>0, <2>1 DEF ClockInv
  <2> QED
    BY <1>0, <1>2, <2>2
<1> QED
  BY <1>1, <1>2, <1>3, <1>4 DEF ClockInv

LEMMA ClockInit ==
  ASSUME DigestInit
  PROVE  ClockInv
<1>1. TypeOK
  BY InitType
<1>2. sched.t = 0 /\ now \in Nat /\ log = {}
  BY <1>1 DEF DigestInit, Init, Resting, TypeOK
<1> QED
  BY <1>1, <1>2 DEF ClockInv, DigestInit

-----------------------------------------------------------------------------
(* What the quiet hours held.  A flush looks at everything held before its  *)
(* own minute; nothing is held for an earlier minute afterwards, and what   *)
(* it takes stays with the sender until the rows of its items are written.  *)

\* The flush of a at instant t, and what was held for it.
FlushOf(a, t) == <<a, DateOf(prefs[a], t), MinuteOf(prefs[a], t), "flush">>
HeldFor(a, t) == {r \in HeldRows(a, t - HeldWindow) : r.at < t}

\* The digest of a that is being sent took e, or has a row for it.
Sending(e, a) == sched.pc = "send" /\ InHand(e, a)
Itemised(e, a) == \E d \in log : d.e = e /\ d.a = a /\ d.ch = "digest_item"

Settled(r, a, t) ==
  \/ \E d \in log : d.e = r.e /\ d.a = a
                    /\ (d.ch = "digest_item" \/ d.st = "quiet_dropped")
  \/ ~ShouldDeliver(r.e, EventOf[r.e].sev, prefs[a])
  \/ BatchFailed(a, t)

FlushesSettled ==
  \A k \in fired : k[4] = "flush" =>
    \E a \in Actors, t \in Nat :
      /\ t <= now /\ k = FlushOf(a, t)
      /\ \A r \in HeldFor(a, t) : Settled(r, a, t) \/ Sending(r.e, a)

\* What was held is a stored event.
HeldKnown == \A r \in log : r.ch = "sink" /\ r.st = "quiet_held" => r.e \in stored

HeldInv == ClockInv /\ HeldKnown /\ (edits = 0 => FlushesSettled)

\* Whatever is handed to the composer is sent, or omitted with a row.
LEMMA ComposeTakes ==
  ASSUME TypeOK, NEW a \in Actors, NEW pr, NEW what, NEW items, NEW floor, NEW world, NEW rows,
         Compose(a, pr, what, items, floor, world, rows), NEW i \in items
  PROVE  /\ rows \subseteq log'
         /\ Sending(i.e, a)' \/ Itemised(i.e, a)'
<1>1. PICK omit \in SUBSET items :
        IF items = omit THEN log' = log \cup rows \cup OmitRows(a, omit)
        ELSE \E cutoff \in SUBSET (items \ omit) :
               /\ log' = log \cup rows
               /\ sched' = [sched EXCEPT
                     !.pc = "send", !.todo = @ \ {a}, !.a = a, !.pr = None,
                     !.what = what, !.mine = items \ (omit \cup cutoff),
                     !.world = world, !.omit = omit \cup cutoff]
  BY DEF Compose
<1>2. CASE items = omit
  <2> DEFINE row == Row(i.e, a, "digest_item", "omitted", i.sev)
  <2>1. row \in log' /\ row.e = i.e /\ row.a = a /\ row.ch = "digest_item"
    BY <1>1, <1>2 DEF OmitRows, Row
  <2> HIDE DEF row
  <2> QED
    BY <1>1, <1>2, <2>1 DEF Itemised
<1>3. CASE items # omit
  <2>1. PICK cutoff \in SUBSET (items \ omit) :
               /\ log' = log \cup rows
               /\ sched' = [sched EXCEPT
                     !.pc = "send", !.todo = @ \ {a}, !.a = a, !.pr = None,
                     !.what = what, !.mine = items \ (omit \cup cutoff),
                     !.world = world, !.omit = omit \cup cutoff]
    BY <1>1, <1>3
  <2>2. /\ sched'.pc = "send" /\ sched'.a = a
        /\ sched'.mine = items \ (omit \cup cutoff) /\ sched'.omit = omit \cup cutoff
    BY <2>1 DEF TypeOK, SchedStates
  <2>3. i \in sched'.mine \cup sched'.omit
    BY <2>2
  <2> QED
    BY <2>1, <2>2, <2>3 DEF Sending, InHand
<1> QED
  BY <1>2, <1>3

\* A digest being sent goes out with the rows of its items, or fails as a batch.
LEMMA SendingEnds ==
  ASSUME ClockInv, [Next]_vars, ~Crash, NEW e, NEW a, Sending(e, a), NEW t \in Nat, t <= now
  PROVE  Sending(e, a)' \/ Itemised(e, a)' \/ BatchFailed(a, t)'
<1>0. TypeOK /\ sched.pc = "send" /\ sched.a = a /\ sched.what \in {"slot", "flush"}
  BY DEF ClockInv, Sending, InHand, TypeOK, SchedOK
<1>1. ASSUME NEW st, SentRows(st) \subseteq log' PROVE Itemised(e, a)'
  <2>1. PICK i \in sched.mine \cup sched.omit : i.e = e
    BY DEF Sending, InHand
  <2>2. CASE i \in sched.mine
    <3> DEFINE row == Row(i.e, a, "digest_item", st, i.sev)
    <3>1. row \in log' /\ row.e = e /\ row.a = a /\ row.ch = "digest_item"
      BY <1>0, <1>1, <2>1, <2>2 DEF SentRows, Row
    <3> HIDE DEF row
    <3> QED
      BY <3>1 DEF Itemised
  <2>3. CASE i \in sched.omit
    <3> DEFINE row == Row(i.e, a, "digest_item", "omitted", i.sev)
    <3>1. row \in log' /\ row.e = e /\ row.a = a /\ row.ch = "digest_item"
      BY <1>0, <1>1, <2>1, <2>3 DEF SentRows, OmitRows, Row
    <3> HIDE DEF row
    <3> QED
      BY <3>1 DEF Itemised
  <2> QED
    BY <2>2, <2>3
<1>2. CASE DigestSent
  BY <1>1, <1>2 DEF DigestSent
<1>3. CASE DigestFails
  <2>1. CASE conf.sink = "multi"
    BY <1>1, <1>3, <2>1 DEF DigestFails
  <2>2. CASE conf.sink # "multi"
    <3> DEFINE row == BatchRow("failed")
    <3>1. /\ row \in log' /\ row.a = a /\ row.ch = "digest" /\ row.e \in {"slot", "flush"}
          /\ row.st = "failed" /\ row.at = now
      BY <1>0, <1>3, <2>2 DEF DigestFails, BatchRow, Row
    <3> HIDE DEF row
    <3> QED
      BY <3>1 DEF BatchFailed
  <2> QED
    BY <2>1, <2>2
<1>4. CASE sched' = sched
  BY <1>4 DEF Sending, InHand
<1>5. ~Tick /\ ~Curate /\ ~\E b \in Actors : Skip(b) \/ TooSoon(b) \/ Flush(b) \/ OpenSlot(b)
  BY <1>0 DEF Tick, Curate, Skip, TooSoon, Flush, OpenSlot, Serving
<1>6. DigestSent \/ DigestFails \/ sched' = sched
  BY <1>5, RouterKeeps DEF Next, SchedulerStep, EditPrefs, vars, digestVars
<1> QED
  BY <1>2, <1>3, <1>4, <1>6

\* A flush done stays settled, whatever is logged and sent later.
LEMMA SameFlush ==
  ASSUME HeldInv, [Next]_vars, ~Crash, prefs' = prefs, FlushesSettled,
         NEW k \in fired, k[4] = "flush"
  PROVE  (\E a \in Actors, t \in Nat :
            /\ t <= now /\ k = FlushOf(a, t)
            /\ \A r \in HeldFor(a, t) : Settled(r, a, t) \/ Sending(r.e, a))'
<1>1. PICK a \in Actors, t \in Nat :
        /\ t <= now /\ k = FlushOf(a, t)
        /\ \A r \in HeldFor(a, t) : Settled(r, a, t) \/ Sending(r.e, a)
  BY DEF FlushesSettled
<1>2. PICK more : log' = log \cup more /\ \A r \in more : r.at = now
  BY StepLogs DEF HeldInv, ClockInv, LogGrows
<1>3. now \in Nat /\ now' \in Nat /\ now <= now'
  <2>1. now' \in {now, now + 1}
    BY RouterKeeps, SchedulerKeeps DEF Next, EditPrefs, vars, routerVars
  <2> QED
    BY <2>1 DEF HeldInv, ClockInv, TypeOK
<1>4. k = FlushOf(a, t)'
  BY <1>1 DEF FlushOf
<1>5. \A r \in HeldFor(a, t)' : r \in HeldFor(a, t)
  BY <1>1, <1>2, <1>3 DEF HeldFor, HeldRows
<1>6. ASSUME NEW r \in HeldFor(a, t)' PROVE Settled(r, a, t)' \/ Sending(r.e, a)'
  <2>1. CASE Settled(r, a, t)
    BY <1>2, <2>1 DEF Settled, BatchFailed
  <2>2. CASE Sending(r.e, a)
    <3>1. Sending(r.e, a)' \/ Itemised(r.e, a)' \/ BatchFailed(a, t)'
      BY <1>1, <2>2, SendingEnds DEF HeldInv
    <3> QED
      BY <3>1 DEF Itemised, Settled
  <2> QED
    BY <1>1, <1>5, <2>1, <2>2
<1>7. t <= now'
  BY <1>1, <1>3
<1> QED
  BY <1>4, <1>6, <1>7

\* The flush settles, or hands on, what was held before its minute.
LEMMA FlushSettles ==
  ASSUME HeldInv, NEW a \in Actors, Flush(a), NEW t \in Nat, t = sched.t,
         NEW r \in HeldFor(a, t)'
  PROVE  Settled(r, a, t)' \/ Sending(r.e, a)'
<1> PICK drained : FlushLines(a, drained)
  BY DEF Flush
<1> DEFINE held == Held(a, sched.t - HeldWindow)
           stale == {e \in held : ~Fresh(e, sched.t) /\ EventOf[e].kind # "price"}
           lines == {l \in drained : l.e \notin held \ stale}
           all == {Own(e, EventOf[e].sev) : e \in held \ stale}
                    \cup {Own(l.e, l.sev) : l \in lines}
           items == {i \in all : ShouldDeliver(i.e, i.sev, prefs[a])}
           rows == {Row(e, a, "sink", "quiet_dropped", EventOf[e].sev) : e \in stale}
<1>1. Compose(a, prefs[a], "flush", items, {}, {}, rows)
  BY DEF FlushLines
<1>2. TypeOK /\ now \in Nat /\ t <= now /\ prefs' = prefs
  BY DEF HeldInv, ClockInv, TypeOK, Flush
<1>3. PICK more : log' = log \cup more /\ \A q \in more : q.at = now
  <2>1. SchedulerStep
    BY DEF SchedulerStep
  <2> QED
    BY <1>2, <2>1, StepLogs DEF LogGrows, Next
<1>4. r \in HeldRows(a, t - HeldWindow)
  BY <1>2, <1>3 DEF HeldFor, HeldRows
<1>5. r.e \in held
  BY <1>4 DEF HeldInv, HeldKnown, HeldRows, Held
<1> HIDE DEF held
<1>6. CASE r.e \in stale
  <2> DEFINE row == Row(r.e, a, "sink", "quiet_dropped", EventOf[r.e].sev)
  <2>1. row \in rows /\ row.e = r.e /\ row.a = a /\ row.st = "quiet_dropped"
    BY <1>6 DEF Row
  <2> HIDE DEF row, stale, items, rows
  <2>2. CASE items = {}
    <3>1. rows \subseteq log'
      BY <1>1, <2>2 DEF Compose
    <3> QED
      BY <2>1, <3>1 DEF Settled
  <2>3. ASSUME NEW i \in items PROVE rows \subseteq log'
    BY <1>1, <1>2, <2>3, ComposeTakes
  <2> QED
    BY <2>1, <2>2, <2>3 DEF Settled
<1>7. CASE r.e \notin stale
  <2> HIDE DEF stale
  <2> DEFINE i == Own(r.e, EventOf[r.e].sev)
  <2>1. i \in all /\ i.e = r.e /\ i.sev = EventOf[r.e].sev
    BY <1>5, <1>7 DEF Own
  <2>2. CASE i \in items
    <3> HIDE DEF i, items, rows
    <3>1. Sending(i.e, a)' \/ Itemised(i.e, a)'
      BY <1>1, <1>2, <2>2, ComposeTakes
    <3> QED
      BY <2>1, <3>1 DEF Settled, Itemised, Sending, InHand
  <2>3. CASE i \notin items
    BY <1>2, <2>1, <2>3 DEF Settled
  <2> QED
    BY <2>2, <2>3
<1> QED
  BY <1>6, <1>7

LEMMA HeldKnownNext ==
  ASSUME TypeOK, HeldKnown, [Next]_vars
  PROVE  HeldKnown'
<1> SUFFICES ASSUME NEW r \in log', r.ch = "sink", r.st = "quiet_held"
             PROVE  r.e \in stored'
  BY DEF HeldKnown
<1>1. stored \subseteq stored'
  BY RouterKeeps, SchedulerKeeps DEF Next, Crash, EditPrefs, vars, routerVars
<1>2. CASE \E p \in Pollers : FromDispatch(p, r)
  BY <1>1, <1>2 DEF FromDispatch, TypeOK, PollOK
<1> QED
  BY <1>1, <1>2, NewRows DEF HeldKnown, ItemRow

LEMMA HeldNext ==
  ASSUME HeldInv, [Next]_vars
  PROVE  HeldInv'
<1>1. ClockInv' /\ HeldKnown'
  <2>1. TypeOK
    BY DEF HeldInv, ClockInv
  <2> QED
    BY <2>1, ClockNext, HeldKnownNext DEF HeldInv
<1> SUFFICES ASSUME edits' = 0 PROVE FlushesSettled'
  BY <1>1 DEF HeldInv
<1>2. edits \in Nat /\ edits = 0 /\ ~\E b \in Actors : EditPrefs(b)
  <2>1. edits \in Nat
    BY DEF HeldInv, ClockInv
  <2>2. ~\E b \in Actors : EditPrefs(b)
    BY <2>1 DEF EditPrefs
  <2> QED
    BY <2>1, <2>2, RouterKeeps, SchedulerKeeps DEF Next, Crash, vars, digestVars
<1>3. FlushesSettled
  BY <1>2 DEF HeldInv
<1>4. CASE fired' = {}
  BY <1>4 DEF FlushesSettled
<1>5. CASE ~Crash
  <2>1. prefs' = prefs
    BY <1>2, <1>5, RouterKeeps, SchedulerKeeps DEF Next, vars, routerVars
  <2> SUFFICES ASSUME NEW k \in fired', k[4] = "flush"
               PROVE  (\E a \in Actors, t \in Nat :
                         /\ t <= now /\ k = FlushOf(a, t)
                         /\ \A r \in HeldFor(a, t) : Settled(r, a, t) \/ Sending(r.e, a))'
    BY DEF FlushesSettled
  <2>2. CASE k \in fired
    BY <1>3, <1>5, <2>1, <2>2, SameFlush
  <2>3. CASE \E a \in Actors : Flush(a) /\ k = Key(a, "flush")
    <3>1. PICK a \in Actors : Flush(a) /\ k = Key(a, "flush")
      BY <2>3
    <3>2. PICK t \in Nat : t = sched.t
      BY DEF HeldInv, ClockInv, TypeOK, SchedStates
    <3>3. t <= now' /\ k = FlushOf(a, t)'
      <4>1. now' = now /\ t <= now
        BY <3>1, <3>2 DEF Flush, HeldInv, ClockInv
      <4> QED
        BY <2>1, <3>1, <3>2, <4>1 DEF Key, Date, Minute, FlushOf
    <3>4. \A r \in HeldFor(a, t)' : Settled(r, a, t)' \/ Sending(r.e, a)'
      BY <3>1, <3>2, FlushSettles
    <3> QED
      BY <3>3, <3>4
  <2>4. k \in fired \/ (\E a \in Actors : Flush(a) /\ k = Key(a, "flush")) \/ fired' = {}
    <3>1. \A a : Key(a, "slot")[4] = "slot"
      BY DEF Key
    <3>2. CASE RouterStep \/ (\E a \in Actors : EditPrefs(a)) \/ UNCHANGED vars
      BY <3>2, RouterKeeps DEF EditPrefs, vars, digestVars
    <3>3. CASE Tick \/ Curate \/ DigestSent \/ DigestFails
      BY <3>3 DEF Tick, Curate, DigestSent, DigestFails
    <3>4. ASSUME NEW a \in Actors, Skip(a) \/ TooSoon(a) \/ OpenSlot(a) PROVE k \in fired
      BY <3>1, <3>4 DEF Skip, TooSoon, OpenSlot
    <3>5. ASSUME NEW a \in Actors, Flush(a) PROVE k \in fired \/ k = Key(a, "flush")
      BY <3>5 DEF Flush
    <3> QED
      BY <1>5, <3>2, <3>3, <3>4, <3>5 DEF Next, SchedulerStep
  <2> QED
    BY <1>4, <2>2, <2>3, <2>4
<1>6. CASE Crash
  BY <1>4, <1>6 DEF Crash
<1> QED
  BY <1>5, <1>6

LEMMA HeldInit ==
  ASSUME DigestInit
  PROVE  HeldInv
BY ClockInit DEF HeldInv, HeldKnown, FlushesSettled, DigestInit, Init

\* Once the flush of a user's quiet hours is over, every event they held is delivered,
\* omitted or dropped with a row, was rejected by the preferences, or its batch failed.
THEOREM HeldIsSettledHolds == Spec => []HeldIsSettled
<1>1. HeldInv => HeldIsSettled
  <2> SUFFICES ASSUME HeldInv, NEW k \in fired, k[4] = "flush", sched.a # k[1], edits = 0,
                      NEW flushed, flushed = k[2] * DayLen + k[3] - prefs[k[1]].tz,
                      NEW r \in HeldRows(k[1], flushed - HeldWindow), r.at < flushed
               PROVE  Settled(r, k[1], flushed)
    BY Zenon DEF HeldIsSettled, Settled
  <2>1. PICK a \in Actors, t \in Nat :
          /\ t <= now /\ k = FlushOf(a, t)
          /\ \A x \in HeldFor(a, t) : Settled(x, a, t) \/ Sending(x.e, a)
    BY DEF HeldInv, FlushesSettled
  <2>2. k[1] = a /\ k[2] = DateOf(prefs[a], t) /\ k[3] = MinuteOf(prefs[a], t)
    BY <2>1 DEF FlushOf
  <2>3. prefs[a].tz \in Int /\ DayLen \in Nat \ {0}
    BY DigestAssumption, PolicyAssumption DEF HeldInv, ClockInv, TypeOK
  <2>4. flushed = t
    <3> DEFINE x == t + prefs[a].tz
               q == x \div DayLen
               m == x % DayLen
    <3>1. x \in Int
      BY <2>3
    <3>2. q \in Int /\ m \in Int /\ x = DayLen * q + m
      <4> HIDE DEF x
      <4> QED
        BY <2>3, <3>1
    <3>3. flushed = q * DayLen + m - prefs[a].tz
      BY <2>2 DEF DateOf, MinuteOf, Day
    <3> HIDE DEF q, m
    <3>4. q * DayLen = DayLen * q
      BY <2>3, <3>2
    <3> QED
      BY <2>3, <3>2, <3>3, <3>4
  <2>5. r \in HeldFor(a, t)
    BY <2>2, <2>4 DEF HeldFor
  <2> QED
    BY <2>1, <2>2, <2>4, <2>5 DEF Sending, InHand
<1> QED
  BY <1>1, HeldInit, HeldNext, PTL DEF Spec

-----------------------------------------------------------------------------
(* What was queued.  An event is queued for whoever its row names, with the *)
(* preferences that let it pass; the line waits in the buffer, which only a *)
(* rewrite, a flush or a slot takes it from.                                *)

QueuedRow(r) == r.ch = "digest" /\ r.e \in Events /\ r.st # "failed"

\* A line of e that a digest of a would take, in the buffer or in curation.
Waiting(e, a) == \E l \in buf[a] : l.e = e /\ ShouldDeliver(l.e, l.sev, prefs[a])
Curating(e, a) ==
  /\ sched.pc = "curate" /\ sched.a = a
  /\ \E i \in sched.mine : i.e = e /\ ShouldDeliver(i.e, i.sev, sched.pr)

\* A newer price of its key was queued.
Replaced(r) ==
  \E q \in log : /\ q.a = r.a /\ q.ch = "digest" /\ q.e \in Events \ {r.e}
                 /\ q.at >= r.at /\ PriceKey(q.e) = PriceKey(r.e) /\ PriceKey(r.e) # None

\* Its line cannot be read by any drain.
Lost(e, a) == <<e, a>> \in lost

Kept(r) ==
  \/ Waiting(r.e, r.a) \/ Curating(r.e, r.a) \/ Sending(r.e, r.a) \/ Lost(r.e, r.a)
  \/ Itemised(r.e, r.a) \/ Replaced(r) \/ BatchFailed(r.a, r.at)

\* A dispatch, and a row that ended one, is of an event switched on and an actor it
\* concerns.
PairsMean ==
  \A p \in Pollers : \A e, a :
    <<e, a>> \in InProgress(p) => EventOf[e].kind \notin Disabled /\ a \in Resolve(e)
RowsMean ==
  \A r \in log : r.e \in Events /\ (FateRow(r) \/ r.ch = "digest") =>
    FateRow(r) /\ EventOf[r.e].kind \notin Disabled /\ r.a \in Resolve(r.e)

\* While nobody edits them, the preferences a dispatch read are the user's.
PollersFit ==
  \A p \in Pollers :
    /\ poll[p].pc \in {"judge", "decide", "append", "rewrite"} =>
         poll[p].pr = prefs[poll[p].a]
    /\ poll[p].pc \in {"append", "rewrite"} => Passes(p)
    /\ poll[p].pc = "rewrite" => PriceKey(poll[p].e) # None

QueuesKept == \A r \in log : QueuedRow(r) /\ r.a \notin torn => Kept(r)

QueueInv ==
  /\ FateInv /\ ClockInv /\ PairsMean /\ RowsMean
  /\ (edits = 0 => PollersFit) /\ (edits = 0 /\ crashes = 0 => QueuesKept)

\* Only an insert brings a poller new pairs to dispatch.
LEMMA PollerPairs ==
  ASSUME TypeOK, TypeOK', NEW p \in Pollers, PollerStep(p), ~Insert(p), NEW e, NEW a,
         <<e, a>> \in InProgress(p)'
  PROVE  <<e, a>> \in InProgress(p)
<1>1. poll \in [Pollers -> PollStates] /\ poll[p] \in PollStates
  BY DEF TypeOK
<1>2. e = poll'[p].e /\ a # None /\ (a \in poll'[p].todo \/ a = poll'[p].a)
  BY InProgressNext
<1>3. CASE poll'[p].pc \in {"idle", "insert"} /\ PollOK(poll'[p], stored')
  BY <1>2, <1>3 DEF PollOK
<1>4. CASE /\ poll'[p].e = poll[p].e
           /\ poll'[p].todo \cup {poll'[p].a} \subseteq poll[p].todo \cup {poll[p].a}
  BY <1>2, <1>4, InProgressIs
<1>5. CASE poll'[p] = poll[p]
  BY <1>2, <1>5, InProgressIs
<1>6. CASE Poll(p) \/ PassOver(p) \/ TimeOut(p)
  <2>1. poll'[p].pc \in {"idle", "insert"} \/ poll'[p] = poll[p]
    <3>1. CASE Poll(p)
      <4> DEFINE x == [Idle EXCEPT !.pc = "insert", !.batch = Head(feed[p])]
      <4>1. x.pc = "insert"
        BY DEF Idle
      <4>2. poll' = poll \/ poll' = [poll EXCEPT ![p] = x]
        BY <3>1 DEF Poll
      <4> HIDE DEF x
      <4> QED
        BY <1>1, <4>1, <4>2
    <3>2. CASE PassOver(p)
      <4> DEFINE x == [Idle EXCEPT !.pc = "insert", !.batch = Tail(poll[p].batch)]
      <4>1. x.pc = "insert"
        BY DEF Idle
      <4>2. poll'[p] = Idle \/ poll'[p] = x
        BY <1>1, <3>2 DEF PassOver, NextEvent
      <4> HIDE DEF x
      <4> QED
        BY <4>1, <4>2, IdleType
    <3>3. CASE TimeOut(p)
      BY <1>1, <3>3, IdleType DEF TimeOut
    <3> QED
      BY <1>6, <3>1, <3>2, <3>3
  <2>2. CASE poll'[p].pc \in {"idle", "insert"}
    <3>1. PollOK(poll'[p], stored')
      BY DEF TypeOK
    <3> QED
      BY <1>3, <2>2, <3>1
  <2> QED
    BY <1>5, <2>1, <2>2
<1>7. CASE PickActor(p)
  <2>1. PICK b \in poll[p].todo : poll'[p] = Facing(p, b)
    BY <1>1, <1>7 DEF PickActor
  <2>2. Facing(p, b).e = poll[p].e /\ Facing(p, b).a = b /\ Facing(p, b).todo = poll[p].todo \ {b}
    BY <1>1 DEF Facing, PollStates
  <2> QED
    BY <1>4, <2>1, <2>2
<1>8. CASE Judged(p) \/ Push(p) \/ OpenBuffer(p) \/ ReadBuffer(p)
  <2>1. CASE Judged(p)
    <3>1. \A s : LET x == [poll[p] EXCEPT !.pc = "decide", !.asev = s]
                 IN  x.e = poll[p].e /\ x.todo = poll[p].todo /\ x.a = poll[p].a
      BY <1>1 DEF PollStates
    <3> QED
      BY <1>1, <1>4, <2>1, <3>1 DEF Judged
  <2>2. CASE Push(p)
    BY <1>1, <1>4, <2>2 DEF Push, PollStates
  <2>3. CASE OpenBuffer(p) \/ ReadBuffer(p)
    BY <1>4, <2>3, OpensOwn DEF ClockInv
  <2> QED
    BY <1>8, <2>1, <2>2, <2>3
<1>9. CASE Filter(p) \/ Hold(p) \/ AppendLine(p) \/ EnqueueFails(p) \/ Rewrite(p) \/ Pushed(p)
           \/ PushFails(p)
  <2>1. poll' = [poll EXCEPT ![p] = NextActor(p)] /\ poll[p].pc \in {"decide", "send", "append", "rewrite"}
    BY <1>9 DEF Filter, Hold, AppendLine, EnqueueFails, Rewrite, Pushed, PushFails, Log,
                Deciding
  <2> QED
    BY <2>1, NextActorPairs
<1> QED
  BY <1>6, <1>7, <1>8, <1>9 DEF PollerStep, Work, Answer

LEMMA InsertPairs ==
  ASSUME TypeOK, TypeOK', NEW p \in Pollers, Insert(p), NEW e, NEW a,
         <<e, a>> \in InProgress(p)'
  PROVE  EventOf[e].kind \notin Disabled /\ a \in Resolve(e)
<1> DEFINE new == Head(poll[p].batch)
           on == EventOf[new].kind \notin Disabled
<1>1. poll \in [Pollers -> PollStates] /\ poll[p] \in PollStates /\ poll[p].a = None
  BY DEF TypeOK, Insert, PollOK
<1>2. e = poll'[p].e /\ a # None /\ (a \in poll'[p].todo \/ a = poll'[p].a)
  BY InProgressNext
<1>3. CASE ~on \/ Resolve(new) = {}
  <2> DEFINE x == [Idle EXCEPT !.pc = "insert", !.batch = Tail(poll[p].batch)]
  <2>1. x.pc = "insert"
    BY DEF Idle
  <2>2. poll'[p] = Idle \/ poll'[p] = x
    BY <1>1, <1>3 DEF Insert, NextEvent
  <2> HIDE DEF x
  <2>3. poll'[p].pc \in {"idle", "insert"}
    BY <2>1, <2>2, IdleType
  <2> QED
    BY <1>2, <2>3 DEF TypeOK, PollOK
<1>4. CASE on /\ Resolve(new) # {}
  <2>1. PICK s : poll' = [poll EXCEPT ![p] = [@ EXCEPT !.pc = "route", !.e = new, !.sev = s,
                                                       !.todo = Resolve(new)]]
    BY <1>4 DEF Insert
  <2>2. poll'[p].e = new /\ poll'[p].todo = Resolve(new) /\ poll'[p].a = None
    BY <1>1, <2>1 DEF PollStates
  <2> QED
    BY <1>2, <1>4, <2>2
<1> QED
  BY <1>3, <1>4

\* Steps of other parts leave the pollers alone, or drop what they were doing.
LEMMA OthersPoll ==
  ASSUME TypeOK, [Next]_vars, NEW p \in Pollers, ~PollerStep(p)
  PROVE  poll'[p] = poll[p] \/ poll'[p] = Idle
<1>1. CASE \E q \in Pollers : PollerStep(q)
  <2>1. PICK q \in Pollers : PollerStep(q) /\ q # p
    BY <1>1
  <2>2. CASE Poll(q)
    BY <2>1, <2>2 DEF Poll, TypeOK
  <2> QED
    BY <2>1, <2>2, PollerFollows
<1>2. CASE SchedulerStep
  BY <1>2, SchedulerKeeps
<1>3. CASE AdvanceTime \/ Crash \/ (\E a \in Actors : EditPrefs(a)) \/ UNCHANGED vars
  BY <1>3 DEF AdvanceTime, Crash, EditPrefs, vars, routerVars
<1> QED
  BY <1>1, <1>2, <1>3 DEF Next, RouterStep

LEMMA MeanNext ==
  ASSUME TypeOK, [Next]_vars, PairsMean, RowsMean
  PROVE  PairsMean' /\ RowsMean'
<1>0. TypeOK'
  BY NextType
<1>1. conf' = conf
  BY RouterKeeps, SchedulerKeeps DEF Next, Crash, EditPrefs, vars, routerVars
<1>2. \A e : Resolve(e)' = Resolve(e)
  BY <1>1 DEF Resolve
<1>3. PairsMean'
  <2> SUFFICES ASSUME NEW p \in Pollers, NEW e, NEW a, <<e, a>> \in InProgress(p)'
               PROVE  EventOf[e].kind \notin Disabled /\ a \in Resolve(e)
    BY <1>2 DEF PairsMean
  <2>1. CASE Insert(p)
    BY <1>0, <2>1, InsertPairs
  <2>2. CASE PollerStep(p) /\ ~Insert(p)
    <3>1. <<e, a>> \in InProgress(p)
      BY <1>0, <2>2, PollerPairs
    <3> QED
      BY <3>1 DEF PairsMean
  <2>3. CASE ~PollerStep(p)
    <3>1. poll'[p] = poll[p] \/ poll'[p] = Idle
      BY <2>3, OthersPoll
    <3>2. <<e, a>> \in InProgress(p)
      BY <3>1, IdleType, InProgressNext, InProgressIs
    <3> QED
      BY <3>2 DEF PairsMean
  <2> QED
    BY <2>1, <2>2, <2>3
<1>4. RowsMean'
  <2> SUFFICES ASSUME NEW r \in log', FateRow(r) \/ r.ch = "digest", r.e \in Events
               PROVE  FateRow(r) /\ EventOf[r.e].kind \notin Disabled /\ r.a \in Resolve(r.e)
    BY <1>2 DEF RowsMean, FateRow
  <2>1. CASE \E p \in Pollers : FromDispatch(p, r)
    <3>1. PICK p \in Pollers : FromDispatch(p, r)
      BY <2>1
    <3>2. poll[p].a \in Actors /\ poll[p].a # None
      BY <3>1, RouterAssumption DEF FromDispatch, TypeOK, PollOK
    <3>3. <<r.e, r.a>> \in InProgress(p)
      BY <3>1, <3>2, InProgressIs DEF FromDispatch
    <3> QED
      BY <3>1, <3>3 DEF PairsMean, FromDispatch, FateRow
  <2>2. r.e \notin {"slot", "flush"}
    BY DigestAssumption
  <2> QED
    BY <2>1, <2>2, NewRows DEF RowsMean, FateRow, ItemRow
<1> QED
  BY <1>3, <1>4

LEMMA FitNext ==
  ASSUME TypeOK, [Next]_vars, prefs' = prefs, PollersFit
  PROVE  PollersFit'
<1>1. poll \in [Pollers -> PollStates]
  BY DEF TypeOK
<1> DEFINE Asking(pc) == pc \in {"judge", "decide", "append", "rewrite"}
<1> SUFFICES ASSUME NEW p \in Pollers, Asking(poll'[p].pc)
             PROVE  /\ poll'[p].pr = prefs[poll'[p].a]
                    /\ poll'[p].pc \in {"append", "rewrite"} => Passes(p)'
                    /\ poll'[p].pc = "rewrite" => PriceKey(poll'[p].e) # None
  BY DEF PollersFit
<1>2. CASE poll'[p] = poll[p]
  BY <1>2 DEF PollersFit, Passes
<1>3. CASE ~PollerStep(p)
  BY <1>2, <1>3, OthersPoll, IdleType
<1>4. poll[p] \in PollStates
  BY <1>1
<1>5. CASE PickActor(p)
  <2>1. PICK b \in poll[p].todo : poll'[p] = Facing(p, b)
    BY <1>1, <1>5 DEF PickActor
  <2>2. Facing(p, b).a = b /\ Facing(p, b).pr = prefs[b] /\ Facing(p, b).pc \in {"judge", "decide"}
    BY <1>4 DEF Facing, PollStates
  <2> QED
    BY <2>1, <2>2
<1>6. CASE Judged(p)
  <2>1. PICK s : poll' = [poll EXCEPT ![p] = [@ EXCEPT !.pc = "decide", !.asev = s]]
    BY <1>6 DEF Judged
  <2>2. poll'[p].pc = "decide" /\ poll'[p].pr = poll[p].pr /\ poll'[p].a = poll[p].a
    BY <1>1, <1>4, <2>1 DEF PollStates
  <2> QED
    BY <1>6, <2>2 DEF Judged, PollersFit
<1>7. CASE OpenBuffer(p) \/ ReadBuffer(p)
  <2>1. /\ poll'[p].pr = poll[p].pr /\ poll'[p].a = poll[p].a /\ poll'[p].e = poll[p].e
        /\ poll'[p].asev = poll[p].asev
        /\ (poll'[p].pc = "append" \/ PriceKey(poll[p].e) # None)
    BY <1>7, OpensOwn DEF ClockInv
  <2> QED
    BY <1>7, <2>1 DEF OpenBuffer, ReadBuffer, Deciding, PollersFit, Passes
<1>8. CASE Push(p) \/ TimeOut(p)
  BY <1>1, <1>4, <1>8, IdleType DEF Push, TimeOut, PollStates
<1>9. CASE Poll(p) \/ PassOver(p) \/ Insert(p)
  <2>1. poll'[p] = poll[p] \/ poll'[p].pc \in {"idle", "insert", "route"}
    <3> DEFINE x(b) == [Idle EXCEPT !.pc = "insert", !.batch = b]
               y(s) == [poll[p] EXCEPT !.pc = "route", !.e = Head(poll[p].batch), !.sev = s,
                                       !.todo = Resolve(Head(poll[p].batch))]
    <3>1. (\A b : x(b).pc = "insert") /\ \A s : y(s).pc = "route"
      BY <1>4 DEF Idle, PollStates
    <3>2. \/ poll' = poll \/ poll'[p] = Idle \/ (\E b : poll'[p] = x(b)) \/ \E s : poll'[p] = y(s)
      <4>1. CASE Poll(p)
        BY <1>1, <4>1 DEF Poll
      <4>2. CASE PassOver(p)
        BY <1>1, <4>2 DEF PassOver, NextEvent
      <4>3. CASE Insert(p)
        BY <1>1, <4>3 DEF Insert, NextEvent
      <4> QED
        BY <1>9, <4>1, <4>2, <4>3
    <3> HIDE DEF x, y
    <3> QED
      BY <3>1, <3>2, IdleType
  <2> QED
    BY <1>2, <2>1
<1>10. CASE Filter(p) \/ Hold(p) \/ AppendLine(p) \/ EnqueueFails(p) \/ Rewrite(p) \/ Pushed(p)
            \/ PushFails(p)
  <2>1. poll' = [poll EXCEPT ![p] = NextActor(p)]
    BY <1>10 DEF Filter, Hold, AppendLine, EnqueueFails, Rewrite, Pushed, PushFails, Log
  <2>2. NextActor(p).pc \in {"idle", "insert", "route"}
    <3> DEFINE x == [Idle EXCEPT !.pc = "insert", !.batch = Tail(poll[p].batch)]
               y == [Idle EXCEPT !.pc = "route", !.batch = poll[p].batch, !.e = poll[p].e,
                                 !.sev = poll[p].sev, !.todo = poll[p].todo]
    <3>1. x.pc = "insert" /\ y.pc = "route"
      BY DEF Idle
    <3>2. NextActor(p) = Idle \/ NextActor(p) = x \/ NextActor(p) = y
      BY DEF NextActor, NextEvent
    <3> HIDE DEF x, y
    <3> QED
      BY <3>1, <3>2, IdleType
  <2> QED
    BY <1>1, <2>1, <2>2
<1> QED
  BY <1>3, <1>5, <1>6, <1>7, <1>8, <1>9, <1>10 DEF PollerStep, Work, Answer

\* A row that says queued has its line in the buffer, or the line is lost.
LEMMA NewQueued ==
  ASSUME TypeOK, [Next]_vars, prefs' = prefs, PollersFit,
         NEW r \in log', r \notin log, QueuedRow(r)
  PROVE  Waiting(r.e, r.a)' \/ Lost(r.e, r.a)'
<1>1. PICK p \in Pollers : FromDispatch(p, r)
  <2>1. r.e \notin {"slot", "flush"}
    BY DigestAssumption DEF QueuedRow
  <2> QED
    BY <2>1, NewRows DEF QueuedRow, ItemRow
<1>2. PICK q \in Pollers : PollerStep(q)
  <2>1. CASE SchedulerStep
    BY <2>1, SchedulerRows, DigestAssumption DEF DigestRows, ItemRow, QueuedRow
  <2>2. CASE AdvanceTime \/ Crash \/ (\E a \in Actors : EditPrefs(a)) \/ UNCHANGED vars
    BY <2>2 DEF AdvanceTime, Crash, EditPrefs, vars, routerVars
  <2> QED
    BY <2>1, <2>2 DEF Next, RouterStep
<1>3. ASSUME NEW ch, NEW st, NEW s, Log(q, ch, st, s)
      PROVE  r.e = poll[q].e /\ r.a = poll[q].a /\ r.ch = ch /\ r.st = st
  BY <1>3 DEF Log, Row
<1>4. ASSUME Passes(q), poll[q].pr = prefs[poll[q].a], Line(q) \in buf'[poll[q].a],
             r.e = poll[q].e, r.a = poll[q].a
      PROVE  Waiting(r.e, r.a)'
  BY <1>4 DEF Waiting, Line, Passes
<1>5. poll[q].pc \in {"append", "rewrite"} => poll[q].a \in Actors
  BY DEF TypeOK, PollOK
<1>6. CASE AppendLine(q)
  <2>1. Line(q) \in buf'[poll[q].a] \/ <<poll[q].e, poll[q].a>> \in lost'
    BY <1>5, <1>6 DEF AppendLine, TypeOK
  <2>2. Passes(q) /\ poll[q].pr = prefs[poll[q].a]
    BY <1>6 DEF AppendLine, PollersFit
  <2>3. r.e = poll[q].e /\ r.a = poll[q].a
    BY <1>3, <1>6 DEF AppendLine
  <2> QED
    BY <1>4, <2>1, <2>2, <2>3 DEF Lost
<1>7. CASE Rewrite(q)
  <2>1. Line(q) \in buf'[poll[q].a]
    BY <1>5, <1>7 DEF Rewrite, TypeOK
  <2> QED
    BY <1>3, <1>4, <1>7, <2>1 DEF Rewrite, PollersFit
<1>8. CASE Filter(q) \/ Hold(q) \/ EnqueueFails(q) \/ Pushed(q) \/ PushFails(q)
  BY <1>3, <1>8 DEF Filter, Hold, EnqueueFails, Pushed, PushFails, QueuedRow
<1>9. CASE Insert(q)
  BY <1>9 DEF Insert, Row, QueuedRow
<1>10. CASE Poll(q) \/ PassOver(q) \/ PickActor(q) \/ Judged(q) \/ OpenBuffer(q)
            \/ ReadBuffer(q) \/ Push(q) \/ TimeOut(q)
  BY <1>10 DEF Poll, PassOver, PickActor, Judged, OpenBuffer, ReadBuffer, Push, TimeOut
<1> QED
  BY <1>2, <1>6, <1>7, <1>8, <1>9, <1>10 DEF PollerStep, Work, Answer

\* A rewrite keeps a line unless it lost it to another or replaces it.
LEMMA RewriteKeeps ==
  ASSUME ClockInv, NEW p \in Pollers, Rewrite(p), PollersFit, NEW r \in log, QueuedRow(r),
         r.a \notin torn', Waiting(r.e, r.a)
  PROVE  Waiting(r.e, r.a)' \/ Replaced(r)'
<1> DEFINE a == poll[p].a
           kept == {l \in poll[p].seen : PriceKey(l.e) # PriceKey(poll[p].e)}
<1>1. /\ a \in Actors /\ a \notin poll[p].todo /\ poll[p].e \in Events /\ poll[p].pr = prefs[a]
      /\ Passes(p) /\ PriceKey(poll[p].e) # None /\ prefs' = prefs /\ now \in Nat
      /\ r.at <= now /\ buf \in [Actors -> SUBSET Lines]
  BY DEF Rewrite, ClockInv, TypeOK, PollOK, PollersFit
<1>2. PICK l \in buf[r.a] : l.e = r.e /\ ShouldDeliver(l.e, l.sev, prefs[r.a])
  BY DEF Waiting
<1>3. buf' = [buf EXCEPT ![a] = kept \cup {Line(p)}]
      /\ torn' = (IF buf[a] = poll[p].seen THEN torn ELSE torn \cup {a})
  BY DEF Rewrite
<1> HIDE DEF kept
<1>4. CASE r.a # a
  <2>1. l \in buf'[r.a]
    BY <1>1, <1>2, <1>3, <1>4
  <2> QED
    BY <1>1, <1>2, <2>1 DEF Waiting
<1>5. CASE r.a = a
  <2>1. l \in poll[p].seen /\ buf'[a] = kept \cup {Line(p)}
    BY <1>1, <1>2, <1>3, <1>5
  <2>2. CASE l \in kept
    BY <1>1, <1>2, <1>5, <2>1, <2>2 DEF Waiting
  <2>3. CASE r.e = poll[p].e
    <3>1. Line(p).e = r.e /\ ShouldDeliver(Line(p).e, Line(p).sev, prefs[a])
      BY <1>1, <2>3 DEF Line, Passes
    <3> QED
      BY <1>1, <1>5, <2>1, <3>1 DEF Waiting
  <2>4. CASE l \notin kept /\ r.e # poll[p].e
    <3> DEFINE q == Row(poll[p].e, a, "digest", poll[p].st, Wanted(p))
    <3>1. q \in log' /\ q.a = a /\ q.ch = "digest" /\ q.e = poll[p].e /\ q.at = now
      BY DEF Rewrite, Log, Row
    <3> HIDE DEF q
    <3>2. PriceKey(r.e) = PriceKey(poll[p].e)
      BY <1>2, <2>1, <2>4 DEF kept
    <3> QED
      BY <1>1, <1>5, <2>4, <3>1, <3>2 DEF Replaced
  <2> QED
    BY <2>2, <2>3, <2>4
<1> QED
  BY <1>4, <1>5

\* A flush takes the lines of the buffer, unless they cannot be had.  None of them is of
\* an event that was held: that would be a second fate.
LEMMA FlushTakes ==
  ASSUME QueueInv, NEW a \in Actors, Flush(a), NEW r \in log, QueuedRow(r), r.a = a,
         Waiting(r.e, a)
  PROVE  Sending(r.e, a)' \/ Itemised(r.e, a)' \/ Waiting(r.e, a)' \/ Lost(r.e, a)'
<1> PICK drained \in SUBSET buf[a] : Drain(a, drained) /\ FlushLines(a, drained)
  BY DEF Flush
<1> DEFINE held == Held(a, sched.t - HeldWindow)
           stale == {e \in held : ~Fresh(e, sched.t) /\ EventOf[e].kind # "price"}
           lines == {l \in drained : l.e \notin held \ stale}
           all == {Own(e, EventOf[e].sev) : e \in held \ stale}
                    \cup {Own(l.e, l.sev) : l \in lines}
           items == {i \in all : ShouldDeliver(i.e, i.sev, prefs[a])}
           rows == {Row(e, a, "sink", "quiet_dropped", EventOf[e].sev) : e \in stale}
<1>1. Compose(a, prefs[a], "flush", items, {}, {}, rows)
  BY DEF FlushLines
<1>2. PICK l \in buf[a] : l.e = r.e /\ ShouldDeliver(l.e, l.sev, prefs[a])
  BY DEF Waiting
<1>3. r.e \notin held
  <2> SUFFICES ASSUME r.e \in held PROVE FALSE
    OBVIOUS
  <2>1. PICK h \in log : h.e = r.e /\ h.a = a /\ h.ch = "sink" /\ h.st = "quiet_held"
    BY DEF Held, HeldRows
  <2>2. r.e \in stored
    BY DEF Held
  <2>3. FateRow(r) /\ EventOf[r.e].kind \notin Disabled /\ a \in Resolve(r.e)
    BY DEF QueueInv, RowsMean, QueuedRow
  <2>4. Accounted(r.e, a)
    <3>1. a \in Actors
      OBVIOUS
    <3> QED
      BY <2>2, <2>3, <3>1 DEF QueueInv, FateInv, OneFate
  <2>5. h \in Fates(r.e, a) /\ r \in Fates(r.e, a)
    BY <2>1, <2>3 DEF Fates, FateRow
  <2>6. h = r
    BY <2>4, <2>5 DEF Accounted
  <2> QED
    BY <2>1, <2>6 DEF QueuedRow
<1>0. CASE l \notin drained
  <2>1. (l \in buf'[a] \/ <<l.e, a>> \in lost') /\ prefs' = prefs
    BY <1>0, DrainTakes DEF QueueInv, ClockInv, Flush
  <2> QED
    BY <1>2, <2>1 DEF Waiting, Lost
<1> SUFFICES ASSUME l \in drained PROVE Sending(r.e, a)' \/ Itemised(r.e, a)'
  BY <1>0
<1> HIDE DEF held
<1>4. l \in lines
  BY <1>2, <1>3
<1> HIDE DEF lines
<1> DEFINE i == Own(l.e, l.sev)
<1>5. i \in all /\ i.e = r.e /\ i.sev = l.sev
  BY <1>2, <1>4 DEF Own
<1>6. i \in items
  BY <1>2, <1>5
<1> HIDE DEF i, items, rows
<1>7. Sending(i.e, a)' \/ Itemised(i.e, a)'
  <2>1. TypeOK
    BY DEF QueueInv, ClockInv
  <2> QED
    BY <1>1, <1>6, <2>1, ComposeTakes
<1> QED
  BY <1>5, <1>7 DEF Sending, InHand, Itemised

\* A slot takes them likewise, and curates them by the same preferences.
LEMMA SlotTakes ==
  ASSUME TypeOK, NEW a \in Actors, OpenSlot(a), NEW e, Waiting(e, a)
  PROVE  Curating(e, a)' \/ Waiting(e, a)' \/ Lost(e, a)'
<1>1. PICK l \in buf[a] : l.e = e /\ ShouldDeliver(l.e, l.sev, prefs[a])
  BY DEF Waiting
<1> DEFINE new == {x[1] : x \in {x \in sched.due : x[2] = a}}
                   \ DeliveredSince(a, DayStart(sched.t))
<1>2. PICK drained \in SUBSET buf[a] :
        /\ Drain(a, drained)
        /\ sched' = [sched EXCEPT !.pc = "curate", !.todo = @ \ {a}, !.a = a,
                       !.pr = prefs[a],
                       !.mine = {Own(x.e, x.sev) : x \in drained}
                                  \cup {Own(c, Medium) : c \in new}]
  BY DEF OpenSlot
<1> HIDE DEF new
<1>0. CASE l \notin drained
  <2>1. (l \in buf'[a] \/ <<l.e, a>> \in lost') /\ prefs' = prefs
    BY <1>0, <1>2, DrainTakes DEF OpenSlot
  <2> QED
    BY <1>1, <2>1 DEF Waiting, Lost
<1> SUFFICES ASSUME l \in drained PROVE Curating(e, a)'
  BY <1>0
<1> DEFINE mine == {Own(x.e, x.sev) : x \in drained} \cup {Own(c, Medium) : c \in new}
<1>3. Own(l.e, l.sev) \in mine
  BY <1>1
<1> HIDE DEF mine
<1>4. sched'.pc = "curate" /\ sched'.a = a /\ sched'.pr = prefs[a] /\ sched'.mine = mine
  BY <1>2 DEF mine, TypeOK, SchedStates
<1> DEFINE i == Own(l.e, l.sev)
<1>5. i \in mine /\ i.e = e /\ i.sev = l.sev
  BY <1>1, <1>3 DEF Own
<1> HIDE DEF i
<1> QED
  BY <1>1, <1>4, <1>5 DEF Curating

\* What curation took is composed.
LEMMA CurateTakes ==
  ASSUME TypeOK, Curate, NEW e, NEW a, Curating(e, a)
  PROVE  Sending(e, a)' \/ Itemised(e, a)'
<1>1. PICK world, macro : Serve(sched.a, sched.pr, world, macro)
  BY DEF Curate
<1> DEFINE liked == {x \in world : ShouldDeliver(x, EventOf[x].sev, sched.pr)}
           items == {i \in sched.mine : ShouldDeliver(i.e, i.sev, sched.pr)}
                      \cup {Picked(x) : x \in {x \in liked : InFocus(x, sched.a)}}
           floor == {i \in items : \/ Floor(i.e, i.sev, sched.pr)
                                   \/ (i.world /\ i.e \in macro)}
           rows == {Row(x, sched.a, "global_digest_item", "filtered_focus", EventOf[x].sev) :
                      x \in {x \in liked : ~InFocus(x, sched.a)}}
<1>2. Compose(sched.a, sched.pr, "slot", items, floor, world, rows)
  BY <1>1 DEF Serve
<1>3. PICK i \in items : i.e = e
  BY DEF Curating
<1>4. sched.a = a /\ a \in Actors
  BY DEF Curating, TypeOK, SchedOK
<1> HIDE DEF items, floor, rows
<1>5. Sending(i.e, a)' \/ Itemised(i.e, a)'
  BY <1>2, <1>4, ComposeTakes
<1> QED
  BY <1>3, <1>5 DEF Sending, InHand, Itemised

\* A poller's step leaves a waiting line, or replaces it by a newer price.
LEMMA PollerKeeps ==
  ASSUME ClockInv, NEW p \in Pollers, PollerStep(p), PollersFit, NEW r \in log, QueuedRow(r),
         r.a \notin torn', Waiting(r.e, r.a)
  PROVE  Waiting(r.e, r.a)' \/ Replaced(r)'
<1>1. CASE Rewrite(p)
  BY <1>1, RewriteKeeps
<1>2. CASE AppendLine(p)
  <2>1. prefs' = prefs /\ buf \in [Actors -> SUBSET Lines] /\ poll[p].a \in Actors
    BY <1>2 DEF AppendLine, ClockInv, TypeOK, PollOK
  <2>2. PICK l \in buf[r.a] : l.e = r.e /\ ShouldDeliver(l.e, l.sev, prefs[r.a])
    BY DEF Waiting
  <2>3. buf' = buf \/ buf' = [buf EXCEPT ![poll[p].a] = @ \cup {Line(p)}]
    BY <1>2 DEF AppendLine
  <2>4. l \in buf'[r.a]
    <3>1. CASE buf' = buf
      BY <2>2, <3>1
    <3>2. CASE buf' = [buf EXCEPT ![poll[p].a] = @ \cup {Line(p)}]
      BY <2>1, <2>2, <3>2
    <3> QED
      BY <2>3, <3>1, <3>2
  <2> QED
    BY <2>1, <2>2, <2>4 DEF Waiting
<1>3. CASE UNCHANGED <<buf, prefs>>
  BY <1>3 DEF Waiting
<1>4. Rewrite(p) \/ AppendLine(p) \/ UNCHANGED <<buf, prefs>>
  BY DEF PollerStep, Work, Answer, Poll, PassOver, Insert, PickActor, Judged, OpenBuffer,
         ReadBuffer, Push,
         TimeOut, Filter, Hold, EnqueueFails, Pushed, PushFails
<1> QED
  BY <1>1, <1>2, <1>3, <1>4

\* The scheduler leaves it, or takes it for a digest.
LEMMA SchedulerTakes ==
  ASSUME QueueInv, SchedulerStep, NEW r \in log, QueuedRow(r), Waiting(r.e, r.a)
  PROVE  Kept(r)'
<1>1. CASE UNCHANGED <<buf, prefs>>
  BY <1>1 DEF Waiting, Kept
<1>2. ASSUME NEW a \in Actors, Flush(a) \/ OpenSlot(a) PROVE Kept(r)'
  <2>1. TypeOK /\ buf \in [Actors -> SUBSET Lines] /\ prefs' = prefs
    BY <1>2 DEF QueueInv, ClockInv, TypeOK, Flush, OpenSlot
  <2>2. CASE r.a = a
    <3>1. Flush(a) =>
            Sending(r.e, a)' \/ Itemised(r.e, a)' \/ Waiting(r.e, a)' \/ Lost(r.e, a)'
      BY <2>2, FlushTakes
    <3>2. OpenSlot(a) => Curating(r.e, a)' \/ Waiting(r.e, a)' \/ Lost(r.e, a)'
      BY <2>1, <2>2, SlotTakes
    <3> QED
      BY <1>2, <2>2, <3>1, <3>2
         DEF Kept, Sending, InHand, Itemised, Curating, Waiting, Lost
  <2>3. CASE r.a # a
    <3>1. r.a \in Actors
      BY <2>1, ResolveType DEF QueueInv, RowsMean, QueuedRow
    <3>2. buf'[r.a] = buf[r.a]
      BY <1>2, <2>1, <2>3, <3>1, DrainTakes DEF Flush, OpenSlot
    <3> QED
      BY <2>1, <3>2 DEF Waiting, Kept
  <2> QED
    BY <2>2, <2>3
<1>3. UNCHANGED <<buf, prefs>> \/ \E a \in Actors : Flush(a) \/ OpenSlot(a)
  BY DEF SchedulerStep, Tick, Curate, DigestSent, DigestFails, Skip, TooSoon, routerVars
<1> QED
  BY <1>1, <1>2, <1>3

\* A line that is lost stays lost.
LEMMA LostStays ==
  ASSUME TypeOK, [Next]_vars
  PROVE  lost \subseteq lost'
<1>1. ASSUME NEW p \in Pollers, PollerStep(p) PROVE lost \subseteq lost'
  BY <1>1 DEF PollerStep, Work, Answer, Poll, PassOver, Insert, PickActor, Judged,
     OpenBuffer, ReadBuffer, Push, TimeOut, Filter, Hold, AppendLine, Rewrite,
     EnqueueFails, Pushed, PushFails
<1>2. ASSUME NEW a \in Actors, Flush(a) \/ OpenSlot(a) PROVE lost \subseteq lost'
  BY <1>2, DrainTakes DEF Flush, OpenSlot
<1>3. CASE Tick \/ Curate \/ DigestSent \/ DigestFails
           \/ \E a \in Actors : Skip(a) \/ TooSoon(a)
  BY <1>3 DEF Tick, Curate, DigestSent, DigestFails, Skip, TooSoon, routerVars
<1>4. CASE AdvanceTime \/ Crash \/ (\E a \in Actors : EditPrefs(a)) \/ UNCHANGED vars
  BY <1>4 DEF AdvanceTime, Crash, EditPrefs, vars, routerVars
<1> QED
  BY <1>1, <1>2, <1>3, <1>4 DEF Next, RouterStep, SchedulerStep

LEMMA KeptNext ==
  ASSUME QueueInv, PollersFit, [Next]_vars, ~Crash, prefs' = prefs,
         NEW r \in log, QueuedRow(r), Kept(r), r.a \notin torn'
  PROVE  Kept(r)'
<1>1. TypeOK /\ r.at \in Nat /\ r.at <= now
  BY DEF QueueInv, ClockInv, TypeOK, Rows
<1>2. PICK more : log' = log \cup more
  BY <1>1, StepLogs DEF LogGrows
<1>3. CASE Itemised(r.e, r.a) \/ Replaced(r) \/ BatchFailed(r.a, r.at)
  BY <1>2, <1>3 DEF Kept, Itemised, Replaced, BatchFailed
<1>7. CASE Lost(r.e, r.a)
  BY <1>1, <1>7, LostStays DEF Kept, Lost
<1>4. CASE Sending(r.e, r.a)
  <2>1. Sending(r.e, r.a)' \/ Itemised(r.e, r.a)' \/ BatchFailed(r.a, r.at)'
    BY <1>1, <1>4, SendingEnds DEF QueueInv
  <2> QED
    BY <2>1 DEF Kept
<1>5. CASE Curating(r.e, r.a)
  <2>1. CASE Curate
    <3>1. Sending(r.e, r.a)' \/ Itemised(r.e, r.a)'
      BY <1>1, <1>5, <2>1, CurateTakes
    <3> QED
      BY <3>1 DEF Kept
  <2>2. CASE ~Curate
    <3>1. sched.pc = "curate"
      BY <1>5 DEF Curating
    <3>2. ~SchedulerStep
      BY <2>2, <3>1 DEF SchedulerStep, Tick, DigestSent, DigestFails, Skip, TooSoon, Flush,
                        OpenSlot, Serving
    <3>3. sched' = sched
      BY <3>2, RouterKeeps DEF Next, EditPrefs, vars, digestVars
    <3> QED
      BY <1>5, <3>3 DEF Curating, Kept
  <2> QED
    BY <2>1, <2>2
<1>6. CASE Waiting(r.e, r.a)
  <2>1. CASE SchedulerStep
    BY <1>6, <2>1, SchedulerTakes
  <2>2. CASE \E p \in Pollers : PollerStep(p)
    <3>1. Waiting(r.e, r.a)' \/ Replaced(r)'
      BY <1>6, <2>2, PollerKeeps DEF QueueInv
    <3> QED
      BY <3>1 DEF Kept
  <2>3. CASE AdvanceTime \/ (\E a \in Actors : EditPrefs(a)) \/ UNCHANGED vars
    <3>1. buf' = buf
      BY <2>3 DEF AdvanceTime, EditPrefs, vars, routerVars
    <3> QED
      BY <1>6, <3>1 DEF Waiting, Kept
  <2> QED
    BY <2>1, <2>2, <2>3 DEF Next, RouterStep
<1> QED
  BY <1>3, <1>4, <1>5, <1>6, <1>7 DEF Kept

LEMMA QueueNext ==
  ASSUME QueueInv, [Next]_vars
  PROVE  QueueInv'
<1>1. TypeOK /\ edits \in Nat /\ crashes \in Nat
  BY DEF QueueInv, ClockInv
<1>2. FateInv' /\ ClockInv' /\ PairsMean' /\ RowsMean'
  BY <1>1, FateNext, ClockNext, MeanNext DEF QueueInv
<1>3. ASSUME edits' = 0 PROVE edits = 0 /\ (prefs' = prefs)
  <2>1. ~\E a \in Actors : EditPrefs(a)
    BY <1>1, <1>3 DEF EditPrefs
  <2> QED
    BY <1>3, <2>1, RouterKeeps, SchedulerKeeps DEF Next, Crash, vars, routerVars, digestVars
<1>4. edits' = 0 => PollersFit'
  BY <1>1, <1>3, FitNext DEF QueueInv
<1>5. ASSUME edits' = 0, crashes' = 0 PROVE QueuesKept'
  <2>1. ~Crash
    BY <1>1, <1>5 DEF Crash
  <2>2. crashes = 0
    BY <1>5, <2>1, RouterKeeps, SchedulerKeeps DEF Next, EditPrefs, vars, digestVars
  <2>3. edits = 0 /\ prefs' = prefs /\ PollersFit /\ QueuesKept
    BY <1>3, <1>5, <2>2 DEF QueueInv
  <2>4. torn \subseteq torn'
    <3>1. CASE \E p \in Pollers : PollerStep(p)
      BY <3>1 DEF PollerStep, Work, Answer, Poll, PassOver, Insert, PickActor, Judged,
         OpenBuffer, ReadBuffer, Push, TimeOut, Filter, Hold, AppendLine, Rewrite, EnqueueFails, Pushed, PushFails
    <3> QED
      BY <2>1, <3>1, SchedulerKeeps DEF Next, RouterStep, AdvanceTime, EditPrefs, vars,
                                        routerVars
  <2> SUFFICES ASSUME NEW r \in log', QueuedRow(r), r.a \notin torn' PROVE Kept(r)'
    BY DEF QueuesKept, QueuedRow
  <2>5. CASE r \in log
    <3>1. Kept(r)
      BY <2>3, <2>4, <2>5 DEF QueuesKept
    <3> QED
      BY <2>1, <2>3, <2>5, <3>1, KeptNext
  <2>6. CASE r \notin log
    BY <1>1, <2>3, <2>6, NewQueued DEF Kept
  <2> QED
    BY <2>5, <2>6
<1> QED
  BY <1>2, <1>4, <1>5 DEF QueueInv

LEMMA QueueInit ==
  ASSUME DigestInit
  PROVE  QueueInv
<1>1. PairsMean /\ RowsMean /\ PollersFit /\ QueuesKept
  <2>1. log = {} /\ \A p \in Pollers : poll[p] = Idle
    BY DEF DigestInit, Init
  <2>2. \A p \in Pollers : \A e, a : <<e, a>> \notin InProgress(p)
    BY <2>1, IdleType, InProgressIs
  <2> QED
    BY <2>1, <2>2, IdleType DEF PairsMean, RowsMean, PollersFit, QueuesKept
<1> QED
  BY <1>1, FateInit, ClockInit DEF QueueInv

\* What the log says was queued is in the buffer, in the scheduler's hands, or delivered
\* or omitted with a row; only a newer price, a failed batch, a torn rewrite, a restart,
\* an edit of the preferences or a line that no drain can read loses it (buffer.rs,
\* scheduler.rs).  A line cannot be read if it was written to a file a drain or a rewrite
\* had already taken away, or ran into another writer's, or if the drain's read failed.
THEOREM QueuedIsKeptHolds == Spec => []QueuedIsKept
<1>1. QueueInv => QueuedIsKept
  <2> SUFFICES ASSUME QueueInv, NEW r \in log, QueuedRow(r), crashes = 0, edits = 0,
                      r.a \notin torn, <<r.e, r.a>> \notin lost
               PROVE  \/ \E l \in buf[r.a] : l.e = r.e
                      \/ InHand(r.e, r.a) \/ Itemised(r.e, r.a) \/ Replaced(r)
                      \/ BatchFailed(r.a, r.at)
    BY DEF QueuedIsKept, QueuedRow, Itemised, Replaced
  <2>1. Kept(r)
    BY DEF QueueInv, QueuesKept
  <2> QED
    BY <2>1 DEF Kept, Waiting, Curating, Sending, InHand, Lost
<1> QED
  BY <1>1, QueueInit, QueueNext, PTL DEF Spec

-----------------------------------------------------------------------------
(* How often an event reaches a user.  An event has one way to a user: a    *)
(* push, a line that was queued, a flush of what was held, or a countdown   *)
(* of the day; a way once used leads nowhere a second time.                 *)

\* A countdown; the scheduler makes it up for one day.
Announces(e) == EventOf[e].teaser # None

\* The digest at hand takes e out of a's own items.
Taken(e, a) ==
  /\ sched.pc \in {"curate", "send"} /\ sched.a = a
  /\ \E i \in sched.mine : i.e = e /\ ~i.world
Lined(e, a) == \E l \in buf[a] : l.e = e

\* The ways.  What a flush took was held long before the user's next flush.
QueuedFor(e, a) == \E r \in log : QueuedRow(r) /\ r.e = e /\ r.a = a
Flushed(e, a) ==
  \E r \in log, t \in Nat :
    /\ r.e = e /\ r.a = a /\ r.ch = "sink" /\ r.st = "quiet_held"
    /\ FlushDue(prefs[a], t) /\ t <= lastTick /\ (t = sched.t => a \notin sched.todo)
    /\ r.at < t + DayLen - HeldWindow
PushTried(e, a) ==
  \/ <<e, a>> \in cut
  \/ \E r \in log : r.e = e /\ r.a = a /\ r.ch = "sink" /\ r.st \in {"sent", "dryrun", "failed"}
Announced(e, a) ==
  /\ Announces(e)
  /\ \E r \in log : r.e = e /\ r.a = a /\ Delivered(r) /\ r.at >= EventOf[e].day * DayLen

OneWay(e, a) ==
  /\ got[<<e, a>>] \in {0, 1}
  /\ Lined(e, a) => QueuedFor(e, a) /\ ~Taken(e, a) /\ got[<<e, a>>] = 0
  /\ Taken(e, a) => /\ got[<<e, a>>] = 0
                    /\ \/ QueuedFor(e, a) \/ Flushed(e, a)
                       \/ Announces(e) /\ EventOf[e].day = Day(sched.t)
  /\ got[<<e, a>>] = 1 => QueuedFor(e, a) \/ Flushed(e, a) \/ PushTried(e, a) \/ Announced(e, a)

\* No poller has a countdown, and none is stored.
FeedsReal ==
  /\ \A p \in Pollers : \A e \in Events : Carries(p, e) => ~Announces(e)
  /\ \A e \in stored : ~Announces(e)

\* The tick under way is the last one, and what it found due is of its day.
TickInv ==
  /\ lastTick \in Nat \cup {-1}
  /\ sched.pc # "idle" => sched.t = lastTick
  /\ sched.pc = "idle" => sched.todo = {}
  /\ \A x \in sched.due : Announces(x[1]) /\ EventOf[x[1]].day = Day(sched.t)

WaysInv ==
  /\ QueueInv /\ FeedsReal /\ TickInv
  /\ edits = 0 /\ crashes = 0 =>
       \A e \in Events, a \in Actors : a \notin torn \cup late => OneWay(e, a)

LEMMA FeedsRealNext ==
  ASSUME TypeOK, FeedsReal, [Next]_vars
  PROVE  FeedsReal'
<1>1. \A p \in Pollers : \A e \in Events : Carries(p, e)' => ~Announces(e)
  BY NothingNewCarried DEF FeedsReal
<1>2. ASSUME NEW e \in stored' PROVE ~Announces(e)
  <2>1. CASE \E p \in Pollers : Insert(p)
    <3>1. PICK p \in Pollers : Insert(p)
      BY <2>1
    <3>2. /\ poll[p].batch \in Seq(Events) /\ poll[p].batch # <<>>
          /\ stored' = stored \cup {Head(poll[p].batch)}
      BY <3>1 DEF Insert, TypeOK, PollStates, PollOK
    <3>3. Head(poll[p].batch) = poll[p].batch[1] /\ 1 \in DOMAIN poll[p].batch
          /\ poll[p].batch[1] \in Events
      BY <3>2
    <3>4. Carries(p, Head(poll[p].batch))
      BY <3>3 DEF Carries
    <3> QED
      BY <3>2, <3>3, <3>4 DEF FeedsReal
  <2>2. CASE ~\E p \in Pollers : Insert(p)
    <3>1. ASSUME NEW p \in Pollers, PollerStep(p) PROVE stored' = stored
      BY <2>2, <3>1 DEF PollerStep, Work, Answer, Poll, PassOver, PickActor, Judged,
                        OpenBuffer, ReadBuffer,
         Push, TimeOut, Filter, Hold, AppendLine, Rewrite, EnqueueFails, Pushed, PushFails
    <3>2. stored' = stored
      BY <3>1, SchedulerKeeps DEF Next, RouterStep, AdvanceTime, Crash, EditPrefs, vars,
                                  routerVars
    <3> QED
      BY <3>2 DEF FeedsReal
  <2> QED
    BY <2>1, <2>2
<1> QED
  BY <1>1, <1>2 DEF FeedsReal, Announces

LEMMA FeedsRealInit ==
  ASSUME DigestInit
  PROVE  FeedsReal
<1>1. PICK s \in Setups : feed = s.feed
  BY DEF DigestInit, Init
<1>2. stored = {} /\ \A p \in Pollers : poll[p].e = None /\ poll[p].batch = <<>>
  BY DEF DigestInit, Init, Idle
<1>3. \A j \in DOMAIN <<>> : FALSE
  OBVIOUS
<1>4. ASSUME NEW p \in Pollers, NEW e \in Events, Carries(p, e) PROVE ~Announces(e)
  <2>1. e # None
    BY RouterAssumption
  <2>2. PICK i \in DOMAIN feed[p] : \E j \in DOMAIN feed[p][i] : e = feed[p][i][j]
    BY <1>2, <1>3, <1>4, <2>1 DEF Carries
  <2> QED
    BY <1>1, <2>2, DigestAssumption DEF Announces
<1> QED
  BY <1>2, <1>4 DEF FeedsReal

\* A step of the scheduler starts a tick, or goes on with the one under way.
LEMMA ComposeTodo ==
  ASSUME TypeOK, NEW a \in Actors, NEW pr, NEW what, NEW items, NEW floor, NEW world, NEW rows,
         Compose(a, pr, what, items, floor, world, rows)
  PROVE  \/ sched' = Leave(sched.todo \ {a})
         \/ /\ sched'.pc = "send" /\ sched'.a = a /\ sched'.t = sched.t /\ sched'.due = sched.due
            /\ sched'.todo = sched.todo \ {a} /\ sched'.mine \subseteq items
<1>1. PICK omit \in SUBSET items :
        IF items = omit THEN sched' = Leave(sched.todo \ {a})
        ELSE \E cutoff \in SUBSET (items \ omit) :
               sched' = [sched EXCEPT
                     !.pc = "send", !.todo = @ \ {a}, !.a = a, !.pr = None,
                     !.what = what, !.mine = items \ (omit \cup cutoff),
                     !.world = world, !.omit = omit \cup cutoff]
  BY DEF Compose
<1>2. CASE items # omit
  <2>1. PICK cutoff :
          sched' = [sched EXCEPT
                     !.pc = "send", !.todo = @ \ {a}, !.a = a, !.pr = None,
                     !.what = what, !.mine = items \ (omit \cup cutoff),
                     !.world = world, !.omit = omit \cup cutoff]
    BY <1>1, <1>2
  <2>2. /\ sched'.pc = "send" /\ sched'.a = a /\ sched'.t = sched.t /\ sched'.due = sched.due
        /\ sched'.todo = sched.todo \ {a} /\ sched'.mine = items \ (omit \cup cutoff)
    BY <2>1 DEF TypeOK, SchedStates
  <2> QED
    BY <2>2
<1> QED
  BY <1>1, <1>2

\* The rest of a tick.
GoesOn(x) ==
  \/ x = Resting
  \/ /\ x.pc # "idle" /\ x.t = sched.t /\ x.due = sched.due /\ x.todo \subseteq sched.todo

LEMMA LeaveGoesOn ==
  ASSUME NEW todo \in SUBSET sched.todo
  PROVE  GoesOn(Leave(todo)) /\ Leave(todo).pc \in {"idle", "visit"}
<1> DEFINE x == [Resting EXCEPT !.pc = "visit", !.t = sched.t, !.due = sched.due, !.todo = todo]
<1>1. x.pc = "visit" /\ x.t = sched.t /\ x.due = sched.due /\ x.todo = todo
  BY DEF Resting
<1>2. Leave(todo) = Resting \/ Leave(todo) = x
  BY DEF Leave
<1> HIDE DEF x
<1> QED
  BY <1>1, <1>2, RestingType DEF GoesOn

LEMMA TickGoesOn ==
  ASSUME TypeOK, SchedulerStep, ~Tick
  PROVE  GoesOn(sched') /\ lastTick' = lastTick /\ sched.pc # "idle"
<1>0. lastTick' = lastTick /\ sched.pc # "idle" /\ sched \in SchedStates
  BY DEF SchedulerStep, Curate, DigestSent, DigestFails, Skip, TooSoon, Flush, OpenSlot,
         Serving,
         TypeOK
<1>1. ASSUME NEW a \in Actors, NEW pr, NEW what, NEW items, NEW floor, NEW world, NEW rows,
             Compose(a, pr, what, items, floor, world, rows)
      PROVE  GoesOn(sched')
  <2>1. CASE sched' = Leave(sched.todo \ {a})
    BY <2>1, LeaveGoesOn
  <2>2. CASE /\ sched'.pc = "send" /\ sched'.t = sched.t /\ sched'.due = sched.due
             /\ sched'.todo = sched.todo \ {a}
    BY <2>2 DEF GoesOn
  <2> QED
    BY <1>1, <2>1, <2>2, ComposeTodo
<1>2. CASE Curate
  <2>1. sched.a \in Actors
    BY <1>2 DEF Curate, TypeOK, SchedOK
  <2> QED
    BY <1>0, <1>1, <1>2, <2>1, CurateComposes
<1>3. CASE DigestSent \/ DigestFails
  BY <1>0, <1>3, LeaveGoesOn DEF DigestSent, DigestFails
<1>4. ASSUME NEW a \in Actors, Skip(a) \/ TooSoon(a) PROVE GoesOn(sched')
  BY <1>4, LeaveGoesOn DEF Skip, TooSoon
<1>5. ASSUME NEW a \in Actors, Flush(a) PROVE GoesOn(sched')
  BY <1>1, <1>5, FlushComposes
<1>6. ASSUME NEW a \in Actors, OpenSlot(a) PROVE GoesOn(sched')
  <2>1. /\ sched'.pc = "curate" /\ sched'.t = sched.t /\ sched'.due = sched.due
        /\ sched'.todo = sched.todo \ {a}
    BY <1>0, <1>6 DEF OpenSlot, SchedStates
  <2> QED
    BY <2>1 DEF GoesOn
<1> QED
  BY <1>0, <1>2, <1>3, <1>4, <1>5, <1>6 DEF SchedulerStep

LEMMA TickNext ==
  ASSUME TypeOK, TickInv, [Next]_vars
  PROVE  TickInv'
<1>1. CASE Tick
  <2> DEFINE x == [Resting EXCEPT !.pc = "visit", !.t = now, !.due = Countdowns(now),
                                  !.todo = conf.users]
  <2>1. x.pc = "visit" /\ x.t = now /\ x.due = Countdowns(now)
    BY DEF Resting
  <2>2. sched' = x /\ lastTick' = now /\ now \in Nat
    BY <1>1 DEF Tick, TypeOK
  <2> HIDE DEF x
  <2>3. \A y \in Countdowns(now) : Announces(y[1]) /\ EventOf[y[1]].day = Day(now)
    BY RouterAssumption DEF Countdowns, Announces, TypeOK
  <2> QED
    BY <2>1, <2>2, <2>3 DEF TickInv, Announces
<1>2. CASE SchedulerStep /\ ~Tick
  <2>1. GoesOn(sched') /\ lastTick' = lastTick /\ sched.pc # "idle"
    BY <1>2, TickGoesOn
  <2>2. Resting.pc = "idle" /\ Resting.todo = {} /\ Resting.due = {}
    BY DEF Resting
  <2> QED
    BY <2>1, <2>2 DEF GoesOn, TickInv, Announces
<1>3. CASE Crash
  <2>1. Resting.pc = "idle" /\ Resting.todo = {} /\ Resting.due = {}
    BY DEF Resting
  <2> QED
    BY <1>3, <2>1 DEF Crash, TickInv
<1>4. CASE UNCHANGED <<sched, lastTick>>
  BY <1>4 DEF TickInv, Announces
<1> QED
  BY <1>1, <1>2, <1>3, <1>4 DEF Next, RouterStep, EditPrefs, vars, digestVars

\* A way once taken stays: the log and the cut pairs only grow, and a flush lies in
\* the past of every later tick.
LEMMA CutGrows ==
  ASSUME TypeOK, [Next]_vars
  PROVE  cut \subseteq cut'
<1>1. ASSUME NEW p \in Pollers, PollerStep(p) PROVE cut \subseteq cut'
  BY <1>1 DEF PollerStep, Work, Answer, Poll, PassOver, Insert, PickActor, Judged, OpenBuffer,
              ReadBuffer,
     Push, TimeOut, Filter, Hold, AppendLine, Rewrite, EnqueueFails, Pushed, PushFails
<1>2. ASSUME SchedulerStep PROVE cut' = cut
  BY <1>2, SchedulerRows
<1> QED
  BY <1>1, <1>2 DEF Next, RouterStep, AdvanceTime, Crash, EditPrefs, vars, routerVars

LEMMA FlushStaysPast ==
  ASSUME TypeOK, TickInv, [Next]_vars, ~Crash, NEW a, NEW t \in Nat, t <= lastTick,
         t = sched.t => a \notin sched.todo
  PROVE  t <= lastTick' /\ (t = sched'.t => a \notin sched'.todo)
<1>1. CASE Tick
  <2> DEFINE x == [Resting EXCEPT !.pc = "visit", !.t = now, !.due = Countdowns(now),
                                  !.todo = conf.users]
  <2>1. x.t = now
    BY DEF Resting
  <2>2. sched' = x /\ lastTick' = now /\ now \in Nat /\ lastTick < now
    BY <1>1 DEF Tick, TypeOK
  <2> HIDE DEF x
  <2> QED
    BY <2>1, <2>2 DEF TickInv
<1>2. CASE SchedulerStep /\ ~Tick
  <2>1. GoesOn(sched') /\ lastTick' = lastTick
    BY <1>2, TickGoesOn
  <2>2. Resting.todo = {}
    BY DEF Resting
  <2> QED
    BY <2>1, <2>2 DEF GoesOn
<1>3. CASE UNCHANGED <<sched, lastTick>>
  BY <1>3
<1> QED
  BY <1>1, <1>2, <1>3 DEF Next, RouterStep, EditPrefs, vars, digestVars

LEMMA WaysStay ==
  ASSUME TypeOK, TickInv, [Next]_vars, ~Crash, prefs' = prefs, NEW e, NEW a
  PROVE  /\ QueuedFor(e, a) => QueuedFor(e, a)'
         /\ Flushed(e, a) => Flushed(e, a)'
         /\ PushTried(e, a) => PushTried(e, a)'
         /\ Announced(e, a) => Announced(e, a)'
<1>1. log \subseteq log' /\ cut \subseteq cut'
  BY StepLogs, CutGrows DEF LogGrows
<1>2. ASSUME Flushed(e, a) PROVE Flushed(e, a)'
  <2>1. PICK r \in log, t \in Nat :
          /\ r.e = e /\ r.a = a /\ r.ch = "sink" /\ r.st = "quiet_held"
          /\ FlushDue(prefs[a], t) /\ t <= lastTick /\ (t = sched.t => a \notin sched.todo)
          /\ r.at < t + DayLen - HeldWindow
    BY <1>2 DEF Flushed
  <2>2. t <= lastTick' /\ (t = sched'.t => a \notin sched'.todo)
    BY <2>1, FlushStaysPast
  <2> QED
    BY <1>1, <2>1, <2>2 DEF Flushed
<1> QED
  BY <1>1, <1>2 DEF QueuedFor, PushTried, Announced, QueuedRow, Delivered, Announces

\* A row that ended a dispatch is the only one of its pair.
LEMMA FateAlone ==
  ASSUME QueueInv, NEW r \in log, r.e \in Events, FateRow(r)
  PROVE  /\ r.e \in stored /\ <<r.e, r.a>> \notin cut
         /\ \A q \in log : FateRow(q) /\ q.e = r.e /\ q.a = r.a => q = r
         /\ \A p \in Pollers : <<r.e, r.a>> \notin InProgress(p)
<1>1. r.e \in stored
  BY DigestAssumption DEF QueueInv, FateInv, RowsKnown
<1>2. EventOf[r.e].kind \notin Disabled /\ r.a \in Resolve(r.e) /\ r.a \in Actors
  BY ResolveType DEF QueueInv, FateInv, RowsMean
<1>3. Accounted(r.e, r.a)
  BY <1>1, <1>2 DEF QueueInv, FateInv, OneFate
<1>4. r \in Fates(r.e, r.a) /\ \A q \in log : FateRow(q) /\ q.e = r.e /\ q.a = r.a => q \in Fates(r.e, r.a)
  BY DEF Fates, FateRow
<1> QED
  BY <1>1, <1>3, <1>4 DEF Accounted

\* A row of the buffer ended a dispatch; what took one of the ways is stored.
LEMMA QueuedIsFate ==
  ASSUME QueueInv, NEW r \in log, QueuedRow(r)
  PROVE  FateRow(r) /\ r.e \in Events
BY DEF QueueInv, RowsMean, QueuedRow

LEMMA WaysKnown ==
  ASSUME QueueInv, FeedsReal, NEW e \in Events, NEW a,
         QueuedFor(e, a) \/ Flushed(e, a) \/ PushTried(e, a)
  PROVE  e \in stored /\ ~Announces(e)
<1>1. ASSUME NEW r \in log, r.e = e, FateRow(r) PROVE e \in stored
  BY <1>1, FateAlone
<1>2. e \in stored
  <2>1. CASE QueuedFor(e, a)
    BY <1>1, <2>1, QueuedIsFate DEF QueuedFor
  <2>2. CASE Flushed(e, a)
    BY <1>1, <2>2 DEF Flushed, FateRow
  <2>3. CASE PushTried(e, a)
    <3>1. cut \subseteq stored \X Actors
      BY DEF QueueInv, FateInv, TypeOK
    <3> QED
      BY <1>1, <2>3, <3>1 DEF PushTried, FateRow
  <2> QED
    BY <2>1, <2>2, <2>3
<1> QED
  BY <1>2 DEF FeedsReal

\* An event that a poller still dispatches to a has not reached them in any way.
LEMMA Untouched ==
  ASSUME QueueInv, FeedsReal, NEW p \in Pollers, NEW e \in Events, NEW a \in Actors,
         <<e, a>> \in InProgress(p), OneWay(e, a)
  PROVE  got[<<e, a>>] = 0 /\ ~Lined(e, a) /\ ~Taken(e, a)
<1>1. e \in stored
  BY InProgressType DEF QueueInv, FateInv
<1>2. ~Announces(e)
  BY <1>1 DEF FeedsReal
<1>3. Accounted(e, a)
  BY <1>1 DEF QueueInv, FateInv, OneFate, PairsMean
<1>4. Fates(e, a) = {} /\ <<e, a>> \notin cut
  BY <1>3 DEF Accounted
<1>5. ~\E r \in log : FateRow(r) /\ r.e = e /\ r.a = a
  BY <1>4 DEF Fates, FateRow
<1>6. ~QueuedFor(e, a)
  BY <1>5, QueuedIsFate DEF QueuedFor
<1>7. ~Flushed(e, a) /\ ~PushTried(e, a)
  BY <1>4, <1>5 DEF Flushed, PushTried, FateRow
<1> QED
  BY <1>2, <1>6, <1>7 DEF OneWay, Announced

\* Nothing happens to e and a, or the digest that took e lets go of it.
LEMMA SameWay ==
  ASSUME TypeOK, TickInv, [Next]_vars, ~Crash, prefs' = prefs, NEW e, NEW a, OneWay(e, a),
         got'[<<e, a>>] = got[<<e, a>>], Lined(e, a)' => Lined(e, a),
         Taken(e, a)' => Taken(e, a) /\ sched'.t = sched.t
  PROVE  OneWay(e, a)'
<1>1. /\ QueuedFor(e, a) => QueuedFor(e, a)'
      /\ Flushed(e, a) => Flushed(e, a)'
      /\ PushTried(e, a) => PushTried(e, a)'
      /\ Announced(e, a) => Announced(e, a)'
  BY WaysStay
<1>2. ASSUME Taken(e, a)', Announces(e), EventOf[e].day = Day(sched.t)
      PROVE  Announces(e)' /\ (EventOf[e].day = Day(sched.t))'
  BY <1>2 DEF Announces
<1> QED
  BY <1>1, <1>2 DEF OneWay

\* A poller queues or pushes what nothing took before.
LEMMA QueueWays ==
  ASSUME QueueInv, FeedsReal, TickInv, [Next]_vars, UNCHANGED digestVars,
         NEW p \in Pollers, AppendLine(p) \/ Rewrite(p),
         NEW e \in Events, NEW a \in Actors, a \notin torn', OneWay(e, a)
  PROVE  OneWay(e, a)'
<1> DEFINE f == poll[p].e
           b == poll[p].a
<1>0. /\ UNCHANGED <<got, sched, prefs, lastTick, crashes>> /\ TypeOK /\ ~Crash
      /\ f \in stored /\ b \in Actors /\ f \in Events
  <2>1. f \in stored /\ b \in Actors
    BY DEF QueueInv, FateInv, AppendLine, Rewrite, TypeOK, PollOK
  <2>2. ~Crash
    BY DEF Crash, digestVars, QueueInv, ClockInv
  <2> QED
    BY <2>1, <2>2 DEF AppendLine, Rewrite, digestVars, QueueInv, FateInv, TypeOK
<1>1. \E st, s : log' = log \cup {Row(f, b, "digest", st, s)} /\ st # "failed"
  <2>1. poll[p].st # "failed"
    BY DEF AppendLine, Rewrite, QueueInv, FateInv, TypeOK, PollOK, QueueStatuses
  <2> QED
    BY <2>1 DEF AppendLine, Rewrite, Log
<1>2. ASSUME Lined(e, a)', ~Lined(e, a) PROVE e = f /\ a = b
  <2>1. PICK l \in buf'[a] : l.e = e
    BY <1>2 DEF Lined
  <2>2. l \notin buf[a]
    BY <1>2, <2>1 DEF Lined
  <2>3. CASE AppendLine(p)
    <3>1. /\ (buf' = buf \/ buf' = [buf EXCEPT ![b] = @ \cup {Line(p)}])
          /\ buf \in [Actors -> SUBSET Lines]
      BY <2>3 DEF AppendLine, QueueInv, FateInv, TypeOK
    <3>2. a = b /\ l = Line(p)
      BY <1>0, <2>1, <2>2, <3>1
    <3> QED
      BY <2>1, <3>2 DEF Line
  <2>4. CASE Rewrite(p)
    <3> DEFINE kept == {m \in poll[p].seen : PriceKey(m.e) # PriceKey(poll[p].e)}
    <3>1. /\ buf' = [buf EXCEPT ![b] = kept \cup {Line(p)}] /\ buf \in [Actors -> SUBSET Lines]
          /\ torn' = IF buf[b] = poll[p].seen THEN torn ELSE torn \cup {b}
      BY <2>4 DEF Rewrite, QueueInv, FateInv, TypeOK
    <3>2. a = b
      BY <1>0, <2>1, <2>2, <3>1
    <3>3. l \in kept \cup {Line(p)} /\ buf[b] = poll[p].seen
      BY <1>0, <2>1, <3>1, <3>2
    <3>4. l = Line(p)
      BY <2>2, <3>2, <3>3
    <3> QED
      BY <2>1, <3>2, <3>4 DEF Line
  <2> QED
    BY <2>3, <2>4
<1>3. CASE e = f /\ a = b
  <2>1. <<e, a>> \in InProgress(p)
    BY <1>0, <1>3, InProgressIs, RouterAssumption
  <2>2. got[<<e, a>>] = 0 /\ ~Lined(e, a) /\ ~Taken(e, a)
    BY <2>1, Untouched
  <2>3. QueuedFor(e, a)'
    <3>1. PICK st, s : log' = log \cup {Row(f, b, "digest", st, s)} /\ st # "failed"
      BY <1>1
    <3>2. /\ Row(f, b, "digest", st, s).ch = "digest" /\ Row(f, b, "digest", st, s).e = f
          /\ Row(f, b, "digest", st, s).a = b /\ Row(f, b, "digest", st, s).st = st
      BY DEF Row
    <3> QED
      BY <1>3, <3>1, <3>2 DEF QueuedFor, QueuedRow
  <2>4. ~Taken(e, a)' /\ got'[<<e, a>>] = 0
    BY <1>0, <2>2 DEF Taken
  <2> QED
    BY <2>3, <2>4 DEF OneWay
<1>4. CASE ~(e = f /\ a = b)
  BY <1>0, <1>2, <1>4, SameWay DEF Taken
<1> QED
  BY <1>3, <1>4

LEMMA PushWays ==
  ASSUME QueueInv, FeedsReal, TickInv, [Next]_vars, UNCHANGED digestVars,
         NEW p \in Pollers, Pushed(p) \/ TimeOut(p),
         NEW e \in Events, NEW a \in Actors, OneWay(e, a)
  PROVE  OneWay(e, a)'
<1> DEFINE f == poll[p].e
           b == poll[p].a
<1>0. UNCHANGED <<buf, sched, prefs, lastTick, crashes>> /\ TypeOK /\ ~Crash
  <2>1. ~Crash
    BY DEF Crash, digestVars, QueueInv, ClockInv
  <2> QED
    BY <2>1 DEF Pushed, TimeOut, digestVars, QueueInv, FateInv
<1>1. CASE got'[<<e, a>>] = got[<<e, a>>]
  BY <1>0, <1>1, SameWay DEF Taken, Lined
<1>2. CASE got'[<<e, a>>] # got[<<e, a>>]
  <2>1. poll[p].pc = "send" /\ got' = Arrives(f, b)
    BY <1>2 DEF Pushed, TimeOut
  <2>2. f \in Events /\ b \in Actors
    BY <2>1 DEF QueueInv, FateInv, TypeOK, PollOK
  <2>3. got \in [Events \X Actors -> 0..2]
    BY DEF QueueInv, FateInv, TypeOK
  <2>4. e = f /\ a = b
    BY <1>2, <2>1, <2>2, <2>3 DEF Arrives
  <2>5. <<e, a>> \in InProgress(p)
    BY <2>2, <2>4, InProgressIs, RouterAssumption
  <2>6. got[<<e, a>>] = 0 /\ ~Lined(e, a) /\ ~Taken(e, a)
    BY <2>5, Untouched
  <2>7. got'[<<e, a>>] = 1
    BY <2>1, <2>3, <2>4, <2>6 DEF Arrives
  <2>8. PushTried(e, a)'
    <3>1. CASE TimeOut(p)
      BY <2>5, <3>1 DEF TimeOut, PushTried
    <3>2. CASE Pushed(p)
      <4>1. log' = log \cup {Row(f, b, "sink", Acknowledged, High)}
        BY <3>2 DEF Pushed, Log
      <4>2. /\ Row(f, b, "sink", Acknowledged, High).ch = "sink"
            /\ Row(f, b, "sink", Acknowledged, High).e = f
            /\ Row(f, b, "sink", Acknowledged, High).a = b
            /\ Row(f, b, "sink", Acknowledged, High).st \in {"sent", "dryrun"}
        BY DEF Row, Acknowledged
      <4> QED
        BY <2>4, <4>1, <4>2 DEF PushTried
    <3> QED
      BY <3>1, <3>2
  <2>9. ~Taken(e, a)' /\ ~Lined(e, a)'
    BY <1>0, <2>6 DEF Taken, Lined
  <2> QED
    BY <2>7, <2>8, <2>9 DEF OneWay
<1> QED
  BY <1>1, <1>2

LEMMA PollerWays ==
  ASSUME QueueInv, FeedsReal, TickInv, [Next]_vars, UNCHANGED digestVars,
         NEW p \in Pollers, PollerStep(p),
         NEW e \in Events, NEW a \in Actors, a \notin torn', OneWay(e, a)
  PROVE  OneWay(e, a)'
<1>1. CASE AppendLine(p) \/ Rewrite(p)
  BY <1>1, QueueWays
<1>2. CASE Pushed(p) \/ TimeOut(p)
  BY <1>2, PushWays
<1>3. CASE ~(AppendLine(p) \/ Rewrite(p) \/ Pushed(p) \/ TimeOut(p))
  <2>1. UNCHANGED <<buf, got, prefs>>
    BY <1>3 DEF PollerStep, Work, Answer, Poll, PassOver, Insert, PickActor, Judged,
                OpenBuffer, ReadBuffer,
       Push, Filter, Hold, EnqueueFails, PushFails
  <2>2. ~Crash /\ TypeOK /\ sched' = sched
    BY DEF Crash, digestVars, QueueInv, ClockInv
  <2> QED
    BY <2>1, <2>2, SameWay DEF Taken, Lined
<1> QED
  BY <1>1, <1>2, <1>3

\* A visit that starts no digest changes no way, nor does the curation of one, which
\* adds only picked items.
LEMMA VisitWays ==
  ASSUME TypeOK, TickInv, [Next]_vars, ~Crash, NEW e, NEW a, OneWay(e, a),
         Tick \/ \E b \in Actors : Skip(b) \/ TooSoon(b)
  PROVE  OneWay(e, a)'
<1>1. UNCHANGED <<prefs, buf, got>>
  BY DEF Tick, Skip, TooSoon, routerVars
<1>2. sched'.pc \in {"idle", "visit"}
  <2>1. CASE Tick
    <3> DEFINE x == [Resting EXCEPT !.pc = "visit", !.t = now, !.due = Countdowns(now),
                                    !.todo = conf.users]
    <3>1. x.pc = "visit"
      BY DEF Resting
    <3>2. sched' = x
      BY <2>1 DEF Tick
    <3> HIDE DEF x
    <3> QED
      BY <3>1, <3>2
  <2>2. ASSUME NEW b \in Actors, Skip(b) \/ TooSoon(b) PROVE sched'.pc \in {"idle", "visit"}
    BY <2>2, LeaveGoesOn DEF Skip, TooSoon
  <2> QED
    BY <2>1, <2>2
<1>3. ~Taken(e, a)'
  BY <1>2 DEF Taken
<1> QED
  BY <1>1, <1>3, SameWay DEF Lined

LEMMA CurateWays ==
  ASSUME TypeOK, TickInv, [Next]_vars, ~Crash, NEW e, NEW a, OneWay(e, a), Curate
  PROVE  OneWay(e, a)'
<1>1. UNCHANGED <<prefs, buf, got>> /\ sched.pc = "curate" /\ sched.a \in Actors
  BY SchedulerKeeps DEF Curate, TypeOK, SchedOK
<1>2. ASSUME Taken(e, a)' PROVE Taken(e, a) /\ sched'.t = sched.t
  <2>1. PICK world, macro : Serve(sched.a, sched.pr, world, macro)
    BY DEF Curate
  <2> DEFINE pr == sched.pr
             liked == {f \in world : ShouldDeliver(f, EventOf[f].sev, pr)}
             items == {i \in sched.mine : ShouldDeliver(i.e, i.sev, pr)}
                        \cup {Picked(f) : f \in {f \in liked : InFocus(f, sched.a)}}
  <2>2. PICK floor, rows : Compose(sched.a, pr, "slot", items, floor, world, rows)
    BY <2>1 DEF Serve
  <2> HIDE DEF items
  <2>3. \/ sched' = Leave(sched.todo \ {sched.a})
        \/ sched'.a = sched.a /\ sched'.t = sched.t /\ sched'.mine \subseteq items
    BY <1>1, <2>2, ComposeTodo
  <2>4. Leave(sched.todo \ {sched.a}).pc \in {"idle", "visit"}
    BY LeaveGoesOn
  <2>5. sched'.a = sched.a /\ sched'.t = sched.t /\ sched'.mine \subseteq items
    BY <1>2, <2>3, <2>4 DEF Taken
  <2>6. PICK i \in sched'.mine : i.e = e /\ ~i.world
    BY <1>2 DEF Taken
  <2>7. i \in items
    BY <2>5, <2>6
  <2>8. i \in sched.mine
    BY <2>6, <2>7 DEF items, Picked
  <2>9. sched'.a = a
    BY <1>2 DEF Taken
  <2> QED
    BY <1>1, <2>5, <2>6, <2>8, <2>9 DEF Taken
<1> QED
  BY <1>1, <1>2, SameWay DEF Lined

\* A digest that goes out reaches its actor with what it took, a first time.
LEMMA SendWays ==
  ASSUME QueueInv, TickInv, [Next]_vars, ~Crash, NEW e \in Events, NEW a \in Actors,
         OneWay(e, a), DigestSent \/ DigestFails
  PROVE  OneWay(e, a)'
<1>1. UNCHANGED <<prefs, buf>> /\ sched.pc = "send" /\ TypeOK
  BY DEF DigestSent, DigestFails, QueueInv, FateInv
<1>2. sched'.pc \in {"idle", "visit"}
  BY LeaveGoesOn DEF DigestSent, DigestFails
<1>3. ~Taken(e, a)'
  BY <1>2 DEF Taken
<1>4. CASE got'[<<e, a>>] = got[<<e, a>>]
  BY <1>1, <1>3, <1>4, SameWay DEF Lined
<1>5. CASE got'[<<e, a>>] # got[<<e, a>>]
  <2>1. /\ DigestSent /\ conf.sink # "log"
        /\ got' = [x \in Events \X Actors |->
                    IF x[2] = sched.a /\ \E i \in sched.mine : i.e = x[1] /\ ~i.world
                    THEN Arrives(x[1], x[2])[x] ELSE got[x]]
    BY <1>5 DEF DigestSent, DigestFails
  <2>2. got'[<<e, a>>] = IF a = sched.a /\ \E i \in sched.mine : i.e = e /\ ~i.world
                         THEN Arrives(e, a)[<<e, a>>] ELSE got[<<e, a>>]
    BY <2>1
  <2>3. a = sched.a /\ (\E i \in sched.mine : i.e = e /\ ~i.world)
        /\ got'[<<e, a>>] = Arrives(e, a)[<<e, a>>]
    BY <1>5, <2>2
  <2>4. Taken(e, a)
    BY <1>1, <2>3 DEF Taken
  <2>5. /\ got[<<e, a>>] = 0 /\ ~Lined(e, a)
        /\ \/ QueuedFor(e, a) \/ Flushed(e, a)
           \/ Announces(e) /\ EventOf[e].day = Day(sched.t)
    BY <2>4 DEF OneWay
  <2>6. got'[<<e, a>>] = 1
    BY <2>3, <2>5 DEF QueueInv, FateInv, TypeOK, Arrives
  <2>7. QueuedFor(e, a)' \/ Flushed(e, a)' \/ Announced(e, a)'
    <3>1. CASE QueuedFor(e, a) \/ Flushed(e, a)
      BY <1>1, <3>1, WaysStay
    <3>2. CASE Announces(e) /\ EventOf[e].day = Day(sched.t)
      <4>1. PICK i \in sched.mine : i.e = e
        BY <2>3
      <4> DEFINE r == Row(i.e, sched.a, "digest_item", "sent", i.sev)
      <4>2. r \in log'
        BY <2>1 DEF DigestSent, Acknowledged, SentRows
      <4>3. r.e = e /\ r.a = a /\ Delivered(r) /\ r.at = now
        BY <2>3, <4>1 DEF Row, Delivered
      <4>4. now \in Nat /\ sched.t \in Nat /\ sched.t <= now /\ DayStart(sched.t) <= sched.t
            /\ DayStart(sched.t) \in Int
        BY DayFacts DEF QueueInv, ClockInv, TypeOK, SchedStates
      <4>5. now >= EventOf[e].day * DayLen
        BY <3>2, <4>4 DEF DayStart
      <4> HIDE DEF r
      <4>6. (\E q \in log : q.e = e /\ q.a = a /\ Delivered(q) /\ q.at >= EventOf[e].day * DayLen)'
        BY <4>2, <4>3, <4>5 DEF Delivered
      <4> QED
        BY <3>2, <4>6 DEF Announced, Announces
    <3> QED
      BY <2>5, <3>1, <3>2
  <2>8. ~Lined(e, a)'
    BY <1>1, <2>5 DEF Lined
  <2> QED
    BY <1>3, <2>6, <2>7, <2>8 DEF OneWay
<1> QED
  BY <1>4, <1>5

\* The same minute comes again after whole days only.
LEMMA DayApart ==
  ASSUME NEW x \in Int, NEW y \in Int, x < y, x % DayLen = y % DayLen
  PROVE  x + DayLen <= y
<1> DEFINE q == x \div DayLen
           r == y \div DayLen
           m == x % DayLen
<1>1. DayLen \in Nat \ {0}
  BY PolicyAssumption
<1>2. q \in Int /\ r \in Int /\ m \in Int /\ x = DayLen * q + m /\ y = DayLen * r + m
  BY <1>1
<1> HIDE DEF q, r, m
<1>3. q < r
  <2> SUFFICES ASSUME r <= q PROVE FALSE
    BY <1>2
  <2>1. DayLen * r <= DayLen * q
    BY <1>1, <1>2
  <2>2. DayLen * r \in Int /\ DayLen * q \in Int
    BY <1>1, <1>2
  <2> QED
    BY <1>2, <2>1, <2>2
<1>4. DayLen * r = DayLen * q + DayLen * (r - q) /\ DayLen * (r - q) >= DayLen
  BY <1>1, <1>2, <1>3
<1>5. DayLen * r \in Int /\ DayLen * q \in Int /\ DayLen * (r - q) \in Int
  BY <1>1, <1>2
<1> QED
  BY <1>1, <1>2, <1>4, <1>5

\* What a flush finds held it did not find before: the last flush of the actor was a
\* day earlier, and what it took was held before its window began.
LEMMA HeldUntouched ==
  ASSUME QueueInv, FeedsReal, TickInv, NEW e \in Events, NEW a \in Actors, OneWay(e, a),
         sched.pc = "visit", a \in sched.todo, FlushDue(prefs[a], sched.t),
         NEW r \in HeldRows(a, sched.t - HeldWindow), r.e = e
  PROVE  got[<<e, a>>] = 0 /\ ~Lined(e, a)
<1>1. r \in log /\ r.a = a /\ r.ch = "sink" /\ r.st = "quiet_held" /\ r.at >= sched.t - HeldWindow
  BY DEF HeldRows
<1>2. FateRow(r)
  BY <1>1 DEF FateRow
<1>3. /\ e \in stored /\ <<e, a>> \notin cut
      /\ \A q \in log : FateRow(q) /\ q.e = e /\ q.a = a => q = r
  BY <1>1, <1>2, FateAlone
<1>4. ~QueuedFor(e, a)
  BY <1>1, <1>3, QueuedIsFate DEF QueuedFor, QueuedRow
<1>5. ~PushTried(e, a)
  BY <1>1, <1>3 DEF PushTried, FateRow
<1>6. ~Flushed(e, a)
  <2> SUFFICES ASSUME Flushed(e, a) PROVE FALSE
    OBVIOUS
  <2>1. PICK q \in log, t \in Nat :
          /\ q.e = e /\ q.a = a /\ q.ch = "sink" /\ q.st = "quiet_held"
          /\ FlushDue(prefs[a], t) /\ t <= lastTick /\ (t = sched.t => a \notin sched.todo)
          /\ q.at < t + DayLen - HeldWindow
    BY DEF Flushed
  <2>2. q = r
    BY <1>3, <2>1 DEF FateRow
  <2>3. /\ sched.t \in Nat /\ prefs[a].tz \in Int /\ DayLen \in Nat /\ HeldWindow \in Nat
        /\ r.at \in Nat
    BY <1>1, DigestAssumption, PolicyAssumption DEF QueueInv, FateInv, TypeOK, SchedStates, Rows
  <2>4. t < sched.t
    BY <2>1, <2>3 DEF TickInv
  <2>5. (t + prefs[a].tz) % DayLen = (sched.t + prefs[a].tz) % DayLen
    BY <2>1 DEF FlushDue, MinuteOf
  <2>6. t + prefs[a].tz + DayLen <= sched.t + prefs[a].tz
    <3> DEFINE x == t + prefs[a].tz
               y == sched.t + prefs[a].tz
    <3>1. x \in Int /\ y \in Int /\ x < y
      BY <2>3, <2>4
    <3>2. x % DayLen = y % DayLen
      BY <2>5
    <3> HIDE DEF x, y
    <3>3. x + DayLen <= y
      BY <3>1, <3>2, DayApart
    <3> QED
      BY <3>3 DEF x, y
  <2> QED
    BY <1>1, <2>1, <2>2, <2>3, <2>6
<1>7. ~Announces(e)
  BY <1>3 DEF FeedsReal
<1> QED
  BY <1>4, <1>5, <1>6, <1>7 DEF OneWay, Announced

\* A slot takes the lines and the countdowns of its day not delivered since it began.
LEMMA DueUntouched ==
  ASSUME QueueInv, FeedsReal, TickInv, NEW e \in Events, NEW a \in Actors, OneWay(e, a),
         <<e, a>> \in sched.due, e \notin DeliveredSince(a, DayStart(sched.t))
  PROVE  got[<<e, a>>] = 0 /\ ~Lined(e, a) /\ Announces(e) /\ EventOf[e].day = Day(sched.t)
<1>1. Announces(e) /\ EventOf[e].day = Day(sched.t)
  BY DEF TickInv
<1>2. ~QueuedFor(e, a) /\ ~Flushed(e, a) /\ ~PushTried(e, a)
  BY <1>1, WaysKnown
<1>3. ~Announced(e, a)
  BY <1>1 DEF Announced, DeliveredSince, DayStart
<1> QED
  BY <1>1, <1>2, <1>3 DEF OneWay

LEMMA SlotWays ==
  ASSUME QueueInv, FeedsReal, TickInv, [Next]_vars, ~Crash, NEW e \in Events, NEW a \in Actors,
         OneWay(e, a), NEW b \in Actors, OpenSlot(b)
  PROVE  OneWay(e, a)'
<1> DEFINE new == {x[1] : x \in {x \in sched.due : x[2] = b}}
                    \ DeliveredSince(b, DayStart(sched.t))
<1>0. PICK drained \in SUBSET buf[b] :
        /\ Drain(b, drained)
        /\ sched' = [sched EXCEPT !.pc = "curate", !.todo = @ \ {b}, !.a = b,
                       !.pr = prefs[b],
                       !.mine = {Own(l.e, l.sev) : l \in drained}
                                  \cup {Own(c, Medium) : c \in new}]
  BY DEF OpenSlot
<1> DEFINE mine == {Own(l.e, l.sev) : l \in drained} \cup {Own(c, Medium) : c \in new}
<1>1. UNCHANGED <<prefs, got>> /\ TypeOK /\ sched.pc = "visit"
  BY SchedulerKeeps DEF OpenSlot, QueueInv, FateInv, TypeOK, Serving
<1>2. /\ sched' = [sched EXCEPT !.pc = "curate", !.todo = @ \ {b}, !.a = b, !.pr = prefs[b],
                    !.mine = mine]
      /\ sched \in SchedStates
  BY <1>0, <1>1 DEF TypeOK
<1>8. /\ \A c \in Actors \ {b} : buf'[c] = buf[c]
      /\ buf'[b] \subseteq buf[b]
      /\ (drained = {} \/ buf'[b] = {})
  BY <1>0, <1>1, DrainTakes
<1> HIDE DEF mine
<1>3. sched'.a = b /\ sched'.mine = mine /\ sched'.t = sched.t
  BY <1>2 DEF SchedStates
<1>4. /\ Lined(e, a)' => Lined(e, a)
      /\ drained # {} => ~Lined(e, b)'
  BY <1>8 DEF Lined
<1>5. ~Taken(e, a)
  BY <1>1 DEF Taken
<1>6. CASE ~Taken(e, a)'
  BY <1>1, <1>4, <1>6, SameWay
<1>7. CASE Taken(e, a)'
  <2>1. a = b /\ \E i \in mine : i.e = e
    BY <1>3, <1>7 DEF Taken
  <2>2. CASE \E l \in drained : l.e = e
    <3>1. Lined(e, a) /\ ~Lined(e, a)'
      BY <1>4, <2>1, <2>2 DEF Lined
    <3>2. got[<<e, a>>] = 0 /\ QueuedFor(e, a)'
      BY <1>1, <3>1, WaysStay DEF OneWay
    <3> QED
      BY <1>1, <3>1, <3>2 DEF OneWay
  <2>3. CASE ~\E l \in drained : l.e = e
    <3>1. e \in new
      BY <2>1, <2>3 DEF mine, Own
    <3>2. PICK x \in sched.due : x[1] = e /\ x[2] = b
      BY <3>1
    <3>3. x = <<e, a>>
      BY <1>2, <2>1, <3>2 DEF SchedStates
    <3>4. /\ got[<<e, a>>] = 0 /\ ~Lined(e, a) /\ Announces(e)
          /\ EventOf[e].day = Day(sched.t)
      BY <2>1, <3>1, <3>2, <3>3, DueUntouched
    <3>5. (Announces(e) /\ EventOf[e].day = Day(sched.t))'
      BY <1>3, <3>4 DEF Announces
    <3> QED
      BY <1>1, <1>4, <2>1, <3>4, <3>5 DEF OneWay
  <2> QED
    BY <2>2, <2>3
<1> QED
  BY <1>6, <1>7

\* A flush takes the lines and what is held; it is not late for the actor, so that what
\* it takes is older than the window of the next one.
LEMMA FlushWays ==
  ASSUME QueueInv, FeedsReal, TickInv, [Next]_vars, ~Crash, NEW e \in Events,
         NEW a \in Actors, a \notin late', OneWay(e, a), NEW b \in Actors, Flush(b)
  PROVE  OneWay(e, a)'
<1>0. PICK drained \in SUBSET buf[b] : Drain(b, drained) /\ FlushLines(b, drained)
  BY DEF Flush
<1> DEFINE held == Held(b, sched.t - HeldWindow)
           stale == {f \in held : ~Fresh(f, sched.t) /\ EventOf[f].kind # "price"}
           lines == {l \in drained : l.e \notin held \ stale}
           all == {Own(f, EventOf[f].sev) : f \in held \ stale}
                    \cup {Own(l.e, l.sev) : l \in lines}
           items == {i \in all : ShouldDeliver(i.e, i.sev, prefs[b])}
           rows == {Row(f, b, "sink", "quiet_dropped", EventOf[f].sev) : f \in stale}
<1>1. /\ UNCHANGED <<prefs, got, lastTick>> /\ TypeOK /\ sched.pc = "visit" /\ b \in sched.todo
      /\ FlushDue(prefs[b], sched.t)
  BY DEF Flush, QueueInv, FateInv, TypeOK, Serving, AtFlush
<1>2. Compose(b, prefs[b], "flush", items, {}, {}, rows)
  BY <1>0 DEF FlushLines
<1>8. /\ \A c \in Actors \ {b} : buf'[c] = buf[c]
      /\ buf'[b] \subseteq buf[b]
      /\ (drained = {} \/ buf'[b] = {})
  BY <1>0, <1>1, DrainTakes
<1> HIDE DEF items, rows
<1>3. \/ sched' = Leave(sched.todo \ {b})
      \/ /\ sched'.pc = "send" /\ sched'.a = b /\ sched'.t = sched.t
         /\ sched'.todo = sched.todo \ {b} /\ sched'.mine \subseteq items
  BY <1>1, <1>2, ComposeTodo
<1>4. Leave(sched.todo \ {b}).pc \in {"idle", "visit"}
  BY LeaveGoesOn
<1>5. /\ Lined(e, a)' => Lined(e, a)
      /\ drained # {} => ~Lined(e, b)'
  BY <1>8 DEF Lined
<1>6. CASE ~Taken(e, a)'
  BY <1>1, <1>5, <1>6, SameWay
<1>7. CASE Taken(e, a)'
  <2>1. /\ sched'.t = sched.t /\ sched'.todo = sched.todo \ {b} /\ sched'.mine \subseteq items
        /\ a = b /\ \E i \in sched'.mine : i.e = e
    BY <1>3, <1>4, <1>7 DEF Taken
  <2>2. PICK i \in items : i.e = e
    BY <2>1
  <2>3. CASE \E l \in drained : l.e = e
    <3>1. Lined(e, a) /\ ~Lined(e, a)'
      BY <1>5, <2>1, <2>3 DEF Lined
    <3>2. got[<<e, a>>] = 0 /\ QueuedFor(e, a)'
      BY <1>1, <3>1, WaysStay DEF OneWay
    <3> QED
      BY <1>1, <3>1, <3>2 DEF OneWay
  <2>4. CASE ~\E l \in drained : l.e = e
    <3>1. e \in held
      <4> HIDE DEF held
      <4> QED
        BY <2>1, <2>2, <2>4 DEF items, Own
    <3>2. PICK r \in HeldRows(b, sched.t - HeldWindow) : r.e = e
      BY <3>1 DEF Held
    <3>3. got[<<e, a>>] = 0 /\ ~Lined(e, a)
      BY <1>1, <2>1, <3>2, HeldUntouched
    <3>4. Flushed(e, a)'
      <4>1. /\ r \in log /\ r.a = a /\ r.ch = "sink" /\ r.st = "quiet_held" /\ r.at <= now
            /\ r.at \in Nat /\ now \in Nat /\ sched.t \in Nat
        BY <2>1, <3>2 DEF HeldRows, QueueInv, ClockInv, TypeOK, SchedStates, Rows
      <4>2. DayLen \in Nat /\ HeldWindow \in Nat
        BY PolicyAssumption, DigestAssumption
      <4>3. r.at < sched.t + DayLen - HeldWindow
        <5>1. late' = IF now < sched.t + DayLen - HeldWindow THEN late ELSE late \cup {b}
          BY DEF Flush
        <5>2. now < sched.t + DayLen - HeldWindow
          BY <2>1, <5>1
        <5> QED
          BY <4>1, <4>2, <5>2
      <4>4. r \in log'
        BY <1>1, <4>1, StepLogs DEF LogGrows
      <4>5. /\ FlushDue(prefs'[a], sched.t) /\ sched.t <= lastTick'
            /\ (sched.t = sched'.t => a \notin sched'.todo)
        BY <1>1, <2>1, <4>1 DEF TickInv
      <4> QED
        BY <3>2, <4>1, <4>3, <4>4, <4>5 DEF Flushed
    <3> QED
      BY <1>1, <1>5, <2>1, <3>3, <3>4 DEF OneWay
  <2> QED
    BY <2>3, <2>4
<1> QED
  BY <1>6, <1>7

LEMMA WaysNext ==
  ASSUME WaysInv, [Next]_vars
  PROVE  WaysInv'
<1>1. QueueInv' /\ FeedsReal' /\ TickInv'
  BY QueueNext, FeedsRealNext, TickNext DEF WaysInv, QueueInv, FateInv
<1>2. ASSUME edits' = 0, crashes' = 0, NEW e \in Events, NEW a \in Actors,
             a \notin torn', a \notin late'
      PROVE  OneWay(e, a)'
  <2>1. /\ QueueInv /\ FeedsReal /\ TickInv /\ TypeOK
        /\ edits \in Nat /\ crashes \in Nat
    BY DEF WaysInv, QueueInv, FateInv, ClockInv
  <2>2. ~Crash /\ \A b \in Actors : ~EditPrefs(b)
    BY <1>2, <2>1 DEF Crash, EditPrefs
  <2>3. edits = 0 /\ crashes = 0
    BY <1>2, <2>2, RouterKeeps, SchedulerKeeps DEF Next, vars, digestVars
  <2>4. a \notin torn /\ a \notin late
    <3>1. ASSUME NEW p \in Pollers, PollerStep(p) PROVE torn \subseteq torn'
      BY <3>1 DEF PollerStep, Work, Answer, Poll, PassOver, Insert, PickActor, Judged,
         OpenBuffer, ReadBuffer, Push, TimeOut, Filter, Hold, AppendLine, Rewrite, EnqueueFails, Pushed,
         PushFails
    <3>2. ASSUME SchedulerStep PROVE late \subseteq late'
      BY <3>2 DEF SchedulerStep, Tick, Curate, DigestSent, DigestFails, Skip, TooSoon, Flush,
         OpenSlot
    <3> QED
      BY <1>2, <2>2, <3>1, <3>2, SchedulerKeeps
      DEF Next, RouterStep, AdvanceTime, vars, routerVars, digestVars
  <2>5. OneWay(e, a)
    BY <2>3, <2>4 DEF WaysInv
  <2>6. CASE UNCHANGED <<buf, got, sched, prefs>>
    BY <2>1, <2>2, <2>5, <2>6, SameWay DEF Lined, Taken
  <2>7. ASSUME NEW p \in Pollers, PollerStep(p), UNCHANGED digestVars PROVE OneWay(e, a)'
    BY <1>2, <2>1, <2>5, <2>7, PollerWays
  <2>8. CASE SchedulerStep
    <3>1. CASE Tick \/ \E b \in Actors : Skip(b) \/ TooSoon(b)
      BY <2>1, <2>2, <2>5, <3>1, VisitWays
    <3>2. CASE Curate
      BY <2>1, <2>2, <2>5, <3>2, CurateWays
    <3>3. CASE DigestSent \/ DigestFails
      BY <2>1, <2>2, <2>5, <3>3, SendWays
    <3>4. ASSUME NEW b \in Actors, Flush(b) \/ OpenSlot(b) PROVE OneWay(e, a)'
      BY <1>2, <2>1, <2>2, <2>5, <3>4, FlushWays, SlotWays
    <3> QED
      BY <2>8, <3>1, <3>2, <3>3, <3>4 DEF SchedulerStep
  <2> QED
    BY <2>2, <2>6, <2>7, <2>8 DEF Next, RouterStep, AdvanceTime, vars, routerVars, digestVars
<1> QED
  BY <1>1, <1>2 DEF WaysInv

LEMMA WaysInit ==
  ASSUME DigestInit
  PROVE  WaysInv
<1>1. QueueInv /\ FeedsReal
  BY QueueInit, FeedsRealInit
<1>2. TickInv
  BY DEF TickInv, DigestInit, Resting
<1>3. ASSUME NEW e \in Events, NEW a \in Actors PROVE OneWay(e, a)
  <2>1. got[<<e, a>>] = 0 /\ ~Lined(e, a)
    BY DEF DigestInit, Init, Lined
  <2>2. ~Taken(e, a)
    BY DEF DigestInit, Resting, Taken
  <2> QED
    BY <2>1, <2>2 DEF OneWay
<1> QED
  BY <1>1, <1>2, <1>3 DEF WaysInv

\* OneArrival: pushes and the own items of digests bring an event to a user at most once
\* (dispatch.rs, buffer.rs, scheduler.rs), unless a process restarted, a buffer was
\* torn, preferences were edited, or a flush came so late that it reached into the next
\* one's window of held events.  Nothing is said of global picks, which may bring again
\* what the user had.
THEOREM ArrivesOnce == Spec => []OneArrival
<1>1. DigestInit => WaysInv
  BY WaysInit
<1>2. WaysInv /\ [Next]_vars => WaysInv'
  BY WaysNext
<1>3. WaysInv => OneArrival
  BY DEF WaysInv, OneWay, OneArrival
<1> QED
  BY <1>1, <1>2, <1>3, PTL DEF Spec
=============================================================================
