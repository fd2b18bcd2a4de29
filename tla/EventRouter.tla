----------------------------- MODULE EventRouter -----------------------------
(* The event pipeline and the notification router of hone-event-engine.      *)
(*                                                                           *)
(* Every source has a poller task of its own.  A poll's batch is inserted    *)
(* event by event into the store (the dedupe), and each new event is         *)
(* dispatched: actor by actor it is filtered, held for the quiet hours, sent *)
(* at once or put in the actor's digest buffer, and a row of the delivery    *)
(* log says which.  Pollers share the log, the buffers and the counters of   *)
(* news upgrades and hold no lock across a dispatch; a dispatch awaits the   *)
(* classifier and the channel, where the poller's timeout can drop it.       *)
EXTENDS RouterPolicy, Sequences

CONSTANTS
  Actors,         \* direct-chat users
  Pollers,        \* poller tasks
  Holds,          \* actor -> symbols held
  Setups,         \* [conf, prefs, feed]: what an instance may start from; conf
                  \* has users (those with a portfolio), sink, llm, curator, and
                  \* the bounds from and until (clock), wakes (instants the
                  \* digest task may tick at), faults (failed calls), edits,
                  \* crashes
  Disabled,       \* kinds switched off by the deployment
  HighCap,        \* High pushes per actor, category and day; 0 for no cap
  MinAdvance,     \* basis points a band must gain on the last one pushed
  Cooldown,       \* ticks between two High pushes on a symbol; 0 for none
  TickCap, SymbolCap,        \* news upgrades per poll; 0 for no cap
  RecentBack, RecentAhead,   \* window of signals that upgrade a news item
  PreviewBack, PreviewAhead  \* window of earnings previews that do

ASSUME RouterAssumption ==
  /\ IsFiniteSet(Pollers) /\ HighCap \in Nat
  /\ None \notin Actors /\ None \notin Events
  /\ \A s \in Setups :
       /\ s.conf.users \subseteq Actors /\ s.conf.from \in Nat
       /\ s.prefs \in [Actors -> {s.prefs[a] : a \in Actors}]
       /\ s.feed \in [Pollers -> Seq(Seq(Events))]

\* The sources of the events that a feed returns.
SourcesOf(f) ==
  UNION {{EventOf[f[i][j]].source : j \in DOMAIN f[i]} : i \in DOMAIN f}

\* No source has two poller tasks, a band is of a symbol and a move, and the limits
\* on pushes are durations and basis points.
ASSUME SourceAssumption ==
  /\ \A s \in Setups, p, q \in Pollers :
       p # q => SourcesOf(s.feed[p]) \cap SourcesOf(s.feed[q]) = {}
  /\ \A e \in Events : IsBand(e) => EventOf[e].head # None /\ EventOf[e].pct # None
  /\ {MinAdvance, Cooldown} \subseteq Nat

VARIABLES
  now,            \* the clock
  conf,           \* the sink, the LLM stages on, and the bounds of an instance
  prefs,          \* actor -> preferences, a file per actor
  feed,           \* poller -> batches its source has still to return
  stored,         \* ids in the events table
  log,            \* the delivery_log table
  buf,            \* actor -> lines of the digest buffer file, [e, sev]
  poll,           \* poller -> state of its task
  ticks,          \* news upgrades since the last poll began: all, by symbol
  got,            \* ghost: times e reached a, other than as a global pick
  cut,            \* ghost: <<e, a>> whose dispatch a timeout or crash dropped
  torn,           \* ghost: actors whose buffer changed under a rewrite
  lost,           \* ghost: <<e, a>> whose line no drain could read
  astray,         \* pollers whose line is not going to the buffer: its file was taken
                  \* away, or their text ran into another poller's
  faults          \* failed calls so far

routerVars == <<now, conf, prefs, feed, stored, log, buf, poll, ticks, got, cut,
                torn, lost, astray, faults>>

Symbols == UNION {EventOf[e].syms : e \in Events}
NoTicks == [all |-> 0, by |-> [s \in Symbols |-> 0]]

\* A poller between two polls.
Idle == [pc |-> "idle", batch |-> <<>>, e |-> None, sev |-> Low, todo |-> {},
         a |-> None, asev |-> Low, pr |-> None, st |-> None, seen |-> {}]

\* A call fails.
Fault == faults < conf.faults /\ faults' = faults + 1

-----------------------------------------------------------------------------
(* Queries and writes of the store.                                          *)

Row(e, a, ch, st, s) ==
  [e |-> e, a |-> a, ch |-> ch, st |-> st, sev |-> s, at |-> now]

Delivered(r) == r.st \in {"sent", "dryrun"}

\* High pushes to a since an instant that the channel acknowledged.
HighSent(a, since) ==
  {r \in log : /\ r.a = a /\ r.ch = "sink" /\ r.st = "sent" /\ r.sev = High
               /\ r.e \in stored /\ r.at >= since}

HighSentOf(a, c, since) == {r \in HighSent(a, since) : Category(r.e) = c}

\* Actors a subscription of which matches e.
Resolve(e) ==
  {a \in conf.users : \/ EventOf[e].syms \cap Holds[a] # {}
                      \/ EventOf[e].kind \in {"social", "macro"}}

\* Stored signals on symbol s around the news: hard ones close to it, earnings
\* previews over a wider window.
Near(e, s, kinds, back, ahead) ==
  {x \in stored : /\ s \in EventOf[x].syms /\ EventOf[x].kind \in kinds
                  /\ EventOf[x].at - EventOf[e].at \in (-back)..ahead}

Recent(e, s) ==
  Near(e, s, {"price", "earnings", "preview", "filing", "analyst"}, RecentBack,
       RecentAhead)
Preview(e, s) == Near(e, s, {"preview"}, PreviewBack, PreviewAhead)

\* The signals the text of the news speaks of.
Named(e, signals) == {x \in signals : EventOf[x].kind \in EventOf[e].hints}

\* Of the recent signals the code looks at one, the first row it gets: news may
\* converge with a signal, and must if all of them are named.
MayConverge(e) ==
  \E s \in EventOf[e].syms : Named(e, Recent(e, s) \cup Preview(e, s)) # {}
MustConverge(e) ==
  \E s \in EventOf[e].syms :
    \/ Recent(e, s) # {} /\ Named(e, Recent(e, s)) = Recent(e, s)
    \/ Named(e, Preview(e, s)) # {}

\* Low news of a fair source, while the caps of the poll allow.
Upgradable(e) ==
  /\ EventOf[e].kind = "news" /\ EventOf[e].sev = Low
  /\ EventOf[e].class # "lowsignal"
  /\ TickCap = 0 \/ ticks.all < TickCap
  /\ SymbolCap = 0 \/ \A s \in EventOf[e].syms : ticks.by[s] < SymbolCap

CountUpgrade(e) ==
  [all |-> ticks.all + 1,
   by |-> [s \in Symbols |-> IF s \in EventOf[e].syms THEN ticks.by[s] + 1
                             ELSE ticks.by[s]]]

-----------------------------------------------------------------------------
(* The batch of a poller.                                                    *)

\* The poller turns to the next event, or its poll is over.
NextEvent(p) ==
  LET rest == Tail(poll[p].batch)
  IN  IF rest = <<>> THEN Idle
      ELSE [Idle EXCEPT !.pc = "insert", !.batch = rest]

NextActorAlways(p) ==                            \* mutant: no look if one is left
  [Idle EXCEPT !.pc = "route", !.batch = poll[p].batch, !.e = poll[p].e,
               !.sev = poll[p].sev, !.todo = poll[p].todo]
NextActorNever(p) == NextEvent(p)                \* mutant: return for continue

\* The dispatch turns to the next actor, or to the next event.
NextActor(p) ==
  IF poll[p].todo = {} THEN NextEvent(p)
  ELSE [Idle EXCEPT !.pc = "route", !.batch = poll[p].batch, !.e = poll[p].e,
                    !.sev = poll[p].sev, !.todo = poll[p].todo]

\* The source answers; the counters all pollers share start from zero.
Poll(p) ==
  /\ poll[p].pc = "idle" /\ feed[p] # <<>>
  /\ feed' = [feed EXCEPT ![p] = Tail(@)]
  /\ ticks' = NoTicks
  /\ IF Head(feed[p]) = <<>> THEN UNCHANGED poll
     ELSE poll' = [poll EXCEPT ![p] = [Idle EXCEPT !.pc = "insert",
                                                   !.batch = Head(feed[p])]]
  /\ UNCHANGED <<now, conf, prefs, stored, log, buf, got, cut, torn, lost, astray,
                 faults>>

\* An event already stored, or one the store fails to insert, is passed over.
PassOver(p) ==
  /\ poll[p].pc = "insert"
  /\ \/ Head(poll[p].batch) \in stored /\ UNCHANGED faults
     \/ Fault
  /\ poll' = [poll EXCEPT ![p] = NextEvent(p)]
  /\ UNCHANGED <<now, conf, prefs, feed, stored, log, buf, ticks, got, cut, torn,
                 lost, astray>>

\* A new event is stored; unless its kind is off, it may be upgraded, and its
\* severity and its actors are settled.
Insert(p) ==
  LET e == Head(poll[p].batch)
      on == EventOf[e].kind \notin Disabled
  IN  /\ poll[p].pc = "insert" /\ e \notin stored
      /\ stored' = stored \cup {e}
      /\ \E up \in BOOLEAN :
           LET s == SystemPolicy(e, IF up THEN Medium ELSE EventOf[e].sev, now)
           IN  /\ up => on /\ Upgradable(e) /\ MayConverge(e)
               /\ on /\ Upgradable(e) /\ MustConverge(e) => up
               /\ ticks' = IF up THEN CountUpgrade(e) ELSE ticks
               /\ log' = IF on /\ Resolve(e) = {}
                         THEN log \cup {Row(e, None, "router", "no_actor", s)}
                         ELSE log
               /\ poll' = [poll EXCEPT ![p] =
                             IF ~on \/ Resolve(e) = {} THEN NextEvent(p)
                             ELSE [@ EXCEPT !.pc = "route", !.e = e, !.sev = s,
                                            !.todo = Resolve(e)]]
      /\ UNCHANGED <<now, conf, prefs, feed, buf, got, cut, torn, lost, astray,
                     faults>>

\* The poller's dispatch turned to an actor: the preferences are read, and the
\* classifier may have to be asked.
Facing(p, a) ==
  [poll[p] EXCEPT !.a = a, !.todo = poll[p].todo \ {a}, !.pr = prefs[a],
                  !.asev = poll[p].sev,
                  !.pc = IF conf.llm /\ AsksClassifier(poll[p].e, poll[p].sev)
                         THEN "judge" ELSE "decide"]

PickActor(p) ==
  /\ poll[p].pc = "route"
  /\ \E a \in poll[p].todo : poll' = [poll EXCEPT ![p] = Facing(p, a)]
  /\ UNCHANGED <<now, conf, prefs, feed, stored, log, buf, ticks, got, cut, torn,
                 lost, astray, faults>>

\* The classifier finds the event important for this actor, or does not.
Judged(p) ==
  /\ poll[p].pc = "judge"
  /\ \E s \in {Low, Medium} :
       poll' = [poll EXCEPT ![p] = [@ EXCEPT !.pc = "decide", !.asev = s]]
  /\ UNCHANGED <<now, conf, prefs, feed, stored, log, buf, ticks, got, cut, torn,
                 lost, astray, faults>>

-----------------------------------------------------------------------------
(* The fate of one event for one actor, at pc "decide": e, a, pr, asev.      *)

\* Severity after the user's overrides and quiet mode; High asks for a push.
Wanted(p) == ActorSeverity(poll[p].e, poll[p].asev, poll[p].pr)

CappedLate(p) ==                                 \* mutant: > for >=
  /\ HighCap > 0
  /\ Cardinality(HighSentOf(poll[p].a, Category(poll[p].e), DayStart(now))) > HighCap
Capped(p) ==
  /\ HighCap > 0
  /\ Cardinality(HighSentOf(poll[p].a, Category(poll[p].e), DayStart(now))) >= HighCap

SlowBandOnly(p) ==                               \* mutant: without the advance
  LET e == poll[p].e
  IN  /\ IsBand(e)
      /\ \E r \in HighSent(poll[p].a, DayStart(now)) :
           /\ IsBand(r.e) /\ EventOf[r.e].head = EventOf[e].head /\ Up(r.e) = Up(e)
           /\ EventOf[e].band <= EventOf[r.e].band

\* The band gains too little on the largest pushed today in its direction.
SlowBand(p) ==
  LET e == poll[p].e
  IN  /\ IsBand(e) /\ MinAdvance > 0 /\ EventOf[e].head # None /\ EventOf[e].pct # None
      /\ \E r \in HighSent(poll[p].a, DayStart(now)) :
           /\ IsBand(r.e) /\ EventOf[r.e].head = EventOf[e].head /\ Up(r.e) = Up(e)
           /\ EventOf[e].band < EventOf[r.e].band + MinAdvance

\* A grade from an article that was pushed already.
SameArticle(p) ==
  LET e == poll[p].e
  IN  /\ EventOf[e].kind = "analyst" /\ EventOf[e].url # None /\ EventOf[e].head # None
      /\ \E r \in HighSent(poll[p].a, now - Cooldown) :
           /\ EventOf[r.e].kind = "analyst" /\ EventOf[r.e].url = EventOf[e].url
           /\ EventOf[e].head \in EventOf[r.e].syms

SameSymbolToday(p) ==                            \* mutant: looks at today only
  LET e == poll[p].e
  IN  /\ ~IsBand(e)
      /\ \E r \in HighSentOf(poll[p].a, Category(e), DayStart(now)) :
           /\ r.at >= now - Cooldown /\ EventOf[r.e].syms \cap EventOf[e].syms # {}
           /\ EventOf[e].firm \in {None, EventOf[r.e].firm}

\* A push on one of the symbols in the same category, by the same firm for grades.
SameSymbol(p) ==
  LET e == poll[p].e
  IN  /\ ~IsBand(e)
      /\ \E r \in HighSentOf(poll[p].a, Category(e), now - Cooldown) :
           /\ EventOf[r.e].syms \cap EventOf[e].syms # {}
           /\ EventOf[e].firm \in {None, EventOf[r.e].firm}

CooledDown(p) == Cooldown > 0 /\ (SameArticle(p) \/ SameSymbol(p))

\* What the digest row says of the way into the buffer.
QueueStatus(p) ==
  CASE Wanted(p) # High -> "queued"
    [] Capped(p) -> "capped"
    [] SlowBand(p) -> "price_low_advance"
    [] CooledDown(p) -> "cooled_down"
    [] OTHER -> "direct"

Deciding(p) == poll[p].pc = "decide"
Passes(p) == ShouldDeliver(poll[p].e, poll[p].asev, poll[p].pr)
Direct(p) == QueueStatus(p) = "direct"
Holding(p) ==
  /\ Direct(p) /\ Quiet(poll[p].pr, now)
  /\ EventOf[poll[p].e].kind \notin poll[p].pr.quiet.exempt

\* The dispatch to the actor ends with a row of the log.
Log(p, ch, st, s) ==
  /\ log' = log \cup {Row(poll[p].e, poll[p].a, ch, st, s)}
  /\ poll' = [poll EXCEPT ![p] = NextActor(p)]

Filter(p) ==
  /\ Deciding(p) /\ ~Passes(p)
  /\ Log(p, "prefs", "filtered", Wanted(p))
  /\ UNCHANGED <<now, conf, prefs, feed, stored, buf, ticks, got, cut, torn, lost,
                 astray, faults>>

Hold(p) ==
  /\ Deciding(p) /\ Passes(p) /\ Holding(p)
  /\ Log(p, "sink", "quiet_held", High)
  /\ UNCHANGED <<now, conf, prefs, feed, stored, buf, ticks, got, cut, torn, lost,
                 astray, faults>>

\* The message is handed to the channel; its answer is awaited.
Push(p) ==
  /\ Deciding(p) /\ Passes(p) /\ Direct(p) /\ ~Holding(p)
  /\ poll' = [poll EXCEPT ![p].pc = "send"]
  /\ UNCHANGED <<now, conf, prefs, feed, stored, log, buf, ticks, got, cut, torn,
                 lost, astray, faults>>

Line(p) == [e |-> poll[p].e, sev |-> poll[p].asev]

\* Pollers that have a's buffer file open.
Writers(a) == {p \in Pollers : poll[p].pc = "append" /\ poll[p].a = a}

\* The event is for the digest: the buffer file is opened ...
OpenBuffer(p) ==
  /\ Deciding(p) /\ Passes(p) /\ ~Direct(p) /\ PriceKey(poll[p].e) = None
  /\ poll' = [poll EXCEPT ![p] = [@ EXCEPT !.pc = "append", !.st = QueueStatus(p)]]
  /\ UNCHANGED <<now, conf, prefs, feed, stored, log, buf, ticks, got, cut, torn,
                 lost, astray, faults>>

\* ... and a line is appended, the text and its end in two writes.  The texts of other
\* writers (mates) may get in between: none of these lines can be read then.  Nor can
\* one that goes to a file which was taken away.
AppendLine(p) ==
  LET a == poll[p].a
  IN  /\ poll[p].pc = "append"
      /\ \/ /\ p \notin astray
            /\ buf' = [buf EXCEPT ![a] = @ \cup {Line(p)}]
            /\ UNCHANGED <<lost, astray>>
         \/ \E mates \in SUBSET (Writers(a) \ (astray \cup {p})) :
              /\ p \in astray <=> mates = {}
              /\ astray' = (astray \cup mates) \ {p}
              /\ lost' = lost \cup {<<poll[p].e, a>>}
              /\ UNCHANGED buf
      /\ Log(p, "digest", poll[p].st, Wanted(p))
      /\ UNCHANGED <<now, conf, prefs, feed, stored, ticks, got, cut, torn, faults>>

\* A price line replaces the one of its key: the file is read, up to a line that cannot
\* be ...
ReadBuffer(p) ==
  /\ Deciding(p) /\ Passes(p) /\ ~Direct(p) /\ PriceKey(poll[p].e) # None
  /\ \E read \in SUBSET buf[poll[p].a] :
       /\ \/ read = buf[poll[p].a] /\ UNCHANGED faults
          \/ Fault
       /\ poll' = [poll EXCEPT ![p] = [@ EXCEPT !.pc = "rewrite", !.st = QueueStatus(p),
                                                !.seen = read]]
  /\ UNCHANGED <<now, conf, prefs, feed, stored, log, buf, ticks, got, cut, torn,
                 lost, astray>>

\* ... and a new file with what was read takes its place.
Rewrite(p) ==
  LET a == poll[p].a
      kept == {l \in poll[p].seen : PriceKey(l.e) # PriceKey(poll[p].e)}
  IN  /\ poll[p].pc = "rewrite"
      /\ buf' = [buf EXCEPT ![a] = kept \cup {Line(p)}]
      /\ torn' = IF buf[a] = poll[p].seen THEN torn ELSE torn \cup {a}
      /\ astray' = astray \cup Writers(a)
      /\ Log(p, "digest", poll[p].st, Wanted(p))
      /\ UNCHANGED <<now, conf, prefs, feed, stored, ticks, got, cut, lost, faults>>

\* The buffer cannot be opened or written.
EnqueueFails(p) ==
  /\ \/ Deciding(p) /\ Passes(p) /\ ~Direct(p)
     \/ poll[p].pc \in {"append", "rewrite"}
  /\ Fault
  /\ astray' = astray \ {p}
  /\ Log(p, "digest", "failed", Wanted(p))
  /\ UNCHANGED <<now, conf, prefs, feed, stored, buf, ticks, got, cut, torn, lost>>

\* One more arrival, counted to two.
Arrives(e, a) == [got EXCEPT ![<<e, a>>] = IF @ = 2 THEN 2 ELSE @ + 1]

Acknowledged == IF conf.sink = "log" THEN "dryrun" ELSE "sent"

\* The channel delivers the message (a log sink only writes it to the trace).
Pushed(p) ==
  /\ poll[p].pc = "send"
  /\ got' = IF conf.sink = "log" THEN got ELSE Arrives(poll[p].e, poll[p].a)
  /\ Log(p, "sink", Acknowledged, High)
  /\ UNCHANGED <<now, conf, prefs, feed, stored, buf, ticks, cut, torn, lost, astray,
                 faults>>

\* The channel fails: a single channel reports it, the multi-channel sink writes
\* the message to the trace and reports success.
PushFails(p) ==
  /\ poll[p].pc = "send" /\ conf.sink # "log"
  /\ Fault
  /\ Log(p, "sink", IF conf.sink = "channel" THEN "failed" ELSE Acknowledged, High)
  /\ UNCHANGED <<now, conf, prefs, feed, stored, buf, ticks, got, cut, torn, lost,
                 astray>>

\* The pairs whose dispatch dies with the poller's task or poll.
InProgress(p) ==
  {<<poll[p].e, a>> : a \in (poll[p].todo \cup {poll[p].a}) \ {None}}

TimeOutOfJudge(p) ==                             \* mutant: no timeout on a send
  /\ poll[p].pc = "judge"
  /\ poll' = [poll EXCEPT ![p] = Idle]
  /\ cut' = cut \cup InProgress(p)
  /\ UNCHANGED <<now, conf, prefs, feed, stored, log, buf, ticks, got, torn, lost,
                 astray, faults>>

\* The poll's timeout fires at an await; a message under way may still arrive.
TimeOut(p) ==
  /\ poll[p].pc \in {"judge", "send"}
  /\ poll' = [poll EXCEPT ![p] = Idle]
  /\ cut' = cut \cup InProgress(p)
  /\ \/ UNCHANGED got
     \/ poll[p].pc = "send" /\ conf.sink # "log" /\ got' = Arrives(poll[p].e, poll[p].a)
  /\ UNCHANGED <<now, conf, prefs, feed, stored, log, buf, ticks, torn, lost, astray,
                 faults>>

AdvanceTime ==
  /\ now < conf.until /\ now' = now + 1
  /\ UNCHANGED <<conf, prefs, feed, stored, log, buf, poll, ticks, got, cut, torn,
                 lost, astray, faults>>

-----------------------------------------------------------------------------
Init ==
  /\ \E s \in Setups :
       /\ conf = s.conf /\ prefs = s.prefs /\ feed = s.feed /\ now = s.conf.from
  /\ stored = {} /\ log = {} /\ buf = [a \in Actors |-> {}]
  /\ poll = [p \in Pollers |-> Idle] /\ ticks = NoTicks
  /\ got = [x \in Events \X Actors |-> 0]
  /\ cut = {} /\ torn = {} /\ lost = {} /\ astray = {} /\ faults = 0

\* Steps the task of a poller takes by itself, and the answers it waits for.
Work(p) ==
  \/ PassOver(p) \/ Insert(p) \/ PickActor(p)
  \/ Filter(p) \/ Hold(p) \/ Push(p)
  \/ OpenBuffer(p) \/ AppendLine(p) \/ ReadBuffer(p) \/ Rewrite(p) \/ EnqueueFails(p)
Answer(p) == Judged(p) \/ Pushed(p) \/ PushFails(p)

PollerStep(p) == Poll(p) \/ Work(p) \/ Answer(p) \/ TimeOut(p)
=============================================================================
