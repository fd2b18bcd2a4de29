---------------------------- MODULE UnifiedDigest ----------------------------
(* The digest scheduler of hone-event-engine, over the router and the store. *)
(*                                                                           *)
(* One task ticks about once a minute.  For every actor it either does       *)
(* nothing (quiet hours), flushes what the quiet hours held back, or, at a   *)
(* slot, drains the buffer, adds earnings countdowns and globally picked     *)
(* news, curates, and sends one message.  What was already fired today and   *)
(* the picks of a slot are kept in memory only.  A tick awaits language      *)
(* models and channels, and a minute that passes meanwhile is never looked   *)
(* at again.                                                                 *)
EXTENDS EventRouter

CONSTANTS
  HeldWindow,     \* how far back a flush looks for held events (12 h)
  MinGap,         \* ticks between two digests of an actor; 0 for none
  MaxItems,       \* items of one digest; 0 for no limit
  PickWindow,     \* how far back global news is a candidate
  MacroHorizon,   \* macro events further ahead are left out of digests (48 h)
  PrefChoices     \* preferences a user may switch to

\* All preferences there are.
Prefs == PrefChoices \cup UNION {{s.prefs[a] : a \in Actors} : s \in Setups}

\* A digest's own row has an id of its own, a zone is a number of ticks, and no source
\* returns a countdown, which only the scheduler makes up.
ASSUME DigestAssumption ==
  /\ {"slot", "flush"} \cap Events = {} /\ {MinGap, HeldWindow} \subseteq Nat
  /\ \A pr \in Prefs : pr.tz \in Int
  /\ \A s \in Setups, p \in Pollers : \A i \in DOMAIN s.feed[p] :
       \A j \in DOMAIN s.feed[p][i] : EventOf[s.feed[p][i][j]].teaser = None

VARIABLES
  sched,          \* state of the scheduler's task
  fired,          \* <<actor, date, what>> done today, in memory
  firedOn,        \* the day fired and picks belong to
  lastTick,       \* the minute of the process's last tick
  picks,          \* slot key -> candidates ranked for it, in memory
  edits, crashes, \* so far
  late            \* ghost: actors whose flush reached into the next one's window

digestVars == <<sched, fired, firedOn, lastTick, picks, edits, crashes, late>>
vars == <<routerVars, digestVars>>

\* The task between two ticks.
Resting == [pc |-> "idle", t |-> 0, due |-> {}, todo |-> {}, a |-> None,
            pr |-> None, what |-> None, mine |-> {}, world |-> {}, omit |-> {}]

\* Items of a digest: own ones (buffered, held, countdowns) and picked ones.
Own(e, s) == [e |-> e, sev |-> s, world |-> FALSE]
Picked(e) == [e |-> e, sev |-> EventOf[e].sev, world |-> TRUE]

-----------------------------------------------------------------------------
(* Queries of the store.                                                     *)

HeldRows(a, since) ==
  {r \in log : r.a = a /\ r.ch = "sink" /\ r.st = "quiet_held" /\ r.at >= since}

HeldAfter(a, since) ==                           \* mutant: > for >=
  {r.e : r \in HeldRows(a, since + 1)} \cap stored
Held(a, since) == {r.e : r \in HeldRows(a, since)} \cap stored

\* Digests that went out to a, at or after an instant.
DigestsSince(a, since) ==
  {r \in log : r.a = a /\ r.ch = "digest" /\ Delivered(r) /\ r.at >= since}

PushedSince(a, since) ==                         \* mutant: looks at pushes only
  {r.e : r \in {r \in log : r.a = a /\ r.ch = "sink" /\ Delivered(r) /\ r.at >= since}}
DeliveredSince(a, since) ==
  {r.e : r \in {r \in log : r.a = a /\ Delivered(r) /\ r.at >= since}}

\* The candidate filter asks for rows of the channel "global_digest".
Broadcast(since) ==
  {r.e : r \in {r \in log : r.ch = "global_digest" /\ Delivered(r) /\ r.at >= since}}

\* Trusted news of the window that no digest broadcast.
Candidates(t) ==
  {e \in stored \ Broadcast(t - PickWindow - 2) :
     /\ EventOf[e].kind = "news" /\ EventOf[e].class = "trusted"
     /\ EventOf[e].legal # "payload"
     /\ EventOf[e].at >= t - PickWindow /\ EventOf[e].at < t}

\* Countdowns due today, for stored previews still ahead, by actor.
Countdowns(t) ==
  {x \in Events \X Actors :
     LET c == x[1] IN
     /\ EventOf[c].teaser \in stored /\ EventOf[c].day = Day(t)
     /\ EventOf[EventOf[c].teaser].at >= t /\ x[2] \in Resolve(c)}

\* A pick is off an actor's focus if it is about other symbols than theirs.
InFocus(e, a) ==
  Holds[a] = {} \/ EventOf[e].syms = {} \/ EventOf[e].syms \cap Holds[a] # {}

-----------------------------------------------------------------------------
(* A tick.                                                                   *)

Minute(a) == MinuteOf(prefs[a], sched.t)
Date(a) == DateOf(prefs[a], sched.t)
Key(a, what) == <<a, Date(a), Minute(a), what>>

Serving(a) == sched.pc = "visit" /\ a \in sched.todo
AtFlush(a) == ~Quiet(prefs[a], sched.t) /\ FlushDue(prefs[a], sched.t)
AtSlot(a) ==
  /\ ~Quiet(prefs[a], sched.t) /\ ~FlushDue(prefs[a], sched.t)
  /\ Minute(a) \in prefs[a].slots

\* The task goes on to the actors that are left, or rests.
Leave(todo) ==
  IF todo = {} THEN Resting
  ELSE [Resting EXCEPT !.pc = "visit", !.t = sched.t, !.due = sched.due, !.todo = todo]

\* At most once a minute; a new day empties fired and picks.  Everyone with a
\* portfolio is visited, and so is everyone with a buffer or a held event.
Tick ==
  /\ sched.pc = "idle" /\ now > lastTick /\ now \in conf.wakes
  /\ lastTick' = now
  /\ sched' = [Resting EXCEPT !.pc = "visit", !.t = now, !.due = Countdowns(now),
                              !.todo = conf.users]
  /\ IF Day(now) = firedOn THEN UNCHANGED <<fired, firedOn, picks>>
     ELSE fired' = {} /\ picks' = {} /\ firedOn' = Day(now)
  /\ UNCHANGED <<routerVars, edits, crashes, late>>

\* Quiet hours, nothing due at this minute, or done already.
Skip(a) ==
  /\ Serving(a)
  /\ ~(AtFlush(a) /\ Key(a, "flush") \notin fired)
  /\ ~(AtSlot(a) /\ Key(a, "slot") \notin fired)
  /\ sched' = Leave(sched.todo \ {a})
  /\ UNCHANGED <<routerVars, fired, firedOn, lastTick, picks, edits, crashes, late>>

RecentDigestAfter(a) ==                          \* mutant: > for >=
  MinGap > 0 /\ DigestsSince(a, sched.t - MinGap + 1) # {}

\* A digest went out less than MinGap ago: the slot is over, the buffer stays.
RecentDigest(a) == MinGap > 0 /\ DigestsSince(a, sched.t - MinGap) # {}

TooSoon(a) ==
  /\ Serving(a) /\ AtSlot(a) /\ Key(a, "slot") \notin fired /\ RecentDigest(a)
  /\ fired' = fired \cup {Key(a, "slot")}
  /\ sched' = Leave(sched.todo \ {a})
  /\ UNCHANGED <<routerVars, firedOn, lastTick, picks, edits, crashes, late>>

-----------------------------------------------------------------------------
(* Composing a digest.                                                       *)

\* Curation may leave out what is neither floor nor High (its caps and its topic
\* memory are not modelled) and must leave out plain noise.
MayOmit(items, floor, omit) ==
  /\ omit \subseteq {i \in items \ floor : i.sev # High}
  /\ \A i \in items \ floor : AlwaysOmitted(i.e, i.sev, sched.t, MacroHorizon) => i \in omit

\* Of what is left at most MaxItems are sent, the floor first.
MayTruncate(left, floor, cutoff) ==
  /\ cutoff \subseteq left
  /\ IF MaxItems > 0 /\ Cardinality(left) > MaxItems
     THEN /\ Cardinality(left \ cutoff) = MaxItems
          /\ cutoff \cap floor # {} => left \ cutoff \subseteq floor
     ELSE cutoff = {}

OmitRowsNone(a, omit) == {}                      \* mutant: omits without a row
OmitRows(a, omit) == {Row(i.e, a, "digest_item", "omitted", i.sev) : i \in omit}

\* The digest of a is cut down and handed to the channel, unless nothing is left;
\* rows are the ones written on the way.
Compose(a, pr, what, items, floor, world, rows) ==
  \E omit \in SUBSET items :
    /\ MayOmit(items, floor, omit)
    /\ IF items = omit
       THEN /\ log' = log \cup rows \cup OmitRows(a, omit)
            /\ sched' = Leave(sched.todo \ {a})
       ELSE \E cutoff \in SUBSET (items \ omit) :
              /\ MayTruncate(items \ omit, floor, cutoff)
              /\ log' = log \cup rows
              /\ sched' = [sched EXCEPT
                    !.pc = "send", !.todo = @ \ {a}, !.a = a, !.pr = None,
                    !.what = what, !.mine = items \ (omit \cup cutoff),
                    !.world = world, !.omit = omit \cup cutoff]

\* The lines of a's buffer are taken.  The file is renamed, which leaves behind those
\* who have it open, and read; the rename may fail, and the read at any line.
Drain(a, lines) ==
  \/ /\ lines = buf[a] /\ buf' = [buf EXCEPT ![a] = {}]
     /\ astray' = astray \cup Writers(a)
     /\ UNCHANGED <<lost, faults>>
  \/ /\ Fault /\ lines = {}
     /\ UNCHANGED <<buf, lost, astray>>
  \/ /\ Fault /\ lines \in SUBSET buf[a] /\ buf' = [buf EXCEPT ![a] = {}]
     /\ astray' = astray \cup Writers(a)
     /\ lost' = lost \cup {<<l.e, a>> : l \in buf[a] \ lines}

\* At the end of the quiet hours: held events still fresh, and held prices as a
\* recap, go out with the buffer; other stale ones are dropped.
FlushLines(a, drained) ==
  LET held == Held(a, sched.t - HeldWindow)
      stale == {e \in held : ~Fresh(e, sched.t) /\ EventOf[e].kind # "price"}
      all == {Own(e, EventOf[e].sev) : e \in held \ stale}
               \cup {Own(l.e, l.sev) : l \in {l \in drained : l.e \notin held \ stale}}
      items == {i \in all : ShouldDeliver(i.e, i.sev, prefs[a])}
  IN  Compose(a, prefs[a], "flush", items, {}, {},
              {Row(e, a, "sink", "quiet_dropped", EventOf[e].sev) : e \in stale})

Flush(a) ==
  /\ Serving(a) /\ AtFlush(a) /\ Key(a, "flush") \notin fired
  /\ fired' = fired \cup {Key(a, "flush")}
  /\ late' = IF now < sched.t + DayLen - HeldWindow THEN late ELSE late \cup {a}
  /\ \E drained \in SUBSET buf[a] : Drain(a, drained) /\ FlushLines(a, drained)
  /\ UNCHANGED <<now, conf, prefs, feed, stored, poll, ticks, got, cut, torn, firedOn,
                 lastTick, picks, edits, crashes>>

\* A slot drains the buffer and takes the countdowns not delivered today.
OpenSlot(a) ==
  LET new == {x[1] : x \in {x \in sched.due : x[2] = a}}
               \ DeliveredSince(a, DayStart(sched.t))
  IN  /\ Serving(a) /\ AtSlot(a) /\ Key(a, "slot") \notin fired /\ ~RecentDigest(a)
      /\ fired' = fired \cup {Key(a, "slot")}
      /\ \E drained \in SUBSET buf[a] :
           /\ Drain(a, drained)
           /\ sched' = [sched EXCEPT !.pc = "curate", !.todo = @ \ {a}, !.a = a,
                          !.pr = prefs[a],
                          !.mine = {Own(l.e, l.sev) : l \in drained}
                                     \cup {Own(c, Medium) : c \in new}]
      /\ UNCHANGED <<now, conf, prefs, feed, stored, log, poll, ticks, got, cut, torn,
                     firedOn, lastTick, picks, edits, crashes, late>>

\* The candidates ranked for a slot: cached, or chosen now by the curator; none
\* without a curator or when one of its steps fails.
SlotKey == <<DateOf(sched.pr, sched.t), MinuteOf(sched.pr, sched.t)>>
RankedChoices ==
  IF \E c \in picks : c.key = SlotKey THEN {c.ranked : c \in {c \in picks : c.key = SlotKey}}
  ELSE SUBSET (IF conf.curator THEN Candidates(sched.t) ELSE {})

\* The digest of the user's own items and the world's news picked for them, macro
\* among it as floor.
Serve(a, pr, world, macro) ==
  LET liked == {e \in world : ShouldDeliver(e, EventOf[e].sev, pr)}
      items == {i \in sched.mine : ShouldDeliver(i.e, i.sev, pr)}
                 \cup {Picked(e) : e \in {e \in liked : InFocus(e, a)}}
      floor == {i \in items : Floor(i.e, i.sev, pr) \/ (i.world /\ i.e \in macro)}
  IN  Compose(a, pr, "slot", items, floor, world,
              {Row(e, a, "global_digest_item", "filtered_focus", EventOf[e].sev) :
                 e \in {e \in liked : ~InFocus(e, a)}})

\* The curator personalises the ranked news and the slot's digest is composed.
Curate ==
  /\ sched.pc = "curate"
  /\ \E ranked \in RankedChoices :
       /\ picks' = IF conf.curator
                   THEN picks \cup {[key |-> SlotKey, ranked |-> ranked]} ELSE picks
       /\ \E world \in SUBSET ranked : \E macro \in SUBSET world :
            Serve(sched.a, sched.pr, world, macro)
  /\ UNCHANGED <<now, conf, prefs, feed, stored, buf, poll, ticks, got, cut, torn,
                 lost, astray, faults, fired, firedOn, lastTick, edits, crashes,
                 late>>

-----------------------------------------------------------------------------
(* Sending.                                                                  *)

\* The row of the whole digest; nothing reads the severity it is given.
BatchRow(st) == Row(sched.what, sched.a, "digest", st, None)

\* The rows of a digest that went out.
SentRows(st) ==
  LET a == sched.a
      ids == {i.e : i \in sched.mine}
  IN  {BatchRow(st)}
        \cup {Row(i.e, a, "digest_item", st, i.sev) : i \in sched.mine}
        \cup {Row(e, a, "global_digest_item", st, EventOf[e].sev) :
                e \in sched.world \cap ids}
        \cup OmitRows(a, sched.omit)

DigestSent ==
  /\ sched.pc = "send"
  /\ log' = log \cup SentRows(Acknowledged)
  /\ got' = IF conf.sink = "log" THEN got
            ELSE [x \in Events \X Actors |->
                    IF x[2] = sched.a /\ \E i \in sched.mine : i.e = x[1] /\ ~i.world
                    THEN Arrives(x[1], x[2])[x] ELSE got[x]]
  /\ sched' = Leave(sched.todo)
  /\ UNCHANGED <<now, conf, prefs, feed, stored, buf, poll, ticks, cut, torn, lost,
                 astray, faults, fired, firedOn, lastTick, picks, edits, crashes,
                 late>>

\* A single channel fails: the batch is logged as failed and its items are gone.
\* The multi-channel sink writes the digest to the trace and reports success.
DigestFails ==
  /\ sched.pc = "send" /\ conf.sink # "log"
  /\ Fault
  /\ log' = log \cup IF conf.sink = "multi" THEN SentRows("sent")
                     ELSE {BatchRow("failed")}
  /\ sched' = Leave(sched.todo)
  /\ UNCHANGED <<now, conf, prefs, feed, stored, buf, poll, ticks, got, cut, torn,
                 lost, astray, fired, firedOn, lastTick, picks, edits, crashes, late>>

-----------------------------------------------------------------------------
\* A user changes preferences.
EditPrefs(a) ==
  /\ edits < conf.edits /\ edits' = edits + 1
  /\ \E pr \in PrefChoices : prefs' = [prefs EXCEPT ![a] = pr]
  /\ UNCHANGED <<now, conf, feed, stored, log, buf, poll, ticks, got, cut, torn, lost,
                 astray, faults, sched, fired, firedOn, lastTick, picks, crashes,
                 late>>

\* The process stops and starts again: tasks and memory start afresh, the tables
\* and the buffer files stay.
Crash ==
  /\ crashes < conf.crashes /\ crashes' = crashes + 1
  /\ poll' = [p \in Pollers |-> Idle]
  /\ cut' = cut \cup UNION {InProgress(p) : p \in Pollers}
  /\ ticks' = NoTicks /\ astray' = {}
  /\ sched' = Resting /\ fired' = {} /\ firedOn' = None /\ lastTick' = -1 /\ picks' = {}
  /\ UNCHANGED <<now, conf, prefs, feed, stored, log, buf, got, torn, lost, faults,
                 edits, late>>

DigestInit ==
  /\ Init
  /\ sched = Resting /\ fired = {} /\ firedOn = None /\ lastTick = -1 /\ picks = {}
  /\ edits = 0 /\ crashes = 0 /\ late = {}

RouterStep ==
  /\ AdvanceTime \/ \E p \in Pollers : PollerStep(p)
  /\ UNCHANGED digestVars

SchedulerStep ==
  \/ Tick \/ Curate \/ DigestSent \/ DigestFails
  \/ \E a \in Actors : Skip(a) \/ TooSoon(a) \/ Flush(a) \/ OpenSlot(a)

Next == RouterStep \/ SchedulerStep \/ Crash \/ \E a \in Actors : EditPrefs(a)

Spec == DigestInit /\ [][Next]_vars

\* Poller tasks are run by the runtime, and a poll's timeout fires; nothing is
\* assumed of the classifier and the channel.
FairSpec ==
  Spec /\ \A p \in Pollers : WF_vars((Work(p) \/ TimeOut(p)) /\ UNCHANGED digestVars)
-----------------------------------------------------------------------------
(* Properties.                                                               *)

Channels == {"prefs", "router", "sink", "digest", "digest_item", "global_digest_item"}
QueueStatuses == {"queued", "capped", "price_low_advance", "cooled_down"}
Statuses == QueueStatuses \cup
            {"filtered", "no_actor", "quiet_held", "quiet_dropped", "sent", "dryrun",
             "failed", "omitted", "filtered_focus"}
Rows == [e : Events \cup {"slot", "flush"}, a : Actors \cup {None}, ch : Channels,
         st : Statuses, sev : Severities \cup {None}, at : Nat]
Lines == [e : Events, sev : Severities]
Items == [e : Events, sev : Severities, world : BOOLEAN]

\* What the tasks keep between their steps.
PollStates == [pc : {"idle", "insert", "route", "judge", "decide", "send", "append",
                     "rewrite"},
               batch : Seq(Events), e : Events \cup {None}, sev : Severities,
               todo : SUBSET Actors, a : Actors \cup {None}, asev : Severities,
               pr : Prefs \cup {None}, st : Statuses \cup {None}, seen : SUBSET Lines]
SchedStates == [pc : {"idle", "visit", "curate", "send"}, t : Nat,
                due : SUBSET (Events \X Actors), todo : SUBSET Actors,
                a : Actors \cup {None}, pr : Prefs \cup {None},
                what : {"slot", "flush", None}, mine : SUBSET Items,
                world : SUBSET Events, omit : SUBSET Items]

\* A dispatch under way concerns a stored event and one actor at a time.
PollOK(x, known) ==
  /\ x.pc \in {"idle", "insert"} => x.todo = {} /\ x.a = None
  /\ x.pc # "idle" => x.batch # <<>>
  /\ x.pc \notin {"idle", "insert"} => x.e \in known
  /\ x.pc = "route" => x.a = None /\ x.todo # {}
  /\ x.pc \in {"judge", "decide", "send", "append", "rewrite"} => x.a \in Actors \ x.todo
  /\ x.pc \in {"append", "rewrite"} => x.st \in QueueStatuses

\* The scheduler visits actors, or composes and sends the digest of one.
SchedOK(x) ==
  /\ x.pc \in {"curate", "send"} => x.a \in Actors
  /\ x.pc = "send" => x.what \in {"slot", "flush"}

\* Types of the tables, the buffers and the tasks.
TypeOK ==
  /\ now \in Nat /\ conf \in {s.conf : s \in Setups} /\ prefs \in [Actors -> Prefs]
  /\ feed \in [Pollers -> Seq(Seq(Events))]
  /\ stored \subseteq Events /\ log \subseteq Rows
  /\ buf \in [Actors -> SUBSET Lines]
  /\ poll \in [Pollers -> PollStates] /\ \A p \in Pollers : PollOK(poll[p], stored)
  /\ ticks \in [all : Nat, by : [Symbols -> Nat]]
  /\ got \in [Events \X Actors -> 0..2]
  /\ cut \subseteq stored \X Actors /\ torn \subseteq Actors
  /\ lost \subseteq Events \X Actors /\ astray \subseteq Pollers
  /\ sched \in SchedStates /\ SchedOK(sched) /\ late \subseteq Actors
  /\ \A c \in picks : c.ranked \subseteq stored

\* The pushes to a in category c whose answer is awaited.
InFlight(a, c) ==
  {p \in Pollers : poll[p].pc = "send" /\ poll[p].a = a /\ Category(poll[p].e) = c}

\* However the pollers interleave, a user gets no more High pushes of a category in
\* a day than the cap and one for each other poller: the cap is counted before an
\* awaited send and the row written after it (dispatch.rs).
CapCeiling ==
  HighCap > 0 =>
    \A a \in Actors, c \in {Category(e) : e \in stored} :
      Cardinality(HighSentOf(a, c, DayStart(now))) + Cardinality(InFlight(a, c))
        <= HighCap + Cardinality(Pollers) - 1

\* The rows that end the dispatch of e to a.
Fates(e, a) ==
  {r \in log : /\ r.e = e /\ r.a = a /\ r.ch \in {"prefs", "sink", "digest"}
               /\ r.st # "quiet_dropped"}

\* The dispatch of e to a is under way in one poller, ended with one row, or was cut.
Accounted(e, a) ==
  LET busy == {p \in Pollers : <<e, a>> \in InProgress(p)}
  IN  /\ \A p, q \in busy : p = q
      /\ \A r, q \in Fates(e, a) : r = q
      /\ \/ busy # {} /\ Fates(e, a) = {} /\ <<e, a>> \notin cut
         \/ busy = {} /\ Fates(e, a) # {} /\ <<e, a>> \notin cut
         \/ busy = {} /\ Fates(e, a) = {} /\ <<e, a>> \in cut

\* For every stored event and every actor it concerns the dispatch is under way,
\* ended with exactly one row, or was cut off by a timeout or a crash: duplicates
\* from overlapping polls are not dispatched again and no error skips an actor.
OneFate ==
  \A e \in stored, a \in Actors :
    EventOf[e].kind \notin Disabled /\ a \in Resolve(e) => Accounted(e, a)

\* Two different pushed events of one source, one after the other to the same actor.
PushedPairs ==
  {x \in log \X log :
     /\ x[1].e # x[2].e /\ x[1].a = x[2].a /\ x[1].at <= x[2].at
     /\ \A r \in {x[1], x[2]} : r.ch = "sink" /\ r.st = "sent"
     /\ EventOf[x[1].e].source = EventOf[x[2].e].source}

\* Pushes from one source on a symbol are more than the cooldown apart, also over a
\* restart and midnight; only pollers of two sources can race each other.
CooldownKept ==
  Cooldown > 0 =>
    \A x \in PushedPairs :
      LET e == x[1].e
          f == x[2].e
      IN  /\ ~IsBand(e) /\ ~IsBand(f) /\ Category(e) = Category(f)
          /\ EventOf[e].syms \cap EventOf[f].syms # {}
          /\ EventOf[e].firm = EventOf[f].firm
          => x[2].at - x[1].at > Cooldown

\* The price bands pushed to a user in a day, for a symbol and direction, lie at
\* least the minimum advance apart.
BandsClimb ==
  \A x \in PushedPairs :
    LET e == x[1].e
        f == x[2].e
    IN  /\ IsBand(e) /\ IsBand(f) /\ EventOf[e].head = EventOf[f].head
        /\ Up(e) = Up(f) /\ Day(x[1].at) = Day(x[2].at)
        => \/ EventOf[e].band >= EventOf[f].band + MinAdvance
           \/ EventOf[f].band >= EventOf[e].band + MinAdvance

\* The scheduler has e in hand for a.
InHand(e, a) == sched.a = a /\ \E i \in sched.mine \cup sched.omit : i.e = e

BatchFailed(a, since) ==
  \E r \in log : /\ r.a = a /\ r.ch = "digest" /\ r.e \in {"slot", "flush"}
                 /\ r.st = "failed" /\ r.at >= since

\* What the log says was queued is in the buffer, in the scheduler's hands, or
\* delivered or omitted with a row; it is only lost to a newer price of its key, a
\* failed batch, a torn rewrite, a restart, an edit of the preferences, or a line that
\* no drain can read: left behind in a file already taken away, run into another
\* writer's, or cut off by a failing read.  (digest/buffer.rs:4-5 has it that the rename
\* leaves no race between reader and writer; without this last exception the property
\* fails.)
QueuedIsKept ==
  \A r \in log :
    /\ r.ch = "digest" /\ r.e \in Events /\ r.st # "failed"
    /\ crashes = 0 /\ edits = 0 /\ r.a \notin torn /\ <<r.e, r.a>> \notin lost
    => \/ \E l \in buf[r.a] : l.e = r.e
       \/ InHand(r.e, r.a)
       \/ \E d \in log : d.e = r.e /\ d.a = r.a /\ d.ch = "digest_item"
       \/ \E q \in log : /\ q.a = r.a /\ q.ch = "digest" /\ q.e \in Events \ {r.e}
                         /\ q.at >= r.at /\ PriceKey(q.e) = PriceKey(r.e)
                         /\ PriceKey(r.e) # None
       \/ BatchFailed(r.a, r.at)

\* Once the flush of a user's quiet hours is over, every event held in them is
\* delivered, omitted or dropped with a row, or was rejected by the preferences at
\* its stored severity, or its batch failed; nothing held stays behind.
HeldIsSettled ==
  \A k \in fired :
    LET a == k[1]
        flushed == k[2] * DayLen + k[3] - prefs[a].tz
    IN  k[4] = "flush" /\ sched.a # a /\ edits = 0 =>
          \A r \in HeldRows(a, flushed - HeldWindow) :
            r.at < flushed =>
              \/ \E d \in log : d.e = r.e /\ d.a = a
                                /\ (d.ch = "digest_item" \/ d.st = "quiet_dropped")
              \/ ~ShouldDeliver(r.e, EventOf[r.e].sev, prefs[a])
              \/ BatchFailed(a, flushed)

\* What concerns a user - a push, or an item of a digest from the user's own pool -
\* brings an event at most once, unless a process restarted in mid-flight, a buffer was
\* torn, preferences were edited, or a tick was so slow that its flush took what the next
\* day's flush takes again.  Global picks are not counted: they are meant to bring again
\* what a user had already (global_digest/collector.rs:9-10).
OneArrival ==
  \A e \in Events, a \in Actors :
    crashes = 0 /\ edits = 0 /\ a \notin torn \cup late => got[<<e, a>>] <= 1

\* A slot's digest follows the user's last digest, of a slot or a flush, by more
\* than the minimum gap, also over a restart.
GapKept ==
  MinGap > 0 =>
    \A r, q \in log :
      /\ r.a = q.a /\ r.ch = "digest" /\ q.ch = "digest" /\ Delivered(r) /\ Delivered(q)
      /\ r.e = "slot" /\ q.at < r.at
      => r.at - q.at > MinGap

\* Every poll ends: a hung classifier or channel ends with the poll's timeout.
PollsEnd == \A p \in Pollers : poll[p].pc # "idle" ~> poll[p].pc = "idle"
=============================================================================
