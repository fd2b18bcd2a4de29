---------------------------- MODULE RouterPolicy ----------------------------
(* The decisions of hone-event-engine that read no table: severity policy,   *)
(* user preferences, freshness, quiet hours, digest floor.                   *)
(* A market event is an id e with a constant record EventOf[e]; severities   *)
(* are ranks.  Instants and durations are counted in ticks, DayLen of them   *)
(* to a day.                                                                 *)
EXTENDS Integers, FiniteSets

CONSTANTS
  Events,         \* event ids (countdown ids of the digest among them)
  EventOf,        \* id -> record, see EventFields
  None,           \* an absent value
  DayLen,         \* ticks in a day
  PriceLife, Week52Life, SocialLife,   \* shelf lives
  MacroGrace, MacroAhead,              \* a High macro event is due in between
  FarPreview,     \* an earnings preview more days ahead than this is Low
  MinDirectPct,   \* smallest move a price override may push for a small position
  CloseDirect     \* are High closing prices pushed at once?

Low == 1
Medium == 2
High == 3
Severities == Low..High

Kinds == {"price", "week52", "news", "social", "filing", "preview", "earnings",
          "transcript", "macro", "corporate", "analyst"}

(* What the code reads of an event: window and band of a price alert, bps and *)
(* signed pct of its move, is the position large, head (first symbol), source *)
(* class, legal-ad mark in the payload or the text, a no-op analyst grade,    *)
(* firm and article, the kinds its text correlates with, and for a synthetic  *)
(* countdown the preview it announces and the day it is for.                  *)
EventFields ==
  [kind : Kinds, sev : Severities, syms : SUBSET STRING, head : STRING \cup {None},
   at : Int, source : STRING, class : {"trusted", "uncertain", "lowsignal"},
   legal : {"no", "payload", "text"}, noop : BOOLEAN, close : BOOLEAN,
   band : Nat \cup {None}, pct : Int \cup {None}, large : BOOLEAN,
   firm : STRING \cup {None}, url : STRING \cup {None}, hints : SUBSET Kinds,
   teaser : Events \cup {None}, day : Int]

ASSUME PolicyAssumption ==
  /\ DayLen \in Nat \ {0}
  /\ EventOf \in [Events -> EventFields]

Day(t) == t \div DayLen
DayStart(t) == Day(t) * DayLen

-----------------------------------------------------------------------------
\* The buckets of the daily cap and of the cooldown.
Category(e) ==
  CASE EventOf[e].kind \in {"price", "week52"} -> "price"
    [] EventOf[e].kind \in {"news", "social"} -> "news"
    [] EventOf[e].kind \in {"preview", "earnings", "transcript"} -> "earnings"
    [] OTHER -> EventOf[e].kind

IsBand(e) == EventOf[e].kind = "price" /\ ~EventOf[e].close /\ EventOf[e].band # None
IsClose(e) == EventOf[e].kind = "price" /\ EventOf[e].close
Up(e) == EventOf[e].pct >= 0

\* Severity after the policy that holds for every actor, from severity s.
SystemPolicy(e, s, now) ==
  LET ad == IF EventOf[e].legal # "no" THEN Low ELSE s
      due == EventOf[e].at \in (now - MacroGrace)..(now + MacroAhead)
      soon == IF EventOf[e].kind = "macro" /\ ad = High /\ ~due THEN Medium ELSE ad
  IN  IF EventOf[e].kind = "preview" /\ Day(EventOf[e].at) - Day(now) > FarPreview
      THEN Low ELSE soon

\* The user's own thresholds and immediate kinds raise a severity to High.
PriceOverride(e, pr) ==
  LET user == IF EventOf[e].pct # None /\ ~Up(e) THEN pr.pctDown ELSE pr.pctUp
      move == IF Up(e) THEN EventOf[e].pct ELSE -EventOf[e].pct
  IN  /\ EventOf[e].kind = "price" /\ EventOf[e].pct # None /\ user # None
      /\ move >= user
      /\ EventOf[e].large \/ move >= MinDirectPct

KindOverride(e, s, pr) ==
  /\ EventOf[e].kind \in pr.immediate
  /\ ~(EventOf[e].kind = "news" /\ s = Low)
  /\ ~EventOf[e].noop

ActorOverride(e, s, pr) ==
  IF PriceOverride(e, pr) \/ KindOverride(e, s, pr) THEN High ELSE s

\* Quiet mode lets only hard signals through at once.
QuietMode(e, s, pr) ==
  IF /\ pr.quietMode /\ s = High
     /\ EventOf[e].kind \notin {"earnings", "transcript", "filing"}
     /\ EventOf[e].kind = "price" => EventOf[e].close
  THEN Medium ELSE s

\* Severity for one actor, from the event's severity s.
ActorSeverity(e, s, pr) ==
  LET q == QuietMode(e, ActorOverride(e, s, pr), pr)
  IN  IF IsClose(e) /\ ~CloseDirect /\ q = High THEN Medium ELSE q

\* NotificationPrefs::should_deliver of an event of severity s.
ShouldDeliver(e, s, pr) ==
  /\ pr.enabled
  /\ s >= pr.minSev
  /\ pr.portfolioOnly => EventOf[e].syms # {}
  /\ EventOf[e].source \in pr.sources
  /\ EventOf[e].kind \in pr.kinds

\* Low news and posts of an uncertain source are put to the classifier.
AsksClassifier(e, s) ==
  /\ EventOf[e].kind \in {"news", "social"} /\ s = Low
  /\ EventOf[e].class = "uncertain" /\ EventOf[e].legal # "payload"

-----------------------------------------------------------------------------
ShelfLife(e) ==
  CASE EventOf[e].kind = "price" -> PriceLife
    [] EventOf[e].kind = "week52" -> Week52Life
    [] EventOf[e].kind = "social" -> SocialLife
    [] OTHER -> None

Fresh(e, now) == ShelfLife(e) = None \/ now - EventOf[e].at < ShelfLife(e)

\* Local time of an actor, tz ticks ahead of the engine's own zone.
MinuteOf(pr, t) == (t + pr.tz) % DayLen
DateOf(pr, t) == Day(t + pr.tz)

\* EffectiveTz::in_quiet_window: [from, to) around midnight, empty if equal.
InQuiet(q, m) ==
  IF q.from <= q.to THEN m >= q.from /\ m < q.to ELSE m >= q.from \/ m < q.to

Quiet(pr, t) == pr.quiet # None /\ InQuiet(pr.quiet, MinuteOf(pr, t))
FlushDue(pr, t) == pr.quiet # None /\ MinuteOf(pr, t) = pr.quiet.to

\* The digest keeps one price line per symbol and trade date.
PriceKey(e) ==
  IF EventOf[e].kind = "price" /\ EventOf[e].head # None
  THEN <<EventOf[e].head, Day(EventOf[e].at)>> ELSE None

\* classify_floor: what a slot digest keeps whatever curation says.
Floor(e, s, pr) ==
  \/ s = High
  \/ EventOf[e].teaser # None
  \/ EventOf[e].kind \in pr.immediate /\ ~EventOf[e].noop

\* should_omit_from_digest, without the look at the source's quality.
AlwaysOmitted(e, s, now, ahead) ==
  /\ s # High
  /\ \/ EventOf[e].noop
     \/ EventOf[e].kind = "macro" /\ (s = Low \/ EventOf[e].at > now + ahead)
     \/ EventOf[e].kind = "news" /\ (s = Low \/ EventOf[e].class = "lowsignal")
=============================================================================
