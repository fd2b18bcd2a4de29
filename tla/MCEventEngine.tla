---------------------------- MODULE MCEventEngine ----------------------------
(* TLC instances of UnifiedDigest: events, preferences and scenarios.  A     *)
(* scenario starts a few polls under one configuration; one run explores all *)
(* of its scenarios.  A day has 6 ticks.                                     *)
EXTENDS UnifiedDigest

CONSTANTS p1, p2, ann, bob

News == [kind |-> "news", sev |-> Low, syms |-> {"A"}, head |-> "A", at |-> 0,
         source |-> "news", class |-> "trusted", legal |-> "no", noop |-> FALSE,
         close |-> FALSE, band |-> None, pct |-> None, large |-> FALSE, firm |-> None,
         url |-> None, hints |-> {"filing", "price"}, teaser |-> None, day |-> 0]
Filing == [News EXCEPT !.kind = "filing", !.sev = High, !.source = "sec"]
Move == [News EXCEPT !.kind = "price", !.sev = Medium, !.source = "quote", !.pct = 6]
Band(bps) == [Move EXCEPT !.sev = High, !.band = bps]
Grade == [News EXCEPT !.kind = "analyst", !.sev = High, !.source = "grades",
                      !.firm = "MS", !.url = "u"]
Split == [News EXCEPT !.kind = "corporate", !.sev = Medium, !.source = "splits"]
Preview6 == [News EXCEPT !.kind = "preview", !.sev = Medium, !.at = 6, !.source = "calendar"]
Wide == [News EXCEPT !.syms = {}, !.head = None, !.class = "uncertain"]
Post(channel) == [Wide EXCEPT !.kind = "social", !.source = channel]
On(r, s) == [r EXCEPT !.syms = {s}, !.head = s]

TheEvents ==
  [filingA |-> Filing, filingB |-> On(Filing, "B"), filingC |-> On(Filing, "C"),
   filingD |-> On(Filing, "D"), filingA2 |-> Filing,
   band4 |-> Band(400), band5 |-> Band(500), band6 |-> Band(600),
   move |-> Move, closing |-> [Move EXCEPT !.close = TRUE, !.sev = High, !.pct = -7],
   gradeMS |-> Grade, gradeGS |-> [Grade EXCEPT !.firm = "GS"],
   gradeNoop |-> [Grade EXCEPT !.sev = Medium, !.noop = TRUE, !.url = None],
   news |-> News, newsC |-> [On(News, "C") EXCEPT !.source = "rss"],
   rumour |-> [News EXCEPT !.class = "uncertain"],
   wire |-> [News EXCEPT !.class = "lowsignal", !.sev = Medium],
   ad |-> [News EXCEPT !.legal = "text", !.sev = High],
   post1 |-> Post("a"), post2 |-> Post("a"), post3 |-> Post("b"), post4 |-> Post("b"),
   macro |-> [Wide EXCEPT !.kind = "macro", !.sev = High, !.at = 12, !.source = "macro"],
   high52 |-> [News EXCEPT !.kind = "week52", !.sev = Medium, !.source = "quote"],
   dividend |-> [On(Split, "E") EXCEPT !.source = "dividends"], split |-> Split,
   call |-> [News EXCEPT !.kind = "transcript", !.sev = High, !.source = "calls"],
   preview |-> Preview6, far |-> [Preview6 EXCEPT !.at = 30],
   countdown |-> [Preview6 EXCEPT !.source = "synth", !.teaser = "preview"]]
TheEventIds == DOMAIN TheEvents

\* Everything is delivered and nothing is quiet; no digest.
Plain == [enabled |-> TRUE, minSev |-> Low, portfolioOnly |-> FALSE, kinds |-> Kinds,
          sources |-> {TheEvents[e].source : e \in TheEventIds}, immediate |-> {},
          quietMode |-> FALSE, pctUp |-> None, pctDown |-> None, quiet |-> None,
          slots |-> {}, tz |-> 0]
\* Quiet for three ticks around midnight; one digest a tick after they end.
Sleeper == [Plain EXCEPT !.quiet = [from |-> 5, to |-> 2, exempt |-> {"analyst"}],
                         !.slots = {3}, !.immediate = {"week52", "news"}]
Picky == [Plain EXCEPT !.minSev = Medium, !.portfolioOnly = TRUE, !.pctDown = 5,
                       !.quietMode = TRUE, !.slots = {1}]
TheChoices == {[Sleeper EXCEPT !.quiet.to = 3]}

TheHolds == [a \in {ann, bob} |-> IF a = ann THEN {"A", "B"} ELSE {"C"}]

Conf == [users |-> {ann}, sink |-> "multi", llm |-> FALSE, curator |-> FALSE,
         from |-> 0, until |-> 1, wakes |-> {}, faults |-> 1, edits |-> 0,
         crashes |-> 0]
Setup(x, y, pr, c) ==
  [feed |-> [p \in {p1, p2} |-> IF p = p1 THEN x ELSE y],
   prefs |-> [a \in {ann, bob} |-> pr], conf |-> c]

\* Posts of two channels race for the cap of a day, and the day ends.
CapRace == Setup(<<<<"post1", "post2">>>>, <<<<"post3", "post4">>>>,
                 [Plain EXCEPT !.immediate = {"social"}],
                 [Conf EXCEPT !.from = 5, !.until = 6, !.crashes = 1])
\* One event for two users, asked of the classifier, and a restart.
Fanout == Setup(<<<<"post1", "filingC">>, <<"post1">>>>, <<>>, Plain,
                [Conf EXCEPT !.users = {ann, bob}, !.sink = "log", !.llm = TRUE,
                             !.until = 0, !.wakes = {0}, !.crashes = 1])
\* Bands of one symbol, and filings and grades on it, over a restart.
Bands == Setup(<<<<"band4", "band5">>, <<"band6">>>>, <<>>, Plain,
               [Conf EXCEPT !.crashes = 1, !.until = 2])
Cooling == Setup(<<>>, <<<<"filingA">>, <<"filingA2", "filingA">>>>, Plain,
                 [Conf EXCEPT !.crashes = 1, !.from = 4, !.until = 7])
Articles == Setup(<<<<"gradeMS", "gradeGS">>, <<"gradeNoop">>>>, <<>>,
                  [Plain EXCEPT !.immediate = {"analyst"}, !.slots = {1}],
                  [Conf EXCEPT !.until = 3, !.wakes = {1, 2}])
\* The classifier and news upgrades.
Classified == Setup(<<<<"filingA">>, <<"rumour", "news">>>>, <<<<>>, <<"post1">>>>, Picky,
                    [Conf EXCEPT !.llm = TRUE])
\* Everything that is turned down.
Refused == Setup(<<<<"macro", "dividend", "wire">>, <<"call", "ad">>>>,
                 <<<<"far", "high52", "closing">>>>, Picky, [Conf EXCEPT !.faults = 0])
\* A night's quiet hours, on a channel that can fail.
Night == Setup(<<<<"filingA", "split">>>>, <<<<"band4", "high52">>>>, Sleeper,
               [Conf EXCEPT !.sink = "channel", !.from = 5, !.until = 8, !.wakes = {6, 8}])
\* Two nights; the first flush may come so late that it takes what the second takes.
TwoNights == Setup(<<<<"filingA", "news">>>>, <<>>, Sleeper,
                   [Conf EXCEPT !.sink = "channel", !.from = 2, !.until = 8, !.wakes = {2, 8},
                                !.faults = 0])
\* A restart or an edit of the quiet hours around the flush.
NightCrash == Setup(<<<<"filingA">>>>, <<>>, Sleeper,
                    [Conf EXCEPT !.until = 4, !.wakes = 1..4, !.crashes = 1,
                                 !.edits = 1, !.faults = 0])
\* Two pollers fill one buffer; prices replace each other.
Buffers == Setup(<<<<"move">>, <<"closing">>>>, <<<<"split">>>>,
                 [Plain EXCEPT !.quietMode = TRUE, !.slots = {1, 2}],
                 [Conf EXCEPT !.sink = "channel", !.from = 1, !.until = 2, !.wakes = {1, 2}])
\* Global picks and countdowns over two slots.
World == Setup(<<<<"news", "preview">>>>, <<>>, [Plain EXCEPT !.slots = {1, 3}],
               [Conf EXCEPT !.curator = TRUE, !.from = 1, !.until = 3, !.wakes = {1, 3},
                            !.faults = 0])
\* A pick off the user's focus, beside one of it.
Focus == Setup(<<<<"newsC">>>>, <<<<"news">>>>, [Plain EXCEPT !.slots = {1}],
               [Conf EXCEPT !.sink = "log", !.curator = TRUE, !.wakes = {1}, !.faults = 0])

AllSetups == {CapRace, Fanout, Bands, Cooling, Articles, Classified, Refused, Night,
              TwoNights, NightCrash, Buffers, World, Focus}
=============================================================================
