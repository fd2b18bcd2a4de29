--------------------------- MODULE ChannelIngress ---------------------------
(***************************************************************************)
(* From a message of a chat channel to its reply: the message handlers of  *)
(* Feishu, Telegram, Discord and iMessage (under bins) over the shared     *)
(* registries of crates/hone-channels/src/ingress.rs - duplicates, busy    *)
(* sessions, overheard group messages - and AgentSession; and what the     *)
(* Feishu process tells interrupted users when it starts again.            *)
(*                                                                         *)
(* A delivery of a message is a run of AgentSession that may never start;  *)
(* a message delivered twice is two deliveries with one id.  A channel is  *)
(* one process; its scheduled tasks share the sessions.  Whether a reply   *)
(* that was handed to the channel arrives is left out.                     *)
(***************************************************************************)
EXTENDS AgentSession

CONSTANTS
  Messages,     \* the ids of messages
  MaxWindow,    \* pretrigger_window_max_messages
  Setups        \* what an instance may start from: the channel, what the deliveries
                \* are, the deliveries (mail) and tasks that take part, and bounds of
                \* restarts, faults and slips

Mail == Runs \ Scheduled

ASSUME IngressAssumption ==
  /\ \E p \in Procs : Procs = {p}
  /\ MaxWindow \in Nat \ {0}
  /\ \A s \in Setups : /\ s.channel \in {"feishu", "telegram", "discord", "imessage"}
                       /\ s.post \in [Mail -> [id : Messages, group : BOOLEAN,
                                              mention : BOOLEAN, text : BOOLEAN,
                                              parts : BOOLEAN, command : BOOLEAN]]
                       /\ s.mail \subseteq Mail /\ s.tasks \subseteq Scheduled
                       /\ {s.crashes, s.faults, s.slips} \subseteq Nat

VARIABLES
  conf,         \* the setup
  hand,         \* where the handler of a delivery is
  seen,         \* ids the deduplicator remembers
  window,       \* session -> overheard deliveries, oldest first
  active,       \* session -> who holds its ingress lock
  busy,         \* session -> who a busy reply names
  taken,        \* overheard deliveries a handler took and has still to write
  told,         \* what the sender was told
  booting,      \* sessions the start-up recovery has still to look at
  noticed,      \* runs whose interruption was told after a restart
  kept, missed, \* ghosts: ids that were written or asked, and ids that were
                \* dropped by age, a full window, a fault or a restart
  slips         \* ids forgotten by the deduplicator, and panics, so far

ingressVars == <<conf, hand, seen, window, active, busy, taken, told, booting, noticed,
                 kept, missed, slips>>
allVars == <<vars, ingressVars>>

Stages == {"sent", "accepted", "turned", "begun", "guarded", "taken", "asking",
           "closing", "leaving", "done", "heard", "ignored", "lost"}
Owning == {"begun", "guarded", "taken", "asking", "closing", "leaving"}
Texts  == {"nothing", "busy", "command", "reply", "error", "apology"}

Id(d)    == conf.post[d].id
Ids(w)   == {Id(w[i]) : i \in DOMAIN w}

\* w without the deliveries of certain ids
Without(w, ids) ==
  LET rest[n \in 0..Len(w)] ==
        IF n = 0 THEN <<>>
        ELSE IF Id(w[n]) \in ids THEN rest[n - 1]
        ELSE Append(rest[n - 1], w[n])
  IN rest[Len(w)]

Group(d) == conf.post[d].group
Empty(d) == ~conf.post[d].text /\ ~conf.post[d].parts

\* A busy session turns the message away (try_begin_active), or the handler waits for
\* its turn (lock); Telegram handles the messages of a direct chat one by one.
TriesLock(d)  == conf.channel = "feishu" \/ (Group(d) /\ conf.channel # "imessage")
WaitsForIt(d) == conf.channel \in {"discord", "imessage"} /\ ~Group(d)

IngressInit ==
  /\ Init
  /\ conf \in Setups
  /\ hand = [d \in Mail |-> "sent"]
  /\ seen = {}
  /\ window = [s \in Sessions |-> <<>>]
  /\ active = [s \in Sessions |-> None]
  /\ busy = [s \in Sessions |-> None]
  /\ taken = [d \in Mail |-> <<>>]
  /\ told = [d \in Mail |-> "nothing"]
  /\ booting = {}
  /\ noticed = {}
  /\ kept = {}
  /\ missed = {}
  /\ slips = 0

Goes(d, stage) == hand' = [hand EXCEPT ![d] = stage]
Tell(d, what)  == told' = [told EXCEPT ![d] = what]
Fault          == faults < conf.faults /\ faults' = faults + 1
Slip           == slips < conf.slips /\ slips' = slips + 1

-----------------------------------------------------------------------------
(* Messages come in.                                                       *)

\* Ages have removed the first n of w.
Younger(w, n) == SubSeq(w, n + 1, Len(w))

PushAny(d) ==                                    \* mutant: no limit
  LET s == SessionOf[d]
  IN  /\ window' = [window EXCEPT ![s] = Append(@, d)]
      /\ UNCHANGED missed

\* GroupPretriggerWindowRegistry::push
Push(d) ==
  LET s == SessionOf[d]
  IN \E n \in 0..Len(window[s]) :
       LET young == Younger(window[s], n)
           new   == IF Id(d) \in Ids(young) THEN young ELSE Append(young, d)
           fit   == IF Len(new) > MaxWindow THEN Tail(new) ELSE new
       IN /\ window' = [window EXCEPT ![s] = fit]
          /\ missed' = missed \cup (Ids(window[s]) \ Ids(fit))

Overheard(d) == Group(d) /\ ~conf.post[d].mention

\* The deduplicator, and the window for group messages not meant for the bot.
Receive(d) ==
  /\ hand[d] = "sent" /\ d \in conf.mail /\ booting = {}
  /\ seen' = seen \cup {Id(d)}
  /\ IF Id(d) \in seen \/ (conf.channel = "telegram" /\ Empty(d))
          \/ (Overheard(d) /\ ~conf.post[d].text)
     THEN Goes(d, "ignored") /\ UNCHANGED <<window, missed>>
     ELSE IF Overheard(d) THEN Goes(d, "heard") /\ Push(d)
     ELSE Goes(d, "accepted") /\ UNCHANGED <<window, missed>>
  /\ UNCHANGED <<vars, conf, active, busy, taken, told, booting, noticed, kept, slips>>

\* An id is forgotten after a minute or two, or when the table is full.
Forgotten(m) ==
  /\ m \in seen /\ Slip
  /\ seen' = seen \ {m}
  /\ UNCHANGED <<vars, conf, hand, window, active, busy, taken, told, booting, noticed,
                 kept, missed>>

\* Commands are answered without the agent; Telegram looks for them later.
Intercept(d) ==
  /\ hand[d] = "accepted"
  /\ conf.post[d].command /\ conf.channel # "telegram"
  /\ Tell(d, "command")
  /\ Goes(d, "done")
  /\ UNCHANGED <<vars, conf, seen, window, active, busy, taken, booting, noticed, kept,
                 missed, slips>>

-----------------------------------------------------------------------------
(* The ingress lock of a session.                                          *)

ForAgent(d) == hand[d] = "accepted" /\ (conf.post[d].command => conf.channel = "telegram")

TryLockBlind(d) ==                               \* mutant: the lock does not exclude
  LET s == SessionOf[d]
  IN /\ ForAgent(d) /\ TriesLock(d)
     /\ active' = [active EXCEPT ![s] = d]
     /\ Goes(d, "begun")
     /\ UNCHANGED <<vars, conf, seen, window, busy, taken, told, booting, noticed, kept,
                    missed, slips>>

\* try_begin_active: the lock ...
TryLock(d) ==
  LET s == SessionOf[d]
  IN /\ ForAgent(d) /\ TriesLock(d)
     /\ IF active[s] = None
        THEN active' = [active EXCEPT ![s] = d] /\ Goes(d, "begun")
        ELSE Goes(d, "turned") /\ UNCHANGED active
     /\ UNCHANGED <<vars, conf, seen, window, busy, taken, told, booting, noticed, kept,
                    missed, slips>>

\* ... and then the entry that says who is served.
Announce(d) ==
  /\ hand[d] = "begun"
  /\ busy' = [busy EXCEPT ![SessionOf[d]] = d]
  /\ Goes(d, "guarded")
  /\ UNCHANGED <<vars, conf, seen, window, active, taken, told, booting, noticed, kept,
                 missed, slips>>

TurnAwayForgetting(d) ==                         \* mutant: the text is not kept
  /\ hand[d] = "turned"
  /\ Tell(d, "busy")
  /\ Goes(d, "done")
  /\ UNCHANGED <<vars, conf, seen, window, active, busy, taken, booting, noticed, kept,
                 missed, slips>>

\* The session is busy: the text of a group message waits for the next question.
TurnAway(d) ==
  /\ hand[d] = "turned"
  /\ IF Group(d) /\ conf.post[d].text THEN Push(d) ELSE UNCHANGED <<window, missed>>
  /\ Tell(d, "busy")
  /\ Goes(d, "done")
  /\ UNCHANGED <<vars, conf, seen, active, busy, taken, booting, noticed, kept, slips>>

\* lock().await
WaitLock(d) ==
  /\ ForAgent(d) /\ WaitsForIt(d)
  /\ active[SessionOf[d]] = None
  /\ active' = [active EXCEPT ![SessionOf[d]] = d]
  /\ Goes(d, "guarded")
  /\ UNCHANGED <<vars, conf, seen, window, busy, taken, told, booting, noticed, kept,
                 missed, slips>>

NoLock(d) ==
  /\ ForAgent(d) /\ ~TriesLock(d) /\ ~WaitsForIt(d)
  /\ Goes(d, "guarded")
  /\ UNCHANGED <<vars, conf, seen, window, active, busy, taken, told, booting, noticed,
                 kept, missed, slips>>

CloseUnlocking(d) ==                             \* mutant: the lock goes first
  LET s == SessionOf[d]
  IN /\ hand[d] = "closing"
     /\ active' = [active EXCEPT ![s] = IF @ = d THEN None ELSE @]
     /\ Goes(d, "leaving")
     /\ UNCHANGED <<vars, conf, seen, window, busy, taken, told, booting, noticed, kept,
                    missed, slips>>

\* ActiveSessionGuard is dropped: its entry goes ...
Close(d) ==
  LET s == SessionOf[d]
  IN /\ hand[d] = "closing"
     /\ busy' = [busy EXCEPT ![s] = IF TriesLock(d) THEN None ELSE @]
     /\ Goes(d, "leaving")
     /\ UNCHANGED <<vars, conf, seen, window, active, taken, told, booting, noticed,
                    kept, missed, slips>>

LeaveLocked(d) ==                                \* mutant: the lock is not given back
  /\ hand[d] = "leaving"
  /\ Goes(d, "done")
  /\ UNCHANGED <<vars, conf, seen, window, active, busy, taken, told, booting, noticed,
                 kept, missed, slips>>

\* ... and then the lock.
Unlock(d) ==
  LET s == SessionOf[d]
  IN /\ hand[d] = "leaving"
     /\ active' = [active EXCEPT ![s] = IF TriesLock(d) \/ WaitsForIt(d) THEN None ELSE @]
     /\ Goes(d, "done")
     /\ UNCHANGED <<vars, conf, seen, window, busy, taken, told, booting, noticed, kept,
                    missed, slips>>

-----------------------------------------------------------------------------
(* What was overheard becomes part of the conversation.                    *)

\* take_recent: the whole window, without the message itself
Take(d) ==
  LET s == SessionOf[d]
  IN /\ hand[d] = "guarded" /\ Group(d)
     /\ \E n \in 0..Len(window[s]) :
          LET young == Younger(window[s], n)
          IN /\ taken' = [taken EXCEPT ![d] = Without(young, {Id(d)})]
             /\ missed' = missed \cup (Ids(window[s]) \ Ids(young))
     /\ window' = [window EXCEPT ![s] = <<>>]
     /\ kept' = kept \cup {Id(d)}
     /\ Goes(d, "taken")
     /\ UNCHANGED <<vars, conf, seen, active, busy, told, booting, noticed, slips>>

\* Ids on record with the turns of s; a question of a Discord group has none.
Recorded(s) ==
  {Id(transcript[s][i].run) : i \in {i \in DOMAIN transcript[s] :
     \/ transcript[s][i].kind = "overheard"
     \/ /\ transcript[s][i].kind = "user" /\ conf.channel # "discord"
        /\ transcript[s][i].run \in Mail /\ Group(transcript[s][i].run)}}

\* The handler goes on with a message that has something to say, or with what was
\* overheard; else Feishu says so, and the others say nothing.
Weigh(d, written) ==
  IF Empty(d) /\ written = 0
  THEN /\ Goes(d, "closing")
       /\ IF conf.channel = "feishu" THEN Tell(d, "error") ELSE UNCHANGED told
  ELSE IF conf.post[d].command
  THEN Goes(d, "closing") /\ Tell(d, "command")
  ELSE Goes(d, "asking") /\ UNCHANGED told

WriteAgain(d) ==                                 \* mutant: ids on record are written again
  /\ hand[d] = "taken"
  /\ transcript' = [transcript EXCEPT ![SessionOf[d]] =
                      @ \o [i \in DOMAIN taken[d] |-> Turn("overheard", taken[d][i])]]
  /\ kept' = kept \cup Ids(taken[d])
  /\ Weigh(d, Len(taken[d]))
  /\ taken' = [taken EXCEPT ![d] = <<>>]
  /\ UNCHANGED <<phase, lockOf, registry, quotaVars, purpose, view, outcome, crashes, faults,
                 conf, seen, window, active, busy, booting, noticed, missed, slips>>

\* Discord cannot read the session: the question ends, the window stays.
CannotLoad(d) ==
  /\ hand[d] = "guarded" /\ Group(d) /\ conf.channel = "discord" /\ Fault
  /\ Tell(d, "error")
  /\ Goes(d, "closing")
  /\ UNCHANGED <<phase, lockOf, registry, quotaVars, purpose, view, outcome, transcript,
                 crashes, conf, seen, window, active, busy, taken, booting, noticed, kept,
                 missed, slips>>

\* persist_buffered_group_messages; when it fails the rest of what was taken is gone.
WriteOverheard(d) ==
  LET s        == SessionOf[d]
      new      == Without(taken[d], Recorded(s))
      Write(n) == transcript' = [transcript EXCEPT ![s] =
                                   @ \o [i \in 1..n |-> Turn("overheard", new[i])]]
  IN /\ hand[d] = "taken"
     /\ \/ /\ Write(Len(new))
           /\ kept' = kept \cup Ids(taken[d])
           /\ Weigh(d, Len(new))
           /\ UNCHANGED <<faults, missed>>
        \/ /\ taken[d] # <<>> /\ Fault
           /\ \E n \in 0..Len(new) : Write(n)
           /\ missed' = missed \cup Ids(taken[d])
           /\ IF conf.channel = "discord" THEN Goes(d, "closing") /\ Tell(d, "error")
              ELSE Weigh(d, 0)
           /\ UNCHANGED kept
     /\ taken' = [taken EXCEPT ![d] = <<>>]
     /\ UNCHANGED <<phase, lockOf, registry, quotaVars, purpose, view, outcome, crashes,
                    conf, seen, window, active, busy, booting, noticed, slips>>

Direct(d) ==
  /\ hand[d] = "guarded" /\ ~Group(d)
  /\ Weigh(d, 0)
  /\ UNCHANGED <<vars, conf, seen, window, active, busy, taken, booting, noticed, kept,
                 missed, slips>>

-----------------------------------------------------------------------------
(* The run, and its reply.                                                 *)

Ask(d)  == hand[d] = "asking" /\ Arrive(d) /\ UNCHANGED ingressVars
Task(t) == t \in conf.tasks /\ booting = {} /\ Arrive(t) /\ UNCHANGED ingressVars

SettleSilently(r) == (r \in Scheduled /\ Leave(r)) \/ (r \in Mail /\ Deliver(r))   \* mutant

\* The text for the user is not the one on record: it quotes what was streamed, a
\* group reply says whom it is for, and an answer may have nothing to show.
OtherText(r) ==
  /\ phase[r] = "returned"
  /\ outcome[r] \in {"failed", "answered"} \/ (outcome[r] = "refused" /\ Group(r))
  /\ OnlyPhase(r, "reporting")
  /\ UNCHANGED <<outcome, transcript>>

\* What the caller of a run writes: Feishu leaves what it shows instead of an answer
\* on record (persist_visible_assistant_message), the other handlers nothing.
SettleTurn(r) ==
  \/ r \in Scheduled /\ Leave(r)
  \/ r \in Mail /\ (conf.channel = "feishu" => outcome[r] \notin {"failed", "refused"})
       /\ Deliver(r)
  \/ r \in Mail /\ conf.channel = "feishu"
       /\ (InspectTail(r) \/ OtherText(r) \/ AppendFailure(r))

RunStep(r) ==
  /\ Enter(r) \/ Work(r) \/ SettleTurn(r)
  /\ faults' <= conf.faults
  /\ UNCHANGED ingressVars

TimeOut(t) ==
  /\ conf.channel = "feishu"
  /\ t \in Scheduled /\ Drop(t)
  /\ faults' <= conf.faults
  /\ UNCHANGED ingressVars

Reply(d) ==
  /\ hand[d] = "asking" /\ phase[d] = "done"
  /\ Tell(d, IF outcome[d] \in {"answered", "compacted"} THEN "reply" ELSE "error")
  /\ Goes(d, "closing")
  /\ UNCHANGED <<vars, conf, seen, window, active, busy, taken, booting, noticed, kept,
                 missed, slips>>

\* A Feishu handler panics: its run is dropped, its guard too, and the task around
\* it apologises without a record.
Panic(d) ==
  /\ conf.channel = "feishu" /\ Slip
  /\ hand[d] \in {"guarded", "taken", "asking"}
  /\ IF phase[d] \in {"idle", "done"} THEN UNCHANGED vars ELSE Drop(d)
  /\ faults' <= conf.faults
  /\ Tell(d, "apology")
  /\ Goes(d, "closing")
  /\ taken' = [taken EXCEPT ![d] = <<>>]
  /\ missed' = missed \cup Ids(taken[d])
  /\ UNCHANGED <<conf, seen, window, active, busy, booting, noticed, kept>>

-----------------------------------------------------------------------------
(* Restart.                                                                *)

Resting == {"sent", "done", "heard", "ignored", "lost"}

Restart(p) ==
  /\ crashes < conf.crashes /\ Crash(p)
  /\ hand' = [d \in Mail |-> IF hand[d] \in Resting THEN hand[d] ELSE "lost"]
  /\ seen' = {}
  /\ window' = [s \in Sessions |-> <<>>]
  /\ active' = [s \in Sessions |-> None]
  /\ busy' = [s \in Sessions |-> None]
  /\ taken' = [d \in Mail |-> <<>>]
  /\ missed' = missed \cup UNION ({Ids(window[s]) : s \in Sessions}
                                    \cup {Ids(taken[d]) : d \in Mail})
  /\ booting' = IF conf.channel = "feishu" THEN Sessions ELSE {}
  /\ UNCHANGED <<conf, told, noticed, kept, slips>>

\* The last message on record is a user's, and the session is of a direct chat.
Interrupted(s) ==
  /\ transcript[s] # <<>> /\ LastTurn(s).kind = "user"
  /\ \A d \in Mail : SessionOf[d] = s => ~Group(d)

\* recover_interrupted_sessions.  Which sessions the bounds of the query let through
\* is left open (they are UTC, the stamps Beijing time); when the notice cannot be
\* sent nothing is written.
Recover(s) ==
  /\ s \in booting
  /\ booting' = booting \ {s}
  /\ \/ /\ Interrupted(s)
        /\ noticed' = noticed \cup {LastTurn(s).run}
        /\ transcript' = [transcript EXCEPT ![s] = Append(@, Turn("notice", LastTurn(s).run))]
     \/ UNCHANGED <<noticed, transcript>>
  /\ UNCHANGED <<phase, lockOf, registry, quotaVars, purpose, view, outcome, crashes, faults,
                 conf, hand, seen, window, active, busy, taken, told, kept, missed, slips>>

-----------------------------------------------------------------------------
HandlerStep(d) ==
  \/ Intercept(d) \/ TryLock(d) \/ Announce(d) \/ TurnAway(d) \/ WaitLock(d) \/ NoLock(d)
  \/ Take(d) \/ CannotLoad(d) \/ WriteOverheard(d) \/ Direct(d) \/ Ask(d)
  \/ Reply(d) \/ Close(d) \/ Unlock(d)

IngressNext ==
  \/ \E d \in Mail : Receive(d) \/ HandlerStep(d) \/ Panic(d)
  \/ \E r \in Runs : RunStep(r)
  \/ \E t \in Scheduled : Task(t) \/ TimeOut(t)
  \/ \E m \in Messages : Forgotten(m)
  \/ \E p \in Procs : Restart(p)
  \/ \E s \in Sessions : Recover(s)

IngressSpec == IngressInit /\ [][IngressNext]_allVars

\* The runtime drives every handler and every run it has begun.
IngressFairSpec ==
  IngressSpec /\ \A r \in Runs : WF_allVars(RunStep(r) \/ (r \in Mail /\ HandlerStep(r)))

-----------------------------------------------------------------------------
(* Properties.                                                             *)

\* Types of the registries and of the handlers; a window keeps its limit.
IngressTypes ==
  /\ conf \in Setups
  /\ hand \in [Mail -> Stages]
  /\ seen \subseteq Messages
  /\ window \in [Sessions -> Seq(Mail)] /\ \A s \in Sessions : Len(window[s]) <= MaxWindow
  /\ active \in [Sessions -> Mail \cup {None}]
  /\ busy \in [Sessions -> Mail \cup {None}]
  /\ taken \in [Mail -> Seq(Mail)]
  /\ told \in [Mail -> Texts]
  /\ booting \subseteq Sessions
  /\ noticed \subseteq Runs
  /\ kept \subseteq Messages /\ missed \subseteq Messages
  /\ slips \in Nat

\* The busy registry names the holder of the session's lock and nobody else, from the
\* moment the handler goes on until it is about to leave, although lock and entry are
\* two registries: a busy reply names the person who is being served.
BusyIsHolder ==
  \A s \in Sessions :
    /\ busy[s] # None => active[s] = busy[s]
    /\ \A d \in Mail :
         /\ TriesLock(d) /\ SessionOf[d] = s /\ hand[d] \in {"guarded", "taken", "asking"}
         => busy[s] = d

\* A group has no tasks, and its ingress lock is held around the run: from a question
\* to its answer the conversation holds nothing but that run's own turns, although
\* overheard messages are written without the run lock.
GroupTurnsAreWhole ==
  \A s \in Sessions : \A i, j, k \in DOMAIN transcript[s] :
    LET r == transcript[s][k].run
    IN  /\ i < j /\ j < k
        /\ r \in Mail /\ Group(r) /\ transcript[s][k].kind = "answer"
        /\ transcript[s][i] = Turn("user", r)
        => transcript[s][j].run = r

\* Nothing a group said is written into its conversation a second time as overheard,
\* after a redelivery or a busy reply too; on Discord only after its own question.
OverheardOnce ==
  \A s \in Sessions : \A i, j \in DOMAIN transcript[s] :
    LET a == transcript[s][i]
        b == transcript[s][j]
    IN  /\ i < j /\ b.kind = "overheard"
        /\ a.kind \in {"user", "overheard"} /\ a.run \in Mail /\ Id(a.run) = Id(b.run)
        => conf.channel = "discord" /\ a.kind = "user"

\* What was said in a group, overheard or turned away as busy, is still in the window or
\* in a handler's hands, or went into the conversation, or was dropped for a reason.
TextIsHeard ==
  \A d \in Mail :
    \/ hand[d] = "heard"
    \/ hand[d] = "done" /\ told[d] = "busy" /\ Group(d) /\ conf.post[d].text
    => \/ Id(d) \in kept \cup missed \cup Ids(window[SessionOf[d]])
       \/ \E h \in Mail : Id(d) \in Ids(taken[h])

\* After a restart the sender of a message is told of an interruption only if the
\* restart did cut it off, or a panic left it without a reply on record; and nobody is
\* told twice.  (A task that failed or was skipped also leaves its prompt as the last
\* turn, and its user is told.)
NoticeIsDue ==
  /\ \A r \in noticed \cap Mail : phase[r] = "gone" \/ told[r] = "apology"
  /\ \A s \in Sessions : \A i, j \in DOMAIN transcript[s] :
       transcript[s][i].kind = "notice" /\ transcript[s][i] = transcript[s][j] => i = j

\* A message that passed the duplicate check is answered, whoever holds the session and
\* however the run ends, unless the process dies or there was nothing in it; and a task
\* that waits for the session ends.
EveryRequestEnds ==
  /\ \A d \in Mail :
       hand[d] = "accepted" ~>
         \/ told[d] # "nothing"
         \/ hand[d] = "lost"
         \/ hand[d] = "done" /\ Empty(d) /\ conf.channel # "feishu"
  /\ \A t \in Scheduled : phase[t] = "waiting" ~> phase[t] \in {"done", "gone"}
=============================================================================
