---------------------- MODULE AgentSessionTurns_proofs ----------------------
(* Proofs about the transcript of AgentSession: turns stay whole and runners *)
(* work on what is current, in sessions that one process serves.             *)
EXTENDS AgentSession_proofs

Speech == {"user", "answer"}
Notices == Kinds \ Speech
Regrets == {"refusal", "failure", "timeout"}

\* What a session's transcript, or a compaction's copy of it, must be like.
Whole(t) ==
  \A i, j, k \in DOMAIN t :
    /\ i < j /\ j < k /\ t[k].kind = "answer" /\ t[i] = Turn("user", t[k].run)
    => t[j].kind \notin Speech

NoQuestion(t, q) == \A i \in DOMAIN t : t[i] # Turn("user", q)

OpenFor(t, q) ==
  \A i, j \in DOMAIN t : i < j /\ t[i] = Turn("user", q) => t[j].kind \notin Speech

Spoken(t) == t # <<>> /\ t[Len(t)].kind # "answer"

\* A run has asked nothing yet; or its question is on record and the answer is not.
Unasked == {"idle", "waiting", "locked", "reserved"}
Talking(q) ==
  \/ phase[q] \in {"refused", "bounced", "ready", "running", "committed"}
  \/ phase[q] \in {"compact", "summarising"} /\ purpose[q] # "manual"

\* What the phase of a run says about a transcript of its session.
Fits(q, t) ==
  /\ phase[q] \in Unasked => NoQuestion(t, q)
  /\ Talking(q) => OpenFor(t, q) /\ Spoken(t)

Conversation(r) == transcript[SessionOf[r]]

TranscriptsFit ==
  /\ \A s \in Sessions : Whole(transcript[s])
  /\ \A q \in Runs : Fits(q, Conversation(q))

\* A compaction will write back the copy it has read, so the copy must fit as well.
CopiesFit ==
  \A r \in Runs : phase[r] = "summarising" =>
    /\ Whole(view[r])
    /\ \A q \in Runs : SessionOf[q] = SessionOf[r] => Fits(q, view[r])

\* Manual compactions never get to a runner.
Manual ==
  \A r \in Runs : phase[r] \in Unasked \cup {"ready", "running"} => purpose[r] # "manual"

\* What was read is a prefix of the conversation, the rest is notices and its own.
Continues(t, v, r) ==
  /\ Len(v) <= Len(t)
  /\ \A i \in DOMAIN t : IF i <= Len(v) THEN t[i] = v[i]
                         ELSE t[i].run = r \/ t[i].kind \notin Speech

ReadersFit ==
  \A r \in Runs : phase[r] = "running" => Continues(Conversation(r), view[r], r)

TurnInv == TranscriptsFit /\ CopiesFit /\ Manual /\ ReadersFit

\* The sessions are served by one process, as the files of a deployment are.
Local == \A q, r \in Runs : SessionOf[q] = SessionOf[r] => ProcOf[q] = ProcOf[r]

-----------------------------------------------------------------------------
(* Sequences of turns.                                                       *)

LEMMA TailOfAppend ==
  ASSUME NEW t \in Seq(Turns), NEW x \in Turns
  PROVE  /\ Append(t, x) \in Seq(Turns) /\ Append(t, x) # <<>>
         /\ Len(Append(t, x)) = Len(t) + 1 /\ Len(t) \in Nat
         /\ Append(t, x)[Len(t) + 1] = x
         /\ \A i \in DOMAIN t : Append(t, x)[i] = t[i]
         /\ DOMAIN Append(t, x) = DOMAIN t \cup {Len(t) + 1}
         /\ DOMAIN t = 1..Len(t)
OBVIOUS

\* A notice disturbs nothing.
LEMMA NoticeFits ==
  ASSUME NEW t \in Seq(Turns), NEW x \in Turns, x.kind \in Notices
  PROVE  /\ Whole(t) => Whole(Append(t, x))
         /\ \A q \in Runs : Fits(q, t) => Fits(q, Append(t, x))
<1> DEFINE u == Append(t, x)
<1>1. /\ Len(u) = Len(t) + 1 /\ Len(t) \in Nat /\ u # <<>> /\ u[Len(t) + 1] = x
      /\ \A i \in DOMAIN t : u[i] = t[i]
      /\ DOMAIN u = DOMAIN t \cup {Len(t) + 1} /\ DOMAIN t = 1..Len(t)
  BY TailOfAppend
<1>2. x.kind \notin Speech /\ \A q : x # Turn("user", q)
  BY DEF Notices, Speech, Turn
<1> HIDE DEF u
<1>3. ASSUME Whole(t) PROVE Whole(u)
  BY <1>1, <1>2, <1>3 DEF Whole, Speech
<1>4. ASSUME NEW q \in Runs, Fits(q, t) PROVE Fits(q, u)
  <2>1. NoQuestion(t, q) => NoQuestion(u, q)
    BY <1>1, <1>2 DEF NoQuestion
  <2>2. OpenFor(t, q) => OpenFor(u, q)
    BY <1>1, <1>2 DEF OpenFor
  <2>3. Spoken(u)
    BY <1>1, <1>2 DEF Spoken, Speech
  <2> QED
    BY <1>4, <2>1, <2>2, <2>3 DEF Fits
<1> QED
  BY <1>3, <1>4 DEF u

\* A question is new, so nothing lies between it and what follows.
LEMMA QuestionFits ==
  ASSUME NEW t \in Seq(Turns), NEW r \in Runs, Turn("user", r) \in Turns
  PROVE  LET u == Append(t, Turn("user", r))
         IN  /\ Whole(t) => Whole(u)
             /\ NoQuestion(t, r) => OpenFor(u, r) /\ Spoken(u)
             /\ \A q \in Runs \ {r} : NoQuestion(t, q) => NoQuestion(u, q)
<1> DEFINE x == Turn("user", r)
           u == Append(t, x)
<1>1. /\ Len(u) = Len(t) + 1 /\ Len(t) \in Nat /\ u # <<>> /\ u[Len(t) + 1] = x
      /\ \A i \in DOMAIN t : u[i] = t[i]
      /\ DOMAIN u = DOMAIN t \cup {Len(t) + 1} /\ DOMAIN t = 1..Len(t)
  BY TailOfAppend
<1>2. x.kind = "user" /\ \A q \in Runs \ {r} : x # Turn("user", q)
  BY DEF Turn
<1> HIDE DEF u, x
<1>3. ASSUME Whole(t) PROVE Whole(u)
  BY <1>1, <1>2, <1>3 DEF Whole
<1>4. ASSUME NoQuestion(t, r) PROVE OpenFor(u, r) /\ Spoken(u)
  <2>1. \A i \in DOMAIN u : u[i] = Turn("user", r) => i = Len(t) + 1
    BY <1>1, <1>4 DEF NoQuestion
  <2> QED
    BY <1>1, <1>2, <2>1 DEF OpenFor, Spoken
<1>5. ASSUME NEW q \in Runs \ {r}, NoQuestion(t, q) PROVE NoQuestion(u, q)
  BY <1>1, <1>2, <1>5 DEF NoQuestion
<1> QED
  BY <1>3, <1>4, <1>5 DEF u, x

\* An answer follows its question.
LEMMA AnswerFits ==
  ASSUME NEW t \in Seq(Turns), NEW r \in Runs, Turn("answer", r) \in Turns
  PROVE  LET u == Append(t, Turn("answer", r))
         IN  /\ Whole(t) /\ OpenFor(t, r) => Whole(u)
             /\ \A q \in Runs : NoQuestion(t, q) => NoQuestion(u, q)
<1> DEFINE x == Turn("answer", r)
           u == Append(t, x)
<1>1. /\ Len(u) = Len(t) + 1 /\ Len(t) \in Nat /\ u # <<>> /\ u[Len(t) + 1] = x
      /\ \A i \in DOMAIN t : u[i] = t[i]
      /\ DOMAIN u = DOMAIN t \cup {Len(t) + 1} /\ DOMAIN t = 1..Len(t)
  BY TailOfAppend
<1>2. x.run = r /\ \A q : x # Turn("user", q)
  BY DEF Turn
<1> HIDE DEF u, x
<1>3. ASSUME Whole(t), OpenFor(t, r) PROVE Whole(u)
  <2> SUFFICES ASSUME NEW i \in DOMAIN u, NEW j \in DOMAIN u, NEW k \in DOMAIN u,
                      i < j, j < k, u[k].kind = "answer", u[i] = Turn("user", u[k].run)
               PROVE  u[j].kind \notin Speech
    BY DEF Whole
  <2>1. i \in DOMAIN t /\ j \in DOMAIN t
    BY <1>1
  <2>2. CASE k \in DOMAIN t
    BY <1>1, <1>3, <2>1, <2>2 DEF Whole
  <2>3. CASE k = Len(t) + 1
    BY <1>1, <1>2, <1>3, <2>1, <2>3 DEF OpenFor
  <2> QED
    BY <1>1, <2>2, <2>3
<1>4. ASSUME NEW q \in Runs, NoQuestion(t, q) PROVE NoQuestion(u, q)
  BY <1>1, <1>2, <1>4 DEF NoQuestion
<1> QED
  BY <1>3, <1>4 DEF u, x

\* Without its last turn a transcript stays whole and has no new questions.
LEMMA ButLastFits ==
  ASSUME NEW t \in Seq(Turns), t # <<>>
  PROVE  /\ Whole(t) => Whole(ButLast(t))
         /\ \A q \in Runs : NoQuestion(t, q) => NoQuestion(ButLast(t), q)
<1>1. /\ \A i \in DOMAIN ButLast(t) : i \in DOMAIN t /\ ButLast(t)[i] = t[i]
      /\ DOMAIN ButLast(t) \subseteq Nat
  BY DEF ButLast
<1> QED
  BY <1>1 DEF Whole, NoQuestion

\* What a compaction retains of a transcript that fits.
LEMMA RecentFits ==
  ASSUME NEW t \in Seq(Turns)
  PROVE  /\ Whole(t) => Whole(Recent(t))
         /\ \A q \in Runs : Fits(q, t) => Fits(q, Recent(t))
<1>1. CASE ~(Len(t) > Retain)
  BY <1>1 DEF Recent
<1>2. CASE Len(t) > Retain
  <2> DEFINE u == Recent(t)
             n == Len(t) - Retain
  <2>0. Retain \in Nat /\ Retain > 0 /\ Len(t) \in Nat
    BY SessionAssumption
  <2>1. u = SubSeq(t, n + 1, Len(t)) /\ n \in Nat /\ n < Len(t)
    BY <1>2, <2>0 DEF Recent
  <2>2. /\ Len(u) = Retain /\ u # <<>> /\ DOMAIN u = 1..Retain
        /\ \A i \in 1..Retain : u[i] = t[n + i]
    <3>1. /\ Len(u) = IF n + 1 <= Len(t) THEN Len(t) - (n + 1) + 1 ELSE 0
          /\ \A i \in 1..(Len(t) - (n + 1) + 1) : u[i] = t[n + 1 + i - 1]
      BY <2>0, <2>1, SubSeqProperties
    <3>2. Len(u) = Retain /\ 1..(Len(t) - (n + 1) + 1) = 1..Retain
      BY <2>0, <2>1, <3>1
    <3>3. ASSUME NEW i \in 1..Retain PROVE u[i] = t[n + i]
      <4>1. n + 1 + i - 1 = n + i
        BY <2>1
      <4> QED
        BY <3>1, <3>2, <4>1
    <3>4. u \in Seq(Turns)
      BY <1>2, RecentType
    <3> QED
      BY <2>0, <3>2, <3>3, <3>4
  <2>3. u[Len(u)] = t[Len(t)] /\ t # <<>>
    BY <2>0, <2>1, <2>2
  <2>4. \A i \in DOMAIN u : /\ i \in Nat /\ n + i \in DOMAIN t /\ u[i] = t[n + i]
    BY <2>0, <2>1, <2>2
  <2> HIDE DEF u, n
  <2>5. ASSUME Whole(t) PROVE Whole(u)
    <3> SUFFICES ASSUME NEW i \in DOMAIN u, NEW j \in DOMAIN u, NEW k \in DOMAIN u,
                        i < j, j < k, u[k].kind = "answer", u[i] = Turn("user", u[k].run)
                 PROVE  u[j].kind \notin Speech
      BY DEF Whole
    <3>1. n + i < n + j /\ n + j < n + k
      BY <2>1, <2>4
    <3> QED
      BY <2>4, <2>5, <3>1 DEF Whole
  <2>6. ASSUME NEW q \in Runs, Fits(q, t) PROVE Fits(q, u)
    <3>1. NoQuestion(t, q) => NoQuestion(u, q)
      BY <2>4 DEF NoQuestion
    <3>2. ASSUME OpenFor(t, q) PROVE OpenFor(u, q)
      <4> SUFFICES ASSUME NEW i \in DOMAIN u, NEW j \in DOMAIN u, i < j,
                          u[i] = Turn("user", q)
                   PROVE  u[j].kind \notin Speech
        BY DEF OpenFor
      <4>1. n + i < n + j
        BY <2>1, <2>4
      <4> QED
        BY <2>4, <3>2, <4>1 DEF OpenFor
    <3>3. Spoken(t) => Spoken(u)
      BY <2>2, <2>3 DEF Spoken
    <3> QED
      BY <2>6, <3>1, <3>2, <3>3 DEF Fits
  <2> QED
    BY <2>5, <2>6 DEF u
<1> QED
  BY <1>1, <1>2

-----------------------------------------------------------------------------
(* What the steps of a run do to the transcript of its session.              *)

\* Only this run's own state moves; a copy is read from the transcript as it is.
Apart(r) ==
  /\ \A q \in Runs \ {r} : /\ phase'[q] = phase[q] /\ view'[q] = view[q]
                           /\ purpose'[q] = purpose[q]
  /\ phase'[r] = "summarising" => view'[r] = Conversation(r) /\ UNCHANGED transcript
  /\ phase'[r] = "running" => view'[r] = Context(r) /\ UNCHANGED transcript
  /\ phase'[r] \in Unasked \cup {"ready", "running"} => purpose'[r] # "manual"

\* The step asks less of a transcript than the state before it.
Eases(r) ==
  /\ phase'[r] \in Unasked => phase[r] \in Unasked
  /\ Talking(r)' => Talking(r)

Silent(r)    == UNCHANGED transcript /\ Eases(r)
Notes(r)     == /\ \E k \in Regrets : Say(r, k)
                /\ phase[r] \in {"refused", "reporting"} /\ Eases(r)
Questions(r) == /\ Say(r, "user") /\ phase[r] \in Unasked \cap Inside
                /\ phase'[r] \notin Unasked \cup {"summarising", "running"} /\ Talking(r)'
Concludes(r) == /\ Say(r, "answer") /\ phase[r] \in {"committed", "bounced"}
                /\ phase'[r] = "ending"
Retracts(r)  == Withdraw(r) /\ Eases(r)
Rewrites(r)  == /\ transcript' = [transcript EXCEPT ![SessionOf[r]] = Recent(view[r])]
                /\ phase[r] = "summarising" /\ phase'[r] # "summarising" /\ Eases(r)

Shapes(r) == /\ Apart(r)
             /\ \/ Silent(r) \/ Notes(r) \/ Questions(r) \/ Concludes(r) \/ Retracts(r)
                \/ Rewrites(r)

\* What is used of the phases.
LEMMA NoticeKinds == Regrets \subseteq Notices
BY DEF Regrets, Notices, Kinds, Speech

LEMMA FailShape ==
  ASSUME TypeOK, Manual, NEW r \in Runs, Fail(r)
  PROVE  Shapes(r)
<1>1. phase'[r] = "ending" /\ purpose'[r] = purpose[r] /\ UNCHANGED transcript
  BY DEF TypeOK, Fail, End
<1>2. Apart(r)
  BY <1>1 DEF TypeOK, Fail, End, Forget, Apart, Unasked
<1>3. Silent(r)
  BY <1>1 DEF Silent, Eases, Unasked, Talking
<1> QED
  BY <1>2, <1>3 DEF Shapes

LEMMA EnterShape ==
  ASSUME TypeOK, Manual, NEW r \in Runs, Enter(r)
  PROVE  Shapes(r)
<1> USE DEF TypeOK, Shapes, Apart, Manual, Eases, Unasked, Talking, quotaVars
<1>1. CASE Acquire(r)
  BY <1>1 DEF Acquire, Silent
<1>2. CASE CompactCommand(r)
  BY <1>2 DEF CompactCommand, Silent
<1>3. CASE DomainBoundary(r)
  BY <1>3 DEF DomainBoundary, Questions, Inside
<1>4. CASE Unlimited(r)
  BY <1>4 DEF Unlimited, Silent
<1>5. CASE Reserve(r)
  BY <1>5 DEF Reserve, Silent
<1>6. CASE Refuse(r)
  BY <1>6 DEF Refuse, Questions, Inside
<1>7. CASE PersistRefusal(r)
  BY <1>7 DEF PersistRefusal, End, Notes, Regrets
<1>8. CASE ExpandFails(r) \/ NoSession(r)
  BY <1>8, FailShape DEF ExpandFails, NoSession
<1>9. CASE PersistUser(r)
  BY <1>9 DEF PersistUser, Questions, Inside
<1> QED
  BY <1>1, <1>2, <1>3, <1>4, <1>5, <1>6, <1>7, <1>8, <1>9 DEF Enter

LEMMA WorkShape ==
  ASSUME TypeOK, Manual, NEW r \in Runs, Work(r)
  PROVE  Shapes(r)
<1> USE DEF TypeOK, Shapes, Apart, Manual, Eases, Unasked, Talking, quotaVars
<1>1. CASE SkipCompact(r)
  BY <1>1 DEF SkipCompact, AfterCompact, End, Silent
<1>2. CASE BeginCompact(r)
  BY <1>2 DEF BeginCompact, Silent, Conversation
<1>3. CASE EndCompact(r)
  <2>1. Apart(r)
    BY <1>3 DEF EndCompact, AfterCompact, End, Forget
  <2>2. /\ phase[r] = "summarising" /\ phase'[r] # "summarising" /\ Eases(r)
    BY <1>3 DEF EndCompact, AfterCompact, End
  <2>3. Silent(r) \/ Rewrites(r)
    BY <1>3, <2>2 DEF EndCompact, Silent, Rewrites
  <2> QED
    BY <2>1, <2>3
<1>4. CASE Prepare(r)
  BY <1>4 DEF Prepare, Silent
<1>5. CASE RunFails(r)
  BY <1>5, FailShape DEF RunFails
<1>6. CASE Overflow(r)
  BY <1>6 DEF Overflow, Forget, Silent
<1>7. CASE RunAnswers(r)
  BY <1>7 DEF RunAnswers, Forget, Silent
<1>8. CASE PersistAnswer(r)
  BY <1>8 DEF PersistAnswer, End, Concludes
<1>9. CASE Return(r)
  BY <1>9 DEF Return, Silent
<1> QED
  BY <1>1, <1>2, <1>3, <1>4, <1>5, <1>6, <1>7, <1>8, <1>9 DEF Work

LEMMA LeaveShape ==
  ASSUME TypeOK, Manual, NEW r \in Runs, Leave(r)
  PROVE  Shapes(r)
<1> USE DEF TypeOK, Shapes, Apart, Manual, Eases, Unasked, Talking, OnlyPhase
<1>1. CASE Deliver(r)
  BY <1>1 DEF Deliver, Silent
<1>2. CASE Withdraw(r)
  <2>1. Apart(r) /\ Eases(r)
    BY <1>2 DEF Withdraw
  <2> QED
    BY <1>2, <2>1 DEF Retracts
<1>3. CASE InspectTail(r)
  BY <1>3 DEF InspectTail, Silent
<1>4. CASE AppendFailure(r)
  <2>1. FailureKind(r) \in Regrets
    BY DEF FailureKind, Regrets
  <2> QED
    BY <1>4, <2>1 DEF AppendFailure, Notes
<1> QED
  BY <1>1, <1>2, <1>3, <1>4 DEF Leave

LEMMA ArriveShape ==
  ASSUME TypeOK, Manual, NEW r \in Runs, Arrive(r)
  PROVE  Shapes(r)
BY DEF Arrive, TypeOK, Shapes, Apart, Manual, Eases, Unasked, Talking, Silent

LEMMA DropShape ==
  ASSUME TypeOK, Manual, NEW r \in Runs, Drop(r)
  PROVE  Shapes(r)
<1>1. PICK p \in {"returned", "done"} : phase' = [phase EXCEPT ![r] = p]
  BY DEF Drop
<1>2. Apart(r)
  BY <1>1 DEF Drop, Forget, TypeOK, Apart, Unasked
<1>3. Silent(r)
  BY <1>1 DEF Drop, TypeOK, Silent, Eases, Unasked, Talking
<1> QED
  BY <1>2, <1>3 DEF Shapes

-----------------------------------------------------------------------------
(* The invariant is kept.                                                    *)

\* Whoever is past the lock of a session is alone there.
LEMMA Alone ==
  ASSUME Local, SessionMutex, NEW r \in Runs, phase[r] \in Inside,
         NEW q \in Runs \ {r}, SessionOf[q] = SessionOf[r]
  PROVE  /\ phase[q] \notin Inside /\ ~Talking(q)
         /\ phase[q] \notin {"summarising", "running"}
BY DEF Local, SessionMutex, Talking, Inside

\* Writing to one session leaves the others.
LEMMA OneSession ==
  ASSUME TypeOK, NEW r \in Runs, NEW u,
         transcript' = [transcript EXCEPT ![SessionOf[r]] = u]
  PROVE  /\ transcript'[SessionOf[r]] = u
         /\ \A s \in Sessions : s # SessionOf[r] => transcript'[s] = transcript[s]
BY SessionAssumption DEF TypeOK

\* The transcripts follow from what is known of the one that was written.
LEMMA FitsFromWritten ==
  ASSUME TypeOK, TranscriptsFit, NEW r \in Runs, Apart(r), NEW u,
         transcript' = [transcript EXCEPT ![SessionOf[r]] = u], Whole(u),
         \A q \in Runs : SessionOf[q] = SessionOf[r] =>
           /\ phase'[q] \in Unasked => NoQuestion(u, q)
           /\ Talking(q)' => OpenFor(u, q) /\ Spoken(u)
  PROVE  TranscriptsFit'
<1>1. /\ transcript'[SessionOf[r]] = u
      /\ \A s \in Sessions : s # SessionOf[r] => transcript'[s] = transcript[s]
  BY OneSession
<1>2. \A s \in Sessions : Whole(transcript'[s])
  BY <1>1 DEF TranscriptsFit
<1>3. ASSUME NEW q \in Runs PROVE Fits(q, Conversation(q))'
  <2>1. CASE SessionOf[q] = SessionOf[r]
    BY <1>1, <2>1 DEF Fits, Conversation
  <2>2. CASE SessionOf[q] # SessionOf[r]
    <3>1. transcript'[SessionOf[q]] = transcript[SessionOf[q]]
      BY <1>1, <2>2, SessionAssumption
    <3>2. phase'[q] = phase[q] /\ (Talking(q)' <=> Talking(q))
      BY <2>2 DEF Apart, Talking
    <3> QED
      BY <3>1, <3>2 DEF TranscriptsFit, Fits, Conversation
  <2> QED
    BY <2>1, <2>2
<1> QED
  BY <1>2, <1>3 DEF TranscriptsFit

\* A step that eases asks nothing new of any run.
LEMMA EasesAll ==
  ASSUME NEW r \in Runs, Apart(r), Eases(r), NEW q \in Runs
  PROVE  (phase'[q] \in Unasked => phase[q] \in Unasked) /\ (Talking(q)' => Talking(q))
<1>1. CASE q = r
  BY <1>1 DEF Eases
<1>2. CASE q # r
  BY <1>2 DEF Apart, Talking
<1> QED
  BY <1>1, <1>2

LEMMA TranscriptsStep ==
  ASSUME TypeOK, Local, SessionMutex, TurnInv, NEW r \in Runs, Shapes(r)
  PROVE  TranscriptsFit'
<1> DEFINE s == SessionOf[r]
           t == transcript[s]
<1>0. /\ Apart(r) /\ s \in Sessions /\ t \in Seq(Turns) /\ Whole(t)
      /\ \A q \in Runs : SessionOf[q] = s => Fits(q, t)
  BY SessionAssumption DEF Shapes, TurnInv, TranscriptsFit, TypeOK, Conversation
<1> USE DEF TurnInv
<1>1. CASE Silent(r)
  <2>1. \A q \in Runs : /\ phase'[q] \in Unasked => phase[q] \in Unasked
                        /\ Talking(q)' => Talking(q)
    BY <1>0, <1>1, EasesAll DEF Silent
  <2> QED
    BY <1>1, <2>1 DEF Silent, TranscriptsFit, Fits, Conversation
<1>2. CASE Notes(r)
  <2>1. PICK k \in Notices : Say(r, k)
    BY <1>2, NoticeKinds DEF Notes
  <2> DEFINE u == Append(t, Turn(k, r))
  <2>2. transcript' = [transcript EXCEPT ![s] = u]
    BY <2>1 DEF Say
  <2>3. Turn(k, r) \in Turns /\ Turn(k, r).kind \in Notices
    BY DEF Turn, Turns, Notices
  <2>4. Whole(u) /\ \A q \in Runs : SessionOf[q] = s => Fits(q, u)
    BY <1>0, <2>3, NoticeFits
  <2>5. \A q \in Runs : /\ phase'[q] \in Unasked => phase[q] \in Unasked
                        /\ Talking(q)' => Talking(q)
    BY <1>0, <1>2, EasesAll DEF Notes
  <2> HIDE DEF u
  <2>6. \A q \in Runs : SessionOf[q] = s =>
          /\ phase'[q] \in Unasked => NoQuestion(u, q)
          /\ Talking(q)' => OpenFor(u, q) /\ Spoken(u)
    BY <2>4, <2>5 DEF Fits
  <2> QED
    BY <1>0, <2>2, <2>4, <2>6, FitsFromWritten
<1>3. CASE Questions(r)
  <2> DEFINE u == Append(t, Turn("user", r))
  <2>1. transcript' = [transcript EXCEPT ![s] = u]
    BY <1>3 DEF Questions, Say
  <2>2. Turn("user", r) \in Turns
    BY DEF Turn, Turns, Kinds
  <2>3. NoQuestion(t, r)
    BY <1>0, <1>3 DEF Questions, Fits
  <2>4. /\ Whole(u) /\ OpenFor(u, r) /\ Spoken(u)
        /\ \A q \in Runs \ {r} : NoQuestion(t, q) => NoQuestion(u, q)
    BY <1>0, <2>2, <2>3, QuestionFits
  <2> HIDE DEF u
  <2>5. ASSUME NEW q \in Runs, SessionOf[q] = s
        PROVE  /\ phase'[q] \in Unasked => NoQuestion(u, q)
               /\ Talking(q)' => OpenFor(u, q) /\ Spoken(u)
    <3>1. CASE q = r
      BY <1>3, <2>4, <3>1 DEF Questions
    <3>2. CASE q # r
      <4>1. ~Talking(q)
        BY <1>3, <2>5, <3>2, Alone DEF Questions
      <4>2. phase'[q] = phase[q] /\ ~Talking(q)'
        BY <1>0, <3>2, <4>1 DEF Apart, Talking
      <4> QED
        BY <1>0, <2>4, <2>5, <3>2, <4>2 DEF Fits
    <3> QED
      BY <3>1, <3>2
  <2> QED
    BY <1>0, <2>1, <2>4, <2>5, FitsFromWritten
<1>4. CASE Concludes(r)
  <2> DEFINE u == Append(t, Turn("answer", r))
  <2>1. transcript' = [transcript EXCEPT ![s] = u]
    BY <1>4 DEF Concludes, Say
  <2>2. Turn("answer", r) \in Turns
    BY DEF Turn, Turns, Kinds
  <2>3. OpenFor(t, r)
    BY <1>0, <1>4 DEF Concludes, Fits, Talking
  <2>4. Whole(u) /\ \A q \in Runs : NoQuestion(t, q) => NoQuestion(u, q)
    BY <1>0, <2>2, <2>3, AnswerFits
  <2> HIDE DEF u
  <2>5. ASSUME NEW q \in Runs, SessionOf[q] = s
        PROVE  /\ phase'[q] \in Unasked => NoQuestion(u, q)
               /\ Talking(q)' => OpenFor(u, q) /\ Spoken(u)
    <3>1. CASE q = r
      BY <1>4, <3>1 DEF Concludes, Unasked, Talking
    <3>2. CASE q # r
      <4>1. ~Talking(q)
        BY <1>4, <2>5, <3>2, Alone DEF Concludes, Inside
      <4>2. phase'[q] = phase[q] /\ ~Talking(q)'
        BY <1>0, <3>2, <4>1 DEF Apart, Talking
      <4> QED
        BY <1>0, <2>4, <2>5, <4>2 DEF Fits
    <3> QED
      BY <3>1, <3>2
  <2> QED
    BY <1>0, <2>1, <2>4, <2>5, FitsFromWritten
<1>5. CASE Retracts(r)
  <2> DEFINE u == IF EndsWith(s, Turn("answer", r)) THEN ButLast(t) ELSE t
  <2>1. transcript' = [transcript EXCEPT ![s] = u]
    BY <1>5 DEF Retracts, Withdraw
  <2>2. \A q \in Runs : /\ phase'[q] \in Unasked => phase[q] \in Unasked
                        /\ Talking(q)' => Talking(q)
    BY <1>0, <1>5, EasesAll DEF Retracts
  <2>3. Whole(u) /\ \A q \in Runs : NoQuestion(t, q) => NoQuestion(u, q)
    BY <1>0, ButLastFits DEF EndsWith
  <2>4. ASSUME NEW q \in Runs, SessionOf[q] = s, Talking(q) PROVE u = t
    BY <1>0, <2>4 DEF Fits, Spoken, EndsWith, LastTurn, Turn
  <2> HIDE DEF u
  <2>5. \A q \in Runs : SessionOf[q] = s =>
          /\ phase'[q] \in Unasked => NoQuestion(u, q)
          /\ Talking(q)' => OpenFor(u, q) /\ Spoken(u)
    BY <1>0, <2>2, <2>3, <2>4 DEF Fits
  <2> QED
    BY <1>0, <2>1, <2>3, <2>5, FitsFromWritten
<1>6. CASE Rewrites(r)
  <2> DEFINE u == Recent(view[r])
  <2>1. transcript' = [transcript EXCEPT ![s] = u]
    BY <1>6 DEF Rewrites
  <2>2. /\ view[r] \in Seq(Turns) /\ Whole(view[r])
        /\ \A q \in Runs : SessionOf[q] = s => Fits(q, view[r])
    BY <1>6 DEF Rewrites, CopiesFit, TypeOK
  <2>3. Whole(u) /\ \A q \in Runs : SessionOf[q] = s => Fits(q, u)
    BY <2>2, RecentFits
  <2>4. \A q \in Runs : /\ phase'[q] \in Unasked => phase[q] \in Unasked
                        /\ Talking(q)' => Talking(q)
    BY <1>0, <1>6, EasesAll DEF Rewrites
  <2> HIDE DEF u
  <2>5. \A q \in Runs : SessionOf[q] = s =>
          /\ phase'[q] \in Unasked => NoQuestion(u, q)
          /\ Talking(q)' => OpenFor(u, q) /\ Spoken(u)
    BY <2>3, <2>4 DEF Fits
  <2> QED
    BY <1>0, <2>1, <2>3, <2>5, FitsFromWritten
<1> QED
  BY <1>1, <1>2, <1>3, <1>4, <1>5, <1>6 DEF Shapes

LEMMA CopiesStep ==
  ASSUME TypeOK, Local, SessionMutex, TurnInv, NEW r \in Runs, Shapes(r), TranscriptsFit'
  PROVE  CopiesFit'
<1> SUFFICES ASSUME NEW p \in Runs, phase'[p] = "summarising"
             PROVE  /\ Whole(view'[p])
                    /\ \A q \in Runs : SessionOf[q] = SessionOf[p] => Fits(q, view[p])'
  BY DEF CopiesFit
<1>1. CASE p = r
  <2>1. view'[r] = transcript'[SessionOf[r]]
    BY <1>1 DEF Shapes, Apart, Conversation
  <2> QED
    BY <1>1, <2>1, SessionAssumption DEF TranscriptsFit, Fits, Conversation
<1>2. CASE p # r
  <2>1. phase[p] = "summarising" /\ view'[p] = view[p]
    BY <1>2 DEF Shapes, Apart
  <2>2. Whole(view[p]) /\ \A q \in Runs : SessionOf[q] = SessionOf[p] => Fits(q, view[p])
    BY <2>1 DEF TurnInv, CopiesFit
  <2>3. ASSUME NEW q \in Runs, SessionOf[q] = SessionOf[p]
        PROVE  /\ phase'[q] \in Unasked => phase[q] \in Unasked
               /\ Talking(q)' => Talking(q)
    <3>1. CASE q # r
      BY <3>1 DEF Shapes, Apart, Talking
    <3>2. CASE q = r
      <4>1. phase[r] \notin Inside
        BY <1>2, <2>1, <2>3, <3>2, Alone DEF Inside
      <4>2. Eases(r)
        BY <4>1 DEF Shapes, Silent, Notes, Questions, Concludes, Retracts, Rewrites, Inside
      <4> QED
        BY <3>2, <4>2 DEF Eases
    <3> QED
      BY <3>1, <3>2
  <2> QED
    BY <2>1, <2>2, <2>3 DEF Fits
<1> QED
  BY <1>1, <1>2

\* The restored context is a prefix of the conversation, less the own question.
LEMMA ContextContinues ==
  ASSUME TypeOK, NEW r \in Runs
  PROVE  Continues(Conversation(r), Context(r), r)
<1> DEFINE t == transcript[SessionOf[r]]
<1>0. t \in Seq(Turns)
  BY SessionAssumption DEF TypeOK
<1>1. CASE EndsWith(SessionOf[r], Turn("user", r))
  <2>1. /\ t # <<>> /\ t[Len(t)].run = r /\ Context(r) = ButLast(t)
    BY <1>1 DEF EndsWith, LastTurn, Turn, Context
  <2>2. /\ Len(ButLast(t)) = Len(t) - 1 /\ Len(t) \in Nat
        /\ \A i \in 1..(Len(t) - 1) : ButLast(t)[i] = t[i]
    BY <1>0, <2>1 DEF ButLast
  <2>3. DOMAIN t = 1..Len(t)
    BY <1>0
  <2> HIDE DEF t
  <2>4. Continues(t, ButLast(t), r)
    BY <2>1, <2>2, <2>3 DEF Continues
  <2> QED
    BY <2>1, <2>4 DEF t, Conversation
<1>2. CASE ~EndsWith(SessionOf[r], Turn("user", r))
  BY <1>0, <1>2 DEF Context, Continues, Conversation
<1> QED
  BY <1>1, <1>2

LEMMA ReadersStep ==
  ASSUME TypeOK, Local, SessionMutex, TurnInv, NEW r \in Runs, Shapes(r)
  PROVE  ReadersFit'
<1> SUFFICES ASSUME NEW p \in Runs, phase'[p] = "running"
             PROVE  Continues(transcript'[SessionOf[p]], view'[p], p)
  BY DEF ReadersFit, Continues, Conversation
<1>1. CASE p = r
  BY <1>1, ContextContinues DEF Shapes, Apart, Conversation
<1>2. CASE p # r
  <2> DEFINE t == transcript[SessionOf[p]]
  <2>0. t \in Seq(Turns) /\ view[p] \in Seq(Turns) /\ SessionOf[p] \in Sessions
    BY SessionAssumption DEF TypeOK
  <2>1. phase[p] = "running" /\ view'[p] = view[p]
    BY <1>2 DEF Shapes, Apart
  <2>2. Continues(t, view[p], p)
    BY <2>1 DEF TurnInv, ReadersFit, Conversation
  <2>3. CASE transcript'[SessionOf[p]] = t
    BY <2>1, <2>2, <2>3
  <2>4. CASE transcript'[SessionOf[p]] # t
    <3>1. SessionOf[r] = SessionOf[p]
      BY <2>0, <2>4 DEF TypeOK, Shapes, Silent, Notes, Questions, Concludes, Retracts,
                        Withdraw, Rewrites, Say
    <3>2. phase[r] \notin Inside
      BY <1>2, <2>1, <3>1, Alone DEF Inside
    <3>3. Spoken(t)
      BY <2>1 DEF TurnInv, TranscriptsFit, Fits, Talking, Conversation
    <3>4. ~Retracts(r)
      BY <2>4, <3>1, <3>3, SessionAssumption
      DEF TypeOK, Retracts, Withdraw, Spoken, EndsWith, LastTurn, Turn
    <3>5. Notes(r)
      BY <2>4, <3>2, <3>4 DEF Shapes, Silent, Questions, Concludes, Rewrites, Inside
    <3>6. PICK k \in Notices : transcript'[SessionOf[p]] = Append(t, Turn(k, r))
      BY <2>0, <3>1, <3>5, NoticeKinds DEF TypeOK, Notes, Say
    <3> DEFINE x == Turn(k, r)
               u == Append(t, x)
    <3>7. x \in Turns /\ x.kind \notin Speech
      BY DEF Turn, Turns, Notices, Speech
    <3>8. /\ Len(u) = Len(t) + 1 /\ Len(t) \in Nat /\ u[Len(t) + 1] = x
          /\ \A i \in DOMAIN t : u[i] = t[i]
          /\ DOMAIN u = DOMAIN t \cup {Len(t) + 1} /\ DOMAIN t = 1..Len(t)
      BY <2>0, <3>7, TailOfAppend
    <3>9. Len(view[p]) \in Nat
      BY <2>0
    <3> HIDE DEF u, x, t
    <3>10. Continues(u, view[p], p)
      BY <2>2, <3>7, <3>8, <3>9 DEF Continues
    <3> QED
      BY <2>1, <3>6, <3>10 DEF u, x
  <2> QED
    BY <2>3, <2>4
<1> QED
  BY <1>1, <1>2

LEMMA TurnStep ==
  ASSUME TypeOK, Local, SessionMutex, TurnInv, NEW r \in Runs, Shapes(r)
  PROVE  TurnInv'
<1>1. Manual'
  BY DEF TurnInv, Manual, Shapes, Apart
<1> QED
  BY <1>1, TranscriptsStep, CopiesStep, ReadersStep DEF TurnInv

LEMMA TurnNext ==
  ASSUME TypeOK, Local, SessionMutex, TurnInv, [Next]_vars
  PROVE  TurnInv'
<1>0. Manual
  BY DEF TurnInv
<1>1. ASSUME NEW r \in Runs, Arrive(r) \/ Enter(r) \/ Work(r) \/ Leave(r) \/ Drop(r)
      PROVE  TurnInv'
  BY <1>0, <1>1, ArriveShape, EnterShape, WorkShape, LeaveShape, DropShape, TurnStep
<1>2. ASSUME NEW p \in Procs, Crash(p) PROVE TurnInv'
  <2>1. /\ UNCHANGED <<transcript, purpose>>
        /\ \A q \in Runs : /\ phase'[q] \in {phase[q], "gone"}
                           /\ phase'[q] # "gone" => view'[q] = view[q]
    BY <1>2 DEF Crash
  <2>2. \A q \in Runs : /\ phase'[q] \in Unasked => phase[q] \in Unasked
                        /\ Talking(q)' => Talking(q)
    BY <2>1 DEF Unasked, Talking
  <2>3. TranscriptsFit'
    BY <2>1, <2>2 DEF TurnInv, TranscriptsFit, Fits, Conversation
  <2>4. CopiesFit'
    BY <2>1, <2>2 DEF TurnInv, CopiesFit, Fits
  <2>5. Manual'
    BY <2>1 DEF TurnInv, Manual, Unasked
  <2>6. ReadersFit'
    BY <2>1 DEF TurnInv, ReadersFit, Continues, Conversation
  <2> QED
    BY <2>3, <2>4, <2>5, <2>6 DEF TurnInv
<1>3. CASE NewDay \/ UNCHANGED vars
  BY <1>3 DEF NewDay, vars, TurnInv, TranscriptsFit, CopiesFit, Manual, ReadersFit, Fits,
              Talking, Continues, Conversation
<1> QED
  BY <1>1, <1>2, <1>3 DEF Next

LEMMA TurnsInvariant ==
  ASSUME Local
  PROVE  Spec => []TurnInv
<1>1. Init => TurnInv
  <2> SUFFICES ASSUME Init PROVE TurnInv
    OBVIOUS
  <2>1. \A q \in Runs : phase[q] = "idle" /\ purpose[q] = "auto" /\ Conversation(q) = <<>>
    BY SessionAssumption DEF Init, Conversation
  <2>2. \A s \in Sessions : Whole(transcript[s])
    BY DEF Init, Whole
  <2>3. \A q \in Runs : Fits(q, Conversation(q))
    BY <2>1 DEF Fits, NoQuestion, Talking
  <2> QED
    BY <2>1, <2>2, <2>3 DEF TurnInv, TranscriptsFit, CopiesFit, Manual, ReadersFit
<1>2. TypeOK /\ SessionMutex /\ TurnInv /\ [Next]_vars => TurnInv'
  BY TurnNext
<1> QED
  BY <1>1, <1>2, TypeCorrect, MutualExclusion, PTL DEF Spec

\* The lock keeps conversations whole: in a session of one process no question and no
\* answer of another run comes between a question and its answer, whatever runs, crashes,
\* drops and compactions there are.
THEOREM TurnsAreWhole ==
  ASSUME Local
  PROVE  Spec => []TurnsDoNotInterleave
<1>1. TurnInv => TurnsDoNotInterleave
  BY DEF TurnInv, TranscriptsFit, TurnsDoNotInterleave, Whole, Speech
<1> QED
  BY <1>1, TurnsInvariant, PTL

\* In a session of one process no runner works on a conversation that has moved on:
\* what it read (restore_runtime_context) is still there and only notices have come.
THEOREM SnapshotsAreCurrent ==
  ASSUME Local
  PROVE  Spec => []SnapshotCurrent
<1>1. TurnInv => SnapshotCurrent
  BY DEF TurnInv, ReadersFit, SnapshotCurrent, Continues, Conversation, Speech
<1> QED
  BY <1>1, TurnsInvariant, PTL
=============================================================================
