----------------------- MODULE ChannelIngress_proofs -----------------------
(* Proofs about ChannelIngress, for every value of its constants.           *)
EXTENDS ChannelIngress, TLAPS

-----------------------------------------------------------------------------
(* The lock and the entry of a session.                                     *)

LocksIn(d) == TriesLock(d) \/ WaitsForIt(d)

Registries ==
  /\ hand \in [Mail -> Stages]
  /\ active \in [Sessions -> Mail \cup {None}]
  /\ busy \in [Sessions -> Mail \cup {None}]

\* A handler past its lock is the one the lock names.
LockHeld == \A d \in Mail : LocksIn(d) /\ hand[d] \in Owning => active[SessionOf[d]] = d

\* An entry names a handler that came through try_begin_active and has not begun to
\* leave; and each of these has its entry.
Entries ==
  /\ \A s \in Sessions : busy[s] # None =>
       /\ SessionOf[busy[s]] = s /\ TriesLock(busy[s])
       /\ hand[busy[s]] \in {"guarded", "taken", "asking", "closing"}
  /\ \A d \in Mail : TriesLock(d) /\ hand[d] \in {"guarded", "taken", "asking", "closing"}
                       => busy[SessionOf[d]] = d

\* Between lock and entry is only who came through try_begin_active.
Begun == \A d \in Mail : hand[d] = "begun" => TriesLock(d)

IngressInv == Registries /\ LockHeld /\ Entries /\ Begun

LEMMA Basics ==
  /\ None \notin Mail
  /\ \A d \in Mail : SessionOf[d] \in Sessions
BY SessionAssumption DEF Mail

\* The invariant says what BusyIsHolder says.
LEMMA EntriesNameHolders == IngressInv => BusyIsHolder
BY Basics DEF IngressInv, Registries, LockHeld, Entries, BusyIsHolder, LocksIn, Owning

LEMMA InvInit == IngressInit => IngressInv
BY Basics
DEF IngressInit, IngressInv, Registries, LockHeld, Entries, Begun, LocksIn, Owning, Stages

-----------------------------------------------------------------------------
(* Moves of a handler.                                                      *)

\* A move that touches neither registry, from one side of the lock to the same.
LEMMA InvMove ==
  ASSUME IngressInv, NEW d \in Mail, NEW to \in Stages,
         Goes(d, to), to # "begun", UNCHANGED <<conf, active, busy>>,
         \/ /\ hand[d] \notin Owning /\ to \notin Owning
         \/ /\ hand[d] \in {"guarded", "taken", "asking", "closing"}
            /\ to \in {"guarded", "taken", "asking", "closing"}
         \/ ~LocksIn(d)
  PROVE  IngressInv'
<1> USE DEF IngressInv, Registries
<1>1. /\ hand' \in [Mail -> Stages]
      /\ hand'[d] = to
      /\ \A o \in Mail : o # d => hand'[o] = hand[o]
  BY DEF Goes
<1>2. /\ conf' = conf /\ active' = active /\ busy' = busy
      /\ \A o \in Mail : /\ TriesLock(o)' <=> TriesLock(o)
                         /\ LocksIn(o)' <=> LocksIn(o)
  BY DEF TriesLock, WaitsForIt, LocksIn, Group
<1>3. LockHeld'
  BY <1>1, <1>2 DEF LockHeld, Owning
<1>4. Entries'
  BY <1>1, <1>2, Basics DEF Entries, LocksIn, Owning
<1>5. Begun'
  BY <1>1, <1>2 DEF Begun
<1> QED
  BY <1>1, <1>2, <1>3, <1>4, <1>5

\* A step that leaves the handlers, the lock and the entries alone.
LEMMA InvStutter ==
  ASSUME IngressInv, UNCHANGED <<conf, hand, active, busy>>
  PROVE  IngressInv'
BY DEF IngressInv, Registries, LockHeld, Entries, Begun, LocksIn, TriesLock, WaitsForIt, Group

\* What the next lemmas share: who goes through which lock does not change.
LEMMA LocksStay ==
  ASSUME UNCHANGED conf, NEW d \in Mail
  PROVE  (TriesLock(d)' <=> TriesLock(d)) /\ (LocksIn(d)' <=> LocksIn(d))
BY DEF TriesLock, WaitsForIt, LocksIn, Group

LEMMA ReceiveInv ==
  ASSUME IngressInv, NEW d \in Mail, Receive(d)
  PROVE  IngressInv'
<1>1. /\ hand[d] = "sent" /\ UNCHANGED <<conf, active, busy>>
      /\ Goes(d, "ignored") \/ Goes(d, "heard") \/ Goes(d, "accepted")
  BY DEF Receive
<1> QED
  BY <1>1, InvMove DEF Stages, Owning

LEMMA NoLockInv ==
  ASSUME IngressInv, NEW d \in Mail, NoLock(d)
  PROVE  IngressInv'
BY InvMove DEF NoLock, LocksIn, Stages

\* A handler that was answered before the lock, or turned away, goes.
LEMMA UnlockedInv ==
  ASSUME IngressInv, NEW d \in Mail, Intercept(d) \/ TurnAway(d)
  PROVE  IngressInv'
<1>1. /\ hand[d] \in {"accepted", "turned"} /\ UNCHANGED <<conf, active, busy>>
      /\ Goes(d, "done")
  BY DEF Intercept, TurnAway
<1> QED
  BY <1>1, InvMove DEF Stages, Owning

\* The steps between the lock and its return.
LEMMA LockedInv ==
  ASSUME IngressInv, NEW d \in Mail,
         Take(d) \/ CannotLoad(d) \/ WriteOverheard(d) \/ Direct(d) \/ Reply(d) \/ Panic(d)
  PROVE  IngressInv'
<1>1. ASSUME Take(d) PROVE IngressInv'
  BY <1>1, InvMove DEF Take, Stages
<1>2. ASSUME CannotLoad(d) PROVE IngressInv'
  BY <1>2, InvMove DEF CannotLoad, Stages
<1>3. ASSUME WriteOverheard(d) PROVE IngressInv'
  <2>1. /\ hand[d] = "taken" /\ UNCHANGED <<conf, active, busy>>
        /\ Goes(d, "closing") \/ Goes(d, "asking")
    BY <1>3 DEF WriteOverheard, Weigh
  <2> QED
    BY <2>1, InvMove DEF Stages
<1>4. ASSUME Direct(d) PROVE IngressInv'
  <2>1. /\ hand[d] = "guarded" /\ UNCHANGED <<conf, active, busy>>
        /\ Goes(d, "closing") \/ Goes(d, "asking")
    BY <1>4 DEF Direct, Weigh
  <2> QED
    BY <2>1, InvMove DEF Stages
<1>5. ASSUME Reply(d) PROVE IngressInv'
  BY <1>5, InvMove DEF Reply, Stages
<1>6. ASSUME Panic(d) PROVE IngressInv'
  BY <1>6, InvMove DEF Panic, Stages
<1> QED
  BY <1>1, <1>2, <1>3, <1>4, <1>5, <1>6

-----------------------------------------------------------------------------
(* Taking and giving back.                                                  *)

\* The lock was free, so nobody of the session is past it.
LEMMA TryLockInv ==
  ASSUME IngressInv, NEW d \in Mail, TryLock(d)
  PROVE  IngressInv'
<1> DEFINE s == SessionOf[d]
<1>0. hand[d] = "accepted" /\ TriesLock(d) /\ UNCHANGED <<conf, busy>> /\ s \in Sessions
  BY Basics DEF TryLock, ForAgent
<1>1. CASE active[s] = None
  <2>1. active' = [active EXCEPT ![s] = d] /\ Goes(d, "begun")
    BY <1>1 DEF TryLock
  <2>2. Registries'
    BY <1>0, <2>1 DEF IngressInv, Registries, Goes, Stages
  <2>3. LockHeld'
    BY <1>0, <1>1, <2>1, LocksStay, Basics
    DEF IngressInv, Registries, LockHeld, Goes, Owning
  <2>4. Entries'
    BY <1>0, <2>1, LocksStay, Basics DEF IngressInv, Registries, Entries, Goes
  <2>5. Begun'
    BY <1>0, <2>1, LocksStay DEF IngressInv, Registries, Begun, Goes
  <2> QED
    BY <2>2, <2>3, <2>4, <2>5 DEF IngressInv
<1>2. CASE active[s] # None
  <2>1. Goes(d, "turned") /\ UNCHANGED active
    BY <1>2 DEF TryLock
  <2> QED
    BY <1>0, <2>1, InvMove DEF Stages, Owning
<1> QED
  BY <1>1, <1>2

LEMMA AnnounceInv ==
  ASSUME IngressInv, NEW d \in Mail, Announce(d)
  PROVE  IngressInv'
<1> DEFINE s == SessionOf[d]
<1>1. /\ hand[d] = "begun" /\ UNCHANGED <<conf, active>> /\ s \in Sessions
      /\ busy' = [busy EXCEPT ![s] = d] /\ Goes(d, "guarded") /\ TriesLock(d)
  BY Basics DEF Announce, IngressInv, Begun
<1>2. Registries'
  BY <1>1 DEF IngressInv, Registries, Goes, Stages
<1>3. LockHeld'
  BY <1>1, LocksStay DEF IngressInv, Registries, LockHeld, Goes, Owning
<1>4. \A o \in Mail : TriesLock(o) /\ SessionOf[o] = s
          /\ hand[o] \in {"guarded", "taken", "asking", "closing"} => o = d
  BY <1>1 DEF IngressInv, LockHeld, LocksIn, Owning
<1>5. Entries'
  BY <1>1, <1>4, LocksStay, Basics DEF IngressInv, Registries, Entries, Goes
<1>6. Begun'
  BY <1>1, LocksStay DEF IngressInv, Registries, Begun, Goes
<1> QED
  BY <1>2, <1>3, <1>5, <1>6 DEF IngressInv

LEMMA WaitLockInv ==
  ASSUME IngressInv, NEW d \in Mail, WaitLock(d)
  PROVE  IngressInv'
<1> DEFINE s == SessionOf[d]
<1>1. /\ hand[d] = "accepted" /\ UNCHANGED <<conf, busy>> /\ s \in Sessions
      /\ active[s] = None /\ active' = [active EXCEPT ![s] = d] /\ Goes(d, "guarded")
      /\ ~TriesLock(d)
  BY Basics DEF WaitLock, ForAgent, WaitsForIt, TriesLock
<1>2. Registries'
  BY <1>1 DEF IngressInv, Registries, Goes, Stages
<1>3. LockHeld'
  BY <1>1, LocksStay, Basics DEF IngressInv, Registries, LockHeld, Goes, Owning
<1>4. Entries'
  BY <1>1, LocksStay, Basics DEF IngressInv, Registries, Entries, Goes
<1>6. Begun'
  BY <1>1, LocksStay DEF IngressInv, Registries, Begun, Goes
<1> QED
  BY <1>2, <1>3, <1>4, <1>6 DEF IngressInv

LEMMA CloseInv ==
  ASSUME IngressInv, NEW d \in Mail, Close(d)
  PROVE  IngressInv'
<1> DEFINE s == SessionOf[d]
<1>1. /\ hand[d] = "closing" /\ UNCHANGED <<conf, active>> /\ s \in Sessions
      /\ busy' = [busy EXCEPT ![s] = IF TriesLock(d) THEN None ELSE @] /\ Goes(d, "leaving")
  BY Basics DEF Close
<1>2. Registries'
  BY <1>1 DEF IngressInv, Registries, Goes, Stages
<1>3. LockHeld'
  BY <1>1, LocksStay DEF IngressInv, Registries, LockHeld, Goes, Owning
<1>4. ASSUME NEW o \in Mail, o # d, TriesLock(o), TriesLock(d),
             hand[o] \in {"guarded", "taken", "asking", "closing"}
      PROVE  SessionOf[o] # s
  BY <1>1, <1>4 DEF IngressInv, LockHeld, LocksIn, Owning
<1>5. Entries'
  BY <1>1, <1>4, LocksStay, Basics DEF IngressInv, Registries, Entries, Goes
<1>6. Begun'
  BY <1>1, LocksStay DEF IngressInv, Registries, Begun, Goes
<1> QED
  BY <1>2, <1>3, <1>5, <1>6 DEF IngressInv

LEMMA UnlockInv ==
  ASSUME IngressInv, NEW d \in Mail, Unlock(d)
  PROVE  IngressInv'
<1> DEFINE s == SessionOf[d]
<1>1. /\ hand[d] = "leaving" /\ UNCHANGED <<conf, busy>> /\ s \in Sessions
      /\ active' = [active EXCEPT ![s] = IF LocksIn(d) THEN None ELSE @] /\ Goes(d, "done")
  BY Basics DEF Unlock, LocksIn
<1>2. Registries'
  BY <1>1 DEF IngressInv, Registries, Goes, Stages
<1>3. ASSUME NEW o \in Mail, o # d, LocksIn(o), LocksIn(d), hand[o] \in Owning
      PROVE  SessionOf[o] # s
  BY <1>1, <1>3 DEF IngressInv, LockHeld, Owning
<1>4. LockHeld'
  BY <1>1, <1>3, LocksStay DEF IngressInv, Registries, LockHeld, Goes, Owning
<1>5. Entries'
  BY <1>1, LocksStay, Basics DEF IngressInv, Registries, Entries, Goes
<1>6. Begun'
  BY <1>1, LocksStay DEF IngressInv, Registries, Begun, Goes
<1> QED
  BY <1>2, <1>4, <1>5, <1>6 DEF IngressInv

LEMMA RestartInv ==
  ASSUME IngressInv, NEW p \in Procs, Restart(p)
  PROVE  IngressInv'
<1>1. /\ hand' = [d \in Mail |-> IF hand[d] \in Resting THEN hand[d] ELSE "lost"]
      /\ active' = [s \in Sessions |-> None] /\ busy' = [s \in Sessions |-> None]
  BY DEF Restart
<1>2. \A d \in Mail : hand'[d] \in Resting
  BY <1>1 DEF Resting
<1> QED
  BY <1>1, <1>2, Basics
  DEF IngressInv, Registries, LockHeld, Entries, Begun, Resting, Owning, Stages

-----------------------------------------------------------------------------
(* The theorems.                                                            *)

LEMMA InvNext ==
  ASSUME IngressInv, IngressNext
  PROVE  IngressInv'
<1>1. ASSUME NEW d \in Mail, HandlerStep(d) PROVE IngressInv'
  <2>1. ASSUME Ask(d) PROVE IngressInv'
    BY <2>1, InvStutter DEF Ask, ingressVars
  <2> QED
    BY <1>1, <2>1, UnlockedInv, LockedInv, TryLockInv, AnnounceInv, WaitLockInv, NoLockInv,
       CloseInv, UnlockInv DEF HandlerStep
<1>2. ASSUME NEW d \in Mail, Receive(d) \/ Panic(d) PROVE IngressInv'
  BY <1>2, ReceiveInv, LockedInv
<1>3. ASSUME NEW r \in Runs, RunStep(r) PROVE IngressInv'
  BY <1>3, InvStutter DEF RunStep, ingressVars
<1>4. ASSUME NEW t \in Scheduled, Task(t) \/ TimeOut(t) PROVE IngressInv'
  BY <1>4, InvStutter DEF Task, TimeOut, ingressVars
<1>5. ASSUME NEW m \in Messages, Forgotten(m) PROVE IngressInv'
  BY <1>5, InvStutter DEF Forgotten
<1>6. ASSUME NEW s \in Sessions, Recover(s) PROVE IngressInv'
  BY <1>6, InvStutter DEF Recover
<1> QED
  BY <1>1, <1>2, <1>3, <1>4, <1>5, <1>6, RestartInv DEF IngressNext

\* Lock and entry agree in every reachable state.
THEOREM IngressInvariant == IngressSpec => []IngressInv
<1>1. IngressInv /\ [IngressNext]_allVars => IngressInv'
  <2>1. ASSUME IngressInv, UNCHANGED allVars PROVE IngressInv'
    BY <2>1, InvStutter DEF allVars, ingressVars
  <2> QED
    BY <2>1, InvNext
<1> QED
  BY InvInit, <1>1, PTL DEF IngressSpec

\* The entry of a session names the holder of its ingress lock, and whoever is served has
\* one: a busy reply names the person who is being served (SessionLockRegistry).
THEOREM BusyHolderTheorem == IngressSpec => []BusyIsHolder
BY IngressInvariant, EntriesNameHolders, PTL

\* Of two messages of one session that take its ingress lock, by trying or by waiting, at
\* most one is past it: the whole of a handler excludes the whole of another.
IngressExcludes ==
  \A d, e \in Mail :
    /\ SessionOf[d] = SessionOf[e] /\ LocksIn(d) /\ LocksIn(e)
    /\ hand[d] \in Owning /\ hand[e] \in Owning
    => d = e

THEOREM IngressExclusion == IngressSpec => []IngressExcludes
<1>1. IngressInv => IngressExcludes
  BY DEF IngressInv, LockHeld, IngressExcludes
<1> QED
  BY <1>1, IngressInvariant, PTL
=============================================================================
