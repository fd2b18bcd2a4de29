---------------------------- MODULE SlotDelivery ----------------------------
(***************************************************************************)
(* What the scheduled-task pipeline promises a user when due jobs are      *)
(* claimed in the cloud store: a slot of a job (one delivery key) is taken *)
(* up once, and it puts at most one message in the user's inbox.           *)
(* CronExecution is shown to implement this when Cloud = TRUE.             *)
(***************************************************************************)
CONSTANTS Keys,      \* the slots: <<job, period>>
          Senders    \* whatever may deliver a message for a slot

VARIABLES taken,     \* slots somebody has taken up
          inbox      \* <<sender, slot>> of every message the user received

slotVars == <<taken, inbox>>

Answered(k) == \E s \in Senders : <<s, k>> \in inbox

Init == /\ taken = {}
        /\ inbox = {}

Take == /\ taken \subseteq taken'
        /\ taken' \in SUBSET Keys
        /\ UNCHANGED inbox

Deliver(s, k) == /\ ~ Answered(k)
                 /\ inbox' = inbox \cup {<<s, k>>}
                 /\ UNCHANGED taken

Next == \/ Take
        \/ \E s \in Senders, k \in taken : Deliver(s, k)

Spec == Init /\ [][Next]_slotVars
=============================================================================
