------------------------ MODULE IndependentBackups -------------------------
(***************************************************************************)
(* What one run of "proxmox-srvbackup backup" promises: every server asked *)
(* for is backed up on its own, ends well or badly without regard to the   *)
(* others, and one verdict is told when nothing is being worked on any     *)
(* more.  Threads, queue, results list, mail and exit code do not appear.  *)
(***************************************************************************)
CONSTANT Server

VARIABLES
    fate,       \* [Server -> how far the backup of the server is]
    verdict     \* what the caller of the program is told

vars == <<fate, verdict>>

Settled == {"good", "bad"}
Fate    == {"unasked", "asked", "working"} \cup Settled

Init ==
    /\ fate = [s \in Server |-> "unasked"]
    /\ verdict = "pending"

Ask(A) ==
    /\ verdict = "pending"
    /\ \A s \in Server : fate[s] = "unasked"
    /\ fate' = [s \in Server |-> IF s \in A THEN "asked" ELSE "unasked"]
    /\ UNCHANGED verdict

Work(s) ==
    /\ verdict = "pending" /\ fate[s] = "asked"
    /\ fate' = [fate EXCEPT ![s] = "working"]
    /\ UNCHANGED verdict

Settle(s) ==
    /\ verdict = "pending" /\ fate[s] = "working"
    /\ \E f \in Settled : fate' = [fate EXCEPT ![s] = f]
    /\ UNCHANGED verdict

\* The verdict of a run that went its way: good when every server ended well.
Tell ==
    /\ verdict = "pending"
    /\ \E s \in Server : fate[s] # "unasked"
    /\ \A s \in Server : fate[s] \in {"unasked"} \cup Settled
    /\ verdict' = IF \E s \in Server : fate[s] = "bad" THEN "bad" ELSE "good"
    /\ UNCHANGED fate

\* No verdict on the backups: nothing to do, an error, an interrupt.  Servers
\* may be left unbacked, but none half way.
GiveUp ==
    /\ verdict = "pending"
    /\ \A s \in Server : fate[s] # "working"
    /\ verdict' = "none"
    /\ UNCHANGED fate

Next ==
    \/ \E A \in SUBSET Server : Ask(A)
    \/ \E s \in Server : Work(s) \/ Settle(s)
    \/ Tell
    \/ GiveUp

Spec == Init /\ [][Next]_vars
=============================================================================
