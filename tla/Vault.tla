------------------------------- MODULE Vault -------------------------------
(***************************************************************************)
(* What pulling files promises its reader: for each kind of file a set of  *)
(* complete copies.  A copy enters the set as its newest member, copies    *)
(* leave it only while a newer one stays: once there is a complete copy    *)
(* there always is one, and the newest one is never a step back.           *)
(***************************************************************************)
EXTENDS Naturals

CONSTANTS Kind, Stamp     \* kinds of files, time stamps (numbers)
VARIABLE copies     \* [Kind -> set of the times of the complete copies]

Init == copies = [k \in Kind |-> {}]

Deposit(k) ==
    \E t \in Stamp :
        /\ \A u \in copies[k] : u < t
        /\ copies' = [copies EXCEPT ![k] = @ \cup {t}]

Expire(k) ==
    \E t \in copies[k], u \in copies[k] :
        /\ t < u
        /\ copies' = [copies EXCEPT ![k] = @ \ {t}]

Next == \E k \in Kind : Deposit(k) \/ Expire(k)
Spec == Init /\ [][Next]_copies
=============================================================================
