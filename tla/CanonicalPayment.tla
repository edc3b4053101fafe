-------------------------- MODULE CanonicalPayment --------------------------
(***************************************************************************)
(* What the payment ledger promises its callers, without any of its        *)
(* statuses: in every slot (a rescue request and a payment type) attempts  *)
(* are made one at a time, an attempt is opened once and decided once, and *)
(* at most one attempt per slot is ever the winner -- the one that may     *)
(* drive business side effects.  PaymentLedger implements this module.     *)
(***************************************************************************)
CONSTANTS Attempts, Slots

VARIABLES
    live,      \* live[s]: the attempts of slot s that are still undecided
    winners,   \* winners[s]: the attempts of slot s that won
    opened     \* every attempt ever opened

absVars == <<live, winners, opened>>

Init ==
    /\ live = [s \in Slots |-> {}]
    /\ winners = [s \in Slots |-> {}]
    /\ opened = {}

(* A fresh attempt, only while the slot has none under way.                *)
Open(s, a) ==
    /\ a \notin opened
    /\ live[s] = {}
    /\ live' = [live EXCEPT ![s] = {a}]
    /\ opened' = opened \cup {a}
    /\ UNCHANGED winners

(* The attempt under way wins the slot, if nobody has.                     *)
Win(s, a) ==
    /\ live[s] = {a}
    /\ winners[s] = {}
    /\ live' = [live EXCEPT ![s] = {}]
    /\ winners' = [winners EXCEPT ![s] = {a}]
    /\ UNCHANGED opened

(* The attempt under way is over without winning.                          *)
Close(s, a) ==
    /\ live[s] = {a}
    /\ live' = [live EXCEPT ![s] = {}]
    /\ UNCHANGED <<winners, opened>>

Next == \E s \in Slots, a \in Attempts : Open(s, a) \/ Win(s, a) \/ Close(s, a)

Spec == Init /\ [][Next]_absVars
=============================================================================
