----------------------------- MODULE ShiftLedger -----------------------------
(***************************************************************************)
(* What a cashier's shift promises to whoever audits it, with no           *)
(* transactions, locks, sales or returns: an account that takes amounts    *)
(* while it is open and that is closed once, with the balance it had at    *)
(* that moment written down and never changed again.  CashShift implements *)
(* it.                                                                     *)
(***************************************************************************)
EXTENDS Integers

CONSTANTS Shifts, None

VARIABLE ledger   \* per shift: open or not, its balance, the balance frozen at closing

Init ==
    \A s \in Shifts : /\ ledger[s].open
                      /\ ledger[s].balance \in Int
                      /\ ledger[s].frozen = None

\* Charges, movements and refunds: any amount, in or out, while it is open.
Post(s) ==
    /\ ledger[s].open
    /\ ledger'[s].balance \in Int
    /\ ledger' = [ledger EXCEPT ![s].balance = ledger'[s].balance]

Close(s) ==
    /\ ledger[s].open
    /\ ledger' = [ledger EXCEPT ![s].open = FALSE, ![s].frozen = ledger[s].balance]

Next == \E s \in Shifts : Post(s) \/ Close(s)

Spec == Init /\ [][Next]_ledger
=============================================================================
