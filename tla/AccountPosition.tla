--------------------------- MODULE AccountPosition ---------------------------
(***************************************************************************)
(* What the ledger promises to the rest of the system: the two figures of  *)
(* an account, what it owes and what the utility holds for it, and how     *)
(* each posting moves them -- with no open items and no allocation.        *)
(* Delinquency, the bill and the customer portal read these two figures    *)
(* only, as Account.balance and Account.depositAmount.                     *)
(***************************************************************************)
EXTENDS Integers, Sequences

CONSTANT MaxAmount   \* the largest amount of one posting, in cents

VARIABLES
  receivable,   \* what the account owes, less the credit it has left
  held,         \* the security deposit held for it
  moves         \* every posting so far: its kind, its amount, what it undoes

Amount == 1..MaxAmount

Post(kind, amount, undoes) ==
  moves' = Append(moves, [kind |-> kind, amount |-> amount, undoes |-> undoes])

\* A bill, a fee, or a manual charge.
Charge(x) ==
  /\ Post("CHARGE", x, 0)
  /\ receivable' = receivable + x /\ UNCHANGED held

\* A payment, a waiver, a write-off, or a bill that nets negative.
Credit(x) ==
  /\ Post("CREDIT", -x, 0)
  /\ receivable' = receivable - x /\ UNCHANGED held

\* A deposit is a liability: it moves what is held, never what is owed.
TakeDeposit(x) ==
  /\ Post("DEPOSIT", -x, 0)
  /\ held' = held + x /\ UNCHANGED receivable

\* A refund pays out a credit balance, or of the deposit at most what is held.
Refund(x) ==
  /\ Post("REFUND", x, 0)
  /\ \/ receivable' = receivable + x /\ UNCHANGED held
     \/ held >= x /\ held' = held - x /\ UNCHANGED receivable

\* A posting is undone once, and an undoing never.  What returns to the
\* deposit, or leaves it, is part of the posting's amount: nothing of a charge
\* or a credit, and of a deposit or a refund whatever was refunded of it.
Undo(i) ==
  /\ moves[i].kind # "UNDO"
  /\ \A j \in 1..Len(moves) : moves[j].undoes # i
  /\ Post("UNDO", -moves[i].amount, i)
  /\ \E h \in -MaxAmount..MaxAmount :
       /\ \/ 0 <= h /\ h <= moves[i].amount
          \/ moves[i].amount <= h /\ h <= 0
       /\ moves[i].kind \in {"CHARGE", "CREDIT"} => h = 0
       /\ held + h >= 0
       /\ held' = held + h
       /\ receivable' = receivable - moves[i].amount + h

Init == receivable = 0 /\ held = 0 /\ moves = <<>>

Next ==
  \/ \E x \in Amount : Charge(x) \/ Credit(x) \/ TakeDeposit(x) \/ Refund(x)
  \/ \E i \in 1..Len(moves) : Undo(i)

Spec == Init /\ [][Next]_<<receivable, held, moves>>
=============================================================================
