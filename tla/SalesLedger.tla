----------------------------- MODULE SalesLedger -----------------------------
(***************************************************************************)
(* What the sales table promises the reports that add it up (P&L, sales   *)
(* summary, settlements), whatever the handlers that write it do in        *)
(* between: a sale is entered once under the next number, its number is    *)
(* never used again, it always belongs to the item it was entered for, and *)
(* its net proceeds are always its price less its costs.  A sale may be    *)
(* amended, and it may be struck out; a struck-out sale never comes back.  *)
(*                                                                         *)
(* Marketplace implements this module.                                     *)
(***************************************************************************)
EXTENDS Integers, Sequences

CONSTANTS Item,     \* the items that can be sold
          Price,    \* what a buyer may pay
          Cost      \* what a sale may cost in fees and shipping

VARIABLE book       \* the entries in the order they were made

Entry(i, p, c) == [kept |-> TRUE, item |-> i, price |-> p, cost |-> c, net |-> p - c]

StruckOut == [kept |-> FALSE]

Init == book = <<>>

Enter(i, p, c) == book' = Append(book, Entry(i, p, c))

Amend(k, p, c) ==
    /\ book[k].kept
    /\ book' = [book EXCEPT ![k] = Entry(book[k].item, p, c)]

StrikeOut(k) == book' = [book EXCEPT ![k] = StruckOut]

Next ==
    \/ \E i \in Item, p \in Price, c \in Cost : Enter(i, p, c)
    \/ \E k \in DOMAIN book, p \in Price, c \in Cost : Amend(k, p, c)
    \/ \E k \in DOMAIN book : StrikeOut(k)

Spec == Init /\ [][Next]_book
=============================================================================
