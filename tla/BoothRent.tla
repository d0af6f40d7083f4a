------------------------------ MODULE BoothRent ------------------------------
(***************************************************************************)
(* Rentals, their payments and their invoices: the /api/rentals handlers of *)
(* app_business.cpp and the collector thread of main.cpp, which charges the *)
(* rentals once a month and marks late what is pending after the grace     *)
(* days.                                                                   *)
(*                                                                         *)
(* As in Marketplace an action is one SQL statement.  A handler that is one *)
(* statement needs no thread; the two that read and then insert have one.   *)
(* Rates, amounts and vendors are left out: a payment is what it is for, its *)
(* status, and whether it has the discount of a loyal vendor.              *)
(***************************************************************************)
EXTENDS Integers, FiniteSets

CONSTANTS Thread,        \* the client threads
          InvoiceDay,    \* booth_rent.invoice_day
          GraceEnd,      \* booth_rent.due_day + booth_rent.grace_days
          LastDay,       \* the days of a month
          LoyaltyMonths, \* booth_rent.loyalty_months
          MaxPeriod,     \* bound: months
          MaxRental,     \* bound: rows ever inserted into rentals
          MaxPayment,    \* bound: rows ever inserted into rental_payments
          MaxInvoice     \* bound: rows ever inserted into booth_invoices

RentalId  == 1..MaxRental
PaymentId == 1..MaxPayment
InvoiceId == 1..MaxInvoice
Period    == 1..MaxPeriod

PaymentStatus == {"pending", "paid", "overdue"}
InvoiceStatus == {"sent", "paid", "overdue"}
Discount      == {"loyalty", "other"}

ASSUME BoothRentAssumption ==
    /\ MaxPeriod \in Nat \ {0} /\ LastDay \in Nat \ {0}
    /\ MaxRental \in Nat /\ MaxPayment \in Nat /\ MaxInvoice \in Nat
    /\ InvoiceDay \in Nat /\ GraceEnd \in Nat
    /\ LoyaltyMonths \in Nat \ {0}

VARIABLES
    month,    \* the clock: the month ...
    day,      \* ... and the day of it
    rental,   \* the rows of rentals, by id: whether the rental is open
    nRental,
    payment,  \* the rows of rental_payments, by id
    nPayment,
    invoice,  \* the rows of booth_invoices, by id
    nInvoice,
    ctl,      \* the collector: its next statement and its local variables
    pc,       \* the statement each client thread executes next
    arg,      \* what each client thread has read
    torn      \* observer: the charges a crash cut in two

clock     == <<month, day>>
table     == <<rental, nRental, payment, nPayment, invoice, nInvoice>>
collector == <<ctl, torn>>
thread    == <<pc, arg>>
vars      == <<clock, table, collector, thread>>

With(f, k, row)  == [x \in DOMAIN f \cup {k} |-> IF x = k THEN row ELSE f[x]]
Without(f, keys) == [x \in DOMAIN f \ keys |-> f[x]]

\* `auto' is an observer: the collector made the row.  No statement gives an invoice
\* its payment_id, so `payment' is empty.
PaymentRow(r, m, s, d, auto) ==
    [rental |-> r, period |-> m, status |-> s, discount |-> d, auto |-> auto]
InvoiceRow(r, m, auto) ==
    [rental |-> r, period |-> m, status |-> "sent", payment |-> {}, auto |-> auto]

(***************************************************************************)
(* The collector holds the month, whether the grace days are over, the     *)
(* rentals it found and the rows it still has to look at.                  *)
(***************************************************************************)
Collecting(label, m, late, found, todo, at) ==
    [pc |-> label, period |-> m, late |-> late, found |-> found, todo |-> todo, at |-> at]

Asleep == Collecting("sleep", 1, FALSE, {}, {}, 0)

\* A client thread holds the payment it inserts.
Local(r, m, s, d) == [rental |-> r, period |-> m, status |-> s, discount |-> d]

NoArg == Local(0, 1, "paid", "other")

Goes(t, label, a) ==
    /\ pc'  = [pc EXCEPT ![t] = label]
    /\ arg' = [arg EXCEPT ![t] = a]

Init ==
    /\ month = 1 /\ day = 1
    /\ rental = <<>> /\ nRental = 0
    /\ payment = <<>> /\ nPayment = 0
    /\ invoice = <<>> /\ nInvoice = 0
    /\ ctl = Asleep /\ torn = {}
    /\ pc = [t \in Thread |-> "idle"] /\ arg = [t \in Thread |-> NoArg]

\* The server may be down for days, and a pass may last into the next day.
NextDay ==
    /\ \/ day < LastDay /\ day' = day + 1 /\ UNCHANGED month
       \/ day = LastDay /\ month < MaxPeriod /\ day' = 1 /\ month' = month + 1
    /\ UNCHANGED <<table, collector, thread>>

-----------------------------------------------------------------------------
(***************************************************************************)
(* Rows.  An INSERT that refers to a rental that is gone is refused.       *)
(***************************************************************************)

\* Mutation: the connection is opened without PRAGMA foreign_keys=ON.
InsertPayment_NoForeignKeys(row) ==
    /\ nPayment < MaxPayment
    /\ nPayment' = nPayment + 1
    /\ payment' = With(payment, nPayment + 1, row)

InsertPayment(row) ==
    /\ nPayment < MaxPayment
    /\ IF row.rental \in DOMAIN rental
       THEN /\ nPayment' = nPayment + 1
            /\ payment' = With(payment, nPayment + 1, row)
       ELSE UNCHANGED <<payment, nPayment>>

InsertInvoice(row) ==
    /\ nInvoice < MaxInvoice
    /\ IF row.rental \in DOMAIN rental
       THEN /\ nInvoice' = nInvoice + 1
            /\ invoice' = With(invoice, nInvoice + 1, row)
       ELSE UNCHANGED <<invoice, nInvoice>>

PaymentsOf(r) == {p \in DOMAIN payment : payment[p].rental = r}
InvoicesOf(r) == {i \in DOMAIN invoice : invoice[i].rental = r}

Paid(ps) == {p \in ps : payment[p].status = "paid"}

-----------------------------------------------------------------------------
(***************************************************************************)
(* The handlers of one statement                                           *)
(***************************************************************************)

PostRental ==
    /\ nRental < MaxRental
    /\ nRental' = nRental + 1
    /\ rental' = With(rental, nRental + 1, TRUE)
    /\ UNCHANGED <<clock, payment, nPayment, invoice, nInvoice, collector, thread>>

\* The end date is set, or taken back.
PutRental ==
    /\ \E r \in DOMAIN rental, open \in BOOLEAN : rental' = [rental EXCEPT ![r] = open]
    /\ UNCHANGED <<clock, nRental, payment, nPayment, invoice, nInvoice, collector, thread>>

\* The payments and invoices go with the rental.
DeleteRental ==
    /\ \E r \in DOMAIN rental :
         /\ rental'  = Without(rental, {r})
         /\ payment' = Without(payment, PaymentsOf(r))
         /\ invoice' = Without(invoice, InvoicesOf(r))
    /\ UNCHANGED <<clock, nRental, nPayment, nInvoice, collector, thread>>

\* POST /api/rentals/:id/invoice.  Its discount is left out, and with it the statements
\* that read it.
PostInvoice ==
    /\ \E r \in DOMAIN rental, m \in 1..month : InsertInvoice(InvoiceRow(r, m, FALSE))
    /\ UNCHANGED <<clock, rental, nRental, payment, nPayment, collector, thread>>

PutInvoicePaid ==
    /\ \E i \in DOMAIN invoice : invoice' = [invoice EXCEPT ![i].status = "paid"]
    /\ UNCHANGED <<clock, rental, nRental, payment, nPayment, nInvoice, collector, thread>>

-----------------------------------------------------------------------------
(***************************************************************************)
(* POST /api/rentals/:id/payments                                          *)
(***************************************************************************)

\* The client gives the period and the status.  The rental's own discount comes first,
\* or that of an early payment ...
PostPayment(t) ==
    /\ pc[t] = "idle"
    /\ \E r \in DOMAIN rental, m \in 1..month, s \in {"pending", "paid"},
          label \in {"loyalty", "insert"} :
         Goes(t, label, Local(r, m, s, "other"))
    /\ UNCHANGED <<clock, table, collector>>

GivesIf(t, loyal) ==
    Goes(t, "insert", Local(arg[t].rental, arg[t].period, arg[t].status,
                            IF loyal THEN "loyalty" ELSE "other"))

\* Mutation: every payment counts, not only the paid ones.
Loyalty_CountsAll(t) ==
    /\ pc[t] = "loyalty"
    /\ GivesIf(t, Cardinality(PaymentsOf(arg[t].rental)) >= LoyaltyMonths)
    /\ UNCHANGED <<clock, table, collector>>

\* ... then that of a loyal vendor, then that of a vendor with several rentals, if any.
Loyalty(t) ==
    /\ pc[t] = "loyalty"
    /\ GivesIf(t, Cardinality(Paid(PaymentsOf(arg[t].rental))) >= LoyaltyMonths)
    /\ UNCHANGED <<clock, table, collector>>

PostPaymentInsert(t) ==
    /\ pc[t] = "insert"
    /\ InsertPayment(PaymentRow(arg[t].rental, arg[t].period, arg[t].status,
                                arg[t].discount, FALSE))
    /\ Goes(t, "idle", NoArg)
    /\ UNCHANGED <<clock, rental, nRental, invoice, nInvoice, collector>>

-----------------------------------------------------------------------------
(***************************************************************************)
(* The collector                                                           *)
(***************************************************************************)

\* It wakes in the check hour.  Clocks are set back, so that an hour comes twice, and
\* hours are slept through: a day may have several passes or none.
Wake ==
    /\ ctl.pc = "sleep"
    /\ \/ day = InvoiceDay /\ ctl' = Collecting("open", month, day > GraceEnd, {}, {}, 0)
       \/ /\ day # InvoiceDay /\ day > GraceEnd
          /\ ctl' = Collecting("pending", month, TRUE, {}, {}, 0)
    /\ UNCHANGED <<clock, table, torn, thread>>

FindOpen ==
    /\ ctl.pc = "open"
    /\ LET open == {r \in DOMAIN rental : rental[r]}
       IN  ctl' = Collecting("look", ctl.period, ctl.late, open, open, 0)
    /\ UNCHANGED <<clock, table, torn, thread>>

\* At a rental: its invoice of the period is looked for, and the rental charged.
Charges(label, r) ==
    ctl' = Collecting(label, ctl.period, ctl.late, ctl.found, ctl.todo \ {r}, r)

Skips(label, r) ==
    ctl' = Collecting(label, ctl.period, ctl.late, ctl.found, ctl.todo \ {r}, 0)

\* Mutation: the rental is charged whether or not it has an invoice.
Look_Charges ==
    /\ ctl.pc = "look"
    /\ \E r \in ctl.todo : Charges("pay", r)
    /\ UNCHANGED <<clock, table, torn, thread>>

\* Mutation: an invoice of any period will do.
Look_AnyPeriod ==
    /\ ctl.pc = "look"
    /\ \E r \in ctl.todo :
         IF InvoicesOf(r) # {}
         THEN Skips("look", r)
         ELSE Charges("pay", r)
    /\ UNCHANGED <<clock, table, torn, thread>>

Look ==
    /\ ctl.pc = "look"
    /\ \E r \in ctl.todo :
         IF \E i \in InvoicesOf(r) : invoice[i].period = ctl.period
         THEN Skips("look", r)
         ELSE Charges("pay", r)
    /\ UNCHANGED <<clock, table, torn, thread>>

Pay ==
    /\ ctl.pc = "pay"
    /\ InsertPayment(PaymentRow(ctl.at, ctl.period, "pending", "other", TRUE))
    /\ Charges("bill", ctl.at)
    /\ UNCHANGED <<clock, rental, nRental, invoice, nInvoice, torn, thread>>

Bill ==
    /\ ctl.pc = "bill"
    /\ InsertInvoice(InvoiceRow(ctl.at, ctl.period, TRUE))
    /\ Skips("look", ctl.at)
    /\ UNCHANGED <<clock, rental, nRental, payment, nPayment, torn, thread>>

AllCharged ==
    /\ ctl.pc = "look" /\ ctl.todo = {}
    /\ ctl' = IF ctl.late
              THEN Collecting("pending", ctl.period, TRUE, {}, {}, 0)
              ELSE Asleep
    /\ UNCHANGED <<clock, table, torn, thread>>

FindPending ==
    /\ ctl.pc = "pending"
    /\ LET due == {p \in DOMAIN payment : /\ payment[p].period = ctl.period
                                          /\ payment[p].status = "pending"}
       IN  ctl' = Collecting("mark", ctl.period, TRUE, {}, due, 0)
    /\ UNCHANGED <<clock, table, torn, thread>>

Mark ==
    /\ ctl.pc = "mark"
    /\ \E p \in ctl.todo :
         /\ payment' = IF p \in DOMAIN payment
                       THEN [payment EXCEPT ![p].status = "overdue"]
                       ELSE payment
         /\ Charges("flag", p)
    /\ UNCHANGED <<clock, rental, nRental, nPayment, invoice, nInvoice, torn, thread>>

\* The invoices whose payment_id is the payment's.
Flag ==
    /\ ctl.pc = "flag"
    /\ invoice' = [i \in DOMAIN invoice |-> IF ctl.at \in invoice[i].payment
                                              THEN [invoice[i] EXCEPT !.status = "overdue"]
                                              ELSE invoice[i]]
    /\ Skips("mark", ctl.at)
    /\ UNCHANGED <<clock, rental, nRental, payment, nPayment, nInvoice, torn, thread>>

AllMarked ==
    /\ ctl.pc = "mark" /\ ctl.todo = {}
    /\ ctl' = Asleep
    /\ UNCHANGED <<clock, table, torn, thread>>

\* The process ends and starts again.
Crash ==
    /\ ctl' = Asleep
    /\ torn' = IF ctl.pc = "bill" THEN torn \cup {<<ctl.at, ctl.period>>} ELSE torn
    /\ pc' = [t \in Thread |-> "idle"] /\ arg' = [t \in Thread |-> NoArg]
    /\ UNCHANGED <<clock, table>>

-----------------------------------------------------------------------------
CollectorStep ==
    \/ Wake \/ FindOpen \/ Look \/ Pay \/ Bill \/ AllCharged
    \/ FindPending \/ Mark \/ Flag \/ AllMarked

Next ==
    \/ NextDay \/ CollectorStep \/ Crash
    \/ PostRental \/ PutRental \/ DeleteRental \/ PostInvoice \/ PutInvoicePaid
    \/ \E t \in Thread : PostPayment(t) \/ Loyalty(t) \/ PostPaymentInsert(t)

Spec == Init /\ [][Next]_vars

-----------------------------------------------------------------------------
(***************************************************************************)
(* Properties                                                              *)
(***************************************************************************)

PaymentType == [rental : RentalId, period : Period, status : PaymentStatus,
                discount : Discount, auto : BOOLEAN]
InvoiceType == [rental : RentalId, period : Period, status : InvoiceStatus,
                payment : SUBSET PaymentId, auto : BOOLEAN]

\* Rows have the columns' values, and refer to rentals that are there.
TypeOK ==
    /\ month \in Period /\ day \in 1..LastDay
    /\ nRental \in 0..MaxRental /\ nPayment \in 0..MaxPayment /\ nInvoice \in 0..MaxInvoice
    /\ DOMAIN rental \subseteq 1..nRental /\ DOMAIN payment \subseteq 1..nPayment
    /\ DOMAIN invoice \subseteq 1..nInvoice
    /\ \A r \in DOMAIN rental : rental[r] \in BOOLEAN
    /\ \A p \in DOMAIN payment : payment[p] \in PaymentType
    /\ \A i \in DOMAIN invoice : invoice[i] \in InvoiceType
    /\ \A p \in DOMAIN payment : payment[p].rental \in DOMAIN rental
    /\ \A i \in DOMAIN invoice : invoice[i].rental \in DOMAIN rental

\* The collector charges a rental once a month, however many passes the check hour has,
\* unless a crash cut the charge in two (main.cpp 142-146).
ChargedOnce ==
    \A p, q \in DOMAIN payment :
        /\ payment[p].auto /\ payment[q].auto
        /\ payment[p].rental = payment[q].rental /\ payment[p].period = payment[q].period
        => p = q \/ <<payment[p].rental, payment[p].period>> \in torn

\* docs/CHANGELOG.md:306, of the collector: it "generates rental_payment + booth_invoice
\* records for all active rentals that do not yet have an invoice for the period".  What
\* a pass has gone through has an invoice, whatever the handlers did meanwhile.
FoundRentalsAreInvoiced ==
    ctl.pc \in {"look", "pay", "bill"} =>
        \A r \in (ctl.found \cap DOMAIN rental) \ ctl.todo :
            \/ \E i \in InvoicesOf(r) : invoice[i].period = ctl.period
            \/ r = ctl.at /\ ctl.pc # "look"

\* A discount for loyalty rests on payments that were made: other paid ones of the same
\* rental, as many as the configuration asks for (app_business.cpp 199-208).
LoyaltyIsEarned ==
    \A p \in DOMAIN payment : payment[p].discount = "loyalty" =>
        Cardinality(Paid(PaymentsOf(payment[p].rental) \ {p})) >= LoyaltyMonths
=============================================================================
