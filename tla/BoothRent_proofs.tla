---------------------------- MODULE BoothRent_proofs ----------------------------
(***************************************************************************)
(* Proofs about BoothRent, for any number of client threads, rentals,      *)
(* payments and invoices, any calendar and any configuration of the days.  *)
(***************************************************************************)
EXTENDS BoothRent, FiniteSetTheorems, TLAPS

(***************************************************************************)
(* What the collector and the threads hold, whatever the others do.  Ids   *)
(* are not used again: a rental a pass has found and that is gone is never *)
(* back, and a payment it has selected as pending is never a paid one.     *)
(***************************************************************************)
CollectorLabel == {"sleep", "open", "look", "pay", "bill", "pending", "mark", "flag"}
ThreadLabel    == {"idle", "loyalty", "insert"}

CollectorType == [pc : CollectorLabel, period : Period, late : BOOLEAN,
                  found : SUBSET Nat, todo : SUBSET Nat, at : Nat]
ArgType == [rental : Nat, period : Period, status : PaymentStatus, discount : Discount]

CollectorOK ==
    /\ ctl \in CollectorType
    /\ ctl.pc \in {"look", "pay", "bill"} => ctl.found \subseteq 1..nRental
    /\ ctl.pc \in {"look", "pay", "bill"} => ctl.todo \subseteq ctl.found
    /\ ctl.pc \in {"pay", "bill"} => ctl.at \in 1..nRental
    /\ ctl.pc \in {"mark", "flag"} =>
         \A p \in ctl.todo : /\ p \in 1..nPayment
                             /\ p \in DOMAIN payment => payment[p].status # "paid"

ThreadsOK ==
    /\ pc \in [Thread -> ThreadLabel]
    /\ arg \in [Thread -> ArgType]
    /\ \A t \in Thread : pc[t] # "idle" => arg[t].rental \in 1..nRental

(***************************************************************************)
(* Why a rental is charged once: a charge the collector made has its       *)
(* invoice, or is being billed, or a crash cut it; so what the collector   *)
(* is about to charge, and has no invoice, has no charge either.           *)
(***************************************************************************)
Invoiced(r, m) == \E i \in InvoicesOf(r) : invoice[i].period = m

ChargesAreBilled ==
    \A p \in DOMAIN payment : payment[p].auto =>
        \/ Invoiced(payment[p].rental, payment[p].period)
        \/ <<payment[p].rental, payment[p].period>> \in torn
        \/ ctl.pc = "bill" /\ ctl.at = payment[p].rental /\ ctl.period = payment[p].period

PayIsFirst ==
    ctl.pc = "pay" =>
        \A p \in DOMAIN payment :
            /\ payment[p].auto
            /\ payment[p].rental = ctl.at /\ payment[p].period = ctl.period
            => <<ctl.at, ctl.period>> \in torn

\* Why a discount stays earned: the payments a thread has counted are still there when
\* it inserts its own, unless the rental is gone, and then the insert is refused.
Loyal(r) == Cardinality(Paid(PaymentsOf(r))) >= LoyaltyMonths

GivenLoyaltyIsEarned ==
    \A t \in Thread :
        /\ pc[t] = "insert" /\ arg[t].discount = "loyalty"
        /\ arg[t].rental \in DOMAIN rental
        => Loyal(arg[t].rental)

ChargesOK == ChargedOnce /\ ChargesAreBilled /\ PayIsFirst /\ FoundRentalsAreInvoiced

LoyaltyOK == LoyaltyIsEarned /\ GivenLoyaltyIsEarned

BoothInv == TypeOK /\ CollectorOK /\ ThreadsOK /\ ChargesOK /\ LoyaltyOK

-----------------------------------------------------------------------------
LEMMA WithIs ==
  ASSUME NEW f, NEW k, NEW row
  PROVE  /\ DOMAIN With(f, k, row) = DOMAIN f \cup {k}
         /\ With(f, k, row)[k] = row
         /\ \A x \in DOMAIN f \ {k} : With(f, k, row)[x] = f[x]
  BY DEF With

LEMMA WithoutIs ==
  ASSUME NEW f, NEW keys
  PROVE  /\ DOMAIN Without(f, keys) = DOMAIN f \ keys
         /\ \A x \in DOMAIN f \ keys : Without(f, keys)[x] = f[x]
  BY DEF Without

LEMMA PaymentRowIs ==
  ASSUME NEW r \in RentalId, NEW m \in Period, NEW s \in PaymentStatus,
         NEW d \in Discount, NEW auto \in BOOLEAN
  PROVE  /\ PaymentRow(r, m, s, d, auto) \in PaymentType
         /\ PaymentRow(r, m, s, d, auto).rental = r
         /\ PaymentRow(r, m, s, d, auto).period = m
         /\ PaymentRow(r, m, s, d, auto).discount = d
         /\ PaymentRow(r, m, s, d, auto).auto = auto
  BY DEF PaymentRow, PaymentType

LEMMA InvoiceRowIs ==
  ASSUME NEW r \in RentalId, NEW m \in Period, NEW auto \in BOOLEAN
  PROVE  /\ InvoiceRow(r, m, auto) \in InvoiceType
         /\ InvoiceRow(r, m, auto).rental = r
         /\ InvoiceRow(r, m, auto).period = m
  BY DEF InvoiceRow, InvoiceType, InvoiceStatus

LEMMA LocalIsArg ==
  ASSUME NEW r \in Nat, NEW m \in Period, NEW s \in PaymentStatus, NEW d \in Discount
  PROVE  /\ Local(r, m, s, d) \in ArgType
         /\ Local(r, m, s, d).rental = r
         /\ Local(r, m, s, d).discount = d
  BY DEF Local, ArgType

LEMMA NoArgIsArg == NoArg \in ArgType
  BY LocalIsArg, BoothRentAssumption DEF NoArg, PaymentStatus, Discount, Period

LEMMA CollectingIs ==
  ASSUME NEW label \in CollectorLabel, NEW m \in Period, NEW late \in BOOLEAN,
         NEW found \in SUBSET Nat, NEW todo \in SUBSET Nat, NEW at \in Nat
  PROVE  /\ Collecting(label, m, late, found, todo, at) \in CollectorType
         /\ Collecting(label, m, late, found, todo, at).pc = label
         /\ Collecting(label, m, late, found, todo, at).period = m
         /\ Collecting(label, m, late, found, todo, at).found = found
         /\ Collecting(label, m, late, found, todo, at).todo = todo
         /\ Collecting(label, m, late, found, todo, at).at = at
  BY DEF Collecting, CollectorType

LEMMA AsleepIs == Asleep \in CollectorType /\ Asleep.pc = "sleep"
<1>1. 1 \in Period /\ 0 \in Nat /\ {} \in SUBSET Nat
  BY BoothRentAssumption DEF Period
<1>2. "sleep" \in CollectorLabel /\ FALSE \in BOOLEAN
  BY DEF CollectorLabel
<1> QED
  BY <1>1, <1>2 DEF Asleep, Collecting, CollectorType

LEMMA CollectorHas ==
  ASSUME CollectorOK
  PROVE  /\ ctl.pc \in CollectorLabel /\ ctl.period \in Period /\ ctl.late \in BOOLEAN
         /\ ctl.found \in SUBSET Nat /\ ctl.todo \in SUBSET Nat /\ ctl.at \in Nat
  BY DEF CollectorOK, CollectorType

LEMMA ArgHas ==
  ASSUME ThreadsOK, NEW t \in Thread
  PROVE  /\ arg[t].rental \in Nat /\ arg[t].period \in Period
         /\ arg[t].status \in PaymentStatus /\ arg[t].discount \in Discount
  BY DEF ThreadsOK, ArgType

(***************************************************************************)
(* The row types                                                           *)
(***************************************************************************)
LEMMA InitTypeOK == Init => TypeOK
  BY BoothRentAssumption DEF Init, TypeOK, Period

LEMMA InsertPaymentTyped ==
  ASSUME TypeOK, NEW row \in PaymentType, InsertPayment(row),
         UNCHANGED <<clock, rental, nRental, invoice, nInvoice>>
  PROVE  TypeOK'
<1> USE BoothRentAssumption
<1>1. CASE UNCHANGED <<payment, nPayment>>
  BY <1>1 DEF TypeOK, clock
<1>2. CASE /\ row.rental \in DOMAIN rental
           /\ nPayment < MaxPayment /\ nPayment' = nPayment + 1
           /\ payment' = With(payment, nPayment + 1, row)
  <2>1. /\ DOMAIN payment' = DOMAIN payment \cup {nPayment + 1}
        /\ payment'[nPayment + 1] = row
        /\ \A p \in DOMAIN payment \ {nPayment + 1} : payment'[p] = payment[p]
    BY <1>2 DEF With
  <2>2. nPayment' \in 0..MaxPayment /\ DOMAIN payment' \subseteq 1..nPayment'
    BY <1>2, <2>1 DEF TypeOK
  <2>3. \A p \in DOMAIN payment' : payment'[p] \in PaymentType /\ payment'[p].rental \in DOMAIN rental
    BY <1>2, <2>1 DEF TypeOK
  <2> QED
    BY <2>2, <2>3 DEF TypeOK, clock
<1> QED
  BY <1>1, <1>2 DEF InsertPayment

LEMMA InsertInvoiceTyped ==
  ASSUME TypeOK, NEW row \in InvoiceType, InsertInvoice(row),
         UNCHANGED <<clock, rental, nRental, payment, nPayment>>
  PROVE  TypeOK'
<1> USE BoothRentAssumption
<1>1. CASE UNCHANGED <<invoice, nInvoice>>
  BY <1>1 DEF TypeOK, clock
<1>2. CASE /\ row.rental \in DOMAIN rental
           /\ nInvoice < MaxInvoice /\ nInvoice' = nInvoice + 1
           /\ invoice' = With(invoice, nInvoice + 1, row)
  <2>1. /\ DOMAIN invoice' = DOMAIN invoice \cup {nInvoice + 1}
        /\ invoice'[nInvoice + 1] = row
        /\ \A i \in DOMAIN invoice \ {nInvoice + 1} : invoice'[i] = invoice[i]
    BY <1>2 DEF With
  <2>2. nInvoice' \in 0..MaxInvoice /\ DOMAIN invoice' \subseteq 1..nInvoice'
    BY <1>2, <2>1 DEF TypeOK
  <2>3. \A i \in DOMAIN invoice' : invoice'[i] \in InvoiceType /\ invoice'[i].rental \in DOMAIN rental
    BY <1>2, <2>1 DEF TypeOK
  <2> QED
    BY <2>2, <2>3 DEF TypeOK, clock
<1> QED
  BY <1>1, <1>2 DEF InsertInvoice

LEMMA RentalsAreIds == ASSUME TypeOK PROVE DOMAIN rental \subseteq RentalId /\ 1..nRental \subseteq RentalId
  BY BoothRentAssumption DEF TypeOK, RentalId

LEMMA RentalStepTyped == ASSUME TypeOK, PostRental \/ PutRental \/ DeleteRental PROVE TypeOK'
<1> USE BoothRentAssumption
<1>1. CASE PostRental
  <2>1. /\ DOMAIN rental' = DOMAIN rental \cup {nRental + 1}
        /\ rental'[nRental + 1] = TRUE
        /\ \A r \in DOMAIN rental \ {nRental + 1} : rental'[r] = rental[r]
    BY <1>1 DEF PostRental, With
  <2>2. nRental' \in 0..MaxRental /\ DOMAIN rental' \subseteq 1..nRental'
    <3>1. nRental < MaxRental /\ nRental' = nRental + 1
      BY <1>1 DEF PostRental
    <3> QED
      BY <2>1, <3>1 DEF TypeOK
  <2>3. \A r \in DOMAIN rental' : rental'[r] \in BOOLEAN
    BY <2>1 DEF TypeOK
  <2> QED
    BY <1>1, <2>1, <2>2, <2>3 DEF TypeOK, PostRental, clock
<1>2. CASE PutRental
  BY <1>2 DEF TypeOK, PutRental, clock
<1>3. CASE DeleteRental
  <2>1. PICK r \in DOMAIN rental : /\ rental'  = Without(rental, {r})
                                   /\ payment' = Without(payment, PaymentsOf(r))
                                   /\ invoice' = Without(invoice, InvoicesOf(r))
    BY <1>3 DEF DeleteRental
  <2>2. /\ DOMAIN rental' = DOMAIN rental \ {r}
        /\ \A x \in DOMAIN rental \ {r} : rental'[x] = rental[x]
    BY <2>1, WithoutIs
  <2>3. /\ DOMAIN payment' = DOMAIN payment \ PaymentsOf(r)
        /\ \A x \in DOMAIN payment \ PaymentsOf(r) : payment'[x] = payment[x]
    BY <2>1, WithoutIs
  <2>4. /\ DOMAIN invoice' = DOMAIN invoice \ InvoicesOf(r)
        /\ \A x \in DOMAIN invoice \ InvoicesOf(r) : invoice'[x] = invoice[x]
    BY <2>1, WithoutIs
  <2>5. \A p \in DOMAIN payment' : payment'[p] \in PaymentType /\ payment'[p].rental \in DOMAIN rental'
    BY <2>2, <2>3 DEF TypeOK, PaymentsOf
  <2>6. \A i \in DOMAIN invoice' : invoice'[i] \in InvoiceType /\ invoice'[i].rental \in DOMAIN rental'
    BY <2>2, <2>4 DEF TypeOK, InvoicesOf
  <2> QED
    BY <1>3, <2>2, <2>3, <2>4, <2>5, <2>6 DEF TypeOK, DeleteRental, clock
<1> QED
  BY <1>1, <1>2, <1>3

LEMMA StatusStepTyped == ASSUME TypeOK, PutInvoicePaid \/ Mark \/ Flag PROVE TypeOK'
<1>1. CASE PutInvoicePaid
  <2>1. PICK i \in DOMAIN invoice : invoice' = [invoice EXCEPT ![i].status = "paid"]
    BY <1>1 DEF PutInvoicePaid
  <2>2. \A j \in DOMAIN invoice' : invoice'[j] \in InvoiceType /\ invoice'[j].rental = invoice[j].rental
    BY <2>1 DEF TypeOK, InvoiceType, InvoiceStatus
  <2> QED
    BY <1>1, <2>1, <2>2 DEF TypeOK, PutInvoicePaid, clock
<1>2. CASE Mark
  <2>1. PICK p \in ctl.todo : payment' = IF p \in DOMAIN payment
                                         THEN [payment EXCEPT ![p].status = "overdue"]
                                         ELSE payment
    BY <1>2 DEF Mark
  <2>2. \A q \in DOMAIN payment' : payment'[q] \in PaymentType /\ payment'[q].rental = payment[q].rental
    BY <2>1 DEF TypeOK, PaymentType, PaymentStatus
  <2> QED
    BY <1>2, <2>1, <2>2 DEF TypeOK, Mark, clock
<1>3. CASE Flag
  <2>1. /\ DOMAIN invoice' = DOMAIN invoice
        /\ \A j \in DOMAIN invoice : \/ invoice'[j] = invoice[j]
                                     \/ invoice'[j] = [invoice[j] EXCEPT !.status = "overdue"]
    BY <1>3 DEF Flag
  <2>2. \A j \in DOMAIN invoice' : invoice'[j] \in InvoiceType /\ invoice'[j].rental = invoice[j].rental
    BY <2>1 DEF TypeOK, InvoiceType, InvoiceStatus
  <2> QED
    BY <1>3, <2>1, <2>2 DEF TypeOK, Flag, clock
<1> QED
  BY <1>1, <1>2, <1>3

(***************************************************************************)
(* What a statement does to the rows: a rental that is new has an id that  *)
(* was not used, a payment keeps what it is for and whether it is paid,    *)
(* and a row goes only with its rental.                                    *)
(***************************************************************************)
SamePayment(p) ==
    /\ payment'[p].rental = payment[p].rental /\ payment'[p].period = payment[p].period
    /\ payment'[p].discount = payment[p].discount /\ payment'[p].auto = payment[p].auto
    /\ payment'[p].status = "paid" <=> payment[p].status = "paid"

RowsGo ==
    /\ nRental <= nRental' /\ nPayment <= nPayment'
    /\ \A r \in DOMAIN rental' : r \in DOMAIN rental \/ r > nRental
    /\ \A p \in DOMAIN payment' : IF p \in DOMAIN payment THEN SamePayment(p) ELSE p > nPayment
    /\ \A p \in DOMAIN payment : payment[p].rental \in DOMAIN rental' => p \in DOMAIN payment'
    /\ \A i \in DOMAIN invoice :
         invoice[i].rental \in DOMAIN rental' =>
             /\ i \in DOMAIN invoice'
             /\ invoice'[i].rental = invoice[i].rental /\ invoice'[i].period = invoice[i].period

NewPayments == DOMAIN payment' \ DOMAIN payment
NoCharge    == \A p \in NewPayments : ~payment'[p].auto

LEMMA RowsStay ==
  ASSUME TypeOK, UNCHANGED table
  PROVE  TypeOK /\ RowsGo /\ NewPayments = {} /\ NoCharge
  BY DEF TypeOK, table, RowsGo, SamePayment, NewPayments, NoCharge

LEMMA InsertPaymentGoes ==
  ASSUME TypeOK, NEW row, InsertPayment(row), UNCHANGED <<rental, nRental, invoice, nInvoice>>
  PROVE  /\ RowsGo
         /\ \A p \in NewPayments : payment'[p] = row /\ row.rental \in DOMAIN rental
<1>1. CASE UNCHANGED <<payment, nPayment>>
  BY <1>1 DEF TypeOK, RowsGo, SamePayment, NewPayments
<1>2. CASE /\ row.rental \in DOMAIN rental
           /\ nPayment' = nPayment + 1
           /\ payment' = With(payment, nPayment + 1, row)
  <2>1. /\ DOMAIN payment' = DOMAIN payment \cup {nPayment + 1}
        /\ payment'[nPayment + 1] = row
        /\ \A p \in DOMAIN payment \ {nPayment + 1} : payment'[p] = payment[p]
    BY <1>2 DEF With
  <2>2. nPayment + 1 \notin DOMAIN payment /\ nPayment \in Nat
    BY BoothRentAssumption DEF TypeOK
  <2>3. \A p \in DOMAIN payment' : IF p \in DOMAIN payment THEN SamePayment(p) ELSE p > nPayment
    BY <2>1, <2>2 DEF SamePayment
  <2>4. NewPayments = {nPayment + 1}
    BY <2>1, <2>2 DEF NewPayments
  <2> QED
    BY <1>2, <2>1, <2>2, <2>3, <2>4 DEF TypeOK, RowsGo
<1> QED
  BY <1>1, <1>2 DEF InsertPayment

LEMMA InsertInvoiceGoes ==
  ASSUME TypeOK, NEW row, InsertInvoice(row), UNCHANGED <<rental, nRental, payment, nPayment>>
  PROVE  RowsGo /\ NewPayments = {}
<1>1. CASE UNCHANGED <<invoice, nInvoice>>
  BY <1>1 DEF TypeOK, RowsGo, SamePayment, NewPayments
<1>2. CASE invoice' = With(invoice, nInvoice + 1, row)
  <2>1. /\ DOMAIN invoice' = DOMAIN invoice \cup {nInvoice + 1}
        /\ \A i \in DOMAIN invoice \ {nInvoice + 1} : invoice'[i] = invoice[i]
    BY <1>2 DEF With
  <2>2. nInvoice + 1 \notin DOMAIN invoice
    BY BoothRentAssumption DEF TypeOK
  <2> QED
    BY <2>1, <2>2 DEF TypeOK, RowsGo, SamePayment, NewPayments
<1> QED
  BY <1>1, <1>2 DEF InsertInvoice

LEMMA RentalStepGoes ==
  ASSUME TypeOK, PostRental \/ PutRental \/ DeleteRental
  PROVE  RowsGo /\ NewPayments = {}
<1>1. CASE PostRental
  <2>1. DOMAIN rental' = DOMAIN rental \cup {nRental + 1}
    BY <1>1 DEF PostRental, With
  <2>2. nRental' = nRental + 1 /\ nRental \in Nat /\ UNCHANGED <<payment, nPayment, invoice>>
    BY <1>1, BoothRentAssumption DEF PostRental, TypeOK
  <2> QED
    BY <2>1, <2>2 DEF TypeOK, RowsGo, SamePayment, NewPayments
<1>2. CASE PutRental
  BY <1>2 DEF PutRental, TypeOK, RowsGo, SamePayment, NewPayments
<1>3. CASE DeleteRental
  <2>1. PICK r \in DOMAIN rental : /\ rental'  = Without(rental, {r})
                                   /\ payment' = Without(payment, PaymentsOf(r))
                                   /\ invoice' = Without(invoice, InvoicesOf(r))
    BY <1>3 DEF DeleteRental
  <2>2. DOMAIN rental' = DOMAIN rental \ {r}
    BY <2>1, WithoutIs
  <2>3. /\ DOMAIN payment' = DOMAIN payment \ PaymentsOf(r)
        /\ \A x \in DOMAIN payment \ PaymentsOf(r) : payment'[x] = payment[x]
    BY <2>1, WithoutIs
  <2>4. /\ DOMAIN invoice' = DOMAIN invoice \ InvoicesOf(r)
        /\ \A x \in DOMAIN invoice \ InvoicesOf(r) : invoice'[x] = invoice[x]
    BY <2>1, WithoutIs
  <2>5. \A p \in DOMAIN payment' : p \in DOMAIN payment /\ SamePayment(p)
    BY <2>3 DEF SamePayment
  <2>6. UNCHANGED <<nRental, nPayment>>
    BY <1>3 DEF DeleteRental
  <2> QED
    BY <2>2, <2>3, <2>4, <2>5, <2>6 DEF TypeOK, RowsGo, NewPayments, PaymentsOf, InvoicesOf
<1> QED
  BY <1>1, <1>2, <1>3

LEMMA PutInvoicePaidGoes == ASSUME TypeOK, PutInvoicePaid PROVE RowsGo /\ NewPayments = {}
<1>1. PICK i \in DOMAIN invoice : invoice' = [invoice EXCEPT ![i].status = "paid"]
  BY DEF PutInvoicePaid
<1>2. \A j \in DOMAIN invoice : /\ j \in DOMAIN invoice'
                                /\ invoice'[j].rental = invoice[j].rental
                                /\ invoice'[j].period = invoice[j].period
  BY <1>1 DEF TypeOK, InvoiceType
<1> QED
  BY <1>2 DEF PutInvoicePaid, TypeOK, RowsGo, SamePayment, NewPayments

LEMMA FlagGoes == ASSUME TypeOK, Flag PROVE RowsGo /\ NewPayments = {}
<1>1. \A j \in DOMAIN invoice : /\ j \in DOMAIN invoice'
                                /\ invoice'[j].rental = invoice[j].rental
                                /\ invoice'[j].period = invoice[j].period
  BY DEF Flag, TypeOK, InvoiceType
<1> QED
  BY <1>1 DEF Flag, TypeOK, RowsGo, SamePayment, NewPayments

\* What the collector has selected as pending is not paid when it is marked.
LEMMA MarkGoes == ASSUME TypeOK, CollectorOK, Mark PROVE RowsGo /\ NewPayments = {}
<1>1. PICK p \in ctl.todo : payment' = IF p \in DOMAIN payment
                                       THEN [payment EXCEPT ![p].status = "overdue"]
                                       ELSE payment
  BY DEF Mark
<1>2. p \in DOMAIN payment => payment[p].status # "paid"
  BY DEF Mark, CollectorOK
<1>3. DOMAIN payment' = DOMAIN payment /\ \A q \in DOMAIN payment : SamePayment(q)
  BY <1>1, <1>2 DEF TypeOK, PaymentType, SamePayment
<1> QED
  BY <1>3 DEF Mark, TypeOK, RowsGo, NewPayments

-----------------------------------------------------------------------------
(***************************************************************************)
(* The charges: what the rows do to each part of ChargesOK.                *)
(***************************************************************************)
LEMMA PaymentWas ==
  ASSUME RowsGo, NoCharge, NEW p \in DOMAIN payment', payment'[p].auto
  PROVE  p \in DOMAIN payment /\ SamePayment(p)
<1>1. p \notin NewPayments
  BY Zenon DEF NoCharge
<1> QED
  BY <1>1 DEF RowsGo, NewPayments

LEMMA ChargedStays ==
  ASSUME ChargedOnce, RowsGo, NoCharge, torn \subseteq torn'
  PROVE  ChargedOnce'
<1> SUFFICES ASSUME NEW p \in DOMAIN payment', NEW q \in DOMAIN payment',
                    payment'[p].auto, payment'[q].auto,
                    payment'[p].rental = payment'[q].rental,
                    payment'[p].period = payment'[q].period
             PROVE  p = q \/ <<payment'[p].rental, payment'[p].period>> \in torn'
  BY DEF ChargedOnce
<1>1. /\ p \in DOMAIN payment /\ SamePayment(p)
      /\ q \in DOMAIN payment /\ SamePayment(q)
  BY PaymentWas
<1> QED
  BY <1>1 DEF ChargedOnce, SamePayment

LEMMA InvoicedStays ==
  ASSUME TypeOK, RowsGo, NEW r \in DOMAIN rental', NEW m, Invoiced(r, m)
  PROVE  Invoiced(r, m)'
  BY DEF TypeOK, RowsGo, Invoiced, InvoicesOf

\* A charge stays with its invoice, or stays the one that is being billed, or a crash
\* has cut it.
LEMMA BilledStays ==
  ASSUME TypeOK, TypeOK', ChargesAreBilled, RowsGo, NoCharge, torn \subseteq torn',
         \A r, m :
           ctl.pc = "bill" /\ ctl.at = r /\ ctl.period = m =>
             \/ ctl'.pc = "bill" /\ ctl'.at = r /\ ctl'.period = m
             \/ <<r, m>> \in torn'
             \/ r \in DOMAIN rental' => Invoiced(r, m)'
  PROVE  ChargesAreBilled'
<1> SUFFICES ASSUME NEW p \in DOMAIN payment', payment'[p].auto,
                    NEW r, r = payment'[p].rental, NEW m, m = payment'[p].period
             PROVE  \/ Invoiced(r, m)'
                    \/ <<r, m>> \in torn'
                    \/ ctl'.pc = "bill" /\ ctl'.at = r /\ ctl'.period = m
  BY DEF ChargesAreBilled, Invoiced, InvoicesOf
<1>1. p \in DOMAIN payment /\ SamePayment(p)
  BY PaymentWas
<1>2. payment[p].auto /\ payment[p].rental = r /\ payment[p].period = m
  BY <1>1 DEF SamePayment
<1>3. r \in DOMAIN rental'
  BY <1>2 DEF TypeOK
<1>4. CASE Invoiced(r, m)
  BY <1>3, <1>4, InvoicedStays
<1>5. CASE <<r, m>> \in torn
  BY <1>2, <1>5
<1>6. CASE ctl.pc = "bill" /\ ctl.at = r /\ ctl.period = m
  BY <1>3, <1>6
<1> QED
  BY <1>1, <1>2, <1>4, <1>5, <1>6 DEF ChargesAreBilled

LEMMA PayStaysFirst ==
  ASSUME PayIsFirst, RowsGo, NoCharge, torn \subseteq torn',
         ctl'.pc = "pay" => ctl' = ctl
  PROVE  PayIsFirst'
<1> SUFFICES ASSUME ctl'.pc = "pay", NEW p \in DOMAIN payment', payment'[p].auto,
                    payment'[p].rental = ctl'.at, payment'[p].period = ctl'.period
             PROVE  <<ctl'.at, ctl'.period>> \in torn'
  BY DEF PayIsFirst
<1>1. p \in DOMAIN payment /\ SamePayment(p)
  BY PaymentWas
<1> QED
  BY <1>1 DEF PayIsFirst, SamePayment

\* What a pass has gone through stays invoiced: no row goes but with its rental, and no
\* rental that is gone is back.
LEMMA FoundStayInvoiced ==
  ASSUME TypeOK, CollectorOK, FoundRentalsAreInvoiced, RowsGo, UNCHANGED ctl
  PROVE  FoundRentalsAreInvoiced'
<1> SUFFICES ASSUME ctl.pc \in {"look", "pay", "bill"},
                    NEW r \in (ctl.found \cap DOMAIN rental') \ ctl.todo,
                    NEW m, m = ctl.period
             PROVE  Invoiced(r, m)' \/ (r = ctl.at /\ ctl.pc # "look")
  BY DEF FoundRentalsAreInvoiced, Invoiced, InvoicesOf
<1>1. r \in 1..nRental
  BY DEF CollectorOK
<1>2. r \in DOMAIN rental
  BY <1>1, BoothRentAssumption DEF RowsGo, TypeOK
<1>3. Invoiced(r, m) \/ (r = ctl.at /\ ctl.pc # "look")
  BY <1>2 DEF FoundRentalsAreInvoiced, Invoiced
<1> QED
  BY <1>3, InvoicedStays

LEMMA CollectorStays ==
  ASSUME TypeOK, TypeOK', CollectorOK, RowsGo, UNCHANGED ctl
  PROVE  CollectorOK'
<1>1. 1..nRental \subseteq 1..nRental' /\ 1..nPayment \subseteq 1..nPayment'
  BY BoothRentAssumption DEF TypeOK, RowsGo
<1>2. \A p \in 1..nPayment : p \in DOMAIN payment' => p \in DOMAIN payment /\ SamePayment(p)
  BY BoothRentAssumption DEF TypeOK, RowsGo
<1>3. ctl.pc \in {"mark", "flag"} =>
        \A p \in ctl.todo : /\ p \in 1..nPayment'
                            /\ p \in DOMAIN payment' => payment'[p].status # "paid"
  BY <1>1, <1>2 DEF CollectorOK, SamePayment
<1> QED
  BY <1>1, <1>3 DEF CollectorOK

\* A statement of a handler disturbs none of it: what a handler inserts is no charge of
\* the collector.
LEMMA HandlersKeepCharges ==
  ASSUME TypeOK, TypeOK', CollectorOK, ChargesOK, RowsGo, NoCharge, UNCHANGED collector
  PROVE  CollectorOK' /\ ChargesOK'
  BY CollectorStays, ChargedStays, BilledStays, PayStaysFirst, FoundStayInvoiced
  DEF ChargesOK, collector

-----------------------------------------------------------------------------
(***************************************************************************)
(* The discounts: the payments of a rental that were made stay made.       *)
(***************************************************************************)
LEMMA IdsAreFinite ==
  ASSUME NEW n \in Nat, NEW S, S \subseteq 1..n
  PROVE  IsFiniteSet(S) /\ Cardinality(S) \in Nat
<1>1. IsFiniteSet(1..n)
  BY FS_Interval
<1>2. IsFiniteSet(S)
  BY <1>1, FS_Subset
<1> QED
  BY <1>2, FS_CardinalityType

LEMMA PaidStays ==
  ASSUME TypeOK, RowsGo, NEW r \in DOMAIN rental'
  PROVE  Paid(PaymentsOf(r)) \subseteq Paid(PaymentsOf(r))'
<1> SUFFICES ASSUME NEW p \in DOMAIN payment, payment[p].rental = r, payment[p].status = "paid"
             PROVE  /\ p \in DOMAIN payment'
                    /\ payment'[p].rental = r /\ payment'[p].status = "paid"
  BY DEF Paid, PaymentsOf
<1>1. p \in DOMAIN payment' /\ SamePayment(p)
  BY DEF RowsGo
<1> QED
  BY <1>1 DEF SamePayment

LEMMA MorePaid ==
  ASSUME NEW S, NEW T, S \subseteq T, IsFiniteSet(T), Cardinality(S) >= LoyaltyMonths
  PROVE  Cardinality(T) >= LoyaltyMonths
<1>1. IsFiniteSet(S) /\ Cardinality(S) <= Cardinality(T)
  BY FS_Subset
<1>2. Cardinality(S) \in Nat /\ Cardinality(T) \in Nat
  BY <1>1, FS_CardinalityType
<1> QED
  BY <1>1, <1>2, BoothRentAssumption

LEMMA LoyalStays ==
  ASSUME TypeOK, TypeOK', RowsGo, NEW r \in DOMAIN rental', Loyal(r)
  PROVE  Loyal(r)'
<1>0. nPayment' \in Nat /\ Paid(PaymentsOf(r))' \subseteq 1..nPayment'
  BY BoothRentAssumption DEF TypeOK, Paid, PaymentsOf
<1>1. IsFiniteSet(Paid(PaymentsOf(r)))'
  BY <1>0, IdsAreFinite
<1> QED
  BY <1>1, PaidStays, MorePaid DEF Loyal

\* A payment that is there keeps its discount earned, and so does a new one whose
\* discount was given to a loyal vendor.
LEMMA LoyaltyStays ==
  ASSUME TypeOK, TypeOK', LoyaltyIsEarned, RowsGo,
         \A p \in NewPayments : payment'[p].discount = "loyalty" => Loyal(payment'[p].rental)
  PROVE  LoyaltyIsEarned'
<1> SUFFICES ASSUME NEW p \in DOMAIN payment', payment'[p].discount = "loyalty",
                    NEW r, r = payment'[p].rental
             PROVE  Cardinality(Paid(PaymentsOf(r) \ {p})') >= LoyaltyMonths
  BY DEF LoyaltyIsEarned, Paid, PaymentsOf
<1> DEFINE T == Paid(PaymentsOf(r) \ {p})'
<1>1. r \in DOMAIN rental'
  BY DEF TypeOK
<1>2. nPayment' \in Nat /\ T \subseteq 1..nPayment'
  BY BoothRentAssumption DEF TypeOK, Paid, PaymentsOf
<1>3. IsFiniteSet(T)
  BY <1>2, IdsAreFinite
<1>4. Paid(PaymentsOf(r)) \ {p} \subseteq T
  BY <1>1, PaidStays DEF Paid, PaymentsOf
<1>5. CASE p \in DOMAIN payment
  <2>1. payment[p].rental = r /\ payment[p].discount = "loyalty"
    BY <1>5 DEF RowsGo, SamePayment
  <2>2. Cardinality(Paid(PaymentsOf(r) \ {p})) >= LoyaltyMonths
    BY <1>5, <2>1 DEF LoyaltyIsEarned
  <2>3. Paid(PaymentsOf(r) \ {p}) \subseteq T
    BY <1>4 DEF Paid
  <2> QED
    BY <1>3, <2>2, <2>3, MorePaid
<1>6. CASE p \in NewPayments
  <2>1. Cardinality(Paid(PaymentsOf(r))) >= LoyaltyMonths
    BY <1>6 DEF Loyal
  <2>2. Paid(PaymentsOf(r)) \subseteq T
    BY <1>4, <1>6 DEF Paid, PaymentsOf, NewPayments
  <2> QED
    BY <1>3, <2>1, <2>2, MorePaid
<1> QED
  BY <1>5, <1>6 DEF NewPayments

\* What a thread has counted is still there, or the rental is gone for good.
LEMMA GivenStays ==
  ASSUME TypeOK, TypeOK', ThreadsOK, GivenLoyaltyIsEarned, RowsGo, UNCHANGED thread
  PROVE  ThreadsOK' /\ GivenLoyaltyIsEarned'
<1>1. 1..nRental \subseteq 1..nRental'
  BY BoothRentAssumption DEF TypeOK, RowsGo
<1>2. ThreadsOK'
  BY <1>1 DEF ThreadsOK, thread
<1>3. ASSUME NEW t \in Thread, pc[t] = "insert", arg[t].discount = "loyalty",
             NEW r, r = arg[t].rental, r \in DOMAIN rental'
      PROVE  Loyal(r)'
  <2>1. r \in 1..nRental
    BY <1>3 DEF ThreadsOK
  <2>2. r \in DOMAIN rental
    BY <1>3, <2>1, BoothRentAssumption DEF RowsGo, TypeOK
  <2>3. Loyal(r)
    BY <1>3, <2>2 DEF GivenLoyaltyIsEarned
  <2> QED
    BY <1>3, <2>3, LoyalStays
<1>4. GivenLoyaltyIsEarned'
  BY <1>3 DEF GivenLoyaltyIsEarned, thread, Loyal, Paid, PaymentsOf
<1> QED
  BY <1>2, <1>4

\* The same when one thread has moved on, and holds no discount that was not earned.
LEMMA GivenMoves ==
  ASSUME TypeOK, TypeOK', ThreadsOK, GivenLoyaltyIsEarned, RowsGo,
         NEW t \in Thread, NEW label \in ThreadLabel, NEW a \in ArgType, Goes(t, label, a),
         label # "idle" => a.rental \in 1..nRental,
         label = "insert" /\ a.discount = "loyalty" => Loyal(a.rental)
  PROVE  ThreadsOK' /\ GivenLoyaltyIsEarned'
<1>0. /\ pc' \in [Thread -> ThreadLabel] /\ arg' \in [Thread -> ArgType]
      /\ pc'[t] = label /\ arg'[t] = a
      /\ \A u \in Thread \ {t} : pc'[u] = pc[u] /\ arg'[u] = arg[u]
  BY DEF Goes, ThreadsOK
<1>1. 1..nRental \subseteq 1..nRental'
  BY BoothRentAssumption DEF TypeOK, RowsGo
<1>2. \A u \in Thread : pc'[u] # "idle" => arg'[u].rental \in 1..nRental
  BY <1>0 DEF ThreadsOK
<1>3. ASSUME NEW u \in Thread, pc'[u] = "insert", arg'[u].discount = "loyalty",
             NEW r, r = arg'[u].rental, r \in DOMAIN rental'
      PROVE  Loyal(r)'
  <2>1. r \in 1..nRental
    BY <1>2, <1>3
  <2>2. r \in DOMAIN rental
    BY <1>3, <2>1, BoothRentAssumption DEF RowsGo, TypeOK
  <2>3. Loyal(r)
    BY <1>0, <1>3, <2>2 DEF GivenLoyaltyIsEarned
  <2> QED
    BY <1>3, <2>3, LoyalStays
<1>4. GivenLoyaltyIsEarned'
  BY <1>3 DEF GivenLoyaltyIsEarned, Loyal, Paid, PaymentsOf
<1>5. ThreadsOK'
  BY <1>0, <1>1, <1>2 DEF ThreadsOK
<1> QED
  BY <1>4, <1>5

-----------------------------------------------------------------------------
(***************************************************************************)
(* Every action keeps the invariant.                                       *)
(***************************************************************************)
LEMMA InitInv == Init => BoothInv
<1> SUFFICES ASSUME Init PROVE BoothInv
  OBVIOUS
<1>1. TypeOK
  BY InitTypeOK
<1>2. CollectorOK
  BY AsleepIs DEF Init, CollectorOK
<1>3. ThreadsOK
  BY NoArgIsArg DEF Init, ThreadsOK, ThreadLabel
<1>4. ChargesOK
  BY AsleepIs DEF Init, ChargesOK, ChargedOnce, ChargesAreBilled, PayIsFirst,
                  FoundRentalsAreInvoiced
<1>5. LoyaltyOK
  BY DEF Init, LoyaltyOK, LoyaltyIsEarned, GivenLoyaltyIsEarned
<1> QED
  BY <1>1, <1>2, <1>3, <1>4, <1>5 DEF BoothInv

\* A handler of one statement that inserts no payment.
LEMMA HandlerStep ==
  ASSUME BoothInv, TypeOK', RowsGo, NewPayments = {}, UNCHANGED <<collector, thread>>
  PROVE  BoothInv'
<1>1. NoCharge
  BY DEF NoCharge
<1>2. CollectorOK' /\ ChargesOK'
  BY <1>1, HandlersKeepCharges DEF BoothInv
<1>3. ThreadsOK' /\ GivenLoyaltyIsEarned'
  BY GivenStays DEF BoothInv, LoyaltyOK
<1>4. LoyaltyIsEarned'
  BY LoyaltyStays DEF BoothInv, LoyaltyOK
<1> QED
  BY <1>2, <1>3, <1>4 DEF BoothInv, LoyaltyOK

LEMMA NextDayStep == ASSUME BoothInv, NextDay PROVE BoothInv'
<1>1. UNCHANGED table
  BY DEF NextDay
<1>2. month' \in Period /\ day' \in 1..LastDay
  BY BoothRentAssumption DEF NextDay, BoothInv, TypeOK, Period
<1>3. TypeOK'
  BY <1>1, <1>2 DEF BoothInv, TypeOK, table
<1> QED
  BY <1>1, <1>3, RowsStay, HandlerStep DEF NextDay, BoothInv

LEMMA RentalStep == ASSUME BoothInv, PostRental \/ PutRental \/ DeleteRental PROVE BoothInv'
<1>1. TypeOK' /\ RowsGo /\ NewPayments = {}
  BY RentalStepTyped, RentalStepGoes DEF BoothInv
<1>2. UNCHANGED <<collector, thread>>
  BY DEF PostRental, PutRental, DeleteRental
<1> QED
  BY <1>1, <1>2, HandlerStep

LEMMA InvoiceStep == ASSUME BoothInv, PostInvoice \/ PutInvoicePaid PROVE BoothInv'
<1>1. CASE PostInvoice
  <2>1. PICK r \in DOMAIN rental, m \in 1..month : InsertInvoice(InvoiceRow(r, m, FALSE))
    BY <1>1 DEF PostInvoice
  <2>2. r \in RentalId /\ m \in Period
    BY RentalsAreIds, BoothRentAssumption DEF BoothInv, TypeOK, Period
  <2>3. InvoiceRow(r, m, FALSE) \in InvoiceType
    BY <2>2, Zenon DEF InvoiceRow, InvoiceType, InvoiceStatus
  <2>4. TypeOK'
    BY <1>1, <2>1, <2>3, InsertInvoiceTyped DEF BoothInv, PostInvoice
  <2>5. RowsGo /\ NewPayments = {}
    BY <1>1, <2>1, InsertInvoiceGoes DEF BoothInv, PostInvoice
  <2> QED
    BY <1>1, <2>4, <2>5, HandlerStep DEF PostInvoice
<1>2. CASE PutInvoicePaid
  BY <1>2, StatusStepTyped, PutInvoicePaidGoes, HandlerStep DEF BoothInv, PutInvoicePaid
<1> QED
  BY <1>1, <1>2

\* A thread that only reads.
LEMMA ReadStep ==
  ASSUME BoothInv, UNCHANGED <<clock, table, collector>>,
         NEW t \in Thread, NEW label \in ThreadLabel, NEW a \in ArgType, Goes(t, label, a),
         label # "idle" => a.rental \in 1..nRental,
         label = "insert" /\ a.discount = "loyalty" => Loyal(a.rental)
  PROVE  BoothInv'
<1>1. TypeOK'
  BY DEF BoothInv, TypeOK, clock, table
<1>2. RowsGo /\ NewPayments = {} /\ NoCharge
  BY RowsStay DEF BoothInv
<1>3. CollectorOK' /\ ChargesOK'
  BY <1>1, <1>2, HandlersKeepCharges DEF BoothInv
<1>4. ThreadsOK' /\ GivenLoyaltyIsEarned'
  BY <1>1, <1>2, GivenMoves DEF BoothInv, LoyaltyOK
<1>5. LoyaltyIsEarned'
  BY <1>1, <1>2, LoyaltyStays DEF BoothInv, LoyaltyOK
<1> QED
  BY <1>1, <1>3, <1>4, <1>5 DEF BoothInv, LoyaltyOK

LEMMA PostPaymentStep == ASSUME BoothInv, NEW t \in Thread, PostPayment(t) PROVE BoothInv'
<1>1. PICK r \in DOMAIN rental, m \in 1..month, s \in {"pending", "paid"},
           label \in {"loyalty", "insert"} : Goes(t, label, Local(r, m, s, "other"))
  BY DEF PostPayment
<1>2. r \in 1..nRental /\ r \in Nat /\ m \in Period
  BY BoothRentAssumption DEF BoothInv, TypeOK, Period
<1>3. s \in PaymentStatus /\ "other" \in Discount /\ label \in ThreadLabel
  BY DEF PaymentStatus, Discount, ThreadLabel
<1>4. /\ Local(r, m, s, "other") \in ArgType
      /\ Local(r, m, s, "other").rental = r
      /\ Local(r, m, s, "other").discount = "other"
  BY <1>2, <1>3, LocalIsArg
<1> QED
  BY <1>1, <1>2, <1>3, <1>4, ReadStep DEF PostPayment

LEMMA LoyaltyStep == ASSUME BoothInv, NEW t \in Thread, Loyalty(t) PROVE BoothInv'
<1> DEFINE d == IF Loyal(arg[t].rental) THEN "loyalty" ELSE "other"
           a == Local(arg[t].rental, arg[t].period, arg[t].status, d)
<1>1. Goes(t, "insert", a)
  BY DEF Loyalty, GivesIf, Loyal
<1>2. arg[t].rental \in 1..nRental
  BY DEF Loyalty, BoothInv, ThreadsOK
<1>3. d \in Discount
  BY DEF Discount
<1>4. a \in ArgType /\ a.rental = arg[t].rental /\ a.discount = d
  BY <1>3, ArgHas, LocalIsArg DEF BoothInv
<1>5. "insert" \in ThreadLabel
  BY DEF ThreadLabel
<1>6. d = "loyalty" => Loyal(arg[t].rental)
  OBVIOUS
<1> HIDE DEF d, a
<1> QED
  BY <1>1, <1>2, <1>4, <1>5, <1>6, ReadStep DEF Loyalty

LEMMA PostPaymentInsertStep ==
  ASSUME BoothInv, NEW t \in Thread, PostPaymentInsert(t) PROVE BoothInv'
<1> DEFINE row == PaymentRow(arg[t].rental, arg[t].period, arg[t].status, arg[t].discount, FALSE)
<1>1. arg[t].rental \in RentalId /\ pc[t] = "insert"
  BY RentalsAreIds DEF PostPaymentInsert, BoothInv, ThreadsOK
<1>2. /\ row \in PaymentType /\ row.rental = arg[t].rental /\ row.discount = arg[t].discount
      /\ ~row.auto
  BY <1>1, ArgHas DEF BoothInv, PaymentRow, PaymentType
<1>3. InsertPayment(row)
  BY DEF PostPaymentInsert
<1>4. UNCHANGED <<clock, rental, nRental, invoice, nInvoice, collector>>
  BY DEF PostPaymentInsert
<1> HIDE DEF row
<1>5. TypeOK'
  BY <1>2, <1>3, <1>4, InsertPaymentTyped DEF BoothInv
<1>6. RowsGo /\ \A p \in NewPayments : payment'[p] = row /\ row.rental \in DOMAIN rental
  BY <1>3, <1>4, InsertPaymentGoes DEF BoothInv
<1>7. NoCharge
  BY <1>2, <1>6 DEF NoCharge
<1>8. CollectorOK' /\ ChargesOK'
  BY <1>4, <1>5, <1>6, <1>7, HandlersKeepCharges DEF BoothInv
<1>9. row.discount = "loyalty" /\ row.rental \in DOMAIN rental => Loyal(row.rental)
  BY <1>1, <1>2 DEF BoothInv, LoyaltyOK, GivenLoyaltyIsEarned
<1>10. LoyaltyIsEarned'
  BY <1>5, <1>6, <1>9, LoyaltyStays DEF BoothInv, LoyaltyOK
<1>11. ThreadsOK' /\ GivenLoyaltyIsEarned'
  <2>1. Goes(t, "idle", NoArg) /\ "idle" \in ThreadLabel
    BY DEF PostPaymentInsert, ThreadLabel
  <2> QED
    BY <1>5, <1>6, <2>1, NoArgIsArg, GivenMoves DEF BoothInv, LoyaltyOK
<1> QED
  BY <1>5, <1>8, <1>10, <1>11 DEF BoothInv, LoyaltyOK

(***************************************************************************)
(* The collector.  Its statements disturb no discount and no thread.       *)
(***************************************************************************)
LEMMA CollectorKeepsLoyalty ==
  ASSUME BoothInv, TypeOK', RowsGo, UNCHANGED thread,
         \A p \in NewPayments : payment'[p].discount = "other"
  PROVE  ThreadsOK' /\ LoyaltyOK'
<1>1. ThreadsOK' /\ GivenLoyaltyIsEarned'
  BY GivenStays DEF BoothInv, LoyaltyOK
<1>2. LoyaltyIsEarned'
  BY LoyaltyStays DEF BoothInv, LoyaltyOK
<1> QED
  BY <1>1, <1>2 DEF LoyaltyOK

\* A statement of the collector that writes no row and is not at a charge.
LEMMA CollectorReads ==
  ASSUME BoothInv, UNCHANGED <<clock, table, torn, thread>>, ctl.pc # "bill", CollectorOK',
         FoundRentalsAreInvoiced', ctl'.pc = "pay" => PayIsFirst'
  PROVE  BoothInv'
<1>1. TypeOK'
  BY DEF BoothInv, TypeOK, clock, table
<1>2. RowsGo /\ NewPayments = {} /\ NoCharge
  BY RowsStay DEF BoothInv
<1>3. ThreadsOK' /\ LoyaltyOK'
  BY <1>1, <1>2, CollectorKeepsLoyalty
<1>4. ChargedOnce'
  BY <1>2, ChargedStays DEF BoothInv, ChargesOK
<1>5. ChargesAreBilled'
  BY <1>1, <1>2, BilledStays DEF BoothInv, ChargesOK
<1>6. PayIsFirst'
  BY DEF PayIsFirst
<1> QED
  BY <1>1, <1>3, <1>4, <1>5, <1>6 DEF BoothInv, ChargesOK

LEMMA SleepKeeps == ASSUME ctl' = Asleep PROVE CollectorOK' /\ FoundRentalsAreInvoiced'
  BY AsleepIs DEF CollectorOK, FoundRentalsAreInvoiced

LEMMA WakeStep == ASSUME BoothInv, Wake PROVE BoothInv'
<1>1. month \in Period /\ (day > GraceEnd) \in BOOLEAN
  BY DEF BoothInv, TypeOK
<1>2. ctl' \in CollectorType /\ ctl'.pc \in {"open", "pending"}
  <2>1. PICK label \in {"open", "pending"}, late \in BOOLEAN :
           ctl' = Collecting(label, month, late, {}, {}, 0)
    BY <1>1, Zenon DEF Wake
  <2> QED
    BY <1>1, <2>1 DEF Collecting, CollectorType, CollectorLabel
<1>3. CollectorOK' /\ FoundRentalsAreInvoiced'
  BY <1>2 DEF CollectorOK, FoundRentalsAreInvoiced
<1> QED
  BY <1>2, <1>3, CollectorReads DEF Wake

LEMMA FindOpenStep == ASSUME BoothInv, FindOpen PROVE BoothInv'
<1> DEFINE open == {r \in DOMAIN rental : rental[r]}
<1>0. UNCHANGED <<clock, table, torn, thread>> /\ ctl.pc = "open"
  BY DEF FindOpen
<1>1. ctl' = Collecting("look", ctl.period, ctl.late, open, open, 0)
  BY DEF FindOpen
<1>2. open \subseteq 1..nRental /\ open \in SUBSET Nat
  BY BoothRentAssumption DEF BoothInv, TypeOK
<1> HIDE DEF open
<1>3. /\ ctl' \in CollectorType
      /\ ctl'.pc = "look" /\ ctl'.found = open /\ ctl'.todo = open
  BY <1>1, <1>2, CollectorHas, CollectingIs DEF BoothInv, CollectorLabel
<1>4. CollectorOK'
  BY <1>0, <1>2, <1>3 DEF CollectorOK, table
<1>5. FoundRentalsAreInvoiced'
  BY <1>3 DEF FoundRentalsAreInvoiced
<1> QED
  BY <1>0, <1>3, <1>4, <1>5, CollectorReads

\* A rental that has no invoice of the period has no charge of it but one that was cut.
LEMMA LookStep == ASSUME BoothInv, Look PROVE BoothInv'
<1>0. UNCHANGED <<clock, table, torn, thread>> /\ ctl.pc = "look"
  BY DEF Look
<1>1. PICK r \in ctl.todo : IF Invoiced(r, ctl.period) THEN Skips("look", r) ELSE Charges("pay", r)
  BY DEF Look, Invoiced
<1>2. /\ ctl.found \subseteq 1..nRental /\ ctl.todo \subseteq ctl.found
      /\ r \in 1..nRental /\ r \in Nat /\ ctl.todo \ {r} \in SUBSET Nat
  BY <1>0, <1>1, CollectorHas, BoothRentAssumption DEF BoothInv, CollectorOK, TypeOK
<1>3. /\ ctl' \in CollectorType /\ ctl'.period = ctl.period
      /\ ctl'.found = ctl.found /\ ctl'.todo = ctl.todo \ {r}
      /\ Invoiced(r, ctl.period) => ctl'.pc = "look"
      /\ ~Invoiced(r, ctl.period) => ctl'.pc = "pay" /\ ctl'.at = r
  BY <1>1, <1>2, CollectorHas, CollectingIs DEF BoothInv, CollectorLabel, Skips, Charges
<1>4. CollectorOK'
  BY <1>0, <1>2, <1>3 DEF CollectorOK, table
<1>5. \A x, m : Invoiced(x, m)' <=> Invoiced(x, m)
  BY <1>0 DEF Invoiced, InvoicesOf, table
<1>6. FoundRentalsAreInvoiced'
  <2> SUFFICES ASSUME NEW x \in (ctl.found \cap DOMAIN rental) \ (ctl.todo \ {r})
               PROVE  Invoiced(x, ctl.period) \/ (x = ctl'.at /\ ctl'.pc # "look")
    BY <1>0, <1>3, <1>5 DEF FoundRentalsAreInvoiced, Invoiced, InvoicesOf, table
  <2>1. CASE x = r
    BY <1>3, <2>1
  <2>2. CASE x # r
    BY <1>0, <2>2 DEF BoothInv, ChargesOK, FoundRentalsAreInvoiced, Invoiced
  <2> QED
    BY <2>1, <2>2
<1>7. ASSUME ctl'.pc = "pay" PROVE PayIsFirst'
  <2> SUFFICES ASSUME NEW p \in DOMAIN payment, payment[p].auto,
                      payment[p].rental = r, payment[p].period = ctl.period
               PROVE  <<r, ctl.period>> \in torn
    BY <1>0, <1>3, <1>7 DEF PayIsFirst, table
  <2>1. ~Invoiced(r, ctl.period)
    BY <1>3, <1>7
  <2> QED
    BY <1>0, <2>1 DEF BoothInv, ChargesOK, ChargesAreBilled
<1> QED
  BY <1>0, <1>4, <1>6, <1>7, CollectorReads

LEMMA AllChargedStep == ASSUME BoothInv, AllCharged PROVE BoothInv'
<1>0. UNCHANGED <<clock, table, torn, thread>> /\ ctl.pc = "look"
  BY DEF AllCharged
<1>1. CASE ctl' = Asleep
  BY <1>0, <1>1, SleepKeeps, AsleepIs, CollectorReads
<1>2. CASE ctl' = Collecting("pending", ctl.period, TRUE, {}, {}, 0)
  <2>1. ctl' \in CollectorType /\ ctl'.pc = "pending"
    BY <1>2, CollectorHas DEF BoothInv, Collecting, CollectorType, CollectorLabel
  <2>2. CollectorOK' /\ FoundRentalsAreInvoiced'
    BY <2>1 DEF CollectorOK, FoundRentalsAreInvoiced
  <2> QED
    BY <1>0, <2>1, <2>2, CollectorReads
<1> QED
  BY <1>1, <1>2 DEF AllCharged

LEMMA FindPendingStep == ASSUME BoothInv, FindPending PROVE BoothInv'
<1> DEFINE due == {p \in DOMAIN payment : /\ payment[p].period = ctl.period
                                          /\ payment[p].status = "pending"}
<1>0. UNCHANGED <<clock, table, torn, thread>> /\ ctl.pc = "pending"
  BY DEF FindPending
<1>1. ctl' = Collecting("mark", ctl.period, TRUE, {}, due, 0)
  BY DEF FindPending
<1>2. /\ due \subseteq 1..nPayment /\ due \in SUBSET Nat
      /\ \A p \in due : payment[p].status # "paid"
  BY BoothRentAssumption DEF BoothInv, TypeOK
<1> HIDE DEF due
<1>3. ctl' \in CollectorType /\ ctl'.pc = "mark" /\ ctl'.todo = due
  BY <1>1, <1>2, CollectorHas DEF BoothInv, CollectorLabel, Collecting, CollectorType
<1>4. CollectorOK'
  BY <1>0, <1>2, <1>3 DEF CollectorOK, table
<1>5. FoundRentalsAreInvoiced'
  BY <1>3 DEF FoundRentalsAreInvoiced
<1> QED
  BY <1>0, <1>3, <1>4, <1>5, CollectorReads

LEMMA AllMarkedStep == ASSUME BoothInv, AllMarked PROVE BoothInv'
  BY SleepKeeps, AsleepIs, CollectorReads DEF AllMarked

\* The charge that is made is the first of its rental and period, or a crash cut the
\* first; it is the one that is billed next.
LEMMA PayStep == ASSUME BoothInv, Pay PROVE BoothInv'
<1> DEFINE row == PaymentRow(ctl.at, ctl.period, "pending", "other", TRUE)
<1>0. /\ UNCHANGED <<clock, rental, nRental, invoice, nInvoice, torn, thread>>
      /\ ctl.pc = "pay" /\ InsertPayment(row) /\ Charges("bill", ctl.at)
  BY DEF Pay
<1>1. /\ ctl.at \in 1..nRental /\ ctl.at \in RentalId
      /\ ctl.found \subseteq 1..nRental /\ ctl.todo \subseteq ctl.found
      /\ ctl.todo \ {ctl.at} \in SUBSET Nat
  BY <1>0, CollectorHas, RentalsAreIds DEF BoothInv, CollectorOK
<1>2. /\ row \in PaymentType /\ row.rental = ctl.at /\ row.period = ctl.period
      /\ row.discount = "other"
  BY <1>1, CollectorHas DEF BoothInv, PaymentRow, PaymentType, PaymentStatus, Discount
<1> HIDE DEF row
<1>3. TypeOK'
  BY <1>0, <1>2, InsertPaymentTyped DEF BoothInv
<1>4. RowsGo /\ \A p \in NewPayments : payment'[p] = row /\ row.rental \in DOMAIN rental
  BY <1>0, InsertPaymentGoes DEF BoothInv
<1>5. /\ ctl' \in CollectorType /\ ctl'.pc = "bill" /\ ctl'.period = ctl.period
      /\ ctl'.found = ctl.found /\ ctl'.todo = ctl.todo \ {ctl.at} /\ ctl'.at = ctl.at
  BY <1>0, <1>1, CollectorHas, CollectingIs DEF BoothInv, CollectorLabel, Charges
<1>6. CollectorOK'
  BY <1>0, <1>1, <1>5 DEF CollectorOK
<1>7. ThreadsOK' /\ LoyaltyOK'
  BY <1>0, <1>2, <1>3, <1>4, CollectorKeepsLoyalty
<1>8. \A p \in DOMAIN payment' :
        \/ p \in DOMAIN payment /\ SamePayment(p)
        \/ p \in NewPayments /\ payment'[p].rental = ctl.at /\ payment'[p].period = ctl.period
  BY <1>2, <1>4 DEF RowsGo, NewPayments
<1>9. \A p, q \in NewPayments : p = q
  BY <1>0, <1>3 DEF BoothInv, TypeOK, InsertPayment, With, NewPayments
<1>10. ChargedOnce'
  <2> SUFFICES ASSUME NEW p \in DOMAIN payment', NEW q \in DOMAIN payment',
                      payment'[p].auto, payment'[q].auto,
                      payment'[p].rental = payment'[q].rental,
                      payment'[p].period = payment'[q].period
               PROVE  p = q \/ <<payment'[p].rental, payment'[p].period>> \in torn
    BY <1>0 DEF ChargedOnce
  <2>1. CASE p \in DOMAIN payment /\ q \in DOMAIN payment
    <3>1. SamePayment(p) /\ SamePayment(q)
      BY <1>8, <2>1 DEF NewPayments
    <3> QED
      BY <2>1, <3>1 DEF SamePayment, BoothInv, ChargesOK, ChargedOnce
  <2>2. CASE p \in NewPayments /\ q \in NewPayments
    BY <1>9, <2>2
  <2>3. ASSUME NEW x \in DOMAIN payment, SamePayment(x), payment'[x].auto,
               payment'[x].rental = ctl.at, payment'[x].period = ctl.period
        PROVE  <<ctl.at, ctl.period>> \in torn
    BY <1>0, <2>3 DEF SamePayment, BoothInv, ChargesOK, PayIsFirst
  <2> QED
    BY <1>8, <2>1, <2>2, <2>3
<1>11. ChargesAreBilled'
  <2> SUFFICES ASSUME NEW p \in DOMAIN payment', payment'[p].auto
               PROVE  \/ Invoiced(payment'[p].rental, payment'[p].period)
                      \/ <<payment'[p].rental, payment'[p].period>> \in torn
                      \/ ctl.at = payment'[p].rental /\ ctl.period = payment'[p].period
    BY <1>0, <1>5 DEF ChargesAreBilled, Invoiced, InvoicesOf
  <2>1. CASE p \in DOMAIN payment /\ SamePayment(p)
    BY <1>0, <2>1 DEF SamePayment, BoothInv, ChargesOK, ChargesAreBilled
  <2> QED
    BY <1>8, <2>1
<1>12. FoundRentalsAreInvoiced'
  <2>1. \A r \in (ctl.found \cap DOMAIN rental) \ (ctl.todo \ {ctl.at}) :
           \/ \E i \in InvoicesOf(r) : invoice[i].period = ctl.period
           \/ r = ctl.at
    BY <1>0 DEF BoothInv, ChargesOK, FoundRentalsAreInvoiced
  <2> QED
    BY <1>0, <1>5, <2>1 DEF FoundRentalsAreInvoiced, InvoicesOf
<1>13. PayIsFirst'
  BY <1>5 DEF PayIsFirst
<1> QED
  BY <1>3, <1>6, <1>7, <1>10, <1>11, <1>12, <1>13 DEF BoothInv, ChargesOK

\* The rental that was charged is invoiced, unless it is gone with its charge.
LEMMA BillStep == ASSUME BoothInv, Bill PROVE BoothInv'
<1> DEFINE row == InvoiceRow(ctl.at, ctl.period, TRUE)
<1>0. /\ UNCHANGED <<clock, rental, nRental, payment, nPayment, torn, thread>>
      /\ ctl.pc = "bill" /\ InsertInvoice(row) /\ Skips("look", ctl.at)
  BY DEF Bill
<1>1. /\ ctl.at \in 1..nRental /\ ctl.at \in RentalId
      /\ ctl.found \subseteq 1..nRental /\ ctl.todo \subseteq ctl.found
      /\ ctl.todo \ {ctl.at} \in SUBSET Nat
  BY <1>0, CollectorHas, RentalsAreIds DEF BoothInv, CollectorOK
<1>2. row \in InvoiceType /\ row.rental = ctl.at /\ row.period = ctl.period
  BY <1>1, CollectorHas DEF BoothInv, InvoiceRow, InvoiceType, InvoiceStatus
<1> HIDE DEF row
<1>3. TypeOK'
  BY <1>0, <1>2, InsertInvoiceTyped DEF BoothInv
<1>4. RowsGo /\ NewPayments = {}
  BY <1>0, InsertInvoiceGoes DEF BoothInv
<1>5. /\ ctl' \in CollectorType /\ ctl'.pc = "look" /\ ctl'.period = ctl.period
      /\ ctl'.found = ctl.found /\ ctl'.todo = ctl.todo \ {ctl.at}
  BY <1>0, <1>1, CollectorHas, CollectingIs DEF BoothInv, CollectorLabel, Skips
<1>6. CollectorOK'
  BY <1>0, <1>1, <1>5 DEF CollectorOK
<1>7. ThreadsOK' /\ LoyaltyOK'
  BY <1>0, <1>3, <1>4, CollectorKeepsLoyalty
<1>8. NoCharge
  BY <1>4 DEF NoCharge
<1>9. ASSUME NEW r, r = ctl.at, NEW m, m = ctl.period, r \in DOMAIN rental'
      PROVE  Invoiced(r, m)'
  <2>1. invoice' = With(invoice, nInvoice + 1, row)
    BY <1>0, <1>2, <1>9 DEF InsertInvoice
  <2> QED
    BY <1>2, <1>9, <2>1 DEF With, Invoiced, InvoicesOf
<1>10. ChargedOnce'
  BY <1>0, <1>8, <1>4, ChargedStays DEF BoothInv, ChargesOK
<1>11. ChargesAreBilled'
  BY <1>0, <1>3, <1>4, <1>8, <1>9, BilledStays DEF BoothInv, ChargesOK
<1>12. FoundRentalsAreInvoiced'
  <2> SUFFICES ASSUME NEW r \in (ctl.found \cap DOMAIN rental) \ (ctl.todo \ {ctl.at}),
                      NEW m, m = ctl.period
               PROVE  Invoiced(r, m)'
    BY <1>0, <1>5 DEF FoundRentalsAreInvoiced, Invoiced, InvoicesOf
  <2>1. CASE r = ctl.at
    BY <1>0, <1>9, <2>1
  <2>2. CASE r # ctl.at
    <3>1. Invoiced(r, m)
      BY <1>0, <2>2 DEF BoothInv, ChargesOK, FoundRentalsAreInvoiced, Invoiced
    <3> QED
      BY <1>0, <1>4, <3>1, InvoicedStays DEF BoothInv
  <2> QED
    BY <2>1, <2>2
<1>13. PayIsFirst'
  BY <1>5 DEF PayIsFirst
<1> QED
  BY <1>3, <1>6, <1>7, <1>10, <1>11, <1>12, <1>13 DEF BoothInv, ChargesOK

\* The collector is past its charges.
LEMMA MarkingKeeps ==
  ASSUME BoothInv, TypeOK', RowsGo, NewPayments = {}, UNCHANGED <<torn, thread>>,
         ctl.pc # "bill", ctl'.pc \in {"mark", "flag"}, CollectorOK'
  PROVE  BoothInv'
<1>1. NoCharge
  BY DEF NoCharge
<1>2. ChargedOnce' /\ ChargesAreBilled'
  BY <1>1, ChargedStays, BilledStays DEF BoothInv, ChargesOK
<1>3. PayIsFirst' /\ FoundRentalsAreInvoiced'
  BY DEF PayIsFirst, FoundRentalsAreInvoiced
<1>4. ThreadsOK' /\ LoyaltyOK'
  BY CollectorKeepsLoyalty
<1> QED
  BY <1>2, <1>3, <1>4 DEF BoothInv, ChargesOK

LEMMA MarkStep == ASSUME BoothInv, Mark PROVE BoothInv'
<1>1. TypeOK' /\ RowsGo /\ NewPayments = {}
  BY StatusStepTyped, MarkGoes DEF BoothInv
<1>2. PICK p \in ctl.todo : Charges("flag", p)
  BY DEF Mark
<1>3. ctl.pc = "mark" /\ UNCHANGED <<torn, thread, nPayment>> /\ DOMAIN payment' \subseteq DOMAIN payment
  BY <1>1 DEF Mark, NewPayments
<1>4. ctl' \in CollectorType /\ ctl'.pc = "flag" /\ ctl'.todo = ctl.todo \ {p}
  BY <1>2, CollectorHas, CollectingIs DEF BoothInv, CollectorLabel, Charges
<1>5. \A q \in ctl.todo : q \in 1..nPayment /\ (q \in DOMAIN payment' => payment'[q].status # "paid")
  BY <1>1, <1>3 DEF BoothInv, CollectorOK, RowsGo, SamePayment
<1>6. CollectorOK'
  BY <1>3, <1>4, <1>5 DEF CollectorOK
<1> QED
  BY <1>1, <1>3, <1>4, <1>6, MarkingKeeps

LEMMA FlagStep == ASSUME BoothInv, Flag PROVE BoothInv'
<1>1. TypeOK' /\ RowsGo /\ NewPayments = {}
  BY StatusStepTyped, FlagGoes DEF BoothInv
<1>2. ctl.pc = "flag" /\ Skips("mark", ctl.at) /\ UNCHANGED <<torn, thread, payment, nPayment>>
  BY DEF Flag
<1>3. ctl' \in CollectorType /\ ctl'.pc = "mark" /\ ctl'.todo = ctl.todo \ {ctl.at}
  BY <1>2, CollectorHas, CollectingIs DEF BoothInv, CollectorLabel, Skips
<1>4. CollectorOK'
  BY <1>2, <1>3 DEF BoothInv, CollectorOK
<1> QED
  BY <1>1, <1>2, <1>3, <1>4, MarkingKeeps

\* The charge a crash cuts is remembered.
LEMMA CrashStep == ASSUME BoothInv, Crash PROVE BoothInv'
<1>0. /\ UNCHANGED <<clock, table>> /\ ctl' = Asleep
      /\ torn' = IF ctl.pc = "bill" THEN torn \cup {<<ctl.at, ctl.period>>} ELSE torn
      /\ pc' = [t \in Thread |-> "idle"] /\ arg' = [t \in Thread |-> NoArg]
  BY DEF Crash
<1>1. TypeOK'
  BY <1>0 DEF BoothInv, TypeOK, clock, table
<1>2. RowsGo /\ NewPayments = {} /\ NoCharge
  BY <1>0, RowsStay DEF BoothInv
<1>3. CollectorOK' /\ FoundRentalsAreInvoiced'
  BY <1>0, SleepKeeps
<1>4. PayIsFirst'
  BY <1>0, AsleepIs DEF PayIsFirst
<1>5. ChargedOnce' /\ ChargesAreBilled'
  BY <1>0, <1>1, <1>2, ChargedStays, BilledStays DEF BoothInv, ChargesOK
<1>6. ThreadsOK' /\ GivenLoyaltyIsEarned'
  BY <1>0, NoArgIsArg DEF ThreadsOK, ThreadLabel, GivenLoyaltyIsEarned
<1>7. LoyaltyIsEarned'
  BY <1>1, <1>2, LoyaltyStays DEF BoothInv, LoyaltyOK
<1> QED
  BY <1>1, <1>3, <1>4, <1>5, <1>6, <1>7 DEF BoothInv, ChargesOK, LoyaltyOK

-----------------------------------------------------------------------------
LEMMA BoothInvStep == ASSUME BoothInv, [Next]_vars PROVE BoothInv'
<1>1. CASE UNCHANGED vars
  <2>1. UNCHANGED <<collector, thread>> /\ UNCHANGED table /\ TypeOK'
    BY <1>1 DEF vars, BoothInv, TypeOK, clock, table
  <2> QED
    BY <2>1, RowsStay, HandlerStep DEF BoothInv
<1>2. CASE CollectorStep
  BY <1>2, WakeStep, FindOpenStep, LookStep, PayStep, BillStep, AllChargedStep,
     FindPendingStep, MarkStep, FlagStep, AllMarkedStep DEF CollectorStep
<1>3. CASE \E t \in Thread : PostPayment(t) \/ Loyalty(t) \/ PostPaymentInsert(t)
  BY <1>3, PostPaymentStep, LoyaltyStep, PostPaymentInsertStep
<1> QED
  BY <1>1, <1>2, <1>3, NextDayStep, CrashStep, RentalStep, InvoiceStep DEF Next

LEMMA BoothInvariant == Spec => []BoothInv
  BY InitInv, BoothInvStep, PTL DEF Spec

\* The rows have the columns' values and refer to rentals that are there, whatever the
\* handlers and the collector do in between, and wherever a crash falls.
THEOREM BoothRentTypeCorrect == Spec => []TypeOK
  BY BoothInvariant, PTL DEF BoothInv

\* The collector charges a rental once a month, unless a crash cut the charge in two:
\* however often the check hour comes, and whatever invoices the clients post meanwhile.
THEOREM RentalsAreChargedOnce == Spec => []ChargedOnce
<1>1. BoothInv => ChargedOnce
  BY DEF BoothInv, ChargesOK
<1> QED
  BY <1>1, BoothInvariant, PTL

\* What a pass of the collector has gone through has an invoice of the period.
THEOREM PassesInvoiceWhatTheyFind == Spec => []FoundRentalsAreInvoiced
<1>1. BoothInv => FoundRentalsAreInvoiced
  BY DEF BoothInv, ChargesOK
<1> QED
  BY <1>1, BoothInvariant, PTL

\* No loyalty discount rests on payments that were not made.
THEOREM LoyaltyDiscountsAreEarned == Spec => []LoyaltyIsEarned
<1>1. BoothInv => LoyaltyIsEarned
  BY DEF BoothInv, LoyaltyOK
<1> QED
  BY <1>1, BoothInvariant, PTL
=============================================================================
