----------------------------- MODULE Settlements -----------------------------
(***************************************************************************)
(* The settler thread of main.cpp, which once a night pays out to each      *)
(* dealer the sales of his items that are old enough, and the handlers that *)
(* change the sales under it.                                              *)
(*                                                                         *)
(* No row says which sales a settlement is for.  A sale counts as settled   *)
(* when its owner has a settlement whose period ends on its date or later,  *)
(* so all rests on the order of dates.  They are texts: POST /api/sales     *)
(* dates a sale with the time of day, the webhook with the day alone, which *)
(* sorts before every time of that day.                                    *)
(*                                                                         *)
(* The settler asks for items with an owner.  Copies and imported rows have  *)
(* none, so their sales are in the table and in no settlement.             *)
(***************************************************************************)
EXTENDS Integers, Sequences, FiniteSets, FiniteSetsExt

CONSTANTS Owner,      \* the dealers
          NoOwner,    \* the NULL owner_id of a copy or of an imported item
          Grace,      \* the values settlements.grace_days may have when the server starts,
                      \* in days of the sales' dates: the cutoff is the server's local
                      \* date, which may be a day ahead of UTC.  Zero is accepted.
          MaxDay,     \* bound: the days the model sees
          MaxSale,    \* bound: rows ever inserted into sales
          MaxCrash    \* bound: restarts of the server

ASSUME SettlementsAssumption ==
    /\ NoOwner \notin Owner
    /\ Grace \subseteq Int
    /\ MaxDay \in Nat \ {0} /\ MaxSale \in Nat /\ MaxCrash \in Nat

SaleId == 1..MaxSale

\* The dates, in the order of their texts: the day, then a time of it.
DateOf(d) == 2 * d
TimeOf(d) == 2 * d + 1
Stamp     == 0..TimeOf(MaxDay)

VARIABLES
    day,         \* the clock
    sale,        \* the rows of sales, by id: the item's owner and the sale's date
    nSale,
    settlement,  \* the rows of settlements, in the order they are inserted
    grace,       \* the grace days the settler was started with
    settler,     \* the settler: its next statement and its local variables
    crashes,
    redated,     \* observer: the sales whose date a client has changed
    overtaken,   \* observer: the sales that a period had passed when they were entered
    ungraced     \* observer: the server has been run without grace days

vars == <<day, sale, nSale, settlement, grace, settler, crashes, redated, overtaken, ungraced>>

SaleRow(o, d) == [owner |-> o, date |-> d]

\* `covers' is an observer: the sales the totals were summed over.
SettlementRow(o, e, ss) == [owner |-> o, end |-> e, status |-> "pending", covers |-> ss]

\* What the settler holds: the cutoff, the dealers to go, the one it is at and the sales
\* his totals were summed over.
Settling(label, cut, todo, at, ss) ==
    [pc |-> label, cutoff |-> cut, todo |-> todo, at |-> at, sales |-> ss]

Asleep == Settling("sleep", 0, {}, {}, {})

Init ==
    /\ day = 1
    /\ sale = <<>> /\ nSale = 0
    /\ settlement = <<>>
    /\ grace \in Grace /\ ungraced = (grace <= 0)
    /\ settler = Asleep /\ crashes = 0
    /\ redated = {} /\ overtaken = {}

NextDay ==
    /\ day < MaxDay
    /\ day' = day + 1
    /\ UNCHANGED <<sale, nSale, settlement, grace, settler, crashes, redated, overtaken, ungraced>>

-----------------------------------------------------------------------------
(***************************************************************************)
(* The handlers                                                            *)
(***************************************************************************)

\* A period of the owner's ends on the date or later: that of a settlement, or of the one
\* the settler is about to insert.
Overtakes(o, d) ==
    \/ \E i \in DOMAIN settlement : settlement[i].owner = o /\ settlement[i].end >= d
    \/ \E x \in settler.at : x[1] = o /\ x[2] >= d

\* POST /api/sales, and POST /api/sync/webhook/:channel.
PostSale ==
    /\ nSale < MaxSale
    /\ nSale' = nSale + 1
    /\ \E o \in Owner \cup {NoOwner}, d \in {TimeOf(day), DateOf(day)} :
         /\ sale' = [s \in DOMAIN sale \cup {nSale + 1} |->
                       IF s = nSale + 1 THEN SaleRow(o, d) ELSE sale[s]]
         /\ overtaken' = IF Overtakes(o, d) THEN overtaken \cup {nSale + 1} ELSE overtaken
    /\ UNCHANGED <<day, settlement, grace, settler, crashes, redated, ungraced>>

\* PUT /api/sales/:id with another date, once for each sale.
PutSaleDate ==
    /\ \E s \in DOMAIN sale \ redated, d \in 1..MaxDay :
         /\ sale' = [sale EXCEPT ![s] = SaleRow(@.owner, DateOf(d))]
         /\ redated' = redated \cup {s}
    /\ UNCHANGED <<day, nSale, settlement, grace, settler, crashes, overtaken, ungraced>>

DeleteSale ==
    /\ \E s \in DOMAIN sale : sale' = [x \in DOMAIN sale \ {s} |-> sale[x]]
    /\ UNCHANGED <<day, nSale, settlement, grace, settler, crashes, redated, overtaken, ungraced>>

\* Mutation: the status is one the documentation names and the code does not.
PutSettlementPaid_Sent ==
    /\ \E i \in DOMAIN settlement : settlement' = [settlement EXCEPT ![i].status = "sent"]
    /\ UNCHANGED <<day, sale, nSale, grace, settler, crashes, redated, overtaken, ungraced>>

PutSettlementPaid ==
    /\ \E i \in DOMAIN settlement : settlement' = [settlement EXCEPT ![i].status = "paid"]
    /\ UNCHANGED <<day, sale, nSale, grace, settler, crashes, redated, overtaken, ungraced>>

-----------------------------------------------------------------------------
(***************************************************************************)
(* The settler                                                             *)
(***************************************************************************)

\* Mutation: a sale on the last day of a period is not settled by it.
IsSettled_Before(s) ==
    \E i \in DOMAIN settlement :
        settlement[i].owner = sale[s].owner /\ settlement[i].end > sale[s].date

IsSettled(s) ==
    \E i \in DOMAIN settlement :
        settlement[i].owner = sale[s].owner /\ settlement[i].end >= sale[s].date

\* Mutation: the totals are of all that was sold since.
Due_Yet(o, cut) ==
    {s \in DOMAIN sale : sale[s].owner = o /\ ~IsSettled(s)}

\* The sales both queries of the settler are about: of items with an owner.
Due(o, cut) ==
    {s \in DOMAIN sale : sale[s].owner = o /\ sale[s].date <= cut /\ ~IsSettled(s)}

Wake ==
    /\ settler.pc = "sleep"
    /\ settler' = Settling("dealers", DateOf(day - grace), {}, {}, {})
    /\ UNCHANGED <<day, sale, nSale, settlement, grace, crashes, redated, overtaken, ungraced>>

\* Mutation: the dealers who were never paid.
FindDealers_New ==
    /\ settler.pc = "dealers"
    /\ LET new == {o \in Owner : \A i \in DOMAIN settlement : settlement[i].owner # o}
       IN  settler' = Settling("totals", settler.cutoff,
                               {o \in new : Due(o, settler.cutoff) # {}}, {}, {})
    /\ UNCHANGED <<day, sale, nSale, settlement, grace, crashes, redated, overtaken, ungraced>>

FindDealers ==
    /\ settler.pc = "dealers"
    /\ settler' = Settling("totals", settler.cutoff,
                           {o \in Owner : Due(o, settler.cutoff) # {}}, {}, {})
    /\ UNCHANGED <<day, sale, nSale, settlement, grace, crashes, redated, overtaken, ungraced>>

\* A dealer whose sales are gone by now is passed over.
SumTotals ==
    /\ settler.pc = "totals"
    /\ \E o \in settler.todo :
         LET due  == Due(o, settler.cutoff)
             rest == settler.todo \ {o}
         IN  settler' = IF due = {}
                        THEN Settling("totals", settler.cutoff, rest, {}, {})
                        ELSE Settling("insert", settler.cutoff, rest,
                                      {<<o, Max({sale[s].date : s \in due})>>}, due)
    /\ UNCHANGED <<day, sale, nSale, settlement, grace, crashes, redated, overtaken, ungraced>>

InsertSettlement ==
    /\ settler.pc = "insert"
    /\ \E x \in settler.at :
         settlement' = Append(settlement, SettlementRow(x[1], x[2], settler.sales))
    /\ settler' = Settling("totals", settler.cutoff, settler.todo, {}, {})
    /\ UNCHANGED <<day, sale, nSale, grace, crashes, redated, overtaken, ungraced>>

AllSettled ==
    /\ settler.pc = "totals" /\ settler.todo = {}
    /\ settler' = Asleep
    /\ UNCHANGED <<day, sale, nSale, settlement, grace, crashes, redated, overtaken, ungraced>>

\* The process ends, and is started again with what the configuration says then.
Crash ==
    /\ crashes < MaxCrash
    /\ crashes' = crashes + 1
    /\ settler' = Asleep
    /\ grace' \in Grace /\ ungraced' = (ungraced \/ grace' <= 0)
    /\ UNCHANGED <<day, sale, nSale, settlement, redated, overtaken>>

-----------------------------------------------------------------------------
SettlerStep == Wake \/ FindDealers \/ SumTotals \/ InsertSettlement \/ AllSettled

Next ==
    \/ NextDay \/ PostSale \/ PutSaleDate \/ DeleteSale \/ PutSettlementPaid
    \/ SettlerStep \/ Crash

Spec == Init /\ [][Next]_vars

\* The settler is a thread of its own that wakes every hour.
FairSpec == Spec /\ WF_vars(SettlerStep)

-----------------------------------------------------------------------------
(***************************************************************************)
(* Properties                                                              *)
(***************************************************************************)

SettlementType ==
    [owner : Owner, end : Stamp, status : {"pending", "paid"}, covers : SUBSET SaleId]

SettlerType ==
    [pc : {"sleep", "dealers", "totals", "insert"}, cutoff : Int, todo : SUBSET Owner,
     at : SUBSET (Owner \X Stamp), sales : SUBSET SaleId]

\* Rows and local variables have the values the statements give them.
TypeOK ==
    /\ day \in 1..MaxDay /\ nSale \in 0..MaxSale /\ crashes \in 0..MaxCrash
    /\ DOMAIN sale \subseteq 1..nSale
    /\ \A s \in DOMAIN sale : sale[s] \in [owner : Owner \cup {NoOwner}, date : Stamp]
    /\ settlement \in Seq(SettlementType)
    /\ grace \in Grace
    /\ settler \in SettlerType
    /\ redated \subseteq 1..nSale /\ overtaken \subseteq 1..nSale /\ ungraced \in BOOLEAN

Covered(s) == {i \in DOMAIN settlement : s \in settlement[i].covers}

\* No sale is paid out twice, whatever is sold, dated anew or deleted between the query
\* that sums and the INSERT, and wherever a crash falls - unless a client has changed its
\* date (main.cpp 243-270).
SettledOnce == \A s \in SaleId \ redated : Cardinality(Covered(s)) <= 1

\* No sale is passed over: one that counts as settled, because a period of its owner ends
\* later, was summed in one of his settlements - unless a client has changed its date, or
\* it was entered, under a server that has been run without grace days, when the period
\* was already fixed (main.cpp 213-236).
SettledMeansCovered ==
    \A s \in DOMAIN sale \ redated :
        IsSettled(s) =>
            \/ Covered(s) # {}
            \/ s \in overtaken /\ ungraced

\* A sale of an item with an owner is old enough, and no settlement of his counts for it.
Waits(s) ==
    /\ s \in DOMAIN sale /\ sale[s].owner # NoOwner
    /\ sale[s].date <= DateOf(day - grace)
    /\ ~IsSettled(s)

\* docs/HOWTO.md:169: the thread "finds dealers with unsettled sales older than
\* settlements.grace_days and creates settlement records".  No sale of an item with an
\* owner waits for ever, however the night's work was broken off; that of an item without
\* one waits for nothing (main.cpp 224-270).
SalesAreSettled == \A s \in SaleId : []<>~Waits(s)
=============================================================================
