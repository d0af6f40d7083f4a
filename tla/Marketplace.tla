----------------------------- MODULE Marketplace -----------------------------
(***************************************************************************)
(* Items, their listings, their sales and their paper trail: the handlers  *)
(* of app_items.cpp, app_listings.cpp, app_sales.cpp, app_appraisals.cpp,   *)
(* the buyer inquiries of app_comments.cpp and the marketplace webhook of  *)
(* app_sync.cpp, over the one SQLite connection of db.cpp.                 *)
(*                                                                         *)
(* Every client has a thread of its own, and Db::exec and Db::query hold    *)
(* the connection's mutex for one statement and no longer.  No handler      *)
(* opens a transaction.  So an action here is one statement: a handler is   *)
(* a sequence of actions of one thread, which keeps in `arg' what it has    *)
(* read and goes on using it while the other threads' statements run, and   *)
(* a crash between two statements leaves the first one done.                *)
(***************************************************************************)
EXTENDS Integers, Sequences, FiniteSets

CONSTANTS Thread,       \* the client threads the server runs
          MaxItem,      \* bound: rows ever inserted into items
          MaxListing,   \* bound: rows ever inserted into listings
          MaxSale,      \* bound: rows ever inserted into sales
          Catalogued,   \* rows of items in the database the server opens
          Price,        \* sale prices
          Cost,         \* platform fee and shipping of a sale, together
          Written,      \* the statuses clients write themselves
          Ops           \* the operations clients use

ItemId    == 1..MaxItem
ListingId == 1..MaxListing
SaleId    == 1..MaxSale

Status     == {"inventory", "listed", "sold"}
Shelf      == {"active", "sold", "removed"}        \* listings.status
SyncStatus == {"local", "synced", "sold"}          \* listings.sync_status

Operation ==
    {"PostItem", "CopyItem", "PutItem", "DeleteItem", "PostListing", "PutListing",
     "DeleteListing", "Publish", "PostSale", "PutSale", "DeleteSale", "Webhook",
     "Appraisal", "Inquiry", "Crash"}

ASSUME MarketplaceAssumption ==
    /\ MaxItem \in Nat /\ MaxListing \in Nat /\ MaxSale \in Nat
    /\ Catalogued \in 0..MaxItem
    /\ Price \subseteq Int /\ Cost \subseteq Int
    /\ 0 \in Cost
    /\ Written \subseteq Status
    /\ Ops \subseteq Operation

VARIABLES
    items,      \* the ids of the rows of items
    status,     \* items.status, by id
    sku,        \* the id in the generated items.sku, 0 while it is NULL
    nItem,      \* the highest id items ever had (AUTOINCREMENT)
    listing,    \* the rows of listings, by id; none is ever deleted
    nListing,   \* the number of rows of listings
    sales,      \* the ids of the rows of sales
    sale,       \* the rows of sales, by id
    nSale,      \* the highest id sales ever had
    history,    \* item_history: <<item, new status>>, <<item, "other">> for
                \* a change of the title, the price or the condition
    appraisals, \* the items with rows in appraisals
    inquiries,  \* the listings with rows in buyer_inquiries
    pc,         \* the statement each thread executes next
    arg,        \* what each thread has read and holds in local variables
    voided,     \* observer: items a DELETE /api/sales has acted on
    declared,   \* observer: items a client declared sold itself
    born,       \* observer: the status each item's INSERT gave it
    deletion    \* observer: how far DELETE /api/items/:id of each item came

table  == <<items, status, sku, nItem, listing, nListing, sales, sale, nSale>>
trail  == <<history, appraisals, inquiries>>
thread == <<pc, arg>>
seen   == <<voided, declared, born, deletion>>
vars   == <<table, trail, thread, seen>>

ListingOf(i, s, y) == [item |-> i, shelf |-> s, sync |-> y]
SaleOf(i, p, c)    == [item |-> i, price |-> p, cost |-> c, net |-> p - c]

NoListing == ListingOf(0, "active", "local")
NoSale    == SaleOf(0, 0, 0)

(***************************************************************************)
(* What a handler holds: an item; an item and the status it changes; a     *)
(* listing or a sale, with its item, a price and a cost.                   *)
(***************************************************************************)
Local(i, r, old, new, p, c) ==
    [item |-> i, ref |-> r, old |-> old, new |-> new, price |-> p, cost |-> c]

AtItem(i)          == Local(i, 0, "inventory", "inventory", 0, 0)
Editing(i, old, n) == Local(i, 0, old, n, 0, 0)
AtRow(r, i, p, c)  == Local(i, r, "inventory", "inventory", p, c)

NoArg == AtItem(0)

(***************************************************************************)
(* The thread's control.  A handler that starts is idle before, and one    *)
(* that has answered is idle again and has forgotten what it read.         *)
(***************************************************************************)
Begins(t, op) == pc[t] = "idle" /\ op \in Ops

Goes(t, label, a) ==
    /\ pc'  = [pc EXCEPT ![t] = label]
    /\ arg' = [arg EXCEPT ![t] = a]

Answers(t) == Goes(t, "idle", NoArg)

\* UPDATE items SET status=? WHERE id=?: no row, no change, and no error.
SetStatus(i, s) ==
    status' = IF i \in items THEN [status EXCEPT ![i] = s] ELSE status

\* The rows that refer to an item with a foreign key that restricts its DELETE.
Referenced(i) ==
    \/ \E l \in 1..nListing : listing[l].item = i
    \/ \E s \in sales : sale[s].item = i
    \/ \E h \in history : h[1] = i
    \/ i \in appraisals
    \/ \E l \in inquiries : listing[l].item = i

Init ==
    /\ items = 1..Catalogued
    /\ status = [i \in ItemId |-> "inventory"]
    /\ sku = [i \in ItemId |-> IF i <= Catalogued THEN i ELSE 0]
    /\ nItem = Catalogued
    /\ listing = [l \in ListingId |-> NoListing]
    /\ nListing = 0
    /\ sales = {}
    /\ sale = [s \in SaleId |-> NoSale]
    /\ nSale = 0
    /\ history = {} /\ appraisals = {} /\ inquiries = {}
    /\ pc = [t \in Thread |-> "idle"]
    /\ arg = [t \in Thread |-> NoArg]
    /\ voided = {} /\ declared = {}
    /\ born = status
    /\ deletion = [i \in ItemId |-> "none"]

-----------------------------------------------------------------------------
(***************************************************************************)
(* Items                                                                   *)
(***************************************************************************)

InsertItem(s) ==
    /\ nItem < MaxItem
    /\ nItem' = nItem + 1
    /\ items' = items \cup {nItem + 1}
    /\ status' = [status EXCEPT ![nItem + 1] = s]
    /\ declared' = IF s = "sold" THEN declared \cup {nItem + 1} ELSE declared
    /\ born' = [born EXCEPT ![nItem + 1] = s]

\* POST /api/items.  The result of the INSERT is not looked at: it is refused
\* when the dealer's own account was deleted since the request was let in.
PostItem(t) ==
    /\ Begins(t, "PostItem")
    /\ \/ \E s \in Written \cup {"inventory"} : InsertItem(s)
       \/ UNCHANGED <<items, status, nItem, declared, born>>
    /\ Goes(t, "post_id", NoArg)
    /\ UNCHANGED <<sku, listing, nListing, sales, sale, nSale, trail, voided, deletion>>

\* last_insert_id() asks the connection, not the INSERT, and holds no mutex: it
\* tells the rowid of whatever row of whatever table any thread inserted last,
\* 0 standing for one that no item has.
PostItemId(t) ==
    /\ pc[t] = "post_id"
    /\ \E r \in 0..MaxItem : Goes(t, "post_sku", AtItem(r))
    /\ UNCHANGED <<table, trail, seen>>

\* Mutation: the SKU is made from the id and the UPDATE asks for it once more.
PostItemSku_AsksAgain(t) ==
    /\ pc[t] = "post_sku"
    /\ \E i \in items :
         sku' = IF sku[i] = 0 THEN [sku EXCEPT ![i] = arg[t].item] ELSE sku
    /\ Answers(t)
    /\ UNCHANGED <<items, status, nItem, listing, nListing, sales, sale, nSale, trail,
                   seen>>

PostItemSku(t) ==
    /\ pc[t] = "post_sku"
    /\ LET i == arg[t].item
       IN  sku' = IF i \in items /\ sku[i] = 0 THEN [sku EXCEPT ![i] = i] ELSE sku
    /\ Answers(t)
    /\ UNCHANGED <<items, status, nItem, listing, nListing, sales, sale, nSale, trail,
                   seen>>

\* POST /api/items/:id/duplicate, and each row of POST /api/items/import: a row
\* in inventory, without a SKU.
CopyItem(t) ==
    /\ Begins(t, "CopyItem")
    /\ InsertItem("inventory")
    /\ UNCHANGED <<sku, listing, nListing, sales, sale, nSale, trail, thread, voided, deletion>>

\* Mutation: the row is updated without an audit of the status.
PutItem_Unaudited(t) ==
    /\ Begins(t, "PutItem")
    /\ \E i \in items : \E new \in Written \cup {status[i]} :
         Goes(t, "put_update", Editing(i, status[i], new))
    /\ UNCHANGED <<table, trail, seen>>

\* PUT /api/items/:id reads the row and works out what the request changes.
PutItem(t) ==
    /\ Begins(t, "PutItem")
    /\ \E i \in items : \E new \in Written \cup {status[i]} :
         /\ \E next \in IF new = status[i] THEN {"put_other", "put_update"} ELSE {"put_audit"} :
              Goes(t, next, Editing(i, status[i], new))
         /\ declared' = IF new = "sold" /\ status[i] # "sold" THEN declared \cup {i}
                                                              ELSE declared
    /\ UNCHANGED <<table, trail, voided, born, deletion>>

\* audit_change: the foreign key refuses the row of an item that is gone.
AuditChange(i, what) ==
    history' = IF i \in items THEN history \cup {<<i, what>>} ELSE history

PutItemAudit(t) ==
    /\ pc[t] = "put_audit"
    /\ AuditChange(arg[t].item, arg[t].new)
    /\ \E next \in {"put_other", "put_update"} : Goes(t, next, arg[t])
    /\ UNCHANGED <<table, appraisals, inquiries, seen>>

\* Another audited column changes as well, or instead.
PutItemAuditOther(t) ==
    /\ pc[t] = "put_other"
    /\ AuditChange(arg[t].item, "other")
    /\ Goes(t, "put_update", arg[t])
    /\ UNCHANGED <<table, appraisals, inquiries, seen>>

\* The whole row is written back, the columns the request left alone as well.
PutItemUpdate(t) ==
    /\ pc[t] = "put_update"
    /\ SetStatus(arg[t].item, arg[t].new)
    /\ Answers(t)
    /\ UNCHANGED <<items, sku, nItem, listing, nListing, sales, sale, nSale, trail, seen>>

\* DELETE /api/items/:id: four statements, none of whose results is looked at.
DeleteItem(t) ==
    /\ Begins(t, "DeleteItem")
    /\ \E i \in ItemId :
         /\ history' = {h \in history : h[1] # i}
         /\ Goes(t, "del_appraisals", AtItem(i))
         /\ deletion' = IF i \in items /\ deletion[i] = "none"
                          THEN [deletion EXCEPT ![i] = "asked"] ELSE deletion
    /\ UNCHANGED <<table, appraisals, inquiries, voided, declared, born>>

DeleteItemAppraisals(t) ==
    /\ pc[t] = "del_appraisals"
    /\ appraisals' = appraisals \ {arg[t].item}
    /\ Goes(t, "del_inquiries", arg[t])
    /\ UNCHANGED <<table, history, inquiries, seen>>

DeleteItemInquiries(t) ==
    /\ pc[t] = "del_inquiries"
    /\ inquiries' = {l \in inquiries : listing[l].item # arg[t].item}
    /\ Goes(t, "del_row", arg[t])
    /\ UNCHANGED <<table, history, appraisals, seen>>

\* Mutation: the connection is opened without PRAGMA foreign_keys=ON.
DeleteItemRow_NoForeignKeys(t) ==
    /\ pc[t] = "del_row"
    /\ items' = items \ {arg[t].item}
    /\ UNCHANGED deletion
    /\ Answers(t)
    /\ UNCHANGED <<status, sku, nItem, listing, nListing, sales, sale, nSale, trail, voided, declared,
                   born>>

DeleteItemRow(t) ==
    /\ pc[t] = "del_row"
    /\ LET i == arg[t].item
       IN  /\ items' = IF Referenced(i) THEN items ELSE items \ {i}
           /\ deletion' = [deletion EXCEPT ![i] = IF @ = "asked" THEN "answered" ELSE @]
    /\ Answers(t)
    /\ UNCHANGED <<status, sku, nItem, listing, nListing, sales, sale, nSale, trail, voided, declared,
                   born>>

-----------------------------------------------------------------------------
(***************************************************************************)
(* Listings                                                                *)
(***************************************************************************)

\* POST /api/listings: refused for an item that is not there.
PostListing(t) ==
    /\ Begins(t, "PostListing")
    /\ nListing < MaxListing
    /\ \E i \in items :
         /\ nListing' = nListing + 1
         /\ listing' = [listing EXCEPT ![nListing + 1] = ListingOf(i, "active", "local")]
         /\ Goes(t, "list_mark", AtItem(i))
    /\ UNCHANGED <<items, status, sku, nItem, sales, sale, nSale, trail, seen>>

\* The item is marked listed whatever it was before, sold included.
PostListingMark(t) ==
    /\ pc[t] = "list_mark"
    /\ SetStatus(arg[t].item, "listed")
    /\ Answers(t)
    /\ UNCHANGED <<items, sku, nItem, listing, nListing, sales, sale, nSale, trail, seen>>

\* PUT /api/listings/:id with a status: the columns the request names are
\* updated one by one, without a look at the row.
PutListing(t) ==
    /\ Begins(t, "PutListing")
    /\ \E l \in 1..nListing, s \in Shelf :
         listing' = [listing EXCEPT ![l] = ListingOf(@.item, s, @.sync)]
    /\ UNCHANGED <<items, status, sku, nItem, nListing, sales, sale, nSale, trail, thread, seen>>

\* DELETE /api/listings/:id keeps the row and leaves the item as it is.
DeleteListing(t) ==
    /\ Begins(t, "DeleteListing")
    /\ \E l \in 1..nListing :
         listing' = [listing EXCEPT ![l] = ListingOf(@.item, "removed", @.sync)]
    /\ UNCHANGED <<items, status, sku, nItem, nListing, sales, sale, nSale, trail, thread, seen>>

\* A sync thread reports that a channel has taken the listing: the row gets its
\* external id.  It may be long since it read the row.
Publish ==
    /\ "Publish" \in Ops
    /\ \E l \in 1..nListing :
         listing' = [listing EXCEPT ![l] = ListingOf(@.item, @.shelf, "synced")]
    /\ UNCHANGED <<items, status, sku, nItem, nListing, sales, sale, nSale, trail, thread, seen>>

-----------------------------------------------------------------------------
(***************************************************************************)
(* Sales                                                                   *)
(***************************************************************************)

InsertSale(i, p, c) ==
    /\ nSale < MaxSale
    /\ nSale' = nSale + 1
    /\ sales' = sales \cup {nSale + 1}
    /\ sale' = [sale EXCEPT ![nSale + 1] = SaleOf(i, p, c)]

\* Mutation: the item is marked sold before the sale is entered.
PostSale_MarksFirst(t) ==
    /\ Begins(t, "PostSale")
    /\ \E i \in items : SetStatus(i, "sold")
    /\ UNCHANGED <<items, sku, nItem, listing, nListing, sales, sale, nSale, trail, thread, seen>>

\* POST /api/sales: refused for an item that is not there, not for a sold one.
PostSale(t) ==
    /\ Begins(t, "PostSale")
    /\ \E i \in items, p \in Price, c \in Cost :
         /\ InsertSale(i, p, c)
         /\ Goes(t, "sale_mark", AtItem(i))
    /\ UNCHANGED <<items, status, sku, nItem, listing, nListing, trail, seen>>

PostSaleMark(t) ==
    /\ pc[t] = "sale_mark"
    /\ SetStatus(arg[t].item, "sold")
    /\ Answers(t)
    /\ UNCHANGED <<items, sku, nItem, listing, nListing, sales, sale, nSale, trail, seen>>

\* PUT /api/sales/:id reads the row; what the request does not name keeps the
\* value read.
PutSale(t) ==
    /\ Begins(t, "PutSale")
    /\ \E s \in sales, p \in Price, c \in Cost :
         Goes(t, "amend", AtRow(s, 0, p, c))
    /\ UNCHANGED <<table, trail, seen>>

\* Mutation: only the columns the request names are written, with the net
\* proceeds worked out from the row as it was read.
PutSaleUpdate_NamedColumns(t) ==
    /\ pc[t] = "amend"
    /\ LET a == arg[t]
       IN  sale' = IF a.ref \in sales
                   THEN [sale EXCEPT ![a.ref].price = a.price, ![a.ref].net = a.price - a.cost]
                   ELSE sale
    /\ Answers(t)
    /\ UNCHANGED <<items, status, sku, nItem, listing, nListing, sales, nSale, trail, seen>>

\* Mutation: the row is written back whether or not it is still there.
PutSaleUpdate_Upsert(t) ==
    /\ pc[t] = "amend"
    /\ sales' = sales \cup {arg[t].ref}
    /\ Answers(t)
    /\ UNCHANGED <<items, status, sku, nItem, listing, nListing, sale, nSale, trail, seen>>

PutSaleUpdate(t) ==
    /\ pc[t] = "amend"
    /\ LET a == arg[t]
       IN  sale' = IF a.ref \in sales
                   THEN [sale EXCEPT ![a.ref] = SaleOf(@.item, a.price, a.cost)]
                   ELSE sale
    /\ Answers(t)
    /\ UNCHANGED <<items, status, sku, nItem, listing, nListing, sales, nSale, trail, seen>>

\* DELETE /api/sales/:id (admins): first it looks the item up ...
DeleteSale(t) ==
    /\ Begins(t, "DeleteSale")
    /\ \E s \in sales :
         Goes(t, "void_reset", AtRow(s, sale[s].item, 0, 0))
    /\ UNCHANGED <<table, trail, seen>>

\* Mutation: the item gets a status the schema does not know.
DeleteSaleReset_Available(t) ==
    /\ pc[t] = "void_reset"
    /\ SetStatus(arg[t].item, "available")
    /\ Goes(t, "void_row", arg[t])
    /\ UNCHANGED <<items, sku, nItem, listing, nListing, sales, sale, nSale, trail, seen>>

\* ... then puts it back into inventory, whether or not it has other sales ...
DeleteSaleReset(t) ==
    /\ pc[t] = "void_reset"
    /\ SetStatus(arg[t].item, "inventory")
    /\ Goes(t, "void_row", arg[t])
    /\ UNCHANGED <<items, sku, nItem, listing, nListing, sales, sale, nSale, trail, seen>>

\* ... and then deletes the row.
DeleteSaleRow(t) ==
    /\ pc[t] = "void_row"
    /\ LET s == arg[t].ref
       IN  /\ sales' = sales \ {s}
           /\ sale' = [sale EXCEPT ![s] = NoSale]
           /\ voided' = IF s \in sales THEN voided \cup {arg[t].item} ELSE voided
    /\ Answers(t)
    /\ UNCHANGED <<items, status, sku, nItem, listing, nListing, nSale, trail, declared, born, deletion>>

\* POST /api/sync/webhook/:channel, with auto_mark_sold: the listing with the
\* external id, whatever its status; the sale at its list price; then the item,
\* then the listing.
Webhook(t) ==
    /\ Begins(t, "Webhook")
    /\ \E l \in 1..nListing, p \in Price :
         /\ listing[l].sync # "local"
         /\ Goes(t, "hook_sale", AtRow(l, listing[l].item, p, 0))
    /\ UNCHANGED <<table, trail, seen>>

\* Mutation: the listing is taken off sale before the sale is entered.
WebhookSale_ListingFirst(t) ==
    /\ pc[t] = "hook_sale"
    /\ listing' = [listing EXCEPT ![arg[t].ref] = ListingOf(@.item, @.shelf, "sold")]
    /\ Goes(t, "hook_item", arg[t])
    /\ UNCHANGED <<items, status, sku, nItem, nListing, sales, sale, nSale, trail, seen>>

\* The result of the INSERT is not looked at; a foreign key could refuse it.
WebhookSale(t) ==
    /\ pc[t] = "hook_sale"
    /\ IF arg[t].item \in items
       THEN InsertSale(arg[t].item, arg[t].price, 0)
       ELSE UNCHANGED <<sales, sale, nSale>>
    /\ Goes(t, "hook_item", arg[t])
    /\ UNCHANGED <<items, status, sku, nItem, listing, nListing, trail, seen>>

WebhookItem(t) ==
    /\ pc[t] = "hook_item"
    /\ SetStatus(arg[t].item, "sold")
    /\ Goes(t, "hook_listing", arg[t])
    /\ UNCHANGED <<items, sku, nItem, listing, nListing, sales, sale, nSale, trail, seen>>

WebhookListing(t) ==
    /\ pc[t] = "hook_listing"
    /\ listing' = [listing EXCEPT ![arg[t].ref] = ListingOf(@.item, "sold", "sold")]
    /\ Answers(t)
    /\ UNCHANGED <<items, status, sku, nItem, nListing, sales, sale, nSale, trail, seen>>

-----------------------------------------------------------------------------
(***************************************************************************)
(* The paper trail, the rest of the server, and the end of the process     *)
(***************************************************************************)

\* POST /api/appraisals and DELETE /api/appraisals/:id.
PostAppraisal ==
    /\ "Appraisal" \in Ops
    /\ \E i \in items : appraisals' = appraisals \cup {i}
    /\ UNCHANGED <<table, history, inquiries, thread, seen>>

DeleteAppraisal ==
    /\ "Appraisal" \in Ops
    /\ \E i \in appraisals : appraisals' = appraisals \ {i}
    /\ UNCHANGED <<table, history, inquiries, thread, seen>>

\* POST /api/inquiries reads the listing's item, then inserts.
PostInquiry(t) ==
    /\ Begins(t, "Inquiry")
    /\ \E l \in 1..nListing :
         Goes(t, "inquiry", AtRow(l, listing[l].item, 0, 0))
    /\ UNCHANGED <<table, trail, seen>>

PostInquiryInsert(t) ==
    /\ pc[t] = "inquiry"
    /\ inquiries' = IF arg[t].item \in items THEN inquiries \cup {arg[t].ref} ELSE inquiries
    /\ Answers(t)
    /\ UNCHANGED <<table, history, appraisals, seen>>

\* The process ends between two statements and is started again.
Crash ==
    /\ "Crash" \in Ops
    /\ pc'  = [t \in Thread |-> "idle"]
    /\ arg' = [t \in Thread |-> NoArg]
    /\ UNCHANGED <<table, trail, seen>>

ItemStep(t) ==
    \/ PostItem(t) \/ PostItemId(t) \/ PostItemSku(t) \/ CopyItem(t)
    \/ PutItem(t) \/ PutItemAudit(t) \/ PutItemAuditOther(t) \/ PutItemUpdate(t)
    \/ DeleteItem(t) \/ DeleteItemAppraisals(t) \/ DeleteItemInquiries(t) \/ DeleteItemRow(t)

ListingStep(t) ==
    \/ PostListing(t) \/ PostListingMark(t) \/ PutListing(t) \/ DeleteListing(t)
    \/ PostInquiry(t) \/ PostInquiryInsert(t)

SaleStep(t) ==
    \/ PostSale(t) \/ PostSaleMark(t) \/ PutSale(t) \/ PutSaleUpdate(t)
    \/ DeleteSale(t) \/ DeleteSaleReset(t) \/ DeleteSaleRow(t)
    \/ Webhook(t) \/ WebhookSale(t) \/ WebhookItem(t) \/ WebhookListing(t)

Next ==
    \/ \E t \in Thread : ItemStep(t) \/ ListingStep(t) \/ SaleStep(t)
    \/ Publish \/ PostAppraisal \/ DeleteAppraisal \/ Crash

Spec == Init /\ [][Next]_vars

-----------------------------------------------------------------------------
(***************************************************************************)
(* Properties                                                              *)
(***************************************************************************)

Label ==
    {"idle", "post_id", "post_sku", "put_audit", "put_other", "put_update", "del_appraisals",
     "del_inquiries", "del_row", "list_mark", "inquiry", "sale_mark", "amend",
     "void_reset", "void_row", "hook_sale", "hook_item", "hook_listing"}

Arg == [item : Nat, ref : Nat, old : Status, new : Status, price : Int, cost : Int]

ItemsOK ==
    /\ nItem \in 0..MaxItem
    /\ items \subseteq 1..nItem
    /\ status \in [ItemId -> Status]
    /\ sku \in [ItemId -> 0..MaxItem]

ListingsOK ==
    /\ nListing \in 0..MaxListing
    /\ listing \in [ListingId -> [item : 0..MaxItem, shelf : Shelf, sync : SyncStatus]]

SalesOK ==
    /\ nSale \in 0..MaxSale
    /\ sales \subseteq 1..nSale
    /\ sale \in [SaleId -> [item : 0..MaxItem, price : Int, cost : Int, net : Int]]

TrailOK ==
    /\ history \subseteq ItemId \X (Status \cup {"other"})
    /\ appraisals \subseteq ItemId
    /\ inquiries \subseteq 1..nListing

ThreadOK == pc \in [Thread -> Label] /\ arg \in [Thread -> Arg]

SeenOK ==
    /\ voided \subseteq ItemId /\ declared \subseteq ItemId
    /\ born \in [ItemId -> Status]
    /\ deletion \in [ItemId -> {"none", "asked", "answered"}]

\* Every table, counter and thread holds what the schema and the handlers' local
\* variables can hold.
TypeOK == ItemsOK /\ ListingsOK /\ SalesOK /\ TrailOK /\ ThreadOK /\ SeenOK

\* A listing, a sale, a history row, an appraisal or an inquiry never outlives
\* its item, although DELETE /api/items/:id clears them in separate statements
\* between which other handlers insert new ones (app_items.cpp 291-303).
ReferencesExist ==
    /\ \A l \in 1..nListing : listing[l].item \in items
    /\ \A s \in sales : sale[s].item \in items
    /\ \A h \in history : h[1] \in items
    /\ appraisals \subseteq items

\* The net proceeds of a sale are its price less its costs, although PUT
\* /api/sales/:id works them out from a row it read a statement earlier, which
\* another PUT may have changed since (app_sales.cpp 257-276).
NetProceedsAddUp == \A s \in sales : sale[s].net = sale[s].price - sale[s].cost

\* A generated SKU carries the id of the item it is on, although the id comes
\* from last_insert_id(), which another thread's INSERT into any table changes
\* (app_items.cpp 203-218); so no two items share a SKU.
SkuNamesItem == \A i \in items : sku[i] \in {0, i}

\* A sale of the item is on record, or one was and an admin deleted it.
Entered(i) == (\E s \in sales : sale[s].item = i) \/ i \in voided

\* The reasons an item may be marked sold: a sale, or the word of a client.
SoldWithReason(i) == Entered(i) \/ i \in declared

\* No interleaving and no crash leaves an item sold without a reason: a sale is
\* on record before its item is marked (POST /api/sales and the webhook).
SoldItemsHaveSales == \A i \in items : status[i] = "sold" => SoldWithReason(i)

\* Nor a listing that the webhook took off its channel (app_sync.cpp 599-611).
SoldListingsHaveSales ==
    \A l \in 1..nListing : listing[l].sync = "sold" => Entered(listing[l].item)

\* What accounts for an item's having status `s': its history tells of it, its INSERT
\* gave it, a listing or a sale brought it about, or a sale's deletion put it back.
\* A DELETE of the item that was refused has cleared the history all the same.
Accounted(i, s) ==
    \/ <<i, s>> \in history
    \/ s = born[i]
    \/ s = "listed" /\ \E l \in 1..nListing : listing[l].item = i
    \/ s \in {"sold", "inventory"} /\ Entered(i)
    \/ deletion[i] # "none"

\* No item has a status that nothing on record accounts for.  PUT /api/items/:id tells
\* item_history of a change before it makes it, and when it writes back over another
\* thread's change the status it read, of which no history tells (app_items.cpp 242-266),
\* then that is at least one the item had.
StatusesAreAccountedFor == \A i \in items : Accounted(i, status[i])

\* What the reports that add up the sales see of them: a SalesLedger.
Book ==
    [s \in 1..nSale |->
        IF s \in sales
        THEN [kept |-> TRUE, item |-> sale[s].item, price |-> sale[s].price,
              cost |-> sale[s].cost, net |-> sale[s].net]
        ELSE [kept |-> FALSE]]

Ledger == INSTANCE SalesLedger WITH Item <- ItemId, book <- Book

\* The sales table is a ledger under any interleaving: a sale is entered once, it is
\* amended only while it is there, keeps its item and never comes back once deleted
\* (app_sales.cpp 83-112, 251-294, app_sync.cpp 599-603).
LedgerSpec == Ledger!Spec
=============================================================================
