-------------------------- MODULE Marketplace_proofs --------------------------
(***************************************************************************)
(* Proofs about Marketplace, for any number of threads, items, listings    *)
(* and sales, any prices and any selection of operations.                  *)
(***************************************************************************)
EXTENDS Marketplace, SequenceTheorems, TLAPS

Putting == {"put_audit", "put_other", "put_update"}
Voiding == {"void_reset", "void_row"}
Hooking == {"hook_sale", "hook_item", "hook_listing"}

(***************************************************************************)
(* What a thread between two statements may rely on, whatever the other    *)
(* threads do: the ids it read are ids that have been given out, a listing *)
(* stays with its item, and a sale does while it is there.                 *)
(***************************************************************************)
Held(t) ==
    /\ pc[t] \in Putting => arg[t].item \in 1..nItem
    /\ pc[t] = "inquiry" => arg[t].ref \in 1..nListing
    /\ pc[t] = "amend" => arg[t].price \in Price /\ arg[t].cost \in Cost
    /\ pc[t] \in Voiding =>
         /\ arg[t].ref \in 1..nSale
         /\ arg[t].ref \in sales => sale[arg[t].ref].item = arg[t].item
    /\ pc[t] \in Hooking =>
         /\ arg[t].ref \in 1..nListing
         /\ listing[arg[t].ref].item = arg[t].item
         /\ arg[t].price \in Price

HoldingOK == \A t \in Thread : Held(t)

(***************************************************************************)
(* A thread that moves on holds what its handler puts there, and the other *)
(* threads hold what they held.                                            *)
(***************************************************************************)
LEMMA LocalIsArg ==
  ASSUME NEW i \in Nat, NEW r \in Nat, NEW old \in Status, NEW new \in Status,
         NEW p \in Int, NEW c \in Int
  PROVE  /\ Local(i, r, old, new, p, c) \in Arg
         /\ AtItem(i) \in Arg /\ Editing(i, old, new) \in Arg /\ AtRow(r, i, p, c) \in Arg
  BY DEF Local, AtItem, Editing, AtRow, Arg, Status

LEMMA GoesOn ==
  ASSUME pc \in [Thread -> Label], arg \in [Thread -> Arg],
         NEW t \in Thread, NEW label \in Label, NEW a \in Arg, Goes(t, label, a)
  PROVE  /\ pc' \in [Thread -> Label] /\ arg' \in [Thread -> Arg]
         /\ pc'[t] = label /\ arg'[t] = a
         /\ \A u \in Thread \ {t} : pc'[u] = pc[u] /\ arg'[u] = arg[u]
  BY DEF Goes

LEMMA AnswersOn ==
  ASSUME pc \in [Thread -> Label], arg \in [Thread -> Arg], NEW t \in Thread, Answers(t)
  PROVE  /\ pc' \in [Thread -> Label] /\ arg' \in [Thread -> Arg]
         /\ pc'[t] = "idle" /\ arg'[t] = NoArg
         /\ \A u \in Thread \ {t} : pc'[u] = pc[u] /\ arg'[u] = arg[u]
<1>1. NoArg \in Arg /\ "idle" \in Label
  BY LocalIsArg DEF NoArg, Label, Status
<1> QED
  BY <1>1, GoesOn DEF Answers

LEMMA InitTypeOK == Init => TypeOK
<1> SUFFICES ASSUME Init PROVE TypeOK
  OBVIOUS
<1> USE MarketplaceAssumption DEF Init
<1>1. ItemsOK
  BY DEF ItemsOK, ItemId, Status
<1>2. ListingsOK
  BY DEF ListingsOK, NoListing, ListingOf, ListingId, Shelf, SyncStatus
<1>3. SalesOK
  BY DEF SalesOK, NoSale, SaleOf, SaleId
<1>4. TrailOK
  BY DEF TrailOK
<1>5. ThreadOK
  BY LocalIsArg DEF ThreadOK, Label, Status, NoArg
<1>6. SeenOK
  BY DEF SeenOK, ItemId, Status
<1> QED
  BY <1>1, <1>2, <1>3, <1>4, <1>5, <1>6 DEF TypeOK

LEMMA ItemsAreIds == ASSUME ItemsOK PROVE items \subseteq 0..MaxItem /\ items \subseteq ItemId
  BY MarketplaceAssumption DEF ItemsOK, ItemId

LEMMA SalesAreIds == ASSUME SalesOK PROVE sales \subseteq SaleId
  BY MarketplaceAssumption DEF SalesOK, SaleId

LEMMA ListingsAreIds == ASSUME ListingsOK PROVE 1..nListing \subseteq ListingId
  BY MarketplaceAssumption DEF ListingsOK, ListingId

(***************************************************************************)
(* The tables of items: the inserts count, a status is written by five     *)
(* statements, and nothing else touches them.                              *)
(***************************************************************************)
LEMMA SetStatusTyped ==
  ASSUME ItemsOK, NEW i, NEW s \in Status, SetStatus(i, s), UNCHANGED <<items, sku, nItem>>
  PROVE  ItemsOK'
  BY MarketplaceAssumption DEF ItemsOK, SetStatus, ItemId

LEMMA InsertItemTyped ==
  ASSUME ItemsOK, NEW s \in Status, InsertItem(s), UNCHANGED sku
  PROVE  ItemsOK'
  BY MarketplaceAssumption DEF ItemsOK, InsertItem, ItemId

LEMMA ItemsOKStep == ASSUME TypeOK, Next PROVE ItemsOK'
<1> USE DEF TypeOK
<1>1. ASSUME NEW t \in Thread, PostItem(t) PROVE ItemsOK'
  <2>1. CASE \E s \in Written \cup {"inventory"} : InsertItem(s)
    BY <1>1, <2>1, InsertItemTyped, MarketplaceAssumption DEF PostItem, Status
  <2>2. CASE UNCHANGED <<items, status, nItem>>
    BY <1>1, <2>2 DEF PostItem, ItemsOK
  <2> QED
    BY <1>1, <2>1, <2>2 DEF PostItem
<1>2. ASSUME NEW t \in Thread, CopyItem(t) PROVE ItemsOK'
  BY <1>2, InsertItemTyped DEF CopyItem, Status
<1>3. ASSUME NEW t \in Thread, PostItemSku(t) PROVE ItemsOK'
  <2> DEFINE i == arg[t].item
  <2>1. sku' = IF i \in items /\ sku[i] = 0 THEN [sku EXCEPT ![i] = i] ELSE sku
    BY <1>3 DEF PostItemSku
  <2>2. i \in items => i \in 0..MaxItem
    BY ItemsAreIds
  <2> HIDE DEF i
  <2>3. sku' \in [ItemId -> 0..MaxItem]
    BY <2>1, <2>2 DEF ItemsOK
  <2> QED
    BY <1>3, <2>3 DEF PostItemSku, ItemsOK
<1>4. ASSUME NEW t \in Thread, PutItemUpdate(t) PROVE ItemsOK'
  <2>1. arg[t].new \in Status
    BY DEF ThreadOK, Arg
  <2> QED
    BY <1>4, <2>1, SetStatusTyped DEF PutItemUpdate
<1>5. ASSUME NEW t \in Thread,
             \/ PostListingMark(t) \/ PostSaleMark(t) \/ DeleteSaleReset(t) \/ WebhookItem(t)
      PROVE  ItemsOK'
  BY <1>5, SetStatusTyped
  DEF PostListingMark, PostSaleMark, DeleteSaleReset, WebhookItem, Status
<1>6. ASSUME NEW t \in Thread, DeleteItemRow(t) PROVE ItemsOK'
  BY <1>6 DEF DeleteItemRow, ItemsOK
<1>7. ASSUME UNCHANGED <<items, status, sku, nItem>> PROVE ItemsOK'
  BY <1>7 DEF ItemsOK
<1> QED
  BY <1>1, <1>2, <1>3, <1>4, <1>5, <1>6, <1>7
  DEF Next, ItemStep, ListingStep, SaleStep, PostItemId, PutItem, PutItemAudit,
      PutItemAuditOther, DeleteItem, DeleteItemAppraisals, DeleteItemInquiries,
      PostListing, PutListing, DeleteListing, Publish, PostSale, PutSale, PutSaleUpdate,
      DeleteSale, DeleteSaleRow, Webhook, WebhookSale, WebhookListing, PostAppraisal,
      DeleteAppraisal, PostInquiry, PostInquiryInsert, Crash, table

(***************************************************************************)
(* The other tables, the trail and the observers, in the same way.         *)
(***************************************************************************)
LEMMA ListingTyped ==
  ASSUME NEW i \in 0..MaxItem, NEW s \in Shelf, NEW y \in SyncStatus
  PROVE  ListingOf(i, s, y) \in [item : 0..MaxItem, shelf : Shelf, sync : SyncStatus]
  BY DEF ListingOf

LEMMA ListingsOKStep == ASSUME TypeOK, Next PROVE ListingsOK'
<1> USE DEF TypeOK
<1>1. ASSUME NEW t \in Thread, PostListing(t) PROVE ListingsOK'
  <2>1. PICK i \in items : listing' = [listing EXCEPT ![nListing + 1] =
                                          ListingOf(i, "active", "local")]
    BY <1>1 DEF PostListing
  <2>2. i \in 0..MaxItem
    BY ItemsAreIds
  <2>3. ListingOf(i, "active", "local") \in [item : 0..MaxItem, shelf : Shelf, sync : SyncStatus]
    BY <2>2, ListingTyped DEF Shelf, SyncStatus
  <2>4. nListing' \in 0..MaxListing
    BY <1>1, MarketplaceAssumption DEF PostListing, ListingsOK
  <2> QED
    BY <2>1, <2>3, <2>4 DEF ListingsOK
<1>2. ASSUME NEW l, NEW s \in Shelf, NEW y \in SyncStatus, UNCHANGED nListing,
             \/ listing' = [listing EXCEPT ![l] = ListingOf(@.item, s, @.sync)]
             \/ listing' = [listing EXCEPT ![l] = ListingOf(@.item, @.shelf, y)]
             \/ listing' = [listing EXCEPT ![l] = ListingOf(@.item, s, y)]
      PROVE  ListingsOK'
  <2>1. CASE l \in ListingId
    <3> DEFINE r == listing[l]
    <3>1. r.item \in 0..MaxItem /\ r.shelf \in Shelf /\ r.sync \in SyncStatus
      BY <2>1 DEF ListingsOK
    <3>2. /\ ListingOf(r.item, s, r.sync) \in [item : 0..MaxItem, shelf : Shelf, sync : SyncStatus]
          /\ ListingOf(r.item, r.shelf, y) \in [item : 0..MaxItem, shelf : Shelf, sync : SyncStatus]
          /\ ListingOf(r.item, s, y) \in [item : 0..MaxItem, shelf : Shelf, sync : SyncStatus]
      BY <3>1, ListingTyped
    <3> QED
      BY <1>2, <3>2 DEF ListingsOK
  <2>2. CASE l \notin ListingId
    BY <1>2, <2>2 DEF ListingsOK
  <2> QED
    BY <2>1, <2>2
<1>3. ASSUME NEW t \in Thread, PutListing(t) \/ DeleteListing(t) \/ Publish \/ WebhookListing(t)
      PROVE  ListingsOK'
  BY <1>2, <1>3 DEF PutListing, DeleteListing, Publish, WebhookListing, Shelf, SyncStatus
<1>4. ASSUME Publish PROVE ListingsOK'
  BY <1>2, <1>4 DEF Publish, Shelf, SyncStatus
<1>5. ASSUME UNCHANGED <<listing, nListing>> PROVE ListingsOK'
  BY <1>5 DEF ListingsOK
<1> QED
  BY <1>1, <1>3, <1>4, <1>5
  DEF Next, ItemStep, ListingStep, SaleStep, PostItem, PostItemId, PostItemSku, CopyItem,
      PutItem, PutItemAudit, PutItemAuditOther, PutItemUpdate, DeleteItem,
      DeleteItemAppraisals, DeleteItemInquiries, DeleteItemRow, PostListingMark, PostSale,
      PostSaleMark, PutSale, PutSaleUpdate, DeleteSale, DeleteSaleReset, DeleteSaleRow,
      Webhook, WebhookSale, WebhookItem, PostAppraisal, DeleteAppraisal, PostInquiry,
      PostInquiryInsert, Crash, table

LEMMA SaleTyped ==
  ASSUME NEW i \in 0..MaxItem, NEW p \in Int, NEW c \in Int
  PROVE  SaleOf(i, p, c) \in [item : 0..MaxItem, price : Int, cost : Int, net : Int]
  BY DEF SaleOf

LEMMA InsertSaleTyped ==
  ASSUME SalesOK, NEW i \in 0..MaxItem, NEW p \in Int, NEW c \in Int, InsertSale(i, p, c)
  PROVE  SalesOK'
<1>1. SaleOf(i, p, c) \in [item : 0..MaxItem, price : Int, cost : Int, net : Int]
  BY SaleTyped
<1>2. sale' \in [SaleId -> [item : 0..MaxItem, price : Int, cost : Int, net : Int]]
  BY <1>1 DEF InsertSale, SalesOK
<1>3. nSale' \in 0..MaxSale /\ sales' \subseteq 1..nSale'
  BY MarketplaceAssumption DEF InsertSale, SalesOK
<1> QED
  BY <1>2, <1>3 DEF SalesOK

LEMMA SalesOKStep == ASSUME TypeOK, Next PROVE SalesOK'
<1> USE DEF TypeOK
<1>0. items \subseteq 0..MaxItem
  BY ItemsAreIds
<1>1. ASSUME NEW t \in Thread, PostSale(t) PROVE SalesOK'
  BY <1>0, <1>1, InsertSaleTyped, MarketplaceAssumption DEF PostSale
<1>2. ASSUME NEW t \in Thread, PutSaleUpdate(t) PROVE SalesOK'
  <2> DEFINE a == arg[t]
  <2>1. a.price \in Int /\ a.cost \in Int
    BY DEF ThreadOK, Arg
  <2>2. CASE a.ref \in sales
    <3>1. a.ref \in SaleId
      BY <2>2, SalesAreIds
    <3>2. sale[a.ref].item \in 0..MaxItem
      BY <3>1 DEF SalesOK
    <3>3. SaleOf(sale[a.ref].item, a.price, a.cost)
            \in [item : 0..MaxItem, price : Int, cost : Int, net : Int]
      BY <2>1, <3>2, SaleTyped
    <3>4. sale' = [sale EXCEPT ![a.ref] = SaleOf(sale[a.ref].item, a.price, a.cost)]
      BY <1>2, <2>2 DEF PutSaleUpdate
    <3> QED
      BY <1>2, <3>3, <3>4 DEF PutSaleUpdate, SalesOK
  <2>3. CASE a.ref \notin sales
    BY <1>2, <2>3 DEF PutSaleUpdate, SalesOK
  <2> QED
    BY <2>2, <2>3
<1>3. ASSUME NEW t \in Thread, DeleteSaleRow(t) PROVE SalesOK'
  <2>1. NoSale \in [item : 0..MaxItem, price : Int, cost : Int, net : Int]
    BY SaleTyped, MarketplaceAssumption DEF NoSale
  <2> QED
    BY <1>3, <2>1 DEF DeleteSaleRow, SalesOK
<1>4. ASSUME NEW t \in Thread, WebhookSale(t) PROVE SalesOK'
  <2>1. CASE arg[t].item \in items
    <3>1. arg[t].price \in Int
      BY DEF ThreadOK, Arg
    <3>2. InsertSale(arg[t].item, arg[t].price, 0)
      BY <1>4, <2>1 DEF WebhookSale
    <3>3. arg[t].item \in 0..MaxItem
      BY <1>0, <2>1
    <3> QED
      BY <3>1, <3>2, <3>3, InsertSaleTyped
  <2>2. CASE arg[t].item \notin items
    BY <1>4, <2>2 DEF WebhookSale, SalesOK
  <2> QED
    BY <2>1, <2>2
<1>5. ASSUME UNCHANGED <<sales, sale, nSale>> PROVE SalesOK'
  BY <1>5 DEF SalesOK
<1> QED
  BY <1>1, <1>2, <1>3, <1>4, <1>5
  DEF Next, ItemStep, ListingStep, SaleStep, PostItem, PostItemId, PostItemSku, CopyItem,
      PutItem, PutItemAudit, PutItemAuditOther, PutItemUpdate, DeleteItem,
      DeleteItemAppraisals, DeleteItemInquiries, DeleteItemRow, PostListing,
      PostListingMark, PutListing, DeleteListing, Publish, PostSaleMark, PutSale,
      DeleteSale, DeleteSaleReset, Webhook, WebhookItem, WebhookListing, PostAppraisal,
      DeleteAppraisal, PostInquiry, PostInquiryInsert, Crash, table

LEMMA TrailOKStep == ASSUME TypeOK, ReferencesExist, HoldingOK, Next PROVE TrailOK'
<1> USE DEF TypeOK
<1>0. items \subseteq ItemId
  BY ItemsAreIds
<1>1. ASSUME NEW t \in Thread, PutItemAudit(t) PROVE TrailOK'
  <2>1. arg[t].new \in Status
    BY DEF ThreadOK, Arg
  <2>2. arg[t].item \in items => arg[t].item \in ItemId
    BY <1>0
  <2> QED
    BY <1>1, <2>1, <2>2 DEF PutItemAudit, AuditChange, TrailOK, table
<1>2. ASSUME NEW t \in Thread, PutItemAuditOther(t) PROVE TrailOK'
  <2>1. arg[t].item \in items => arg[t].item \in ItemId
    BY <1>0
  <2> QED
    BY <1>2, <2>1 DEF PutItemAuditOther, AuditChange, TrailOK, table
<1>3. ASSUME NEW t \in Thread,
             DeleteItem(t) \/ DeleteItemAppraisals(t) \/ DeleteItemInquiries(t)
      PROVE  TrailOK'
  BY <1>3 DEF DeleteItem, DeleteItemAppraisals, DeleteItemInquiries, TrailOK, table
<1>4. ASSUME NEW t \in Thread, PostListing(t) PROVE TrailOK'
  BY <1>4 DEF PostListing, TrailOK, trail, ListingsOK
<1>5. ASSUME NEW t \in Thread, PostInquiryInsert(t) PROVE TrailOK'
  BY <1>5 DEF PostInquiryInsert, TrailOK, table, HoldingOK, Held
<1>6. ASSUME PostAppraisal \/ DeleteAppraisal PROVE TrailOK'
  BY <1>0, <1>6 DEF PostAppraisal, DeleteAppraisal, TrailOK, table
<1>7. ASSUME UNCHANGED <<trail, nListing>> PROVE TrailOK'
  BY <1>7 DEF TrailOK, trail
<1> QED
  BY <1>1, <1>2, <1>3, <1>4, <1>5, <1>6, <1>7
  DEF Next, ItemStep, ListingStep, SaleStep, PostItem, PostItemId, PostItemSku, CopyItem,
      PutItem, PutItemUpdate, DeleteItemRow, PostListingMark, PutListing, DeleteListing,
      Publish, PostSale, PostSaleMark, PutSale, PutSaleUpdate, DeleteSale, DeleteSaleReset,
      DeleteSaleRow, Webhook, WebhookSale, WebhookItem, WebhookListing, PostInquiry, Crash,
      table, trail

LEMMA SeenOKStep == ASSUME TypeOK, ReferencesExist, HoldingOK, Next PROVE SeenOK'
<1> USE DEF TypeOK
<1>0. items \subseteq ItemId
  BY ItemsAreIds
<1>1. ASSUME NEW s \in Status, InsertItem(s), UNCHANGED <<voided, deletion>> PROVE SeenOK'
  BY <1>1, MarketplaceAssumption DEF InsertItem, SeenOK, ItemsOK, ItemId
<1>2. ASSUME NEW t \in Thread, PostItem(t) \/ CopyItem(t) PROVE SeenOK'
  <2>1. Written \cup {"inventory"} \subseteq Status
    BY MarketplaceAssumption DEF Status
  <2> QED
    BY <1>1, <1>2, <2>1 DEF PostItem, CopyItem, SeenOK
<1>3. ASSUME NEW t \in Thread, PutItem(t) PROVE SeenOK'
  BY <1>0, <1>3 DEF PutItem, SeenOK
<1>4. ASSUME NEW t \in Thread, DeleteItem(t) PROVE SeenOK'
  BY <1>4 DEF DeleteItem, SeenOK
<1>5. ASSUME NEW t \in Thread, DeleteItemRow(t) PROVE SeenOK'
  BY <1>5 DEF DeleteItemRow, SeenOK
<1>6. ASSUME NEW t \in Thread, DeleteSaleRow(t) PROVE SeenOK'
  <2>1. arg[t].ref \in sales => arg[t].item \in ItemId
    BY <1>0, <1>6 DEF DeleteSaleRow, HoldingOK, Held, Voiding, ReferencesExist
  <2> QED
    BY <1>6, <2>1 DEF DeleteSaleRow, SeenOK
<1>7. ASSUME UNCHANGED seen PROVE SeenOK'
  BY <1>7 DEF SeenOK, seen
<1> QED
  BY <1>2, <1>3, <1>4, <1>5, <1>6, <1>7
  DEF Next, ItemStep, ListingStep, SaleStep, PostItemId, PostItemSku,
      PutItemAudit, PutItemAuditOther, PutItemUpdate, DeleteItemAppraisals,
      DeleteItemInquiries, PostListing, PostListingMark, PutListing, DeleteListing,
      Publish, PostSale, PostSaleMark, PutSale, PutSaleUpdate, DeleteSale,
      DeleteSaleReset, Webhook, WebhookSale, WebhookItem, WebhookListing, PostAppraisal,
      DeleteAppraisal, PostInquiry, PostInquiryInsert, Crash

(***************************************************************************)
(* The threads: a step moves one thread to a label, with a handful of      *)
(* local variables, or a crash sends them all home.                        *)
(***************************************************************************)
Moves(t) == \E label \in Label, a \in Arg : Goes(t, label, a)

LEMMA ThreadOKStep == ASSUME TypeOK, Next PROVE ThreadOK'
<1> USE DEF TypeOK
<1>0. /\ items \subseteq Nat /\ sales \subseteq Nat /\ 1..nListing \subseteq Nat
      /\ \A i \in items : status[i] \in Status
      /\ \A s \in sales : sale[s].item \in Nat
      /\ \A l \in 1..nListing : listing[l].item \in Nat
  <2>1. /\ items \subseteq ItemId /\ sales \subseteq SaleId /\ 1..nListing \subseteq ListingId
        /\ ItemId \subseteq Nat /\ SaleId \subseteq Nat /\ ListingId \subseteq Nat
        /\ 0..MaxItem \subseteq Nat
    BY ItemsAreIds, SalesAreIds, ListingsAreIds DEF ItemId, SaleId, ListingId
  <2>2. /\ \A s \in SaleId : sale[s].item \in 0..MaxItem
        /\ \A l \in ListingId : listing[l].item \in 0..MaxItem
        /\ \A i \in ItemId : status[i] \in Status
    BY DEF SalesOK, ListingsOK, ItemsOK
  <2> QED
    BY <2>1, <2>2
<1>1. ASSUME NEW t \in Thread, Moves(t) PROVE ThreadOK'
  BY <1>1, GoesOn DEF ThreadOK, Moves
<1>2. ASSUME NEW t \in Thread, Answers(t) PROVE ThreadOK'
  BY <1>2, AnswersOn DEF ThreadOK
<1>3. NoArg \in Arg
  BY LocalIsArg DEF NoArg, Status
<1>4. ASSUME NEW t \in Thread, arg[t] \in Arg,
             \/ PutItemAudit(t) \/ PutItemAuditOther(t) \/ DeleteItemAppraisals(t)
             \/ DeleteItemInquiries(t) \/ DeleteSaleReset(t) \/ WebhookSale(t) \/ WebhookItem(t)
      PROVE  Moves(t)
  BY <1>4
  DEF Moves, Label, PutItemAudit, PutItemAuditOther, DeleteItemAppraisals,
      DeleteItemInquiries, DeleteSaleReset, WebhookSale, WebhookItem
<1>5. ASSUME NEW t \in Thread,
             \/ PostItem(t) \/ PostItemId(t) \/ DeleteItem(t) \/ PostListing(t) \/ PostSale(t)
      PROVE  Moves(t)
  <2>1. \A i \in Nat : AtItem(i) \in Arg
    BY LocalIsArg DEF Status
  <2>2. 0..MaxItem \subseteq Nat /\ ItemId \subseteq Nat
    BY DEF ItemId
  <2> QED
    BY <1>0, <1>3, <1>5, <2>1, <2>2
    DEF Moves, Label, PostItem, PostItemId, DeleteItem, PostListing, PostSale
<1>6. ASSUME NEW t \in Thread, PutItem(t) PROVE Moves(t)
  <2>1. \A i \in Nat, old \in Status, new \in Status : Editing(i, old, new) \in Arg
    BY LocalIsArg
  <2> QED
    BY <1>0, <1>6, <2>1, MarketplaceAssumption DEF Moves, Label, PutItem
<1>7. ASSUME NEW t \in Thread,
             PutSale(t) \/ DeleteSale(t) \/ Webhook(t) \/ PostInquiry(t)
      PROVE  Moves(t)
  <2>1. \A r \in Nat, i \in Nat, p \in Int, c \in Int : AtRow(r, i, p, c) \in Arg
    BY LocalIsArg DEF Status
  <2> QED
    BY <1>0, <1>7, <2>1, MarketplaceAssumption
    DEF Moves, Label, PutSale, DeleteSale, Webhook, PostInquiry
<1>8. ASSUME Crash PROVE ThreadOK'
  BY <1>3, <1>8 DEF Crash, ThreadOK, Label
<1>9. ASSUME UNCHANGED thread PROVE ThreadOK'
  BY <1>9 DEF thread, ThreadOK
<1>10. ASSUME NEW t \in Thread PROVE arg[t] \in Arg
  BY DEF ThreadOK
<1> QED
  BY <1>1, <1>2, <1>4, <1>5, <1>6, <1>7, <1>8, <1>9, <1>10
  DEF Next, ItemStep, ListingStep, SaleStep, PostItemSku, CopyItem, PutItemUpdate,
      DeleteItemRow, PostListingMark, PutListing, DeleteListing, Publish, PostSaleMark,
      PutSaleUpdate, DeleteSaleRow, WebhookListing, PostAppraisal, DeleteAppraisal,
      PostInquiryInsert

LEMMA TypeOKStep == ASSUME TypeOK, ReferencesExist, HoldingOK, [Next]_vars PROVE TypeOK'
<1>1. CASE Next
  BY <1>1, ItemsOKStep, ListingsOKStep, SalesOKStep, TrailOKStep, SeenOKStep, ThreadOKStep
  DEF TypeOK
<1>2. CASE UNCHANGED vars
  BY <1>2
  DEF vars, table, trail, thread, seen, TypeOK, ItemsOK, ListingsOK, SalesOK, TrailOK,
      ThreadOK, SeenOK
<1> QED
  BY <1>1, <1>2

(***************************************************************************)
(* The rows that refer to items.  A step that enters a row has an item to  *)
(* enter it for, and the one that deletes an item looks for such rows.     *)
(***************************************************************************)
LEMMA ReferencesExistStep ==
  ASSUME TypeOK, ReferencesExist, HoldingOK, [Next]_vars PROVE ReferencesExist'
<1> USE DEF TypeOK, ReferencesExist
<1>0. ASSUME items \subseteq items', UNCHANGED <<listing, nListing, sales, sale, history, appraisals>>
      PROVE  ReferencesExist'
  BY <1>0
<1>1. ASSUME NEW t \in Thread, PostItem(t) \/ CopyItem(t) PROVE ReferencesExist'
  BY <1>0, <1>1 DEF PostItem, CopyItem, InsertItem, trail
<1>2. ASSUME NEW t \in Thread, PutItemAudit(t) \/ PutItemAuditOther(t) PROVE ReferencesExist'
  BY <1>2 DEF PutItemAudit, PutItemAuditOther, AuditChange, table
<1>3. ASSUME NEW t \in Thread,
             DeleteItem(t) \/ DeleteItemAppraisals(t) \/ DeleteItemInquiries(t)
      PROVE  ReferencesExist'
  BY <1>3 DEF DeleteItem, DeleteItemAppraisals, DeleteItemInquiries, table
<1>4. ASSUME NEW t \in Thread, DeleteItemRow(t) PROVE ReferencesExist'
  BY <1>4 DEF DeleteItemRow, Referenced, trail
<1>5. ASSUME NEW t \in Thread, PostListing(t) PROVE ReferencesExist'
  <2>1. PICK i \in items : listing' = [listing EXCEPT ![nListing + 1] =
                                          ListingOf(i, "active", "local")]
    BY <1>5 DEF PostListing
  <2>2. nListing + 1 \in ListingId /\ nListing \in Nat
    BY <1>5, MarketplaceAssumption DEF PostListing, ListingId, ListingsOK
  <2>3. listing'[nListing + 1].item = i
    BY <2>1, <2>2 DEF ListingsOK, ListingOf
  <2>4. \A l \in 1..nListing : listing'[l].item = listing[l].item
    BY <2>1, <2>2, ListingsAreIds DEF ListingsOK
  <2>5. \A l \in 1..nListing' : l \in 1..nListing \/ l = nListing + 1
    BY <1>5, <2>2 DEF PostListing
  <2>6. UNCHANGED <<items, sales, sale, history, appraisals>>
    BY <1>5 DEF PostListing, trail
  <2> QED
    BY <2>3, <2>4, <2>5, <2>6
<1>6. ASSUME NEW l, NEW s, NEW y, UNCHANGED <<items, nListing, sales, sale, trail>>,
             listing' = [listing EXCEPT ![l] = ListingOf(listing[l].item, s, y)]
      PROVE  ReferencesExist'
  <2>1. \A k \in 1..nListing : listing'[k].item = listing[k].item
    BY <1>6, ListingsAreIds DEF ListingsOK, ListingOf
  <2> QED
    BY <1>6, <2>1 DEF trail
<1>7. ASSUME NEW t \in Thread, PutListing(t) \/ DeleteListing(t) \/ WebhookListing(t)
      PROVE  ReferencesExist'
  BY <1>6, <1>7 DEF PutListing, DeleteListing, WebhookListing
<1>8. ASSUME Publish PROVE ReferencesExist'
  BY <1>6, <1>8 DEF Publish
<1>9. ASSUME NEW i \in items, NEW p, NEW c, InsertSale(i, p, c),
             UNCHANGED <<items, listing, nListing, trail>>
      PROVE  ReferencesExist'
  <2>1. nSale + 1 \in SaleId /\ nSale + 1 \notin sales
    BY <1>9, MarketplaceAssumption DEF InsertSale, SalesOK, SaleId
  <2>2. sale'[nSale + 1].item = i
    BY <1>9, <2>1 DEF InsertSale, SalesOK, SaleOf
  <2>3. \A s \in sales : sale'[s].item = sale[s].item
    BY <1>9, <2>1, SalesAreIds DEF InsertSale, SalesOK
  <2> QED
    BY <1>9, <2>2, <2>3 DEF InsertSale, trail
<1>10. ASSUME NEW t \in Thread, PostSale(t) PROVE ReferencesExist'
  BY <1>9, <1>10 DEF PostSale
<1>11. ASSUME NEW t \in Thread, WebhookSale(t) PROVE ReferencesExist'
  <2>1. CASE arg[t].item \in items
    BY <1>9, <1>11, <2>1 DEF WebhookSale
  <2>2. CASE arg[t].item \notin items
    BY <1>0, <1>11, <2>2 DEF WebhookSale, trail
  <2> QED
    BY <2>1, <2>2
<1>12. ASSUME NEW t \in Thread, PutSaleUpdate(t) PROVE ReferencesExist'
  <2>1. \A s \in sales : sale'[s].item = sale[s].item
    BY <1>12, SalesAreIds DEF PutSaleUpdate, SalesOK, SaleOf
  <2> QED
    BY <1>12, <2>1 DEF PutSaleUpdate, trail
<1>13. ASSUME NEW t \in Thread, DeleteSaleRow(t) PROVE ReferencesExist'
  <2>1. \A s \in sales' : s \in sales /\ sale'[s].item = sale[s].item
    BY <1>13, SalesAreIds DEF DeleteSaleRow, SalesOK
  <2> QED
    BY <1>13, <2>1 DEF DeleteSaleRow, trail
<1>14. ASSUME PostAppraisal \/ DeleteAppraisal PROVE ReferencesExist'
  BY <1>14 DEF PostAppraisal, DeleteAppraisal, table
<1> QED
  BY <1>0, <1>1, <1>2, <1>3, <1>4, <1>5, <1>7, <1>8, <1>10, <1>11, <1>12, <1>13, <1>14
  DEF Next, ItemStep, ListingStep, SaleStep, PostItemId, PostItemSku, PutItem,
      PutItemUpdate, PostListingMark, PostSale, PostSaleMark, PutSale, DeleteSale,
      DeleteSaleReset, Webhook, WebhookItem, PostInquiry, PostInquiryInsert, Crash,
      vars, table, trail

(***************************************************************************)
(* What no step takes away from a thread that waits.                       *)
(***************************************************************************)
Keeps ==
    /\ nItem <= nItem' /\ nListing <= nListing' /\ nSale <= nSale'
    /\ \A l \in 1..nListing : listing'[l].item = listing[l].item
    /\ \A s \in 1..nSale : s \in sales' => s \in sales /\ sale'[s].item = sale[s].item

LEMMA KeepsStep == ASSUME TypeOK, Next PROVE Keeps
<1> USE DEF TypeOK
<1>0. nItem \in Nat /\ nListing \in Nat /\ nSale \in Nat
  BY DEF ItemsOK, ListingsOK, SalesOK
<1>1. nItem <= nItem'
  <2>1. nItem' = nItem \/ nItem' = nItem + 1
    BY DEF Next, ItemStep, ListingStep, SaleStep, PostItem, InsertItem, PostItemId,
      PostItemSku, CopyItem, PutItem, PutItemAudit, PutItemAuditOther, PutItemUpdate,
      DeleteItem, DeleteItemAppraisals, DeleteItemInquiries, DeleteItemRow, PostListing,
      PostListingMark, PutListing, DeleteListing, Publish, PostSale, PostSaleMark, PutSale,
      PutSaleUpdate, DeleteSale, DeleteSaleReset, DeleteSaleRow, Webhook, WebhookSale,
      WebhookItem, WebhookListing, PostAppraisal, DeleteAppraisal, PostInquiry,
      PostInquiryInsert, Crash, table
  <2> QED
    BY <1>0, <2>1
<1>2. nListing <= nListing' /\ \A l \in 1..nListing : listing'[l].item = listing[l].item
  <2> DEFINE L == /\ nListing <= nListing'
                  /\ \A l \in 1..nListing : listing'[l].item = listing[l].item
  <2>1. ASSUME NEW t \in Thread, PostListing(t)
        PROVE  L
    <3>1. PICK i \in items : listing' = [listing EXCEPT ![nListing + 1] =
                                            ListingOf(i, "active", "local")]
      BY <2>1 DEF PostListing
    <3>2. nListing' = nListing + 1
      BY <2>1 DEF PostListing
    <3> QED
      BY <1>0, <3>1, <3>2, ListingsAreIds DEF ListingsOK
  <2>2. ASSUME NEW l, NEW s, NEW y, nListing' = nListing,
               listing' = [listing EXCEPT ![l] = ListingOf(listing[l].item, s, y)]
        PROVE  L
    BY <1>0, <2>2, ListingsAreIds DEF ListingsOK, ListingOf
  <2> HIDE DEF L
  <2>3. ASSUME NEW t \in Thread, PutListing(t) \/ DeleteListing(t) \/ WebhookListing(t)
        PROVE  L
    BY <2>2, <2>3 DEF PutListing, DeleteListing, WebhookListing
  <2>4. ASSUME Publish
        PROVE  L
    BY <2>2, <2>4 DEF Publish
  <2>5. ASSUME UNCHANGED <<listing, nListing>> PROVE L
    BY <1>0, <2>5 DEF L
  <2> QED
    BY <2>1, <2>3, <2>4, <2>5
    DEF L, Next, ItemStep, ListingStep, SaleStep, PostItem, PostItemId, PostItemSku, CopyItem,
      PutItem, PutItemAudit, PutItemAuditOther, PutItemUpdate, DeleteItem,
      DeleteItemAppraisals, DeleteItemInquiries, DeleteItemRow, PostListingMark, PostSale,
      PostSaleMark, PutSale, PutSaleUpdate, DeleteSale, DeleteSaleReset, DeleteSaleRow,
      Webhook, WebhookSale, WebhookItem, PostAppraisal, DeleteAppraisal, PostInquiry,
      PostInquiryInsert, Crash, table
<1>3. /\ nSale <= nSale'
      /\ \A s \in 1..nSale : s \in sales' => s \in sales /\ sale'[s].item = sale[s].item
  <2> DEFINE G == /\ nSale <= nSale'
                  /\ \A s \in 1..nSale : s \in sales' => s \in sales /\ sale'[s].item = sale[s].item
  <2>0. 1..nSale \subseteq SaleId
    BY MarketplaceAssumption DEF SalesOK, SaleId
  <2>1. ASSUME NEW i, NEW p, NEW c, InsertSale(i, p, c) PROVE G
    BY <1>0, <2>0, <2>1 DEF InsertSale, SalesOK
  <2>2. ASSUME NEW t \in Thread, PostSale(t) PROVE G
    BY <2>1, <2>2 DEF PostSale
  <2>3. ASSUME UNCHANGED <<sales, sale, nSale>> PROVE G
    BY <1>0, <2>3
  <2>4. ASSUME NEW t \in Thread, WebhookSale(t) PROVE G
    BY <2>1, <2>3, <2>4 DEF WebhookSale
  <2>5. ASSUME NEW t \in Thread, PutSaleUpdate(t) PROVE G
    BY <1>0, <2>0, <2>5 DEF PutSaleUpdate, SalesOK, SaleOf
  <2>6. ASSUME NEW t \in Thread, DeleteSaleRow(t) PROVE G
    BY <1>0, <2>0, <2>6 DEF DeleteSaleRow, SalesOK
  <2> HIDE DEF G
  <2> QED
    BY <2>2, <2>3, <2>4, <2>5, <2>6
    DEF G, Next, ItemStep, ListingStep, SaleStep, PostItem, PostItemId, PostItemSku, CopyItem,
      PutItem, PutItemAudit, PutItemAuditOther, PutItemUpdate, DeleteItem,
      DeleteItemAppraisals, DeleteItemInquiries, DeleteItemRow, PostListing,
      PostListingMark, PutListing, DeleteListing, Publish, PostSaleMark, PutSale,
      DeleteSale, DeleteSaleReset, Webhook, WebhookItem, WebhookListing, PostAppraisal,
      DeleteAppraisal, PostInquiry, PostInquiryInsert, Crash, table
<1> QED
  BY <1>1, <1>2, <1>3 DEF Keeps

LEMMA HeldStays ==
  ASSUME TypeOK, Keeps, nItem' \in Nat, nListing' \in Nat, nSale' \in Nat,
         NEW u \in Thread, Held(u), pc'[u] = pc[u], arg'[u] = arg[u]
  PROVE  Held(u)'
<1>1. nItem \in Nat /\ nListing \in Nat /\ nSale \in Nat
  BY DEF TypeOK, ItemsOK, ListingsOK, SalesOK
<1>2. 1..nItem \subseteq 1..nItem' /\ 1..nListing \subseteq 1..nListing' /\ 1..nSale \subseteq 1..nSale'
  BY <1>1 DEF Keeps
<1> QED
  BY <1>2 DEF Keeps, Held

(***************************************************************************)
(* A thread holds what its own steps have read, and what it holds stays    *)
(* true while the other threads go on.                                     *)
(***************************************************************************)
LEMMA HoldingOKStep ==
  ASSUME TypeOK, ReferencesExist, HoldingOK, Next PROVE HoldingOK'
<1>1. Keeps /\ nItem' \in Nat /\ nListing' \in Nat /\ nSale' \in Nat
  BY KeepsStep, ItemsOKStep, ListingsOKStep, SalesOKStep
  DEF ItemsOK, ListingsOK, SalesOK
<1>2. pc \in [Thread -> Label] /\ arg \in [Thread -> Arg] /\ NoArg \in Arg
  BY LocalIsArg DEF TypeOK, ThreadOK, NoArg, Status
<1>3. ASSUME NEW t \in Thread, NEW label \in Label, NEW a, Goes(t, label, a),
             Held(t)'
      PROVE  HoldingOK'
  <2>1. \A u \in Thread \ {t} : pc'[u] = pc[u] /\ arg'[u] = arg[u]
    BY <1>2, <1>3 DEF Goes
  <2>2. \A u \in Thread \ {t} : Held(u)'
    BY <1>1, <2>1, HeldStays DEF HoldingOK
  <2> QED
    BY <1>3, <2>2 DEF HoldingOK
<1>4. ASSUME NEW t \in Thread, NEW label \in Label, NEW a, Goes(t, label, a)
      PROVE  pc'[t] = label /\ arg'[t] = a
  BY <1>2, <1>4 DEF Goes
<1>5. ASSUME NEW t \in Thread, NEW a,
             NEW label \in {"idle", "post_id", "post_sku", "del_appraisals",
                            "del_inquiries", "del_row", "list_mark", "sale_mark"},
             Goes(t, label, a)
      PROVE  HoldingOK'
  <2>1. label \in Label
    BY DEF Label
  <2>2. Held(t)'
    BY <1>4, <1>5, <2>1 DEF Held, Putting, Voiding, Hooking
  <2> QED
    BY <1>3, <1>5, <2>1, <2>2
<1>6. ASSUME NEW t \in Thread,
             \/ PostItem(t) \/ PostItemId(t) \/ DeleteItem(t) \/ DeleteItemAppraisals(t)
             \/ DeleteItemInquiries(t) \/ PostListing(t) \/ PostSale(t)
      PROVE  HoldingOK'
  BY <1>5, <1>6
  DEF PostItem, PostItemId, DeleteItem, DeleteItemAppraisals, DeleteItemInquiries,
      PostListing, PostSale
<1>7. ASSUME NEW t \in Thread, Answers(t) PROVE HoldingOK'
  BY <1>5, <1>7 DEF Answers
<1>8. ASSUME NEW t \in Thread, PutItem(t) PROVE HoldingOK'
  <2>0. PICK i \in items : \E new \in Written \cup {status[i]}, next \in Putting :
                               Goes(t, next, Editing(i, status[i], new))
    BY <1>8 DEF PutItem, Putting
  <2>1. PICK new \in Written \cup {status[i]}, next \in Putting :
           Goes(t, next, Editing(i, status[i], new))
    BY <2>0
  <2>2. next \in Label /\ Editing(i, status[i], new).item = i
    BY DEF Putting, Label, Editing, Local
  <2>3. pc'[t] = next /\ arg'[t].item = i
    BY <1>4, <2>1, <2>2
  <2>4. i \in 1..nItem'
    BY <1>8 DEF PutItem, TypeOK, ItemsOK, table
  <2>5. Held(t)'
    BY <2>3, <2>4 DEF Held, Putting, Voiding, Hooking
  <2> QED
    BY <1>3, <2>1, <2>2, <2>5
<1>9. ASSUME NEW t \in Thread, PutItemAudit(t) \/ PutItemAuditOther(t) PROVE HoldingOK'
  <2>1. PICK next \in Putting : Goes(t, next, arg[t])
    BY <1>9 DEF PutItemAudit, PutItemAuditOther, Putting
  <2>2. next \in Label
    BY DEF Putting, Label
  <2>3. arg[t].item \in 1..nItem'
    BY <1>9 DEF PutItemAudit, PutItemAuditOther, HoldingOK, Held, Putting, table
  <2>4. Held(t)'
    BY <1>4, <2>1, <2>2, <2>3 DEF Held, Putting, Voiding, Hooking
  <2> QED
    BY <1>3, <2>1, <2>2, <2>4
<1>10. ASSUME NEW t \in Thread, PutSale(t) PROVE HoldingOK'
  <2>1. PICK s \in sales, p \in Price, c \in Cost : Goes(t, "amend", AtRow(s, 0, p, c))
    BY <1>10 DEF PutSale
  <2>2. "amend" \in Label /\ AtRow(s, 0, p, c).price = p /\ AtRow(s, 0, p, c).cost = c
    BY DEF Label, AtRow, Local
  <2>3. Held(t)'
    BY <1>4, <2>1, <2>2 DEF Held, Putting, Voiding, Hooking
  <2> QED
    BY <1>3, <2>1, <2>2, <2>3
<1>11. ASSUME NEW t \in Thread, DeleteSale(t) PROVE HoldingOK'
  <2>1. PICK s \in sales : Goes(t, "void_reset", AtRow(s, sale[s].item, 0, 0))
    BY <1>11 DEF DeleteSale
  <2> DEFINE a == AtRow(s, sale[s].item, 0, 0)
  <2>2. "void_reset" \in Label /\ a.ref = s /\ a.item = sale[s].item
    BY DEF Label, AtRow, Local
  <2>3. s \in 1..nSale' /\ UNCHANGED <<sales, sale>>
    BY <1>11 DEF DeleteSale, TypeOK, SalesOK, table
  <2> HIDE DEF a
  <2>4. pc'[t] = "void_reset" /\ arg'[t] = a
    BY <1>4, <2>1, <2>2 DEF a
  <2>5. Held(t)'
    BY <2>2, <2>3, <2>4 DEF Held, Putting, Voiding, Hooking
  <2> QED
    BY <1>3, <2>1, <2>2, <2>5
<1>12. ASSUME NEW t \in Thread, DeleteSaleReset(t) PROVE HoldingOK'
  <2>1. "void_row" \in Label /\ pc'[t] = "void_row" /\ arg'[t] = arg[t]
    BY <1>4, <1>12 DEF DeleteSaleReset, Label
  <2>2. Held(t)'
    BY <1>12, <2>1 DEF DeleteSaleReset, HoldingOK, Held, Putting, Voiding, Hooking
  <2> QED
    BY <1>3, <1>12, <2>1, <2>2 DEF DeleteSaleReset
<1>13. ASSUME NEW t \in Thread, Webhook(t) PROVE HoldingOK'
  <2>1. PICK l \in 1..nListing, p \in Price :
           Goes(t, "hook_sale", AtRow(l, listing[l].item, p, 0))
    BY <1>13 DEF Webhook
  <2> DEFINE a == AtRow(l, listing[l].item, p, 0)
  <2>2. "hook_sale" \in Label /\ a.ref = l /\ a.item = listing[l].item /\ a.price = p
    BY DEF Label, AtRow, Local
  <2>3. UNCHANGED <<listing, nListing>>
    BY <1>13 DEF Webhook, table
  <2> HIDE DEF a
  <2>4. pc'[t] = "hook_sale" /\ arg'[t] = a
    BY <1>4, <2>1, <2>2 DEF a
  <2>5. Held(t)'
    BY <2>2, <2>3, <2>4 DEF Held, Putting, Voiding, Hooking
  <2> QED
    BY <1>3, <2>1, <2>2, <2>5
<1>14. ASSUME NEW t \in Thread, WebhookSale(t) \/ WebhookItem(t) PROVE HoldingOK'
  <2>1. PICK next \in {"hook_item", "hook_listing"} : Goes(t, next, arg[t])
    BY <1>14 DEF WebhookSale, WebhookItem
  <2>2. next \in Label /\ next \in Hooking
    BY DEF Label, Hooking
  <2>3. pc'[t] = next /\ arg'[t] = arg[t]
    BY <1>4, <2>1, <2>2
  <2>4. Held(t)'
    BY <1>14, <2>2, <2>3
    DEF WebhookSale, WebhookItem, HoldingOK, Held, Putting, Voiding, Hooking
  <2> QED
    BY <1>3, <2>1, <2>2, <2>4
<1>15. ASSUME NEW t \in Thread, PostInquiry(t) PROVE HoldingOK'
  <2>1. PICK l \in 1..nListing : Goes(t, "inquiry", AtRow(l, listing[l].item, 0, 0))
    BY <1>15 DEF PostInquiry
  <2>2. "inquiry" \in Label /\ AtRow(l, listing[l].item, 0, 0).ref = l
    BY DEF Label, AtRow, Local
  <2>3. UNCHANGED nListing
    BY <1>15 DEF PostInquiry, table
  <2>4. Held(t)'
    BY <1>4, <2>1, <2>2, <2>3 DEF Held, Putting, Voiding, Hooking
  <2> QED
    BY <1>3, <2>1, <2>2, <2>4
<1>16. ASSUME Crash PROVE HoldingOK'
  BY <1>16 DEF Crash, HoldingOK, Held, Putting, Voiding, Hooking
<1>17. ASSUME UNCHANGED thread PROVE HoldingOK'
  BY <1>1, <1>17, HeldStays DEF thread, HoldingOK
<1> QED
  BY <1>6, <1>7, <1>8, <1>9, <1>10, <1>11, <1>12, <1>13, <1>14, <1>15, <1>16, <1>17
  DEF Next, ItemStep, ListingStep, SaleStep, PostItemSku, CopyItem, PutItemUpdate,
      DeleteItemRow, PostListingMark, PutListing, DeleteListing, Publish, PostSaleMark,
      PutSaleUpdate, DeleteSaleRow, WebhookListing, PostAppraisal, DeleteAppraisal,
      PostInquiryInsert

LEMMA HoldingOKStutter == ASSUME HoldingOK, UNCHANGED vars PROVE HoldingOK'
  BY DEF HoldingOK, Held, vars, table, thread

(***************************************************************************)
(* The two theorems these lemmas are for.                                  *)
(***************************************************************************)
BaseInv == TypeOK /\ ReferencesExist /\ HoldingOK

LEMMA InitBaseInv == Init => BaseInv
<1> SUFFICES ASSUME Init PROVE BaseInv
  OBVIOUS
<1>1. TypeOK
  BY InitTypeOK
<1>2. ReferencesExist
  BY DEF Init, ReferencesExist
<1>3. \A t \in Thread : pc[t] = "idle"
  BY DEF Init
<1>4. HoldingOK
  BY <1>3 DEF HoldingOK, Held, Putting, Voiding, Hooking
<1> QED
  BY <1>1, <1>2, <1>4 DEF BaseInv

LEMMA BaseInvStep == BaseInv /\ [Next]_vars => BaseInv'
<1> SUFFICES ASSUME BaseInv, [Next]_vars PROVE BaseInv'
  OBVIOUS
<1>1. TypeOK' /\ ReferencesExist'
  BY TypeOKStep, ReferencesExistStep DEF BaseInv
<1>2. HoldingOK'
  BY HoldingOKStep, HoldingOKStutter DEF BaseInv
<1> QED
  BY <1>1, <1>2 DEF BaseInv

\* Types, references and what the threads hold are kept together: DELETE and INSERT
\* statements of the handlers rely on ids that a thread read earlier.
THEOREM BaseInvariant == Spec => []BaseInv
  BY InitBaseInv, BaseInvStep, PTL DEF Spec

\* Whatever the handlers interleave, the tables hold what the schema allows and the
\* threads hold what their local variables can.
THEOREM TypeCorrect == Spec => []TypeOK
<1>1. BaseInv => TypeOK
  BY DEF BaseInv
<1> QED
  BY <1>1, BaseInvariant, PTL

\* No row outlives the item it refers to, with any number of clients: DELETE
\* /api/items/:id cannot lose a race against a statement that enters a row.
THEOREM ReferencesAreKept == Spec => []ReferencesExist
<1>1. BaseInv => ReferencesExist
  BY DEF BaseInv
<1> QED
  BY <1>1, BaseInvariant, PTL

(***************************************************************************)
(* Sales                                                                   *)
(***************************************************************************)
LEMMA NetProceedsStep ==
  ASSUME TypeOK, NetProceedsAddUp, [Next]_vars PROVE NetProceedsAddUp'
<1> USE DEF TypeOK, NetProceedsAddUp
<1>1. ASSUME NEW i, NEW p, NEW c, InsertSale(i, p, c) PROVE NetProceedsAddUp'
  <2>1. nSale + 1 \in SaleId /\ nSale + 1 \notin sales
    BY <1>1, MarketplaceAssumption DEF InsertSale, SalesOK, SaleId
  <2>2. sale'[nSale + 1].net = sale'[nSale + 1].price - sale'[nSale + 1].cost
    BY <1>1, <2>1 DEF InsertSale, SalesOK, SaleOf
  <2>3. \A s \in sales : sale'[s] = sale[s]
    BY <1>1, <2>1, SalesAreIds DEF InsertSale, SalesOK
  <2> QED
    BY <1>1, <2>2, <2>3 DEF InsertSale
<1>2. ASSUME NEW t \in Thread, PostSale(t) PROVE NetProceedsAddUp'
  BY <1>1, <1>2 DEF PostSale
<1>3. ASSUME NEW t \in Thread, PutSaleUpdate(t) PROVE NetProceedsAddUp'
  BY <1>3, SalesAreIds DEF PutSaleUpdate, SalesOK, SaleOf
<1>4. ASSUME NEW t \in Thread, DeleteSaleRow(t) PROVE NetProceedsAddUp'
  BY <1>4, SalesAreIds DEF DeleteSaleRow, SalesOK
<1>5. ASSUME NEW t \in Thread, WebhookSale(t) PROVE NetProceedsAddUp'
  BY <1>1, <1>5 DEF WebhookSale
<1>6. ASSUME UNCHANGED <<sales, sale>> PROVE NetProceedsAddUp'
  BY <1>6
<1> HIDE DEF NetProceedsAddUp
<1> QED
  BY <1>2, <1>3, <1>4, <1>5, <1>6
  DEF Next, ItemStep, ListingStep, SaleStep, PostItem, PostItemId, PostItemSku, CopyItem,
      PutItem, PutItemAudit, PutItemAuditOther, PutItemUpdate, DeleteItem,
      DeleteItemAppraisals, DeleteItemInquiries, DeleteItemRow, PostListing,
      PostListingMark, PutListing, DeleteListing, Publish, PostSaleMark, PutSale,
      DeleteSale, DeleteSaleReset, Webhook, WebhookItem, WebhookListing, PostAppraisal,
      DeleteAppraisal, PostInquiry, PostInquiryInsert, Crash, vars, table

\* The net proceeds every report adds up are the price less the costs, whatever
\* amendments of a sale interleave.
THEOREM NetProceedsAreKept == Spec => []NetProceedsAddUp
<1>1. Init => NetProceedsAddUp
  BY DEF Init, NetProceedsAddUp
<1>2. BaseInv /\ NetProceedsAddUp /\ [Next]_vars => NetProceedsAddUp'
  BY NetProceedsStep DEF BaseInv
<1> QED
  BY <1>1, <1>2, BaseInvariant, PTL DEF Spec

(***************************************************************************)
(* SKUs.  The rows an INSERT is yet to use must not have one, either.      *)
(***************************************************************************)
SkuInv == \A i \in ItemId : sku[i] \in {0, i}

LEMMA SkuStep == ASSUME TypeOK, SkuInv, [Next]_vars PROVE SkuInv'
<1>1. ASSUME NEW t \in Thread, PostItemSku(t) PROVE SkuInv'
  <2> DEFINE i == arg[t].item
  <2>1. sku' = IF i \in items /\ sku[i] = 0 THEN [sku EXCEPT ![i] = i] ELSE sku
    BY <1>1 DEF PostItemSku
  <2> HIDE DEF i
  <2> QED
    BY <2>1 DEF SkuInv, TypeOK, ItemsOK
<1>2. ASSUME UNCHANGED sku PROVE SkuInv'
  BY <1>2 DEF SkuInv
<1> QED
  BY <1>1, <1>2
  DEF Next, ItemStep, ListingStep, SaleStep, PostItem, PostItemId, CopyItem,
      PutItem, PutItemAudit, PutItemAuditOther, PutItemUpdate, DeleteItem,
      DeleteItemAppraisals, DeleteItemInquiries, DeleteItemRow, PostListing,
      PostListingMark, PutListing, DeleteListing, Publish, PostSale, PostSaleMark, PutSale,
      PutSaleUpdate, DeleteSale, DeleteSaleReset, DeleteSaleRow, Webhook, WebhookSale,
      WebhookItem, WebhookListing, PostAppraisal, DeleteAppraisal, PostInquiry,
      PostInquiryInsert, Crash, vars, table

\* No two items share a generated SKU, although the id it is made of is the answer
\* to last_insert_id() and may be of another thread's row.
THEOREM SkusNameItems == Spec => []SkuNamesItem
<1>1. Init => SkuInv
  BY DEF Init, SkuInv
<1>2. BaseInv /\ SkuInv /\ [Next]_vars => SkuInv'
  BY SkuStep DEF BaseInv
<1>3. BaseInv /\ SkuInv => SkuNamesItem
  BY ItemsAreIds DEF BaseInv, TypeOK, SkuInv, SkuNamesItem
<1> QED
  BY <1>1, <1>2, <1>3, BaseInvariant, PTL DEF Spec

(***************************************************************************)
(* The reasons for an item to be sold.  A reason, once there, stays: a     *)
(* sale that goes leaves the item voided.  A thread that is about to mark  *)
(* an item sold has a reason in its hands already.                         *)
(***************************************************************************)
Reasons(t) ==
    /\ pc[t] \in {"sale_mark", "hook_item", "hook_listing"} => Entered(arg[t].item)
    /\ pc[t] \in Putting /\ arg[t].new = "sold" => SoldWithReason(arg[t].item)

ReasonsOK == \A t \in Thread : Reasons(t)

SoldInv == SoldItemsHaveSales /\ SoldListingsHaveSales /\ ReasonsOK

LEMMA ReasonsStay ==
  ASSUME BaseInv, Next
  PROVE  \A i : /\ Entered(i) => Entered(i)'
                /\ SoldWithReason(i) => SoldWithReason(i)'
<1> USE DEF BaseInv, TypeOK
<1> DEFINE E == \A i : Entered(i) => Entered(i)'
           D == declared \subseteq declared'
<1>1. E
  <2>1. ASSUME voided \subseteq voided',
               \A s \in sales : s \in sales' /\ sale'[s].item = sale[s].item
        PROVE  E
    BY <2>1 DEF Entered
  <2>2. ASSUME NEW i, NEW p, NEW c, InsertSale(i, p, c), UNCHANGED voided PROVE E
    <3>1. nSale + 1 \notin sales
      BY <2>2 DEF SalesOK
    <3>2. \A s \in sales : s \in sales' /\ sale'[s].item = sale[s].item
      BY <2>2, <3>1, SalesAreIds DEF InsertSale, SalesOK
    <3> QED
      BY <2>1, <2>2, <3>2
  <2>3. ASSUME UNCHANGED <<voided, sales, sale>> PROVE E
    BY <2>1, <2>3
  <2>4. ASSUME NEW t \in Thread, PostSale(t) PROVE E
    BY <2>2, <2>4 DEF PostSale, seen
  <2>5. ASSUME NEW t \in Thread, WebhookSale(t) PROVE E
    BY <2>2, <2>3, <2>5 DEF WebhookSale, seen
  <2>6. ASSUME NEW t \in Thread, PutSaleUpdate(t) PROVE E
    <3>1. \A s \in sales : s \in sales' /\ sale'[s].item = sale[s].item
      BY <2>6, SalesAreIds DEF PutSaleUpdate, SalesOK, SaleOf
    <3> QED
      BY <2>1, <2>6, <3>1 DEF PutSaleUpdate, seen
  <2>7. ASSUME NEW t \in Thread, DeleteSaleRow(t) PROVE E
    <3> DEFINE r == arg[t].ref
    <3>1. \A s \in sales \ {r} : s \in sales' /\ sale'[s].item = sale[s].item
      BY <2>7, SalesAreIds DEF DeleteSaleRow, SalesOK
    <3>2. r \in sales => sale[r].item = arg[t].item /\ arg[t].item \in voided'
      BY <2>7 DEF DeleteSaleRow, HoldingOK, Held, Voiding
    <3>3. voided \subseteq voided'
      BY <2>7 DEF DeleteSaleRow
    <3> HIDE DEF r
    <3> QED
      BY <3>1, <3>2, <3>3 DEF Entered
  <2> HIDE DEF E
  <2> QED
    BY <2>3, <2>4, <2>5, <2>6, <2>7
    DEF Next, ItemStep, ListingStep, SaleStep, PostItem, PostItemId, PostItemSku, CopyItem,
      PutItem, PutItemAudit, PutItemAuditOther, PutItemUpdate, DeleteItem,
      DeleteItemAppraisals, DeleteItemInquiries, DeleteItemRow, PostListing,
      PostListingMark, PutListing, DeleteListing, Publish, PostSaleMark, PutSale,
      DeleteSale, DeleteSaleReset, Webhook, WebhookItem, WebhookListing, PostAppraisal,
      DeleteAppraisal, PostInquiry, PostInquiryInsert, Crash, table, seen
<1>2. D
  <2>1. ASSUME NEW t \in Thread, PostItem(t) \/ CopyItem(t) \/ PutItem(t) PROVE D
    BY <2>1 DEF PostItem, CopyItem, PutItem, InsertItem
  <2> QED
    BY <2>1
    DEF Next, ItemStep, ListingStep, SaleStep, PostItemId, PostItemSku,
      PutItemAudit, PutItemAuditOther, PutItemUpdate, DeleteItem,
      DeleteItemAppraisals, DeleteItemInquiries, DeleteItemRow, PostListing,
      PostListingMark, PutListing, DeleteListing, Publish, PostSale, PostSaleMark, PutSale,
      PutSaleUpdate, DeleteSale, DeleteSaleReset, DeleteSaleRow, Webhook, WebhookSale,
      WebhookItem, WebhookListing, PostAppraisal, DeleteAppraisal, PostInquiry,
      PostInquiryInsert, Crash, seen
<1> QED
  BY <1>1, <1>2 DEF SoldWithReason

LEMMA SoldItemsStep ==
  ASSUME BaseInv, SoldInv, Next PROVE SoldItemsHaveSales'
<1> USE DEF BaseInv, TypeOK
<1>1. \A i : SoldWithReason(i) => SoldWithReason(i)'
  BY ReasonsStay
<1>2. \A i \in items : status[i] = "sold" => SoldWithReason(i)
  BY DEF SoldInv, SoldItemsHaveSales
<1>3. items \subseteq ItemId
  BY ItemsAreIds
<1>4. ASSUME NEW s, InsertItem(s) PROVE SoldItemsHaveSales'
  <2>1. nItem + 1 \in ItemId /\ nItem + 1 \notin items
    BY <1>4, MarketplaceAssumption DEF InsertItem, ItemsOK, ItemId
  <2>2. status'[nItem + 1] = "sold" => nItem + 1 \in declared'
    BY <1>4, <2>1 DEF InsertItem, ItemsOK
  <2>3. \A i \in items : status'[i] = status[i]
    BY <1>3, <1>4, <2>1 DEF InsertItem, ItemsOK
  <2>4. items' = items \cup {nItem + 1}
    BY <1>4 DEF InsertItem
  <2> QED
    BY <1>1, <1>2, <2>2, <2>3, <2>4 DEF SoldItemsHaveSales, SoldWithReason
<1>5. ASSUME items' \subseteq items, UNCHANGED status PROVE SoldItemsHaveSales'
  BY <1>1, <1>2, <1>5 DEF SoldItemsHaveSales
<1>6. ASSUME NEW j, NEW s, SetStatus(j, s), UNCHANGED items, s = "sold" => SoldWithReason(j)
      PROVE  SoldItemsHaveSales'
  <2>1. \A i \in items : status'[i] = "sold" => SoldWithReason(i)
    BY <1>2, <1>3, <1>6 DEF SetStatus, ItemsOK
  <2> QED
    BY <1>1, <1>6, <2>1 DEF SoldItemsHaveSales
<1>7. ASSUME NEW t \in Thread, PostItem(t) \/ CopyItem(t) PROVE SoldItemsHaveSales'
  BY <1>4, <1>5, <1>7 DEF PostItem, CopyItem
<1>8. ASSUME NEW t \in Thread, PostSaleMark(t) \/ WebhookItem(t) PROVE SoldItemsHaveSales'
  <2>1. SoldWithReason(arg[t].item)
    BY <1>8 DEF PostSaleMark, WebhookItem, SoldInv, ReasonsOK, Reasons, SoldWithReason
  <2> QED
    BY <1>6, <1>8, <2>1 DEF PostSaleMark, WebhookItem
<1>9. ASSUME NEW t \in Thread, PutItemUpdate(t) PROVE SoldItemsHaveSales'
  <2>1. arg[t].new = "sold" => SoldWithReason(arg[t].item)
    BY <1>9 DEF PutItemUpdate, SoldInv, ReasonsOK, Reasons, Putting
  <2> QED
    BY <1>6, <1>9, <2>1 DEF PutItemUpdate
<1>10. ASSUME NEW t \in Thread, PostListingMark(t) \/ DeleteSaleReset(t)
       PROVE  SoldItemsHaveSales'
  BY <1>6, <1>10 DEF PostListingMark, DeleteSaleReset
<1>11. ASSUME NEW t \in Thread, DeleteItemRow(t) PROVE SoldItemsHaveSales'
  BY <1>5, <1>11 DEF DeleteItemRow
<1> HIDE DEF BaseInv, TypeOK
<1> QED
  BY <1>5, <1>7, <1>8, <1>9, <1>10, <1>11
  DEF Next, ItemStep, ListingStep, SaleStep, PostItemId, PostItemSku, PutItem,
      PutItemAudit, PutItemAuditOther, DeleteItem, DeleteItemAppraisals,
      DeleteItemInquiries, PostListing, PutListing, DeleteListing, Publish, PostSale,
      PutSale, PutSaleUpdate, DeleteSale, DeleteSaleRow, Webhook, WebhookSale,
      WebhookListing, PostAppraisal, DeleteAppraisal, PostInquiry, PostInquiryInsert,
      Crash, table

LEMMA SoldListingsStep ==
  ASSUME BaseInv, SoldInv, Next PROVE SoldListingsHaveSales'
<1> USE DEF BaseInv, TypeOK
<1>1. \A i : Entered(i) => Entered(i)'
  BY ReasonsStay
<1>2. \A l \in 1..nListing : listing[l].sync = "sold" => Entered(listing[l].item)
  BY DEF SoldInv, SoldListingsHaveSales
<1>3. nListing \in Nat /\ 1..nListing \subseteq ListingId
  BY ListingsAreIds DEF ListingsOK
<1>4. ASSUME NEW t \in Thread, PostListing(t) PROVE SoldListingsHaveSales'
  <2>1. PICK i \in items : listing' = [listing EXCEPT ![nListing + 1] =
                                          ListingOf(i, "active", "local")]
    BY <1>4 DEF PostListing
  <2>2. nListing + 1 \in ListingId
    BY <1>4, MarketplaceAssumption DEF PostListing, ListingId, ListingsOK
  <2>3. listing'[nListing + 1].sync = "local"
    BY <2>1, <2>2 DEF ListingsOK, ListingOf
  <2>4. \A l \in 1..nListing : listing'[l] = listing[l]
    BY <1>3, <2>1, <2>2 DEF ListingsOK
  <2>5. \A l \in 1..nListing' : l \in 1..nListing \/ l = nListing + 1
    BY <1>3, <1>4 DEF PostListing
  <2> QED
    BY <1>1, <1>2, <2>3, <2>4, <2>5 DEF SoldListingsHaveSales
<1>5. ASSUME NEW k, NEW s, NEW y, UNCHANGED nListing,
             listing' = [listing EXCEPT ![k] = ListingOf(listing[k].item, s, y)],
             y = "sold" /\ k \in 1..nListing => Entered(listing[k].item)
      PROVE  SoldListingsHaveSales'
  <2>1. \A l \in 1..nListing : /\ listing'[l].item = listing[l].item
                               /\ listing'[l].sync = IF l = k THEN y ELSE listing[l].sync
    BY <1>3, <1>5 DEF ListingsOK, ListingOf
  <2>2. \A l \in 1..nListing : listing'[l].sync = "sold" => Entered(listing'[l].item)
    BY <1>2, <1>5, <2>1
  <2> QED
    BY <1>1, <1>5, <2>2 DEF SoldListingsHaveSales
<1>6. ASSUME NEW t \in Thread, WebhookListing(t) PROVE SoldListingsHaveSales'
  <2>1. listing[arg[t].ref].item = arg[t].item /\ Entered(arg[t].item)
    BY <1>6 DEF WebhookListing, HoldingOK, Held, Hooking, SoldInv, ReasonsOK, Reasons
  <2> QED
    BY <1>5, <1>6, <2>1 DEF WebhookListing
<1>7. ASSUME NEW t \in Thread, PutListing(t) PROVE SoldListingsHaveSales'
  <2>1. PICK l \in 1..nListing, s \in Shelf :
           listing' = [listing EXCEPT ![l] = ListingOf(listing[l].item, s, listing[l].sync)]
    BY <1>7 DEF PutListing
  <2> QED
    BY <1>2, <1>5, <1>7, <2>1 DEF PutListing
<1>8. ASSUME NEW t \in Thread, DeleteListing(t) PROVE SoldListingsHaveSales'
  <2>1. PICK l \in 1..nListing :
          listing' = [listing EXCEPT ![l] = ListingOf(listing[l].item, "removed", listing[l].sync)]
    BY <1>8 DEF DeleteListing
  <2> QED
    BY <1>2, <1>5, <1>8, <2>1 DEF DeleteListing
<1>9. ASSUME Publish PROVE SoldListingsHaveSales'
  BY <1>5, <1>9 DEF Publish
<1>10. ASSUME UNCHANGED <<listing, nListing>> PROVE SoldListingsHaveSales'
  BY <1>1, <1>2, <1>10 DEF SoldListingsHaveSales
<1> HIDE DEF BaseInv, TypeOK
<1> QED
  BY <1>4, <1>6, <1>7, <1>8, <1>9, <1>10
  DEF Next, ItemStep, ListingStep, SaleStep, PostItem, PostItemId, PostItemSku, CopyItem,
      PutItem, PutItemAudit, PutItemAuditOther, PutItemUpdate, DeleteItem,
      DeleteItemAppraisals, DeleteItemInquiries, DeleteItemRow, PostListingMark, PostSale,
      PostSaleMark, PutSale, PutSaleUpdate, DeleteSale, DeleteSaleReset, DeleteSaleRow,
      Webhook, WebhookSale, WebhookItem, PostAppraisal, DeleteAppraisal, PostInquiry,
      PostInquiryInsert, Crash, table

LEMMA ReasonsOKStep ==
  ASSUME BaseInv, SoldInv, Next PROVE ReasonsOK'
<1>0. \A i : (Entered(i) => Entered(i)') /\ (SoldWithReason(i) => SoldWithReason(i)')
  BY ReasonsStay
<1>1. ASSUME NEW u \in Thread, pc'[u] = pc[u], arg'[u] = arg[u] PROVE Reasons(u)'
  <2>1. Reasons(u)
    BY DEF SoldInv, ReasonsOK
  <2> QED
    BY <1>0, <1>1, <2>1 DEF Reasons
<1>2. pc \in [Thread -> Label] /\ arg \in [Thread -> Arg]
  BY DEF BaseInv, TypeOK, ThreadOK
<1>3. ASSUME NEW t \in Thread, NEW label, NEW a, Goes(t, label, a), Reasons(t)'
      PROVE  ReasonsOK'
  <2>1. \A u \in Thread \ {t} : pc'[u] = pc[u] /\ arg'[u] = arg[u]
    BY <1>2, <1>3 DEF Goes
  <2> QED
    BY <1>1, <1>3, <2>1 DEF ReasonsOK
<1>4. ASSUME NEW t \in Thread, NEW label, NEW a, Goes(t, label, a)
      PROVE  pc'[t] = label /\ arg'[t] = a
  BY <1>2, <1>4 DEF Goes
<1>5. ASSUME NEW t \in Thread, NEW a, NEW label, Goes(t, label, a),
             label \notin Putting \cup {"sale_mark", "hook_item", "hook_listing"}
      PROVE  ReasonsOK'
  <2>1. Reasons(t)'
    BY <1>4, <1>5 DEF Reasons, Putting
  <2> QED
    BY <1>3, <1>5, <2>1
<1>6. ASSUME NEW t \in Thread,
             \/ PostItem(t) \/ PostItemId(t) \/ DeleteItem(t) \/ DeleteItemAppraisals(t)
             \/ DeleteItemInquiries(t) \/ PostListing(t) \/ PutSale(t) \/ DeleteSale(t)
             \/ DeleteSaleReset(t) \/ Webhook(t) \/ PostInquiry(t) \/ Answers(t)
      PROVE  ReasonsOK'
  BY <1>5, <1>6
  DEF PostItem, PostItemId, DeleteItem, DeleteItemAppraisals, DeleteItemInquiries,
      PostListing, PutSale, DeleteSale, DeleteSaleReset, Webhook, PostInquiry, Answers,
      Putting
<1>7. ASSUME NEW t \in Thread, PutItem(t) PROVE ReasonsOK'
  <2>1. PICK i \in items : \E new \in Written \cup {status[i]} :
           /\ \E next \in Putting : Goes(t, next, Editing(i, status[i], new))
           /\ new = "sold" /\ status[i] # "sold" => i \in declared'
    BY <1>7 DEF PutItem, Putting
  <2>2. PICK new \in Written \cup {status[i]}, next \in Putting :
           /\ Goes(t, next, Editing(i, status[i], new))
           /\ new = "sold" /\ status[i] # "sold" => i \in declared'
    BY <2>1
  <2>3. Editing(i, status[i], new).item = i /\ Editing(i, status[i], new).new = new
    BY DEF Editing, Local
  <2>4. pc'[t] = next /\ arg'[t].item = i /\ arg'[t].new = new
    BY <1>4, <2>2, <2>3
  <2>5. status[i] = "sold" => SoldWithReason(i)'
    BY <1>0 DEF SoldInv, SoldItemsHaveSales
  <2>6. new = "sold" => SoldWithReason(i)'
    BY <2>2, <2>5 DEF SoldWithReason
  <2>7. Reasons(t)'
    BY <2>4, <2>6 DEF Reasons, Putting
  <2> QED
    BY <1>3, <2>2, <2>7
<1>8. ASSUME NEW t \in Thread, PutItemAudit(t) \/ PutItemAuditOther(t) PROVE ReasonsOK'
  <2>1. PICK next \in Putting : Goes(t, next, arg[t])
    BY <1>8 DEF PutItemAudit, PutItemAuditOther, Putting
  <2>2. arg[t].new = "sold" => SoldWithReason(arg[t].item)'
    <3>1. arg[t].new = "sold" => SoldWithReason(arg[t].item)
      BY <1>8 DEF PutItemAudit, PutItemAuditOther, SoldInv, ReasonsOK, Reasons, Putting
    <3>2. arg'[t] = arg[t]
      BY <1>4, <2>1
    <3> QED
      BY <1>0, <3>1, <3>2
  <2>3. Reasons(t)'
    BY <1>4, <2>1, <2>2 DEF Reasons, Putting
  <2> QED
    BY <1>3, <2>1, <2>3
<1>9. ASSUME NEW t \in Thread, NEW i, NEW p, NEW c, InsertSale(i, p, c) PROVE Entered(i)'
  <2>1. nSale + 1 \in SaleId
    BY <1>9, MarketplaceAssumption DEF InsertSale, BaseInv, TypeOK, SalesOK, SaleId
  <2>2. sale'[nSale + 1].item = i /\ nSale + 1 \in sales'
    BY <1>9, <2>1 DEF InsertSale, BaseInv, TypeOK, SalesOK, SaleOf
  <2> QED
    BY <2>2 DEF Entered
<1>10. ASSUME NEW t \in Thread, PostSale(t) PROVE ReasonsOK'
  <2>1. PICK i \in items, p \in Price, c \in Cost :
           InsertSale(i, p, c) /\ Goes(t, "sale_mark", AtItem(i))
    BY <1>10 DEF PostSale
  <2>2. pc'[t] = "sale_mark" /\ arg'[t].item = i
    BY <1>4, <2>1 DEF AtItem, Local
  <2>3. Reasons(t)'
    BY <1>9, <2>1, <2>2 DEF Reasons, Putting
  <2> QED
    BY <1>3, <2>1, <2>3
<1>11. ASSUME NEW t \in Thread, WebhookSale(t) PROVE ReasonsOK'
  <2>1. arg[t].item \in items
    BY <1>11 DEF WebhookSale, BaseInv, HoldingOK, Held, Hooking, ReferencesExist
  <2>2. Entered(arg[t].item)'
    <3>1. InsertSale(arg[t].item, arg[t].price, 0)
      BY <1>11, <2>1 DEF WebhookSale
    <3>2. arg'[t] = arg[t]
      BY <1>4, <1>11 DEF WebhookSale
    <3> QED
      BY <1>9, <3>1, <3>2
  <2>3. Reasons(t)'
    BY <1>4, <1>11, <2>2 DEF WebhookSale, Reasons, Putting
  <2> QED
    BY <1>3, <1>11, <2>3 DEF WebhookSale
<1>12. ASSUME NEW t \in Thread, WebhookItem(t) PROVE ReasonsOK'
  <2>1. pc'[t] = "hook_listing" /\ arg'[t] = arg[t]
    BY <1>4, <1>12 DEF WebhookItem
  <2>2. Entered(arg[t].item)
    BY <1>12 DEF WebhookItem, SoldInv, ReasonsOK, Reasons
  <2>3. Reasons(t)'
    BY <1>0, <2>1, <2>2 DEF Reasons, Putting
  <2> QED
    BY <1>3, <1>12, <2>3 DEF WebhookItem
<1>13. ASSUME Crash PROVE ReasonsOK'
  BY <1>13 DEF Crash, ReasonsOK, Reasons, Putting
<1>14. ASSUME UNCHANGED thread PROVE ReasonsOK'
  BY <1>1, <1>14 DEF thread, ReasonsOK
<1> QED
  BY <1>6, <1>7, <1>8, <1>10, <1>11, <1>12, <1>13, <1>14
  DEF Next, ItemStep, ListingStep, SaleStep, PostItemSku, CopyItem, PutItemUpdate,
      DeleteItemRow, PostListingMark, PutListing, DeleteListing, Publish, PostSaleMark,
      PutSaleUpdate, DeleteSaleRow, WebhookListing, PostAppraisal, DeleteAppraisal,
      PostInquiryInsert

LEMMA SoldInvariant == Spec => []SoldInv
<1>1. ASSUME Init PROVE SoldInv
  <2>1. SoldItemsHaveSales /\ SoldListingsHaveSales
    BY <1>1, MarketplaceAssumption
    DEF Init, SoldItemsHaveSales, SoldListingsHaveSales, ItemId
  <2>2. \A t \in Thread : pc[t] = "idle"
    BY <1>1 DEF Init
  <2>3. ReasonsOK
    BY <2>2 DEF ReasonsOK, Reasons, Putting
  <2> QED
    BY <2>1, <2>3 DEF SoldInv
<1>2. BaseInv /\ SoldInv /\ [Next]_vars => SoldInv'
  <2>1. ASSUME BaseInv, SoldInv, Next PROVE SoldInv'
    BY <2>1, SoldItemsStep, SoldListingsStep, ReasonsOKStep DEF SoldInv
  <2>2. ASSUME SoldInv, UNCHANGED vars PROVE SoldInv'
    BY <2>2 DEF SoldInv, SoldItemsHaveSales, SoldListingsHaveSales, ReasonsOK, Reasons,
      SoldWithReason, Entered, vars, table, thread, seen
  <2> QED
    BY <2>1, <2>2
<1> QED
  BY <1>1, <1>2, BaseInvariant, PTL DEF Spec

\* An item marked sold has a sale, or had one that an admin deleted, or was declared
\* sold by a client, whatever handlers interleave or a crash cuts short.
THEOREM SoldItemsHaveReasons == Spec => []SoldItemsHaveSales
<1>1. SoldInv => SoldItemsHaveSales
  BY DEF SoldInv
<1> QED
  BY <1>1, SoldInvariant, PTL

\* A listing that the webhook took off its channel has a sale, or had one.
THEOREM SoldListingsHaveReasons == Spec => []SoldListingsHaveSales
<1>1. SoldInv => SoldListingsHaveSales
  BY DEF SoldInv
<1> QED
  BY <1>1, SoldInvariant, PTL

(***************************************************************************)
(* What accounts for a status.  An account, once there, stays with the     *)
(* item: ids are not used again, the rows of listings are not deleted, and *)
(* a history that goes leaves a deletion behind.  A thread that is about   *)
(* to write a status has an account of it in its hands already, the one    *)
(* that writes back what it read as well.                                  *)
(***************************************************************************)
Listed(i) == \E l \in 1..nListing : listing[l].item = i

Explains(t) ==
    /\ pc[t] \in {"put_other", "put_update"} /\ arg[t].item \in items =>
         Accounted(arg[t].item, arg[t].new)
    /\ pc[t] = "list_mark" => Listed(arg[t].item)
    /\ pc[t] = "void_reset" => Entered(arg[t].item)

ExplainsOK == \A t \in Thread : Explains(t)

AccountInv == StatusesAreAccountedFor /\ ExplainsOK

Remembers ==
    /\ \A i \in 1..nItem : i \in items' => i \in items
    /\ \A i \in items : \A s : <<i, s>> \in history => <<i, s>> \in history' \/ deletion'[i] # "none"
    /\ \A i \in ItemId : deletion[i] # "none" => deletion'[i] # "none"
    /\ \A i \in items : born'[i] = born[i]

LEMMA RemembersStep == ASSUME BaseInv, Next PROVE Remembers
<1> USE DEF BaseInv, TypeOK
<1>1. ASSUME NEW s, InsertItem(s), UNCHANGED <<history, deletion>> PROVE Remembers
  <2>1. \A i \in 1..nItem : i \in items' => i \in items
    BY <1>1 DEF InsertItem, ItemsOK
  <2>2. \A i \in items : born'[i] = born[i]
    BY <1>1, ItemsAreIds DEF InsertItem, ItemsOK, SeenOK
  <2> QED
    BY <1>1, <2>1, <2>2 DEF Remembers
<1>2. ASSUME NEW t \in Thread, PostItem(t) \/ CopyItem(t) PROVE Remembers
  BY <1>1, <1>2 DEF PostItem, CopyItem, Remembers, trail
<1>3. ASSUME NEW t \in Thread, PutItemAudit(t) \/ PutItemAuditOther(t) PROVE Remembers
  BY <1>3 DEF PutItemAudit, PutItemAuditOther, AuditChange, Remembers, table, seen
<1>4. ASSUME NEW t \in Thread, DeleteItem(t) PROVE Remembers
  <2>1. PICK i \in ItemId :
          /\ history' = {h \in history : h[1] # i}
          /\ deletion' = IF i \in items /\ deletion[i] = "none"
                         THEN [deletion EXCEPT ![i] = "asked"] ELSE deletion
    BY <1>4 DEF DeleteItem
  <2>2. UNCHANGED <<items, born>>
    BY <1>4 DEF DeleteItem, table
  <2>3. i \in items => deletion'[i] # "none"
    BY <2>1 DEF SeenOK
  <2>4. \A k \in ItemId : deletion[k] # "none" => deletion'[k] # "none"
    BY <2>1 DEF SeenOK
  <2> QED
    BY <2>1, <2>2, <2>3, <2>4 DEF Remembers
<1>5. ASSUME NEW t \in Thread, DeleteItemRow(t) PROVE Remembers
  BY <1>5 DEF DeleteItemRow, Remembers, SeenOK, trail
<1>6. ASSUME UNCHANGED <<items, history, born, deletion>> PROVE Remembers
  BY <1>6 DEF Remembers
<1> HIDE DEF BaseInv, TypeOK
<1> QED
  BY <1>2, <1>3, <1>4, <1>5, <1>6
  DEF Next, ItemStep, ListingStep, SaleStep, PostItemId, PostItemSku, PutItem,
      PutItemUpdate, DeleteItemAppraisals, DeleteItemInquiries, PostListing,
      PostListingMark, PutListing, DeleteListing, Publish, PostSale, PostSaleMark, PutSale,
      PutSaleUpdate, DeleteSale, DeleteSaleReset, DeleteSaleRow, Webhook, WebhookSale,
      WebhookItem, WebhookListing, PostAppraisal, DeleteAppraisal, PostInquiry,
      PostInquiryInsert, Crash, table, trail, seen

LEMMA AccountsStay ==
  ASSUME BaseInv, Next
  PROVE  /\ \A i : Listed(i) => Listed(i)'
         /\ \A i \in items : \A s : Accounted(i, s) => Accounted(i, s)'
<1>1. Remembers /\ Keeps /\ \A i : Entered(i) => Entered(i)'
  BY RemembersStep, KeepsStep, ReasonsStay DEF BaseInv
<1>2. nListing \in Nat /\ nListing' \in Nat
  BY TypeOKStep DEF BaseInv, TypeOK, ListingsOK
<1>3. ASSUME NEW i, Listed(i) PROVE Listed(i)'
  BY <1>1, <1>2, <1>3 DEF Listed, Keeps
<1>4. ASSUME NEW i \in items, NEW s, Accounted(i, s) PROVE Accounted(i, s)'
  <2>1. i \in ItemId
    BY ItemsAreIds DEF BaseInv, TypeOK
  <2>2. CASE <<i, s>> \in history
    BY <1>1, <2>1, <2>2 DEF Remembers, Accounted
  <2>3. CASE s = born[i]
    BY <1>1, <2>3 DEF Remembers, Accounted
  <2>4. CASE s = "listed" /\ Listed(i)
    BY <1>3, <2>4 DEF Listed, Accounted
  <2>5. CASE s \in {"sold", "inventory"} /\ Entered(i)
    BY <1>1, <2>5 DEF Accounted
  <2>6. CASE deletion[i] # "none"
    BY <1>1, <2>1, <2>6 DEF Remembers, Accounted
  <2> QED
    BY <1>4, <2>2, <2>3, <2>4, <2>5, <2>6 DEF Accounted, Listed
<1> QED
  BY <1>3, <1>4

LEMMA StatusesStep ==
  ASSUME BaseInv, SoldInv, AccountInv, Next PROVE StatusesAreAccountedFor'
<1>1. \A i \in items : \A s : Accounted(i, s) => Accounted(i, s)'
  BY AccountsStay
<1>2. \A i \in items : Accounted(i, status[i])'  \/ status'[i] # status[i]
  BY <1>1 DEF AccountInv, StatusesAreAccountedFor
<1>3. items \subseteq ItemId /\ status \in [ItemId -> Status] /\ nItem \in Nat
  BY ItemsAreIds DEF BaseInv, TypeOK, ItemsOK
<1>4. ASSUME NEW s, InsertItem(s) PROVE StatusesAreAccountedFor'
  <2>1. nItem + 1 \in ItemId /\ nItem + 1 \notin items
    BY <1>4, MarketplaceAssumption DEF InsertItem, BaseInv, TypeOK, ItemsOK, ItemId
  <2>2. status'[nItem + 1] = born'[nItem + 1]
    BY <1>3, <1>4, <2>1 DEF InsertItem, BaseInv, TypeOK, SeenOK
  <2>3. PICK k : k = nItem + 1
    OBVIOUS
  <2>4. Accounted(k, status[k])'
    BY <2>2, <2>3 DEF Accounted
  <2>5. ASSUME NEW i \in items PROVE Accounted(i, status[i])'
    <3>1. status'[i] = status[i]
      BY <1>3, <1>4, <2>1 DEF InsertItem
    <3> QED
      BY <1>2, <3>1
  <2>6. items' = items \cup {k}
    BY <1>4, <2>3 DEF InsertItem
  <2> QED
    BY <2>4, <2>5, <2>6 DEF StatusesAreAccountedFor
<1>5. ASSUME items' \subseteq items, UNCHANGED status PROVE StatusesAreAccountedFor'
  BY <1>2, <1>5 DEF StatusesAreAccountedFor
<1>6. ASSUME NEW j, NEW s, SetStatus(j, s), UNCHANGED items, j \in items => Accounted(j, s)
      PROVE  StatusesAreAccountedFor'
  <2>1. j \in items => Accounted(j, s)'
    BY <1>1, <1>6
  <2>2. \A i \in items : status'[i] = IF i = j THEN s ELSE status[i]
    BY <1>3, <1>6 DEF SetStatus
  <2>3. ASSUME NEW i \in items PROVE Accounted(i, status[i])'
    <3>1. CASE i # j
      BY <1>2, <2>2, <3>1
    <3>2. CASE i = j
      <4>1. status'[i] = s
        BY <2>2, <3>2
      <4>2. Accounted(j, s)'
        BY <2>1, <3>2
      <4> QED
        BY <3>2, <4>1, <4>2 DEF Accounted
    <3> QED
      BY <3>1, <3>2
  <2> QED
    BY <1>6, <2>3 DEF StatusesAreAccountedFor
<1>7. ASSUME NEW t \in Thread, PostItem(t) \/ CopyItem(t) PROVE StatusesAreAccountedFor'
  BY <1>4, <1>5, <1>7 DEF PostItem, CopyItem
<1>8. ASSUME NEW t \in Thread, PostSaleMark(t) \/ WebhookItem(t) PROVE StatusesAreAccountedFor'
  <2>1. Accounted(arg[t].item, "sold")
    BY <1>8 DEF PostSaleMark, WebhookItem, SoldInv, ReasonsOK, Reasons, Accounted
  <2> QED
    BY <1>6, <1>8, <2>1 DEF PostSaleMark, WebhookItem
<1>9. ASSUME NEW t \in Thread, PutItemUpdate(t) PROVE StatusesAreAccountedFor'
  <2>1. arg[t].item \in items => Accounted(arg[t].item, arg[t].new)
    BY <1>9 DEF PutItemUpdate, AccountInv, ExplainsOK, Explains
  <2> QED
    BY <1>6, <1>9, <2>1 DEF PutItemUpdate
<1>10. ASSUME NEW t \in Thread, PostListingMark(t) PROVE StatusesAreAccountedFor'
  <2>1. Accounted(arg[t].item, "listed")
    BY <1>10 DEF PostListingMark, AccountInv, ExplainsOK, Explains, Listed, Accounted
  <2> QED
    BY <1>6, <1>10, <2>1 DEF PostListingMark
<1>11. ASSUME NEW t \in Thread, DeleteSaleReset(t) PROVE StatusesAreAccountedFor'
  <2>1. Accounted(arg[t].item, "inventory")
    BY <1>11 DEF DeleteSaleReset, AccountInv, ExplainsOK, Explains, Accounted
  <2> QED
    BY <1>6, <1>11, <2>1 DEF DeleteSaleReset
<1>12. ASSUME NEW t \in Thread, DeleteItemRow(t) PROVE StatusesAreAccountedFor'
  BY <1>5, <1>12 DEF DeleteItemRow
<1> QED
  BY <1>5, <1>7, <1>8, <1>9, <1>10, <1>11, <1>12
  DEF Next, ItemStep, ListingStep, SaleStep, PostItemId, PostItemSku, PutItem,
      PutItemAudit, PutItemAuditOther, DeleteItem, DeleteItemAppraisals,
      DeleteItemInquiries, PostListing, PutListing, DeleteListing, Publish, PostSale,
      PutSale, PutSaleUpdate, DeleteSale, DeleteSaleRow, Webhook, WebhookSale,
      WebhookListing, PostAppraisal, DeleteAppraisal, PostInquiry, PostInquiryInsert,
      Crash, table

LEMMA ExplainsOKStep ==
  ASSUME BaseInv, AccountInv, Next PROVE ExplainsOK'
<1>1. /\ \A i : (Listed(i) => Listed(i)') /\ (Entered(i) => Entered(i)')
      /\ \A i \in items : \A s : Accounted(i, s) => Accounted(i, s)'
      /\ Remembers
  BY AccountsStay, ReasonsStay, RemembersStep
<1>2. ASSUME NEW u \in Thread, arg'[u] = arg[u],
             pc'[u] = pc[u] \/ (pc[u] = "put_other" /\ pc'[u] = "put_update")
      PROVE  Explains(u)'
  <2>1. Explains(u)
    BY DEF AccountInv, ExplainsOK
  <2>2. ASSUME pc'[u] \in {"put_other", "put_update"}, arg[u].item \in items'
        PROVE  Accounted(arg[u].item, arg[u].new)'
    <3>1. arg[u].item \in 1..nItem
      BY <1>2, <2>2 DEF BaseInv, HoldingOK, Held, Putting
    <3>2. arg[u].item \in items
      BY <1>1, <2>2, <3>1 DEF Remembers
    <3>3. Accounted(arg[u].item, arg[u].new)
      BY <1>2, <2>1, <2>2, <3>2 DEF Explains
    <3> DEFINE i == arg[u].item
               s == arg[u].new
    <3>4. i = arg'[u].item /\ s = arg'[u].new
      BY <1>2
    <3>5. PICK k, z : k = i /\ z = s
      OBVIOUS
    <3>6. Accounted(k, z)'
      BY <1>1, <3>2, <3>3, <3>5
    <3> QED
      BY <3>4, <3>5, <3>6, <1>2 DEF Accounted
  <2>3. pc'[u] = "list_mark" => Listed(arg[u].item)'
    <3>1. PICK k : k = arg[u].item
      OBVIOUS
    <3>2. pc'[u] = "list_mark" => Listed(k)'
      BY <1>1, <1>2, <2>1, <3>1 DEF Explains
    <3> QED
      BY <1>2, <3>1, <3>2 DEF Listed
  <2>4. pc'[u] = "void_reset" => Entered(arg[u].item)'
    <3>1. PICK k : k = arg[u].item
      OBVIOUS
    <3>2. pc'[u] = "void_reset" => Entered(k)'
      BY <1>1, <1>2, <2>1, <3>1 DEF Explains
    <3> QED
      BY <1>2, <3>1, <3>2 DEF Entered
  <2> QED
    BY <1>2, <2>2, <2>3, <2>4 DEF Explains
<1>3. pc \in [Thread -> Label] /\ arg \in [Thread -> Arg]
  BY DEF BaseInv, TypeOK, ThreadOK
<1>4. ASSUME NEW t \in Thread, NEW label, NEW a, Goes(t, label, a), Explains(t)'
      PROVE  ExplainsOK'
  <2>1. \A u \in Thread \ {t} : pc'[u] = pc[u] /\ arg'[u] = arg[u]
    BY <1>3, <1>4 DEF Goes
  <2> QED
    BY <1>2, <1>4, <2>1 DEF ExplainsOK
<1>5. ASSUME NEW t \in Thread, NEW label, NEW a, Goes(t, label, a)
      PROVE  pc'[t] = label /\ arg'[t] = a
  BY <1>3, <1>5 DEF Goes
<1>6. ASSUME NEW t \in Thread, NEW a, NEW label, Goes(t, label, a),
             label \notin {"put_other", "put_update", "list_mark", "void_reset"}
      PROVE  ExplainsOK'
  <2>1. Explains(t)'
    BY <1>5, <1>6 DEF Explains
  <2> QED
    BY <1>4, <1>6, <2>1
<1>7. ASSUME NEW t \in Thread,
             \/ PostItem(t) \/ PostItemId(t) \/ DeleteItem(t) \/ DeleteItemAppraisals(t)
             \/ DeleteItemInquiries(t) \/ PutSale(t) \/ DeleteSaleReset(t) \/ Webhook(t)
             \/ PostInquiry(t) \/ Answers(t) \/ PostSale(t) \/ WebhookSale(t)
             \/ WebhookItem(t)
      PROVE  ExplainsOK'
  BY <1>6, <1>7
  DEF PostItem, PostItemId, DeleteItem, DeleteItemAppraisals, DeleteItemInquiries,
      PutSale, DeleteSaleReset, Webhook, PostInquiry, Answers, PostSale, WebhookSale,
      WebhookItem
<1>8. ASSUME NEW t \in Thread, PutItem(t) PROVE ExplainsOK'
  <2>1. PICK i \in items : \E new \in Written \cup {status[i]} :
           \E next \in IF new = status[i] THEN {"put_other", "put_update"} ELSE {"put_audit"} :
              Goes(t, next, Editing(i, status[i], new))
    BY <1>8 DEF PutItem
  <2>2. PICK new \in Written \cup {status[i]} :
           \E next \in IF new = status[i] THEN {"put_other", "put_update"} ELSE {"put_audit"} :
              Goes(t, next, Editing(i, status[i], new))
    BY <2>1
  <2>3. PICK next : /\ Goes(t, next, Editing(i, status[i], new))
                    /\ \/ new = status[i] /\ next \in {"put_other", "put_update"}
                       \/ next = "put_audit"
    BY <2>2
  <2>4. pc'[t] = next /\ arg'[t].item = i /\ arg'[t].new = new
    BY <1>5, <2>3 DEF Editing, Local
  <2>5. new = status[i] => Accounted(i, new)'
    BY <1>1 DEF AccountInv, StatusesAreAccountedFor
  <2>6. Explains(t)'
    <3>1. CASE next = "put_audit"
      BY <2>4, <3>1 DEF Explains
    <3>2. CASE next \in {"put_other", "put_update"} /\ new = status[i]
      <4>1. Accounted(arg[t].item, arg[t].new)'
        BY <2>4, <2>5, <3>2 DEF Accounted
      <4> QED
        BY <2>4, <3>2, <4>1 DEF Explains
    <3> QED
      BY <2>3, <3>1, <3>2
  <2> QED
    BY <1>4, <2>3, <2>6
<1>9. ASSUME NEW t \in Thread, PutItemAudit(t) PROVE ExplainsOK'
  <2>1. PICK next \in {"put_other", "put_update"} : Goes(t, next, arg[t])
    BY <1>9 DEF PutItemAudit
  <2>2. arg'[t] = arg[t] /\ pc'[t] = next /\ UNCHANGED items
    BY <1>5, <1>9, <2>1 DEF PutItemAudit, table
  <2>3. arg[t].item \in items => <<arg[t].item, arg[t].new>> \in history'
    BY <1>9 DEF PutItemAudit, AuditChange
  <2>4. Explains(t)'
    BY <2>2, <2>3 DEF Explains, Accounted
  <2> QED
    BY <1>4, <2>1, <2>4
<1>10. ASSUME NEW t \in Thread, PutItemAuditOther(t) PROVE ExplainsOK'
  <2>1. pc'[t] = "put_update" /\ arg'[t] = arg[t] /\ pc[t] = "put_other"
    BY <1>5, <1>10 DEF PutItemAuditOther
  <2>2. Explains(t)'
    BY <1>2, <2>1
  <2> QED
    BY <1>4, <1>10, <2>2 DEF PutItemAuditOther
<1>11. ASSUME NEW t \in Thread, PostListing(t) PROVE ExplainsOK'
  <2>1. PICK i \in items :
           /\ nListing' = nListing + 1
           /\ listing' = [listing EXCEPT ![nListing + 1] = ListingOf(i, "active", "local")]
           /\ Goes(t, "list_mark", AtItem(i))
    BY <1>11 DEF PostListing
  <2>2. nListing \in Nat /\ nListing + 1 \in ListingId
    BY <1>11, MarketplaceAssumption DEF PostListing, ListingId, BaseInv, TypeOK, ListingsOK
  <2>3. listing'[nListing + 1].item = i
    BY <2>1, <2>2 DEF BaseInv, TypeOK, ListingsOK, ListingOf
  <2>4. pc'[t] = "list_mark" /\ arg'[t].item = i
    BY <1>5, <2>1 DEF AtItem, Local
  <2>5. nListing + 1 \in 1..nListing'
    BY <2>1, <2>2
  <2>6. Listed(arg[t].item)'
    BY <2>3, <2>4, <2>5 DEF Listed
  <2>7. Explains(t)'
    BY <2>4, <2>6 DEF Explains
  <2> QED
    BY <1>4, <2>1, <2>7
<1>12. ASSUME NEW t \in Thread, DeleteSale(t) PROVE ExplainsOK'
  <2>1. PICK s \in sales : Goes(t, "void_reset", AtRow(s, sale[s].item, 0, 0))
    BY <1>12 DEF DeleteSale
  <2>2. pc'[t] = "void_reset" /\ arg'[t].item = sale[s].item
    BY <1>5, <2>1 DEF AtRow, Local
  <2>3. UNCHANGED <<sales, sale, voided>>
    BY <1>12 DEF DeleteSale, table, seen
  <2>4. Entered(arg[t].item)'
    BY <2>2, <2>3 DEF Entered
  <2>5. Explains(t)'
    BY <2>2, <2>4 DEF Explains
  <2> QED
    BY <1>4, <2>1, <2>5
<1>13. ASSUME Crash PROVE ExplainsOK'
  BY <1>13 DEF Crash, ExplainsOK, Explains
<1>14. ASSUME UNCHANGED thread PROVE ExplainsOK'
  BY <1>2, <1>14 DEF thread, ExplainsOK
<1> QED
  BY <1>7, <1>8, <1>9, <1>10, <1>11, <1>12, <1>13, <1>14
  DEF Next, ItemStep, ListingStep, SaleStep, PostItemSku, CopyItem, PutItemUpdate,
      DeleteItemRow, PostListingMark, PutListing, DeleteListing, Publish, PostSaleMark,
      PutSaleUpdate, DeleteSaleRow, WebhookListing, PostAppraisal, DeleteAppraisal,
      PostInquiryInsert

\* No item comes to have a status that nothing on record accounts for, whatever the
\* threads interleave and wherever the process ends.
THEOREM StatusesStayAccountedFor == Spec => []StatusesAreAccountedFor
<1>1. ASSUME Init PROVE AccountInv
  <2>1. \A t \in Thread : pc[t] = "idle"
    BY <1>1 DEF Init
  <2>2. born = status
    BY <1>1 DEF Init
  <2> QED
    BY <2>1, <2>2 DEF AccountInv, ExplainsOK, Explains, StatusesAreAccountedFor, Accounted
<1>2. BaseInv /\ SoldInv /\ AccountInv /\ [Next]_vars => AccountInv'
  <2>1. ASSUME BaseInv, SoldInv, AccountInv, Next PROVE AccountInv'
    BY <2>1, StatusesStep, ExplainsOKStep DEF AccountInv
  <2>2. ASSUME AccountInv, UNCHANGED vars PROVE AccountInv'
    BY <2>2 DEF AccountInv, StatusesAreAccountedFor, Accounted, ExplainsOK, Explains, Listed,
      Entered, vars, table, trail, thread, seen
  <2> QED
    BY <2>1, <2>2
<1>3. AccountInv => StatusesAreAccountedFor
  BY DEF AccountInv
<1> QED
  BY <1>1, <1>2, <1>3, BaseInvariant, SoldInvariant, PTL DEF Spec

(***************************************************************************)
(* The sales table implements the ledger: an INSERT enters a sale, a PUT   *)
(* amends one that is there, a DELETE strikes one out, and no other step   *)
(* shows in the book.                                                      *)
(***************************************************************************)
EntryIn(kept, row, s) ==
    IF s \in kept
    THEN [kept |-> TRUE, item |-> row[s].item, price |-> row[s].price,
          cost |-> row[s].cost, net |-> row[s].net]
    ELSE [kept |-> FALSE]

LEMMA BookIs ==
  /\ Book = [s \in 1..nSale |-> EntryIn(sales, sale, s)]
  /\ Book' = [s \in 1..nSale' |-> EntryIn(sales', sale', s)]
  BY DEF Book, EntryIn

LEMMA AppendIs ==
  ASSUME NEW S, NEW n \in Nat, NEW f \in [1..n -> S], NEW e \in S,
         NEW g \in [1..n + 1 -> S], \A s \in 1..n : g[s] = f[s], g[n + 1] = e
  PROVE  g = Append(f, e)
<1>1. f \in Seq(S) /\ g \in Seq(S) /\ Len(f) = n /\ Len(g) = n + 1
  BY SeqDef
<1>2. /\ Append(f, e) \in Seq(S) /\ Len(Append(f, e)) = n + 1
      /\ \A s \in 1..n : Append(f, e)[s] = f[s]
      /\ Append(f, e)[n + 1] = e
  BY <1>1, AppendProperties
<1>3. \A s \in 1..n + 1 : g[s] = Append(f, e)[s]
  BY <1>2
<1> QED
  BY <1>1, <1>2, <1>3, SeqEqual

LEMMA EntersInLedger ==
  ASSUME TypeOK, NEW i \in ItemId, NEW p \in Price, NEW c \in Cost, InsertSale(i, p, c)
  PROVE  Ledger!Next
<1> DEFINE e == Ledger!Entry(i, p, c)
           S == {Book[s] : s \in 1..nSale} \cup {e}
<1>1. nSale \in Nat /\ nSale' = nSale + 1 /\ nSale + 1 \in SaleId /\ nSale + 1 \notin sales
  BY MarketplaceAssumption DEF InsertSale, TypeOK, SalesOK, SaleId
<1>2. /\ sales' = sales \cup {nSale + 1}
      /\ \A s \in sales : sale'[s] = sale[s]
      /\ sale'[nSale + 1] = SaleOf(i, p, c)
  BY <1>1, SalesAreIds DEF InsertSale, TypeOK, SalesOK
<1>3. \A s \in 1..nSale : Book'[s] = Book[s]
  <2>1. \A s \in 1..nSale : s # nSale + 1 /\ s \in 1..nSale + 1
    BY <1>1
  <2>2. \A s \in 1..nSale : EntryIn(sales', sale', s) = EntryIn(sales, sale, s)
    BY <1>2, <2>1 DEF EntryIn
  <2> QED
    BY <1>1, <2>1, <2>2, BookIs
<1>4. Book'[nSale + 1] = e
  <2>1. EntryIn(sales', sale', nSale + 1) = e
    BY <1>2 DEF EntryIn, SaleOf, Ledger!Entry
  <2>2. nSale + 1 \in 1..nSale + 1
    BY <1>1
  <2> QED
    BY <1>1, <2>1, <2>2, BookIs
<1>5. Book \in [1..nSale -> S]
  BY BookIs
<1>6. Book' \in [1..nSale + 1 -> S]
  <2>1. \A s \in 1..nSale + 1 : s \in 1..nSale \/ s = nSale + 1
    BY <1>1
  <2>2. \A s \in 1..nSale + 1 : Book'[s] \in S
    BY <1>3, <1>4, <2>1
  <2>3. Book' = [s \in 1..nSale + 1 |-> Book'[s]]
    BY <1>1, BookIs
  <2> QED
    BY <2>2, <2>3
<1> HIDE DEF S, e
<1>7. e \in S
  BY DEF S
<1>8. Book' = Append(Book, e)
  BY <1>1, <1>3, <1>4, <1>5, <1>6, <1>7, AppendIs
<1> QED
  BY <1>8 DEF e, Ledger!Next, Ledger!Enter

LEMMA AmendsInLedger ==
  ASSUME BaseInv, NEW t \in Thread, PutSaleUpdate(t)
  PROVE  Ledger!Next \/ UNCHANGED Book
<1> DEFINE k == arg[t].ref
           p == arg[t].price
           c == arg[t].cost
<1> USE DEF BaseInv, TypeOK
<1>1. nSale' = nSale /\ sales' = sales
  BY DEF PutSaleUpdate
<1>2. CASE k \in sales
  <2>1. k \in 1..nSale /\ k \in SaleId
    BY <1>2, SalesAreIds DEF SalesOK
  <2>2. p \in Price /\ c \in Cost
    BY DEF PutSaleUpdate, HoldingOK, Held
  <2>3. sale' = [sale EXCEPT ![k] = SaleOf(sale[k].item, p, c)]
    BY <1>2 DEF PutSaleUpdate
  <2> HIDE DEF k, p, c
  <2>4. sale'[k] = SaleOf(sale[k].item, p, c) /\ \A s \in sales \ {k} : sale'[s] = sale[s]
    BY <2>1, <2>3, SalesAreIds DEF SalesOK
  <2>5. Book[k].kept /\ Book[k].item = sale[k].item
    BY <1>2, <2>1, BookIs DEF EntryIn
  <2>6. EntryIn(sales, sale', k) = Ledger!Entry(sale[k].item, p, c)
    BY <1>2, <2>4 DEF EntryIn, SaleOf, Ledger!Entry
  <2>7. \A s \in 1..nSale : s # k => EntryIn(sales, sale', s) = EntryIn(sales, sale, s)
    BY <2>4 DEF EntryIn
  <2>8. Book' = [Book EXCEPT ![k] = Ledger!Entry(Book[k].item, p, c)]
    BY <1>1, <2>1, <2>5, <2>6, <2>7, BookIs
  <2>9. k \in DOMAIN Book
    BY <2>1, BookIs
  <2> QED
    BY <2>2, <2>5, <2>8, <2>9 DEF Ledger!Next, Ledger!Amend
<1>3. CASE k \notin sales
  BY <1>1, <1>3, BookIs DEF PutSaleUpdate
<1> QED
  BY <1>2, <1>3

LEMMA StrikesOutInLedger ==
  ASSUME BaseInv, NEW t \in Thread, DeleteSaleRow(t)
  PROVE  Ledger!Next \/ UNCHANGED Book
<1> DEFINE k == arg[t].ref
<1> USE DEF BaseInv, TypeOK
<1>1. nSale' = nSale /\ sales' = sales \ {k} /\ sale' = [sale EXCEPT ![k] = NoSale]
  BY DEF DeleteSaleRow
<1>2. k \in 1..nSale
  BY DEF DeleteSaleRow, HoldingOK, Held, Voiding
<1> HIDE DEF k
<1>3. \A s \in sales : s # k => sale'[s] = sale[s]
  BY <1>1, SalesAreIds DEF SalesOK
<1>4. \A s \in 1..nSale : s # k => EntryIn(sales', sale', s) = EntryIn(sales, sale, s)
  BY <1>1, <1>3 DEF EntryIn
<1>5. EntryIn(sales', sale', k) = Ledger!StruckOut
  BY <1>1 DEF EntryIn, Ledger!StruckOut
<1>6. Book' = [Book EXCEPT ![k] = Ledger!StruckOut]
  BY <1>1, <1>2, <1>4, <1>5, BookIs
<1>7. k \in DOMAIN Book
  BY <1>2, BookIs
<1> QED
  BY <1>6, <1>7 DEF Ledger!Next, Ledger!StrikeOut

LEMMA LedgerStep ==
  ASSUME BaseInv, [Next]_vars PROVE Ledger!Next \/ UNCHANGED Book
<1>1. items \subseteq ItemId
  BY ItemsAreIds DEF BaseInv, TypeOK
<1>2. ASSUME NEW t \in Thread, PostSale(t) PROVE Ledger!Next
  BY <1>1, <1>2, EntersInLedger DEF PostSale, BaseInv
<1>3. ASSUME UNCHANGED <<sales, sale, nSale>> PROVE UNCHANGED Book
  BY <1>3, BookIs
<1>4. ASSUME NEW t \in Thread, WebhookSale(t) PROVE Ledger!Next \/ UNCHANGED Book
  <2>1. CASE arg[t].item \in items
    <3>1. arg[t].item \in ItemId /\ arg[t].price \in Price /\ 0 \in Cost
      BY <1>1, <1>4, <2>1, MarketplaceAssumption
      DEF WebhookSale, BaseInv, HoldingOK, Held, Hooking
    <3>2. InsertSale(arg[t].item, arg[t].price, 0)
      BY <1>4, <2>1 DEF WebhookSale
    <3> QED
      BY <3>1, <3>2, EntersInLedger DEF BaseInv
  <2>2. CASE arg[t].item \notin items
    BY <1>3, <1>4, <2>2 DEF WebhookSale
  <2> QED
    BY <2>1, <2>2
<1>5. ASSUME NEW t \in Thread, PutSaleUpdate(t) PROVE Ledger!Next \/ UNCHANGED Book
  BY <1>5, AmendsInLedger
<1>6. ASSUME NEW t \in Thread, DeleteSaleRow(t) PROVE Ledger!Next \/ UNCHANGED Book
  BY <1>6, StrikesOutInLedger
<1> QED
  BY <1>2, <1>3, <1>4, <1>5, <1>6
  DEF Next, ItemStep, ListingStep, SaleStep, PostItem, PostItemId, PostItemSku, CopyItem,
      PutItem, PutItemAudit, PutItemAuditOther, PutItemUpdate, DeleteItem,
      DeleteItemAppraisals, DeleteItemInquiries, DeleteItemRow, PostListing,
      PostListingMark, PutListing, DeleteListing, Publish, PostSaleMark, PutSale,
      DeleteSale, DeleteSaleReset, Webhook, WebhookItem, WebhookListing, PostAppraisal,
      DeleteAppraisal, PostInquiry, PostInquiryInsert, Crash, vars, table

\* The sales table is a ledger whatever its writers interleave: see LedgerSpec.
THEOREM SalesAreALedger == Spec => LedgerSpec
<1>1. Init => Ledger!Init
  <2>1. ASSUME Init PROVE Book = <<>>
    BY <2>1, BookIs DEF Init
  <2> QED
    BY <2>1 DEF Ledger!Init
<1>2. BaseInv /\ [Next]_vars => [Ledger!Next]_Book
  BY LedgerStep
<1> QED
  BY <1>1, <1>2, BaseInvariant, PTL DEF Spec, LedgerSpec, Ledger!Spec
=============================================================================
