----------------------------- MODULE PlatformSync -----------------------------
(***************************************************************************)
(* What app_sync.cpp does with the listings of one item: the thread that   *)
(* polls, the threads of /api/sync/push and /api/sync/push-all, the        *)
(* adapters of the channels, the webhook, and what the channels have on    *)
(* offer.  Each adapter reads the listing in one statement, calls the      *)
(* channel, and writes what it was answered in another.  The sales the     *)
(* webhook enters are in Marketplace.                                      *)
(***************************************************************************)
EXTENDS Integers, FiniteSets, FiniteSetsExt

CONSTANTS Channel,    \* listings.channel
          Adapter,    \* the channels with an adapter
          Configured, \* those whose adapter has its credentials
          Keyed,      \* those whose offers go by the item's SKU (eBay)
          Enabled,    \* sync.*.enabled
          Poll,       \* the thread that polls
          Client,     \* the threads of pushes
          Limit,      \* how many listings a poll takes
          MaxListing, \* bound: the listings
          MaxOffer,   \* bound: the offers the channels number
          MaxPush,    \* bound: the pushes that clients ask for
          MaxEvent    \* bound: webhooks, edits and restarts

Listing == 1..MaxListing
Pusher  == Client \cup {Poll}

ASSUME PlatformSyncAssumption ==
    /\ Keyed \subseteq Configured /\ Configured \subseteq Adapter /\ Adapter \subseteq Channel
    /\ Enabled \subseteq Channel /\ Channel # {}
    /\ Poll \notin Client
    /\ Limit \in Nat \ {0}
    /\ MaxListing \in Nat /\ MaxOffer \in Nat /\ MaxOffer >= MaxListing
    /\ MaxPush \in Nat /\ MaxEvent \in Nat

\* External ids: none, the SKU, or a number the channel gives.
NoId     == 0
Sku      == -1
Number   == 1..MaxOffer
External == {NoId, Sku} \cup Number

VARIABLES
    row,      \* the rows of listings, by id
    offer,    \* what the channels have on offer, and for which listing
    nOffer,
    pc,       \* the statement each pusher executes next
    job,      \* its local variables
    hooks,    \* the listings that webhooks have found and not yet marked
    pushes, events,
    stranded, \* observer: the listings whose channel was changed, or whose push was
              \* cut off by a crash
    unsure    \* observer: the listings pushed twice at a time, or whose channel's answer
              \* did not say what it did

pushers == <<pc, job>>
bounds  == <<pushes, events>>
seen    == <<stranded, unsure>>
vars    == <<row, offer, nOffer, pushers, hooks, bounds, seen>>

\* `active' is status='active', `fresh' that the last push is no older than half an hour.
ListingRow(c, a, s, e, f) == [channel |-> c, active |-> a, sync |-> s, ext |-> e, fresh |-> f]

OfferOf(c, id, l) == [channel |-> c, id |-> id, listing |-> l]

(***************************************************************************)
(* A pusher holds the listings to go, with the channels it read, whether   *)
(* it reads the channel again, the one it is at, the external id it read   *)
(* of it, and the channel's answer: the id to write, or that it failed.    *)
(***************************************************************************)
Job(todo, again, at, c, e, ok) ==
    [todo |-> todo, again |-> again, at |-> at, channel |-> c, ext |-> e, ok |-> ok]

AnyChannel == CHOOSE c \in Channel : TRUE

NoJob == Job({}, FALSE, 0, AnyChannel, NoId, FALSE)

Goes(p, label, j) ==
    /\ pc'  = [pc EXCEPT ![p] = label]
    /\ job' = [job EXCEPT ![p] = j]

\* The next of the listings to go, if there is one.
Rest(p, todo) == Job(todo, job[p].again, 0, AnyChannel, NoId, FALSE)

\* The row that POST /api/listings inserts.
New(c) == ListingRow(c, TRUE, "local", NoId, FALSE)

\* The row a push left behind more than half an hour before the server started, and the
\* offer it made.
Pushed(c, l) == ListingRow(c, TRUE, "synced", IF c \in Keyed THEN Sku ELSE l, FALSE)

Init ==
    /\ \E old \in SUBSET Listing, c \in [Listing -> Channel] :
         /\ \A l \in old : c[l] \in Configured
         /\ row = [l \in Listing |-> IF l \in old THEN Pushed(c[l], l) ELSE New(c[l])]
         /\ offer = {OfferOf(c[l], Pushed(c[l], l).ext, l) : l \in old}
    /\ nOffer = MaxListing
    /\ pc = [p \in Pusher |-> "idle"] /\ job = [p \in Pusher |-> NoJob]
    /\ hooks = {}
    /\ pushes = 0 /\ events = 0
    /\ stranded = {} /\ unsure = {}

-----------------------------------------------------------------------------
(***************************************************************************)
(* Which listings are pushed                                               *)
(***************************************************************************)

\* The poll would take 'pending' too, which no code sets.
IsDue(l) ==
    /\ row[l].active /\ row[l].sync = "synced" /\ ~row[l].fresh
    /\ row[l].channel \in Adapter

\* The table is read in the order of ids, up to the limit.
Polls(due) ==
    /\ pc[Poll] = "idle" /\ due # {}
    /\ LET taken == {l \in due : Cardinality({k \in due : k <= l}) <= Limit}
       IN  Goes(Poll, "next", Job({<<l, row[l].channel>> : l \in taken},
                                  FALSE, 0, AnyChannel, NoId, FALSE))
    /\ UNCHANGED <<row, offer, nOffer, hooks, bounds, seen>>

\* Mutation: the poll takes what was never pushed.
PollListings_New ==
    Polls({l \in Listing : row[l].active /\ row[l].sync = "local"})

PollListings == Polls({l \in Listing : IsDue(l)})

Asked ==
    /\ pushes < MaxPush
    /\ pushes' = pushes + 1
    /\ UNCHANGED events

\* POST /api/sync/push: whatever the listing's status.
Push(p) ==
    /\ pc[p] = "idle" /\ Asked
    /\ \E l \in Listing :
         Goes(p, "next", Job({<<l, row[l].channel>>}, FALSE, 0, AnyChannel, NoId, FALSE))
    /\ UNCHANGED <<row, offer, nOffer, hooks, seen>>

\* POST /api/sync/push-all, for a channel or for all.
PushAll(p) ==
    /\ pc[p] = "idle" /\ Asked
    /\ \E cs \in {{c} : c \in Channel} \cup {Channel} :
         LET ls == {l \in Listing : /\ row[l].active /\ row[l].sync # "syncing"
                                    /\ row[l].channel \in cs}
         IN  Goes(p, "next", Job({<<l, row[l].channel>> : l \in ls},
                                 TRUE, 0, AnyChannel, NoId, FALSE))
    /\ UNCHANGED <<row, offer, nOffer, hooks, seen>>

\* The poll passes over the listings of channels that are not enabled.
Take(p) ==
    /\ pc[p] = "next"
    /\ \E x \in job[p].todo :
         LET l    == x[1]
             c    == IF job[p].again THEN row[l].channel ELSE x[2]
             rest == job[p].todo \ {x}
         IN  /\ \A y \in rest : l < y[1]
             /\ IF p = Poll /\ c \notin Enabled
                THEN Goes(p, "next", Rest(p, rest))
                ELSE Goes(p, "mark", Job(rest, job[p].again, l, c, NoId, FALSE))
    /\ UNCHANGED <<row, offer, nOffer, hooks, bounds, seen>>

AllPushed(p) ==
    /\ pc[p] = "next" /\ job[p].todo = {}
    /\ Goes(p, "idle", NoJob)
    /\ UNCHANGED <<row, offer, nOffer, hooks, bounds, seen>>

-----------------------------------------------------------------------------
(***************************************************************************)
(* A push of one listing                                                   *)
(***************************************************************************)

\* Mutation: a channel without an adapter goes to the one tried last.
Mark_LastAdapter(p) ==
    /\ pc[p] = "mark"
    /\ row' = [row EXCEPT ![job[p].at].sync = "syncing"]
    /\ Goes(p, "load", job[p])
    /\ UNCHANGED <<offer, nOffer, hooks, bounds, seen>>

Mark(p) ==
    /\ pc[p] = "mark"
    /\ row' = [row EXCEPT ![job[p].at].sync = "syncing"]
    /\ Goes(p, IF job[p].channel \in Adapter THEN "load" ELSE "save", job[p])
    /\ UNCHANGED <<offer, nOffer, hooks, bounds, seen>>

\* Those who are between Load and Save of the listing.
Pushing(l) == {p \in Pusher : pc[p] \in {"send", "save"} /\ job[p].at = l}

\* What an adapter goes on with, having read the external id.
Loaded(p, e) ==
    LET j == job[p]
    IN  /\ IF row[j.at].channel # j.channel
           THEN Goes(p, "next", Rest(p, j.todo))
           ELSE Goes(p, IF j.channel \in Configured THEN "send" ELSE "save",
                     [j EXCEPT !.ext = e])
        /\ unsure' = IF Pushing(j.at) # {} THEN unsure \cup {j.at} ELSE unsure

\* Mutation: the external id is not read.
Load_New(p) ==
    /\ pc[p] = "load"
    /\ Loaded(p, NoId)
    /\ UNCHANGED <<row, offer, nOffer, hooks, bounds, stranded>>

\* Mutation: the row is looked for by its item and its channel.
Load_ByItem(p) ==
    /\ pc[p] = "load"
    /\ LET ls == {l \in Listing : row[l].channel = job[p].channel}
       IN  Loaded(p, IF ls = {} THEN NoId ELSE row[Min(ls)].ext)
    /\ UNCHANGED <<row, offer, nOffer, hooks, bounds, stranded>>

\* The adapter looks for a listing of its own channel, and returns if it is of another by
\* now.
Load(p) ==
    /\ pc[p] = "load"
    /\ Loaded(p, row[job[p].at].ext)
    /\ UNCHANGED <<row, offer, nOffer, hooks, bounds, stranded>>

\* The channel creates the offer, under a new number or under the SKU.
Creates(j) ==
    \E id \in IF j.channel \in Keyed THEN {Sku} ELSE {nOffer + 1} \cap Number :
      /\ offer'  = offer \cup {OfferOf(j.channel, id, j.at)}
      /\ nOffer' = IF id = Sku THEN nOffer ELSE id

\* It changes the offer with that number, if it has it.
Changes(j) ==
    /\ \E o \in offer : o.channel = j.channel /\ o.id = j.ext
    /\ UNCHANGED <<offer, nOffer>>

Answered(p, e) == Goes(p, "save", [job[p] EXCEPT !.ext = e, !.ok = TRUE])

\* The channel does what it is asked and says so, ...
Send(p) ==
    /\ pc[p] = "send"
    /\ LET j == job[p]
       IN  IF j.channel \notin Keyed /\ j.ext # NoId
           THEN Changes(j) /\ Answered(p, j.ext)
           ELSE Creates(j) /\ Answered(p, IF j.channel \in Keyed THEN Sku ELSE nOffer')
    /\ UNCHANGED <<row, hooks, bounds, seen>>

\* ... or does it and the answer is lost or has no id, ...
SendUnanswered(p) ==
    /\ pc[p] = "send"
    /\ job[p].channel \in Keyed \/ job[p].ext = NoId
    /\ Creates(job[p])
    /\ \/ Goes(p, "save", job[p])
       \/ job[p].channel \notin Keyed /\ Answered(p, NoId)
    /\ unsure' = unsure \cup {job[p].at}
    /\ UNCHANGED <<row, hooks, bounds, stranded>>

\* ... or cannot be reached, or refuses.
SendRefused(p) ==
    /\ pc[p] = "send"
    /\ Goes(p, "save", job[p])
    /\ UNCHANGED <<row, offer, nOffer, hooks, bounds, seen>>

\* Mutation: a failure is logged and not written.
Save_LogsOnly(p) ==
    /\ pc[p] = "save"
    /\ LET j == job[p]
       IN  /\ row' = IF j.ok THEN [row EXCEPT ![j.at] = ListingRow(@.channel, @.active, "synced",
                                                                  j.ext, TRUE)]
                             ELSE row
           /\ Goes(p, "next", Rest(p, j.todo))
    /\ UNCHANGED <<offer, nOffer, hooks, bounds, seen>>

Save(p) ==
    /\ pc[p] = "save"
    /\ LET j == job[p]
       IN  /\ row' = [row EXCEPT ![j.at] =
                        IF j.ok THEN ListingRow(@.channel, @.active, "synced", j.ext, TRUE)
                                ELSE [@ EXCEPT !.sync = "error"]]
           /\ Goes(p, "next", Rest(p, j.todo))
    /\ UNCHANGED <<offer, nOffer, hooks, bounds, seen>>

-----------------------------------------------------------------------------
(***************************************************************************)
(* What else changes listings                                              *)
(***************************************************************************)

Happens ==
    /\ events < MaxEvent
    /\ events' = events + 1
    /\ UNCHANGED pushes

\* A channel reports an offer sold: the first listing with its id is looked up ...
WebhookFind ==
    /\ Happens
    /\ \E o \in offer :
         LET ls == {l \in Listing : row[l].ext = o.id}
         IN  ls # {} /\ hooks' = hooks \cup {Min(ls)}
    /\ UNCHANGED <<row, offer, nOffer, pushers, seen>>

\* ... and marked, after the sale is entered.
WebhookMark ==
    /\ \E l \in hooks :
         /\ row'   = [row EXCEPT ![l].active = FALSE, ![l].sync = "sold"]
         /\ hooks' = hooks \ {l}
    /\ UNCHANGED <<offer, nOffer, pushers, bounds, seen>>

\* PUT /api/listings/:id with a status, and DELETE.
PutStatus ==
    /\ Happens
    /\ \E l \in Listing, a \in BOOLEAN : row' = [row EXCEPT ![l].active = a]
    /\ UNCHANGED <<offer, nOffer, pushers, hooks, seen>>

PutChannel ==
    /\ Happens
    /\ \E l \in Listing, c \in Channel :
         /\ row' = [row EXCEPT ![l].channel = c]
         /\ stranded' = stranded \cup {l}
    /\ UNCHANGED <<offer, nOffer, pushers, hooks, unsure>>

\* Half an hour goes by, as often as it likes.
Age ==
    /\ \E l \in Listing : row[l].fresh /\ row' = [row EXCEPT ![l].fresh = FALSE]
    /\ UNCHANGED <<offer, nOffer, pushers, hooks, bounds, seen>>

Crash ==
    /\ Happens
    /\ stranded' = stranded \cup {l \in Listing : \E p \in Pusher : job[p].at = l}
    /\ pc' = [p \in Pusher |-> "idle"] /\ job' = [p \in Pusher |-> NoJob]
    /\ hooks' = {}
    /\ UNCHANGED <<row, offer, nOffer, unsure>>

-----------------------------------------------------------------------------
PushStep(p) == Take(p) \/ AllPushed(p) \/ Mark(p) \/ Load(p)
               \/ Send(p) \/ SendUnanswered(p) \/ SendRefused(p) \/ Save(p)

Next ==
    \/ PollListings
    \/ \E p \in Client : Push(p) \/ PushAll(p)
    \/ \E p \in Pusher : PushStep(p)
    \/ WebhookFind \/ WebhookMark \/ PutStatus \/ PutChannel \/ Age \/ Crash

Spec == Init /\ [][Next]_vars

\* The threads run, and a channel answers or its connection ends.  The thread that polls
\* wakes every minute.
FairSpec ==
    /\ Spec
    /\ WF_vars(PollListings)
    /\ \A p \in Pusher : WF_vars(PushStep(p))

-----------------------------------------------------------------------------
(***************************************************************************)
(* Properties                                                              *)
(***************************************************************************)

RowType ==
    [channel : Channel, active : BOOLEAN,
     sync : {"local", "syncing", "synced", "error", "sold"}, ext : External, fresh : BOOLEAN]

JobType ==
    [todo : SUBSET (Listing \X Channel), again : BOOLEAN, at : {0} \cup Listing,
     channel : Channel, ext : External, ok : BOOLEAN]

\* Rows have the values the statements give them, and a push only goes to a channel that
\* can be pushed to.
TypeOK ==
    /\ row \in [Listing -> RowType]
    /\ offer \subseteq [channel : Configured, id : External \ {NoId}, listing : Listing]
    /\ nOffer \in 0..MaxOffer
    /\ pc \in [Pusher -> {"idle", "next", "mark", "load", "send", "save"}]
    /\ job \in [Pusher -> JobType]
    /\ \A p \in Pusher : pc[p] = "load" => job[p].channel \in Adapter
    /\ \A p \in Pusher : pc[p] = "send" => job[p].channel \in Configured
    /\ hooks \subseteq Listing
    /\ pushes \in 0..MaxPush /\ events \in 0..MaxEvent
    /\ stranded \subseteq Listing /\ unsure \subseteq Listing

\* The external id of a listing is that of an offer made for it, whichever pushes overlap
\* and whatever the channels answer: the webhook goes by it (app_sync.cpp 583-589).
ExternalIdsNameOffers ==
    \A l \in Listing : row[l].ext # NoId =>
        \E o \in offer : o.id = row[l].ext /\ o.listing = l

\* A listing is offered once: the server knows every offer it has made, by the external
\* id of the listing, once the push is over.  It does not where two pushes of a listing
\* overlapped, an answer was lost, a crash cut the push off or the channel was changed
\* (app_sync.cpp 151-182, 213-256).
OffersAreKnown ==
    \A o \in offer :
        \/ row[o.listing].ext = o.id
        \/ o.listing \in stranded \cup unsure
        \/ Pushing(o.listing) # {}

\* Every push ends: a listing does not stay 'syncing', from which neither the poll nor
\* push-all would take it, unless a crash or a change of its channel strands it
\* (app_sync.cpp 405-419).
PushesEnd ==
    \A l \in Listing : row[l].sync = "syncing" ~> row[l].sync # "syncing" \/ l \in stranded

\* The poll takes the listing and its channel is enabled: no more than Limit listings are
\* due that have no greater id.
InFront(l) ==
    /\ IsDue(l) /\ row[l].channel \in Enabled
    /\ Cardinality({k \in Listing : k <= l /\ IsDue(k)}) <= Limit

\* docs/CHANGELOG.md:212: the thread "pushes listings that are active and not synced in
\* the configured interval".  It does push those the limit lets it see: no listing stays
\* in front for ever, whatever else is pushed and gets old again (app_sync.cpp 445-466).
\* One behind the limit may wait for ever: lower ids may be due again before its turn
\* comes, and those of a channel that is not enabled are due always.
DueListingsArePushed == \A l \in Listing : []<>~InFront(l)
=============================================================================
