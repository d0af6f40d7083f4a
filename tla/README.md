# Metis Antique Marketplace Plus: verification project

TLA+ models of the marketplace server (`src/server/src`, C++20), the TLC
configurations that check them on small instances, and TLAPS proofs of what
holds for every instance. `PROJECT.json` maps each definition to the lines it
models and lists runs, mutants, findings, hazards and theorems.

## 1. The system

One process serves a JSON API and static pages over HTTP and TLS, and keeps
everything in one SQLite file. Its shape decides what is hard about it:

* **A thread per client.** `Server::run` detaches a thread for every connection
  (server.cpp 706-712). Handlers share no C++ state but the database, the rate
  limiter and the logger.
* **One statement at a time, and no transactions.** `Db::exec` and `Db::query`
  each hold the connection's mutex for one statement (db.cpp 352-383), and no
  handler opens a transaction. A handler is a sequence of statements between
  which any other thread's statements run, and a crash leaves the first ones done.
* **Results are mostly not looked at.** Many handlers answer `{"ok":true}` even
  when SQLite refused a statement, because of a foreign key for example
  (`PRAGMA foreign_keys=ON`, db.cpp 18).
* **Background threads** prune sessions, collect booth rent, settle sales, poll
  the sales channels and back the database up.

### Inventory

| Component | State | Operations | Interacts through | Hard behaviour | What makes it correct |
|---|---|---|---|---|---|
| Items (app_items.cpp) | `items`, `item_history` | create, edit, copy, import, delete | FKs from six tables; `last_insert_id()` | four-statement DELETE; read, audit, write back; shared last id | references exist; SKU carries its own id; every status is accounted for |
| Listings (app_listings.cpp) | `listings` | create, edit, soft delete, count views | marks items listed | marks after inserting | listing keeps its item |
| Sales (app_sales.cpp) | `sales` | enter, amend, delete (admin) | marks items sold or back in inventory | enter then mark; amend from a stale row; several sales of an item | net proceeds add up; no item sold without a sale; sales are a ledger |
| Platform sync (app_sync.cpp) | `listings.sync_*` | push, push all, poll, webhook | HTTPS to eBay, Etsy, 1stDibs, Chairish; enters sales | concurrent pushes, crash after `syncing`, repeated webhooks | nothing taken off sale without a sale; a listing's sync ends |
| Appraisals, comments, inquiries (app_appraisals.cpp, app_comments.cpp) | `appraisals`, `item_comments`, `buyer_inquiries`, `inquiry_replies` | create, reply, set status, delete | FKs to items and listings | reply then status, in two statements | references exist; a dealer's reply ends in `replied` or `closed` |
| Accounts (app_auth.cpp, server.cpp 365-375, 479-507) | `users`, `sessions`, attempts by address | seed, login, logout, sliding session, users, cleaner | gates of every request; role read before the handler | count of admins acted on later; sessions deleted, then the user | an admin remains; sessions have users; ended sessions stay ended; expired ones go |
| Audit pages (app_audit.cpp) | reads logs and tables | end a session | `sessions` | role is the one the request came in with | as above |
| Booth rent (app_business.cpp, main.cpp 110-186) | `rentals`, `rental_payments`, `booth_invoices` | rent, pay, invoice, collect, mark overdue | collector thread against handlers | once a period; crash between payment and invoice; payments counted, then discounted | a rental is charged once a period; a discount is earned |
| Settlements (main.cpp 187-287, server.cpp 131-166) | `settlements` | settle, mark paid | reads `sales` | the period's end is a watermark for sales by date | a sale of an item with an owner is settled, and once |
| Consignments, advertising, card fees (app_business.cpp) | their tables | single-statement writes | FKs SET NULL | none to speak of | sums |
| Photos (app_photos.cpp, app_items.cpp 305-363) | `item_photos`, `items.photo_ref`, files | upload, make primary, order, delete; the two older routes | items, the directory of files, PUT of an item | up to five statements a request; clear then set; unlink, drop, promote; a stale `photo_ref` written back; file names of the client's own | one primary, `photo_ref` is it; photos have their files |
| Purchases, expenses, P&L (app_purchases.cpp) | `purchases`, `expenses` | single-statement writes, reports | reads sales | none to speak of | sums |
| Log and log stream (logger.cpp, ws_log.cpp) | file, subscribers | write, rotate, publish, subscribe | logger mutex, then broadcaster mutex, then a socket | a subscriber that does not read holds up every thread | lines in order; a subscriber gone gets nothing |
| Server life (server.cpp, main.cpp) | `running_`, acceptors, threads of requests | accept, TLS, gates, shutdown | signal, shutdown route | a flag read only after the next connection; session and role read apart | a stopped server ends; the gates and the limit on logins hold |
| Router (router.cpp), Pson and util | route list; sections | add, match; parse, get | | none: filled before the server listens | the route that answers is the one meant |
| Mail (smtp.cpp), POS formats (app_pos.cpp), market reads (app_market.cpp) | none | send, format, read | SMTP server | order of greeting and STARTTLS | |
| Web client (web/js) | token in the browser, one modal | open, fill in, save, read and post notes | API | answers in any order, for a modal that has changed since | a detail view has its item's notes and those posted from it |
| Vendored code | | | | | not modelled |

## 2. Plan

1. **Marketplace** with **SalesLedger** (done): items, listings, sales, the
   webhook; the abstract ledger it implements; proofs in **Marketplace_proofs**.
2. **Accounts** with **SessionRegister** (done): users, sessions, gates; the abstract
   register it implements; **Accounts_proofs**.
3. **PlatformSync** (done): a listing's sync status under the poll, pushes, crashes and
   the channel's answers, with an abstract channel (what is on offer there);
   **PlatformSync_proofs**.
4. **BoothRent** (done): the collector against the payment and invoice handlers, with
   crashes; **BoothRent_proofs**.
5. **Settlements** (done): the settler over an abstract sales table; each sale settled
   once; **Settlements_proofs**.
6. **LogBroadcast** with **LogFeed** (done): the two mutexes and blocking subscribers;
   the abstract feed they implement; **LogBroadcast_proofs**.
7. **PhotoGallery** (done): photos, their files and `photo_ref`; **PhotoGallery_proofs**.
8. **HttpServer** (done): acceptors, gates, limit on logins, shutdown;
   **HttpServer_proofs**.
9. **WebClient** (done, checked only): one tab, its modal and the answers it waits for.

Every safety invariant, action property and refinement of 1 to 8 that a passing run
checks is a theorem. What could come next: an abstract specification of the gallery or of
the sales channels that those modules implement, as the ledger is one of sales.

## 3. Modules

### Marketplace

One action is one SQL statement, or the reads before it that nothing else
depends on. A request is a sequence of actions of one thread: `pc[t]` is the
statement it executes next, `arg[t]` what its local variables hold. `Crash` sets
every thread idle with the tables as they are.

| State | Code |
|---|---|
| `items`, `status`, `sku`, `nItem` | rows, status and SKU of `items`, and its AUTOINCREMENT id |
| `listing`, `nListing` | rows of `listings`; DELETE only sets their status |
| `sales`, `sale`, `nSale` | rows of `sales`: item, price, fees and shipping together, net proceeds |
| `history`, `appraisals`, `inquiries` | the rows that refer to an item, as sets |
| `voided`, `declared`, `born`, `deletion` | observers, read by no guard: which items had a sale deleted, were set sold by a client, the status each item's INSERT gave it, and how far a DELETE of each came |

Abstractions: an item is its status and its SKU's id, prices are integers,
what a request names and what it leaves alone is a choice of the values written.
`last_insert_id()` may answer any id: other threads insert into any table at any
time. The INSERT of an item may be refused (a user who is gone) and the handler
goes on. A push that succeeded is the single action `Publish`, at any time.
`DeleteItemRow` keeps a row that a foreign key refers to; deletes by cascade
(photos, comments, purchases) are not modelled.

`StatusesAreAccountedFor` says what the history is good for. A PUT audits a status only
when it differs from the one it read, so one that leaves the status alone writes back an
old one over another request's change, and no history row tells of it (section 5). What
holds, and is checked and proved for every PUT, is that each status an item comes to have
is in its history, or its INSERT, a listing or a sale (or a sale's deletion) gave it; a
DELETE that was refused has cleared the history, and excuses its item. `voided` and
`deletion` are for good: an item with a deleted sale may be sold without another.

### SalesLedger

What the reports over `sales` rely on: numbered entries, entered once, amended
only while they are kept, with the item they were entered for and net proceeds
that add up; struck out for good. `Marketplace!LedgerSpec` is this specification
under the refinement mapping `Book`, which reads the sales table by id.

### Accounts

`user` and `session` are functions from ids and tokens to rows. A request is
`Request` (the token is found), `Extend` (its end is moved), `ReadRole`, and then
the handler's statements; `Writes` is the gate that turns viewers away. `Login`
reads the user and `Open` inserts the session a slow password check later.
`Tick` lets an hour pass; a session has `left` hours, `SessionHours` when opened
and `SlideHours` when used. `SeedUser` handles one configured name after a start;
requests come once all are handled. `owned` stands for the rows of `items`
that refer to a user. Not modelled: which password a login gave, two tokens
made in the same tick of the clock, email and display names.

### SessionRegister

What every request relies on that goes by `users` and `sessions`: ids and tokens are
given in order and never again, a session is opened for a user who is there (`Open`) and
stays that user's until it is over (`End`), for good, and a user leaves only without one
(`Leave`). `Accounts!RegisterSpec` is this specification, with the ids given (`nUser`),
the ids in the table and, token by token, the user of the session or that it is over
(`Tokens`). The register has no time, no threads and no requests: a request that found a
session may act on it long after it ended, and the refinement says that it changes
nothing then.

### BoothRent

A handler of one statement is one action; `PostPayment`, `Loyalty` and
`PostPaymentInsert` are the three of a payment. The collector is `ctl`: the
statement it is at, the period it read from the clock, the rentals or payments
its query returned and those it has yet to look at. `Wake` may happen several
times on a day or not at all (a clock set back, an hour slept through, a server
down). `rental` says whether a rental is open; amounts are left out, and of the
discounts only the loyal vendor's has a condition on these tables that the model
keeps. `torn` observes the charges that a crash cut between the two INSERTs.

### Settlements

`sale` has the owner and the date of each sale, `settlement` the rows in order.
Dates are numbers in the order of their texts: `DateOf(d)` for the day alone (the
webhook's sales, dates that clients give, cutoffs), `TimeOf(d)` for a time of it
(POST /api/sales). The settler is `settler`: cutoff, dealers to go, and the totals
it holds, with the sales they were summed over. That set is kept in the row as
`covers`, which the code has no column for: no guard reads it. A sale may be of an item
without an owner (`NoOwner`: a copy, an imported row), which the settler's joins leave
out. `grace` is `settlements.grace_days`, read at each start, any integer of `Grace`, for
the code takes zero and negative ones too: then a sale with the day alone can be entered
into a period that is already fixed, and no settlement pays it. `overtaken` observes those
sales and `ungraced` whether the server has been started without grace days;
`SettledMeansCovered` excuses them if it has, and only then. `redated` observes the sales
a client has dated anew.

### PlatformSync

The listings are those of one item, so that all share its SKU. A pusher is the poll or a
thread of a push; `job[p]` holds the listings it selected and what it has read of the one
it is at. `Mark`, `Load`, one of three outcomes of `Send`, and `Save` are a push. The four
adapters differ in two things the model keeps: eBay's offers go by the SKU (`Keyed`), the
others' by a number the channel gives when it creates one; a channel may lack credentials
(`Configured`) or an adapter. `offer` is the channels' side, with the listing each offer
was made for. Numbers are not shared between channels in the model; in the code they could
be, and the webhook does not look at the channel (section 5). Time is `fresh`: `Age` lets
half an hour pass for a listing, as often as it likes. `Enabled` are the channels the poll
pushes to: it takes due listings of all channels up to `Limit` and skips those of others
afterwards, so these, and enabled ones that are due again, keep a listing of a greater id
from its turn for good (section 5). `DueListingsArePushed` is therefore about `InFront`,
the listings the limit lets the poll see. The model starts with listings that are new and
listings that were pushed before (`Pushed`), with the offers those made. `stranded` and
`unsure` are observers: `OffersAreKnown` excuses overlapping pushes, lost answers, crashes
and moved channels by them, `PushesEnd` crashes and moved channels;
`ExternalIdsNameOffers` excuses nothing. What a webhook does to items and sales is
`Marketplace`'s.

### LogBroadcast

`logger` and `hub` are the two mutexes, with their holders. A thread that logs
takes the first (`WriteLine`), the second (`Publish`), runs the callbacks one by
one (`Call`) and releases both (`Published`). A handler of /ws/logs is `Connect`
(the handshake and `tail()`), `SendHistory` line by line, `EndHistory`,
`Subscribe`, pings, and `Unsubscribe`, after which its slot is free for another
client. `Subscribe` and `Unsubscribe` take and release a mutex in one step, since
they wait for nothing in between. A line is its number; which lines `tail()`
finds depends on when the file was renamed (`Tails`). A send to a client that is
gone may succeed, fail, or (`BrokenPipe`) end the process, as platforms differ;
`EndBeat` may come at any time, because what the handler takes for a close frame
may be the rest of an answer to a ping. Several threads that use one TLS object
are outside the model (section 5). `stream`, `since` and `published` are
observers.

### LogFeed

What a client of the stream may count on, without mutexes, sockets and threads: a line is
written (`Write`) only when the one before was told to every live client who is there
(`Tell`); who is not live yet is shown lines that were told, one after the other without
a gap (`Replay`); who is live gets the line that is being told (`Deliver`), and whatever
a client gets comes after all it has. Clients come, join, drop their connection and
leave. `LogBroadcast!FeedSpec` is this specification, with `last` and `published` as the
lines written and told, the open connections, `subs` and the streams. Between the
history and the first live line there may be a gap (section 5): `Join` asks for nothing.

### PhotoGallery

One action is one statement, or one read or removal of files. `photo` is the table,
`ref` the column `items.photo_ref`, `disk` the directory; `req[t]` holds the local
variables of a thread's request, `pc[t]` what it does next. An upload is `Upload` (count
the primaries), `WriteFiles`, then for each file `InsertPhoto` and, for the primary one,
`SetRef`; a promotion `PutPrimary` (clear), `MakePrimary`, `ReadName`, `SetRef`; a
deletion `DeletePhoto` (read), `Unlink`, `DropRow`, `NextPhoto`, `Promote`, `SetRef`. The
two older routes and PUT of an item end in `SetRef` too. `DeleteItem` is the one statement
of that handler these tables see. The sort order is left out: `NextPhoto` takes any photo.

Two requests may write and remove one file. The server names the parts of a body by the
item and their number, which starts at one in each request, and a body that is one file
has the name its client gives, another item's or its own (`Given`); all files have one
extension in the model. `WriteFiles` writes those that can be opened, at once: parts of
two uploads that are written in turns end as if one came after the other, and a removal
that falls between two parts is taken to come before or after both. `PutItem` writes
back the `photo_ref` it read, or an empty one a client sends.

`taken` observes the files that were removed while another photo had them, by its own
deletion or the older DELETE, or whose deletion a crash cut off: `PhotosHaveFiles` excuses
these names and no interleaving. `disturbed` observes the items whose primary is owed
nothing: two requests about the item overlapped, or one was cut off by a crash, and one of
them changes the primary; a request named a photo that is not the item's; one of the older
routes, or a PUT with another `photo_ref`, came. It is set by the step that brings a
request in or by the crash, never by what is done to the tables, and a PUT of the primary
that came alone takes the item out again. Uploads to an item that has a primary and
deletions of photos that are not primary are `Aside`: any number of them overlap, and are
cut off, without disturbing anything.

### HttpServer

`acc` is what each acceptor does next, `conn` the request each followed connection is at:
`Parse` (the session), `ReadRole`, `Gate`, and the handler, of which only the login's
limit and the shutdown are kept. `attempts` is `rate_map_`: an attempt is the time of it
and a number that tells it from the others of that time, pruned when it is asked; `passed`
observes the attempts that were let through and is never pruned. `had` observes the roles
a user has had since a request found its session, the missing one of a deleted user
included. `Accept` may give a connection to no slot of `Conn`: the others are served
without being followed. Handlers are taken as one step (`Run`), because the other modules
have them; authentication is enabled (`auth.enabled`), and both acceptors do the same, TLS
apart.

### WebClient

A click runs to its first `await`, an answer to the next one; the browser runs one of them
at a time. `open` and `body` are the modal, `req` the requests under way, each of which
the server takes (`Take`) and the client gets an answer for, in any order, an error
(`ErrorAnswered`) or none (`Lost`). An error leaves everything as it is, but for two: the
panel of notes is filled with an empty list and a box to post one (`listed` is "error"),
and the form of a listing is put up without the items. `view` numbers the detail views: a
panel that `showTab` handed to `renderComments` is that of its own view, even when another
one is in the document. `postComment` looks its list up by the item's id when the answer
comes, so a note posted from a closed view can get into the next one of the item, and be
there twice when the list of that one has it already. `NotesAreShown` says when, and
allows it only then. The panels of the other tabs are filled as that of the notes is.
`openAddListing` asks for the items in two requests in a row, which are one here; a page
behind the modal is clicked only while it is hidden.

### MCMarketplace, MCAccounts, MCPhotoGallery, MCWebClient

Selections of operations and symmetry sets for the runs below, and in `MCPhotoGallery` the
names clients give: the first of each item's. Its run has a `VIEW` (`Seen`): states that
differ only in files no photo and no upload past its writing has, or in observers of
items that are gone, count as one. No guard reads them, the invariants look at none, and
they do not come back: an upload writes its files before it or a row has them, and an item
that was deleted has an id that is not given again.

## 4. Runs

| Run | What it shows | Bounds |
|---|---|---|
| `sales` | `TypeOK`, `ReferencesExist`, `NetProceedsAddUp`, `SoldItemsHaveSales`, `SoldListingsHaveSales`, `StatusesAreAccountedFor`; `LedgerSpec` | two threads, one item, one listing, two sales |
| `catalogue` | `SkuNamesItem` | two threads, two items of which one is new |
| `accounts` | `TypeOK`, `SessionsHaveUsers`, `RegisterSpec` | two threads, two users, two sessions, no restart |
| `accounts_alone` | `AdminRemains`, `ExpiredSessionsArePruned` under `FairSpec` | one thread, two users, two sessions, a restart |
| `booth` | `TypeOK`, `ChargedOnce`, `FoundRentalsAreInvoiced`, `LoyaltyIsEarned` | one thread and the collector, one rental, two months of two days, two payments, two invoices, any crashes |
| `settle` | `TypeOK`, `SettledOnce`, `SettledMeansCovered`; `SalesAreSettled` under `FairSpec` | two dealers and items without one, two sales, three days, no or one grace day, a crash |
| `sync` | `TypeOK`, `ExternalIdsNameOffers`, `OffersAreKnown`; `PushesEnd`, `DueListingsArePushed` under `FairSpec` | the poll (one listing at a time) and one client, two listings, new or pushed before, that get old any number of times, three channels (one enabled, one not, one without an adapter), four numbered offers, one push, one other event |
| `log` | `TypeOK`, `CallbacksHaveHandlers`, `NoLineMissed`, `FeedSpec`; `WritesEnd`, `DisconnectedLeave` under `FairSpec` | two threads, two lines, two slots for clients who come again and again, one unread frame to a socket |
| `photos` | `TypeOK`, `PrimaryIsShown`, `PhotosHaveFiles` | two threads, two items, two photos, two parts to an upload or one file under the first name of either item, any crashes |
| `server` | `TypeOK`, `GatesHold` (`AttemptsBounded`, `RolesHold`); `StopEnds` under `FairSpec` | two acceptors, one followed connection, one user, one address, two attempts in a window of one tick, four ticks |
| `web` | `TypeOK`, `NotesAreShown` | two items, three requests under way, three detail views, two notes |
| `last_admin` | violation: two requests leave no admin | as `accounts` |

Why these bounds: every race here is between two handlers over one row, so two
threads and one row of the table raced for (two where identity matters: SKUs,
users, a sale voided while another stands) let each pair of statements
interleave in every order. The proofs drop these bounds.
`CHECK_DEADLOCK FALSE` is in `accounts` and `last_admin` (two admins who delete
each other leave nobody to log in, and no request follows), in `sync` and `log` (nothing
happens when nobody asks and nothing is due, or once a signal ended the process), and in
`server` (which ends). The other runs check for deadlock.

**Bounds in guards.** `MaxItem`, `MaxListing`, `MaxSale`, `MaxUser`, `MaxToken`,
`MaxRental`, `MaxPayment`, `MaxInvoice`, `MaxNote` and `MaxOffer` cap inserts,
`MaxRestart` and `MaxCrash` restarts, `MaxPeriod` and `MaxDay` the clock, `MaxPush` and
`MaxEvent` what reaches `PlatformSync` from outside, `MaxLine` the lines that are logged,
`MaxTime` the clock of `HttpServer`, `MaxPart` the parts of an upload, `Given` the names
clients give, `PhotoId` the photos, `MaxOpen` the detail views; `Conn` and `Req` are slots
that are used again. Pushes overlap when the client's push meets the poll's of a listing
that was pushed before the server started; two such listings are due to a poll that takes
one, so the second has to wait its turn, and waits for ever when the first is due again
each time. Combinations of two other events (a crash after a webhook, say) are beyond that
run's bound. `photos` has two items because they share the directory and, by the names
clients give, files; two photos are a primary and its successor, and their ids are not
used again. `server` has two attempts allowed and time for two windows, so that attempts
go out of one while others stay. `web` has a view closed and opened again for the same
item and for another while an answer is under way. `booth` has the race of each statement
of the collector with each handler, and a second month in which the first one's rows must
not count; `log` has two lines because an order takes two, from threads that wait for each
other's mutexes and for clients whose sockets are full; `settle` has a sale before and one
after a settlement of its owner, on the same day and on another.

**Fairness.** `FairSpec` is weakly fair to seeding (it runs on the main thread before the
server listens) and to `Cleanup` (a loop of its own that sleeps an hour and deletes what
has expired), and in `Settlements` to the settler, which wakes every hour and blocks on
nothing but the database. In `PlatformSync` it is weakly fair to the poll's selection and
to each thread's steps, which includes that a channel answers or its connection ends: the
code sets no timeout, so this is an assumption about the network. In `LogBroadcast`
threads run, and a client reads until it closes its connection: that is an assumption
about clients, without which one of them stops every thread that logs. A callback that
waits for room is strongly fair, because the pings it competes with are five seconds
apart. In `HttpServer` the acceptors, the thread the shutdown route leaves behind and the
end of `main` are weakly fair, and so is `Accept`: that connections keep coming to every
port is an assumption, and `StopEnds` fails without it, since nothing else wakes an
acceptor. A connection's thread gets no fairness: its client may stop in the middle of a
request. Elsewhere nothing is assumed of clients or of time.

## 5. Findings

One run ends in a violation; it checks a sentence of the documentation.

* `last_admin`: docs/API.md:57 promises that the last admin stays; the count is
  acted on in later statements (app_auth.cpp 300-308, 332-340).

Further disagreements met while reading, listed in `PROJECT.json` without a run: DELETE of
an item with a listing or a sale answers ok and leaves the item without its history; the
poll puts a listing back on offer that was taken down after it was selected;
`COALESCE(email,"")` in a C++ literal makes `/api/auth/me` and `/api/users` answer
nothing; the webhook is not public; booth invoices never become overdue; deleting a
listing leaves its item listed; a sold item can be listed again; net proceeds deduct
shipping; a session's lifetime slides by 24 hours; expired sessions are pruned; SKUs are
not UNIQUE; settlements deduct fees twice; loyalty counts payments, not months in a row;
discounts do not add up; the collector goes by the configured due day; collected rent
still becomes overdue; a sale dated anew is settled never or twice; sales of items without
an owner are never settled, and without grace days some others are not; twenty due
listings of a disabled channel, or that are due again by then, keep the poll from all
others; a stale status is written back without a word in the history; nothing is ever
`pending`; the poll's interval is not configurable; the webhook ignores the channel it is
called for; `seed_users` undoes a changed password at the next start; a client of the log
stream that goes away may end the process (SIGPIPE); answers to pings are read in part and
taken for close frames; two threads use one TLS object; lines logged while the history is
sent are in neither part of the stream; the history is short after the file was renamed;
photos overwrite each other's files, because each upload numbers its parts from one, or
takes the name a client gives; an error is shown as an empty list of notes, and a note
posted from a view that was closed may be in the next one twice; notes are listed under
another path and in another order than the documents say; PUT of a primary that is not the
item's leaves the item without one; uploads send a token nothing writes; a server told to
stop waits for a connection at each port; right passwords count as attempts; a viewer
deleted while a request comes in passes the role gate; mail waits for a greeting that does
not come; the report joins sales with all purchases of an item. In the client, not written
down anywhere and so no finding: the form of a listing, or the answer to a save, replaces
or closes whatever modal is open by then, and the table of items shows the answer that
came last.

## 6. Proofs

`Marketplace_proofs` proves, for any sets of threads, prices, costs and
operations and any bounds (`MarketplaceAssumption` is all that is assumed):

| Theorem | Establishes |
|---|---|
| `BaseInvariant` | `[]BaseInv`, the inductive invariant below |
| `TypeCorrect`, `ReferencesAreKept` | `TypeOK`, `ReferencesExist` |
| `NetProceedsAreKept` | `NetProceedsAddUp` |
| `SkusNameItems` | `SkuNamesItem` |
| `SoldItemsHaveReasons`, `SoldListingsHaveReasons` | `SoldItemsHaveSales`, `SoldListingsHaveSales` |
| `StatusesStayAccountedFor` | `StatusesAreAccountedFor` |
| `SalesAreALedger` | `LedgerSpec`: every step is a ledger step or a stutter |

The argument. `ReferencesExist` is not inductive: a thread that is about to
insert holds an id it read earlier. `BaseInv` adds `HoldingOK`, what a thread
between two statements may rely on whatever the others do: ids it holds have
been given out, a listing keeps its item, a sale does while it is there. One
lemma per handler shows a step keeps it. On top of `BaseInv` stand

* `SoldInv`: a sold item, a listing the webhook took down, and a thread *about*
  to mark either, has a reason (a sale, a deleted sale, or a client's word);
  reasons never go away, because deleting a sale leaves `voided` behind;
* `SkuInv`: an SKU is its item's id also for rows yet to come;
* `AccountInv`: a thread about to write a status, or to put one back, has what accounts
  for it already (`Explains`): a PUT the history row of a change, or else the status the
  item had when it read it; and what accounts for a status does not go away, but for a
  DELETE that cleared the history (`Remembers`);
* the ledger: an INSERT appends to `Book`, a DELETE strikes out, an UPDATE of a
  row that is there amends, and every other step leaves `Book` as it is.

`Accounts_proofs` proves, for any sets of threads, names and passwords, any
configuration and any bounds (`AccountsAssumption`):

| Theorem | Establishes |
|---|---|
| `AccountsTypeCorrect` | `TypeOK` |
| `SessionsKeepUsers` | `SessionsHaveUsers` |
| `SessionsAreRegistered` | `RegisterSpec`: every step is one of the register or a stutter |
| `LastAdminRemains` | `AdminRemains`, for one request at a time |

The argument. `AccountsInv` is `TablesOK` (the types of the tables and
`SessionsHaveUsers`) with `ThreadOK`; it says nothing of what a thread has read,
because no statement trusts it. `Open` and `OwnItem` write a user's id only while
the row is there, as the foreign keys demand; `DeleteUserRow` deletes no row that
is referred to; seeding and `PUT` never take an id away; `Extend` is an UPDATE and
so cannot put back a row that is gone; and a token is new each time. One lemma for
each statement that writes, one for each handler's statements that only read. On top of
`AccountsInv` stands the register: an INSERT of a user is a `Join`, one of a session
an `Open`, a DELETE of sessions, the cleaner's included, an `End`, the DELETE of a user
row that the foreign key lets through a `Leave` (`LeavesRegister`), and every other
statement leaves it as it is: the one that could revive a session, `Extend`, moves only
the end of a row that is there.

`LastAdminRemains` proves `AdminRemains` for one request at a time (any two threads are
the same; the configured users have room in the table); with two the run `last_admin`
shows it violated. Its invariant `AdminInv` adds to `AccountsInv` what the counts have
established: between the statements of a PUT or DELETE another admin than the account in
hand remains (`Spare`), also when the count was skipped because the account is no admin.
Until the first configured admin has a row the server does not listen and every
configured name that is missing still finds room (`Starting`).

`BoothRent_proofs` (`BoothRentAssumption`; any threads, rentals, calendar, days and
crashes):

| Theorem | Establishes |
|---|---|
| `BoothRentTypeCorrect` | `TypeOK` |
| `RentalsAreChargedOnce`, `PassesInvoiceWhatTheyFind` | `ChargedOnce`, `FoundRentalsAreInvoiced` |
| `LoyaltyDiscountsAreEarned` | `LoyaltyIsEarned` |

`ChargedOnce` looks at payments, the collector at invoices. `ChargesAreBilled` connects
the two: a charge it made has its invoice, or is being billed, or is `torn`; so a rental
without an invoice that it is about to charge (`PayIsFirst`) has no charge yet. The
discount is decided a statement before the payment is inserted: the payments that were
counted are still there, because only the deletion of the rental takes them away, and
then the foreign key refuses the INSERT (`GivenLoyaltyIsEarned`). They stay paid, because
what the collector selected as pending is not paid when it marks it (`CollectorOK`): no
handler makes an existing payment paid, and ids are not used again.

`Settlements_proofs` (`SettlementsAssumption`; any dealers, sales, days, crashes):

| Theorem | Establishes |
|---|---|
| `SettlementsTypeCorrect` | `TypeOK` |
| `SalesAreSettledOnce` | `SettledOnce` |
| `SettledSalesAreCovered` | `SettledMeansCovered` |

What the settler is about to insert covers all that it will settle and nothing that is
covered (`Ready`), through every sale, date and deletion between the sum and the INSERT,
but for the sales that `overtaken` observes. While every start has had a grace day
(`~ungraced`), periods are over before they are settled (`PeriodsAreOver`), so no sale
that comes later falls into one, and there are none of those. Nothing is assumed of `Grace` but that it has integers. The start of a
period is the greatest end of a dealer's settlements; that a finite set of dates has one
is proved from cardinalities, without induction.

`LogBroadcast_proofs` (`LogBroadcastAssumption`; any finite set of writers, any
subscribers, history and buffers):

| Theorem | Establishes |
|---|---|
| `LogTypeCorrect` | `TypeOK` |
| `CallbacksAreSafe` | `CallbacksHaveHandlers` |
| `SubscribersMissNothing` | `NoLineMissed` |
| `StreamsAreInOrder` | `StreamInOrder`, stated with the proof |
| `StreamIsAFeed` | `FeedSpec`: every step is one of the feed or a stutter |

`MutexesOK` ties the holders to what the writers do next, so that one line at a time is
published; `CallbacksOK` keeps a callback in the map exactly while its handler is past
subscribing. On these stand, for each subscriber, `StreamOK` (what was sent is below what
the history still holds, which is published) and `CaughtUp` (who is not to be called any
more has the line that is being published). `StreamIsAFeed` adds `ReplaysOK`: what is left
of a history has no gap and goes on where the stream of a client who is there left off; a
send that was lost breaks that only for clients who are gone, and they get nothing more.
Then `WriteLine` is a `Write` because the logger's mutex is free only when the last line
was told, `Published` a `Tell` because of `CaughtUp`, a callback a `Deliver` because the
line is above all that was published; what only mutexes and buffers see is a stutter.

`PlatformSync_proofs` (`PlatformSyncAssumption`; any channels, listings, pushers and
pushes):

| Theorem | Establishes |
|---|---|
| `SyncTypeCorrect` | `TypeOK` |
| `IdsNameOffers` | `ExternalIdsNameOffers` |
| `EveryOfferIsKnown` | `OffersAreKnown` |

A pusher writes back an id it read or was given requests ago; `JobOK` says whose it is
and that it fits the channel the pusher has read. `ListingOK` says of a listing that
nothing stranded: between `Load` and `Save` one pusher with an adapter is at it, and that
one knows all it is offered as, or the row does.

`HttpServer_proofs` (`HttpServerAssumption`; any ports, connections, users, addresses,
limits and windows):

| Theorem | Establishes |
|---|---|
| `ServerTypeCorrect` | `TypeOK` |
| `TheGatesHold` | `GatesHold` |

`RecentAreKept`: pruning forgets no attempt that some window still reaches, so the count
that is compared with the limit is that of a whole window (`AttemptsBounded`). What a
request has read, and what it is about to read, is a role its user has had since the
session was found (`RequestsOK`).

`PhotoGallery_proofs` (`PhotoGalleryAssumption`; any threads, items and ids of photos, any
parts and names of clients):

| Theorem | Establishes |
|---|---|
| `GalleryTypeCorrect` | `TypeOK` |
| `PhotosKeepTheirFiles` | `PhotosHaveFiles` |
| `PrimaryStaysShown` | `PrimaryIsShown` |

`RequestHasFiles`: what an upload has yet to enter is written, or was taken from it, and a
deletion holds the name its row has; so a file that goes is that of the row a thread is
about to drop, or one `Unlink` sees that others have. `PrimaryInv` says of an item that
nothing disturbed that requests about it are its own (`Own`), that one that is not aside
is the only one and, by the statement it is at, what is still missing until the item is as
it should be (`Main`), and that with only those aside it is so and they do not concern the
primary (`Beside`). A request that comes beside another one either leaves this so
or disturbs the item (`ComesKeeps`).

**What constants are assumed to be.** The named assumptions say that bounds are numbers,
positive where the program has at least one of the thing, that the writers of
`LogBroadcast` are finite, that there is some channel, how the sets of channels nest, and
that names of nothing (`Nothing`, `NoOwner`) name nothing. The runs evaluate them.

**Model-checked only.** Liveness (`SalesAreSettled`, `PushesEnd`, `DueListingsArePushed`,
`WritesEnd`, `DisconnectedLeave`, `ExpiredSessionsArePruned`, `StopEnds`): the prover has
neither fairness nor `ENABLED`. `WebClient` (`TypeOK`, `NotesAreShown`): a client of one
tab whose small instance has its races, left to TLC in favour of the server. Its answers
are lists a set was sorted into, and that such a list exists for every finite set is an
induction over data.

## 7. What is not modelled

Section 1 lists every component, and `PROJECT.json` says for each what is left out.
Reads, reports, formats (CSV, POS, HTML, labels), static files and the status pages change
no state. Purchases, expenses, consignments, advertising and card fees are
single-statement writes to tables nothing else acts on. The router's list and the
configuration are written before the first thread starts. The mail dialogue keeps
nothing. Of the web client the modal is modelled; its other pages render what one request
answers. The hourly backup copies the file and prunes old copies.

Vendored code (SQLite, JSON, bcrypt, OpenSSL) is taken by what `src/server/src`
uses of it: one statement is atomic, foreign keys and UNIQUE are enforced,
AUTOINCREMENT ids are never used again. It makes up most of the repository's lines (the
OpenSSL headers alone are more than half of them); the server is some 7200 lines and the
web client some 4600, and of those the modelled lines are a far larger share.
