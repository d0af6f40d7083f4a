---------------------------- MODULE PlatformSync_proofs ----------------------------
(***************************************************************************)
(* Proofs about PlatformSync, for any channels, any number of listings and *)
(* of threads that push, and any number of pushes.                         *)
(***************************************************************************)
EXTENDS PlatformSync, FiniteSetTheorems, TLAPS

\* An offer of the listing goes by the id, or there is none to name.
Names(e, l) == e # NoId => \E o \in offer : o.id = e /\ o.listing = l

\* The id is one that a channel of this kind gives.
Fits(c, e) == e # NoId => (e = Sku <=> c \in Keyed)

\* All that the listing is offered as is that id.
OfferedAs(l, e) == \A o \in offer : o.listing = l => o.id = e

Sure == Listing \ (stranded \cup unsure)

(***************************************************************************)
(* A pusher is at a listing, has an answer only to write it, and what it   *)
(* goes on with of the external id is that of an offer.  The channel it    *)
(* has read is the row's unless it was changed since.                      *)
(***************************************************************************)
JobOK(p) ==
    /\ pc[p] \in {"mark", "load", "send", "save"} => job[p].at \in Listing
    /\ job[p].ok => pc[p] = "save" /\ job[p].channel \in Configured
    /\ Names(job[p].ext, job[p].at)
    /\ \A x \in job[p].todo : x[1] \notin stranded => x[2] = row[x[1]].channel
    /\ job[p].at \in Listing \ stranded =>
         job[p].channel = row[job[p].at].channel /\ Fits(job[p].channel, job[p].ext)

JobsOK == \A p \in Pusher : JobOK(p)

RowsOK == \A l \in Listing : /\ Names(row[l].ext, l)
                             /\ l \notin stranded => Fits(row[l].channel, row[l].ext)

(***************************************************************************)
(* Between Load and Save of a listing there is one pusher at most, but for *)
(* those that have no adapter to go to and write a failure.  It knows all  *)
(* the listing is offered as, or the row does.                             *)
(***************************************************************************)
PushOK(p, l) ==
    /\ job[p].channel \in Adapter => Pushing(l) = {p}
    /\ pc[p] = "send" => job[p].ext = row[l].ext
    /\ OfferedAs(l, IF job[p].ok THEN job[p].ext ELSE row[l].ext)

ListingOK(l) ==
    /\ Pushing(l) = {} => OfferedAs(l, row[l].ext)
    /\ \A p \in Pushing(l) : PushOK(p, l)

OffersOK == \A l \in Sure : ListingOK(l)

SyncInv == TypeOK /\ JobsOK /\ RowsOK /\ OffersOK

-----------------------------------------------------------------------------
\* The first of some listings is one of them.
LEMMA MinIsIn == ASSUME NEW S, S \subseteq Listing, S # {} PROVE Min(S) \in S
<1>1. S \subseteq Nat /\ \A x \in S : x \in Int
  BY PlatformSyncAssumption DEF Listing
<1>2. PICK x \in S : \A y \in S : <<y, x>> \notin OpToRel(<, Nat)
  BY <1>1, NatLessThanWellFounded, WFMin
<1>3. \A y \in S : x <= y
  <2>1. ASSUME NEW y \in S PROVE ~(y < x)
    BY <1>1, <1>2 DEF OpToRel
  <2> QED
    BY <1>1, <2>1
<1> QED
  BY <1>3 DEF Min

(***************************************************************************)
(* The values of the variables, in parts.                                  *)
(***************************************************************************)
Label == {"idle", "next", "mark", "load", "send", "save"}

OffersTyped ==
    /\ offer \subseteq [channel : Configured, id : External \ {NoId}, listing : Listing]
    /\ nOffer \in 0..MaxOffer

JobsTyped ==
    /\ pc \in [Pusher -> Label] /\ job \in [Pusher -> JobType]
    /\ \A p \in Pusher : pc[p] = "load" => job[p].channel \in Adapter
    /\ \A p \in Pusher : pc[p] = "send" => job[p].channel \in Configured

RestTyped ==
    /\ hooks \subseteq Listing
    /\ pushes \in 0..MaxPush /\ events \in 0..MaxEvent
    /\ stranded \subseteq Listing /\ unsure \subseteq Listing

LEMMA TypeParts == TypeOK <=> row \in [Listing -> RowType] /\ OffersTyped /\ JobsTyped /\ RestTyped
  BY DEF TypeOK, OffersTyped, JobsTyped, RestTyped, Label

LEMMA ExternalIds ==
  /\ NoId \in External /\ Sku \in External /\ NoId # Sku
  /\ \A n \in Number : n \in External /\ n # NoId /\ n # Sku
  /\ \A n \in Number : n \in 0..MaxOffer
  BY PlatformSyncAssumption DEF External, NoId, Sku, Number

LEMMA NoJobIs ==
  /\ AnyChannel \in Channel /\ NoId \in External
  /\ NoJob \in JobType /\ NoJob.todo = {} /\ NoJob.at = 0 /\ NoJob.ext = NoId /\ NoJob.ok = FALSE
<1>1. AnyChannel \in Channel /\ NoId \in External
  BY PlatformSyncAssumption DEF AnyChannel, External
<1> QED
  BY <1>1 DEF NoJob, Job, JobType

LEMMA JobHas ==
  ASSUME NEW j \in JobType
  PROVE  /\ j.todo \subseteq Listing \X Channel /\ j.again \in BOOLEAN /\ j.at \in {0} \cup Listing
         /\ j.channel \in Channel /\ j.ext \in External /\ j.ok \in BOOLEAN
  BY DEF JobType

LEMMA WithExt ==
  ASSUME NEW j \in JobType, NEW e \in External
  PROVE  /\ [j EXCEPT !.ext = e] \in JobType
         /\ [j EXCEPT !.ext = e].todo = j.todo /\ [j EXCEPT !.ext = e].at = j.at
         /\ [j EXCEPT !.ext = e].channel = j.channel /\ [j EXCEPT !.ext = e].ext = e
         /\ [j EXCEPT !.ext = e].ok = j.ok
  BY DEF JobType

LEMMA WithAnswer ==
  ASSUME NEW j \in JobType, NEW e \in External
  PROVE  /\ [j EXCEPT !.ext = e, !.ok = TRUE] \in JobType
         /\ [j EXCEPT !.ext = e, !.ok = TRUE].todo = j.todo
         /\ [j EXCEPT !.ext = e, !.ok = TRUE].at = j.at
         /\ [j EXCEPT !.ext = e, !.ok = TRUE].channel = j.channel
         /\ [j EXCEPT !.ext = e, !.ok = TRUE].ext = e
         /\ [j EXCEPT !.ext = e, !.ok = TRUE].ok = TRUE
  BY DEF JobType

\* A step of one pusher leaves the others where they are.
LEMMA GoesIs ==
  ASSUME JobsTyped, NEW p \in Pusher, NEW label \in Label, NEW j \in JobType, Goes(p, label, j),
         label = "load" => j.channel \in Adapter, label = "send" => j.channel \in Configured
  PROVE  /\ JobsTyped' /\ pc'[p] = label /\ job'[p] = j
         /\ \A q \in Pusher \ {p} : pc'[q] = pc[q] /\ job'[q] = job[q]
<1>1. /\ pc' \in [Pusher -> Label] /\ job' \in [Pusher -> JobType]
      /\ pc'[p] = label /\ job'[p] = j
      /\ \A q \in Pusher \ {p} : pc'[q] = pc[q] /\ job'[q] = job[q]
  BY DEF JobsTyped, Goes
<1> QED
  BY <1>1 DEF JobsTyped

-----------------------------------------------------------------------------
(***************************************************************************)
(* What a step leaves as it was.                                           *)
(***************************************************************************)
Others(p) == \A q \in Pusher \ {p} : pc'[q] = pc[q] /\ job'[q] = job[q]

LEMMA InvParts ==
  ASSUME SyncInv
  PROVE  /\ row \in [Listing -> RowType] /\ OffersTyped /\ JobsTyped /\ RestTyped
         /\ \A p \in Pusher : JobOK(p) /\ job[p] \in JobType
         /\ RowsOK /\ \A l \in Sure : ListingOK(l)
  BY TypeParts DEF SyncInv, JobsOK, OffersOK, JobsTyped

LEMMA InvFrom ==
  ASSUME (row \in [Listing -> RowType])', OffersTyped', JobsTyped', RestTyped',
         \A p \in Pusher : JobOK(p)', RowsOK', \A l \in Sure' : ListingOK(l)'
  PROVE  SyncInv'
<1>1. TypeOK'
  BY TypeParts, PTL
<1> QED
  BY <1>1 DEF SyncInv, JobsOK, OffersOK

LEMMA JobStays ==
  ASSUME NEW q \in Pusher, JobOK(q), job[q] \in JobType, pc'[q] = pc[q], job'[q] = job[q],
         offer \subseteq offer', stranded \subseteq stranded',
         \A l \in Listing \ stranded' : row'[l].channel = row[l].channel
  PROVE  JobOK(q)'
<1>1. job'[q].ext # NoId => \E o \in offer' : o.id = job'[q].ext /\ o.listing = job'[q].at
  BY DEF JobOK, Names
<1>2. \A x \in job'[q].todo : x[1] \notin stranded' => x[2] = row'[x[1]].channel
  BY JobHas DEF JobOK
<1>3. job'[q].at \in Listing \ stranded' =>
        job'[q].channel = row'[job'[q].at].channel /\ Fits(job'[q].channel, job'[q].ext)
  BY DEF JobOK
<1>4. (pc'[q] \in {"mark", "load", "send", "save"} => job'[q].at \in Listing)
  BY DEF JobOK
<1>5. job'[q].ok => pc'[q] = "save" /\ job'[q].channel \in Configured
  BY DEF JobOK
<1> QED
  BY <1>1, <1>2, <1>3, <1>4, <1>5 DEF JobOK, Fits, Names

LEMMA RowsStay ==
  ASSUME RowsOK, offer \subseteq offer', stranded \subseteq stranded',
         \A l \in Listing : row'[l].ext = row[l].ext,
         \A l \in Listing \ stranded' : row'[l].channel = row[l].channel
  PROVE  RowsOK'
  BY DEF RowsOK, Names, Fits

\* A step that is about another listing, and of one pusher at most.
LEMMA ListingStays ==
  ASSUME NEW l \in Listing, ListingOK(l), NEW p \in Pusher, Others(p),
         pc[p] \in {"send", "save"} => job[p].at # l,
         pc'[p] \in {"send", "save"} => job'[p].at # l,
         \A o \in offer' : o.listing = l => o \in offer,
         row'[l].ext = row[l].ext
  PROVE  ListingOK(l)'
<1>1. Pushing(l)' = Pushing(l) /\ p \notin Pushing(l)
  BY DEF Pushing, Others
<1>2. \A e : OfferedAs(l, e) => OfferedAs(l, e)'
  BY DEF OfferedAs
<1>3. ASSUME NEW q \in Pushing(l) PROVE PushOK(q, l)'
  <2>1. pc'[q] = pc[q] /\ job'[q] = job[q] /\ PushOK(q, l)
    BY <1>1, <1>3 DEF Pushing, Others, ListingOK
  <2> QED
    BY <1>1, <2>1 DEF PushOK, OfferedAs
<1> QED
  BY <1>1, <1>3 DEF ListingOK, OfferedAs

\* A step that pushes nothing, and changes the channel of a stranded listing at most.
LEMMA NoPush ==
  ASSUME SyncInv, UNCHANGED <<offer, nOffer, pushers>>, RestTyped',
         (row \in [Listing -> RowType])', stranded \subseteq stranded', unsure \subseteq unsure',
         \A l \in Listing : row'[l].ext = row[l].ext,
         \A l \in Listing \ stranded' : row'[l].channel = row[l].channel
  PROVE  SyncInv'
<1>1. UNCHANGED <<pc, job>>
  BY DEF pushers
<1>2. OffersTyped' /\ JobsTyped'
  BY <1>1, InvParts DEF OffersTyped, JobsTyped
<1>3. \A p \in Pusher : JobOK(p)'
  BY <1>1, InvParts, JobStays
<1>4. RowsOK'
  BY InvParts, RowsStay
<1>5. \A l \in Sure' : ListingOK(l)'
  <2>1. \A l \in Sure' : l \in Sure /\ ListingOK(l) /\ row'[l].ext = row[l].ext
    BY InvParts DEF Sure
  <2> QED
    BY <1>1, <2>1 DEF ListingOK, PushOK, OfferedAs, Pushing
<1> QED
  BY <1>2, <1>3, <1>4, <1>5, InvFrom

\* A step of a pusher that is not between Load and Save of a listing, nor gets there.
LEMMA NotThereYet ==
  ASSUME SyncInv, NEW p \in Pusher, NEW label \in Label \ {"send", "save"}, NEW j \in JobType,
         Goes(p, label, j), label = "load" => j.channel \in Adapter,
         pc[p] \notin {"send", "save"},
         label \in {"mark", "load"} => j.at \in Listing,
         ~j.ok, Names(j.ext, j.at),
         \A x \in j.todo : x[1] \notin stranded => x[2] = row[x[1]].channel,
         j.at \in Listing \ stranded => j.channel = row[j.at].channel /\ Fits(j.channel, j.ext),
         UNCHANGED <<offer, nOffer, stranded>>, RestTyped',
         (row \in [Listing -> RowType])', unsure \subseteq unsure',
         \A l \in Listing : row'[l].ext = row[l].ext /\ row'[l].channel = row[l].channel
  PROVE  SyncInv'
<1>1. JobsTyped' /\ pc'[p] = label /\ job'[p] = j /\ Others(p)
  BY InvParts, GoesIs DEF Others
<1>2. OffersTyped'
  BY InvParts DEF OffersTyped
<1>3. JobOK(p)'
  <2>1. \A x \in job'[p].todo : x[1] \notin stranded' => x[2] = row'[x[1]].channel
    BY <1>1, JobHas
  <2> QED
    BY <1>1, <2>1 DEF JobOK, Names, Fits
<1>4. \A q \in Pusher \ {p} : JobOK(q)'
  BY <1>1, InvParts, JobStays DEF Others
<1>5. RowsOK'
  BY InvParts, RowsStay
<1>6. \A l \in Sure' : ListingOK(l)'
  <2>1. \A l \in Sure' : l \in Listing /\ l \in Sure
    BY DEF Sure
  <2> QED
    BY <1>1, <2>1, InvParts, ListingStays
<1> QED
  BY <1>1, <1>2, <1>3, <1>4, <1>5, <1>6, InvFrom

-----------------------------------------------------------------------------
(***************************************************************************)
(* What is not a push                                                      *)
(***************************************************************************)
LEMMA HappensIs == ASSUME SyncInv, Happens PROVE pushes' \in 0..MaxPush /\ events' \in 0..MaxEvent
  BY InvParts, PlatformSyncAssumption DEF Happens, RestTyped

LEMMA WebhookFindStep == ASSUME SyncInv, WebhookFind PROVE SyncInv'
<1>1. Happens /\ UNCHANGED <<row, offer, nOffer, pushers, seen>>
  BY DEF WebhookFind
<1>2. PICK o \in offer : LET ls == {l \in Listing : row[l].ext = o.id}
                         IN  ls # {} /\ hooks' = hooks \cup {Min(ls)}
  BY DEF WebhookFind
<1>3. hooks' \subseteq Listing
  <2> DEFINE ls == {l \in Listing : row[l].ext = o.id}
  <2>1. Min(ls) \in ls
    BY <1>2, MinIsIn
  <2> QED
    BY <1>2, <2>1, InvParts DEF RestTyped
<1>4. RestTyped' /\ UNCHANGED <<stranded, unsure>>
  BY <1>1, <1>3, HappensIs, InvParts DEF RestTyped, seen
<1> QED
  BY <1>1, <1>4, InvParts, NoPush

LEMMA WebhookMarkStep == ASSUME SyncInv, WebhookMark PROVE SyncInv'
<1>1. PICK l \in hooks : /\ row' = [row EXCEPT ![l].active = FALSE, ![l].sync = "sold"]
                         /\ hooks' = hooks \ {l}
  BY DEF WebhookMark
<1>2. UNCHANGED <<offer, nOffer, pushers, bounds, seen>> /\ l \in Listing
  BY InvParts DEF WebhookMark, RestTyped
<1>3. row' \in [Listing -> RowType]
  BY <1>1, <1>2, InvParts DEF RowType
<1>4. \A k \in Listing : row'[k].ext = row[k].ext /\ row'[k].channel = row[k].channel
  BY <1>1, <1>2, InvParts DEF RowType
<1>5. RestTyped' /\ UNCHANGED <<stranded, unsure>>
  BY <1>1, <1>2, InvParts DEF RestTyped, bounds, seen
<1> QED
  BY <1>2, <1>3, <1>4, <1>5, NoPush

LEMMA PutStatusStep == ASSUME SyncInv, PutStatus PROVE SyncInv'
<1>1. PICK l \in Listing, a \in BOOLEAN : row' = [row EXCEPT ![l].active = a]
  BY DEF PutStatus
<1>2. Happens /\ UNCHANGED <<offer, nOffer, pushers, hooks, seen>>
  BY DEF PutStatus
<1>3. row' \in [Listing -> RowType]
  BY <1>1, InvParts DEF RowType
<1>4. \A k \in Listing : row'[k].ext = row[k].ext /\ row'[k].channel = row[k].channel
  BY <1>1, InvParts DEF RowType
<1>5. RestTyped' /\ UNCHANGED <<stranded, unsure>>
  BY <1>2, HappensIs, InvParts DEF RestTyped, seen
<1> QED
  BY <1>2, <1>3, <1>4, <1>5, NoPush

LEMMA PutChannelStep == ASSUME SyncInv, PutChannel PROVE SyncInv'
<1>1. PICK l \in Listing, c \in Channel : /\ row' = [row EXCEPT ![l].channel = c]
                                          /\ stranded' = stranded \cup {l}
  BY DEF PutChannel
<1>2. Happens /\ UNCHANGED <<offer, nOffer, pushers, hooks, unsure>>
  BY DEF PutChannel
<1>3. row' \in [Listing -> RowType]
  BY <1>1, InvParts DEF RowType
<1>4. /\ \A k \in Listing : row'[k].ext = row[k].ext
      /\ \A k \in Listing \ stranded' : row'[k].channel = row[k].channel
  BY <1>1, InvParts DEF RowType
<1>5. RestTyped' /\ stranded \subseteq stranded'
  BY <1>1, <1>2, HappensIs, InvParts DEF RestTyped
<1> QED
  BY <1>2, <1>3, <1>4, <1>5, NoPush

LEMMA AgeStep == ASSUME SyncInv, Age PROVE SyncInv'
<1>1. PICK l \in Listing : row' = [row EXCEPT ![l].fresh = FALSE]
  BY DEF Age
<1>2. UNCHANGED <<offer, nOffer, pushers, hooks, bounds, seen>>
  BY DEF Age
<1>3. row' \in [Listing -> RowType]
  BY <1>1, InvParts DEF RowType
<1>4. \A k \in Listing : row'[k].ext = row[k].ext /\ row'[k].channel = row[k].channel
  BY <1>1, InvParts DEF RowType
<1>5. RestTyped' /\ UNCHANGED <<stranded, unsure>>
  BY <1>2, InvParts DEF RestTyped, bounds, seen
<1> QED
  BY <1>2, <1>3, <1>4, <1>5, NoPush

\* Every listing that was being pushed is stranded.
LEMMA CrashStep == ASSUME SyncInv, Crash PROVE SyncInv'
<1>1. /\ Happens
      /\ stranded' = stranded \cup {l \in Listing : \E p \in Pusher : job[p].at = l}
      /\ pc' = [p \in Pusher |-> "idle"] /\ job' = [p \in Pusher |-> NoJob]
      /\ hooks' = {}
      /\ UNCHANGED <<row, offer, nOffer, unsure>>
  BY DEF Crash
<1>2. JobsTyped'
  BY <1>1, NoJobIs DEF JobsTyped, Label
<1>3. (row \in [Listing -> RowType])' /\ OffersTyped' /\ RestTyped'
  BY <1>1, HappensIs, InvParts DEF OffersTyped, RestTyped
<1>4. ASSUME NEW p \in Pusher PROVE JobOK(p)'
  <2>1. pc'[p] = "idle" /\ job'[p] = NoJob
    BY <1>1
  <2>2. 0 \notin Listing
    BY PlatformSyncAssumption DEF Listing
  <2> QED
    BY <2>1, <2>2, NoJobIs DEF JobOK, Names
<1>5. RowsOK'
  BY <1>1, InvParts, RowsStay
<1>6. ASSUME NEW l \in Sure' PROVE ListingOK(l)'
  <2>1. l \in Sure /\ \A p \in Pusher : job[p].at # l
    BY <1>1, <1>6 DEF Sure
  <2>2. Pushing(l) = {} /\ Pushing(l)' = {}
    BY <1>1, <2>1 DEF Pushing
  <2>3. OfferedAs(l, row[l].ext)
    BY <2>1, <2>2, InvParts DEF ListingOK
  <2> QED
    BY <1>1, <2>2, <2>3 DEF ListingOK, OfferedAs
<1> QED
  BY <1>2, <1>3, <1>4, <1>5, <1>6, InvFrom

-----------------------------------------------------------------------------
(***************************************************************************)
(* Which listings are pushed                                               *)
(***************************************************************************)
LEMMA Pollers == Poll \in Pusher /\ Client \subseteq Pusher
  BY DEF Pusher

LEMMA LabelIs == \A x \in {"idle", "next", "mark", "load"} : x \in Label \ {"send", "save"}
  BY DEF Label

\* The jobs of a pusher that has listings to go, and is at none.
LEMMA ToGo ==
  ASSUME NEW todo \in SUBSET (Listing \X Channel), NEW again \in BOOLEAN, NEW j,
         j = Job(todo, again, 0, AnyChannel, NoId, FALSE)
  PROVE  /\ j \in JobType /\ j.todo = todo /\ j.at = 0 /\ j.ext = NoId /\ ~j.ok
         /\ j.at \notin Listing
<1>1. 0 \notin Listing
  BY PlatformSyncAssumption DEF Listing
<1> QED
  BY <1>1, NoJobIs DEF Job, JobType

LEMMA StartsToGo ==
  ASSUME SyncInv, NEW p \in Pusher, pc[p] \notin {"send", "save"},
         NEW todo \in SUBSET (Listing \X Channel), NEW again \in BOOLEAN,
         Goes(p, "next", Job(todo, again, 0, AnyChannel, NoId, FALSE)),
         \A x \in todo : x[1] \notin stranded => x[2] = row[x[1]].channel,
         UNCHANGED <<row, offer, nOffer, stranded>>, RestTyped', unsure \subseteq unsure'
  PROVE  SyncInv'
<1> DEFINE j == Job(todo, again, 0, AnyChannel, NoId, FALSE)
<1>1. /\ j \in JobType /\ j.todo = todo /\ j.at = 0 /\ j.ext = NoId /\ ~j.ok
      /\ j.at \notin Listing
  BY ToGo
<1>2. Goes(p, "next", j) /\ "next" \in Label \ {"send", "save"}
  BY LabelIs
<1> HIDE DEF j
<1>3. Names(j.ext, j.at)
  BY <1>1 DEF Names
<1> QED
  BY <1>1, <1>2, <1>3, InvParts, NotThereYet

LEMMA PollListingsStep == ASSUME SyncInv, PollListings PROVE SyncInv'
<1> DEFINE due == {l \in Listing : IsDue(l)}
           taken == {l \in due : Cardinality({k \in due : k <= l}) <= Limit}
           todo == {<<l, row[l].channel>> : l \in taken}
<1>1. /\ pc[Poll] = "idle"
      /\ Goes(Poll, "next", Job(todo, FALSE, 0, AnyChannel, NoId, FALSE))
      /\ UNCHANGED <<row, offer, nOffer, hooks, bounds, seen>>
  BY DEF PollListings, Polls
<1>2. taken \subseteq Listing
  OBVIOUS
<1> HIDE DEF taken
<1>3. todo \in SUBSET (Listing \X Channel)
  BY <1>2, InvParts DEF RowType
<1>4. \A x \in todo : x[1] \notin stranded => x[2] = row[x[1]].channel
  OBVIOUS
<1>5. RestTyped' /\ UNCHANGED <<stranded, unsure>>
  BY <1>1, InvParts DEF RestTyped, bounds, seen
<1> HIDE DEF todo
<1> QED
  BY <1>1, <1>3, <1>4, <1>5, Pollers, StartsToGo

LEMMA AskedIs == ASSUME SyncInv, Asked PROVE pushes' \in 0..MaxPush /\ events' \in 0..MaxEvent
  BY InvParts, PlatformSyncAssumption DEF Asked, RestTyped

LEMMA PushStepKeeps == ASSUME SyncInv, NEW p \in Client, Push(p) PROVE SyncInv'
<1>1. pc[p] = "idle" /\ Asked /\ UNCHANGED <<row, offer, nOffer, hooks, seen>>
  BY DEF Push
<1>2. PICK l \in Listing :
        Goes(p, "next", Job({<<l, row[l].channel>>}, FALSE, 0, AnyChannel, NoId, FALSE))
  BY DEF Push
<1> DEFINE todo == {<<l, row[l].channel>>}
<1>3. todo \in SUBSET (Listing \X Channel)
  BY InvParts DEF RowType
<1>4. \A x \in todo : x[1] \notin stranded => x[2] = row[x[1]].channel
  OBVIOUS
<1>5. RestTyped' /\ UNCHANGED <<stranded, unsure>>
  BY <1>1, AskedIs, InvParts DEF RestTyped, seen
<1>6. Goes(p, "next", Job(todo, FALSE, 0, AnyChannel, NoId, FALSE))
  BY <1>2
<1> HIDE DEF todo
<1> QED
  BY <1>1, <1>3, <1>4, <1>5, <1>6, Pollers, StartsToGo

LEMMA PushAllStep == ASSUME SyncInv, NEW p \in Client, PushAll(p) PROVE SyncInv'
<1>1. pc[p] = "idle" /\ Asked /\ UNCHANGED <<row, offer, nOffer, hooks, seen>>
  BY DEF PushAll
<1>2. PICK cs \in {{c} : c \in Channel} \cup {Channel} :
        LET ls == {l \in Listing : /\ row[l].active /\ row[l].sync # "syncing"
                                   /\ row[l].channel \in cs}
        IN  Goes(p, "next", Job({<<l, row[l].channel>> : l \in ls},
                                TRUE, 0, AnyChannel, NoId, FALSE))
  BY DEF PushAll
<1> DEFINE ls == {l \in Listing : /\ row[l].active /\ row[l].sync # "syncing"
                                  /\ row[l].channel \in cs}
           todo == {<<l, row[l].channel>> : l \in ls}
<1>3. ls \subseteq Listing /\ Goes(p, "next", Job(todo, TRUE, 0, AnyChannel, NoId, FALSE))
  BY <1>2
<1> HIDE DEF ls
<1>4. todo \in SUBSET (Listing \X Channel)
  BY <1>3, InvParts DEF RowType
<1>5. \A x \in todo : x[1] \notin stranded => x[2] = row[x[1]].channel
  OBVIOUS
<1>6. RestTyped' /\ UNCHANGED <<stranded, unsure>>
  BY <1>1, AskedIs, InvParts DEF RestTyped, seen
<1> HIDE DEF todo
<1> QED
  BY <1>1, <1>3, <1>4, <1>5, <1>6, Pollers, StartsToGo

LEMMA TakeStep == ASSUME SyncInv, NEW p \in Pusher, Take(p) PROVE SyncInv'
<1>1. pc[p] = "next" /\ UNCHANGED <<row, offer, nOffer, hooks, bounds, seen>>
  BY DEF Take
<1>2. PICK x \in job[p].todo :
        LET l    == x[1]
            c    == IF job[p].again THEN row[l].channel ELSE x[2]
            rest == job[p].todo \ {x}
        IN  IF p = Poll /\ c \notin Enabled
            THEN Goes(p, "next", Rest(p, rest))
            ELSE Goes(p, "mark", Job(rest, job[p].again, l, c, NoId, FALSE))
  BY DEF Take
<1> DEFINE l == x[1]
           c == IF job[p].again THEN row[l].channel ELSE x[2]
           rest == job[p].todo \ {x}
<1>3. /\ job[p].todo \subseteq Listing \X Channel /\ job[p].again \in BOOLEAN
      /\ \A y \in job[p].todo : y[1] \notin stranded => y[2] = row[y[1]].channel
  BY InvParts, JobHas DEF JobOK
<1>4. l \in Listing /\ x[2] \in Channel /\ rest \in SUBSET (Listing \X Channel)
  BY <1>3
<1>5. c \in Channel /\ (l \notin stranded => c = row[l].channel)
  BY <1>3, <1>4, InvParts DEF RowType
<1>6. RestTyped' /\ UNCHANGED <<stranded, unsure>>
  BY <1>1, InvParts DEF RestTyped, bounds, seen
<1>7. \A y \in rest : y[1] \notin stranded => y[2] = row[y[1]].channel
  BY <1>3
<1>8. CASE Goes(p, "next", Rest(p, rest))
  <2> HIDE DEF rest
  <2> QED
    BY <1>1, <1>3, <1>4, <1>6, <1>7, <1>8, StartsToGo DEF Rest
<1>9. CASE Goes(p, "mark", Job(rest, job[p].again, l, c, NoId, FALSE))
  <2> HIDE DEF rest, c, l
  <2> DEFINE j == Job(rest, job[p].again, l, c, NoId, FALSE)
  <2>1. /\ j \in JobType /\ j.todo = rest /\ j.at = l /\ j.channel = c /\ j.ext = NoId
        /\ j.ok = FALSE
    BY <1>3, <1>4, <1>5, NoJobIs DEF Job, JobType
  <2>2. Goes(p, "mark", j) /\ "mark" \in Label \ {"send", "save"}
    BY <1>9, LabelIs
  <2> HIDE DEF j
  <2>3. Names(j.ext, j.at) /\ Fits(j.channel, j.ext)
    BY <2>1 DEF Names, Fits
  <2> QED
    BY <1>1, <1>4, <1>5, <1>6, <1>7, <2>1, <2>2, <2>3, InvParts, NotThereYet
<1> QED
  BY <1>2, <1>8, <1>9

LEMMA AllPushedStep == ASSUME SyncInv, NEW p \in Pusher, AllPushed(p) PROVE SyncInv'
<1>1. /\ pc[p] = "next" /\ Goes(p, "idle", NoJob)
      /\ UNCHANGED <<row, offer, nOffer, hooks, bounds, seen>>
  BY DEF AllPushed
<1>2. RestTyped' /\ UNCHANGED <<stranded, unsure>>
  BY <1>1, InvParts DEF RestTyped, bounds, seen
<1>3. 0 \notin Listing
  BY PlatformSyncAssumption DEF Listing
<1>4. Names(NoJob.ext, NoJob.at)
  BY NoJobIs DEF Names
<1> QED
  BY <1>1, <1>2, <1>3, <1>4, NoJobIs, LabelIs, InvParts, NotThereYet

-----------------------------------------------------------------------------
(***************************************************************************)
(* A push of one listing                                                   *)
(***************************************************************************)

\* A pusher gets between Load and Save of a listing, where nobody else is, or whose channel
\* has no adapter, or of which it is said to be unsure from then on.
LEMMA GetsThere ==
  ASSUME SyncInv, NEW p \in Pusher, NEW label \in {"send", "save"}, NEW j \in JobType,
         Goes(p, label, j), pc[p] \notin {"send", "save"},
         label = "send" => j.channel \in Configured /\ j.ext = row[j.at].ext,
         j.at \in Listing, j.ok = FALSE, Names(j.ext, j.at),
         \A x \in j.todo : x[1] \notin stranded => x[2] = row[x[1]].channel,
         j.at \notin stranded => j.channel = row[j.at].channel /\ Fits(j.channel, j.ext),
         j.channel \in Adapter /\ Pushing(j.at) # {} => j.at \in unsure',
         UNCHANGED <<offer, nOffer, stranded>>, RestTyped',
         (row \in [Listing -> RowType])', unsure \subseteq unsure',
         \A l \in Listing : row'[l].ext = row[l].ext /\ row'[l].channel = row[l].channel
  PROVE  SyncInv'
<1>1. JobsTyped' /\ pc'[p] = label /\ job'[p] = j /\ Others(p)
  BY InvParts, GoesIs DEF Others, Label
<1>2. OffersTyped'
  BY InvParts DEF OffersTyped
<1>3. JobOK(p)'
  <2>1. \A x \in job'[p].todo : x[1] \notin stranded' => x[2] = row'[x[1]].channel
    BY <1>1, JobHas
  <2> QED
    BY <1>1, <2>1 DEF JobOK, Names, Fits
<1>4. \A q \in Pusher \ {p} : JobOK(q)'
  BY <1>1, InvParts, JobStays DEF Others
<1>5. RowsOK'
  BY InvParts, RowsStay
<1>6. ASSUME NEW l \in Sure', l # j.at PROVE ListingOK(l)'
  <2>1. l \in Listing /\ ListingOK(l) /\ row'[l].ext = row[l].ext
    BY <1>6, InvParts DEF Sure
  <2> QED
    BY <1>1, <1>6, <2>1, ListingStays
<1>7. ASSUME j.at \in Sure' PROVE ListingOK(j.at)'
  <2> DEFINE l == j.at
  <2>1. l \in Sure /\ ListingOK(l) /\ l \notin stranded /\ l \notin unsure'
    BY <1>7, InvParts DEF Sure
  <2>2. Pushing(l)' = Pushing(l) \cup {p} /\ p \notin Pushing(l)
    BY <1>1 DEF Pushing, Others
  <2>3. \A q \in Pushing(l) : /\ job[q].channel \notin Adapter /\ ~job[q].ok /\ pc[q] # "send"
                              /\ pc'[q] = pc[q] /\ job'[q] = job[q]
    <3>1. \A q \in Pushing(l) : q \in Pusher /\ job[q].at = l /\ q # p
      BY <2>2 DEF Pushing
    <3>2. \A q \in Pushing(l) : job[q].channel = j.channel
      BY <2>1, <3>1, InvParts DEF JobOK
    <3>3. Pushing(l) # {} => j.channel \notin Adapter
      BY <2>1
    <3>4. \A q \in Pushing(l) : job[q].channel \notin Adapter
      BY <3>2, <3>3
    <3>5. \A q \in Pushing(l) : ~job[q].ok /\ pc[q] # "send"
      BY <3>1, <3>4, InvParts, PlatformSyncAssumption DEF JobOK, JobsTyped
    <3> QED
      BY <1>1, <3>1, <3>4, <3>5 DEF Others
  <2>4. OfferedAs(l, row[l].ext)
    BY <2>1, <2>3 DEF ListingOK, PushOK
  <2>5. PushOK(p, l)'
    <3>1. OfferedAs(l, row[l].ext)' /\ ~job'[p].ok
      BY <1>1, <2>1, <2>4 DEF OfferedAs, Sure
    <3>2. job'[p].channel \in Adapter => Pushing(l)' = {p}
      BY <1>1, <2>1, <2>2
    <3>3. pc'[p] = "send" => job'[p].ext = row'[l].ext
      BY <1>1
    <3> QED
      BY <3>1, <3>2, <3>3 DEF PushOK
  <2>6. ASSUME NEW q \in Pushing(l) PROVE PushOK(q, l)'
    <3>1. OfferedAs(l, row[l].ext)'
      BY <2>1, <2>4 DEF OfferedAs, Sure
    <3> QED
      BY <2>3, <3>1 DEF PushOK
  <2> QED
    BY <2>2, <2>5, <2>6 DEF ListingOK
<1> QED
  BY <1>1, <1>2, <1>3, <1>4, <1>5, <1>6, <1>7, InvFrom

\* The channel has done what it was asked, or not, and the pusher goes on to write it.
LEMMA Sent ==
  ASSUME SyncInv, NEW p \in Pusher, NEW j \in JobType, Goes(p, "save", j), pc[p] = "send",
         j.at = job[p].at, j.todo = job[p].todo, j.channel = job[p].channel,
         Names(j.ext, j.at)', Fits(j.channel, j.ext) \/ j.at \in stranded,
         UNCHANGED <<row, stranded>>, RestTyped', OffersTyped', unsure \subseteq unsure',
         offer \subseteq offer', \A o \in offer' : o.listing # j.at => o \in offer,
         j.at \in Sure' => OfferedAs(j.at, IF j.ok THEN j.ext ELSE row[j.at].ext)'
  PROVE  SyncInv'
<1>1. JobsTyped' /\ pc'[p] = "save" /\ job'[p] = j /\ Others(p)
  BY InvParts, GoesIs DEF Others, Label
<1>2. j.at \in Listing /\ j.channel \in Configured /\ j.channel \in Adapter
  BY InvParts, PlatformSyncAssumption DEF JobOK, JobsTyped
<1>3. JobOK(p)'
  <2>1. \A x \in job'[p].todo : x[1] \notin stranded' => x[2] = row'[x[1]].channel
    BY <1>1, InvParts DEF JobOK
  <2>2. job'[p].at \in Listing \ stranded' => job'[p].channel = row'[job'[p].at].channel
    BY <1>1, InvParts DEF JobOK
  <2> QED
    BY <1>1, <1>2, <2>1, <2>2 DEF JobOK, Names, Fits
<1>4. \A q \in Pusher \ {p} : JobOK(q)'
  BY <1>1, InvParts, JobStays DEF Others
<1>5. RowsOK'
  BY InvParts, RowsStay
<1>6. ASSUME NEW l \in Sure', l # j.at PROVE ListingOK(l)'
  <2>1. l \in Listing /\ ListingOK(l) /\ \A o \in offer' : o.listing = l => o \in offer
    BY <1>6, InvParts DEF Sure
  <2> QED
    BY <1>1, <1>6, <2>1, ListingStays
<1>7. ASSUME j.at \in Sure' PROVE ListingOK(j.at)'
  <2> DEFINE l == j.at
  <2>1. ListingOK(l)
    BY <1>7, InvParts DEF Sure
  <2>2. p \in Pushing(l)
    BY DEF Pushing
  <2>3. Pushing(l) = {p}
    BY <1>2, <2>1, <2>2 DEF ListingOK, PushOK
  <2>4. Pushing(l)' = {p}
    BY <1>1, <2>3 DEF Pushing, Others
  <2>5. PushOK(p, l)'
    BY <1>1, <1>7, <2>4 DEF PushOK, OfferedAs
  <2> QED
    BY <2>4, <2>5 DEF ListingOK
<1> QED
  BY <1>1, <1>3, <1>4, <1>5, <1>6, <1>7, InvParts, InvFrom

LEMMA MarkStep == ASSUME SyncInv, NEW p \in Pusher, Mark(p) PROVE SyncInv'
<1>1. /\ pc[p] = "mark" /\ row' = [row EXCEPT ![job[p].at].sync = "syncing"]
      /\ Goes(p, IF job[p].channel \in Adapter THEN "load" ELSE "save", job[p])
      /\ UNCHANGED <<offer, nOffer, hooks, bounds, seen>>
  BY DEF Mark
<1>2. job[p].at \in Listing /\ job[p] \in JobType /\ ~job[p].ok /\ job[p].ext \in External
  BY <1>1, InvParts, JobHas DEF JobOK
<1>3. row' \in [Listing -> RowType]
  BY <1>1, <1>2, InvParts DEF RowType
<1>4. \A k \in Listing : row'[k].ext = row[k].ext /\ row'[k].channel = row[k].channel
  BY <1>1, <1>2, InvParts DEF RowType
<1>5. RestTyped' /\ UNCHANGED <<stranded, unsure>>
  BY <1>1, InvParts DEF RestTyped, bounds, seen
<1>6. /\ Names(job[p].ext, job[p].at)
      /\ \A x \in job[p].todo : x[1] \notin stranded => x[2] = row[x[1]].channel
      /\ job[p].at \in Listing \ stranded =>
           job[p].channel = row[job[p].at].channel /\ Fits(job[p].channel, job[p].ext)
  BY InvParts DEF JobOK
<1>7. CASE job[p].channel \in Adapter
  <2>1. Goes(p, "load", job[p])
    BY <1>1, <1>7
  <2> QED
    BY <1>1, <1>2, <1>3, <1>4, <1>5, <1>6, <1>7, <2>1, LabelIs, NotThereYet
<1>8. CASE job[p].channel \notin Adapter
  <2>1. Goes(p, "save", job[p])
    BY <1>1, <1>8
  <2>2. job[p].ok = FALSE
    BY <1>2 DEF JobType
  <2> QED
    BY <1>1, <1>2, <1>3, <1>4, <1>5, <1>6, <1>8, <2>1, <2>2, GetsThere
<1> QED
  BY <1>7, <1>8

LEMMA LoadStep == ASSUME SyncInv, NEW p \in Pusher, Load(p) PROVE SyncInv'
<1> DEFINE l == job[p].at
           j == [job[p] EXCEPT !.ext = row[l].ext]
<1>1. /\ pc[p] = "load" /\ UNCHANGED <<row, offer, nOffer, hooks, bounds, stranded>>
      /\ IF row[l].channel # job[p].channel
         THEN Goes(p, "next", Rest(p, job[p].todo))
         ELSE Goes(p, IF job[p].channel \in Configured THEN "send" ELSE "save", j)
      /\ unsure' = IF Pushing(l) # {} THEN unsure \cup {l} ELSE unsure
  BY DEF Load, Loaded
<1>2. /\ l \in Listing /\ job[p] \in JobType /\ ~job[p].ok
      /\ job[p].todo \in SUBSET (Listing \X Channel) /\ job[p].again \in BOOLEAN
      /\ \A x \in job[p].todo : x[1] \notin stranded => x[2] = row[x[1]].channel
  BY <1>1, InvParts, JobHas DEF JobOK
<1>3. row[l].ext \in External /\ Names(row[l].ext, l)
  BY <1>2, InvParts DEF RowType, RowsOK
<1>4. /\ unsure \subseteq unsure' /\ UNCHANGED stranded /\ RestTyped'
      /\ Pushing(l) # {} => l \in unsure'
  BY <1>1, <1>2, InvParts DEF RestTyped, bounds
<1>5. CASE row[l].channel # job[p].channel
  <2>1. Goes(p, "next", Rest(p, job[p].todo))
    BY <1>1, <1>5
  <2> QED
    BY <1>1, <1>2, <1>4, <2>1, StartsToGo DEF Rest
<1>6. CASE row[l].channel = job[p].channel
  <2>1. /\ j \in JobType /\ j.todo = job[p].todo /\ j.at = l /\ j.channel = job[p].channel
        /\ j.ext = row[l].ext /\ j.ok = job[p].ok
    BY <1>2, <1>3, WithExt
  <2>2. j.ok = FALSE
    BY <1>2, <2>1 DEF JobType
  <2>3. l \notin stranded => Fits(row[l].channel, row[l].ext)
    BY <1>2, InvParts DEF RowsOK
  <2>4. PICK label \in {"send", "save"} :
          Goes(p, label, j) /\ (label = "send" => job[p].channel \in Configured)
    BY <1>1, <1>6
  <2> HIDE DEF j
  <2>5. Names(j.ext, j.at) /\ (j.at \notin stranded => Fits(j.channel, j.ext))
    BY <1>3, <1>6, <2>1, <2>3
  <2> QED
    BY <1>1, <1>2, <1>4, <1>6, <2>1, <2>2, <2>4, <2>5, InvParts, GetsThere
<1> QED
  BY <1>5, <1>6

LEMMA SendingIs ==
  ASSUME SyncInv, NEW p \in Pusher, pc[p] = "send"
  PROVE  /\ job[p] \in JobType /\ job[p].at \in Listing /\ job[p].channel \in Configured
         /\ job[p].channel \in Channel /\ job[p].ok = FALSE
         /\ Names(job[p].ext, job[p].at)
         /\ job[p].at \notin stranded => Fits(job[p].channel, job[p].ext)
         /\ job[p].at \in Sure => /\ job[p].ext = row[job[p].at].ext
                                  /\ OfferedAs(job[p].at, row[job[p].at].ext)
<1>1. /\ job[p] \in JobType /\ job[p].at \in Listing /\ job[p].channel \in Configured
      /\ ~job[p].ok /\ Names(job[p].ext, job[p].at)
      /\ job[p].at \notin stranded => Fits(job[p].channel, job[p].ext)
  BY InvParts DEF JobOK, JobsTyped
<1>2. job[p].channel \in Channel /\ job[p].ok = FALSE
  BY <1>1 DEF JobType
<1>3. ASSUME job[p].at \in Sure
      PROVE  /\ job[p].ext = row[job[p].at].ext
             /\ OfferedAs(job[p].at, row[job[p].at].ext)
  <2>1. p \in Pushing(job[p].at)
    BY DEF Pushing
  <2> QED
    BY <1>1, <1>3, <2>1, InvParts DEF ListingOK, PushOK
<1> QED
  BY <1>1, <1>2, <1>3

LEMMA CreatesIs ==
  ASSUME SyncInv, NEW j \in JobType, j.at \in Listing, j.channel \in Configured, Creates(j)
  PROVE  \E id \in External \ {NoId} :
           /\ OffersTyped' /\ offer \subseteq offer'
           /\ \A o \in offer' : o \in offer \/ (o.id = id /\ o.listing = j.at)
           /\ \E o \in offer' : o.id = id /\ o.listing = j.at
           /\ IF j.channel \in Keyed THEN id = Sku ELSE id # Sku /\ nOffer' = id
<1>1. PICK id \in IF j.channel \in Keyed THEN {Sku} ELSE {nOffer + 1} \cap Number :
        /\ offer' = offer \cup {OfferOf(j.channel, id, j.at)}
        /\ nOffer' = IF id = Sku THEN nOffer ELSE id
  BY DEF Creates
<1>2. id \in External \ {NoId} /\ (id # Sku => id \in 0..MaxOffer)
  BY <1>1, ExternalIds
<1>3. IF j.channel \in Keyed THEN id = Sku ELSE id # Sku /\ nOffer' = id
  BY <1>1, ExternalIds
<1> DEFINE new == OfferOf(j.channel, id, j.at)
<1>4. /\ new \in [channel : Configured, id : External \ {NoId}, listing : Listing]
      /\ new.id = id /\ new.listing = j.at
  BY <1>2 DEF OfferOf
<1>5. offer' = offer \cup {new}
  BY <1>1
<1> HIDE DEF new
<1>6. OffersTyped'
  BY <1>1, <1>2, <1>4, <1>5, InvParts DEF OffersTyped
<1> QED
  BY <1>2, <1>3, <1>4, <1>5, <1>6

LEMMA SendStep == ASSUME SyncInv, NEW p \in Pusher, Send(p) PROVE SyncInv'
<1>0. PICK j : j = job[p]
  OBVIOUS
<1>1. /\ pc[p] = "send" /\ UNCHANGED <<row, hooks, bounds, seen>>
      /\ IF j.channel \notin Keyed /\ j.ext # NoId
         THEN Changes(j) /\ Answered(p, j.ext)
         ELSE Creates(j) /\ Answered(p, IF j.channel \in Keyed THEN Sku ELSE nOffer')
  BY <1>0 DEF Send
<1>2. /\ j \in JobType /\ j.at \in Listing /\ j.channel \in Configured
      /\ j.channel \in Channel /\ j.ok = FALSE /\ Names(j.ext, j.at)
      /\ j.at \notin stranded => Fits(j.channel, j.ext)
      /\ j.at \in Sure => j.ext = row[j.at].ext /\ OfferedAs(j.at, row[j.at].ext)
  BY <1>0, <1>1, SendingIs
<1>3. RestTyped' /\ UNCHANGED <<stranded, unsure>> /\ Sure' = Sure
  BY <1>1, InvParts DEF RestTyped, bounds, seen, Sure
<1>4. j.ext \in External
  BY <1>2, JobHas
<1>5. CASE j.channel \notin Keyed /\ j.ext # NoId
  <2>1. Changes(j) /\ Answered(p, j.ext)
    BY <1>1, <1>5
  <2>0. PICK k : k = [j EXCEPT !.ext = j.ext, !.ok = TRUE]
    OBVIOUS
  <2>2. /\ k \in JobType /\ k.todo = j.todo /\ k.at = j.at /\ k.channel = j.channel
        /\ k.ext = j.ext /\ k.ok = TRUE
    BY <1>2, <1>4, <2>0, WithAnswer
  <2>3. Goes(p, "save", k)
    BY <1>0, <2>0, <2>1 DEF Answered
  <2>4. UNCHANGED <<offer, nOffer>>
    BY <2>1 DEF Changes
  <2>5. Names(k.ext, k.at)' /\ OffersTyped'
    BY <1>2, <2>2, <2>4, InvParts DEF Names, OffersTyped
  <2>6. Fits(k.channel, k.ext) \/ k.at \in stranded
    BY <1>2, <2>2
  <2>7. k.at \in Sure' => OfferedAs(k.at, IF k.ok THEN k.ext ELSE row[k.at].ext)'
    BY <1>1, <1>2, <1>3, <2>2, <2>4 DEF OfferedAs
  <2> QED
    BY <1>1, <1>3, <2>2, <2>3, <2>4, <2>5, <2>6, <2>7, <1>0, Sent DEF seen
<1>6. CASE ~(j.channel \notin Keyed /\ j.ext # NoId)
  <2>1. Creates(j) /\ Answered(p, IF j.channel \in Keyed THEN Sku ELSE nOffer')
    BY <1>1, <1>6
  <2>2. PICK id \in External \ {NoId} :
          /\ OffersTyped' /\ offer \subseteq offer'
          /\ \A o \in offer' : o \in offer \/ (o.id = id /\ o.listing = j.at)
          /\ \E o \in offer' : o.id = id /\ o.listing = j.at
          /\ IF j.channel \in Keyed THEN id = Sku ELSE id # Sku /\ nOffer' = id
    BY <1>2, <2>1, CreatesIs
  <2>0. PICK k : k = [j EXCEPT !.ext = id, !.ok = TRUE]
    OBVIOUS
  <2>3. Goes(p, "save", k)
    BY <1>0, <2>0, <2>1, <2>2 DEF Answered
  <2>4. /\ k \in JobType /\ k.todo = j.todo /\ k.at = j.at /\ k.channel = j.channel
        /\ k.ext = id /\ k.ok = TRUE
    BY <1>2, <2>0, WithAnswer
  <2>5. Names(k.ext, k.at)' /\ Fits(k.channel, k.ext)
    BY <2>2, <2>4 DEF Names, Fits
  <2>6. ASSUME j.at \in Sure PROVE \A o \in offer' : o.listing = j.at => o.id = id
    <3>1. \A o \in offer : o.id # NoId
      BY InvParts DEF OffersTyped
    <3>2. \A o \in offer : o.listing = j.at => o.id = j.ext
      BY <1>2, <2>6 DEF OfferedAs
    <3>3. CASE j.channel \in Keyed
      BY <1>2, <2>2, <2>6, <3>1, <3>2, <3>3 DEF Fits, Sure
    <3>4. CASE j.channel \notin Keyed
      BY <1>6, <2>2, <3>1, <3>2, <3>4
    <3> QED
      BY <3>3, <3>4
  <2>7. k.at \in Sure' => OfferedAs(k.at, IF k.ok THEN k.ext ELSE row[k.at].ext)'
    BY <1>3, <2>4, <2>6 DEF OfferedAs
  <2> QED
    BY <1>1, <1>3, <2>2, <2>3, <2>4, <2>5, <2>7, <1>0, Sent DEF seen
<1> QED
  BY <1>5, <1>6

LEMMA SendUnansweredStep == ASSUME SyncInv, NEW p \in Pusher, SendUnanswered(p) PROVE SyncInv'
<1>0. PICK j : j = job[p]
  OBVIOUS
<1>1. /\ pc[p] = "send" /\ UNCHANGED <<row, hooks, bounds, stranded>>
      /\ Creates(j) /\ unsure' = unsure \cup {j.at}
      /\ \/ Goes(p, "save", j)
         \/ j.channel \notin Keyed /\ Answered(p, NoId)
  BY <1>0 DEF SendUnanswered
<1>2. /\ j \in JobType /\ j.at \in Listing /\ j.channel \in Configured
      /\ j.channel \in Channel /\ j.ok = FALSE /\ Names(j.ext, j.at)
      /\ j.at \notin stranded => Fits(j.channel, j.ext)
  BY <1>0, <1>1, SendingIs
<1>3. RestTyped' /\ unsure \subseteq unsure'
  BY <1>1, <1>2, InvParts DEF RestTyped, bounds
<1>4. j.at \notin Sure'
  BY <1>1 DEF Sure
<1>5. PICK id \in External \ {NoId} :
        /\ OffersTyped' /\ offer \subseteq offer'
        /\ \A o \in offer' : o \in offer \/ (o.id = id /\ o.listing = j.at)
  BY <1>1, <1>2, CreatesIs
<1>6. PICK k \in JobType : /\ Goes(p, "save", k)
                           /\ k.todo = j.todo /\ k.at = j.at /\ k.channel = j.channel
                           /\ k.ext \in {NoId, j.ext}
  <2>1. CASE Goes(p, "save", j)
    BY <1>2, <2>1
  <2>2. CASE Answered(p, NoId)
    <3>0. PICK k : k = [j EXCEPT !.ext = NoId, !.ok = TRUE]
      OBVIOUS
    <3>1. /\ k \in JobType /\ k.todo = j.todo /\ k.at = j.at /\ k.channel = j.channel
          /\ k.ext = NoId
      BY <1>2, <3>0, ExternalIds, WithAnswer
    <3>2. Goes(p, "save", k)
      BY <1>0, <2>2, <3>0 DEF Answered
    <3> QED
      BY <3>1, <3>2
  <2> QED
    BY <1>1, <2>1, <2>2
<1>7. Names(k.ext, k.at)'
  BY <1>2, <1>5, <1>6 DEF Names
<1>8. Fits(k.channel, k.ext) \/ k.at \in stranded
  BY <1>2, <1>6 DEF Fits
<1> QED
  BY <1>1, <1>3, <1>4, <1>5, <1>6, <1>7, <1>8, <1>0, Sent

LEMMA SendRefusedStep == ASSUME SyncInv, NEW p \in Pusher, SendRefused(p) PROVE SyncInv'
<1>0. PICK j : j = job[p]
  OBVIOUS
<1>1. /\ pc[p] = "send" /\ Goes(p, "save", j)
      /\ UNCHANGED <<row, offer, nOffer, hooks, bounds, seen>>
  BY <1>0 DEF SendRefused
<1>2. /\ j \in JobType /\ j.at \in Listing /\ j.ok = FALSE /\ Names(j.ext, j.at)
      /\ j.at \notin stranded => Fits(j.channel, j.ext)
      /\ j.at \in Sure => OfferedAs(j.at, row[j.at].ext)
  BY <1>0, <1>1, SendingIs
<1>3. RestTyped' /\ OffersTyped' /\ UNCHANGED <<stranded, unsure>> /\ Sure' = Sure
  BY <1>1, InvParts DEF RestTyped, OffersTyped, bounds, seen, Sure
<1>4. Names(j.ext, j.at)'
  BY <1>1, <1>2 DEF Names
<1>5. j.at \in Sure' => OfferedAs(j.at, IF j.ok THEN j.ext ELSE row[j.at].ext)'
  BY <1>1, <1>2, <1>3 DEF OfferedAs
<1> QED
  BY <1>1, <1>2, <1>3, <1>4, <1>5, <1>0, Sent

\* The answer is written.  The pusher is the only one at the listing, if it has an answer:
\* all the listing is offered as is what it writes.
LEMMA SaveStep == ASSUME SyncInv, NEW p \in Pusher, Save(p) PROVE SyncInv'
<1>0. PICK j : j = job[p]
  OBVIOUS
<1> DEFINE l == j.at
<1>1. /\ pc[p] = "save"
      /\ row' = [row EXCEPT ![l] = IF j.ok THEN ListingRow(@.channel, @.active, "synced", j.ext, TRUE)
                                   ELSE [@ EXCEPT !.sync = "error"]]
      /\ Goes(p, "next", Rest(p, j.todo))
      /\ UNCHANGED <<offer, nOffer, hooks, bounds, seen>>
  BY <1>0 DEF Save
<1>2. /\ j \in JobType /\ l \in Listing /\ j.ext \in External /\ job[p].again \in BOOLEAN
      /\ j.todo \in SUBSET (Listing \X Channel)
      /\ \A x \in j.todo : x[1] \notin stranded => x[2] = row[x[1]].channel
      /\ Names(j.ext, l) /\ (j.ok => j.channel \in Configured)
      /\ l \notin stranded => j.channel = row[l].channel /\ Fits(j.channel, j.ext)
  BY <1>0, <1>1, InvParts, JobHas DEF JobOK
<1>3. PICK r : r = row'[l]
  OBVIOUS
<1>4. /\ r \in RowType /\ r.channel = row[l].channel
      /\ r.ext = IF j.ok THEN j.ext ELSE row[l].ext
  <2>1. row[l] \in RowType
    BY <1>2, InvParts
  <2>2. CASE j.ok
    <3>1. r = ListingRow(row[l].channel, row[l].active, "synced", j.ext, TRUE)
      BY <1>1, <1>2, <1>3, <2>2, InvParts
    <3> QED
      BY <1>2, <2>1, <2>2, <3>1 DEF ListingRow, RowType
  <2>3. CASE ~j.ok
    <3>1. r = [row[l] EXCEPT !.sync = "error"]
      BY <1>1, <1>2, <1>3, <2>3, InvParts
    <3> QED
      BY <2>1, <2>3, <3>1 DEF RowType
  <2> QED
    BY <2>2, <2>3
<1>5. row' \in [Listing -> RowType] /\ \A k \in Listing \ {l} : row'[k] = row[k]
  BY <1>1, <1>3, <1>4, InvParts
<1>6. \A k \in Listing : row'[k].channel = row[k].channel
  BY <1>3, <1>4, <1>5
<1>7. RestTyped' /\ OffersTyped' /\ UNCHANGED <<stranded, unsure>> /\ Sure' = Sure
  BY <1>1, InvParts DEF RestTyped, OffersTyped, bounds, seen, Sure
<1>go. PICK go : go = Rest(p, j.todo)
  OBVIOUS
<1>8. /\ go \in JobType /\ go.todo = j.todo /\ go.at = 0 /\ go.ext = NoId /\ ~go.ok
      /\ go.at \notin Listing
  <2>1. go = Job(j.todo, job[p].again, 0, AnyChannel, NoId, FALSE)
    BY <1>go DEF Rest
  <2>2. 0 \notin Listing
    BY PlatformSyncAssumption DEF Listing
  <2> QED
    BY <1>2, <2>1, <2>2, NoJobIs DEF Job, JobType
<1>9. JobsTyped' /\ pc'[p] = "next" /\ job'[p] = go /\ Others(p)
  <2>1. "next" \in Label
    BY DEF Label
  <2> QED
    BY <1>1, <1>go, <1>8, <2>1, InvParts, GoesIs DEF Others
<1>10. JobOK(p)'
  <2>1. \A x \in job'[p].todo : x[1] \notin stranded' => x[2] = row'[x[1]].channel
    BY <1>2, <1>6, <1>7, <1>8, <1>9
  <2> QED
    BY <1>8, <1>9, <2>1 DEF JobOK, Names
<1>11. \A q \in Pusher \ {p} : JobOK(q)'
  BY <1>1, <1>6, <1>7, <1>9, InvParts, JobStays DEF Others
<1>12. RowsOK'
  <2>1. ASSUME NEW k \in Listing, k # l
        PROVE  /\ row'[k].ext # NoId => \E o \in offer : o.id = row'[k].ext /\ o.listing = k
               /\ k \notin stranded => Fits(row'[k].channel, row'[k].ext)
    BY <1>5, <2>1, InvParts DEF RowsOK, Names
  <2>2. /\ r.ext # NoId => \E o \in offer : o.id = r.ext /\ o.listing = l
        /\ l \notin stranded => Fits(r.channel, r.ext)
    BY <1>2, <1>4, InvParts DEF RowsOK, Names, Fits
  <2>3. UNCHANGED <<offer, stranded>>
    BY <1>1, <1>7
  <2> QED
    BY <1>3, <2>1, <2>2, <2>3 DEF RowsOK, Names, Fits
<1>13. ASSUME NEW k \in Sure', k # l PROVE ListingOK(k)'
  <2>1. k \in Listing /\ ListingOK(k) /\ row'[k].ext = row[k].ext
    BY <1>5, <1>7, <1>13, InvParts DEF Sure
  <2> QED
    BY <1>0, <1>1, <1>9, <1>13, <2>1, ListingStays
<1>14. ASSUME l \in Sure' PROVE ListingOK(l)'
  <2>1. l \in Sure /\ p \in Pushing(l)
    BY <1>0, <1>1, <1>7, <1>14 DEF Pushing
  <2>2. /\ j.channel \in Adapter => Pushing(l) = {p}
        /\ OfferedAs(l, r.ext)
        /\ \A q \in Pushing(l) : PushOK(q, l)
    BY <1>0, <1>4, <2>1, InvParts DEF ListingOK, PushOK
  <2>3. Pushing(l)' = Pushing(l) \ {p}
    BY <1>9 DEF Pushing, Others
  <2>4. CASE j.ok
    <3>1. Pushing(l)' = {}
      BY <1>2, <2>2, <2>3, <2>4, PlatformSyncAssumption
    <3> QED
      BY <1>1, <1>3, <2>2, <3>1 DEF ListingOK, OfferedAs
  <2>5. CASE ~j.ok
    <3>1. r.ext = row[l].ext
      BY <1>4, <2>5
    <3>2. ASSUME NEW q \in Pushing(l), q # p PROVE PushOK(q, l)'
      <4>1. q \in Pusher /\ pc'[q] = pc[q] /\ job'[q] = job[q] /\ PushOK(q, l)
        BY <1>9, <2>2, <3>2 DEF Pushing, Others
      <4>2. job[q].channel \notin Adapter
        BY <2>1, <3>2, <4>1 DEF PushOK
      <4> QED
        BY <1>1, <1>3, <3>1, <4>1, <4>2 DEF PushOK, OfferedAs
    <3>3. OfferedAs(l, row[l].ext)'
      BY <1>1, <1>3, <2>2 DEF OfferedAs
    <3> QED
      BY <2>3, <3>2, <3>3 DEF ListingOK
  <2> QED
    BY <2>4, <2>5
<1> QED
  BY <1>5, <1>7, <1>9, <1>10, <1>11, <1>12, <1>13, <1>14, InvFrom

-----------------------------------------------------------------------------
(***************************************************************************)
(* The theorems.                                                           *)
(***************************************************************************)
LEMMA SyncInvInit == Init => SyncInv
<1> SUFFICES ASSUME Init PROVE SyncInv
  OBVIOUS
<1>1. PICK old \in SUBSET Listing, c \in [Listing -> Channel] :
        /\ \A l \in old : c[l] \in Configured
        /\ row = [l \in Listing |-> IF l \in old THEN Pushed(c[l], l) ELSE New(c[l])]
        /\ offer = {OfferOf(c[l], Pushed(c[l], l).ext, l) : l \in old}
  BY DEF Init
<1>2. /\ nOffer = MaxListing
      /\ pc = [p \in Pusher |-> "idle"] /\ job = [p \in Pusher |-> NoJob]
      /\ hooks = {} /\ pushes = 0 /\ events = 0 /\ stranded = {} /\ unsure = {}
  BY DEF Init
<1>3. /\ \A l \in Listing : l \in Number /\ l \in Int /\ l # Sku /\ l # NoId /\ l \in External
      /\ Sku \in External /\ NoId \in External /\ Sku # NoId
  BY PlatformSyncAssumption, ExternalIds DEF Listing, Number
<1>4. \A l \in Listing : /\ Pushed(c[l], l) \in RowType /\ New(c[l]) \in RowType
                         /\ Pushed(c[l], l).channel = c[l] /\ New(c[l]).channel = c[l]
                         /\ New(c[l]).ext = NoId
                         /\ Pushed(c[l], l).ext = IF c[l] \in Keyed THEN Sku ELSE l
  BY <1>3 DEF Pushed, New, ListingRow, RowType
<1>5. /\ row \in [Listing -> RowType]
      /\ \A l \in Listing : row[l].channel = c[l]
      /\ \A l \in old : row[l].ext = IF c[l] \in Keyed THEN Sku ELSE l
      /\ \A l \in Listing \ old : row[l].ext = NoId
  BY <1>1, <1>4
<1>6. \A o \in offer : /\ o.listing \in old /\ o.id = row[o.listing].ext
                       /\ o \in [channel : Configured, id : External \ {NoId}, listing : Listing]
  <2> SUFFICES ASSUME NEW l \in old, NEW o, o = OfferOf(c[l], Pushed(c[l], l).ext, l)
               PROVE  /\ o.listing \in old /\ o.id = row[o.listing].ext
                      /\ o \in [channel : Configured, id : External \ {NoId}, listing : Listing]
    BY <1>1
  <2>1. o.listing = l /\ o.id = Pushed(c[l], l).ext /\ o.channel = c[l]
    BY DEF OfferOf
  <2>2. o.id = row[l].ext /\ o.id \in External \ {NoId}
    BY <1>3, <1>4, <1>5, <2>1
  <2> QED
    BY <1>1, <2>1, <2>2 DEF OfferOf
<1>7. \A l \in old : \E o \in offer : o.id = row[l].ext /\ o.listing = l
  <2> SUFFICES ASSUME NEW l \in old PROVE \E o \in offer : o.id = row[l].ext /\ o.listing = l
    OBVIOUS
  <2>1. OfferOf(c[l], Pushed(c[l], l).ext, l) \in offer
    BY <1>1
  <2> QED
    BY <1>4, <1>5, <2>1 DEF OfferOf
<1>8. TypeOK
  <2>1. OffersTyped
    BY <1>2, <1>6, PlatformSyncAssumption DEF OffersTyped
  <2>2. JobsTyped
    BY <1>2, NoJobIs DEF JobsTyped, Label
  <2>3. RestTyped
    BY <1>2, PlatformSyncAssumption DEF RestTyped
  <2> QED
    BY <1>5, <2>1, <2>2, <2>3, TypeParts
<1>9. JobsOK
  <2>1. 0 \notin Listing
    BY PlatformSyncAssumption DEF Listing
  <2> QED
    BY <1>2, <2>1, NoJobIs DEF JobsOK, JobOK, Names
<1>10. RowsOK
  BY <1>3, <1>5, <1>7 DEF RowsOK, Names, Fits
<1>11. OffersOK
  <2>1. \A l : Pushing(l) = {}
    BY <1>2 DEF Pushing
  <2> QED
    BY <1>6, <2>1 DEF OffersOK, ListingOK, OfferedAs
<1> QED
  BY <1>8, <1>9, <1>10, <1>11 DEF SyncInv

LEMMA SyncInvStep == SyncInv /\ [Next]_vars => SyncInv'
<1> SUFFICES ASSUME SyncInv, [Next]_vars PROVE SyncInv'
  OBVIOUS
<1>1. CASE PollListings
  BY <1>1, PollListingsStep
<1>2. ASSUME NEW p \in Client, Push(p) \/ PushAll(p) PROVE SyncInv'
  BY <1>2, PushStepKeeps, PushAllStep
<1>3. ASSUME NEW p \in Pusher, PushStep(p) PROVE SyncInv'
  BY <1>3, TakeStep, AllPushedStep, MarkStep, LoadStep, SendStep, SendUnansweredStep,
     SendRefusedStep, SaveStep DEF PushStep
<1>4. CASE WebhookFind \/ WebhookMark \/ PutStatus \/ PutChannel \/ Age \/ Crash
  BY <1>4, WebhookFindStep, WebhookMarkStep, PutStatusStep, PutChannelStep, AgeStep, CrashStep
<1>5. CASE UNCHANGED vars
  <2>1. UNCHANGED <<row, offer, nOffer, pushers, hooks, bounds, seen>>
    BY <1>5 DEF vars
  <2>2. RestTyped' /\ UNCHANGED <<stranded, unsure>>
    BY <2>1, InvParts DEF RestTyped, bounds, seen
  <2> QED
    BY <2>1, <2>2, InvParts, NoPush
<1> QED
  BY <1>1, <1>2, <1>3, <1>4, <1>5 DEF Next

\* The inductive invariant holds in every behaviour.
LEMMA SyncInvariant == Spec => []SyncInv
<1> QED
  BY SyncInvInit, SyncInvStep, PTL DEF Spec

\* The rows, the offers and the pushers have the values the statements give them, and a
\* push only goes to a channel that can be pushed to.
THEOREM SyncTypeCorrect == Spec => []TypeOK
<1>1. SyncInv => TypeOK
  BY DEF SyncInv
<1> QED
  BY <1>1, SyncInvariant, PTL

\* The external id of a listing is that of an offer that was made for it.
THEOREM IdsNameOffers == Spec => []ExternalIdsNameOffers
<1>1. SyncInv => ExternalIdsNameOffers
  BY InvParts DEF ExternalIdsNameOffers, RowsOK, Names
<1> QED
  BY <1>1, SyncInvariant, PTL

\* The server knows every offer it has made, once the push is over, but for listings that
\* were pushed twice at a time, unanswered, cut off or moved to another channel.
THEOREM EveryOfferIsKnown == Spec => []OffersAreKnown
<1>1. SyncInv => OffersAreKnown
  <2> SUFFICES ASSUME SyncInv, NEW o \in offer, o.listing \notin stranded \cup unsure,
                      Pushing(o.listing) = {}
               PROVE  row[o.listing].ext = o.id
    BY DEF OffersAreKnown
  <2>1. o.listing \in Sure
    BY InvParts DEF OffersTyped, Sure
  <2> QED
    BY <2>1, InvParts DEF ListingOK, OfferedAs
<1> QED
  BY <1>1, SyncInvariant, PTL
=============================================================================
