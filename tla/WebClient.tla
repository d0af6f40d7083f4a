------------------------------ MODULE WebClient ------------------------------
(***************************************************************************)
(* The modal of the web client (app.js, pages/comments.js): the detail     *)
(* view of an item with its tab of notes, the forms of an item and of a    *)
(* listing.  A click runs to its first await, and what follows runs when   *)
(* the answer comes: the server takes the requests of one tab in threads   *)
(* of their own, and answers come back in any order, as errors, or not at  *)
(* all.  The modal covers the page: what is on the page is clicked while   *)
(* it is hidden.                                                           *)
(***************************************************************************)
EXTENDS Integers, SequencesExt

CONSTANTS Item,
          Req,     \* bound: the requests under way at a time
          MaxOpen, \* bound: the detail views opened
          MaxNote  \* bound: the notes posted

ASSUME WebClientAssumption == MaxOpen \in Nat /\ MaxNote \in Nat

NoItem == "none"
NoteId == 1..MaxNote
View   == 0..MaxOpen

VARIABLES
    open,   \* the modal is not hidden
    body,   \* what #modal-body holds
    nOpen,  \* the detail views opened so far
    note,   \* the notes: their item, the view they were posted from, whether the server
            \* has stored them, and the detail views opened when the client was told (an
            \* observer; -1 before)
    req     \* the requests under way

vars == <<open, body, nOpen, note, req>>

(***************************************************************************)
(* The body has the detail view of an item, the form of an item (NoItem    *)
(* for a new one), the form of a listing, or the text shown until that is  *)
(* loaded.  A detail view is known by its number: its panel is not that of *)
(* a later one.  The panel of notes may be asked for and then has a list:  *)
(* the server's, or none of the notes when it answered an error.           *)
(***************************************************************************)
Body(k, i, v) ==
    [kind |-> k, item |-> i, view |-> v, asked |-> FALSE, listed |-> "no", list |-> <<>>]

Empty     == Body("empty", NoItem, 0)
Detail(i) == Body("detail", i, nOpen + 1)
Form(i)   == Body("form", i, 0)
Loading   == Body("loading", NoItem, 0)
Listing   == Body("listing", NoItem, 0)

Listed == body.listed # "no"

\* A request: what is done with its answer, its item, the view and the note it is for,
\* whether the server has taken it, and the notes it answered.
Request(op, i, v, n) ==
    [op |-> op, item |-> i, view |-> v, note |-> n, taken |-> FALSE, data |-> <<>>]

NoRequest == Request("free", NoItem, 0, 0)

Init ==
    /\ open = FALSE /\ body = Empty /\ nOpen = 0
    /\ note = <<>>
    /\ req = [r \in Req |-> NoRequest]

Sends(q) == \E r \in Req : req[r].op = "free" /\ req' = [req EXCEPT ![r] = q]

Shows(b) == open' = TRUE /\ body' = b
Hides    == open' = FALSE /\ body' = Empty

-----------------------------------------------------------------------------
(***************************************************************************)
(* What the user does                                                      *)
(***************************************************************************)

\* openItemDetail, from the page.
OpenItemDetail ==
    /\ ~open /\ \E i \in Item : Sends(Request("detail", i, 0, 0))
    /\ UNCHANGED <<open, body, nOpen, note>>

\* openEditItem, from the page or from a detail view, which closes first.
OpenEditItem ==
    /\ \/ ~open /\ \E i \in Item : Sends(Request("form", i, 0, 0)) /\ UNCHANGED <<open, body>>
       \/ open /\ body.kind = "detail" /\ Sends(Request("form", body.item, 0, 0)) /\ Hides
    /\ UNCHANGED <<nOpen, note>>

OpenAddItem ==
    /\ ~open /\ Shows(Form(NoItem))
    /\ UNCHANGED <<nOpen, note, req>>

\* openAddListing opens the modal, and asks for the items, twice in a row.
OpenAddListing ==
    /\ ~open /\ Shows(Loading)
    /\ Sends(Request("listing", NoItem, 0, 0))
    /\ UNCHANGED <<nOpen, note>>

\* saveItem and saveListing: the modal stays open until the answer.
Save ==
    /\ open /\ body.kind \in {"form", "listing"}
    /\ Sends(Request("save", body.item, 0, 0))
    /\ UNCHANGED <<open, body, nOpen, note>>

CloseModal ==
    /\ open /\ Hides
    /\ UNCHANGED <<nOpen, note, req>>

\* Mutation: the notes are asked for whenever the tab is chosen.
ShowTab_Again ==
    /\ open /\ body.kind = "detail"
    /\ body' = [body EXCEPT !.asked = TRUE]
    /\ Sends(Request("notes", body.item, body.view, 0))
    /\ UNCHANGED <<open, nOpen, note>>

\* DetailUI.showTab: the notes are asked for when the tab is first chosen.
ShowTab ==
    /\ open /\ body.kind = "detail" /\ ~body.asked
    /\ body' = [body EXCEPT !.asked = TRUE]
    /\ Sends(Request("notes", body.item, body.view, 0))
    /\ UNCHANGED <<open, nOpen, note>>

\* CommentsUI.postComment, from a panel that has its list.
PostComment ==
    /\ open /\ Listed /\ Len(note) < MaxNote
    /\ note' = Append(note, [item |-> body.item, view |-> body.view,
                             stored |-> FALSE, told |-> -1])
    /\ Sends(Request("post", body.item, body.view, Len(note')))
    /\ UNCHANGED <<open, body, nOpen>>

-----------------------------------------------------------------------------
(***************************************************************************)
(* What comes back                                                         *)
(***************************************************************************)

Stored(i) == {n \in DOMAIN note : note[n].item = i /\ note[n].stored}

\* The server takes a request: a note is entered, the notes of the item are listed.
Take(r) ==
    /\ req[r].op # "free" /\ ~req[r].taken
    /\ req' = [req EXCEPT ![r].taken = TRUE,
                          ![r].data = IF req[r].op = "notes"
                                      THEN SetToSortSeq(Stored(req[r].item), <) ELSE <<>>]
    /\ note' = IF req[r].op = "post" THEN [note EXCEPT ![req[r].note].stored = TRUE] ELSE note
    /\ UNCHANGED <<open, body, nOpen>>

Answers(r, op) ==
    /\ req[r].op = op /\ req[r].taken
    /\ req' = [req EXCEPT ![r] = NoRequest]

\* The detail view or the form of the item takes the place of whatever is there.
OpenAnswered(r) ==
    /\ \/ /\ Answers(r, "detail") /\ nOpen < MaxOpen
          /\ Shows(Detail(req[r].item)) /\ nOpen' = nOpen + 1
       \/ Answers(r, "form") /\ Shows(Form(req[r].item)) /\ UNCHANGED nOpen
    /\ UNCHANGED note

\* The form of the listing is put into the body, whatever was there, open or not.
ListingAnswered(r) ==
    /\ Answers(r, "listing")
    /\ body' = Listing
    /\ UNCHANGED <<open, nOpen, note>>

\* The modal is closed, whatever is in it.
SaveAnswered(r) ==
    /\ Answers(r, "save") /\ Hides
    /\ UNCHANGED <<nOpen, note>>

\* Mutation: the panel is looked for when the answer is there.
RenderComments_Late(r, how, l) ==
    body' = [body EXCEPT !.listed = how, !.list = l]

\* renderComments fills the panel it was called with, which may be in the document no more.
RenderComments(r, how, l) ==
    body' = IF body.view = req[r].view THEN [body EXCEPT !.listed = how, !.list = l] ELSE body

NotesAnswered(r) ==
    /\ Answers(r, "notes")
    /\ RenderComments(r, "read", req[r].data)
    /\ UNCHANGED <<open, nOpen, note>>

\* The note is added to the list of its item, if that is in the document.
PostAnswered(r) ==
    /\ Answers(r, "post")
    /\ note' = [note EXCEPT ![req[r].note].told = nOpen]
    /\ body' = IF Listed /\ body.item = req[r].item
               THEN [body EXCEPT !.list = Append(@, req[r].note)] ELSE body
    /\ UNCHANGED <<open, nOpen>>

\* The server answers an error: the form of a listing is put up without the items, and the
\* panel of notes as if there were none; the others leave everything as it is.
ErrorAnswered(r) ==
    /\ req[r].op # "free" /\ ~req[r].taken
    /\ req' = [req EXCEPT ![r] = NoRequest]
    /\ CASE req[r].op = "listing" -> body' = Listing
         [] req[r].op = "notes"   -> RenderComments(r, "error", <<>>)
         [] OTHER                 -> UNCHANGED body
    /\ UNCHANGED <<open, nOpen, note>>

\* No answer comes: what waits for it goes no further.
Lost(r) ==
    /\ req[r].op # "free"
    /\ req' = [req EXCEPT ![r] = NoRequest]
    /\ UNCHANGED <<open, body, nOpen, note>>

Next ==
    \/ OpenItemDetail \/ OpenEditItem \/ OpenAddItem \/ OpenAddListing
    \/ Save \/ CloseModal \/ ShowTab \/ PostComment
    \/ \E r \in Req : \/ Take(r) \/ OpenAnswered(r) \/ ListingAnswered(r) \/ SaveAnswered(r)
                      \/ NotesAnswered(r) \/ PostAnswered(r)
                      \/ ErrorAnswered(r) \/ Lost(r)

Spec == Init /\ [][Next]_vars

-----------------------------------------------------------------------------
(***************************************************************************)
(* What holds of it                                                        *)
(***************************************************************************)

\* The types of the variables: only a detail view has notes.
TypeOK ==
    /\ open \in BOOLEAN /\ nOpen \in View
    /\ body \in [kind : {"empty", "detail", "form", "loading", "listing"},
                 item : Item \cup {NoItem}, view : View, asked : BOOLEAN,
                 listed : {"no", "read", "error"}, list : Seq(NoteId)]
    /\ (Listed => body.kind = "detail") /\ (body.kind = "detail" => body.item \in Item)
    /\ note \in Seq([item : Item, view : View, stored : BOOLEAN, told : View \cup {-1}])
    /\ req \in [Req -> [op : {"free", "detail", "form", "listing", "save", "notes", "post"},
                        item : Item \cup {NoItem}, view : View, note : 0..MaxNote,
                        taken : BOOLEAN, data : Seq(NoteId)]]

\* The list of notes in a detail view has only notes of its item.  The user is shown what
\* the client was told is there: every note posted from this view and, unless the list is
\* one put up for an error, every note of the item told before the view was opened.
\* A note is there twice only when it was posted from an earlier view and the client told
\* after the list of this one had been asked for: renderComments reads it, and postComment
\* adds it once more.
NotesAreShown ==
    Listed =>
      LET l == body.list
      IN  /\ \A k \in DOMAIN l : note[l[k]].item = body.item
          /\ \A n \in DOMAIN note :
                /\ note[n].item = body.item /\ note[n].told >= 0
                /\ note[n].view = body.view \/ (body.listed = "read" /\ note[n].told < body.view)
                => Contains(l, n)
          /\ \A j, k \in DOMAIN l :
                l[j] = l[k] /\ j # k =>
                   note[l[j]].view < body.view /\ note[l[j]].told >= body.view

=============================================================================
