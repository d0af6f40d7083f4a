----------------------------- MODULE PhotoGallery -----------------------------
(***************************************************************************)
(* The photos of items: the routes of app_photos.cpp and the two older     *)
(* ones of app_items.cpp, which share the column items.photo_ref and the   *)
(* directory of files.  Every statement is an action: the database runs    *)
(* one at a time, and no route of these uses a transaction.  A request     *)
(* comes in with its first statement.  The order of an item's photos is    *)
(* left out: where the code takes the first, any may be it.                *)
(***************************************************************************)
EXTENDS Integers, FiniteSets

CONSTANTS Thread,  \* the threads of requests
          Item,    \* bound: the items
          PhotoId, \* bound: the ids of photos, each given once (AUTOINCREMENT)
          Nothing, \* the item or photo of no request
          MaxPart, \* bound: the files of one upload
          Given    \* bound: the names clients give the file of an upload of one

\* The name the server gives a file tells the item and the number of the part, which is 0
\* for the one file of the older route.  The one a client gives may be another item's.
Name   == Item \X (0..MaxPart)
NoName == <<Nothing, 0>>

ASSUME PhotoGalleryAssumption ==
    /\ Nothing \notin Item \cup PhotoId
    /\ MaxPart \in Nat /\ Given \subseteq Name

VARIABLES
    items,     \* the items there are
    ref,       \* items.photo_ref
    photo,     \* the rows of item_photos, by id
    used,      \* the ids given
    disk,      \* the files in photos_dir
    pc,        \* the statement each thread executes next
    req,       \* its request and local variables
    disturbed, \* observer: the items whose primary photo need not be right
    taken      \* observer: the files that were removed although a photo had them

table   == <<items, ref, photo, used>>
threads == <<pc, req>>
vars    == <<table, disk, threads, disturbed, taken>>

PhotoRow(i, f, p) == [item |-> i, file |-> f, primary |-> p]

(***************************************************************************)
(* A request has its item and photo; then the file name it goes on with,   *)
(* the files it has yet to enter, and whether the photo is to be (or was)  *)
(* primary.                                                                *)
(***************************************************************************)
Request(i, p, f, parts, prim) ==
    [item |-> i, photo |-> p, file |-> f, parts |-> parts, prim |-> prim]

NoRequest == Request(Nothing, Nothing, NoName, {}, FALSE)

Goes(t, label, r) ==
    /\ pc'  = [pc EXCEPT ![t] = label]
    /\ req' = [req EXCEPT ![t] = r]

Ends(t) == Goes(t, "idle", NoRequest)

Photos(i)    == {p \in DOMAIN photo : photo[p].item = i}
Primaries(i) == {p \in Photos(i) : photo[p].primary}

Init ==
    /\ items = Item /\ ref = [i \in Item |-> NoName]
    /\ photo = [p \in {} |-> NoRequest] /\ used = {}
    /\ disk = {}
    /\ pc = [t \in Thread |-> "idle"] /\ req = [t \in Thread |-> NoRequest]
    /\ disturbed = {} /\ taken = {}

(***************************************************************************)
(* The items a request is about: the one of its path, and the one its      *)
(* photo is of.  An upload behind a primary photo, and the deletion of     *)
(* another photo, leave the primary aside.  Any other request disturbs its *)
(* items when it overlaps with one about one of them, or when its photo is *)
(* not one of its item.                                                    *)
(***************************************************************************)
About(i, p) == {i} \cup {photo[q].item : q \in {p} \cap DOMAIN photo}

UnderWay == {t \in Thread : pc[t] # "idle"}
Busy(t)  == About(req[t].item, req[t].photo)

Spares(label, r) ==
    ~r.prim /\ (label \in {"write", "insert"} \/ (label \in {"unlink", "drop"} /\ r.photo # Nothing))
Aside(t) == Spares(pc[t], req[t])

Disturbs(label, r) ==
    IF \/ r.photo # Nothing /\ r.photo \notin Photos(r.item)
       \/ \E u \in UnderWay :
            Busy(u) \cap About(r.item, r.photo) # {} /\ ~(Spares(label, r) /\ Aside(u))
    THEN About(r.item, r.photo) ELSE {}

\* A request comes in.  It is observed which items' primary it upsets, or puts right, all by
\* itself.
Comes(t, label, r, upsets, rights) ==
    /\ pc[t] = "idle" /\ Goes(t, label, r)
    /\ disturbed' = ((disturbed \cup upsets) \ rights) \cup Disturbs(label, r)

-----------------------------------------------------------------------------
(***************************************************************************)
(* POST /api/items/:id/photos                                              *)
(***************************************************************************)

\* The files of a multipart body are numbered from one, as those of every request, whatever
\* files the item has; a body that is one file has the name the client gives.
Bodies(i) == {{<<i, k>> : k \in 1..n} : n \in 1..MaxPart} \cup {{f} : f \in Given}

\* The ids that are left for an upload by those under way.
Left == Cardinality(PhotoId \ used) - Cardinality(UNION {{t} \X req[t].parts : t \in Thread})

\* The request counts the item's primary photos.
Upload(t) ==
    \E i \in Item : \E files \in Bodies(i) :
      /\ Cardinality(files) <= Left
      /\ Comes(t, "write", Request(i, Nothing, NoName, files, Primaries(i) = {}), {}, {})
      /\ UNCHANGED <<table, disk, taken>>

\* The files that can be opened are written, at once: each is this request's alone to write.
\* With none it ends.
Written(t, files, entered) ==
    /\ disk' = disk \cup files /\ taken' = taken \ files
    /\ IF files = {} THEN Ends(t) ELSE Goes(t, "insert", [req[t] EXCEPT !.parts = entered])
    /\ UNCHANGED <<table, disturbed>>

\* Mutation: a file that cannot be opened is entered with the others.
WriteFiles_Unchecked(t) ==
    pc[t] = "write" /\ \E files \in SUBSET req[t].parts : Written(t, files, req[t].parts)

WriteFiles(t) ==
    pc[t] = "write" /\ \E files \in SUBSET req[t].parts : Written(t, files, files)

\* Mutation: foreign keys are not enforced.
InsertPhoto_NoKey(t) ==
    /\ pc[t] = "insert"
    /\ \E f \in req[t].parts, p \in PhotoId \ used :
         LET r    == req[t]
             rest == [r EXCEPT !.parts = @ \ {f}, !.prim = FALSE,
                               !.file = IF r.prim THEN f ELSE NoName]
         IN  /\ \A g \in r.parts : f[2] <= g[2]
             /\ used' = used \cup {p}
             /\ photo' = [q \in DOMAIN photo \cup {p} |->
                            IF q = p THEN PhotoRow(r.item, f, r.prim) ELSE photo[q]]
             /\ IF r.prim THEN Goes(t, "ref", rest)
                ELSE IF rest.parts = {} THEN Ends(t) ELSE Goes(t, "insert", rest)
    /\ UNCHANGED <<items, ref, disk, disturbed, taken>>

\* The row of the next file, which the foreign key refuses when the item is gone.  The
\* first is primary if one was needed, and photo_ref is set next, refused or not.
InsertPhoto(t) ==
    /\ pc[t] = "insert"
    /\ \E f \in req[t].parts, p \in PhotoId \ used :
         LET r    == req[t]
             rest == [r EXCEPT !.parts = @ \ {f}, !.prim = FALSE,
                               !.file = IF r.prim THEN f ELSE NoName]
         IN  /\ \A g \in r.parts : f[2] <= g[2]
             /\ IF r.item \in items
                THEN /\ used' = used \cup {p}
                     /\ photo' = [q \in DOMAIN photo \cup {p} |->
                                    IF q = p THEN PhotoRow(r.item, f, r.prim) ELSE photo[q]]
                ELSE UNCHANGED <<photo, used>>
             /\ IF r.prim THEN Goes(t, "ref", rest)
                ELSE IF rest.parts = {} THEN Ends(t) ELSE Goes(t, "insert", rest)
    /\ UNCHANGED <<items, ref, disk, disturbed, taken>>

\* `UPDATE items SET photo_ref=?`, of an item that may be gone: the last statement of all
\* these requests but an upload of several files.
SetRef(t) ==
    /\ pc[t] = "ref"
    /\ ref' = [ref EXCEPT ![req[t].item] = IF req[t].item \in items THEN req[t].file ELSE @]
    /\ IF req[t].parts = {} THEN Ends(t)
       ELSE Goes(t, "insert", [req[t] EXCEPT !.file = NoName])
    /\ UNCHANGED <<items, photo, used, disk, disturbed, taken>>

-----------------------------------------------------------------------------
(***************************************************************************)
(* PUT /api/items/:id/photos/:photo_id                                     *)
(***************************************************************************)

\* The item's photos are cleared, whatever photo the path names.  Alone and for a photo of
\* the item, the request puts the item right.
PutPrimary(t) ==
    \E i \in Item, p \in used :
      /\ Comes(t, "set", Request(i, p, NoName, {}, FALSE), {}, {i})
      /\ photo' = [q \in DOMAIN photo |->
                     IF q \in Photos(i) THEN [photo[q] EXCEPT !.primary = FALSE] ELSE photo[q]]
      /\ UNCHANGED <<items, ref, used, disk, taken>>

\* The photo becomes primary, if it is still there.
SetPrimary(t, label) ==
    /\ photo' = [q \in DOMAIN photo |->
                   IF q = req[t].photo THEN [photo[q] EXCEPT !.primary = TRUE] ELSE photo[q]]
    /\ Goes(t, label, req[t])
    /\ UNCHANGED <<items, ref, used, disk, disturbed, taken>>

MakePrimary(t) == pc[t] = "set" /\ SetPrimary(t, "name")

ReadName(t) ==
    /\ pc[t] = "name"
    /\ LET p == req[t].photo
       IN  IF p \in DOMAIN photo THEN Goes(t, "ref", [req[t] EXCEPT !.file = photo[p].file])
           ELSE Ends(t)
    /\ UNCHANGED <<table, disk, disturbed, taken>>

-----------------------------------------------------------------------------
(***************************************************************************)
(* DELETE /api/items/:id/photos/:photo_id                                  *)
(***************************************************************************)

\* The file's name and whether the photo is primary are read; an id without a row does
\* nothing.
DeletePhoto(t) ==
    \E i \in Item, p \in DOMAIN photo :
      /\ Comes(t, "unlink", Request(i, p, photo[p].file, {}, photo[p].primary), {}, {})
      /\ UNCHANGED <<table, disk, taken>>

\* The file is another photo's as well: one of a row, or one an upload has yet to enter.
Shared(t) ==
    \/ \E p \in DOMAIN photo \ {req[t].photo} : photo[p].file = req[t].file
    \/ \E u \in Thread : pc[u] # "write" /\ req[t].file \in req[u].parts

\* The file is removed, whoever has it.
Unlink(t) ==
    /\ pc[t] = "unlink"
    /\ disk' = disk \ {req[t].file}
    /\ taken' = IF Shared(t) THEN taken \cup {req[t].file} ELSE taken
    /\ IF req[t].photo = Nothing THEN Goes(t, "ref", [req[t] EXCEPT !.file = NoName])
       ELSE Goes(t, "drop", req[t])
    /\ UNCHANGED <<table, disturbed>>

\* Mutation: no photo takes the primary's place.
DropRow_Done(t) ==
    /\ pc[t] = "drop"
    /\ photo' = [q \in DOMAIN photo \ {req[t].photo} |-> photo[q]]
    /\ Ends(t)
    /\ UNCHANGED <<items, ref, used, disk, disturbed, taken>>

DropRow(t) ==
    /\ pc[t] = "drop"
    /\ photo' = [q \in DOMAIN photo \ {req[t].photo} |-> photo[q]]
    /\ IF req[t].prim THEN Goes(t, "next", [req[t] EXCEPT !.photo = Nothing]) ELSE Ends(t)
    /\ UNCHANGED <<items, ref, used, disk, disturbed, taken>>

\* Another photo of the path's item is to be primary; photo_ref is emptied if none is left.
NextPhoto(t) ==
    /\ pc[t] = "next"
    /\ IF Photos(req[t].item) = {}
       THEN Goes(t, "ref", [req[t] EXCEPT !.prim = FALSE, !.file = NoName])
       ELSE \E p \in Photos(req[t].item) :
              Goes(t, "promote", [req[t] EXCEPT !.prim = FALSE, !.photo = p,
                                                !.file = photo[p].file])
    /\ UNCHANGED <<table, disk, disturbed, taken>>

Promote(t) == pc[t] = "promote" /\ SetPrimary(t, "ref")

-----------------------------------------------------------------------------
(***************************************************************************)
(* The routes of app_items.cpp                                             *)
(***************************************************************************)

\* POST /api/items/:id/photo: the file is written, and photo_ref names it.
OldUpload(t) ==
    \E i \in Item :
      /\ Comes(t, "ref", Request(i, Nothing, <<i, 0>>, {}, FALSE), {i}, {})
      /\ disk' = disk \cup {<<i, 0>>} /\ taken' = taken \ {<<i, 0>>}
      /\ UNCHANGED table

\* DELETE /api/items/:id/photo: photo_ref is read, and its file removed, a photo's or not.
OldDelete(t) ==
    \E i \in Item :
      /\ Comes(t, IF ref[i] = NoName THEN "ref" ELSE "unlink",
               Request(i, Nothing, ref[i], {}, FALSE), {i}, {})
      /\ UNCHANGED <<table, disk, taken>>

\* PUT /api/items/:id reads the row, writes the history, and writes the row back with the
\* photo_ref it read or the one the body gives, which the web client's never does (bound: an
\* empty one).
PutItem(t) ==
    \E i \in items : \E f \in {ref[i], NoName} :
      /\ Comes(t, "ref", Request(i, Nothing, f, {}, FALSE), IF f = ref[i] THEN {} ELSE {i}, {})
      /\ UNCHANGED <<table, disk, taken>>

\* DELETE /api/items/:id: the rows of item_photos go with the item's, the files stay.
DeleteItem ==
    /\ \E i \in items :
         /\ items' = items \ {i}
         /\ ref'   = [ref EXCEPT ![i] = NoName]
         /\ photo' = [p \in DOMAIN photo \ Photos(i) |-> photo[p]]
    /\ UNCHANGED <<used, disk, threads, disturbed, taken>>

\* The process dies: what the threads had yet to do is not done.
Crash ==
    /\ UnderWay # {}
    /\ pc' = [t \in Thread |-> "idle"] /\ req' = [t \in Thread |-> NoRequest]
    /\ disturbed' = disturbed \cup UNION {Busy(t) : t \in {u \in UnderWay : ~Aside(u)}}
    /\ taken' = taken \cup ({req[t].file : t \in {u \in UnderWay : pc[u] = "drop"}} \ disk)
    /\ UNCHANGED <<table, disk>>

Step(t) ==
    \/ Upload(t) \/ WriteFiles(t) \/ InsertPhoto(t) \/ SetRef(t)
    \/ PutPrimary(t) \/ MakePrimary(t) \/ ReadName(t)
    \/ DeletePhoto(t) \/ Unlink(t) \/ DropRow(t) \/ NextPhoto(t) \/ Promote(t)
    \/ OldUpload(t) \/ OldDelete(t) \/ PutItem(t)

Next == (\E t \in Thread : Step(t)) \/ DeleteItem \/ Crash

Spec == Init /\ [][Next]_vars

-----------------------------------------------------------------------------
(***************************************************************************)
(* What holds of it                                                        *)
(***************************************************************************)

Label == {"idle", "write", "insert", "ref", "set", "name", "unlink", "drop", "next", "promote"}

\* The types of the variables: the rows are of items there are, and have ids that were given.
TypeOK ==
    /\ items \subseteq Item /\ ref \in [Item -> Name \cup {NoName}]
    /\ used \subseteq PhotoId /\ DOMAIN photo \subseteq used
    /\ \A p \in DOMAIN photo : photo[p] \in [item : items, file : Name, primary : BOOLEAN]
    /\ disk \subseteq Name
    /\ pc \in [Thread -> Label]
    /\ req \in [Thread -> [item : Item \cup {Nothing}, photo : used \cup {Nothing},
                           file : Name \cup {NoName}, parts : SUBSET Name, prim : BOOLEAN]]
    /\ disturbed \subseteq Item /\ taken \subseteq Name

Quiet(i) == \A t \in UnderWay : i \in Busy(t) => Aside(t)

\* An item with photos has one primary photo, whose file photo_ref names, and one without
\* has an empty photo_ref: while no request but uploads behind the primary and deletions of
\* other photos is about the item, in any number and cut short by crashes or not, as long as
\* the other requests came one at a time and ran to their end, or since a PUT that set its
\* primary did (an overlap with one of these, a crash in one, a photo of another item in
\* the path, or one of the older routes may leave anything until then).
PrimaryIsShown ==
    \A i \in items :
      Quiet(i) /\ i \notin disturbed =>
        \/ Photos(i) = {} /\ ref[i] = NoName
        \/ \E p \in Photos(i) : Primaries(i) = {p} /\ ref[i] = photo[p].file

\* Every photo's file is there, until its own deletion removes it: whatever requests come at
\* a time, it is gone only when another request removed it for a photo of the same name or
\* by the older route, or when a crash cut its deletion.
PhotosHaveFiles ==
    \A p \in DOMAIN photo :
      \/ photo[p].file \in disk \cup taken
      \/ \E t \in Thread : pc[t] = "drop" /\ req[t].photo = p

=============================================================================
